------------------------------- MODULE KShell -------------------------------
(***************************************************************************)
(* Quoting and splitting of command lines (kshell_unix.cpp), the tilde of  *)
(* home directories (kshell.cpp), and macros in command lines.             *)
(*                                                                         *)
(* A text is a sequence of characters, which are strings of one letter.    *)
(* The numeric escapes of dollar quotes are left out, and "^" stands for   *)
(* every control character.  A backquote is written as a word.             *)
(***************************************************************************)
EXTENDS Integers, SequencesExt

CONSTANTS
    User,       \* the name of a user, a text
    HomePath,   \* the home directory of the caller, a text
    UserHome    \* the home directory of User

Letters == {"a", "b", "h", "n", "_"}
Digits == {"0"}
Identifier == Letters \cup Digits
IsControl(c) == c = "^"

isQuoteMeta(c) == c \in {"\\", "'", "\"", "$"}
isMeta(c) == c \in {"\\", "'", "\"", "$", "backquote", "<", ">", "|", ";", "&", "(", ")",
                    "{", "}", "*", "?", "#", "[", "]"}
isSpecial(c) == isMeta(c) \/ IsControl(c) \/ c \in {" ", "!", "~"}

At(text, p) == IF p \in DOMAIN text THEN text[p] ELSE "end"

(* QString::indexOf() from p on; one past the end when there is none. *)
IndexOf(text, set, p) ==
    CHOOSE q \in p .. Len(text) + 1 :
        /\ q <= Len(text) => text[q] \in set
        /\ \A o \in p .. q - 1 : text[o] \notin set

-----------------------------------------------------------------------------
(* Mutant: a quote inside the argument is left alone. *)
Escaped_Not(arg) == arg

(* Every quote ends the quoted part, is written as \' and begins another. *)
Escaped(arg) ==
    FoldLeft(LAMBDA done, c : done \o IF c = "'" THEN <<"'", "\\", "'", "'">> ELSE <<c>>,
             <<>>, arg)

quoteArg(arg) ==
    LET quoted == SelectSeq(arg, LAMBDA c : ~IsControl(c))
    IN IF quoted = <<>> THEN <<"'", "'">>
       ELSE IF \E i \in DOMAIN quoted : isSpecial(quoted[i])
       THEN <<"'">> \o Escaped(quoted) \o <<"'">>
       ELSE quoted

joinArgs(args) ==
    FoldLeft(LAMBDA ret, arg : IF ret = <<>> THEN quoteArg(arg) ELSE ret \o <<" ">> \o quoteArg(arg),
             <<>>, args)

-----------------------------------------------------------------------------
homeDir(user) ==
    CASE user = <<>> -> HomePath [] user = User -> UserHome [] OTHER -> <<>>

Failed(error) == [error |-> error, word |-> <<>>, next |-> 0]
Done(word, next) == [error |-> "NoError", word |-> word, next |-> next]

(* What a backslash and the character after it give in double quotes. *)
InDouble(c, meta) ==
    IF c \in {"\"", "\\"} \/ (meta /\ c \in {"$", "backquote"}) THEN <<c>> ELSE <<"\\", c>>

(* The same in dollar quotes; n is the one letter here that is an escape. *)
InDollar(c) ==
    CASE c \in {"\\", "'"} -> <<c>> [] c \in {"a", "b", "n"} -> <<"^">> [] OTHER -> <<"\\", c>>

(* A part of a word in double or dollar quotes that goes on at p. *)
RECURSIVE Quoted(_, _, _, _, _)
Quoted(text, p, quote, meta, word) ==
    LET c == At(text, p)
        literal == IF quote = "\"" THEN InDouble(At(text, p + 1), meta)
                   ELSE InDollar(At(text, p + 1))
    IN CASE c = "end" \/ (c = "\\" /\ p = Len(text)) -> Failed("BadQuoting")
         [] c = quote -> Done(word, p + 1)
         [] c = "\\" /\ p < Len(text) -> Quoted(text, p + 2, quote, meta, word \o literal)
         [] quote = "\"" /\ meta /\ c \in {"$", "backquote"} -> Failed("FoundMeta")
         [] OTHER -> Quoted(text, p + 1, quote, meta, Append(word, c))

(* The rest of a word that goes on at p, up to a space that is not quoted. *)
RECURSIVE Word(_, _, _, _)
Word(text, p, meta, word) ==
    LET c == At(text, p)
        After(part) == IF part.error = "NoError"
                       THEN Word(text, part.next, meta, part.word) ELSE part
    IN CASE c \in {" ", "end"} -> Done(word, p + 1)
         [] c = "'" ->
              LET q == IndexOf(text, {"'"}, p + 1)
              IN IF q > Len(text) THEN Failed("BadQuoting")
                 ELSE Word(text, q + 1, meta, word \o SubSeq(text, p + 1, q - 1))
         [] c = "\"" -> After(Quoted(text, p + 1, "\"", meta, word))
         [] c = "$" /\ At(text, p + 1) = "'" -> After(Quoted(text, p + 2, "'", meta, word))
         [] c = "\\" ->
              IF p = Len(text) THEN Failed("BadQuoting")
              ELSE Word(text, p + 2, meta, Append(word, text[p + 1]))
         [] OTHER ->
              IF meta /\ isMeta(c) THEN Failed("FoundMeta")
              ELSE Word(text, p + 1, meta, Append(word, c))

(* The word that begins at p is an assignment of a shell variable. *)
IsAssignment(text, p) ==
    /\ At(text, p) \in Letters
    /\ \E q \in p + 1 .. Len(text) :
         text[q] = "=" /\ \A o \in p .. q - 1 : text[o] \in Identifier

(* The word that begins at p with a tilde.  A tilde that is followed by a     *)
(* quote or by no user stays what it is.                                   *)
TildeWord(text, p, meta) ==
    LET quoteAt == IndexOf(text, {c \in ToSet(text) : isQuoteMeta(c)}, p + 1)
        metaAt == IndexOf(text, {c \in ToSet(text) : meta /\ isMeta(c)}, p + 1)
        q == IndexOf(text, {"/", " "}, p + 1)
        home == homeDir(SubSeq(text, p + 1, q - 1))
    IN CASE metaAt < q /\ metaAt < quoteAt -> Failed("FoundMeta")
         [] quoteAt < q /\ quoteAt <= metaAt -> Word(text, p, meta, <<>>)
         [] OTHER -> IF home = <<>> THEN Word(text, p, meta, <<>>)
                     ELSE Word(text, q, meta, home)

(* splitArgs() from p on; only the first word may not be an assignment. *)
RECURSIVE SplitFrom(_, _, _, _, _)
SplitFrom(text, p, flags, firstword, ret) ==
    LET meta == "AbortOnMeta" \in flags
        tilde == "TildeExpand" \in flags /\ At(text, p) = "~"
        w == CASE tilde -> TildeWord(text, p, meta)
               [] ~tilde /\ firstword /\ IsAssignment(text, p) -> Failed("FoundMeta")
               [] OTHER -> Word(text, p, meta, <<>>)
    IN CASE p > Len(text) -> [error |-> "NoError", args |-> ret]
         [] At(text, p) = " " -> SplitFrom(text, p + 1, flags, firstword, ret)
         [] OTHER -> IF w.error # "NoError" THEN [error |-> w.error, args |-> <<>>]
                     ELSE SplitFrom(text, w.next, flags, FALSE, Append(ret, w.word))

splitArgs(text, flags) == SplitFrom(text, 1, flags, "AbortOnMeta" \in flags, <<>>)

-----------------------------------------------------------------------------
(* A user nobody has, and a slash after it, give no path at all. *)
tildeExpand(fname) ==
    LET pos == IndexOf(fname, {"/"}, 1)
        home == homeDir(SubSeq(fname, 2, pos - 1))
    IN CASE At(fname, 1) = "~" ->
              IF home # <<>> THEN home \o SubSeq(fname, pos, Len(fname))
              ELSE IF pos > Len(fname) THEN fname ELSE <<>>
         [] At(fname, 1) = "\\" /\ At(fname, 2) = "~" -> Tail(fname)
         [] OTHER -> fname

tildeCollapse(path) ==
    IF IsPrefix(HomePath, path)
    THEN <<"~">> \o SubSeq(path, Len(HomePath) + 1, Len(path)) ELSE path

-----------------------------------------------------------------------------
(* Properties. *)

Flags == SUBSET {"TildeExpand", "AbortOnMeta"}

Uncontrolled(arg) == SelectSeq(arg, LAMBDA c : ~IsControl(c))

(* What joinArgs() makes of arguments is split into the same arguments       *)
(* without their control characters, whatever they contain and with all     *)
(* flags; only a command that reads like an assignment is not quoted, and   *)
(* refused by AbortOnMeta.                                                 *)
JoinSplits(args) ==
    \A flags \in Flags :
        LET split == splitArgs(joinArgs(args), flags)
        IN IF "AbortOnMeta" \in flags /\ args # <<>> /\ IsAssignment(joinArgs(args), 1)
           THEN split.error = "FoundMeta"
           ELSE split = [error |-> "NoError",
                         args |-> [n \in DOMAIN args |-> Uncontrolled(args[n])]]

(* Whatever way a command line is quoted in, what it is split into can be     *)
(* joined and split again; and a line that is a simple command as the shell *)
(* sees it is split alike by both kinds of splitting, but for a quoted      *)
(* dollar or backquote in double quotes.                                   *)
SplitJoins(text) ==
    \A flags \in Flags :
        LET split == splitArgs(text, flags)
        IN split.error = "NoError" =>
             /\ JoinSplits(split.args)
             /\ \/ split = splitArgs(text, flags \ {"AbortOnMeta"})
                \/ \E p \in DOMAIN text : text[p] = "\"" /\ {"$", "backquote"} \cap ToSet(text) # {}

(* Collapsing the home directory in a path can be undone, unless the path      *)
(* goes on where the name of the home directory ends.                      *)
TildeReturns(path) ==
    \/ tildeExpand(tildeCollapse(path)) = path
    \/ IsPrefix(HomePath, path) /\ At(path, Len(HomePath) + 1) \notin {"/", "end"}

QuotingReturns(text) ==
    /\ JoinSplits(<<text>>) /\ JoinSplits(<<<<"a">>, text>>) /\ JoinSplits(<<text, text>>)
    /\ SplitJoins(text)
    /\ TildeReturns(<<"/">> \o text)

-----------------------------------------------------------------------------
(* Expansion of macros of one character in a shell command, quoted as the  *)
(* place asks for (kmacroexpander.cpp, kmacroexpander_unix.cpp).  The      *)
(* expansion follows the nesting of quotes, substitutions and groups with  *)
(* a stack of states.                                                      *)

CONSTANTS
    Macro   \* the character of the one macro; the escape character is "%"

NoQuote == [current |-> "noquote", dquote |-> FALSE]

Escape(text, set) ==
    FoldLeft(LAMBDA done, c : done \o IF c \in set THEN <<"\\", c>> ELSE <<c>>, <<>>, text)

Join(values) ==
    FoldLeft(LAMBDA ret, v : IF ret = <<>> THEN v ELSE ret \o <<" ">> \o v, <<>>, values)

(* quoteArg() of this file, which keeps control characters. *)
quoteValue(arg) ==
    IF arg = <<>> THEN <<"'", "'">>
    ELSE IF \E i \in DOMAIN arg : isSpecial(arg[i]) THEN <<"'">> \o Escaped(arg) \o <<"'">>
    ELSE arg

joinValues(values) == Join([n \in DOMAIN values |-> quoteValue(values[n])])

(* expandEscapedMacro(): how long the macro at p is, and its values. *)
HitAt(text, p, values) ==
    CASE At(text, p) = "%" /\ At(text, p + 1) = "%" -> [len |-> 2, rst |-> <<<<"%">>>>]
      [] At(text, p) = "%" /\ At(text, p + 1) = Macro -> [len |-> 2, rst |-> values]
      [] OTHER -> [len |-> 0, rst |-> <<>>]

(* Mutant: a backslash in the value is not quoted in double quotes. *)
QuotedFor_KeepsBackslash(state, rst) ==
    CASE state.dquote -> Escape(Join(rst), {"$", "backquote", "\""})
      [] ~state.dquote /\ state.current = "dollarquote" -> Escape(Join(rst), {"'", "\\"})
      [] ~state.dquote /\ state.current = "singlequote" -> Escaped(Join(rst))
      [] OTHER -> joinValues(rst)

(* What a macro becomes in a state. *)
QuotedFor(state, rst) ==
    CASE state.dquote -> Escape(Join(rst), {"$", "backquote", "\"", "\\"})
      [] ~state.dquote /\ state.current = "dollarquote" -> Escape(Join(rst), {"'", "\\"})
      [] ~state.dquote /\ state.current = "singlequote" -> Escaped(Join(rst))
      [] OTHER -> joinValues(rst)

Replaced(text, p, len, by) == SubSeq(text, 1, p - 1) \o by \o SubSeq(text, p + len, Len(text))

-----------------------------------------------------------------------------
(* s.state is the innermost context and s.stack holds the outer ones; s.saves *)
(* is what the text was at the beginning of every $(( that may turn out to  *)
(* be a $( ( instead.                                                      *)
Skip(s, n) == [s EXCEPT !.pos = @ + n]
Enter(s, current, dquote) ==
    [s EXCEPT !.stack = Append(@, s.state),
              !.state = [current |-> current, dquote |-> dquote]]
Leave(s) == [s EXCEPT !.state = Last(s.stack), !.stack = Front(@)]

(* A dollar: what it opens, and in any case the next character is passed. *)
Dollar(s) ==
    LET c == At(s.text, s.pos + 1)
        t == Skip(s, 2)
    IN CASE c = "(" /\ At(s.text, s.pos + 2) = "(" ->
              LET u == Enter(Skip(s, 3), "math", s.state.dquote)
              IN [u EXCEPT !.saves = Append(@, [text |-> s.text, pos |-> u.pos])]
         [] c = "(" /\ At(s.text, s.pos + 2) # "(" -> Enter(t, "paren", FALSE)
         [] c = "{" -> Enter(t, "subst", s.state.dquote)
         [] c = "'" /\ ~s.state.dquote -> Enter(t, "dollarquote", FALSE)
         [] c = "\"" /\ ~s.state.dquote -> Enter(t, "doublequote", TRUE)
         [] OTHER -> t

(* The text of a backquote from p on with its closing quote as a parenthesis, *)
(* and without the backslashes that a substitution does not need.          *)
RECURSIVE Unbackquoted(_, _, _)
Unbackquoted(text, p, dquote) ==
    LET c == At(text, p)
        d == At(text, p + 1)
    IN CASE c = "end" -> [found |-> FALSE, text |-> text]
         [] c = "backquote" -> [found |-> TRUE, text |-> Replaced(text, p, 1, <<")">>)]
         [] c = "\\" ->
              IF d \in {"$", "backquote", "\\"} \/ (d = "\"" /\ dquote)
              THEN Unbackquoted(Replaced(text, p, 1, <<>>), p + 1, dquote)
              ELSE Unbackquoted(text, p + 2, dquote)
         [] OTHER -> Unbackquoted(text, p + 1, dquote)

Backquote(s) ==
    LET u == Unbackquoted(Replaced(s.text, s.pos, 1, <<"$", "(", " ">>), s.pos + 3, s.state.dquote)
    IN [Enter(Skip(s, 3), "paren", FALSE) EXCEPT !.text = u.text, !.failed = ~u.found]

(* A closing parenthesis. *)
CloseParen(s) ==
    CASE s.state.current = "math" /\ At(s.text, s.pos + 1) = ")" -> Leave(Skip(s, 2))
      [] s.state.current = "math" /\ At(s.text, s.pos + 1) # ")" ->
           LET save == Last(s.saves)
               paren == [current |-> "paren", dquote |-> FALSE]
           IN [s EXCEPT !.text = save.text, !.pos = save.pos, !.saves = Front(@),
                        !.state = paren, !.stack = Append(@, paren)]
      [] s.state.current = "paren" -> Leave(Skip(s, 1))
      [] OTHER -> [s EXCEPT !.broken = TRUE]

(* A character that begins no macro. *)
NoHit(s) ==
    LET c == At(s.text, s.pos)
        now == s.state.current
    IN CASE now = "singlequote" -> IF c = "'" THEN Leave(Skip(s, 1)) ELSE Skip(s, 1)
         [] now # "singlequote" /\ c = "\\" -> Skip(s, 2)
         [] now = "dollarquote" /\ c # "\\" ->
              IF c = "'" THEN Leave(Skip(s, 1)) ELSE Skip(s, 1)
         [] now \notin {"singlequote", "dollarquote"} /\ c = "$" -> Dollar(s)
         [] now \notin {"singlequote", "dollarquote"} /\ c = "backquote" -> Backquote(s)
         [] now = "doublequote" /\ c \notin {"\\", "$", "backquote"} ->
              IF c = "\"" THEN Leave(Skip(s, 1)) ELSE Skip(s, 1)
         [] now \in {"noquote", "paren", "subst", "group", "math"} /\ c = "'" ->
              IF s.state.dquote THEN Skip(s, 1) ELSE Enter(Skip(s, 1), "singlequote", FALSE)
         [] now \in {"noquote", "paren", "subst", "group", "math"} /\ c = "\"" ->
              IF s.state.dquote THEN Skip(s, 1) ELSE Enter(Skip(s, 1), "doublequote", TRUE)
         [] now = "subst" /\ c \notin {"\\", "$", "backquote", "'", "\""} ->
              IF c = "}" THEN Leave(Skip(s, 1)) ELSE Skip(s, 1)
         [] now \in {"noquote", "paren", "group", "math"} /\ c = ")" -> CloseParen(s)
         [] now \in {"noquote", "paren", "group", "math"} /\ c = "}" ->
              IF now = "group" THEN Leave(Skip(s, 1)) ELSE [s EXCEPT !.broken = TRUE]
         [] now \in {"noquote", "paren", "group", "math"} /\ c = "(" ->
              Enter(Skip(s, 1), "paren", s.state.dquote)
         [] now \in {"noquote", "paren", "group", "math"} /\ c = "{" ->
              Enter(Skip(s, 1), "group", s.state.dquote)
         [] OTHER -> Skip(s, 1)

RECURSIVE ExpandFrom(_, _)
ExpandFrom(s, values) ==
    LET hit == HitAt(s.text, s.pos, values)
        by == QuotedFor(s.state, hit.rst)
    IN IF s.pos > Len(s.text) \/ s.failed \/ s.broken THEN s
       ELSE IF hit.len > 0
       THEN ExpandFrom([s EXCEPT !.text = Replaced(@, s.pos, hit.len, by),
                                 !.pos = @ + Len(by)], values)
       ELSE ExpandFrom(NoHit(s), values)

(* expandMacrosShellQuote(): whether the whole text made sense, and what it is. *)
expandMacrosShellQuote(str, values) ==
    LET s == ExpandFrom([text |-> str, pos |-> 1, state |-> NoQuote, stack |-> <<>>,
                         saves |-> <<>>, failed |-> FALSE, broken |-> FALSE], values)
    IN [ok |-> ~s.failed /\ ~s.broken /\ s.stack = <<>> /\ s.pos = Len(s.text) + 1,
        text |-> s.text]

-----------------------------------------------------------------------------
(* Properties. *)

(* The command with a mark for every macro, and a word with marks filled in. *)
RECURSIVE Marked(_)
Marked(str) ==
    IF str = <<>> THEN <<>>
    ELSE IF HitAt(str, 1, <<>>).len > 0
    THEN <<IF str[2] = "%" THEN "percent" ELSE "value">> \o Marked(SubSeq(str, 3, Len(str)))
    ELSE <<str[1]>> \o Marked(Tail(str))

Filled(word, value) ==
    FlattenSeq([i \in DOMAIN word |->
        CASE word[i] = "value" -> value [] word[i] = "percent" -> <<"%">> [] OTHER -> <<word[i]>>])

(* The character before a macro takes away its meaning. *)
Swallowed(str) ==
    \E p \in DOMAIN str : str[p] \in {"\\", "$"} /\ At(str, p + 1) = "%"

AbortsOnMeta == {"AbortOnMeta"}

(* In a simple command, whatever its quoting, a macro stands for its value as  *)
(* it is: splitting the expanded command gives the words of the command     *)
(* with the value in them, not more words and no other characters.         *)
ExpandsInPlace(str, value) ==
    LET words == splitArgs(Marked(str), AbortsOnMeta)
        expanded == expandMacrosShellQuote(str, <<value>>)
    IN words.error = "NoError" /\ ~Swallowed(str) =>
        /\ expanded.ok
        /\ \/ IsAssignment(expanded.text, 1)
           \/ splitArgs(expanded.text, AbortsOnMeta) =
                [error |-> "NoError",
                 args |-> [n \in DOMAIN words.args |-> Filled(words.args[n], value)]]

(* A command that is expanded is expanded in the same way as a part of        *)
(* another one: in a substitution, also one in double quotes, whose macros  *)
(* are quoted as those of the command and not as those around it.          *)
ExpandsNested(str, value) ==
    LET alone == expandMacrosShellQuote(str, <<value>>)
        Within(before, after) ==
            expandMacrosShellQuote(before \o str \o after, <<value>>) =
                [ok |-> TRUE, text |-> before \o alone.text \o after]
    IN alone.ok /\ At(str, 1) # "(" /\ Last(<<"a">> \o str) \notin {"\\", "$"} =>
        /\ Within(<<"$", "(">>, <<")">>)
        /\ Within(<<"\"", "$", "(">>, <<")", "\"">>)

-----------------------------------------------------------------------------
(* Expansion of macros in a text that is not for a shell                   *)
(* (kmacroexpander.cpp).  A map gives the values of macros that are one    *)
(* character or a word; they are written plainly or after the escape       *)
(* character "%", words also in braces.                                    *)

No == [len |-> 0, rst |-> <<>>]
Percent == [len |-> 2, rst |-> <<<<"%">>>>]

(* The values of a macro that takes len characters, if there is one. *)
Hit(map, word, len) ==
    IF word # <<>> /\ word \in DOMAIN map THEN [len |-> len, rst |-> map[word]] ELSE No

isIdentifier(c) == c \in Identifier

(* The longest identifier that begins at p. *)
WordAt(text, p) ==
    SubSeq(text, p, IndexOf(text, {c \in ToSet(text) \cup {"end"} : ~isIdentifier(c)}, p) - 1)

charPlainMacro(map, text, p) == Hit(map, <<text[p]>>, 1)

charEscapedMacro(map, text, p) ==
    CASE p = Len(text) -> No
      [] At(text, p + 1) = "%" -> Percent
      [] OTHER -> Hit(map, <<At(text, p + 1)>>, 2)

(* Mutant: also the end of a word is a word. *)
wordPlainMacro_AnyEnd(map, text, p) == Hit(map, WordAt(text, p), Len(WordAt(text, p)))

wordPlainMacro(map, text, p) ==
    IF p > 1 /\ isIdentifier(At(text, p - 1)) THEN No
    ELSE Hit(map, WordAt(text, p), Len(WordAt(text, p)))

wordEscapedMacro(map, text, p) ==
    LET brace == IndexOf(text, {"}"}, p + 2)
    IN CASE p = Len(text) -> No
         [] At(text, p + 1) = "%" -> Percent
         [] At(text, p + 1) = "{" ->
              IF brace > Len(text) THEN No
              ELSE Hit(map, SubSeq(text, p + 2, brace - 1), brace - p + 1)
         [] OTHER -> Hit(map, WordAt(text, p + 1), 1 + Len(WordAt(text, p + 1)))

(* What begins at p; of is "char" or "word". *)
MacroAt(map, of, escaped, text, p) ==
    CASE escaped /\ text[p] # "%" -> No
      [] escaped /\ text[p] = "%" ->
           IF of = "char" THEN charEscapedMacro(map, text, p) ELSE wordEscapedMacro(map, text, p)
      [] OTHER -> IF of = "char" THEN charPlainMacro(map, text, p) ELSE wordPlainMacro(map, text, p)

(* expandMacros(): what was put in is not looked at again. *)
RECURSIVE ExpandMacros(_, _, _, _, _)
ExpandMacros(map, of, escaped, text, p) ==
    IF p > Len(text) THEN text
    ELSE LET hit == MacroAt(map, of, escaped, text, p)
         IN IF hit.len = 0 THEN ExpandMacros(map, of, escaped, text, p + 1)
            ELSE ExpandMacros(map, of, escaped, Replaced(text, p, hit.len, Join(hit.rst)),
                              p + Len(Join(hit.rst)))

expandMacros(map, of, escaped, text) == ExpandMacros(map, of, escaped, text, 1)

-----------------------------------------------------------------------------
(* A text whose escape characters are doubled stands for itself; and what is  *)
(* put in is not looked at again: it makes no difference whether the values  *)
(* are put in at once, or marks that are replaced by them afterwards.       *)
MapExpands(map, of, escaped, text) ==
    LET Doubled == [i \in DOMAIN text |-> IF text[i] = "%" THEN <<"%", "%">> ELSE <<text[i]>>]
        words == SetToSeq(DOMAIN map)
        Mark(n) == <<ToString(n)>>
        marks == [w \in DOMAIN map |-> <<Mark(IndexOf(words, {w}, 1))>>]
        marked == expandMacros(marks, of, escaped, text)
    IN /\ expandMacros(map, of, TRUE, FlattenSeq(Doubled)) = text
       /\ expandMacros(map, of, escaped, text) =
            FlattenSeq([i \in DOMAIN marked |->
                LET put == {n \in DOMAIN words : Mark(n) = <<marked[i]>>}
                IN IF put = {} THEN <<marked[i]>> ELSE Join(map[words[Max(put)]])])

(* A word of the text that is no macro stays, whatever macros it contains. *)
LongerWordsStay(map, text) ==
    text \notin DOMAIN map /\ ToSet(text) \subseteq Identifier =>
        expandMacros(map, "word", FALSE, text) = text
=============================================================================
