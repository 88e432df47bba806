---------------------------- MODULE KStringHandler ----------------------------
(***************************************************************************)
(* Texts made fit for showing (kstringhandler.cpp) and names for new files *)
(* (kfileutils.cpp).  A text is a sequence of characters, strings of one   *)
(* letter; the two marks that preProcessWrap() puts in are "break" and     *)
(* "join".  Code units are numbers of 16 bits.                             *)
(***************************************************************************)
EXTENDS Integers, SequencesExt

Lower == {"a", "b"}
Upper == {"A", "B"}
Opening == {"(", "{", "["}
Closing == {")", "}", "]"}
Punctuation == Closing \cup Opening \cup {"'", ",", ".", "-"}

IsSpace(text, i) == text[i] = " "

-----------------------------------------------------------------------------
(* Mutant: a break is put before a parenthesis wherever it is. *)
Before_AnyParenthesis(text, i, result) ==
    IF text[i] \in Opening THEN <<"break">>
    ELSE IF i = 1 \/ IsSpace(text, i - 1) \/ Last(result) = "break" THEN <<>>
    ELSE IF text[i] = "'" THEN <<"join">> ELSE <<>>

(* What goes before the i-th character, after result. *)
Before(text, i, result) ==
    IF i = 1 \/ IsSpace(text, i - 1) \/ Last(result) = "break" THEN <<>>
    ELSE IF text[i] \in Opening THEN <<"break">>
    ELSE IF text[i] = "'" THEN <<"join">> ELSE <<>>

(* What goes after it: between the words of a camel, when the text has no    *)
(* spaces, and after punctuation.                                          *)
After(text, i) ==
    LET camel == /\ \A j \in DOMAIN text : ~IsSpace(text, j)
                 /\ text[i] \in Lower /\ i < Len(text) /\ text[i + 1] \in Upper
        punctuation == /\ text[i] \in Punctuation \ (Opening \cup {"'"})
                       /\ i < Len(text) /\ ~IsSpace(text, i + 1)
    IN IF camel \/ punctuation THEN <<"break">> ELSE <<>>

preProcessWrap(text) ==
    FoldLeft(LAMBDA result, i : result \o Before(text, i, result) \o <<text[i]>> \o After(text, i),
             <<>>, [i \in DOMAIN text |-> i])

Left(text, n) == SubSeq(text, 1, n)
Right(text, n) == IF n < 0 \/ n > Len(text) THEN text ELSE SubSeq(text, Len(text) - n + 1, Len(text))
Dots == <<".", ".", ".">>

lsqueeze(text, maxlen) ==
    IF Len(text) > maxlen THEN Dots \o Right(text, maxlen - 3) ELSE text
rsqueeze(text, maxlen) ==
    IF Len(text) > maxlen
    THEN (IF maxlen < 3 THEN text ELSE Left(text, maxlen - 3)) \o Dots ELSE text
csqueeze(text, maxlen) ==
    IF Len(text) > maxlen /\ maxlen > 3
    THEN LET part == (maxlen - 3) \div 2 IN Left(text, part) \o Dots \o Right(text, part)
    ELSE text

(* The pieces of a text between separators, the empty ones left out; with a  *)
(* limit, the last piece is the rest of the text.                          *)
Piece(list, piece) == IF piece = <<>> THEN list ELSE Append(list, piece)

RECURSIVE SplitFrom(_, _, _, _, _)
SplitFrom(sep, text, max, start, list) ==
    LET places == {i \in start .. Len(text) - Len(sep) + 1 : SubSeq(text, i, i + Len(sep) - 1) = sep}
    IN IF places = {} \/ (max # 0 /\ Len(list) >= max - 1)
       THEN Piece(list, SubSeq(text, start, Len(text)))
       ELSE LET at == CHOOSE i \in places : \A j \in places : i <= j
            IN SplitFrom(sep, text, max, at + Len(sep), Piece(list, SubSeq(text, start, at - 1)))

perlSplit(sep, text, max) == SplitFrom(sep, text, max, 1, <<>>)

(* perlSplit() with an expression that matches the runs of some characters. *)
perlSplitRuns(seps, text, max) ==
    LET Is(i) == i \in DOMAIN text /\ text[i] \in seps
        starts == SetToSortSeq({i \in DOMAIN text : Is(i) /\ ~Is(i - 1)}, <)
        End(i) == CHOOSE e \in i .. Len(text) + 1 : ~Is(e) /\ \A j \in i .. e - 1 : Is(j)
        Match(s, i) ==
            IF max # 0 /\ Len(s.list) >= max - 1 THEN s
            ELSE [start |-> End(i), list |-> Piece(s.list, SubSeq(text, s.start, i - 1))]
        s == FoldLeft(Match, [start |-> 1, list |-> <<>>], starts)
    IN Piece(s.list, SubSeq(text, s.start, Len(text)))

(* obscure(), of one code unit. *)
obscure(uc) == IF uc <= 33 THEN uc ELSE (65567 - uc) % 65536

(* capwords(): words are what lies between single spaces. *)
ToUpper(c) == CASE c = "a" -> "A" [] c = "b" -> "B" [] OTHER -> c
capwords(text) ==
    [i \in DOMAIN text |-> IF i = 1 \/ IsSpace(text, i - 1) THEN ToUpper(text[i]) ELSE text[i]]

-----------------------------------------------------------------------------
(* A text prepared for wrapping is the text with marks in it: a line never    *)
(* breaks at its ends or twice in one place, and no mark is put where a      *)
(* space allows a break already (kstringhandler.cpp:191).                  *)
WrapSound(text) ==
    LET wrapped == preProcessWrap(text)
        Marks == {"break", "join"}
    IN /\ SelectSeq(wrapped, LAMBDA c : c \notin Marks) = text
       /\ \A i \in DOMAIN wrapped : wrapped[i] \in Marks =>
             /\ i > 1 /\ i < Len(wrapped)
             /\ wrapped[i - 1] \notin Marks \cup {" "}
             /\ wrapped[i + 1] \notin Marks \cup (IF wrapped[i] = "break" THEN {" "} ELSE {})

(* A squeezed text is no longer than the limit, as long as that has room for  *)
(* the dots, and keeps its ends.                                           *)
SqueezeFits(text, maxlen) ==
    /\ maxlen >= 3 => Len(lsqueeze(text, maxlen)) <= maxlen /\ Len(rsqueeze(text, maxlen)) <= maxlen
    /\ maxlen > 3 => Len(csqueeze(text, maxlen)) <= maxlen
    /\ Len(text) <= maxlen =>
          {lsqueeze(text, maxlen), rsqueeze(text, maxlen), csqueeze(text, maxlen)} = {text}

(* perlSplit() loses nothing but separators: the pieces are in the text in    *)
(* order, none is empty, none but the last of a limited split contains the    *)
(* separator, and there are no more than the limit.                        *)
SplitSound(sep, text, max) ==
    LET list == perlSplit(sep, text, max)
        Splits(piece) == \E i \in 1 .. Len(piece) - Len(sep) + 1 :
                               SubSeq(piece, i, i + Len(sep) - 1) = sep
    IN /\ max > 0 => Len(list) <= max
       /\ \A i \in DOMAIN list :
             list[i] # <<>> /\ (Splits(list[i]) => max > 0 /\ i = max)
       /\ Len(sep) = 1 =>
             SelectSeq(text, LAMBDA c : c # sep[1])
                = SelectSeq(FlattenSeq(list), LAMBDA c : c # sep[1])

(* So does the one with an expression, whose pieces are found by a separator    *)
(* too when it is one character that never comes twice in a row.            *)
RunsSound(seps, text, max) ==
    LET list == perlSplitRuns(seps, text, max)
        Rest(t) == SelectSeq(t, LAMBDA c : c \notin seps)
    IN /\ max > 0 => Len(list) <= max
       /\ \A i \in DOMAIN list :
             list[i] # <<>> /\ (Rest(list[i]) # list[i] => max > 0 /\ i = max)
       /\ Rest(text) = Rest(FlattenSeq(list))
       /\ \A c \in seps : Cardinality(seps) = 1 /\ (\A i \in 1 .. Len(text) - 1 : <<c, c>> # SubSeq(text, i, i + 1)) =>
             list = perlSplit(<<c>>, text, max)

(* Obscuring twice gives the code unit back, but for the two noncharacters. *)
ObscureReturns(uc) == uc < 65534 => obscure(obscure(uc)) = uc

-----------------------------------------------------------------------------
(* A file name: the parts of its base, words and numbers in parentheses, and *)
(* its suffix, which the MIME database knows or which begins with the last *)
(* dot.  A hidden file is all suffix.                                      *)
Word(w) == [word |-> w, number |-> 0]
Number(n) == [word |-> "", number |-> n]
IsNumber(part) == part.word = ""

Hidden(name) == name.base = <<>>

(* makeSuggestedName(): the last number is raised, wherever it stands. *)
makeSuggestedName(name) ==
    LET base == IF Hidden(name) THEN <<Word(".")>> ELSE name.base
        numbers == {i \in DOMAIN base : IsNumber(base[i])}
    IN IF numbers = {} THEN [name EXCEPT !.base = Append(base, Number(1))]
       ELSE LET at == CHOOSE i \in numbers : \A j \in numbers : j <= i
            IN [name EXCEPT !.base = [base EXCEPT ![at].number = @ + 1]]

RECURSIVE Unused(_, _)
Unused(name, existing) ==
    IF name \in existing THEN Unused(makeSuggestedName(name), existing) ELSE name
suggestName(name, existing) == Unused(makeSuggestedName(name), existing)

(* findAllUniqueFiles(): of the directories in order, the first of a name. *)
findAllUniqueFiles(dirs) ==
    FoldLeft(LAMBDA found, i :
                 found \cup {<<i, f>> : f \in {g \in dirs[i] : \A p \in found : p[2] # g}},
             {}, [i \in DOMAIN dirs |-> i])

(* A suggested name is not that of a file, has the suffix of the old one, and *)
(* every name between the two is taken: no number is skipped.                *)
SuggestionIsNew(name, existing) ==
    LET new == suggestName(name, existing)
        at == CHOOSE i \in DOMAIN new.base : IsNumber(new.base[i])
                  /\ \A j \in DOMAIN new.base : IsNumber(new.base[j]) => j <= i
        With(n) == [new EXCEPT !.base[at].number = n]
        first == makeSuggestedName(name).base[at].number
    IN /\ new \notin existing \cup {name} /\ new.suffix = name.suffix
       /\ \A n \in first .. new.base[at].number - 1 : With(n) \in existing

(* A file in one directory hides those of its name in later ones. *)
FirstFileWins(dirs) ==
    LET found == findAllUniqueFiles(dirs)
    IN \A f \in UNION {dirs[i] : i \in DOMAIN dirs} :
          \E p \in found : /\ p[2] = f /\ f \in dirs[p[1]]
                           /\ \A i \in 1 .. p[1] - 1 : f \notin dirs[i]
                           /\ \A q \in found : q[2] = f => q = p
=============================================================================
