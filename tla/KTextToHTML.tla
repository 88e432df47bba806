----------------------------- MODULE KTextToHTML ------------------------------
(***************************************************************************)
(* Finding links, telephone numbers and what is highlighted in a plain     *)
(* text: convertToHtml() (ktexttohtml.cpp) with the options flags.  A text *)
(* is a sequence of characters.  The result is one too, in which "open"    *)
(* and "close" stand for the tags around a link or a highlighted word,     *)
(* "break" for that of a line break, "nbsp" for a space that does not      *)
(* break and "more" for every character of an entity but the first, which  *)
(* is written as what it shows.                                            *)
(*                                                                         *)
(* Two of the schemes stand for all, letters are "a" and those of the      *)
(* schemes, digits are "0" and "1".                                        *)
(***************************************************************************)
EXTENDS Integers, SequencesExt, TLC

Schemes == {<<"w", "w", "w", ".">>, <<"h", "t", ":", "/", "/">>}
Empty == Schemes \cup {<<"w", "w", "w">>, <<>>}

Digits == {"0", "1"}
IsLetterOrNumber(c) == c \in {"a", "w", "h", "t"} \cup Digits
IsSpace(c) == c \in {" ", "\t", "\n"}
AllowedSpecial == {".", "!", "#", "&", "-", "/", "?", "*", "+", "_"}

At(text, p) == IF p \in DOMAIN text THEN text[p] ELSE "end"

atUrl(text, p) ==
    /\ ~IsLetterOrNumber(At(text, p - 1)) /\ At(text, p - 1) \notin AllowedSpecial
    /\ \E scheme \in Schemes : IsPrefix(scheme, SubSeq(text, p, Len(text)))

-----------------------------------------------------------------------------
(* What ends a URL that is in brackets or quotes, where spaces are allowed. *)
Closing(before) ==
    CASE before = "[" -> "]" [] before = "<" -> ">" [] before = ">" -> "<"
      [] before = "\"" -> "\"" [] OTHER -> "none"

(* The characters of a URL from p on, after url; space and anchor tell what  *)
(* was passed.  The URL ends before position next.                         *)
RECURSIVE UrlFrom(_, _, _, _)
UrlFrom(text, p, before, s) ==
    LET c == At(text, p)
        after == Closing(before)
        ends == \/ c = "end"
                \/ IF after = "none" THEN IsSpace(c) ELSE c = after
                \/ ~s.space /\ c \in {"<", " "} /\ atUrl(text, p + 1)
                \/ ~s.anchor /\ c \in {"[", "]"}
        next == [s EXCEPT !.url = Append(@, c), !.space = FALSE, !.anchor = @ \/ c = "#"]
    IN CASE ends -> [url |-> s.url, next |-> p, bad |-> FALSE]
         [] ~ends /\ IsSpace(c) -> UrlFrom(text, p + 1, before, [s EXCEPT !.space = TRUE])
         [] ~ends /\ s.space /\ c = "<" ->
              [url |-> Append(s.url, " "), next |-> p, bad |-> FALSE]
         [] ~ends /\ c = "\"" -> [url |-> <<>>, next |-> p, bad |-> TRUE]
         [] OTHER -> IF Len(next.url) > s.max THEN [url |-> next.url, next |-> p, bad |-> FALSE]
                     ELSE UrlFrom(text, p + 1, before, next)

(* Mutant: what ends a sentence is cut off without going back in the text. *)
Back_Not(last) == last

(* Back to where the text goes on when a character was cut off. *)
Back(last) == last - 1

(* Punctuation at the end is not of the URL, nor is a parenthesis when it      *)
(* never opens one; when it does, one of two at the end is cut.             *)
RECURSIVE Trimmed(_, _, _)
Trimmed(url, last, open) ==
    LET c == url[Len(url)]
        cut == c \in {".", ",", "!", "?", ":", ">"} \/ (c = ")" /\ open = "never")
        second == open = "yes" /\ c = ")" /\ Len(url) > 2 /\ url[Len(url) - 1] = ")"
    IN IF Len(url) > 1 /\ (cut \/ second)
       THEN Trimmed(Front(url), Back(last), IF second THEN "cut" ELSE open)
       ELSE [url |-> url, last |-> last, bad |-> FALSE]

(* getUrl(): the URL at p and its last position. *)
getUrl(text, p, max) ==
    LET u == UrlFrom(text, p, At(text, p - 1),
                     [url |-> <<>>, space |-> FALSE, anchor |-> FALSE, max |-> max])
    IN IF ~atUrl(text, p) \/ u.bad \/ u.url \in Empty \/ Len(u.url) > max
       THEN [url |-> <<>>, last |-> p, bad |-> atUrl(text, p) /\ u.bad]
       ELSE Trimmed(u.url, u.next - 1, IF Contains(u.url, "(") THEN "yes" ELSE "never")

-----------------------------------------------------------------------------
(* The characters of a set that lie in one run up to p, or from p on. *)
RunBefore(text, p, set) ==
    CHOOSE q \in 1 .. p : (\A i \in q .. p - 1 : text[i] \in set) /\ At(text, q - 1) \notin set
RunAfter(text, p, set) ==
    CHOOSE q \in p .. Len(text) : (\A i \in p + 1 .. q : text[i] \in set) /\ At(text, q + 1) \notin set

(* getEmailAddress(): the first and the last position of an address with its  *)
(* at sign at p, or none.                                                  *)
getEmailAddress(text, p, max) ==
    LET letters == {c \in ToSet(text) : IsLetterOrNumber(c)}
        from == RunBefore(text, p, letters \cup AllowedSpecial \cup {"@"})
        to == RunAfter(text, p, letters \cup {"@", ".", "-"})
        starts == {i \in from .. p - 1 : IsLetterOrNumber(text[i])}
        ends == {i \in p + 1 .. to : IsLetterOrNumber(text[i])}
        first == CHOOSE i \in starts : \A j \in starts : i <= j
        last == CHOOSE i \in ends : \A j \in ends : i >= j
    IN IF /\ text[p] = "@" /\ starts # {} /\ ends # {}
          /\ \A i \in (from .. p - 1) \cup (p + 1 .. to) : text[i] # "@"
          /\ \E i \in p + 1 .. last : text[i] = "."
          /\ last - first < max
       THEN {<<first, last>>} ELSE {}

-----------------------------------------------------------------------------
(* What may stand between two digits of a telephone number: the end of a       *)
(* parenthesis, a separator, and the beginning of one.                     *)
Separators ==
    {<<>>, <<" ">>} \cup {a \o <<c>> \o b : a, b \in {<<>>, <<" ">>}, c \in {"/", "-"}}
Beginnings == {s \o open : s \in Separators, open \in {<<>>, <<"(">>}}
Between == Beginnings \cup {<<")">> \o b : b \in Beginnings}

(* The places of the digits from p on that follow each other in a number. *)
RECURSIVE DigitsFrom(_, _, _)
DigitsFrom(text, p, before) ==
    LET next == {q \in p .. Len(text) : text[q] \in Digits /\ SubSeq(text, p, q - 1) \in before}
        q == CHOOSE q \in next : TRUE
    IN IF next = {} THEN <<>> ELSE <<q>> \o DigitsFrom(text, q + 1, Between)

(* A parenthesis that is left open goes, with the character before it. *)
WithoutOpen(number) ==
    LET parentheses == SelectSeq(number, LAMBDA c : c \in {"(", ")"})
        kept == SubSeq(number, 1, SelectLastInSeq(number, LAMBDA c : c = "(") - 2)
    IN IF Len(parentheses) % 2 = 0 THEN number
       ELSE SubSeq(kept, 1, SelectLastInSeq(kept, LAMBDA c : ~IsSpace(c)))

Balanced(number) ==
    LET parentheses == SelectSeq(number, LAMBDA c : c \in {"(", ")"})
    IN \A i \in DOMAIN parentheses : parentheses[i] = IF i % 2 = 1 THEN "(" ELSE ")"

Count(text, set) == Len(SelectSeq(text, LAMBDA c : c \in set))

(* getPhoneNumber(): the number that begins at p, or nothing. *)
getPhoneNumber(text, p) ==
    LET digits == DigitsFrom(text, p + 1, Beginnings)
        last == Last(digits) + IF At(text, Last(digits) + 1) = ")" THEN 1 ELSE 0
        matched == SubSeq(text, p, last)
        number == WithoutOpen(matched)
    IN IF /\ text[p] \in {"+", "0"} /\ (p > 1 => text[p - 1] \in {" ", "\t", "\n", ":"})
          /\ Len(digits) >= 6 /\ Count(matched, Digits) <= 15 /\ Count(matched, {"/"}) <= 1
          /\ Balanced(matched)
          /\ At(text, p + Len(number)) \in {"end", " ", "\t", "\n", ",", "."}
       THEN number ELSE <<>>

(* highlightedText(): the last place of the word that a symbol at p highlights, *)
(* or none: the next symbol that ends one.                                 *)
highlightedText(text, p) ==
    LET symbol == text[p]
        Inner(c) == ~IsSpace(c) /\ c \notin {"|", "^", symbol, "end"}
        ends == {q \in p + 3 .. Len(text) :
                    text[q] = symbol /\ Inner(text[q - 1]) /\ "\n" \notin ToSet(SubSeq(text, p, q))}
        last == CHOOSE q \in ends : \A r \in ends : q <= r
    IN IF /\ symbol \in {"/", "*", "_", "-"} /\ (p > 1 => IsSpace(text[p - 1]))
          /\ Inner(At(text, p + 1)) /\ ends # {}
          /\ IsSpace(At(text, last + 1)) \/ last = Len(text)
       THEN {last} ELSE {}

-----------------------------------------------------------------------------
Escaped(text) ==
    FoldLeft(LAMBDA done, c :
                 done \o CASE c = "&" -> <<c, "more", "more", "more", "more">>
                           [] c = "\"" -> <<c, "more", "more", "more", "more", "more">>
                           [] c \in {"<", ">"} -> <<c, "more", "more", "more">>
                           [] OTHER -> <<c>>,
             <<>>, text)

Link(shown) == <<"open">> \o shown \o <<"close">>

(* The local part of an address is taken back from what was written, where it *)
(* is longer than in the text by the entities in it.                       *)
WithoutLocalPart(result, local) ==
    SubSeq(result, 1, Len(result) - Len(local) - 4 * Len(SelectSeq(local, LAMBDA c : c = "&")))

(* How far the text is read and written, and the column.  What stands for the *)
(* characters up to the place last is appended.                            *)
Beginning == [p |-> 1, x |-> 0, startOfLine |-> TRUE, result |-> <<>>]
Put(st, last, html) ==
    [p |-> last + 1, x |-> st.x + last + 1 - st.p, startOfLine |-> FALSE, result |-> st.result \o html]

(* A line break, and the spaces that are kept: a single one may break inside  *)
(* of a line, and a tab reaches to the next eighth column.                 *)
Break(st) == [Put(st, st.p, <<"break", "\n">>) EXCEPT !.x = 0, !.startOfLine = TRUE]
Spaces(text, st) ==
    LET last == RunAfter(text, st.p, {" "})
        breaks == last = st.p /\ last < Len(text) /\ ~st.startOfLine /\ At(text, last + 1) # "\n"
    IN Put(st, last, IF breaks THEN <<" ">> ELSE [i \in 1 .. last + 1 - st.p |-> "nbsp"])
Tab(st) ==
    LET width == 8 - (st.x % 8)
    IN [Put(st, st.p, [i \in 1 .. width |-> "nbsp"]) EXCEPT !.x = st.x + width]

RECURSIVE ConvertFrom(_, _, _, _, _)
ConvertFrom(text, st, flags, maxUrl, maxAddress) ==
    LET p == st.p
        c == At(text, p)
        Go(next) == ConvertFrom(text, next, flags, maxUrl, maxAddress)
        links == "IgnoreUrls" \notin flags
        u == getUrl(text, p, maxUrl)
        address == getEmailAddress(text, p, maxAddress)
        number == getPhoneNumber(text, p)
        word == highlightedText(text, p)
    IN CASE c = "end" -> st.result
         [] "PreserveSpaces" \in flags /\ c = " " -> Go(Spaces(text, st))
         [] "PreserveSpaces" \in flags /\ c = "\t" -> Go(Tab(st))
         [] c = "\n" -> Go(Break(st))
         [] c \in {"&", "\"", "<", ">"} -> Go(Put(st, p, Escaped(<<c>>)))
         [] OTHER ->
              IF links /\ u.bad THEN Escaped(text)
              ELSE IF links /\ u.url # <<>> THEN Go(Put(st, u.last, Link(Escaped(u.url))))
              ELSE IF links /\ address # {}
              THEN LET a == CHOOSE a \in address : TRUE
                       kept == WithoutLocalPart(st.result, SubSeq(text, a[1], p - 1))
                   IN Go(Put([st EXCEPT !.result = kept], a[2], Link(SubSeq(text, a[1], a[2]))))
              ELSE IF links /\ "ConvertPhoneNumbers" \in flags /\ number # <<>>
              THEN Go(Put(st, p + Len(number) - 1, Link(number)))
              ELSE IF "HighlightText" \in flags /\ word # {}
              THEN LET last == CHOOSE q \in word : TRUE
                   IN Go(Put(st, last, Link(Escaped(SubSeq(text, p, last)))))
              ELSE Go(Put(st, p, <<c>>))

convertToHtml(text, flags, maxUrl, maxAddress) ==
    ConvertFrom(text, Beginning, flags, maxUrl, maxAddress)

-----------------------------------------------------------------------------
(* What is to be seen of a text: each tab reaches to the next eighth column. *)
Seen(text, flags) ==
    IF "PreserveSpaces" \notin flags THEN text
    ELSE FoldLeft(LAMBDA s, c :
             CASE c = "\t" -> [shown |-> s.shown \o [i \in 1 .. 8 - (s.column % 8) |-> " "],
                               column |-> 8 * (s.column \div 8 + 1)]
               [] c = "\n" -> [shown |-> Append(s.shown, c), column |-> 0]
               [] OTHER -> [shown |-> Append(s.shown, c), column |-> s.column + 1],
             [shown |-> <<>>, column |-> 0], text).shown

(* The text that is shown is the text that was given, no character more and   *)
(* none less and every one in its column, and no link or highlighted word     *)
(* lies in another: what a URL gives back at its end and what an address takes *)
(* back at its beginning is right to the character.  Left out are texts with   *)
(* spaces after a bracket or a quote, which a URL in brackets swallows, and    *)
(* those with a number in the local part of an address, which takes a part of *)
(* the link back.                                                          *)
TextKept(text, flags, maxUrl, maxAddress) ==
    LET html == convertToHtml(text, flags, maxUrl, maxAddress)
        tags == SelectSeq(html, LAMBDA c : c \in {"open", "close"})
        shown == SelectSeq(html, LAMBDA c : c \notin {"open", "close", "break", "more"})
        spaced == \E i \in DOMAIN text : \E j \in 1 .. i - 1 :
                     text[i] = " " /\ text[j] \in {"<", ">", "[", "\""}
        swallowed == \E p, q \in DOMAIN text : \E a \in getEmailAddress(text, q, maxAddress) :
                        "ConvertPhoneNumbers" \in flags /\ getPhoneNumber(text, p) # <<>> /\ p < q
                          /\ a[1] < p + Len(getPhoneNumber(text, p))
    IN swallowed \/
       /\ spaced \/ [i \in DOMAIN shown |-> IF shown[i] = "nbsp" THEN " " ELSE shown[i]] = Seen(text, flags)
       /\ \A i \in DOMAIN tags : tags[i] = IF i % 2 = 1 THEN "open" ELSE "close"

(* A telephone number that is found stands by itself, and what is cut off      *)
(* where a parenthesis is left open leaves no half of a group.              *)
NumbersStand(text) ==
    \A p \in DOMAIN text :
        LET number == getPhoneNumber(text, p)
            next == At(text, p + Len(number))
        IN number # <<>> =>
             /\ Count(number, {"("}) = Count(number, {")"}) /\ Count(number, Digits) <= 15
             /\ ~IsLetterOrNumber(At(text, p - 1)) /\ ~IsLetterOrNumber(next) /\ next \notin {"(", ")", "/", "-"}

-----------------------------------------------------------------------------
(* The emoticons of a text in HTML, which parseEmoticons() replaces        *)
(* (kemoticonsparser.cpp).  A text is a sequence of characters; the result  *)
(* is one of its pieces, each a character or an emoticon that is replaced  *)
(* and has more than one.                                                  *)

CONSTANTS
    Alphabet,       \* the characters, in their order
    emoticons_map   \* the emoticons, in the order of the table

Order == [c \in ToSet(Alphabet) |-> CHOOSE i \in DOMAIN Alphabet : Alphabet[i] = c]

(* Whether a text comes before another. *)
Less(a, b) ==
    \/ /\ Len(a) < Len(b) /\ IsPrefix(a, b)
    \/ \E i \in DOMAIN a \cap DOMAIN b :
          Order[a[i]] < Order[b[i]] /\ \A j \in 1 .. i - 1 : a[j] = b[j]

(* std::lower_bound(): the place in a sorted table of the first entry that is   *)
(* not less.                                                               *)
lower_bound(s) ==
    LET places == {i \in DOMAIN emoticons_map : ~Less(emoticons_map[i], s)}
    IN IF places = {} THEN Len(emoticons_map) + 1 ELSE Min(places)

None == <<>>

(* findEmoticon(): the entry that is found, or else the one before it. *)
findEmoticon(s) ==
    LET it == lower_bound(s)
    IN IF it <= Len(emoticons_map) /\ IsPrefix(emoticons_map[it], s) THEN emoticons_map[it]
       ELSE IF it > 1 /\ IsPrefix(emoticons_map[it - 1], s) THEN emoticons_map[it - 1]
       ELSE None

-----------------------------------------------------------------------------
(* What parseEmoticons() knows: the character before, whether it is in a tag, a *)
(* link or an entity, the next place to look at, and the result so far.      *)
Start == [p |-> " ", inHTMLTag |-> FALSE, inHTMLLink |-> FALSE, inHTMLEntity |-> FALSE, next |-> 1,
          result |-> <<>>]

Keep(st, message, from, to) ==
    [st EXCEPT !.next = to + 1, !.result = @ \o [i \in 1 .. to - from + 1 |-> <<message[from + i - 1]>>]]

(* A tag begins, goes on or ends at the character c; a link is one that begins  *)
(* with "a", until a tag that ends with it.                                 *)
Tag(st, c) ==
    [st EXCEPT !.inHTMLTag = c # ">", !.p = c,
        !.inHTMLLink = IF st.inHTMLTag /\ c = ">" /\ st.p = "a" THEN FALSE
                       ELSE IF st.inHTMLTag /\ c = "a" /\ st.p = "<" THEN TRUE ELSE @]

(* An emoticon may be followed by a space, a tag or an entity. *)
Ends(message, i) == i > Len(message) \/ message[i] \in {"<", " ", "&"}

Found(st, i, emoticon) ==
    [st EXCEPT !.next = i + Len(emoticon), !.result = Append(@, emoticon)]

(* What begins like an emoticon and goes on is left; within an entity, so is    *)
(* everything up to the next semicolon, and without one the next character.  *)
NotFound(st, message, i) ==
    LET ends == {j \in i .. Len(message) : message[j] = ";"}
        last == IF ends = {} THEN Min({i + 1, Len(message)}) ELSE Min(ends)
    IN IF st.inHTMLEntity THEN [Keep(st, message, i, last) EXCEPT !.inHTMLEntity = FALSE]
       ELSE Keep(st, message, i, i)

Step(st, message, i) ==
    LET c == message[i]
        inEntity == [st EXCEPT !.inHTMLEntity = @ \/ c = "&"]
        emoticon == findEmoticon(SubSeq(message, i, Len(message)))
        kept == Keep(inEntity, message, i, i)
    IN IF i < st.next THEN st
       ELSE IF st.inHTMLTag \/ c = "<" THEN Keep(Tag(st, c), message, i, i)
       ELSE IF st.inHTMLLink \/ st.p \notin {" ", ">"} \/ emoticon = None THEN [kept EXCEPT !.p = c]
       ELSE IF Ends(message, i + Len(emoticon)) THEN [Found(inEntity, i, emoticon) EXCEPT !.p = c]
       ELSE [NotFound(inEntity, message, i) EXCEPT !.p = c]

parseEmoticons(message) ==
    FoldLeft(LAMBDA st, i : Step(st, message, i), Start, [i \in DOMAIN message |-> i]).result

-----------------------------------------------------------------------------
(* Replacing emoticons leaves the rest of the text alone, and each of them      *)
(* follows the beginning, a space or a tag and is followed by the end, a      *)
(* space, a tag or an entity; none is in a tag or in a link, as long as no    *)
(* entity came before.  One that stands alone is replaced, unless an entity   *)
(* came before, or a tag follows and a longer one of the table begins with it *)
(* (the search then stops at the longer one).                              *)
Replaced(piece) == Len(piece) > 1

EmoticonsSound(message) ==
    LET result == parseEmoticons(message)
        Before(i) == FlattenSeq(SubSeq(result, 1, i - 1))
        InTag(text) == \E i \in DOMAIN text :
            text[i] = "<" /\ \A j \in i + 1 .. Len(text) : text[j] # ">"
        Longer(e) == \E f \in ToSet(emoticons_map) : f # e /\ IsPrefix(e, f)
    IN /\ FlattenSeq(result) = message
       /\ \A i \in DOMAIN result :
             Replaced(result[i]) =>
                 LET before == Before(i)
                     after == Len(before) + Len(result[i]) + 1
                 IN /\ before = <<>> \/ Last(before) \in {" ", ">"}
                    /\ Ends(message, after)
                    /\ "&" \notin ToSet(before) => ~InTag(before)
       /\ \A e \in ToSet(emoticons_map), at \in DOMAIN message :
             /\ IsPrefix(e, SubSeq(message, at, Len(message)))
             /\ at = 1 \/ message[at - 1] = " "
             /\ Ends(message, at + Len(e))
             /\ "&" \notin ToSet(SubSeq(message, 1, at - 1)) /\ "<" \notin ToSet(SubSeq(message, 1, at - 1))
             /\ at + Len(e) <= Len(message) /\ message[at + Len(e)] # " " => ~Longer(e)
             => \E i \in DOMAIN result : Len(Before(i)) = at - 1 /\ result[i] = e
=============================================================================
