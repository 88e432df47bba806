------------------------------- MODULE KShellWin -------------------------------
(***************************************************************************)
(* Quoting, splitting and macro expansion of command lines on Windows      *)
(* (kshell_win.cpp, kmacroexpander_win.cpp): a line is read twice, by cmd, *)
(* where a circumflex escapes, and by the C runtime, where a backslash     *)
(* escapes quotes.  A text is a sequence of characters, and the variable   *)
(* that stands for a percent sign is one of them.                          *)
(***************************************************************************)
EXTENDS Integers, SequencesExt

bs == "\\"
dq == "\""
PERCENT_ESCAPE == "%PERCENT_SIGN%"

isMetaChar(c) == c \in {"&", "(", ")", "<", ">", "|"}
isSpecialChar(c) == isMetaChar(c) \/ c \in {"^", " ", ",", ";", "="}
isWhiteSpace(c) == c = " "

At(text, p) == IF p \in DOMAIN text THEN text[p] ELSE "end"
Times(c, n) == [i \in 1 .. n |-> c]

-----------------------------------------------------------------------------
(* Mutant: the backslashes before a quote stay as they are. *)
Quote_Single(s) ==
    [s EXCEPT !.ret = @ \o (IF s.inquote THEN <<dq>> ELSE <<>>) \o Times(bs, s.bslashes)
                        \o <<bs, "^", dq>>,
              !.inquote = FALSE, !.bslashes = 0]

(* A quote of the argument is escaped for both readers, out of the quotes. *)
Quote(s) ==
    [s EXCEPT !.ret = @ \o (IF s.inquote THEN <<dq>> ELSE <<>>) \o Times(bs, 2 * s.bslashes)
                        \o <<bs, "^", dq>>,
              !.inquote = FALSE, !.bslashes = 0]

Plain(s, c) ==
    [s EXCEPT !.ret = @ \o (IF s.inquote THEN <<>> ELSE <<dq>>) \o Times(bs, s.bslashes) \o <<c>>,
              !.inquote = TRUE, !.bslashes = 0]

quoteArgInternal(arg, inquote) ==
    LET s == FoldLeft(LAMBDA t, c : IF c = bs THEN [t EXCEPT !.bslashes = @ + 1]
                                    ELSE IF c = dq THEN Quote(t) ELSE Plain(t, c),
                      [ret |-> <<>>, inquote |-> inquote, bslashes |-> 0], arg)
        ret == ReplaceAll(s.ret, "%", PERCENT_ESCAPE)
    IN IF s.bslashes > 0
       THEN ret \o (IF ~s.inquote /\ ~inquote THEN <<dq>> ELSE <<>>) \o Times(bs, 2 * s.bslashes)
                \o <<dq>> \o (IF s.inquote /\ inquote THEN <<dq>> ELSE <<>>)
       ELSE ret \o (IF s.inquote # inquote THEN <<dq>> ELSE <<>>)

(* An argument without special characters, where only quotes are escaped. *)
Unquoted(arg) ==
    LET s == FoldLeft(LAMBDA t, c : IF c = bs THEN [t EXCEPT !.bslashes = @ + 1]
                                    ELSE IF c = dq
                                    THEN [ret |-> t.ret \o Times(bs, 2 * t.bslashes) \o <<bs, "^", dq>>,
                                          bslashes |-> 0]
                                    ELSE [ret |-> t.ret \o Times(bs, t.bslashes) \o <<c>>,
                                          bslashes |-> 0],
                      [ret |-> <<>>, bslashes |-> 0], arg)
    IN ReplaceAll(s.ret \o Times(bs, s.bslashes), "%", PERCENT_ESCAPE)

quoteArg(arg) ==
    IF arg = <<>> THEN <<dq, dq>>
    ELSE IF Last(arg) = bs \/ \E i \in DOMAIN arg : isSpecialChar(arg[i])
    THEN quoteArgInternal(arg, FALSE)
    ELSE Unquoted(arg)

joinArgs(args) ==
    FoldLeft(LAMBDA ret, arg : IF ret = <<>> THEN quoteArg(arg) ELSE ret \o <<" ">> \o quoteArg(arg),
             <<>>, args)

-----------------------------------------------------------------------------
(* What cmd makes of a line from p on: escapes go, and meta characters are    *)
(* found outside quotes.                                                   *)
RECURSIVE Cmd(_, _)
Cmd(text, p) ==
    LET c == At(text, p)
        closing == {q \in p + 1 .. Len(text) : text[q] = dq}
    IN CASE c = "end" -> [meta |-> FALSE, text |-> text]
         [] c = "^" -> Cmd(RemoveAt(text, p), p + 1)
         [] c = dq -> IF closing = {} THEN [meta |-> FALSE, text |-> text]
                      ELSE Cmd(text, (CHOOSE q \in closing : \A r \in closing : q <= r) + 1)
         [] isMetaChar(c) -> [meta |-> TRUE, text |-> text]
         [] OTHER -> Cmd(text, p + 1)

(* One argument of the C runtime from p on: its text so far, in quotes or not. *)
RECURSIVE Arg(_, _, _, _)
Arg(text, p, inquote, arg) ==
    LET after == CHOOSE q \in p .. Len(text) + 1 :
                    At(text, q) # bs /\ \A r \in p .. q - 1 : text[r] = bs
        count == after - p
        quoted == At(text, after) = dq
        doubled == inquote /\ At(text, after + 1) = dq
        more == arg \o Times(bs, IF quoted THEN count \div 2 ELSE count)
    IN CASE At(text, after) = "end" \/ (~inquote /\ isWhiteSpace(At(text, after))) ->
              [inquote |-> inquote, arg |-> more, next |-> after]
         [] quoted /\ count % 2 = 0 /\ ~doubled -> Arg(text, after + 1, ~inquote, more)
         [] quoted /\ count % 2 = 0 /\ doubled -> Arg(text, after + 2, inquote, Append(more, dq))
         [] OTHER -> Arg(text, after + 1, inquote, Append(more, text[after]))

RECURSIVE SplitArgsFrom(_, _, _)
SplitArgsFrom(text, p, ret) ==
    LET a == Arg(text, p, FALSE, <<>>)
    IN CASE p > Len(text) -> [error |-> "NoError", args |-> ret]
         [] isWhiteSpace(At(text, p)) -> SplitArgsFrom(text, p + 1, ret)
         [] OTHER -> IF a.inquote THEN [error |-> "BadQuoting", args |-> <<>>]
                     ELSE SplitArgsFrom(text, a.next, Append(ret, a.arg))

Found == [error |-> "FoundMeta", args |-> <<>>]

splitArgs(text, abortOnMeta) ==
    LET plain == ReplaceAll(text, PERCENT_ESCAPE, "%")
        cmd == Cmd(IF At(plain, 1) = "@" THEN Tail(plain) ELSE plain, 1)
    IN IF ~abortOnMeta THEN SplitArgsFrom(text, 1, <<>>)
       ELSE IF "%" \in ToSet(text) \/ cmd.meta THEN Found
       ELSE SplitArgsFrom(cmd.text, 1, <<>>)

-----------------------------------------------------------------------------
(* What is joined is split into the same arguments by whoever reads the line  *)
(* as cmd and the C runtime do; only an @ at the beginning is eaten.        *)
JoinSplits(args) ==
    At(joinArgs(args), 1) # "@" =>
        splitArgs(joinArgs(args), TRUE) = [error |-> "NoError", args |-> args]

-----------------------------------------------------------------------------
(* expandMacrosShellQuote(): the macro is the character "m", and s says how   *)
(* far the text is done and how both readers see the place.                *)
Start(str) ==
    [text |-> str, pos |-> 1, shellQuote |-> FALSE, crtQuote |-> FALSE, escaped |-> FALSE,
     bslashes |-> 0, parens |-> 0, result |-> "going"]

(* A value that begins with a quote, escaped or not, doubles the backslashes. *)
Expand(s, value) ==
    LET rsts == IF s.shellQuote THEN quoteArgInternal(value, TRUE) ELSE quoteArg(value)
        first == {i \in DOMAIN rsts : rsts[i] \notin {bs, "^"}}
        begins == first # {} /\ rsts[CHOOSE i \in first : \A j \in first : i <= j] = dq
        put == (IF begins THEN Times(bs, s.bslashes) ELSE <<>>) \o rsts
    IN IF s.shellQuote # s.crtQuote THEN [s EXCEPT !.result = "false"]
       ELSE [s EXCEPT !.text = SubSeq(@, 1, s.pos - 1) \o put \o SubSeq(@, s.pos + 1, Len(@)),
                      !.pos = @ + Len(put), !.bslashes = 0]

Character(s, c) ==
    LET t == [s EXCEPT !.pos = @ + 1, !.escaped = FALSE,
                       !.bslashes = IF c = bs THEN @ + 1 ELSE 0]
    IN CASE c = dq -> [t EXCEPT !.shellQuote = IF s.escaped THEN @ ELSE ~@,
                                !.crtQuote = IF s.bslashes % 2 = 0 THEN ~@ ELSE @]
         [] c = "(" /\ ~s.shellQuote -> [t EXCEPT !.parens = @ + 1]
         [] c = ")" /\ ~s.shellQuote -> IF s.parens = 0 THEN [s EXCEPT !.result = "true"]
                                        ELSE [t EXCEPT !.parens = @ - 1]
         [] OTHER -> t

RECURSIVE ExpandFrom(_, _)
ExpandFrom(s, value) ==
    LET c == At(s.text, s.pos)
    IN IF c = "end" \/ s.result # "going" THEN s
       ELSE ExpandFrom(IF ~s.escaped /\ c = "m" THEN Expand(s, value)
                       ELSE IF ~s.escaped /\ ~s.shellQuote /\ c = "^"
                       THEN [s EXCEPT !.escaped = TRUE, !.pos = @ + 1]
                       ELSE Character(s, c), value)

expandMacrosShellQuote(str, value) == ExpandFrom(Start(str), value)

Filled(word, value) ==
    FlattenSeq([i \in DOMAIN word |-> IF word[i] = "m" THEN value ELSE <<word[i]>>])

(* In a simple command a macro becomes its value, whatever its quoting: the    *)
(* words of the expanded command are those of the command with the value in *)
(* them, unless cmd and the C runtime disagree whether the place is quoted,  *)
(* which is refused.  Left out are the places where two quotes come together *)
(* and make a third: a macro out of quotes that touches a quote or another   *)
(* macro, a value that ends in a backslash and is put into quotes, an empty    *)
(* value there after a backslash, which then meets the closing quote; and a  *)
(* text with circumflexes, one of which may hide a quote or a macro.        *)
ExpandsInPlace(str, value) ==
    LET words == splitArgs(str, TRUE)
        expanded == expandMacrosShellQuote(str, value)
        Quoted(i) == Cardinality({j \in 1 .. i - 1 : str[j] = dq}) % 2 = 1
        apart == \A i \in DOMAIN str : str[i] = "m" =>
                     IF Quoted(i) THEN At(value, Len(value)) # bs /\ (value = <<>> => At(str, i - 1) # bs)
                     ELSE {At(str, i - 1), At(str, i + 1)} \cap {dq, "m"} = {}
    IN words.error = "NoError" /\ apart /\ ~Contains(str, "^") /\ expanded.result # "false" /\ At(expanded.text, 1) # "@" =>
        splitArgs(expanded.text, TRUE) =
            [error |-> "NoError", args |-> [n \in DOMAIN words.args |-> Filled(words.args[n], value)]]
=============================================================================
