----------------------------- MODULE KFuzzyMatcher -----------------------------
(***************************************************************************)
(* Fuzzy matching of a pattern in a text and its score                     *)
(* (kfuzzymatcher.cpp).  A text is a sequence of characters: a letter is a *)
(* record of the letter and its case, and "_" and " " separate words.      *)
(* Positions count from 0, as they do in the code; the texts are shorter   *)
(* than the 256 positions a match can have.                                *)
(***************************************************************************)
EXTENDS Integers, SequencesExt

CONSTANT RecursionLimit     \* recursionLimit

ASSUME FuzzyAssumption == RecursionLimit \in Nat

CharAt(str, at) == str[at + 1]

SameLetter(a, b) == a.letter = b.letter

IsSeparator(c) == c.letter \in {"_", " "}

(* A word begins here: after a separator, or at the hump of a camel. *)
BeginsWord(str, at) ==
    \/ IsSeparator(CharAt(str, at - 1))
    \/ ~CharAt(str, at - 1).upper /\ ~IsSeparator(CharAt(str, at - 1)) /\ CharAt(str, at).upper

-----------------------------------------------------------------------------
(* The score of the positions where a pattern was matched: that of the first *)
(* position, then one position after the other.                            *)
FirstScore(str, matches) ==
    LET first == matches[1]
        start == 100 - (Len(str) - Len(matches))
    IN IF first = 0 THEN [score |-> start + 40, inWord |-> TRUE, bonus |-> 10]
       ELSE IF BeginsWord(str, first)
       THEN [score |-> start + 37 - first, inWord |-> TRUE, bonus |-> 10]
       ELSE [score |-> start - first, inWord |-> FALSE, bonus |-> 14]

NextScore(s, str, matches, i) ==
    LET at == matches[i]
        step == IF at # matches[i - 1] + 1
                THEN [score |-> s.score - (at - matches[i - 1]) - 2, inWord |-> FALSE, bonus |-> 10]
                ELSE IF at = i - 1 THEN [s EXCEPT !.score = @ + 20]
                ELSE IF s.inWord THEN [s EXCEPT !.score = @ + 17]
                ELSE [s EXCEPT !.score = @ + s.bonus, !.bonus = @ + 4]
    IN IF BeginsWord(str, at) THEN [step EXCEPT !.score = @ + 25, !.inWord = TRUE] ELSE step

Score(str, matches) ==
    LET total == FoldLeft(LAMBDA s, i : NextScore(s, str, matches, i), FirstScore(str, matches),
                          [n \in 1 .. Len(matches) - 1 |-> n + 1]).score
        consecutive == \A i \in 2 .. Len(matches) : matches[i] = matches[i - 1] + 1
    IN IF consecutive /\ Len(matches) >= 4 THEN 2 * total ELSE total

-----------------------------------------------------------------------------
(* match_recursive(): what a call returns, and the calls made so far. *)
NoMatch(count) == [matched |-> FALSE, score |-> 0, matches |-> <<>>, count |-> count]

RECURSIVE MatchLoop(_, _, _, _, _, _, _)

(* The pattern from p on, in the text from at on, when matches are those     *)
(* found before.                                                           *)
match_recursive(pattern, str, p, at, matches, count) ==
    IF count + 1 >= RecursionLimit \/ p > Len(pattern) \/ at >= Len(str)
    THEN NoMatch(count + 1)
    ELSE MatchLoop(pattern, str, p, at, matches, NoMatch(count + 1), count + 1)

(* Mutant: the score of the match that is given up is kept. *)
Better_Positions(best, other) ==
    IF other.matched /\ (~best.matched \/ other.score > best.score)
    THEN [best EXCEPT !.matched = TRUE, !.matches = other.matches] ELSE best

Better(best, other) ==
    IF other.matched /\ (~best.matched \/ other.score > best.score)
    THEN [other EXCEPT !.count = 0] ELSE [best EXCEPT !.count = 0]

(* At every letter that matches, the rest of the text is tried without it     *)
(* first; best is the best of those matches.                               *)
MatchLoop(pattern, str, p, at, matches, best, count) ==
    IF p <= Len(pattern) /\ at < Len(str)
    THEN IF SameLetter(pattern[p], CharAt(str, at))
         THEN LET skipped == match_recursive(pattern, str, p, at + 1, matches, count)
              IN MatchLoop(pattern, str, p + 1, at + 1, Append(matches, at),
                           Better(best, skipped), skipped.count)
         ELSE MatchLoop(pattern, str, p, at + 1, matches, best, count)
    ELSE LET own == IF p <= Len(pattern) THEN NoMatch(0)
                    ELSE [matched |-> TRUE, score |-> Score(str, matches),
                          matches |-> matches, count |-> 0]
         IN [Better(own, best) EXCEPT !.count = count]

-----------------------------------------------------------------------------
(* matchSimple(): a greedy match, letter by letter. *)
matchSimple(pattern, str) ==
    FoldLeft(LAMBDA p, c : IF p <= Len(pattern) /\ SameLetter(pattern[p], c) THEN p + 1 ELSE p,
             1, str) > Len(pattern)

(* match(): an empty pattern matches with a score of 0. *)
match(pattern, str) ==
    IF ~matchSimple(pattern, str) THEN [matched |-> FALSE, score |-> 0]
    ELSE IF pattern = <<>> THEN [matched |-> TRUE, score |-> 0]
    ELSE LET m == match_recursive(pattern, str, 1, 0, <<>>, 0)
         IN [matched |-> m.matched, score |-> m.score]

(* matchedRanges(), for full matches: the ranges of the best match. *)
matchedRanges(pattern, str) ==
    LET m == match_recursive(pattern, str, 1, 0, <<>>, 0)
    IN IF pattern = <<>> \/ ~m.matched THEN <<>>
       ELSE FoldLeft(LAMBDA ranges, i :
                         IF ranges # <<>> /\ m.matches[i] = m.matches[i - 1] + 1
                         THEN [ranges EXCEPT ![Len(ranges)].length = @ + 1]
                         ELSE Append(ranges, [start |-> m.matches[i], length |-> 1]),
                     <<>>, [n \in DOMAIN m.matches |-> n])

-----------------------------------------------------------------------------
(* Properties. *)

PositionsOf(ranges) ==
    FlattenSeq([i \in DOMAIN ranges |-> [n \in 1 .. ranges[i].length |-> ranges[i].start + n - 1]])

Embeddings(pattern, str) ==
    {e \in [DOMAIN pattern -> 0 .. Len(str) - 1] :
        /\ \A i \in DOMAIN pattern : SameLetter(pattern[i], CharAt(str, e[i]))
        /\ \A i \in 2 .. Len(pattern) : e[i - 1] < e[i]}

(* A text matches if and only if the letters of the pattern are in it in      *)
(* order, in spite of the limit of the search; the ranges that are           *)
(* highlighted spell the pattern and have the very score that is returned;   *)
(* and no other match has a higher score when the search was not cut short.  *)
MatchSound(pattern, str) ==
    pattern # <<>> =>
        LET all == Embeddings(pattern, str)
            result == match(pattern, str)
            shown == PositionsOf(matchedRanges(pattern, str))
            m == match_recursive(pattern, str, 1, 0, <<>>, 0)
        IN /\ result.matched <=> all # {}
           /\ result.matched => shown \in all /\ result.score = Score(str, shown)
           /\ result.matched /\ m.count < RecursionLimit =>
                 \A e \in all : Score(str, e) <= result.score
=============================================================================
