----------------------------- MODULE Selectors -----------------------------
(***************************************************************************)
(* The selector language of crates/calc/src/selector.rs: evaluation, key   *)
(* prefixing, the canonical text and the recursive-descent parser.         *)
(*                                                                         *)
(* Data.  A text is a sequence of tokens.  A comparison of a label, has(k) *)
(* and all() are one token each, <<"atom", selector>>: the characters of   *)
(* keys and values, and the quotes around them, are left out (label values *)
(* hold no quote and no backslash).  A set of values is a set: its         *)
(* canonical text is sorted and without duplicates.  Labels are a function *)
(* from keys to values.                                                    *)
(***************************************************************************)
EXTENDS Naturals, Sequences

All == <<"all">>
Has(k) == <<"has", k>>
Equal(k, v) == <<"==", k, v>>
NotEqual(k, v) == <<"!=", k, v>>
OneOf(k, vs) == <<"in", k, vs>>
NoneOf(k, vs) == <<"not in", k, vs>>
Not(s) == <<"!", s>>
And(s, t) == <<"&&", s, t>>
Or(s, t) == <<"||", s, t>>

RECURSIVE Matches(_, _)
Matches(s, labels) ==
    LET present == s[2] \in DOMAIN labels
    IN  CASE s[1] = "all" -> TRUE
          [] s[1] = "has" -> present
          [] s[1] = "==" -> present /\ labels[s[2]] = s[3]
          [] s[1] = "!=" -> present => labels[s[2]] # s[3]
          [] s[1] = "in" -> present /\ labels[s[2]] \in s[3]
          [] s[1] = "not in" -> present => labels[s[2]] \notin s[3]
          [] s[1] = "!" -> ~Matches(s[2], labels)
          [] s[1] = "&&" -> Matches(s[2], labels) /\ Matches(s[3], labels)
          [] s[1] = "||" -> Matches(s[2], labels) \/ Matches(s[3], labels)

RECURSIVE PrefixKeys(_, _)
PrefixKeys(s, prefix) ==
    CASE s[1] = "all" -> s
      [] s[1] \in {"has", "==", "!=", "in", "not in"} -> [s EXCEPT ![2] = prefix \o @]
      [] s[1] = "!" -> Not(PrefixKeys(s[2], prefix))
      [] s[1] \in {"&&", "||"} ->
            <<s[1], PrefixKeys(s[2], prefix), PrefixKeys(s[3], prefix)>>

-----------------------------------------------------------------------------
(* The canonical text: operands are always in parentheses. *)

Atom(s) == <<"atom", s>>
Enclosed(text) == <<<<"(">>>> \o text \o <<<<")">>>>

RECURSIVE Text(_)
Text(s) ==
    CASE s[1] = "!" -> <<<<"!">>>> \o Enclosed(Text(s[2]))
      [] s[1] \in {"&&", "||"} ->
            Enclosed(Text(s[2])) \o <<<<s[1]>>>> \o Enclosed(Text(s[3]))
      [] OTHER -> <<Atom(s)>>

-----------------------------------------------------------------------------
(***************************************************************************)
(* The parser.  A production takes the tokens left and returns what it     *)
(* parsed with the tokens it leaves, or Failed.                            *)
(***************************************************************************)
Failed == [ok |-> FALSE, sel |-> All, left |-> << >>]
Parsed(s, left) == [ok |-> TRUE, sel |-> s, left |-> left]
Next1(text, token) == text # << >> /\ text[1] = token

RECURSIVE ParseOr(_)
RECURSIVE ParseUnary(_)
ParseUnary(text) ==
    LET negated == ParseUnary(Tail(text))
        inner == ParseOr(Tail(text))
    IN  CASE text = << >> -> Failed
          [] text[1] = <<"!">> -> [negated EXCEPT !.sel = Not(@)]
          [] text[1] = <<"(">> ->
                IF inner.ok /\ Next1(inner.left, <<")">>)
                THEN Parsed(inner.sel, Tail(inner.left)) ELSE Failed
          [] text[1][1] = "atom" -> Parsed(text[1][2], Tail(text))
          [] OTHER -> Failed

\* What `second` adds to what stands left of an operator.
Combine(op, first, second) ==
    IF second.ok THEN Parsed(<<op, first.sel, second.sel>>, second.left) ELSE Failed

RECURSIVE Conjoined(_)
Conjoined(first) ==
    IF ~Next1(first.left, <<"&&">>) THEN first
    ELSE Conjoined(Combine("&&", first, ParseUnary(Tail(first.left))))

ParseAnd(text) == Conjoined(ParseUnary(text))

RECURSIVE Disjoined(_)
Disjoined(first) ==
    IF ~Next1(first.left, <<"||">>) THEN first
    ELSE Disjoined(Combine("||", first, ParseAnd(Tail(first.left))))

ParseOr(text) == Disjoined(ParseAnd(text))

Parse(text) ==
    LET p == ParseOr(text) IN [ok |-> p.ok /\ p.left = << >>, sel |-> p.sel]
=============================================================================
