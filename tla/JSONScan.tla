------------------------------ MODULE JSONScan ------------------------------
(***************************************************************************)
(* The pre-scan of HTTP request bodies (internal/frontend/http/            *)
(* json_scan.go) against the implementation it replaced, which its test    *)
(* file keeps: a walk driven by encoding/json's Decoder. A body grows by   *)
(* one token at a time while the Decoder still accepts it; the Decoder is  *)
(* external, a stack of open containers and what each expects next.        *)
(*                                                                         *)
(* A token is a punctuation mark, a scalar, a malformed lexeme or a string *)
(* as it is spelled; white space is left out. Numbers are compared with    *)
(* the grammar separately, character by character.                         *)
(***************************************************************************)
EXTENDS Naturals, Sequences, FiniteSetsExt

CONSTANTS
    Spellings,        \* [raw, means]: a string and what it is unescaped
    Fields,           \* canonicalRequestFields
    Size,             \* of an unescaped string: its bytes
    Folded,           \* of an unescaped string: its case folding
    MaxJSONDepth,
    InlineKeys,       \* keys a jsonKeySet holds before it makes a map
    MaxTokens,        \* bound: tokens of a body
    MaxNumeral        \* bound: characters of a number

ASSUME ScanAssumption == {MaxJSONDepth, InlineKeys, MaxTokens, MaxNumeral} \subseteq Nat

VARIABLES body, decoder, numeral
scanVars == <<body, decoder, numeral>>

Mark(m) == [is |-> m]
Marks == {"lbrace", "rbrace", "lbracket", "rbracket", "comma", "colon", "scalar", "malformed"}
Tokens == {Mark(m) : m \in Marks}
          \cup {[is |-> "string", raw |-> s.raw, means |-> s.means] : s \in Spellings}

-----------------------------------------------------------------------------
(* jsonKeySet *)

NoKeys == [inline |-> <<>>, spill |-> {}]
IsNoKeys(set) == set.inline = <<>> /\ set.spill = {}

\* Mutation: once keys are spilled, the inline ones are forgotten.
OnlySpill(set, key) ==
    IF set.spill # {} THEN key \in set.spill
    ELSE \E n \in DOMAIN set.inline : set.inline[n] = key

InSet(set, key) == key \in set.spill \/ \E n \in DOMAIN set.inline : set.inline[n] = key

Added(set, key) ==
    IF set.spill = {} /\ Len(set.inline) < InlineKeys
    THEN [set EXCEPT !.inline = Append(@, key)]
    ELSE [set EXCEPT !.spill = @ \cup {key}]

-----------------------------------------------------------------------------
(* jsonScanner: [code, at], the code of a refusal or the next position *)

Fine(p) == [code |-> "none", at |-> p]
Rejected(code) == [code |-> code, at |-> 0]
Is(t, p) == IF p <= Len(t) THEN t[p].is ELSE "end"

jsonKeyValue(token) == IF token.raw = token.means THEN token.raw ELSE token.means

\* checkCanonicalSpelling
Misspelled(key) == \E f \in Fields :
                      key # f /\ Size[key] = Size[f] /\ Folded[key] = Folded[f]

\* The calls of value, object and array: the keys or the elements are those of
\* the container so far, of which the loop goes on.
JSONKeys == {s.means : s \in Spellings}
KeySets == [inline : Seq(JSONKeys), spill : SUBSET JSONKeys]
ValueAt(p, depth) == [to |-> "value", at |-> p, depth |-> depth]
ObjectAt(p, depth, keys) == [to |-> "object", at |-> p, depth |-> depth, keys |-> keys]
ArrayAt(p, depth, elements) == [to |-> "array", at |-> p, depth |-> depth, elements |-> elements]
ScanCalls == [to : {"value"}, at : Nat \ {0}, depth : Nat]
             \cup [to : {"object"}, at : Nat \ {0}, depth : Nat, keys : KeySets]
             \cup [to : {"array"}, at : Nat \ {0}, depth : Nat, elements : Nat]

ScanValue(t, c, scan) ==
    LET token == Is(t, c.at)
    IN  IF token \in {"lbrace", "lbracket"} /\ c.depth >= MaxJSONDepth THEN Rejected("depth")
        ELSE IF token = "lbrace" THEN scan[ObjectAt(c.at + 1, c.depth, NoKeys)]
        ELSE IF token = "lbracket" THEN scan[ArrayAt(c.at + 1, c.depth, 0)]
        ELSE IF token \in {"string", "scalar"} THEN Fine(c.at + 1)
        ELSE Rejected("syntax")

ScanMember(t, c, key, scan) ==
    LET v == scan[ValueAt(c.at + 2, c.depth + 1)]
    IN  IF Misspelled(key) THEN Rejected("spelling")
        ELSE IF InSet(c.keys, key) THEN Rejected("duplicate")
        ELSE IF Is(t, c.at + 1) # "colon" THEN Rejected("syntax")
        ELSE IF v.code # "none" THEN v
        ELSE IF Is(t, v.at) = "comma" THEN scan[ObjectAt(v.at + 1, c.depth, Added(c.keys, key))]
        ELSE IF Is(t, v.at) = "rbrace" THEN Fine(v.at + 1)
        ELSE Rejected("syntax")

ScanObject(t, c, scan) ==
    IF Is(t, c.at) = "rbrace" /\ IsNoKeys(c.keys) THEN Fine(c.at + 1)
    ELSE IF Is(t, c.at) = "string" THEN ScanMember(t, c, jsonKeyValue(t[c.at]), scan)
    ELSE Rejected("syntax")

ScanArray(t, c, scan) ==
    LET v == scan[ValueAt(c.at, c.depth + 1)]
    IN  IF Is(t, c.at) = "rbracket" THEN IF c.elements = 0 THEN Fine(c.at + 1) ELSE Rejected("syntax")
        ELSE IF v.code # "none" THEN v
        ELSE IF Is(t, v.at) = "comma" THEN scan[ArrayAt(v.at + 1, c.depth, c.elements + 1)]
        ELSE IF Is(t, v.at) = "rbracket" THEN Fine(v.at + 1)
        ELSE Rejected("syntax")

Scanned(t, c, scan) ==
    IF c.to = "value" THEN ScanValue(t, c, scan)
    ELSE IF c.to = "object" THEN ScanObject(t, c, scan)
    ELSE ScanArray(t, c, scan)

\* What a call returns that makes calls nested n deep. A call takes a token
\* before it makes another, except for the element of an array: twice the
\* tokens and the end are deep enough.
Deepest(t) == 2 * Len(t) + 2
Scans(t) ==
    LET scan[n \in 0 .. Deepest(t)] ==
            [c \in ScanCalls |-> IF n = 0 THEN Rejected("syntax") ELSE Scanned(t, c, scan[n - 1])]
    IN  scan

\* One value and nothing after it.
scanJSONStructure(t) ==
    LET v == Scans(t)[Deepest(t)][ValueAt(1, 0)]
    IN  IF v.code # "none" THEN v.code ELSE IF v.at = Len(t) + 1 THEN "none" ELSE "syntax"

(* number: the position after it, 0 if it is malformed *)

Digits == {"0", "1"}
Characters == {"minus", "plus", "point", "e"} \cup Digits
Digit(t, p) == p <= Len(t) /\ t[p] \in Digits
Char(t, p, set) == p <= Len(t) /\ t[p] \in set
digits(t, p) == Min({q \in p .. Len(t) + 1 : ~Digit(t, q)})

SomeDigits(t, p) == IF Digit(t, p) THEN digits(t, p) ELSE 0

\* A leading zero may not be followed by another digit.
Whole(t, p) ==
    IF digits(t, p) - p > 1 /\ t[p] = "0" THEN 0 ELSE SomeDigits(t, p)

AfterFraction(t, p) ==
    IF p # 0 /\ Char(t, p, {"point"}) THEN SomeDigits(t, p + 1) ELSE p

AfterExponent(t, p) ==
    LET sign == IF Char(t, p + 1, {"plus", "minus"}) THEN 2 ELSE 1
    IN  IF p # 0 /\ Char(t, p, {"e"}) THEN SomeDigits(t, p + sign) ELSE p

number(t) ==
    AfterExponent(t, AfterFraction(t, Whole(t, IF Char(t, 1, {"minus"}) THEN 2 ELSE 1)))

-----------------------------------------------------------------------------
(* The reference: the Decoder's Token and the walk over it *)

\* Not stopped yet.
Expecting(open, next) == [open |-> open, expects |-> next, code |-> "none"]
Stop(d, code) == [d EXCEPT !.code = code]
Fresh == Expecting(<<>>, "value")
AfterValue(open) == Expecting(open, IF open = <<>> THEN "nothing" ELSE "comma")

Container(kind, keys) == [kind |-> kind, keys |-> keys]
Depth(d) == Len(d.open)
Inner(d) == d.open[Depth(d)]
Outer(d) == SubSeq(d.open, 1, Depth(d) - 1)

Opens(d, m) ==
    IF Depth(d) >= MaxJSONDepth THEN Stop(d, "depth")
    ELSE Expecting(Append(d.open, Container(m, {})),
                   IF m = "lbrace" THEN "first key" ELSE "first value")

TakesValue(d, m) ==
    IF m \in {"lbrace", "lbracket"} THEN Opens(d, m)
    ELSE IF m \in {"string", "scalar"} THEN AfterValue(d.open)
    ELSE IF m = "rbracket" /\ d.expects = "first value" THEN AfterValue(Outer(d))
    ELSE Stop(d, "syntax")

TakesName(d, key) ==
    IF \E f \in Fields : key # f /\ Folded[key] = Folded[f] THEN Stop(d, "spelling")
    ELSE IF key \in Inner(d).keys THEN Stop(d, "duplicate")
    ELSE Expecting(Append(Outer(d), Container("lbrace", Inner(d).keys \cup {key})), "colon")

TakesKey(d, token) ==
    IF token.is = "string" THEN TakesName(d, token.means)
    ELSE IF token.is = "rbrace" /\ d.expects = "first key" THEN AfterValue(Outer(d))
    ELSE Stop(d, "syntax")

TakesNext(d, m) ==
    IF m = "comma" THEN Expecting(d.open, IF Inner(d).kind = "lbrace" THEN "key" ELSE "value")
    ELSE IF m = IF Inner(d).kind = "lbrace" THEN "rbrace" ELSE "rbracket"
    THEN AfterValue(Outer(d))
    ELSE Stop(d, "syntax")

Takes(d, token) ==
    IF d.expects \in {"value", "first value"} THEN TakesValue(d, token.is)
    ELSE IF d.expects \in {"key", "first key"} THEN TakesKey(d, token)
    ELSE IF d.expects = "comma" THEN TakesNext(d, token.is)
    ELSE IF d.expects = "colon" /\ token.is = "colon" THEN Expecting(d.open, "value")
    ELSE Stop(d, "syntax")

Outcome(d) ==
    IF d.code # "none" THEN d.code ELSE IF d.expects = "nothing" THEN "none" ELSE "syntax"

-----------------------------------------------------------------------------
ScanInit == body = <<>> /\ decoder = Fresh /\ numeral = <<>>

ReadToken ==
    /\ numeral = <<>> /\ decoder.code = "none" /\ Len(body) < MaxTokens
    /\ \E token \in Tokens : body' = Append(body, token) /\ decoder' = Takes(decoder, token)
    /\ UNCHANGED numeral

ReadCharacter ==
    /\ body = <<>> /\ Len(numeral) < MaxNumeral
    /\ \E c \in Characters : numeral' = Append(numeral, c)
    /\ UNCHANGED <<body, decoder>>

ScanNext == ReadToken \/ ReadCharacter

ScanSpec == ScanInit /\ [][ScanNext]_scanVars

-----------------------------------------------------------------------------
\* The scanner accepts what the Decoder accepted and refuses the rest with the
\* same code: depth, duplicate field, spelling of a documented field, syntax.
\* Only a key whose folding is a field's and whose length is not is refused by
\* the Decoder alone.
ScannerAgrees ==
    numeral = <<>> =>
        \/ scanJSONStructure(body) = Outcome(decoder)
        \/ decoder.code = "spelling" /\ ~Misspelled(body[Len(body)].means)

AllDigits(s) == s # <<>> /\ \A n \in DOMAIN s : s[n] \in Digits
Part(s, a, b) == SubSeq(s, a + 1, b)
IntegerText(s) == AllDigits(s) /\ (Len(s) = 1 \/ s[1] # "0")
FractionText(s) == s = <<>> \/ (s[1] = "point" /\ AllDigits(Tail(s)))
SignedText(s) == AllDigits(IF s # <<>> /\ s[1] \in {"plus", "minus"} THEN Tail(s) ELSE s)
ExponentText(s) == s = <<>> \/ (s[1] = "e" /\ SignedText(Tail(s)))

\* A sign, an integer without leading zeros, a fraction and an exponent, of
\* which only the integer must be there.
IsNumber(s) ==
    \E a, b, c \in 0 .. Len(s) :
       /\ a <= b /\ b <= c
       /\ Part(s, 0, a) \in {<<>>, <<"minus">>} /\ IntegerText(Part(s, a, b))
       /\ FractionText(Part(s, b, c)) /\ ExponentText(Part(s, c, Len(s)))

\* A number ends where the JSON grammar says it can.
NumbersAgree == number(numeral) = Len(numeral) + 1 <=> IsNumber(numeral)

\* The allocation-free scanner decides as the standard Decoder and the JSON
\* grammar do, over whole bodies and over numbers (scanJSONStructure).
ScanningExact == ScannerAgrees /\ NumbersAgree
=============================================================================
