-------------------------------- MODULE Lexer --------------------------------
(***************************************************************************)
(* The lexer of src/lexer/Lexer.cpp, one step per character that it takes: *)
(* the loops of number, string and identifier are modes, and makeToken is  *)
(* the step that all of them end with.  peekToken scans ahead and puts the *)
(* position back.                                                          *)
(*                                                                         *)
(* A character is a string of length one - NL, DQ and BS are the newline,  *)
(* the double quote and the backslash - and a text a sequence of them.     *)
(***************************************************************************)
EXTENDS Integers, Sequences, SequencesExt, FiniteSets

CONSTANTS
    Alphabets,      \* sets of characters; a text is over one of them
    MaxLength,      \* characters of a text
    MaxPeeks,       \* calls of peekToken
    MaxAhead,       \* the argument of peekToken
    SizeT           \* values of a size_t, 2^64 in the code

Digits == {"0", "8"}
Alpha == {"a", "e", "E", "f", "i", "n", "_"}    \* isalpha, and the underscore
Blanks == {" ", "NL"}                           \* tabs and returns are as a blank
Strange == {"#"}                                \* what no case of nextToken has

\* The one-character tokens of nextToken, and those that match reaches from them.
Operators == [c \in {"(", ")", "{", "}", "[", "]", ";", ",", ".", "?", "@", "~", "^", "%",
                     "+", "-", "*", "/", "!", "=", "<", ">", "&", "|", ":"} |->
    CASE c = "(" -> "LeftParen"   [] c = ")" -> "RightParen"   [] c = "{" -> "LeftBrace"
      [] c = "}" -> "RightBrace"  [] c = "[" -> "LeftBracket"  [] c = "]" -> "RightBracket"
      [] c = ";" -> "Semicolon"   [] c = "," -> "Comma"        [] c = "." -> "Dot"
      [] c = "?" -> "Question"    [] c = "@" -> "At"           [] c = "~" -> "Tilde"
      [] c = "^" -> "Caret"       [] c = "%" -> "Percent"      [] c = "+" -> "Plus"
      [] c = "-" -> "Minus"       [] c = "*" -> "Star"         [] c = "/" -> "Slash"
      [] c = "!" -> "Bang"        [] c = "=" -> "Equal"        [] c = "<" -> "Less"
      [] c = ">" -> "Greater"     [] c = "&" -> "Amp"          [] c = "|" -> "Pipe"
      [] c = ":" -> "Colon"]
Pairs == {<<"+", "=", "PlusEqual">>, <<"-", "=", "MinusEqual">>, <<"-", ">", "Arrow">>,
          <<"*", "=", "StarEqual">>, <<"/", "=", "SlashEqual">>, <<"!", "=", "BangEqual">>,
          <<"=", "=", "EqualEqual">>, <<"=", ">", "FatArrow">>, <<"<", "<", "LessLess">>,
          <<"<", "=", "LessEqual">>, <<">", ">", "GreaterGreater">>,
          <<">", "=", "GreaterEqual">>, <<"&", "&", "AmpAmp">>, <<"|", "|", "PipePipe">>,
          <<":", ":", "ColonColon">>}
Chars == Digits \cup Alpha \cup Blanks \cup Strange \cup DOMAIN Operators \cup {"DQ", "'", "BS"}

\* The keywords that the alphabet spells.
keywords == {<<"i", "f">>, <<"i", "n">>, <<"i", "8">>}

ASSUME AlphabetsAssumption == Alphabets \subseteq SUBSET Chars
ASSUME BoundsAssumption == MaxLength \in Nat /\ MaxPeeks \in Nat /\ MaxAhead \in Nat
ASSUME SizeAssumption == SizeT \in Nat /\ MaxLength + 1 < SizeT     \* a text, and the column after it

VARIABLES
    source,     \* source_
    current,    \* current_: characters taken
    start,      \* start_ of the token being scanned
    line, column,
    errors,     \* the size of errors_
    mode,       \* where nextToken is
    type,       \* the type of the token that makeToken is called with
    tokens,     \* what nextToken returned to the parser
    peeking     \* the calls of peekToken: the one that runs and what the last one saw

position == <<start, current, line, column>>
vars == <<source, position, errors, mode, type, tokens, peeking>>

Types == {Operators[c] : c \in DOMAIN Operators} \cup {p[3] : p \in Pairs}
         \cup {"Identifier", "Keyword", "IntegerLiteral", "FloatLiteral", "StringLiteral",
               "CharLiteral", "Unknown", "EndOfFile"}
Token == [type : Types, lo : 0..MaxLength, hi : 0..MaxLength,
          line : Nat, column : 0..(SizeT - 1)]
NoToken == [type |-> "EndOfFile", lo |-> 0, hi |-> 0, line |-> 0, column |-> 0]

\* on: inside of peekToken, with left tokens still to skip and the position to
\* put back; saw: the token seen, the next but index of the parser (0: none).
NotPeeking == [on |-> FALSE, left |-> 0, saved |-> <<0, 0, 1, 1>>, calls |-> 0,
               saw |-> NoToken, index |-> 0]

Init ==
    /\ source \in UNION {SeqOf(A, MaxLength) : A \in Alphabets}
    /\ current = 0 /\ start = 0 /\ line = 1 /\ column = 1
    /\ errors = 0 /\ mode = "idle" /\ type = "Unknown"
    /\ tokens = <<>> /\ peeking = NotPeeking

-----------------------------------------------------------------------------
isAtEnd == current >= Len(source)
peek(offset) == IF current + offset >= Len(source) THEN "end" ELSE source[current + offset + 1]

\* advance, to go on in the given mode.
Advance(next) ==
    /\ current' = current + 1
    /\ line' = IF peek(0) = "NL" THEN line + 1 ELSE line
    /\ column' = IF peek(0) = "NL" THEN 1 ELSE column + 1
    /\ mode' = next

Stay(next) == mode' = next /\ UNCHANGED <<current, line, column>>
Keep == UNCHANGED <<source, start, errors, type, tokens, peeking>>

\* nextToken is called: by the parser until it has the end of the file, or by
\* peekToken.
Finished == ~peeking.on /\ tokens # <<>> /\ tokens[Len(tokens)].type = "EndOfFile"

NextToken ==
    /\ mode = "idle" /\ ~Finished
    /\ mode' = "skip"
    /\ UNCHANGED <<source, position, errors, type, tokens, peeking>>

PeekToken(ahead) ==
    /\ mode = "idle" /\ ~peeking.on /\ ~Finished /\ peeking.calls < MaxPeeks
    /\ mode' = "skip"
    /\ peeking' = [on |-> TRUE, left |-> ahead, saved |-> position, calls |-> peeking.calls + 1,
                   saw |-> NoToken, index |-> Len(tokens) + ahead + 1]
    /\ UNCHANGED <<source, position, errors, type, tokens>>

\* skipWhitespace and skipComment
Skip ==
    /\ \/ mode = "skip" /\ peek(0) \in Blanks /\ Advance("skip")
       \/ mode = "skip" /\ peek(0) = "/" /\ peek(1) = "/" /\ Stay("comment")
       \/ mode = "comment" /\ ~isAtEnd /\ peek(0) # "NL" /\ Advance("comment")
       \/ mode = "comment" /\ (isAtEnd \/ peek(0) = "NL") /\ Stay("skip")
    /\ Keep

\* The first character of a token, and where it leads.
First ==
    LET c == peek(0) IN
    /\ mode = "skip" /\ c \notin Blanks /\ ~(c = "/" /\ peek(1) = "/")
    /\ start' = current
    /\ \/ isAtEnd /\ type' = "EndOfFile" /\ Stay("make") /\ UNCHANGED errors
       \/ ~isAtEnd /\ c \in Alpha /\ Advance("word") /\ UNCHANGED <<type, errors>>
       \/ ~isAtEnd /\ c \in Digits
          /\ type' = "IntegerLiteral" /\ Advance("digits") /\ UNCHANGED errors
       \/ ~isAtEnd /\ c \in DOMAIN Operators
          /\ type' = Operators[c] /\ Advance("pair") /\ UNCHANGED errors
       \/ ~isAtEnd /\ c = "DQ" /\ Advance("string") /\ UNCHANGED <<type, errors>>
       \/ ~isAtEnd /\ c = "'" /\ Advance("character") /\ UNCHANGED <<type, errors>>
       \/ ~isAtEnd /\ c \in Strange \cup {"BS"}
          /\ type' = "Unknown" /\ Advance("make") /\ errors' = errors + 1
    /\ UNCHANGED <<source, tokens, peeking>>

\* A step of a token's own loop: it takes a character, or leaves that loop.
Take(in, next) == mode = in /\ Advance(next) /\ Keep
Leave(in, next) == mode = in /\ Stay(next) /\ Keep
TakeAs(in, next, t) ==
    mode = in /\ Advance(next) /\ type' = t /\ UNCHANGED <<source, start, errors, tokens, peeking>>
LeaveAs(in, next, t) ==
    mode = in /\ Stay(next) /\ type' = t /\ UNCHANGED <<source, start, errors, tokens, peeking>>
Fail(in) ==
    /\ mode = in /\ Stay("make") /\ type' = "Unknown" /\ errors' = errors + 1
    /\ UNCHANGED <<source, start, tokens, peeking>>

Scanned == SubSeq(source, start + 1, current)

identifier ==
    \/ peek(0) \in Alpha \cup Digits /\ Take("word", "word")
    \/ /\ peek(0) \notin Alpha \cup Digits
       /\ LeaveAs("word", "make", IF Scanned \in keywords THEN "Keyword" ELSE "Identifier")

number ==
    \/ peek(0) \in Digits /\ \E m \in {"digits", "fraction", "exponent"} : Take(m, m)
    \/ peek(0) = "." /\ peek(1) \in Digits /\ TakeAs("digits", "fraction", "FloatLiteral")
    \/ /\ peek(0) \notin Digits /\ ~(peek(0) = "." /\ peek(1) \in Digits)
       /\ Leave("digits", "power")
    \/ peek(0) \notin Digits /\ Leave("fraction", "power")
    \/ peek(0) \in {"e", "E"} /\ TakeAs("power", "sign", "FloatLiteral")
    \/ peek(0) \notin {"e", "E"} /\ Leave("power", "make")
    \/ peek(0) \in {"+", "-"} /\ Take("sign", "exponent")
    \/ peek(0) \notin {"+", "-"} /\ Leave("sign", "exponent")
    \/ peek(0) \notin Digits /\ Leave("exponent", "make")

EndUnseen ==
    \/ peek(0) = "DQ" /\ TakeAs("string", "make", "StringLiteral")
    \/ peek(0) = "BS" /\ Take("string", "escape")
    \/ ~isAtEnd /\ peek(0) \notin {"DQ", "BS"} /\ Take("string", "string")
    \/ isAtEnd /\ Leave("string", "string")
    \/ isAtEnd /\ Leave("escape", "string")
    \/ ~isAtEnd /\ Take("escape", "string")

\* An escape is two characters, or the one at the end of the text.
string ==
    \/ isAtEnd /\ Fail("string")
    \/ ~isAtEnd /\ peek(0) = "DQ" /\ TakeAs("string", "make", "StringLiteral")
    \/ ~isAtEnd /\ peek(0) = "BS" /\ Take("string", "escape")
    \/ ~isAtEnd /\ peek(0) \notin {"DQ", "BS"} /\ Take("string", "string")
    \/ isAtEnd /\ Leave("escape", "string")
    \/ ~isAtEnd /\ Take("escape", "string")

\* The character may be any, a quote too.
character ==
    \/ ~isAtEnd /\ peek(0) = "BS" /\ Take("character", "escaped")
    \/ ~isAtEnd /\ peek(0) # "BS" /\ Take("character", "quote")
    \/ isAtEnd /\ Leave("character", "quote")
    \/ ~isAtEnd /\ Take("escaped", "quote")
    \/ isAtEnd /\ Leave("escaped", "quote")
    \/ peek(0) = "'" /\ TakeAs("quote", "make", "CharLiteral")
    \/ peek(0) # "'" /\ Fail("quote")

NotAdvanced ==
    /\ mode = "pair"
    /\ \/ \E p \in Pairs : /\ p[1] = source[current] /\ p[2] = peek(0)
                           /\ LeaveAs("pair", "make", p[3])
       \/ /\ \A p \in Pairs : <<p[1], p[2]>> # <<source[current], peek(0)>>
          /\ Leave("pair", "make")

\* match, after the first character of an operator.
match ==
    /\ mode = "pair"
    /\ \/ \E p \in Pairs : /\ p[1] = source[current] /\ p[2] = peek(0)
                           /\ TakeAs("pair", "make", p[3])
       \/ /\ \A p \in Pairs : <<p[1], p[2]>> # <<source[current], peek(0)>>
          /\ Leave("pair", "make")

\* The token, placed at the column that its length takes back from here.
Made == [type |-> type, lo |-> start, hi |-> current, line |-> line,
         column |-> (column - (current - start)) % SizeT]

MakeToken ==
    /\ mode = "make" /\ ~peeking.on
    /\ mode' = "idle" /\ tokens' = Append(tokens, Made)
    /\ UNCHANGED <<source, position, errors, type, peeking>>

OneAheadTooFew ==
    /\ mode = "make" /\ peeking.on
    /\ \/ /\ peeking.left > 1
          /\ mode' = "skip" /\ peeking' = [peeking EXCEPT !.left = @ - 1]
          /\ UNCHANGED position
       \/ /\ peeking.left <= 1
          /\ mode' = "idle" /\ peeking' = [peeking EXCEPT !.on = FALSE, !.saw = Made]
          /\ start' = peeking.saved[1] /\ current' = peeking.saved[2]
          /\ line' = peeking.saved[3] /\ column' = peeking.saved[4]
    /\ UNCHANGED <<source, errors, type, tokens>>

\* In peekToken: one token fewer to skip, or the position put back; what
\* addError noted stays.
Peeked ==
    /\ mode = "make" /\ peeking.on
    /\ \/ /\ peeking.left > 0
          /\ mode' = "skip" /\ peeking' = [peeking EXCEPT !.left = @ - 1]
          /\ UNCHANGED position
       \/ /\ peeking.left = 0
          /\ mode' = "idle" /\ peeking' = [peeking EXCEPT !.on = FALSE, !.saw = Made]
          /\ start' = peeking.saved[1] /\ current' = peeking.saved[2]
          /\ line' = peeking.saved[3] /\ column' = peeking.saved[4]
    /\ UNCHANGED <<source, errors, type, tokens>>

Done == Finished /\ mode = "idle" /\ UNCHANGED vars

Scan == Skip \/ First \/ identifier \/ number \/ string \/ character \/ match \/ MakeToken \/ Peeked

Next == NextToken \/ (\E ahead \in 0..MaxAhead : PeekToken(ahead)) \/ Scan \/ Done

\* The parser calls nextToken until it has the end of the file.
Spec == Init /\ [][Next]_vars /\ WF_vars(Scan) /\ WF_vars(NextToken)

-----------------------------------------------------------------------------
TypeOK ==
    /\ source \in Seq(Chars) /\ Len(source) <= MaxLength
    /\ start \in 0..MaxLength /\ current \in start..MaxLength
    /\ line \in 1..(MaxLength + 1) /\ column \in 1..(MaxLength + 1)
    /\ errors \in Nat /\ type \in Types
    /\ mode \in {"idle", "skip", "comment", "word", "digits", "fraction", "power", "sign",
                 "exponent", "string", "escape", "character", "escaped", "quote", "pair", "make"}
    /\ tokens \in Seq(Token)
    /\ peeking \in [on : BOOLEAN, left : 0..MaxAhead, saved : Seq(Nat), calls : 0..MaxPeeks,
                    saw : Token, index : Nat]

\* The characters from lo (the first is number 0) to hi, all in S.
All(lo, hi, S) == \A i \in (lo + 1)..hi : source[i] \in S

\* An escape in a literal that begins at lo takes the character at i.
Escaped(lo, i) ==
    Cardinality({j \in (lo + 2)..(i - 1) : \A k \in j..(i - 1) : source[k] = "BS"}) % 2 = 1

\* The lexical grammar: the characters from lo to hi are a token of type t.
IsNumber(lo, hi) ==
    \E a \in (lo + 1)..hi : \E b \in a..hi :
        /\ All(lo, a, Digits)
        /\ b = a \/ (b >= a + 2 /\ source[a + 1] = "." /\ All(a + 1, b, Digits))
        /\ \/ b = hi
           \/ /\ source[b + 1] \in {"e", "E"}
              /\ \/ All(b + 1, hi, Digits)
                 \/ hi > b + 1 /\ source[b + 2] \in {"+", "-"} /\ All(b + 2, hi, Digits)
IsWord(lo, hi) == source[lo + 1] \in Alpha /\ All(lo, hi, Alpha \cup Digits)
IsLexeme(lo, hi, t) ==
    LET text == SubSeq(source, lo + 1, hi) IN
    /\ lo < hi
    /\ CASE t = "Identifier" -> IsWord(lo, hi) /\ text \notin keywords
         [] t = "Keyword" -> text \in keywords
         [] t = "IntegerLiteral" -> All(lo, hi, Digits)
         [] t = "FloatLiteral" -> IsNumber(lo, hi) /\ ~All(lo, hi, Digits)
         [] t = "StringLiteral" ->
                /\ hi >= lo + 2 /\ source[lo + 1] = "DQ"
                /\ \A i \in (lo + 2)..hi : source[i] = "DQ" /\ ~Escaped(lo, i) <=> i = hi
         [] t = "CharLiteral" ->
                /\ hi > lo + 1 /\ source[lo + 1] = "'" /\ source[hi] = "'"
                /\ hi = lo + (IF source[lo + 2] = "BS" THEN 4 ELSE 3)
         [] OTHER -> \/ \E c \in DOMAIN Operators : text = <<c>> /\ t = Operators[c]
                     \/ \E p \in Pairs : text = <<p[1], p[2]>> /\ t = p[3]
Lexemes(lo) == {l \in ((lo + 1)..Len(source)) \X (Types \ {"Unknown", "EndOfFile"}) :
                    IsLexeme(lo, l[1], l[2])}

(* The token last returned is the longest text at its place that is one,       *)
(* with the type of that text; a text that begins no token becomes Unknown,    *)
(* which the parser reports (Lexer.cpp:141-207, 232-330).                      *)
LongestMatch ==
    mode = "idle" /\ tokens # <<>> =>
        LET t == tokens[Len(tokens)] lexemes == Lexemes(t.lo) IN
        t.type # "EndOfFile" =>
            IF t.type = "Unknown" THEN lexemes = {}
            ELSE /\ <<t.hi, t.type>> \in lexemes
                 /\ \A l \in lexemes : l[1] <= t.hi

\* The characters from lo to hi are blanks and whole comments.
Skippable(lo, hi) ==
    \A i \in (lo + 1)..hi :
        \/ source[i] \in Blanks
        \/ \E j \in (lo + 1)..i : /\ j < hi /\ source[j] = "/" /\ source[j + 1] = "/"
                                  /\ \A k \in j..i : source[k] # "NL"

(* The tokens follow one another through the text, nothing lies between them   *)
(* but blanks and comments, none begins in a comment, and with the end of the  *)
(* file the whole text has been read (Lexer.cpp:99-128, 232-239).              *)
TilesSource ==
    \A k \in DOMAIN tokens :
        LET t == tokens[k] from == IF k = 1 THEN 0 ELSE tokens[k - 1].hi IN
        /\ from <= t.lo /\ Skippable(from, t.lo)
        /\ ~(t.lo + 2 <= Len(source) /\ source[t.lo + 1] = "/" /\ source[t.lo + 2] = "/")
        /\ t.type = "EndOfFile" <=> t.lo = Len(source)

Newlines(hi) == {i \in 1..hi : source[i] = "NL"}

(* The line and the column of a token that stays on its line are those of its  *)
(* first character, though makeToken works them out from the last one          *)
(* (Lexer.cpp:71-83, 130-134).                                                 *)
Located ==
    \A k \in DOMAIN tokens :
        LET t == tokens[k] before == Newlines(t.lo) IN
        Newlines(t.hi) = before =>
            /\ t.line = Cardinality(before) + 1
            /\ t.column = t.lo + 1 - (IF before = {} THEN 0
                                      ELSE CHOOSE i \in before : \A j \in before : j <= i)

(* The tokens are those of the text: the longest matches, one after another,   *)
(* with nothing left out, and where they are said to be.                       *)
TokensSound == TypeOK /\ LongestMatch /\ TilesSource /\ Located

(* What peekToken saw is what nextToken returns when the parser comes there    *)
(* (Lexer.cpp:333-350).                                                        *)
PeekAgrees ==
    ~peeking.on /\ peeking.index \in DOMAIN tokens => tokens[peeking.index] = peeking.saw

(* Whatever the text, the scan comes to its end.                               *)
ScansAll == <>Finished
=============================================================================
