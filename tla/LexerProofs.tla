----------------------------- MODULE LexerProofs -----------------------------
(***************************************************************************)
(* The tokens of Lexer are sound for every text: ScanInv, which holds of   *)
(* every state, says of each mode what the characters taken since start    *)
(* are (MatchInv), where the scan is among the tokens (TilesInv) and that  *)
(* line and column are those of the position (PlacesInv).  The lemmas go   *)
(* through the alphabet, the position, the gaps between the tokens and the *)
(* lexemes, type by type.                                                  *)
(*                                                                         *)
(* What peekToken saw is what nextToken returns, since both are on the one *)
(* trace of positions that the text determines.                            *)
(***************************************************************************)
EXTENDS Lexer, FiniteSetTheorems, SequenceTheorems, WellFoundedInduction, TLAPS

(* The alphabet *)

\* The classes of characters have none in common.
LEMMA Classes ==
    \A c :
        /\ c \in Alpha => /\ c \notin Digits /\ c \notin DOMAIN Operators /\ c \notin Blanks
                          /\ c \notin Strange /\ c \notin {"DQ", "'", "BS", "end", "NL", "."}
        /\ c \in Digits => /\ c \notin DOMAIN Operators /\ c \notin Blanks
                           /\ c \notin Strange
                           /\ c \notin {"DQ", "'", "BS", "end", "NL", ".", "e", "E", "+", "-"}
        /\ c \in DOMAIN Operators => /\ c \notin Blanks /\ c \notin Strange
                                     /\ c \notin {"DQ", "'", "BS", "end", "NL"}
        /\ c \in Blanks => c \notin Strange /\ c \notin {"DQ", "'", "BS", "end", "/"}
        /\ c \in Strange => c \notin {"DQ", "'", "BS", "end", "NL", "/"}
<1>1. DOMAIN Operators = {"(", ")", "{", "}", "[", "]", ";", ",", ".", "?", "@", "~", "^", "%",
                          "+", "-", "*", "/", "!", "=", "<", ">", "&", "|", ":"}
  BY Zenon DEF Operators
<1>2. ASSUME NEW c \in Alpha
      PROVE  /\ c \notin Digits /\ c \notin DOMAIN Operators /\ c \notin Blanks
             /\ c \notin Strange /\ c \notin {"DQ", "'", "BS", "end", "NL", "."}
  BY <1>1, Zenon DEF Alpha, Digits, Blanks, Strange
<1>3. ASSUME NEW c \in Digits
      PROVE  /\ c \notin DOMAIN Operators /\ c \notin Blanks
             /\ c \notin Strange
             /\ c \notin {"DQ", "'", "BS", "end", "NL", ".", "e", "E", "+", "-"}
  BY <1>1, Zenon DEF Digits, Blanks, Strange
<1>4. ASSUME NEW c \in DOMAIN Operators
      PROVE  /\ c \notin Blanks /\ c \notin Strange
             /\ c \notin {"DQ", "'", "BS", "end", "NL"}
  BY <1>1, Zenon DEF Blanks, Strange
<1>5. ASSUME NEW c \in Blanks
      PROVE c \notin Strange /\ c \notin {"DQ", "'", "BS", "end", "/"}
  BY Zenon DEF Blanks, Strange
<1>6. ASSUME NEW c \in Strange
      PROVE c \notin {"DQ", "'", "BS", "end", "NL", "/"}
  BY Zenon DEF Strange
<1> QED BY <1>2, <1>3, <1>4, <1>5, <1>6, Zenon

LEMMA EndIsNone == "end" \notin Chars
BY Classes, Zenon DEF Chars

\* Every character is of a class.
LEMMA EachIsOne ==
    \A c \in Chars : \/ c \in Alpha \/ c \in Digits \/ c \in DOMAIN Operators \/ c \in Blanks
                     \/ c \in Strange \/ c = "DQ" \/ c = "'" \/ c = "BS"
BY Zenon DEF Chars

Named == {"Identifier", "Keyword", "IntegerLiteral", "FloatLiteral", "StringLiteral", "CharLiteral"}

\* No operator has the name of another token.
LEMMA OperatorNames ==
    /\ \A c \in DOMAIN Operators : Operators[c] \in Types \ (Named \cup {"Unknown", "EndOfFile"})
    /\ \A p \in Pairs : p[3] \in Types \ (Named \cup {"Unknown", "EndOfFile"}) /\ p[1] \in DOMAIN Operators
<1>1. DOMAIN Operators = {"(", ")", "{", "}", "[", "]", ";", ",", ".", "?", "@", "~", "^", "%",
                          "+", "-", "*", "/", "!", "=", "<", ">", "&", "|", ":"}
  BY Zenon DEF Operators
<1>2. ASSUME NEW c \in DOMAIN Operators PROVE Operators[c] \notin Named \cup {"Unknown", "EndOfFile"}
  BY <1>1, Zenon DEF Operators, Named
<1>3. ASSUME NEW p \in Pairs
      PROVE  p[3] \notin Named \cup {"Unknown", "EndOfFile"} /\ p[1] \in DOMAIN Operators
  <2>1. {"+", "-", "*", "/", "!", "=", "<", ">", "&", "|", ":"} \subseteq DOMAIN Operators
    BY <1>1, Zenon
  <2>2. p[1] \in {"+", "-", "*", "/", "!", "=", "<", ">", "&", "|", ":"}
    BY DEF Pairs
  <2>3. p[3] \notin Named \cup {"Unknown", "EndOfFile"}
    BY DEF Pairs, Named
  <2> QED BY <2>1, <2>2, <2>3, Zenon
<1> QED BY <1>2, <1>3, Zenon DEF Types
-----------------------------------------------------------------------------
(* What a scan keeps on its way *)

\* The k-th character of the text, as peek has it.
At(k) == IF k > Len(source) THEN "end" ELSE source[k]

\* The last newline of S.
LastOf(S) == IF S = {} THEN 0 ELSE CHOOSE i \in S : \A j \in S : j <= i

\* A position: what is counted agrees with the text before it.
Placed(st, cu, li, co) ==
    /\ cu \in 0..Len(source) /\ st \in 0..cu
    /\ li \in 1..(cu + 1) /\ li = Cardinality(Newlines(cu)) + 1
    /\ LastOf(Newlines(cu)) \in 0..cu
    /\ Newlines(cu) = {} \/ LastOf(Newlines(cu)) \in Newlines(cu)
    /\ co = cu + 1 - LastOf(Newlines(cu))

Saved == peeking.saved

PlacesInv ==
    /\ TypeOK
    /\ Placed(start, current, line, column)
    /\ Placed(Saved[1], Saved[2], Saved[3], Saved[4])

\* Where the next token of the parser is looked for from.
From == IF tokens = <<>> THEN 0 ELSE tokens[Len(tokens)].hi

Between == {"idle", "skip", "comment"}

CommentAt(j) == j < Len(source) /\ source[j] = "/" /\ source[j + 1] = "/"

TilesInv ==
    /\ TilesSource
    /\ peeking.on => Saved[2] = From
    /\ ~peeking.on =>
           /\ mode = "idle" => current = From
           /\ mode = "skip" => From <= current /\ Skippable(From, current)
           /\ mode = "comment" =>
                  \E j \in (From + 1)..(current + 1) :
                      /\ CommentAt(j) /\ Skippable(From, j - 1)
                      /\ \A k \in j..current : source[k] # "NL"
           /\ mode \notin Between => From <= start /\ Skippable(From, start)
    /\ mode \notin Between =>
           /\ ~CommentAt(start + 1)
           /\ mode = "make" /\ type = "EndOfFile" => start = Len(source)
           /\ mode # "make" \/ type # "EndOfFile" => start < Len(source)

\* The token from lo to hi, of type t, is the longest there.
Longest(lo, hi, t) ==
    IF t = "Unknown" THEN Lexemes(lo) = {}
    ELSE /\ <<hi, t>> \in Lexemes(lo)
         /\ \A l \in Lexemes(lo) : l[1] <= hi

WordSoFar == mode = "word" => IsWord(start, current)

\* A number's digits, up to a, and its fraction, up to b, have been taken.
Whole(a, b, t) ==
    /\ b \in 1..Len(source) /\ a \in (start + 1)..b /\ All(start, a, Digits) /\ At(a + 1) \notin Digits
    /\ \/ /\ b = a /\ ~(At(a + 1) = "." /\ At(a + 2) \in Digits)
          /\ t = "IntegerLiteral"
       \/ /\ b >= a + 2 /\ source[a + 1] = "." /\ All(a + 1, b, Digits) /\ At(b + 1) \notin Digits
          /\ t = "FloatLiteral"

\* The same, and that an exponent follows.
Powered(a, b) ==
    /\ \E t \in {"IntegerLiteral", "FloatLiteral"} : Whole(a, b, t)
    /\ b < Len(source) /\ source[b + 1] \in {"e", "E"}

\* The digits up to a, a point and digits up to hi.
Fraction(a, hi) ==
    /\ a < hi /\ All(start, a, Digits) /\ source[a + 1] = "." /\ At(a + 2) \in Digits
    /\ All(a + 1, hi, Digits)

\* The letter of an exponent, at b + 1, and what follows it up to hi.
Exponential(a, b, hi) ==
    /\ Powered(a, b)
    /\ \/ b + 1 <= hi /\ At(b + 2) \notin {"+", "-"} /\ All(b + 1, hi, Digits)
       \/ b + 2 <= hi /\ source[b + 2] \in {"+", "-"} /\ All(b + 2, hi, Digits)

NumberSoFar ==
    /\ mode = "digits" => All(start, current, Digits) /\ type = "IntegerLiteral"
    /\ mode = "fraction" =>
           type = "FloatLiteral" /\ \E a \in (start + 1)..current : Fraction(a, current)
    /\ mode = "power" => \E a \in (start + 1)..current : Whole(a, current, type)
    /\ mode = "sign" =>
           type = "FloatLiteral" /\ \E a \in (start + 1)..current : Powered(a, current - 1)
    /\ mode = "exponent" =>
           /\ type = "FloatLiteral"
           /\ \E a \in (start + 1)..current : \E b \in a..current : Exponential(a, b, current)

\* No quote ends the literal up to hi.
Open(hi) == /\ source[start + 1] = "DQ"
            /\ \A i \in (start + 2)..hi : ~(source[i] = "DQ" /\ ~Escaped(start, i))

StringSoFar ==
    /\ mode \in {"string", "escape"} => Open(current)
    /\ mode = "string" => current = Len(source) \/ ~Escaped(start, current + 1)
    /\ mode = "escape" => Escaped(start, current + 1)

CharacterSoFar ==
    /\ mode \in {"character", "escaped", "quote"} => source[start + 1] = "'"
    /\ mode = "character" => current = start + 1
    /\ mode = "escaped" => current = start + 2 /\ source[start + 2] = "BS"
    /\ mode = "quote" =>
           \/ current = start + 2 /\ source[start + 2] # "BS"
           \/ current = start + 3 /\ source[start + 2] = "BS"
           \/ current = Len(source) /\ current = start + 1
           \/ current = Len(source) /\ current = start + 2 /\ source[start + 2] = "BS"

PairSoFar ==
    mode = "pair" =>
        /\ current = start + 1 /\ source[current] \in DOMAIN Operators
        /\ type = Operators[source[current]]

MatchInv ==
    /\ mode \notin Between \cup {"make"} => start < current
    /\ WordSoFar /\ NumberSoFar /\ StringSoFar /\ CharacterSoFar /\ PairSoFar
    /\ mode = "make" /\ type # "EndOfFile" => Longest(start, current, type)
    /\ tokens # <<>> =>
           LET t == tokens[Len(tokens)]
           IN  t.type # "EndOfFile" => Longest(t.lo, t.hi, t.type)

ScanInv == PlacesInv /\ TilesInv /\ Located /\ MatchInv
-----------------------------------------------------------------------------
(* The position *)

Modes == {"idle", "skip", "comment", "word", "digits", "fraction", "power", "sign",
          "exponent", "string", "escape", "character", "escaped", "quote", "pair", "make"}

\* What peek shows.
LEMMA PeekIs ==
    ASSUME source \in Seq(Chars), current \in 0..Len(source)
    PROVE  /\ peek(0) = At(current + 1) /\ peek(1) = At(current + 2)
           /\ isAtEnd <=> At(current + 1) = "end"
           /\ isAtEnd <=> current = Len(source)
           /\ ~isAtEnd => current < Len(source) /\ peek(0) = source[current + 1] /\ peek(0) \in Chars
<1>1. PICK n \in Nat : n = Len(source)
  OBVIOUS
<1>2. current \in Nat /\ current <= n /\ current + 0 = current
      /\ (current + 0 >= n <=> current + 1 > n) /\ (current + 1 >= n <=> current + 2 > n)
      /\ (current + 0) + 1 = current + 1 /\ (current + 1) + 1 = current + 2
  BY <1>1
<1>3. peek(0) = At(current + 1) /\ peek(1) = At(current + 2)
  BY <1>1, <1>2 DEF peek, At
<1>4. isAtEnd <=> current = n
  BY <1>1, <1>2 DEF isAtEnd
<1>5. ~isAtEnd => current < n /\ At(current + 1) = source[current + 1] /\ current + 1 \in 1..n
  BY <1>1, <1>2, <1>4 DEF At
<1>6. \A k \in 1..n : source[k] \in Chars
  BY <1>1, ElementOfSeq
<1>7. isAtEnd => At(current + 1) = "end"
  BY <1>1, <1>2, <1>4 DEF At
<1> QED BY <1>1, <1>3, <1>4, <1>5, <1>6, <1>7, EndIsNone

\* A step of a scan, but for the last: it takes a character or none.
Shape ==
    /\ source' = source /\ tokens' = tokens /\ peeking' = peeking
    /\ errors' \in Nat /\ type' \in Types /\ mode' \in Modes \ {"idle"}
    /\ start' = start \/ (start' = current /\ mode = "skip")
    /\ (current < Len(source) /\ Advance(mode')) \/ UNCHANGED <<current, line, column>>

Scanning == Skip \/ First \/ identifier \/ number \/ string \/ character \/ match

LEMMA ScanShape == ASSUME TypeOK, current <= Len(source), Scanning PROVE Shape
<1>1. /\ source \in Seq(Chars) /\ current \in 0..Len(source) /\ errors \in Nat /\ type \in Types
      /\ errors + 1 \in Nat
  BY BoundsAssumption DEF TypeOK
<1>2. "end" \notin Alpha \cup Digits \cup Blanks
  BY Classes
<1>3. /\ peek(0) \in Alpha \cup Digits \cup Blanks \cup {"NL", "DQ", "BS", "'", "e", "E", "+", "-", ".", "/"}
            => ~isAtEnd
      /\ ~isAtEnd => current < Len(source)
  BY <1>1, <1>2, PeekIs
<1>4. /\ {"Unknown", "EndOfFile", "Identifier", "Keyword", "IntegerLiteral", "FloatLiteral",
          "StringLiteral", "CharLiteral"} \subseteq Types
      /\ \A c \in DOMAIN Operators : Operators[c] \in Types
      /\ \A p \in Pairs : p[3] \in Types
  BY OperatorNames, Zenon DEF Types
<1> USE DEF Shape, Advance, Stay, Keep, Modes, Take, Leave, TakeAs, LeaveAs, Fail
<1>5. CASE Skip
  BY <1>1, <1>3, <1>5 DEF Skip
<1>6. CASE First
  BY <1>1, <1>3, <1>4, <1>6 DEF First
<1>7. CASE identifier
  BY <1>1, <1>3, <1>4, <1>7 DEF identifier
<1>8. CASE number
  BY <1>1, <1>3, <1>4, <1>8 DEF number
<1>9. CASE string
  BY <1>1, <1>3, <1>4, <1>9 DEF string
<1>10. CASE character
  BY <1>1, <1>3, <1>4, <1>10 DEF character
<1>11. CASE match
  <2>1. ASSUME NEW p \in Pairs, p[2] = peek(0) PROVE ~isAtEnd
    <3>1. p[2] # "end"
      BY DEF Pairs
    <3> QED BY <1>1, <2>1, <3>1, PeekIs
  <2> QED BY <1>1, <1>3, <1>4, <1>11, <2>1 DEF match
<1> QED BY <1>5, <1>6, <1>7, <1>8, <1>9, <1>10, <1>11 DEF Scanning

LEMMA NewlinesFinite ==
    ASSUME NEW k \in Nat PROVE IsFiniteSet(Newlines(k))
<1>1. IsFiniteSet(1..k) /\ Newlines(k) \subseteq 1..k
  BY FS_Interval DEF Newlines
<1> QED BY <1>1, FS_Subset

\* One character further, a newline is one more and the last.
LEMMA PlacedNext ==
    ASSUME source \in Seq(Chars), NEW st, NEW cu, NEW li, NEW co, Placed(st, cu, li, co),
           cu < Len(source)
    PROVE  Placed(st, cu + 1, IF source[cu + 1] = "NL" THEN li + 1 ELSE li,
                  IF source[cu + 1] = "NL" THEN 1 ELSE co + 1)
<1>1. PICK n \in Nat : n = Len(source)
  OBVIOUS
<1>2. /\ cu \in 0..n /\ st \in 0..cu /\ cu < n
      /\ li \in 1..(cu + 1) /\ li = Cardinality(Newlines(cu)) + 1
      /\ LastOf(Newlines(cu)) \in 0..cu
      /\ Newlines(cu) = {} \/ LastOf(Newlines(cu)) \in Newlines(cu)
      /\ co = cu + 1 - LastOf(Newlines(cu))
  BY <1>1 DEF Placed
<1>3. cu \in Nat /\ cu + 1 \in 0..n /\ st \in 0..(cu + 1) /\ Newlines(cu) \subseteq 1..cu
  BY <1>2 DEF Newlines
<1>4. IsFiniteSet(Newlines(cu)) /\ Cardinality(Newlines(cu)) \in Nat
  BY <1>3, NewlinesFinite, FS_CardinalityType
<1>5. CASE source[cu + 1] = "NL"
  <2>1. Newlines(cu + 1) = Newlines(cu) \cup {cu + 1} /\ cu + 1 \notin Newlines(cu)
    BY <1>3, <1>5 DEF Newlines
  <2>2. Cardinality(Newlines(cu + 1)) = Cardinality(Newlines(cu)) + 1
    BY <1>4, <2>1, FS_AddElement
  <2>3. LastOf(Newlines(cu + 1)) = cu + 1
    <3>1. \A j \in Newlines(cu + 1) : j <= cu + 1
      BY <1>3, <2>1
    <3>2. \A k \in Newlines(cu + 1) : (\A j \in Newlines(cu + 1) : j <= k) => k = cu + 1
      BY <1>3, <2>1
    <3>3. cu + 1 \in Newlines(cu + 1) /\ Newlines(cu + 1) # {}
      BY <2>1
    <3> QED BY <3>1, <3>2, <3>3 DEF LastOf
  <2>4. li + 1 = Cardinality(Newlines(cu + 1)) + 1 /\ li + 1 \in 1..((cu + 1) + 1)
    BY <1>2, <1>3, <1>4, <2>2
  <2>5. cu + 1 \in Newlines(cu + 1) /\ 1 = (cu + 1) + 1 - (cu + 1)
    BY <1>3, <2>1
  <2> QED BY <1>1, <1>3, <1>5, <2>3, <2>4, <2>5 DEF Placed
<1>6. CASE source[cu + 1] # "NL"
  <2>1. Newlines(cu + 1) = Newlines(cu)
    BY <1>3, <1>6 DEF Newlines
  <2>2. li \in 1..((cu + 1) + 1) /\ LastOf(Newlines(cu)) \in 0..(cu + 1)
        /\ co + 1 = (cu + 1) + 1 - LastOf(Newlines(cu))
    BY <1>2, <1>3
  <2> QED BY <1>1, <1>2, <1>3, <1>6, <2>1, <2>2 DEF Placed
<1> QED BY <1>5, <1>6

\* What a position says of its numbers.
LEMMA PlacedTyped ==
    ASSUME TypeOK, NEW st, NEW cu, NEW li, NEW co, Placed(st, cu, li, co)
    PROVE  /\ st \in 0..MaxLength /\ cu \in st..MaxLength
           /\ li \in 1..(MaxLength + 1) /\ co \in 1..(MaxLength + 1)
           /\ st \in Nat /\ cu \in Nat /\ li \in Nat /\ co \in Nat
<1>1. Len(source) \in Nat /\ Len(source) <= MaxLength
  BY DEF TypeOK
<1> QED BY <1>1, BoundsAssumption DEF Placed

LEMMA MadeTyped == ASSUME PlacesInv PROVE Made \in Token
<1>1. /\ start \in 0..MaxLength /\ current \in 0..MaxLength /\ line \in Nat /\ column \in Nat /\ type \in Types
  BY BoundsAssumption DEF PlacesInv, TypeOK
<1>2. (column - (current - start)) % SizeT \in 0..(SizeT - 1)
  <2>1. column - (current - start) \in Int /\ SizeT \in Nat /\ SizeT > 0
    BY <1>1, BoundsAssumption, SizeAssumption
  <2> QED BY <2>1
<1> QED BY <1>1, <1>2 DEF Made, Token

LEMMA PlacesInit == ASSUME Init PROVE PlacesInv
<1>1. source \in Seq(Chars) /\ Len(source) <= MaxLength
  <2>1. PICK A \in Alphabets : source \in SeqOf(A, MaxLength)
    BY DEF Init
  <2>2. PICK m \in 0..MaxLength : source \in [1..m -> A]
    BY <2>1 DEF SeqOf
  <2>3. A \subseteq Chars
    BY AlphabetsAssumption
  <2>4. source \in [1..m -> Chars] /\ m \in Nat
    BY <2>2, <2>3, BoundsAssumption
  <2> QED BY <2>2, <2>4, BoundsAssumption
<1>2. Newlines(0) = {} /\ Cardinality({}) = 0
  BY FS_EmptySet DEF Newlines
<1>3. Placed(0, 0, 1, 1)
  BY <1>1, <1>2 DEF Placed, LastOf
<1>4. NoToken \in Token
  BY BoundsAssumption, SizeAssumption DEF NoToken, Token, Types
<1>5. /\ peeking = NotPeeking /\ Saved = <<0, 0, 1, 1>>
      /\ NotPeeking \in [on : BOOLEAN, left : 0..MaxAhead, saved : Seq(Nat), calls : 0..MaxPeeks,
                         saw : Token, index : Nat]
  <2>1. <<0, 0, 1, 1>> \in Seq(Nat) /\ 0 \in 0..MaxAhead /\ 0 \in 0..MaxPeeks
    BY BoundsAssumption
  <2> QED BY <1>4, <2>1 DEF Init, NotPeeking, Saved
<1>6. "Unknown" \in Types /\ 0 \in 0..MaxLength /\ 1 \in 1..(MaxLength + 1)
  BY BoundsAssumption DEF Types
<1>7. TypeOK
  BY <1>1, <1>5, <1>6 DEF Init, TypeOK
<1>8. Placed(start, current, line, column) /\ Placed(Saved[1], Saved[2], Saved[3], Saved[4])
  BY <1>3, <1>5 DEF Init
<1> QED BY <1>7, <1>8 DEF PlacesInv

\* A step leaves the text alone, and so what is counted in it.
LEMMA PlacedKept ==
    ASSUME source' = source, NEW st, NEW cu, NEW li, NEW co, Placed(st, cu, li, co)
    PROVE  /\ cu \in 0..Len(source') /\ st \in 0..cu
           /\ li \in 1..(cu + 1) /\ li = Cardinality(Newlines(cu)') + 1
           /\ LastOf(Newlines(cu)') \in 0..cu
           /\ Newlines(cu)' = {} \/ LastOf(Newlines(cu)') \in Newlines(cu)'
           /\ co = cu + 1 - LastOf(Newlines(cu)')
BY DEF Placed, Newlines

\* A step of a scan: the position stays one.
LEMMA PlacesScan == ASSUME PlacesInv, Shape PROVE PlacesInv'
<1>1. /\ source \in Seq(Chars) /\ Len(source) \in Nat /\ Len(source) <= MaxLength
      /\ current \in 0..Len(source) /\ start \in 0..current
      /\ current \in Nat /\ start \in Nat /\ current + 0 = current
  BY DEF PlacesInv, TypeOK, Placed
<1>2. PICK st, cu, li, co : st = start' /\ cu = current' /\ li = line' /\ co = column'
  OBVIOUS
<1>3. Placed(st, cu, li, co)
  <2>1. st = start \/ st = current
    BY <1>2 DEF Shape
  <2>2. ASSUME NEW s \in {start, current} PROVE Placed(s, current, line, column)
    BY <1>1, <2>2 DEF PlacesInv, Placed
  <2>3. CASE UNCHANGED <<current, line, column>>
    BY <1>2, <2>1, <2>2, <2>3
  <2>4. CASE current < Len(source) /\ Advance(mode')
    <3>1. peek(0) = source[current + 1]
      BY <1>1, <2>4 DEF peek
    <3>2. /\ cu = current + 1 /\ li = IF source[current + 1] = "NL" THEN line + 1 ELSE line
          /\ co = IF source[current + 1] = "NL" THEN 1 ELSE column + 1
      BY <1>2, <2>4, <3>1 DEF Advance
    <3>3. ASSUME NEW s \in {start, current} PROVE Placed(s, cu, li, co)
      <4>1. Placed(s, current, line, column)
        BY <2>2
      <4> QED BY <1>1, <2>4, <3>2, <4>1, PlacedNext
    <3> QED BY <2>1, <3>3
  <2> QED BY <2>3, <2>4 DEF Shape
<1>4. source' = source /\ tokens' = tokens /\ peeking' = peeking /\ errors' \in Nat /\ type' \in Types
      /\ mode' \in Modes
  BY DEF Shape
<1>5. Placed(start, current, line, column)'
  BY <1>2, <1>3, <1>4 DEF Placed, Newlines
<1>6. Placed(Saved[1], Saved[2], Saved[3], Saved[4])'
  BY <1>4 DEF PlacesInv, Placed, Newlines, Saved
<1>7. start' \in 0..MaxLength /\ current' \in start'..MaxLength
      /\ line' \in 1..(MaxLength + 1) /\ column' \in 1..(MaxLength + 1)
  <2>1. TypeOK
    BY DEF PlacesInv
  <2> QED BY <1>2, <1>3, <2>1, PlacedTyped
<1>8. TypeOK'
  BY <1>4, <1>7 DEF PlacesInv, TypeOK, Modes
<1> QED BY <1>5, <1>6, <1>8 DEF PlacesInv

LEMMA PlacesStep == ASSUME PlacesInv, [Next]_vars PROVE PlacesInv'
<1>1. TypeOK /\ current \in 0..Len(source) /\ Placed(start, current, line, column)
      /\ Placed(Saved[1], Saved[2], Saved[3], Saved[4]) /\ MaxAhead \in Nat
  BY BoundsAssumption DEF PlacesInv, Placed
<1>2. Len(source) \in Nat /\ current <= Len(source)
  BY <1>1 DEF TypeOK
<1>3. Made \in Token
  BY MadeTyped
<1>4. /\ start \in 0..MaxLength /\ current \in start..MaxLength
      /\ line \in 1..(MaxLength + 1) /\ column \in 1..(MaxLength + 1)
      /\ start \in Nat /\ current \in Nat /\ line \in Nat /\ column \in Nat
  BY <1>1, PlacedTyped
<1>5. /\ Saved[1] \in 0..MaxLength /\ Saved[2] \in Saved[1]..MaxLength
      /\ Saved[3] \in 1..(MaxLength + 1) /\ Saved[4] \in 1..(MaxLength + 1)
  BY <1>1, PlacedTyped
<1>6. CASE NextToken
  <2>1. TypeOK'
    BY <1>1, <1>6 DEF NextToken, TypeOK, position
  <2> QED BY <1>1, <1>6, <2>1 DEF PlacesInv, NextToken, position, Placed, Newlines, Saved
<1>7. ASSUME NEW ahead \in 0..MaxAhead, PeekToken(ahead) PROVE PlacesInv'
  <2>1. /\ mode' = "skip" /\ UNCHANGED <<source, start, current, line, column, errors, type, tokens>>
        /\ peeking' = [on |-> TRUE, left |-> ahead, saved |-> <<start, current, line, column>>,
                       calls |-> peeking.calls + 1, saw |-> NoToken, index |-> Len(tokens) + ahead + 1]
        /\ peeking.calls < MaxPeeks
    BY <1>7 DEF PeekToken, position
  <2>2. NoToken \in Token
    BY BoundsAssumption, SizeAssumption DEF NoToken, Token, Types
  <2>3. /\ <<start, current, line, column>> \in Seq(Nat) /\ Len(tokens) + ahead + 1 \in Nat
        /\ peeking.calls + 1 \in 0..MaxPeeks
    <3>1. Len(tokens) \in Nat /\ ahead \in Nat /\ peeking.calls \in 0..MaxPeeks
      BY <1>1, BoundsAssumption DEF TypeOK
    <3>2. <<start, current, line, column>> \in Seq(Nat)
      BY <1>4
    <3> QED BY <2>1, <3>1, <3>2, BoundsAssumption
  <2>4. peeking' \in [on : BOOLEAN, left : 0..MaxAhead, saved : Seq(Nat), calls : 0..MaxPeeks,
                      saw : Token, index : Nat]
    BY <2>1, <2>2, <2>3
  <2>5. TypeOK'
    BY <1>1, <2>1, <2>4 DEF TypeOK
  <2>6. Saved' = <<start, current, line, column>>
    BY <2>1 DEF Saved
  <2>7. Placed(Saved[1], Saved[2], Saved[3], Saved[4])'
    BY <1>1, <2>1, <2>6 DEF Placed, Newlines
  <2> QED BY <1>1, <2>1, <2>5, <2>7 DEF PlacesInv, Placed, Newlines
<1>8. CASE Scanning
  BY <1>1, <1>2, <1>8, ScanShape, PlacesScan
<1>9. CASE MakeToken
  <2>1. tokens' \in Seq(Token)
    BY <1>1, <1>3, <1>9 DEF TypeOK, MakeToken
  <2>2. TypeOK'
    BY <1>1, <1>9, <2>1 DEF TypeOK, MakeToken, position
  <2> QED BY <1>1, <1>9, <2>2 DEF PlacesInv, MakeToken, position, Placed, Newlines, Saved
<1>10. CASE Peeked
  <2>1. /\ UNCHANGED <<source, errors, type, tokens>> /\ mode' \in {"skip", "idle"}
    BY <1>10 DEF Peeked
  <2>2. /\ peeking' \in [on : BOOLEAN, left : 0..MaxAhead, saved : Seq(Nat), calls : 0..MaxPeeks,
                        saw : Token, index : Nat]
        /\ Saved' = Saved
    <3>1. peeking.left > 0 => peeking.left - 1 \in 0..MaxAhead
      BY <1>1 DEF TypeOK
    <3>2. \/ peeking' = [peeking EXCEPT !.left = peeking.left - 1] /\ peeking.left > 0
          \/ peeking' = [peeking EXCEPT !.on = FALSE, !.saw = Made]
      BY <1>10 DEF Peeked
    <3> QED BY <1>1, <1>3, <3>1, <3>2 DEF TypeOK, Saved
  <2>3. \/ UNCHANGED position
        \/ start' = Saved[1] /\ current' = Saved[2] /\ line' = Saved[3] /\ column' = Saved[4]
    BY <1>10 DEF Peeked, Saved, position
  <2>4. Placed(start, current, line, column)'
    BY <1>1, <2>1, <2>3 DEF Placed, Newlines, position
  <2>5. TypeOK'
    BY <1>1, <1>4, <1>5, <2>1, <2>2, <2>3 DEF TypeOK, position
  <2> QED BY <1>1, <2>1, <2>2, <2>4, <2>5 DEF PlacesInv, Placed, Newlines
<1>11. CASE UNCHANGED vars
  <2>1. TypeOK'
    BY <1>1, <1>11 DEF TypeOK, vars, position
  <2> QED BY <1>1, <1>11, <2>1 DEF PlacesInv, vars, position, Placed, Newlines, Saved
<1> QED BY <1>6, <1>7, <1>8, <1>9, <1>10, <1>11 DEF Next, Scan, Scanning, Done

-----------------------------------------------------------------------------
(* The tokens through the text *)

\* What is said of the text alone stays.
LEMMA Kept ==
    ASSUME source' = source
    PROVE  /\ \A k : At(k)' = At(k)
           /\ \A k : CommentAt(k)' <=> CommentAt(k)
           /\ \A lo, hi : Skippable(lo, hi)' <=> Skippable(lo, hi)
           /\ \A hi : Newlines(hi)' = Newlines(hi)
           /\ \A lo, hi, S : All(lo, hi, S)' <=> All(lo, hi, S)
           /\ \A lo, i : Escaped(lo, i)' <=> Escaped(lo, i)
           /\ \A lo, hi : IsWord(lo, hi)' <=> IsWord(lo, hi)
           /\ \A lo, hi : IsNumber(lo, hi)' <=> IsNumber(lo, hi)
           /\ \A lo, hi, t : IsLexeme(lo, hi, t)' <=> IsLexeme(lo, hi, t)
           /\ \A lo : Lexemes(lo)' = Lexemes(lo)
           /\ \A lo, hi, t : Longest(lo, hi, t)' <=> Longest(lo, hi, t)
<1>1. \A k : At(k)' = At(k)
  BY DEF At
<1>2. \A k : CommentAt(k)' <=> CommentAt(k)
  BY DEF CommentAt
<1>3. \A lo, hi : Skippable(lo, hi)' <=> Skippable(lo, hi)
  BY DEF Skippable
<1>4. \A hi : Newlines(hi)' = Newlines(hi)
  BY DEF Newlines
<1>5. \A lo, hi, S : All(lo, hi, S)' <=> All(lo, hi, S)
  BY DEF All
<1>6. \A lo, i : Escaped(lo, i)' <=> Escaped(lo, i)
  BY DEF Escaped
<1>7. \A lo, hi : IsWord(lo, hi)' <=> IsWord(lo, hi)
  BY <1>5 DEF IsWord
<1>8. \A lo, hi : IsNumber(lo, hi)' <=> IsNumber(lo, hi)
  BY <1>5 DEF IsNumber
<1>9. \A lo, hi, t : IsLexeme(lo, hi, t)' <=> IsLexeme(lo, hi, t)
  BY <1>5, <1>6, <1>7, <1>8 DEF IsLexeme
<1>10. \A lo : Lexemes(lo)' = Lexemes(lo)
  BY <1>9 DEF Lexemes
<1>11. \A lo, hi, t : Longest(lo, hi, t)' <=> Longest(lo, hi, t)
  BY <1>10 DEF Longest
<1> QED BY <1>1, <1>2, <1>3, <1>4, <1>5, <1>6, <1>7, <1>8, <1>9, <1>10, <1>11

\* A scan within a token.
InToken == identifier \/ number \/ string \/ character \/ match

LEMMA InTokenShape ==
    ASSUME TypeOK, TilesInv, MatchInv, InToken
    PROVE  /\ mode \notin Between \cup {"make"} /\ mode' \notin Between
           /\ start' = start /\ start < Len(source)
           /\ mode' = "make" => type' # "EndOfFile"
<1> USE DEF Between, Advance, Stay, Keep, Take, Leave, TakeAs, LeaveAs, Fail
<1>1. CASE identifier
  BY <1>1 DEF identifier, TilesInv
<1>2. CASE number
  <2>1. mode \in {"power", "exponent"} => type \in {"IntegerLiteral", "FloatLiteral"}
    BY Zenon DEF MatchInv, NumberSoFar, Whole
  <2> QED BY <1>2, <2>1 DEF number, TilesInv
<1>3. CASE string
  BY <1>3 DEF string, TilesInv
<1>4. CASE character
  BY <1>4 DEF character, TilesInv
<1>5. CASE match
  <2>1. mode = "pair" /\ type # "EndOfFile"
    <3>1. mode = "pair"
      BY <1>5 DEF match
    <3> QED BY <3>1, OperatorNames, Zenon DEF MatchInv, PairSoFar
  <2>2. \A p \in Pairs : p[3] # "EndOfFile"
    BY OperatorNames, Zenon
  <2> QED BY <1>5, <2>1, <2>2 DEF match, TilesInv
<1> QED BY <1>1, <1>2, <1>3, <1>4, <1>5 DEF InToken

LEMMA TilesSkip == ASSUME PlacesInv, TilesInv, Skip PROVE TilesInv'
<1>1. PICK n, c, f \in Nat : n = Len(source) /\ c = current /\ f = From
  <2>1. Len(source) \in Nat /\ current \in Nat /\ tokens \in Seq(Token)
    BY BoundsAssumption DEF PlacesInv, TypeOK
  <2>2. From \in Nat
    <3>1. CASE tokens = <<>>
      BY <3>1 DEF From
    <3>2. CASE tokens # <<>>
      <4>1. Len(tokens) \in 1..Len(tokens)
        BY <2>1, <3>2
      <4>2. tokens[Len(tokens)] \in Token
        BY <2>1, <4>1
      <4> QED BY <3>2, <4>2, BoundsAssumption DEF From, Token
    <3> QED BY <3>1, <3>2
  <2> QED BY <2>1, <2>2
<1>2. /\ source' = source /\ tokens' = tokens /\ peeking' = peeking /\ start' = start /\ From' = f
      /\ c <= n /\ source \in Seq(Chars)
      /\ mode \in {"skip", "comment"} /\ mode' \in {"skip", "comment"}
  <2>1. c <= n /\ source \in Seq(Chars)
    BY <1>1 DEF PlacesInv, Placed, TypeOK
  <2>2. /\ source' = source /\ tokens' = tokens /\ peeking' = peeking /\ start' = start
        /\ mode \in {"skip", "comment"} /\ mode' \in {"skip", "comment"}
    BY DEF Skip, Keep, Advance, Stay
  <2>3. From' = f
    BY <1>1, <2>2 DEF From
  <2> QED BY <2>1, <2>2, <2>3
<1>3. TilesSource' /\ (peeking.on => Saved[2] = From)'
  BY <1>1, <1>2, Kept DEF TilesInv, TilesSource, Saved
<1>4. /\ peek(0) = At(c + 1) /\ peek(1) = At(c + 2) /\ (isAtEnd <=> c = n)
      /\ c < n => At(c + 1) = source[c + 1]
      /\ c = n => At(c + 1) = "end"
  BY <1>1, <1>2, PeekIs
<1>5. ASSUME ~peeking.on
      PROVE  /\ mode' = "skip" => f <= current' /\ Skippable(f, current')
             /\ mode' = "comment" =>
                  \E j \in (f + 1)..(current' + 1) :
                      /\ CommentAt(j) /\ Skippable(f, j - 1)
                      /\ \A k \in j..current' : source[k] # "NL"
  <2>1. CASE mode = "skip" /\ peek(0) \in Blanks /\ Advance("skip")
    <3>1. c < n /\ source[c + 1] \in Blanks
      BY <1>1, <1>2, <1>4, <2>1, Classes
    <3>2. f <= c /\ Skippable(f, c) /\ current' = c + 1 /\ mode' = "skip"
      BY <1>1, <1>5, <2>1 DEF TilesInv, Advance
    <3>3. Skippable(f, c + 1)
      BY <1>1, <3>1, <3>2 DEF Skippable
    <3> QED BY <1>1, <3>2, <3>3
  <2>2. CASE mode = "skip" /\ peek(0) = "/" /\ peek(1) = "/" /\ Stay("comment")
    <3>1. f <= c /\ Skippable(f, c) /\ current' = c /\ mode' = "comment"
      BY <1>1, <1>5, <2>2 DEF TilesInv, Stay
    <3>2. CommentAt(c + 1)
      BY <1>1, <1>4, <2>2 DEF CommentAt, At
    <3>3. c + 1 \in (f + 1)..(c + 1) /\ (c + 1) - 1 = c /\ \A k \in (c + 1)..c : source[k] # "NL"
      BY <1>1, <3>1
    <3> QED BY <3>1, <3>2, <3>3
  <2>3. CASE mode = "comment" /\ ~isAtEnd /\ peek(0) # "NL" /\ Advance("comment")
    <3>1. PICK j \in (f + 1)..(c + 1) :
              CommentAt(j) /\ Skippable(f, j - 1) /\ \A k \in j..c : source[k] # "NL"
      BY <1>1, <1>5, <2>3 DEF TilesInv
    <3>2. current' = c + 1 /\ mode' = "comment" /\ source[c + 1] # "NL"
      BY <1>1, <1>2, <1>4, <2>3 DEF Advance
    <3>3. j \in (f + 1)..((c + 1) + 1) /\ \A k \in j..(c + 1) : source[k] # "NL"
      BY <1>1, <3>1, <3>2
    <3> QED BY <3>1, <3>2, <3>3
  <2>4. CASE mode = "comment" /\ (isAtEnd \/ peek(0) = "NL") /\ Stay("skip")
    <3>1. PICK j \in (f + 1)..(c + 1) :
              CommentAt(j) /\ Skippable(f, j - 1) /\ \A k \in j..c : source[k] # "NL"
      BY <1>1, <1>5, <2>4 DEF TilesInv
    <3>2. current' = c /\ mode' = "skip" /\ (c = n \/ source[c + 1] = "NL")
      BY <1>1, <1>2, <1>4, <2>4 DEF Stay
    <3>3. j < n /\ source[j] = "/" /\ source[j + 1] = "/" /\ j \in Nat
      BY <1>1, <3>1 DEF CommentAt
    <3>4. j # c + 1 /\ j # c
      BY <1>1, <3>2, <3>3
    <3>5. j < c /\ f <= c
      BY <1>1, <3>1, <3>3, <3>4
    <3>6. Skippable(f, c)
      <4>1. ASSUME NEW i \in (f + 1)..(j - 1)
            PROVE  \/ source[i] \in Blanks
                   \/ \E h \in (f + 1)..i : /\ h < c /\ source[h] = "/" /\ source[h + 1] = "/"
                                            /\ \A k \in h..i : source[k] # "NL"
        <5>1. \/ source[i] \in Blanks
              \/ \E h \in (f + 1)..i : /\ h < j - 1 /\ source[h] = "/" /\ source[h + 1] = "/"
                                       /\ \A k \in h..i : source[k] # "NL"
          BY <3>1 DEF Skippable
        <5> QED BY <1>1, <3>3, <3>5, <5>1
      <4>2. ASSUME NEW i \in j..c
            PROVE  /\ j \in (f + 1)..i /\ j < c /\ source[j] = "/" /\ source[j + 1] = "/"
                   /\ \A k \in j..i : source[k] # "NL"
        BY <1>1, <3>1, <3>3, <3>5
      <4>3. \A i \in (f + 1)..c : i \in (f + 1)..(j - 1) \/ i \in j..c
        BY <1>1, <3>1, <3>3
      <4> QED BY <4>1, <4>2, <4>3 DEF Skippable
    <3> QED BY <3>2, <3>5, <3>6
  <2> QED BY <2>1, <2>2, <2>3, <2>4 DEF Skip
<1>6. (mode = "comment" => \E j \in (From + 1)..(current + 1) :
                      /\ CommentAt(j) /\ Skippable(From, j - 1)
                      /\ \A k \in j..current : source[k] # "NL")'
      \/ peeking.on
  BY <1>2, <1>5, Kept
<1>7. (mode = "skip" => From <= current /\ Skippable(From, current))' \/ peeking.on
  BY <1>2, <1>5, Kept
<1>8. mode' \notin {"idle"} /\ mode' \in Between
  BY <1>2 DEF Between
<1> QED BY <1>2, <1>3, <1>6, <1>7, <1>8 DEF TilesInv

\* The scalars of a state, for the provers.
LEMMA Scalars ==
    ASSUME PlacesInv
    PROVE  /\ source \in Seq(Chars) /\ Len(source) \in Nat /\ Len(source) <= MaxLength
           /\ current \in Nat /\ start \in Nat /\ start <= current /\ current <= Len(source)
           /\ tokens \in Seq(Token) /\ Len(tokens) \in Nat /\ From \in Nat
           /\ mode \in Modes /\ type \in Types
<1>1. Len(source) \in Nat /\ current \in Nat /\ start \in Nat /\ tokens \in Seq(Token) /\ Len(tokens) \in Nat
  BY BoundsAssumption DEF PlacesInv, TypeOK
<1>2. From \in Nat
  <2>1. CASE tokens = <<>>
    BY <2>1 DEF From
  <2>2. CASE tokens # <<>>
    <3>1. tokens[Len(tokens)] \in Token
      BY <1>1, <2>2
    <3> QED BY <2>2, <3>1, BoundsAssumption DEF From, Token
  <2> QED BY <2>1, <2>2
<1> QED BY <1>1, <1>2 DEF PlacesInv, Placed, TypeOK, Modes

LEMMA TilesFirst == ASSUME PlacesInv, TilesInv, First PROVE TilesInv'
<1>1. /\ source' = source /\ tokens' = tokens /\ peeking' = peeking /\ start' = current
      /\ mode = "skip" /\ mode' \notin Between
      /\ ~(peek(0) = "/" /\ peek(1) = "/")
  BY DEF First, Between, Advance, Stay
<1>2. /\ peek(0) = At(current + 1) /\ peek(1) = At(current + 2) /\ (isAtEnd <=> current = Len(source))
      /\ Len(source) \in Nat /\ current \in Nat /\ current <= Len(source) /\ (current + 1) + 1 = current + 2
  BY Scalars, PeekIs
<1>3. From' = From
  BY <1>1 DEF From
<1>4. TilesSource' /\ (peeking.on => Saved[2] = From)'
  BY <1>1, <1>3, Kept DEF TilesInv, TilesSource, Saved
<1>5. ~peeking.on => From <= current /\ Skippable(From, current)
  BY <1>1 DEF TilesInv
<1>6. ~CommentAt(current + 1)
  BY <1>1, <1>2 DEF CommentAt, At
<1>7. ~CommentAt(start + 1)'
  BY <1>1, <1>6, Kept
<1>8. (~peeking.on /\ mode \notin Between => From <= start /\ Skippable(From, start))'
  BY <1>1, <1>3, <1>5, Kept
<1>9. \/ mode' = "make" /\ type' = "EndOfFile" /\ current = Len(source)
      \/ (mode' # "make" \/ type' # "EndOfFile") /\ current < Len(source)
  BY <1>2 DEF First, Advance, Stay
<1> QED BY <1>1, <1>2, <1>4, <1>7, <1>8, <1>9 DEF TilesInv, Between

LEMMA TilesIn == ASSUME PlacesInv, TilesInv, MatchInv, InToken PROVE TilesInv'
<1>1. /\ mode \notin Between \cup {"make"} /\ mode' \notin Between
      /\ start' = start /\ start < Len(source)
      /\ mode' = "make" => type' # "EndOfFile"
  BY InTokenShape DEF PlacesInv
<1>2. source' = source /\ tokens' = tokens /\ peeking' = peeking
  <2>1. TypeOK /\ current <= Len(source)
    BY Scalars DEF PlacesInv
  <2> QED BY <2>1, ScanShape DEF Shape, Scanning, InToken
<1>3. From' = From
  BY <1>2 DEF From
<1>4. TilesSource' /\ (peeking.on => Saved[2] = From)'
  BY <1>2, <1>3, Kept DEF TilesInv, TilesSource, Saved
<1>5. ~CommentAt(start + 1)'
  BY <1>1, <1>2, Kept DEF TilesInv
<1>6. (~peeking.on /\ mode \notin Between => From <= start /\ Skippable(From, start))'
  <2>1. ~peeking.on => From <= start /\ Skippable(From, start)
    BY <1>1 DEF TilesInv
  <2> QED BY <1>1, <1>2, <1>3, <2>1, Kept
<1> QED BY <1>1, <1>2, <1>4, <1>5, <1>6 DEF TilesInv, Between

LEMMA TilesMake == ASSUME PlacesInv, TilesInv, MakeToken PROVE TilesInv'
<1>1. PICK n, m \in Nat : n = Len(source) /\ m = Len(tokens)
  BY Scalars
<1>2. /\ tokens \in Seq(Token) /\ start \in Nat /\ current \in Nat /\ start <= current /\ current <= n
      /\ From \in Nat
  BY <1>1, Scalars
<1>3. /\ mode = "make" /\ ~peeking.on /\ mode' = "idle" /\ source' = source /\ current' = current
      /\ peeking' = peeking /\ tokens' = Append(tokens, Made)
  BY DEF MakeToken, position
<1>4. Made.lo = start /\ Made.hi = current /\ Made.type = type
  BY DEF Made
<1>5. DOMAIN tokens = 1..m /\ DOMAIN tokens' = 1..(m + 1) /\ Len(tokens') = m + 1 /\ tokens' # <<>>
      /\ tokens'[m + 1] = Made /\ \A k \in 1..m : tokens'[k] = tokens[k]
  BY <1>1, <1>2, <1>3
<1>6. From' = current
  BY <1>4, <1>5 DEF From
<1>7. From = IF m = 0 THEN 0 ELSE tokens[m].hi
  BY <1>1, <1>2 DEF From
<1>8. /\ From <= start /\ Skippable(From, start) /\ ~CommentAt(start + 1)
      /\ type = "EndOfFile" <=> start = n
  BY <1>1, <1>3 DEF TilesInv, Between
<1>9. TilesSource'
  <2> DEFINE Tile(t, from) ==
                 /\ from <= t.lo /\ Skippable(from, t.lo)
                 /\ ~(t.lo + 2 <= n /\ source[t.lo + 1] = "/" /\ source[t.lo + 2] = "/")
                 /\ t.type = "EndOfFile" <=> t.lo = n
  <2>1. Tile(Made, From)
    BY <1>1, <1>2, <1>4, <1>8 DEF CommentAt
  <2>2. \A k \in 1..m : Tile(tokens[k], IF k = 1 THEN 0 ELSE tokens[k - 1].hi)
    BY <1>1, <1>5 DEF TilesInv, TilesSource
  <2> HIDE DEF Tile
  <2>3. \A k \in 1..(m + 1) : Tile(tokens'[k], IF k = 1 THEN 0 ELSE tokens'[k - 1].hi)
    <3> SUFFICES ASSUME NEW k \in 1..(m + 1)
                 PROVE Tile(tokens'[k], IF k = 1 THEN 0 ELSE tokens'[k - 1].hi)
      OBVIOUS
    <3>1. CASE k = m + 1
      <4>1. From = IF k = 1 THEN 0 ELSE tokens'[k - 1].hi
        <5>1. m # 0 => m \in 1..m /\ (m + 1) - 1 = m
          BY <1>1
        <5> QED BY <1>1, <1>5, <1>7, <3>1, <5>1
      <4> QED BY <1>5, <2>1, <3>1, <4>1
    <3>2. CASE k \in 1..m
      <4>1. k # 1 => k - 1 \in 1..m
        BY <1>1, <3>2
      <4> QED BY <1>5, <2>2, <3>2, <4>1
    <3> QED BY <1>1, <3>1, <3>2
  <2> QED BY <1>1, <1>3, <1>5, <2>3, Kept DEF TilesSource, Tile
<1> QED BY <1>3, <1>6, <1>9 DEF TilesInv, Between

LEMMA TilesStep == ASSUME PlacesInv, TilesInv, MatchInv, [Next]_vars PROVE TilesInv'
<1>1. CASE NextToken
  <2>1. /\ source' = source /\ tokens' = tokens /\ peeking' = peeking /\ start' = start /\ current' = current
        /\ mode = "idle" /\ mode' = "skip"
    BY <1>1 DEF NextToken, position
  <2>2. From' = From /\ From \in Nat
    BY <2>1, Scalars DEF From
  <2>3. TilesSource' /\ (peeking.on => Saved[2] = From)'
    BY <2>1, <2>2, Kept DEF TilesInv, TilesSource, Saved
  <2>4. ~peeking.on => current = From
    BY <2>1 DEF TilesInv
  <2>5. Skippable(From, From)
    BY <2>2 DEF Skippable
  <2>6. (~peeking.on => From <= current /\ Skippable(From, current))'
    BY <2>1, <2>2, <2>4, <2>5, Kept
  <2> QED BY <2>1, <2>3, <2>6 DEF TilesInv, Between
<1>2. ASSUME NEW ahead \in 0..MaxAhead, PeekToken(ahead) PROVE TilesInv'
  <2>1. /\ source' = source /\ tokens' = tokens /\ mode = "idle" /\ mode' = "skip" /\ ~peeking.on
        /\ peeking' = [on |-> TRUE, left |-> ahead, saved |-> <<start, current, line, column>>,
                       calls |-> peeking.calls + 1, saw |-> NoToken, index |-> Len(tokens) + ahead + 1]
    BY <1>2 DEF PeekToken, position
  <2>2. From' = From
    BY <2>1 DEF From
  <2>3. TilesSource'
    BY <2>1, Kept DEF TilesInv, TilesSource
  <2>4. peeking'.on = TRUE /\ Saved'[2] = From'
    BY <2>1, <2>2 DEF TilesInv, Saved
  <2> QED BY <2>1, <2>3, <2>4 DEF TilesInv, Between
<1>3. CASE MakeToken
  BY <1>3, TilesMake
<1>4. CASE Peeked
  <2>1. source' = source /\ tokens' = tokens /\ peeking.on
    BY <1>4 DEF Peeked
  <2>2. From' = From
    BY <2>1 DEF From
  <2>3. TilesSource'
    BY <2>1, Kept DEF TilesInv, TilesSource
  <2>4. /\ peeking \in [on : BOOLEAN, left : 0..MaxAhead, saved : Seq(Nat), calls : 0..MaxPeeks,
                        saw : Token, index : Nat]
        /\ Saved[2] = From
    BY <2>1 DEF PlacesInv, TypeOK, TilesInv
  <2>5. CASE mode' = "skip" /\ peeking' = [peeking EXCEPT !.left = @ - 1]
    <3>1. peeking'.on /\ Saved' = Saved
      BY <2>1, <2>4, <2>5 DEF Saved
    <3> QED BY <2>2, <2>3, <2>4, <2>5, <3>1 DEF TilesInv, Between
  <2>6. CASE mode' = "idle" /\ current' = peeking.saved[2]
             /\ peeking' = [peeking EXCEPT !.on = FALSE, !.saw = Made]
    <3>1. peeking'.on = FALSE /\ current' = From
      BY <2>4, <2>6 DEF Saved
    <3> QED BY <2>2, <2>3, <2>6, <3>1 DEF TilesInv, Between
  <2> QED BY <1>4, <2>5, <2>6 DEF Peeked
<1>5. CASE UNCHANGED vars
  <2>1. /\ source' = source /\ tokens' = tokens /\ peeking' = peeking /\ start' = start /\ current' = current
        /\ mode' = mode /\ type' = type
    BY <1>5 DEF vars, position
  <2>2. From' = From /\ Saved' = Saved
    BY <2>1 DEF From, Saved
  <2>3. TilesSource'
    BY <2>1, Kept DEF TilesInv, TilesSource
  <2>4. (mode = "comment" => \E j \in (From + 1)..(current + 1) :
                      /\ CommentAt(j) /\ Skippable(From, j - 1)
                      /\ \A k \in j..current : source[k] # "NL")'
        \/ peeking.on
    BY <2>1, <2>2, Kept DEF TilesInv
  <2> QED BY <2>1, <2>2, <2>3, <2>4, Kept DEF TilesInv
<1> QED BY <1>1, <1>2, <1>3, <1>4, <1>5, TilesSkip, TilesFirst, TilesIn
        DEF Next, Scan, Done, InToken

LEMMA TilesInit == ASSUME Init PROVE TilesInv
BY DEF Init, TilesInv, TilesSource, NotPeeking, From, Between

\* The column that makeToken takes back is that of the first character.
LEMMA MadeLocated ==
    ASSUME PlacesInv, Newlines(current) = Newlines(start)
    PROVE  /\ Made.line = Cardinality(Newlines(start)) + 1
           /\ Made.column = start + 1 - LastOf(Newlines(start))
<1>1. PICK n, s, c, l \in Nat : n = Len(source) /\ s = start /\ c = current /\ l = LastOf(Newlines(start))
  <2>1. LastOf(Newlines(start)) \in Nat
    BY Scalars DEF PlacesInv, Placed
  <2> QED BY <2>1, Scalars
<1>2. /\ s <= c /\ c <= n /\ n <= MaxLength /\ column = c + 1 - l /\ line = Cardinality(Newlines(start)) + 1
  BY <1>1, Scalars DEF PlacesInv, Placed
<1>3. l <= s
  <2>1. Newlines(start) \subseteq 1..s
    BY <1>1 DEF Newlines
  <2>2. Newlines(start) = {} => l = 0
    BY <1>1 DEF LastOf
  <2>3. Newlines(start) # {} => l \in Newlines(start)
    BY <1>1 DEF PlacesInv, Placed
  <2> QED BY <1>1, <2>1, <2>2, <2>3
<1>4. column - (current - start) = s + 1 - l /\ s + 1 - l \in 0..(SizeT - 1)
  <2>1. column - (current - start) = s + 1 - l
    BY <1>1, <1>2
  <2>2. s <= MaxLength /\ MaxLength + 1 < SizeT /\ MaxLength \in Nat /\ SizeT \in Nat
    BY <1>2, BoundsAssumption, SizeAssumption
  <2> QED BY <1>3, <2>1, <2>2
<1>5. (s + 1 - l) % SizeT = s + 1 - l
  BY <1>4, SizeAssumption
<1> QED BY <1>1, <1>2, <1>4, <1>5 DEF Made

\* The token t is where it is said to be.
InPlace(t) ==
    Newlines(t.hi) = Newlines(t.lo) =>
        /\ t.line = Cardinality(Newlines(t.lo)) + 1
        /\ t.column = t.lo + 1 - LastOf(Newlines(t.lo))

LEMMA LocatedIs ==
    /\ Located <=> \A k \in DOMAIN tokens : InPlace(tokens[k])
    /\ Located' <=> \A k \in DOMAIN tokens' : InPlace(tokens[k])'
<1>1. Located <=> \A k \in DOMAIN tokens : InPlace(tokens[k])
  BY Zenon DEF Located, InPlace, LastOf
<1>2. Located' <=> \A k \in DOMAIN tokens' : InPlace(tokens[k])'
  BY Zenon DEF Located, InPlace, LastOf
<1> QED BY <1>1, <1>2

LEMMA LocatedStep == ASSUME PlacesInv, Located, [Next]_vars PROVE Located'
<1>1. CASE tokens' = tokens /\ source' = source
  <2>1. \A t : InPlace(t)' <=> InPlace(t)
    BY <1>1, Kept DEF InPlace
  <2> QED BY <1>1, <2>1, LocatedIs
<1>2. CASE MakeToken
  <2>1. PICK m \in Nat : m = Len(tokens)
    BY Scalars
  <2>2. /\ source' = source /\ tokens' = Append(tokens, Made) /\ tokens \in Seq(Token)
    BY <1>2, Scalars DEF MakeToken
  <2>3. DOMAIN tokens = 1..m /\ DOMAIN tokens' = 1..(m + 1)
        /\ tokens'[m + 1] = Made /\ \A k \in 1..m : tokens'[k] = tokens[k]
    BY <2>1, <2>2
  <2>4. InPlace(Made)
    <3>1. Made.lo = start /\ Made.hi = current
      BY DEF Made
    <3> QED BY <3>1, MadeLocated DEF InPlace
  <2>5. \A k \in 1..m : InPlace(tokens[k])
    BY <2>3, LocatedIs
  <2>6. \A k \in 1..(m + 1) : InPlace(tokens'[k])
    BY <2>1, <2>3, <2>4, <2>5
  <2>7. \A t : InPlace(t)' <=> InPlace(t)
    BY <2>2, Kept DEF InPlace
  <2> QED BY <2>3, <2>6, <2>7, LocatedIs
<1>3. MakeToken \/ (tokens' = tokens /\ source' = source)
  <2>1. CASE NextToken
    BY <2>1 DEF NextToken
  <2>2. CASE \E ahead \in 0..MaxAhead : PeekToken(ahead)
    BY <2>2 DEF PeekToken
  <2>3. CASE Scanning
    <3>1. TypeOK /\ current <= Len(source)
      BY Scalars DEF PlacesInv
    <3> QED BY <2>3, <3>1, ScanShape DEF Shape
  <2>4. CASE Peeked
    BY <2>4 DEF Peeked
  <2>5. CASE UNCHANGED vars
    BY <2>5 DEF vars
  <2> QED BY <2>1, <2>2, <2>3, <2>4, <2>5 DEF Next, Scan, Done, Scanning
<1> QED BY <1>1, <1>2, <1>3

-----------------------------------------------------------------------------
(* The lexemes *)

\* The texts of one character and of two.
LEMMA TextIs ==
    ASSUME source \in Seq(Chars), NEW lo \in Nat, NEW hi \in Nat, lo < hi, hi <= Len(source)
    PROVE  /\ Len(SubSeq(source, lo + 1, hi)) = hi - lo
           /\ \A i \in 1..(hi - lo) : SubSeq(source, lo + 1, hi)[i] = source[lo + i]
           /\ \A c : SubSeq(source, lo + 1, hi) = <<c>> <=> hi = lo + 1 /\ c = source[lo + 1]
           /\ \A c, d : SubSeq(source, lo + 1, hi) = <<c, d>> <=>
                            hi = lo + 2 /\ c = source[lo + 1] /\ d = source[lo + 2]
<1> DEFINE text == SubSeq(source, lo + 1, hi)
<1>1. Len(source) \in Nat
  OBVIOUS
<1>2. text \in Seq(Chars) /\ Len(text) = hi - lo
      /\ \A i \in 1..(hi - lo) : text[i] = source[lo + i]
  <2>1. lo + 1 \in 1..Len(source) /\ hi \in lo..Len(source)
    BY <1>1
  <2>2. /\ SubSeq(source, lo + 1, hi) \in Seq(Chars)
        /\ Len(SubSeq(source, lo + 1, hi)) = IF lo + 1 <= hi THEN hi - (lo + 1) + 1 ELSE 0
        /\ \A i \in 1..(hi - (lo + 1) + 1) : SubSeq(source, lo + 1, hi)[i] = source[(lo + 1) + i - 1]
    BY <1>1, <2>1, SubSeqProperties
  <2>3. hi - (lo + 1) + 1 = hi - lo /\ \A i \in Nat : (lo + 1) + i - 1 = lo + i
    OBVIOUS
  <2> QED BY <2>2, <2>3
<1> HIDE DEF text
<1>3. ASSUME NEW c PROVE text = <<c>> <=> hi = lo + 1 /\ c = source[lo + 1]
  <2>1. text = <<c>> => hi - lo = 1 /\ text[1] = c
    BY <1>2
  <2>2. hi = lo + 1 => hi - lo = 1 /\ text = <<text[1]>>
    BY <1>2
  <2>3. hi - lo = 1 => text[1] = source[lo + 1] /\ hi = lo + 1
    BY <1>2
  <2> QED BY <2>1, <2>2, <2>3
<1>4. ASSUME NEW c, NEW d
      PROVE text = <<c, d>> <=> hi = lo + 2 /\ c = source[lo + 1] /\ d = source[lo + 2]
  <2>1. text = <<c, d>> => hi - lo = 2 /\ text[1] = c /\ text[2] = d
    BY <1>2
  <2>2. hi = lo + 2 => hi - lo = 2 /\ text = <<text[1], text[2]>>
    BY <1>2
  <2>3. hi - lo = 2 => text[1] = source[lo + 1] /\ text[2] = source[lo + 2] /\ hi = lo + 2
    BY <1>2
  <2> QED BY <2>1, <2>2, <2>3
<1> QED BY <1>2, <1>3, <1>4 DEF text

\* A keyword is a word.
LEMMA KeywordIsWord ==
    ASSUME source \in Seq(Chars), NEW lo \in Nat, NEW hi \in Nat, lo < hi, hi <= Len(source),
           SubSeq(source, lo + 1, hi) \in keywords
    PROVE  IsWord(lo, hi)
<1>1. PICK c, d : SubSeq(source, lo + 1, hi) = <<c, d>> /\ c \in {"i"} /\ d \in {"f", "n", "8"}
  BY DEF keywords
<1>2. c \in Alpha /\ d \in Alpha \cup Digits
  BY <1>1, Zenon DEF Alpha, Digits
<1>3. hi = lo + 2 /\ c = source[lo + 1] /\ d = source[lo + 2]
  BY <1>1, TextIs
<1> QED BY <1>2, <1>3 DEF IsWord, All

\* What a lexeme of every type is.
LEMMA Begins ==
    ASSUME source \in Seq(Chars), NEW lo \in Nat, NEW hi \in Nat, NEW t \in Types \ {"Unknown", "EndOfFile"},
           hi <= Len(source), IsLexeme(lo, hi, t)
    PROVE  /\ lo < hi
           /\ \/ t \in {"Identifier", "Keyword"} /\ source[lo + 1] \in Alpha /\ IsWord(lo, hi)
              \/ t \in {"IntegerLiteral", "FloatLiteral"} /\ source[lo + 1] \in Digits /\ IsNumber(lo, hi)
              \/ t = "StringLiteral" /\ source[lo + 1] = "DQ"
              \/ t = "CharLiteral" /\ source[lo + 1] = "'"
              \/ /\ t \notin Named /\ source[lo + 1] \in DOMAIN Operators
                 /\ \/ hi = lo + 1 /\ t = Operators[source[lo + 1]]
                    \/ hi = lo + 2 /\ \E p \in Pairs : p[1] = source[lo + 1] /\ p[2] = source[lo + 2]
<1>1. lo < hi
  BY DEF IsLexeme
<1>2. CASE t = "Identifier"
  <2>1. IsWord(lo, hi)
    BY <1>2 DEF IsLexeme
  <2> QED BY <1>1, <1>2, <2>1 DEF IsWord
<1>3. CASE t = "Keyword"
  <2>1. SubSeq(source, lo + 1, hi) \in keywords
    BY <1>3 DEF IsLexeme
  <2>2. IsWord(lo, hi)
    BY <1>1, <2>1, KeywordIsWord
  <2> QED BY <1>1, <1>3, <2>2 DEF IsWord
<1>4. CASE t = "IntegerLiteral"
  <2>1. All(lo, hi, Digits)
    BY <1>4 DEF IsLexeme
  <2>2. hi \in (lo + 1)..hi /\ hi \in hi..hi
    BY <1>1
  <2>3. IsNumber(lo, hi)
    BY <2>1, <2>2 DEF IsNumber
  <2>4. source[lo + 1] \in Digits
    BY <1>1, <2>1 DEF All
  <2> QED BY <1>1, <1>4, <2>3, <2>4
<1>5. CASE t = "FloatLiteral"
  <2>1. IsNumber(lo, hi)
    BY <1>5 DEF IsLexeme
  <2>2. source[lo + 1] \in Digits
    <3>1. PICK a \in (lo + 1)..hi : All(lo, a, Digits)
      BY <2>1 DEF IsNumber
    <3> QED BY <3>1 DEF All
  <2> QED BY <1>1, <1>5, <2>1, <2>2
<1>6. CASE t = "StringLiteral"
  BY <1>1, <1>6 DEF IsLexeme
<1>7. CASE t = "CharLiteral"
  BY <1>1, <1>7 DEF IsLexeme
<1>8. CASE t \notin Named
  <2>1. \/ \E c \in DOMAIN Operators : SubSeq(source, lo + 1, hi) = <<c>> /\ t = Operators[c]
        \/ \E p \in Pairs : SubSeq(source, lo + 1, hi) = <<p[1], p[2]>> /\ t = p[3]
    BY <1>8, Zenon DEF IsLexeme, Named
  <2>0. /\ \A c : SubSeq(source, lo + 1, hi) = <<c>> <=> hi = lo + 1 /\ c = source[lo + 1]
        /\ \A c, d : SubSeq(source, lo + 1, hi) = <<c, d>> <=>
                         hi = lo + 2 /\ c = source[lo + 1] /\ d = source[lo + 2]
    BY <1>1, TextIs
  <2>2. ASSUME NEW c \in DOMAIN Operators, SubSeq(source, lo + 1, hi) = <<c>>, t = Operators[c]
        PROVE  hi = lo + 1 /\ source[lo + 1] = c
    BY <2>2, <2>0, Zenon
  <2>3. ASSUME NEW p \in Pairs, SubSeq(source, lo + 1, hi) = <<p[1], p[2]>>
        PROVE  /\ hi = lo + 2 /\ p[1] = source[lo + 1] /\ p[2] = source[lo + 2]
               /\ p[1] \in DOMAIN Operators
    BY <2>3, <2>0, OperatorNames, Zenon
  <2> QED BY <1>1, <1>8, <2>1, <2>2, <2>3
<1> QED BY <1>2, <1>3, <1>4, <1>5, <1>6, <1>7, <1>8, Zenon DEF Named

\* What Lexemes has.
LEMMA LexemesAre ==
    ASSUME source \in Seq(Chars), NEW lo \in Nat
    PROVE  /\ \A l \in Lexemes(lo) :
                 /\ l[1] \in Nat /\ lo < l[1] /\ l[1] <= Len(source)
                 /\ l[2] \in Types \ {"Unknown", "EndOfFile"} /\ IsLexeme(lo, l[1], l[2])
           /\ \A hi \in Nat, t \in Types \ {"Unknown", "EndOfFile"} :
                 hi <= Len(source) /\ IsLexeme(lo, hi, t) => <<hi, t>> \in Lexemes(lo)
<1>1. Len(source) \in Nat
  OBVIOUS
<1>2. ASSUME NEW l \in Lexemes(lo)
      PROVE  /\ l[1] \in Nat /\ lo < l[1] /\ l[1] <= Len(source)
             /\ l[2] \in Types \ {"Unknown", "EndOfFile"} /\ IsLexeme(lo, l[1], l[2])
  BY <1>1 DEF Lexemes
<1>3. ASSUME NEW hi \in Nat, NEW t \in Types \ {"Unknown", "EndOfFile"}, hi <= Len(source), IsLexeme(lo, hi, t)
      PROVE <<hi, t>> \in Lexemes(lo)
  <2>1. lo < hi
    BY <1>3 DEF IsLexeme
  <2> QED BY <1>1, <1>3, <2>1 DEF Lexemes
<1> QED BY <1>2, <1>3

\* A lexeme that none of those of its first character is longer than.
LEMMA LongestIs ==
    ASSUME source \in Seq(Chars), NEW lo \in Nat, NEW hi \in Nat, hi <= Len(source),
           NEW t \in Types \ {"Unknown", "EndOfFile"}, IsLexeme(lo, hi, t),
           \A h \in Nat, u \in Types \ {"Unknown", "EndOfFile"} :
               h <= Len(source) /\ lo < h /\ IsLexeme(lo, h, u) => h <= hi
    PROVE  Longest(lo, hi, t)
BY LexemesAre DEF Longest

LEMMA NoneIs ==
    ASSUME source \in Seq(Chars), NEW lo \in Nat, NEW hi,
           \A h \in Nat, u \in Types \ {"Unknown", "EndOfFile"} :
               h <= Len(source) /\ lo < h => ~IsLexeme(lo, h, u)
    PROVE  Longest(lo, hi, "Unknown")
BY LexemesAre DEF Longest

\* What a scan keeps of the modes that it is not in, and of the last token.
LEMMA Elsewhere ==
    /\ mode' # "word" => WordSoFar'
    /\ mode' \notin {"digits", "fraction", "power", "sign", "exponent"} => NumberSoFar'
    /\ mode' \notin {"string", "escape"} => StringSoFar'
    /\ mode' \notin {"character", "escaped", "quote"} => CharacterSoFar'
    /\ mode' # "pair" => PairSoFar'
<1>1. mode' # "word" => WordSoFar'
  BY DEF WordSoFar
<1>2. mode' \notin {"digits", "fraction", "power", "sign", "exponent"} => NumberSoFar'
  BY DEF NumberSoFar
<1>3. mode' \notin {"string", "escape"} => StringSoFar'
  BY DEF StringSoFar
<1>4. mode' \notin {"character", "escaped", "quote"} => CharacterSoFar'
  BY DEF CharacterSoFar
<1>5. mode' # "pair" => PairSoFar'
  BY DEF PairSoFar
<1> QED BY <1>1, <1>2, <1>3, <1>4, <1>5

LastSound ==
    tokens # <<>> =>
        LET t == tokens[Len(tokens)] IN t.type # "EndOfFile" => Longest(t.lo, t.hi, t.type)

\* A step that is not MakeToken: what there is to show of the match.
LEMMA MatchFrom ==
    ASSUME source' = source, tokens' = tokens, MatchInv,
           mode' \notin Between \cup {"make"} => start' < current',
           WordSoFar', NumberSoFar', StringSoFar', CharacterSoFar', PairSoFar',
           mode' = "make" /\ type' # "EndOfFile" => Longest(start', current', type')
    PROVE  MatchInv'
<1>1. LastSound'
  <2>1. LastSound
    BY DEF MatchInv, LastSound
  <2> QED BY <2>1, Kept DEF LastSound
<1>2. (mode = "make" /\ type # "EndOfFile" => Longest(start, current, type))'
  BY Kept
<1> QED BY <1>1, <1>2 DEF MatchInv, LastSound, Between

LEMMA MatchWord == ASSUME PlacesInv, MatchInv, identifier PROVE MatchInv'
<1>1. /\ source \in Seq(Chars) /\ Len(source) \in Nat /\ start \in Nat /\ current \in Nat
      /\ start < current /\ current <= Len(source) /\ mode = "word" /\ IsWord(start, current)
  BY Scalars DEF identifier, MatchInv, WordSoFar, Between, Take, LeaveAs
<1>2. /\ source' = source /\ tokens' = tokens /\ start' = start
  BY DEF identifier, Take, LeaveAs, Keep
<1>3. CASE peek(0) \in Alpha \cup Digits /\ Take("word", "word")
  <2>1. mode' = "word" /\ current' = current + 1
    BY <1>3 DEF Take, Advance
  <2>2. current < Len(source) /\ source[current + 1] \in Alpha \cup Digits
    <3>1. "end" \notin Alpha \cup Digits
      BY Classes
    <3> QED BY <1>1, <1>3, <3>1, PeekIs
  <2>3. IsWord(start, current + 1)
    BY <1>1, <2>2 DEF IsWord, All
  <2>4. WordSoFar'
    BY <1>2, <2>1, <2>3, Kept DEF WordSoFar
  <2> QED BY <1>1, <1>2, <2>1, <2>4, MatchFrom, Elsewhere
<1>4. CASE /\ peek(0) \notin Alpha \cup Digits
           /\ LeaveAs("word", "make", IF Scanned \in keywords THEN "Keyword" ELSE "Identifier")
  <2>1. /\ mode' = "make" /\ current' = current
        /\ type' = IF SubSeq(source, start + 1, current) \in keywords THEN "Keyword" ELSE "Identifier"
    BY <1>4 DEF LeaveAs, Stay, Scanned
  <2>2. IsLexeme(start, current, type')
    BY <1>1, <2>1 DEF IsLexeme
  <2>3. ASSUME NEW h \in Nat, NEW u \in Types \ {"Unknown", "EndOfFile"},
               h <= Len(source), start < h, IsLexeme(start, h, u)
        PROVE  h <= current
    <3>1. source[start + 1] \in Alpha
      BY <1>1 DEF IsWord
    <3>2. IsWord(start, h)
      BY <1>1, <2>3, <3>1, Begins, Classes
    <3>3. h > current => current < Len(source) /\ source[current + 1] \in Alpha \cup Digits
      BY <1>1, <2>3, <3>2 DEF IsWord, All
    <3> QED BY <1>1, <1>4, <2>3, <3>3, PeekIs
  <2>4. type' \in Types \ {"Unknown", "EndOfFile"}
    BY <2>1 DEF Types
  <2>5. Longest(start, current, type')
    BY <1>1, <2>2, <2>3, <2>4, LongestIs
  <2> QED BY <1>2, <2>1, <2>5, MatchFrom, Elsewhere DEF Between
<1> QED BY <1>3, <1>4 DEF identifier

\* The escapes: a backslash that is not escaped escapes the next character.
LEMMA Escapes ==
    ASSUME source \in Seq(Chars), NEW lo \in Nat, NEW i \in Nat
    PROVE  /\ i < lo + 2 => ~Escaped(lo, i + 1)
           /\ source[i] # "BS" => ~Escaped(lo, i + 1)
           /\ i >= lo + 2 /\ source[i] = "BS" => (Escaped(lo, i + 1) <=> ~Escaped(lo, i))
<1> DEFINE S(k) == {j \in (lo + 2)..(k - 1) : \A h \in j..(k - 1) : source[h] = "BS"}
<1>1. \A k : Escaped(lo, k) <=> Cardinality(S(k)) % 2 = 1
  BY DEF Escaped
<1>2. Cardinality({}) = 0
  BY FS_EmptySet
<1>3. (i + 1) - 1 = i
  OBVIOUS
<1>4. i < lo + 2 => S(i + 1) = {}
  BY <1>3
<1>5. source[i] # "BS" => S(i + 1) = {}
  BY <1>3
<1>6. ASSUME i >= lo + 2, source[i] = "BS"
      PROVE  Escaped(lo, i + 1) <=> ~Escaped(lo, i)
  <2>1. S(i + 1) = S(i) \cup {i} /\ i \notin S(i)
    <3>1. ASSUME NEW j \in S(i + 1) PROVE j \in S(i) \cup {i}
      BY <1>3, <1>6, <3>1
    <3>2. ASSUME NEW j \in S(i) PROVE j \in S(i + 1)
      BY <1>3, <1>6, <3>2
    <3>3. i \in S(i + 1)
      BY <1>3, <1>6
    <3> QED BY <3>1, <3>2, <3>3
  <2>2. IsFiniteSet(S(i))
    <3>1. IsFiniteSet((lo + 2)..(i - 1)) /\ S(i) \subseteq (lo + 2)..(i - 1)
      BY FS_Interval
    <3> QED BY <3>1, FS_Subset
  <2> HIDE DEF S
  <2>3. Cardinality(S(i + 1)) = Cardinality(S(i)) + 1 /\ Cardinality(S(i)) \in Nat
    BY <2>1, <2>2, FS_AddElement, FS_CardinalityType
  <2>4. PICK n \in Nat : n = Cardinality(S(i)) /\ n + 1 = Cardinality(S(i + 1))
    BY <2>3
  <2>5. (n + 1) % 2 = 1 <=> ~(n % 2 = 1)
    BY <2>4
  <2> QED BY <1>1, <2>4, <2>5
<1> HIDE DEF S
<1>7. S(i + 1) = {} => ~Escaped(lo, i + 1)
  <2>1. 0 % 2 # 1
    OBVIOUS
  <2> QED BY <1>1, <1>2, <2>1
<1> QED BY <1>4, <1>5, <1>6, <1>7

\* The literal that begins at lo has no end up to hi.
Unended(lo, hi) ==
    source[lo + 1] = "DQ" /\ \A i \in (lo + 2)..hi : ~(source[i] = "DQ" /\ ~Escaped(lo, i))

LEMMA UnendedKept ==
    source' = source => \A lo, hi : Unended(lo, hi)' <=> Unended(lo, hi)
BY Kept DEF Unended

LEMMA OpenIs ==
    /\ \A hi : Open(hi) <=> Unended(start, hi)
    /\ \A hi : Open(hi)' <=> Unended(start, hi)'
BY DEF Open, Unended

LEMMA MatchString == ASSUME PlacesInv, MatchInv, string PROVE MatchInv'
<1>1. /\ source \in Seq(Chars) /\ Len(source) \in Nat /\ start \in Nat /\ current \in Nat
      /\ start < current /\ current <= Len(source) /\ mode \in {"string", "escape"} /\ Unended(start, current)
      /\ mode = "string" => current = Len(source) \/ ~Escaped(start, current + 1)
      /\ mode = "escape" => Escaped(start, current + 1)
  <2>1. mode \in {"string", "escape"}
    BY DEF string, Fail, Take, TakeAs, Leave
  <2> QED BY <2>1, Scalars, OpenIs DEF MatchInv, StringSoFar, Between
<1>2. /\ source' = source /\ tokens' = tokens /\ start' = start
  BY DEF string, Take, TakeAs, Leave, Fail, Keep
<1>3. /\ isAtEnd <=> current = Len(source)
      /\ ~isAtEnd => current < Len(source) /\ peek(0) = source[current + 1]
  BY <1>1, PeekIs
<1>4. /\ (current + 1) + 1 = current + 2 /\ current + 1 \in Nat
      /\ source[current + 1] # "BS" => ~Escaped(start, current + 2)
      /\ source[current + 1] = "BS" => (Escaped(start, current + 2) <=> ~Escaped(start, current + 1))
  <2>1. current + 1 \in Nat /\ (current + 1) + 1 = current + 2 /\ current + 1 >= start + 2
    BY <1>1
  <2> QED BY <1>1, <2>1, Escapes
<1>5. ASSUME NEW h \in Nat, NEW u \in Types \ {"Unknown", "EndOfFile"},
             h <= Len(source), start < h, IsLexeme(start, h, u)
      PROVE  h >= start + 2 /\ \A i \in (start + 2)..h : source[i] = "DQ" /\ ~Escaped(start, i) <=> i = h
  <2>1. source[start + 1] = "DQ"
    BY <1>1 DEF Unended
  <2>2. u = "StringLiteral"
    BY <1>1, <1>5, <2>1, Begins, Classes
  <2> QED BY <1>5, <2>2 DEF IsLexeme
<1>6. ASSUME mode' \in {"string", "escape"}, Unended(start, current'),
             mode' = "string" => current' = Len(source) \/ ~Escaped(start, current' + 1),
             mode' = "escape" => Escaped(start, current' + 1), start < current'
      PROVE  MatchInv'
  <2>1. StringSoFar'
    BY <1>2, <1>6, OpenIs, UnendedKept, Kept DEF StringSoFar
  <2> QED BY <1>1, <1>2, <1>6, <2>1, MatchFrom, Elsewhere
<1>7. CASE isAtEnd /\ Fail("string")
  <2>1. mode' = "make" /\ type' = "Unknown" /\ current = Len(source)
    BY <1>3, <1>7 DEF Fail, Stay
  <2>2. ASSUME NEW h \in Nat, NEW u \in Types \ {"Unknown", "EndOfFile"},
               h <= Len(source), start < h, IsLexeme(start, h, u)
        PROVE  FALSE
    <3>1. h \in (start + 2)..h /\ h \in (start + 2)..current
      BY <1>1, <1>5, <2>1, <2>2
    <3>2. source[h] = "DQ" /\ ~Escaped(start, h)
      BY <1>5, <2>2, <3>1
    <3> QED BY <1>1, <3>1, <3>2 DEF Unended
  <2>3. Longest(start', current', type')
    BY <1>1, <1>2, <2>1, <2>2, NoneIs
  <2> QED BY <1>1, <1>2, <2>1, <2>3, MatchFrom, Elsewhere DEF Between
<1>8. CASE ~isAtEnd /\ peek(0) = "DQ" /\ TakeAs("string", "make", "StringLiteral")
  <2>1. /\ mode = "string" /\ mode' = "make" /\ type' = "StringLiteral" /\ current' = current + 1
        /\ current < Len(source) /\ source[current + 1] = "DQ" /\ ~Escaped(start, current + 1)
    BY <1>1, <1>3, <1>8 DEF TakeAs, Advance
  <2>2. IsLexeme(start, current + 1, "StringLiteral")
    <3>1. start < current + 1 /\ current + 1 >= start + 2 /\ source[start + 1] = "DQ"
      BY <1>1 DEF Unended
    <3>2. ASSUME NEW i \in (start + 2)..(current + 1)
          PROVE  source[i] = "DQ" /\ ~Escaped(start, i) <=> i = current + 1
      BY <1>1, <2>1, <3>2 DEF Unended
    <3> QED BY <3>1, <3>2 DEF IsLexeme
  <2>3. ASSUME NEW h \in Nat, NEW u \in Types \ {"Unknown", "EndOfFile"},
               h <= Len(source), start < h, IsLexeme(start, h, u)
        PROVE  h <= current + 1
    <3>1. h > current + 1 => current + 1 \in (start + 2)..h
      BY <1>1, <2>3
    <3> QED BY <1>1, <1>5, <2>1, <2>3, <3>1
  <2>4. "StringLiteral" \in Types \ {"Unknown", "EndOfFile"} /\ current + 1 \in Nat /\ current + 1 <= Len(source)
    BY <1>1, <2>1 DEF Types
  <2>5. Longest(start, current + 1, "StringLiteral")
    BY <1>1, <2>2, <2>3, <2>4, LongestIs
  <2> QED BY <1>1, <1>2, <2>1, <2>5, MatchFrom, Elsewhere DEF Between
<1>9. CASE ~isAtEnd /\ peek(0) = "BS" /\ Take("string", "escape")
  <2>1. /\ mode = "string" /\ mode' = "escape" /\ current' = current + 1
        /\ current < Len(source) /\ source[current + 1] = "BS" /\ ~Escaped(start, current + 1)
    BY <1>1, <1>3, <1>9 DEF Take, Advance
  <2>2. Unended(start, current + 1)
    BY <1>1, <2>1 DEF Unended
  <2>3. Escaped(start, current' + 1) /\ start < current'
    BY <1>1, <1>4, <2>1
  <2> QED BY <1>6, <2>1, <2>2, <2>3
<1>10. CASE ~isAtEnd /\ peek(0) \notin {"DQ", "BS"} /\ Take("string", "string")
  <2>1. /\ mode' = "string" /\ current' = current + 1
        /\ current < Len(source) /\ source[current + 1] \notin {"DQ", "BS"}
    BY <1>1, <1>3, <1>10 DEF Take, Advance
  <2>2. Unended(start, current + 1)
    BY <1>1, <2>1 DEF Unended
  <2>3. ~Escaped(start, current' + 1) /\ start < current'
    BY <1>1, <1>4, <2>1
  <2> QED BY <1>6, <2>1, <2>2, <2>3
<1>11. CASE isAtEnd /\ Leave("escape", "string")
  <2>1. mode' = "string" /\ current' = current /\ current = Len(source)
    BY <1>3, <1>11 DEF Leave, Stay
  <2> QED BY <1>1, <1>6, <2>1
<1>12. CASE ~isAtEnd /\ Take("escape", "string")
  <2>1. /\ mode' = "string" /\ current' = current + 1 /\ current < Len(source)
        /\ Escaped(start, current + 1)
    BY <1>1, <1>3, <1>12 DEF Take, Advance
  <2>2. Unended(start, current + 1)
    <3>1. ASSUME NEW i \in (start + 2)..(current + 1) PROVE ~(source[i] = "DQ" /\ ~Escaped(start, i))
      <4>1. i = current + 1 \/ i \in (start + 2)..current
        BY <1>1, <3>1
      <4> QED BY <1>1, <2>1, <4>1 DEF Unended
    <3> QED BY <1>1, <3>1 DEF Unended
  <2>3. ~Escaped(start, current' + 1) /\ start < current'
    BY <1>1, <1>4, <2>1
  <2> QED BY <1>6, <2>1, <2>2, <2>3
<1> QED BY <1>7, <1>8, <1>9, <1>10, <1>11, <1>12 DEF string

LEMMA MatchCharacter == ASSUME PlacesInv, MatchInv, character PROVE MatchInv'
<1>1. /\ source \in Seq(Chars) /\ Len(source) \in Nat /\ start \in Nat /\ current \in Nat
      /\ start < current /\ current <= Len(source) /\ mode \in {"character", "escaped", "quote"}
      /\ source[start + 1] = "'" /\ CharacterSoFar
  <2>1. mode \in {"character", "escaped", "quote"}
    BY DEF character, Fail, Take, TakeAs, Leave
  <2> QED BY <2>1, Scalars DEF MatchInv, CharacterSoFar, Between
<1>2. /\ source' = source /\ tokens' = tokens /\ start' = start
  BY DEF character, Take, TakeAs, Leave, Fail, Keep
<1>3. /\ isAtEnd <=> current = Len(source)
      /\ ~isAtEnd => current < Len(source) /\ peek(0) = source[current + 1]
      /\ peek(0) = "'" => ~isAtEnd
  BY <1>1, PeekIs
<1>4. ASSUME NEW h \in Nat, NEW u \in Types \ {"Unknown", "EndOfFile"},
             h <= Len(source), start < h, IsLexeme(start, h, u)
      PROVE  /\ h > start + 1 /\ source[h] = "'"
             /\ h = start + (IF source[start + 2] = "BS" THEN 4 ELSE 3)
  <2>1. u = "CharLiteral"
    BY <1>1, <1>4, Begins, Classes
  <2> QED BY <1>4, <2>1 DEF IsLexeme
<1>5. CASE mode' # "make"
  <2>1. /\ mode' \in {"escaped", "quote"}
        /\ \/ /\ ~isAtEnd /\ mode = "character" /\ current' = current + 1
              /\ mode' = "escaped" <=> peek(0) = "BS"
           \/ ~isAtEnd /\ mode = "escaped" /\ mode' = "quote" /\ current' = current + 1
           \/ isAtEnd /\ mode \in {"character", "escaped"} /\ mode' = "quote" /\ current' = current
    BY <1>5 DEF character, Take, TakeAs, Leave, Fail, Advance, Stay
  <2>2. /\ mode' = "escaped" => current' = start + 2 /\ source[start + 2] = "BS"
        /\ mode' = "quote" =>
               \/ current' = start + 2 /\ source[start + 2] # "BS"
               \/ current' = start + 3 /\ source[start + 2] = "BS"
               \/ current' = Len(source) /\ current' = start + 1
               \/ current' = Len(source) /\ current' = start + 2 /\ source[start + 2] = "BS"
    <3>1. /\ mode = "character" => current = start + 1 /\ current + 1 = start + 2
          /\ mode = "escaped" => current = start + 2 /\ current + 1 = start + 3 /\ source[start + 2] = "BS"
      BY <1>1 DEF CharacterSoFar
    <3> QED BY <1>3, <2>1, <3>1
  <2>3. CharacterSoFar'
    BY <1>1, <1>2, <2>1, <2>2 DEF CharacterSoFar
  <2>4. start < current'
    BY <1>1, <2>1
  <2> QED BY <1>2, <2>1, <2>3, <2>4, MatchFrom, Elsewhere
<1>6. CASE peek(0) = "'" /\ TakeAs("quote", "make", "CharLiteral")
  <2>1. mode = "quote" /\ mode' = "make" /\ type' = "CharLiteral" /\ current' = current + 1
        /\ current < Len(source) /\ source[current + 1] = "'"
    BY <1>3, <1>6 DEF TakeAs, Advance
  <2>2. current + 1 = start + (IF source[start + 2] = "BS" THEN 4 ELSE 3)
    BY <1>1, <2>1 DEF CharacterSoFar
  <2>3. IsLexeme(start, current + 1, "CharLiteral")
    BY <1>1, <2>1, <2>2 DEF IsLexeme
  <2>4. "CharLiteral" \in Types \ {"Unknown", "EndOfFile"} /\ current + 1 \in Nat /\ current + 1 <= Len(source)
    BY <1>1, <2>1 DEF Types
  <2>5. Longest(start, current + 1, "CharLiteral")
    BY <1>1, <1>4, <2>2, <2>3, <2>4, LongestIs
  <2> QED BY <1>1, <1>2, <2>1, <2>5, MatchFrom, Elsewhere DEF Between
<1>7. CASE peek(0) # "'" /\ Fail("quote")
  <2>1. mode = "quote" /\ mode' = "make" /\ type' = "Unknown"
    BY <1>7 DEF Fail, Stay
  <2>2. ASSUME NEW h \in Nat, NEW u \in Types \ {"Unknown", "EndOfFile"},
               h <= Len(source), start < h, IsLexeme(start, h, u)
        PROVE  FALSE
    <3>1. source[h] = "'" /\ h = start + (IF source[start + 2] = "BS" THEN 4 ELSE 3)
      BY <1>4, <2>2
    <3>2. current < Len(source) /\ h = current + 1
      BY <1>1, <2>1, <2>2, <3>1 DEF CharacterSoFar
    <3> QED BY <1>1, <1>3, <1>7, <3>1, <3>2
  <2>3. Longest(start', current', type')
    BY <1>1, <1>2, <2>1, <2>2, NoneIs
  <2> QED BY <1>1, <1>2, <2>1, <2>3, MatchFrom, Elsewhere DEF Between
<1> QED BY <1>5, <1>6, <1>7 DEF character, Take, Leave, Advance, Stay

LEMMA MatchPair == ASSUME PlacesInv, MatchInv, match PROVE MatchInv'
<1>1. /\ source \in Seq(Chars) /\ Len(source) \in Nat /\ start \in Nat /\ current \in Nat
      /\ current <= Len(source) /\ mode = "pair"
      /\ current = start + 1 /\ source[start + 1] \in DOMAIN Operators
      /\ type = Operators[source[start + 1]]
  <2>1. mode = "pair"
    BY DEF match
  <2> QED BY <2>1, Scalars DEF MatchInv, PairSoFar, Between
<1>2. /\ source' = source /\ tokens' = tokens /\ start' = start /\ mode' = "make"
  BY DEF match, TakeAs, Leave, Keep, Advance, Stay
<1>3. /\ \A p \in Pairs : p[3] \in Types \ (Named \cup {"Unknown", "EndOfFile"})
      /\ type \in Types \ (Named \cup {"Unknown", "EndOfFile"})
  BY <1>1, OperatorNames
<1>4. ASSUME NEW h \in Nat, NEW u \in Types \ {"Unknown", "EndOfFile"},
             h <= Len(source), start < h, IsLexeme(start, h, u)
      PROVE  \/ h = start + 1
             \/ /\ h = start + 2 /\ peek(0) = source[start + 2]
                /\ \E p \in Pairs : p[1] = source[start + 1] /\ p[2] = source[start + 2]
  <2>1. \/ h = start + 1 /\ u = Operators[source[start + 1]]
        \/ h = start + 2 /\ \E p \in Pairs : p[1] = source[start + 1] /\ p[2] = source[start + 2]
    BY <1>1, <1>4, Begins, Classes
  <2>2. h = start + 2 => peek(0) = source[start + 2]
    <3>1. h = start + 2 => current < Len(source) /\ current + 1 = start + 2
      BY <1>1, <1>4
    <3> QED BY <1>1, <3>1, PeekIs
  <2> QED BY <2>1, <2>2
<1>5. ASSUME NEW p \in Pairs, p[1] = source[current], p[2] = peek(0), TakeAs("pair", "make", p[3])
      PROVE  MatchInv'
  <2>1. current < Len(source) /\ peek(0) = source[start + 2]
    <3>1. p[2] # "end"
      BY DEF Pairs
    <3>2. current + 1 = start + 2
      BY <1>1
    <3> QED BY <1>1, <1>5, <3>1, <3>2, PeekIs
  <2>2. /\ current' = start + 2 /\ type' = p[3] /\ start + 2 \in Nat /\ start + 2 <= Len(source)
        /\ start < start + 2
    BY <1>1, <1>5, <2>1 DEF TakeAs, Advance
  <2>3. SubSeq(source, start + 1, start + 2) = <<p[1], p[2]>>
    BY <1>1, <1>5, <2>1, <2>2, TextIs
  <2>4. IsLexeme(start, start + 2, p[3])
    BY <1>3, <2>2, <2>3, Zenon DEF IsLexeme, Named
  <2>5. ASSUME NEW h \in Nat, NEW u \in Types \ {"Unknown", "EndOfFile"},
               h <= Len(source), start < h, IsLexeme(start, h, u)
        PROVE  h <= start + 2
    BY <1>1, <1>4, <2>5
  <2>6. Longest(start, start + 2, p[3])
    BY <1>1, <1>3, <2>2, <2>4, <2>5, LongestIs
  <2> QED BY <1>2, <2>2, <2>6, MatchFrom, Elsewhere DEF Between
<1>6. CASE /\ \A p \in Pairs : <<p[1], p[2]>> # <<source[current], peek(0)>>
           /\ Leave("pair", "make")
  <2>1. current' = start + 1 /\ type' = type /\ start + 1 \in Nat /\ start + 1 <= Len(source)
        /\ start < start + 1
    BY <1>1, <1>6 DEF Leave, Stay, Keep
  <2>2. SubSeq(source, start + 1, start + 1) = <<source[start + 1]>>
    BY <1>1, <2>1, TextIs
  <2>3. IsLexeme(start, start + 1, type)
    BY <1>1, <1>3, <2>1, <2>2, Zenon DEF IsLexeme, Named
  <2>4. ASSUME NEW h \in Nat, NEW u \in Types \ {"Unknown", "EndOfFile"},
               h <= Len(source), start < h, IsLexeme(start, h, u)
        PROVE  h <= start + 1
    <3>1. ~(\E p \in Pairs : p[1] = source[start + 1] /\ p[2] = peek(0))
      BY <1>1, <1>6
    <3> QED BY <1>1, <1>4, <2>4, <3>1
  <2>5. Longest(start, start + 1, type)
    BY <1>1, <1>3, <2>1, <2>3, <2>4, LongestIs
  <2> QED BY <1>2, <2>1, <2>5, MatchFrom, Elsewhere DEF Between
<1> QED BY <1>5, <1>6 DEF match

\* The exponent of a number, after the letter at b + 1.
Exponent(b, hi) ==
    \/ All(b + 1, hi, Digits)
    \/ hi > b + 1 /\ source[b + 2] \in {"+", "-"} /\ All(b + 2, hi, Digits)

\* A number goes no further than the digits and the fraction that the scan has
\* taken, but for an exponent.
LEMMA WholeBound ==
    ASSUME source \in Seq(Chars), start \in Nat, NEW a, NEW b, NEW t, Whole(a, b, t),
           NEW h \in Nat, h <= Len(source), IsNumber(start, h)
    PROVE  h <= b \/ (b < h /\ source[b + 1] \in {"e", "E"} /\ Exponent(b, h))
<1>1. PICK n \in Nat : n = Len(source)
  OBVIOUS
<1>2. /\ a \in Nat /\ b \in Nat /\ start + 1 <= a /\ a <= b /\ b <= n
      /\ All(start, a, Digits) /\ At(a + 1) \notin Digits
  BY <1>1 DEF Whole
<1>3. PICK c \in (start + 1)..h : \E d \in c..h :
        /\ All(start, c, Digits)
        /\ d = c \/ (d >= c + 2 /\ source[c + 1] = "." /\ All(c + 1, d, Digits))
        /\ \/ d = h
           \/ source[d + 1] \in {"e", "E"} /\ Exponent(d, h)
  BY DEF IsNumber, Exponent
<1>4. PICK d \in c..h :
        /\ All(start, c, Digits)
        /\ d = c \/ (d >= c + 2 /\ source[c + 1] = "." /\ All(c + 1, d, Digits))
        /\ \/ d = h
           \/ source[d + 1] \in {"e", "E"} /\ Exponent(d, h)
  BY <1>3
<1>5. c \in Nat /\ d \in Nat /\ c <= d /\ d <= h /\ h <= n /\ start + 1 <= c
  BY <1>1, <1>3, <1>4
<1>6. \A k \in Nat : 1 <= k /\ k <= n => At(k) = source[k]
  BY <1>1 DEF At
<1>7. c <= a
  <2>1. c > a => source[a + 1] \in Digits /\ a + 1 <= n
    BY <1>2, <1>4, <1>5 DEF All
  <2> QED BY <1>2, <1>5, <1>6, <2>1
<1>8. "." \notin Digits /\ "." \notin {"e", "E"} /\ \A x \in Digits : x \notin {"e", "E", "."}
  BY Classes
<1>9. CASE c < a
  <2>1. source[c + 1] \in Digits
    BY <1>2, <1>5, <1>9 DEF All
  <2>2. d = c
    BY <1>4, <1>8, <2>1
  <2>3. d = h
    BY <1>4, <1>8, <2>1, <2>2
  <2> QED BY <1>2, <1>5, <1>9, <2>2, <2>3
<1>10. CASE c = a
  <2>1. CASE b = a /\ ~(At(a + 1) = "." /\ At(a + 2) \in Digits)
    <3>1. d = c
      <4>1. d >= c + 2 /\ source[c + 1] = "." /\ All(c + 1, d, Digits) =>
                At(a + 1) = "." /\ At(a + 2) \in Digits
        BY <1>2, <1>5, <1>6, <1>10 DEF All
      <4> QED BY <1>4, <2>1, <4>1
    <3>2. d = b
      BY <1>10, <2>1, <3>1
    <3> QED BY <1>4, <1>5, <3>2
  <2>2. CASE b >= a + 2 /\ source[a + 1] = "." /\ All(a + 1, b, Digits) /\ At(b + 1) \notin Digits
    <3>1. CASE d = c
      <4>1. d = h
        BY <1>4, <1>8, <1>10, <2>2, <3>1
      <4> QED BY <1>2, <1>10, <3>1, <4>1
    <3>2. CASE d >= c + 2 /\ source[c + 1] = "." /\ All(c + 1, d, Digits)
      <4>1. d <= b
        <5>1. d > b => source[b + 1] \in Digits /\ b + 1 <= n
          BY <1>2, <1>5, <1>10, <2>2, <3>2 DEF All
        <5> QED BY <1>2, <1>5, <1>6, <2>2, <5>1
      <4>2. d < b => source[d + 1] \in Digits
        BY <1>2, <1>5, <1>10, <2>2, <3>2 DEF All
      <4>3. d < b => d = h
        BY <1>4, <1>8, <4>2
      <4>4. d = b => h <= b \/ (b < h /\ source[b + 1] \in {"e", "E"} /\ Exponent(b, h))
        BY <1>2, <1>4, <1>5
      <4> QED BY <1>2, <1>5, <4>1, <4>3, <4>4
    <3> QED BY <1>4, <3>1, <3>2
  <2> QED BY <2>1, <2>2 DEF Whole
<1> QED BY <1>2, <1>5, <1>7, <1>9, <1>10

\* Digits with their fraction are a number.
LEMMA WholeIsLexeme ==
    ASSUME source \in Seq(Chars), start \in Nat, NEW a, NEW b, NEW t, Whole(a, b, t)
    PROVE  IsLexeme(start, b, t) /\ t \in {"IntegerLiteral", "FloatLiteral"}
<1>1. /\ Len(source) \in Nat /\ a \in Nat /\ b \in Nat /\ start + 1 <= a /\ a <= b
      /\ a \in (start + 1)..b /\ b \in a..b /\ start < b /\ All(start, a, Digits)
  BY DEF Whole
<1>2. CASE b = a /\ t = "IntegerLiteral"
  BY <1>1, <1>2 DEF IsLexeme
<1>3. CASE b >= a + 2 /\ source[a + 1] = "." /\ All(a + 1, b, Digits) /\ t = "FloatLiteral"
  <2>1. IsNumber(start, b)
    BY <1>1, <1>3 DEF IsNumber
  <2>2. ~All(start, b, Digits)
    <3>1. source[a + 1] \notin Digits /\ a + 1 \in (start + 1)..b
      BY <1>1, <1>3, Classes
    <3> QED BY <3>1 DEF All
  <2> QED BY <1>1, <1>3, <2>1, <2>2 DEF IsLexeme
<1> QED BY <1>2, <1>3 DEF Whole

\* With an exponent they are a number too.
LEMMA PoweredIsLexeme ==
    ASSUME source \in Seq(Chars), start \in Nat, NEW a, NEW b, Powered(a, b),
           NEW h \in Nat, b < h, Exponent(b, h)
    PROVE  IsLexeme(start, h, "FloatLiteral")
<1>1. PICK t \in {"IntegerLiteral", "FloatLiteral"} : Whole(a, b, t)
  BY DEF Powered
<1>2. /\ a \in Nat /\ b \in Nat /\ start + 1 <= a /\ a <= b
      /\ a \in (start + 1)..h /\ b \in a..h /\ start < h /\ All(start, a, Digits)
      /\ b = a \/ (b >= a + 2 /\ source[a + 1] = "." /\ All(a + 1, b, Digits))
  BY <1>1 DEF Whole
<1>3. source[b + 1] \in {"e", "E"}
  BY DEF Powered
<1>4. IsNumber(start, h)
  BY <1>2, <1>3 DEF IsNumber, Exponent
<1>5. ~All(start, h, Digits)
  <2>1. source[b + 1] \notin Digits /\ b + 1 \in (start + 1)..h
    BY <1>2, <1>3, Classes
  <2> QED BY <2>1 DEF All
<1> QED BY <1>2, <1>4, <1>5 DEF IsLexeme

NumberModes == {"digits", "fraction", "power", "sign", "exponent"}

LEMMA NumberKept ==
    ASSUME source' = source, start' = start
    PROVE  /\ \A a, b, t : Whole(a, b, t)' <=> Whole(a, b, t)
           /\ \A a, b : Powered(a, b)' <=> Powered(a, b)
           /\ \A a, h : Fraction(a, h)' <=> Fraction(a, h)
           /\ \A a, b, h : Exponential(a, b, h)' <=> Exponential(a, b, h)
<1>1. \A a, b, t : Whole(a, b, t)' <=> Whole(a, b, t)
  BY Kept DEF Whole
<1>2. \A a, b : Powered(a, b)' <=> Powered(a, b)
  BY <1>1 DEF Powered
<1>3. \A a, h : Fraction(a, h)' <=> Fraction(a, h)
  BY Kept DEF Fraction
<1>4. \A a, b, h : Exponential(a, b, h)' <=> Exponential(a, b, h)
  BY <1>2, Kept DEF Exponential
<1> QED BY <1>1, <1>2, <1>3, <1>4

\* A step to a mode of a number.
LEMMA NumberFrom ==
    ASSUME PlacesInv, MatchInv, source' = source, tokens' = tokens, start' = start, start < current',
           mode' \in NumberModes, NumberSoFar'
    PROVE  MatchInv'
BY MatchFrom, Elsewhere DEF NumberModes

LEMMA NumberTake ==
    ASSUME PlacesInv, MatchInv, peek(0) \in Digits, NEW m \in {"digits", "fraction", "exponent"}, Take(m, m)
    PROVE  MatchInv'
<1>1. /\ source \in Seq(Chars) /\ Len(source) \in Nat /\ start \in Nat /\ current \in Nat
      /\ start < current /\ current <= Len(source) /\ mode = m /\ NumberSoFar
  BY Scalars DEF MatchInv, Between, Take
<1>2. /\ source' = source /\ tokens' = tokens /\ start' = start /\ type' = type /\ mode' = m
      /\ current' = current + 1
  BY DEF Take, Keep, Advance
<1>3. current < Len(source) /\ source[current + 1] \in Digits /\ At(current + 1) = source[current + 1]
  <2>1. "end" \notin Digits
    BY Classes
  <2> QED BY <1>1, <2>1, PeekIs
<1>4. \A k \in Nat : All(k, current, Digits) => All(k, current + 1, Digits)
  BY <1>1, <1>3 DEF All
<1>5. CASE m = "digits"
  <2>1. All(start, current + 1, Digits) /\ type = "IntegerLiteral"
    BY <1>1, <1>4, <1>5 DEF NumberSoFar
  <2> QED BY <1>1, <1>2, <1>5, <2>1, Kept, NumberFrom DEF NumberSoFar, NumberModes
<1>6. CASE m = "fraction"
  <2>1. PICK a \in (start + 1)..current : Fraction(a, current)
    BY <1>1, <1>6 DEF NumberSoFar
  <2>2. a \in (start' + 1)..current' /\ Fraction(a, current + 1)
    <3>1. a + 1 \in Nat /\ a < current + 1 /\ a \in (start + 1)..(current + 1)
      BY <1>1, <2>1
    <3> QED BY <1>2, <1>4, <2>1, <3>1 DEF Fraction
  <2>3. Fraction(a, current)'
    BY <1>2, <2>2, NumberKept
  <2>4. NumberSoFar'
    <3>1. type = "FloatLiteral"
      BY <1>1, <1>6 DEF NumberSoFar
    <3> QED BY <1>2, <1>6, <2>2, <2>3, <3>1 DEF NumberSoFar
  <2> QED BY <1>1, <1>2, <1>6, <2>4, NumberFrom DEF NumberModes
<1>7. CASE m = "exponent"
  <2>1. PICK a \in (start + 1)..current : \E b \in a..current : Exponential(a, b, current)
    BY <1>1, <1>7 DEF NumberSoFar
  <2>2. PICK b \in a..current : Exponential(a, b, current)
    BY <2>1
  <2>3. a \in (start' + 1)..current' /\ b \in a..current' /\ Exponential(a, b, current + 1)
    <3>1. /\ b + 1 \in Nat /\ b + 2 \in Nat /\ a \in (start + 1)..(current + 1) /\ b \in a..(current + 1)
          /\ b + 1 <= current => b + 1 <= current + 1
          /\ b + 2 <= current => b + 2 <= current + 1
      BY <1>1, <2>1, <2>2
    <3> QED BY <1>2, <1>4, <2>2, <3>1 DEF Exponential
  <2>4. Exponential(a, b, current)'
    BY <1>2, <2>3, NumberKept
  <2>5. NumberSoFar'
    <3>1. type = "FloatLiteral"
      BY <1>1, <1>7 DEF NumberSoFar
    <3> QED BY <1>2, <1>7, <2>3, <2>4, <3>1 DEF NumberSoFar
  <2> QED BY <1>1, <1>2, <1>7, <2>5, NumberFrom DEF NumberModes
<1> QED BY <1>5, <1>6, <1>7

\* The number that the scan has is the longest.
LEMMA NumberMake ==
    ASSUME PlacesInv, MatchInv, number, mode' = "make"
    PROVE  MatchInv'
<1>1. /\ source \in Seq(Chars) /\ Len(source) \in Nat /\ start \in Nat /\ current \in Nat
      /\ current <= Len(source) /\ NumberSoFar
      /\ \/ mode = "power" /\ peek(0) \notin {"e", "E"}
         \/ mode = "exponent" /\ peek(0) \notin Digits
      /\ start < current
  <2>1. \/ mode = "power" /\ peek(0) \notin {"e", "E"}
        \/ mode = "exponent" /\ peek(0) \notin Digits
    BY DEF number, Take, TakeAs, Leave, Advance, Stay
  <2> QED BY <2>1, Scalars DEF MatchInv, Between
<1>2. /\ source' = source /\ tokens' = tokens /\ start' = start /\ current' = current /\ type' = type
  BY DEF number, Take, TakeAs, Leave, Advance, Stay, Keep
<1>3. /\ peek(0) = At(current + 1)
      /\ \A k \in Nat : 1 <= k /\ k <= Len(source) => At(k) = source[k]
  BY <1>1, PeekIs DEF At
<1>4. ASSUME NEW a, NEW b \in Nat, NEW t, Whole(a, b, t),
             NEW h \in Nat, NEW u \in Types \ {"Unknown", "EndOfFile"},
             h <= Len(source), start < h, IsLexeme(start, h, u)
      PROVE  h <= b \/ (b < h /\ source[b + 1] \in {"e", "E"} /\ Exponent(b, h))
  <2>1. source[start + 1] \in Digits
    BY <1>1, <1>4 DEF Whole, All
  <2>2. IsNumber(start, h)
    BY <1>1, <1>4, <2>1, Begins, Classes
  <2> QED BY <1>1, <1>4, <2>2, WholeBound
<1>5. IsLexeme(start, current, type) /\ type \in {"IntegerLiteral", "FloatLiteral"}
      /\ \A h \in Nat, u \in Types \ {"Unknown", "EndOfFile"} :
               h <= Len(source) /\ start < h /\ IsLexeme(start, h, u) => h <= current
  <2>1. CASE mode = "power" /\ peek(0) \notin {"e", "E"}
    <3>1. PICK a \in (start + 1)..current : Whole(a, current, type)
      BY <1>1, <2>1 DEF NumberSoFar
    <3>2. ASSUME NEW h \in Nat, NEW u \in Types \ {"Unknown", "EndOfFile"},
                 h <= Len(source), start < h, IsLexeme(start, h, u)
          PROVE  h <= current
      <4>1. h <= current \/ (current < h /\ source[current + 1] \in {"e", "E"})
        BY <1>1, <1>4, <3>1, <3>2
      <4> QED BY <1>1, <1>3, <2>1, <3>2, <4>1
    <3> QED BY <1>1, <3>1, <3>2, WholeIsLexeme
  <2>2. CASE mode = "exponent" /\ peek(0) \notin Digits
    <3>1. PICK a \in (start + 1)..current : \E b \in a..current : Exponential(a, b, current)
      BY <1>1, <2>2 DEF NumberSoFar
    <3>2. PICK b \in a..current : Exponential(a, b, current)
      BY <3>1
    <3>9. /\ Powered(a, b)
          /\ \/ b + 1 <= current /\ At(b + 2) \notin {"+", "-"} /\ All(b + 1, current, Digits)
             \/ b + 2 <= current /\ source[b + 2] \in {"+", "-"} /\ All(b + 2, current, Digits)
      BY <3>2 DEF Exponential
    <3>3. PICK t \in {"IntegerLiteral", "FloatLiteral"} : Whole(a, b, t)
      BY <3>9 DEF Powered
    <3>4. b \in Nat /\ b < current /\ b + 2 \in Nat /\ 1 <= b + 2 /\ Exponent(b, current)
      BY <1>1, <3>1, <3>2, <3>9 DEF Exponent
    <3>5. IsLexeme(start, current, "FloatLiteral") /\ type = "FloatLiteral"
      <4>1. type = "FloatLiteral"
        BY <1>1, <2>2 DEF NumberSoFar
      <4> QED BY <1>1, <3>4, <3>9, <4>1, PoweredIsLexeme
    <3>6. ASSUME NEW h \in Nat, NEW u \in Types \ {"Unknown", "EndOfFile"},
                 h <= Len(source), start < h, IsLexeme(start, h, u), h > current
          PROVE  FALSE
      <4>1. Exponent(b, h)
        <5>1. h <= b \/ (b < h /\ source[b + 1] \in {"e", "E"} /\ Exponent(b, h))
          BY <1>4, <3>3, <3>4, <3>6
        <5>2. ~(h <= b)
          BY <1>1, <3>4, <3>6
        <5> QED BY <5>1, <5>2
      <4>2. source[current + 1] \notin Digits /\ current + 1 <= h /\ b + 2 <= Len(source)
        BY <1>1, <1>3, <2>2, <3>4, <3>6
      <4>3. At(b + 2) = source[b + 2] /\ \A x \in {"+", "-"} : x \notin Digits
        BY <1>3, <3>4, <4>2, Classes
      <4>4. ~All(b + 1, h, Digits)
        <5>1. CASE b + 1 <= current /\ All(b + 1, current, Digits) /\ At(b + 2) \notin {"+", "-"}
          BY <1>1, <3>4, <3>6, <4>2 DEF All
        <5>2. CASE b + 2 <= current /\ source[b + 2] \in {"+", "-"}
          BY <1>1, <3>4, <3>6, <4>2, <4>3, <5>2 DEF All
        <5> QED BY <3>9, <5>1, <5>2
      <4>5. source[b + 2] \in {"+", "-"} /\ All(b + 2, h, Digits)
        BY <4>1, <4>4 DEF Exponent
      <4>6. b + 2 <= current
        BY <3>9, <4>3, <4>5
      <4>7. current + 1 \in ((b + 2) + 1)..h
        BY <1>1, <3>4, <3>6, <4>6
      <4> QED BY <4>2, <4>5, <4>7 DEF All
    <3> QED BY <1>1, <3>5, <3>6
  <2> QED BY <1>1, <2>1, <2>2
<1>6. type \in Types \ {"Unknown", "EndOfFile"}
  BY <1>5 DEF Types
<1>7. Longest(start, current, type)
  BY <1>1, <1>5, <1>6, LongestIs
<1> QED BY <1>2, <1>7, MatchFrom, Elsewhere DEF Between

LEMMA MatchNumber == ASSUME PlacesInv, MatchInv, number PROVE MatchInv'
<1>1. mode \in NumberModes
  BY DEF number, Take, TakeAs, Leave, NumberModes
<1>2. /\ source \in Seq(Chars) /\ Len(source) \in Nat /\ start \in Nat /\ current \in Nat
      /\ start < current /\ current <= Len(source) /\ NumberSoFar
  BY <1>1, Scalars DEF MatchInv, Between, NumberModes
<1>3. /\ source' = source /\ tokens' = tokens /\ start' = start
  BY DEF number, Take, TakeAs, Leave, Keep
<1>4. /\ peek(0) = At(current + 1) /\ peek(1) = At(current + 2)
      /\ peek(0) \in {".", "e", "E", "+", "-"} => current < Len(source) /\ peek(0) = source[current + 1]
  BY <1>2, PeekIs
<1>5. ASSUME mode' \in NumberModes, NumberSoFar', start < current' PROVE MatchInv'
  BY <1>3, <1>5, NumberFrom
<1>6. /\ \A k : At(k)' = At(k)
      /\ \A a, b, t : Whole(a, b, t)' <=> Whole(a, b, t)
      /\ \A a, b : Powered(a, b)' <=> Powered(a, b)
      /\ \A a, h : Fraction(a, h)' <=> Fraction(a, h)
      /\ \A a, b, h : Exponential(a, b, h)' <=> Exponential(a, b, h)
  BY <1>3, NumberKept, Kept
<1>7. CASE peek(0) = "." /\ peek(1) \in Digits /\ TakeAs("digits", "fraction", "FloatLiteral")
  <2>1. mode = "digits" /\ mode' = "fraction" /\ current' = current + 1 /\ type' = "FloatLiteral"
    BY <1>7 DEF TakeAs, Advance
  <2>2. PICK c \in Nat : c = current
    BY <1>2
  <2>3. c \in (start' + 1)..current' /\ Fraction(c, c + 1)
    <3>1. All(start, c, Digits) /\ All(c + 1, c + 1, Digits) /\ c < c + 1
      BY <1>2, <2>1, <2>2 DEF NumberSoFar, All
    <3>2. source[c + 1] = "." /\ At(c + 2) \in Digits /\ c \in (start' + 1)..current'
      BY <1>2, <1>3, <1>4, <1>7, <2>1, <2>2
    <3> QED BY <3>1, <3>2 DEF Fraction
  <2>4. Fraction(c, current)'
    BY <1>6, <2>1, <2>2, <2>3
  <2> QED BY <1>2, <1>5, <2>1, <2>3, <2>4 DEF NumberModes, NumberSoFar
<1>8. CASE /\ peek(0) \notin Digits /\ ~(peek(0) = "." /\ peek(1) \in Digits)
           /\ Leave("digits", "power")
  <2>1. mode = "digits" /\ mode' = "power" /\ current' = current /\ type' = type
    BY <1>8 DEF Leave, Stay, Keep
  <2>2. current \in (start + 1)..current /\ Whole(current, current, type)
    <3>1. All(start, current, Digits) /\ type = "IntegerLiteral"
      BY <1>2, <2>1 DEF NumberSoFar
    <3> QED BY <1>2, <1>4, <1>8, <3>1 DEF Whole
  <2>3. \E a \in (start' + 1)..current' : Whole(a, current, type)'
    BY <1>3, <1>6, <2>1, <2>2
  <2> QED BY <1>2, <1>5, <2>1, <2>3 DEF NumberModes, NumberSoFar
<1>9. CASE peek(0) \notin Digits /\ Leave("fraction", "power")
  <2>1. mode = "fraction" /\ mode' = "power" /\ current' = current /\ type' = type
    BY <1>9 DEF Leave, Stay, Keep
  <2>2. PICK a \in (start + 1)..current : Fraction(a, current)
    BY <1>2, <2>1 DEF NumberSoFar
  <2>3. type = "FloatLiteral"
    BY <1>2, <2>1 DEF NumberSoFar
  <2>4. Whole(a, current, type)
    <3>1. a \in Nat /\ a < current /\ source[a + 1] = "." /\ At(a + 1) = source[a + 1]
      BY <1>2, <2>2 DEF Fraction, At
    <3>2. current # a + 1
      BY <1>4, <1>9, <3>1, <2>2, <1>2 DEF Fraction
    <3>3. current >= a + 2
      BY <1>2, <3>1, <3>2
    <3> QED BY <1>2, <1>4, <1>9, <2>2, <2>3, <3>1, <3>3, Classes DEF Fraction, Whole
  <2>5. \E h \in (start' + 1)..current' : Whole(h, current, type)'
    BY <1>3, <1>6, <2>1, <2>2, <2>4
  <2> QED BY <1>2, <1>5, <2>1, <2>5 DEF NumberModes, NumberSoFar
<1>10. CASE peek(0) \in {"e", "E"} /\ TakeAs("power", "sign", "FloatLiteral")
  <2>1. mode = "power" /\ mode' = "sign" /\ current' = current + 1 /\ type' = "FloatLiteral"
    BY <1>10 DEF TakeAs, Advance
  <2>2. PICK a \in (start + 1)..current : Whole(a, current, type)
    BY <1>2, <2>1 DEF NumberSoFar
  <2>3. Powered(a, current)
    <3>1. type \in {"IntegerLiteral", "FloatLiteral"}
      BY <2>2 DEF Whole
    <3> QED BY <1>2, <1>4, <1>10, <2>2, <3>1 DEF Powered
  <2>4. \E h \in (start' + 1)..current' : Powered(h, current - 1)'
    <3>1. a \in (start' + 1)..current' /\ current' - 1 = current
      BY <1>2, <1>3, <2>1, <2>2
    <3> QED BY <1>6, <2>3, <3>1
  <2> QED BY <1>2, <1>5, <2>1, <2>4 DEF NumberModes, NumberSoFar
<1>11. ASSUME mode = "sign", mode' = "exponent", type' = type,
              \/ current' = current + 1 /\ peek(0) \in {"+", "-"}
              \/ current' = current /\ peek(0) \notin {"+", "-"}
       PROVE  MatchInv'
  <2>1. PICK a \in (start + 1)..current : Powered(a, current - 1)
    BY <1>2, <1>11 DEF NumberSoFar
  <2>2. type = "FloatLiteral"
    BY <1>2, <1>11 DEF NumberSoFar
  <2>3. PICK b \in Nat : b = current - 1
    BY <1>2
  <2>4. b + 1 = current /\ b + 2 = current + 1 /\ a \in Nat /\ a \in (start' + 1)..current'
    BY <1>2, <1>3, <1>11, <2>1, <2>3
  <2>5. b \in a..current'
    <3>1. a <= b
      <4>1. PICK t : Whole(a, b, t)
        BY <2>1, <2>3 DEF Powered
      <4> QED BY <4>1, <2>3 DEF Whole
    <3> QED BY <1>2, <1>11, <2>4, <3>1
  <2>6. Exponential(a, b, current')
    <3>1. \/ b + 1 <= current' /\ At(b + 2) \notin {"+", "-"} /\ All(b + 1, current', Digits)
          \/ b + 2 <= current' /\ source[b + 2] \in {"+", "-"} /\ All(b + 2, current', Digits)
      BY <1>2, <1>4, <1>11, <2>3, <2>4 DEF All
    <3> QED BY <2>1, <2>3, <3>1 DEF Exponential
  <2>7. Exponential(a, b, current)'
    BY <1>6, <2>6
  <2> QED BY <1>2, <1>5, <1>11, <2>2, <2>4, <2>5, <2>7 DEF NumberModes, NumberSoFar
<1>12. CASE mode' = "make"
  BY <1>12, NumberMake
<1> QED BY <1>7, <1>8, <1>9, <1>10, <1>11, <1>12, NumberTake
        DEF number, Take, Leave, Advance, Stay, Keep

LEMMA MatchFirst == ASSUME PlacesInv, MatchInv, First PROVE MatchInv'
<1>1. /\ source \in Seq(Chars) /\ Len(source) \in Nat /\ start' = current /\ current \in Nat
      /\ current <= Len(source) /\ source' = source /\ tokens' = tokens
  BY Scalars DEF First
<1>2. ~isAtEnd => current < Len(source) /\ peek(0) = source[current + 1]
  BY <1>1, PeekIs
<1>3. CASE isAtEnd /\ type' = "EndOfFile" /\ Stay("make")
  BY <1>1, <1>3, MatchFrom, Elsewhere DEF Stay, Between
<1>4. ASSUME ~isAtEnd, Advance(mode') PROVE current' = current + 1 /\ start' < current'
  BY <1>1, <1>4 DEF Advance
<1>5. CASE ~isAtEnd /\ peek(0) \in Alpha /\ Advance("word")
  <2>1. current' = current + 1 /\ start' < current' /\ mode' = "word"
    BY <1>4, <1>5 DEF Advance
  <2>2. IsWord(current, current + 1)
    BY <1>1, <1>2, <1>5 DEF IsWord, All
  <2>3. WordSoFar'
    BY <1>1, <2>1, <2>2, Kept DEF WordSoFar
  <2> QED BY <1>1, <2>1, <2>3, MatchFrom, Elsewhere
<1>6. CASE ~isAtEnd /\ peek(0) \in Digits /\ type' = "IntegerLiteral" /\ Advance("digits")
  <2>1. current' = current + 1 /\ start' < current' /\ mode' = "digits"
    BY <1>4, <1>6 DEF Advance
  <2>2. All(current, current + 1, Digits)
    BY <1>1, <1>2, <1>6 DEF All
  <2>3. NumberSoFar'
    BY <1>1, <1>6, <2>1, <2>2, Kept DEF NumberSoFar
  <2> QED BY <1>1, <2>1, <2>3, MatchFrom, Elsewhere
<1>7. CASE /\ ~isAtEnd /\ peek(0) \in DOMAIN Operators
           /\ type' = Operators[peek(0)] /\ Advance("pair")
  <2>1. current' = current + 1 /\ start' < current' /\ mode' = "pair"
    BY <1>4, <1>7 DEF Advance
  <2>2. PairSoFar'
    BY <1>1, <1>2, <1>7, <2>1 DEF PairSoFar
  <2> QED BY <1>1, <2>1, <2>2, MatchFrom, Elsewhere
<1>8. CASE ~isAtEnd /\ peek(0) = "DQ" /\ Advance("string")
  <2>1. current' = current + 1 /\ start' < current' /\ mode' = "string"
    BY <1>4, <1>8 DEF Advance
  <2>2. Unended(current, current + 1) /\ ~Escaped(current, (current + 1) + 1)
    <3>1. current + 1 \in Nat /\ current + 1 < current + 2
      BY <1>1
    <3>2. ~Escaped(current, (current + 1) + 1)
      BY <1>1, <3>1, Escapes
    <3> QED BY <1>1, <1>2, <1>8, <3>2 DEF Unended
  <2>3. StringSoFar'
    BY <1>1, <2>1, <2>2, OpenIs, UnendedKept, Kept DEF StringSoFar
  <2> QED BY <1>1, <2>1, <2>3, MatchFrom, Elsewhere
<1>9. CASE ~isAtEnd /\ peek(0) = "'" /\ Advance("character")
  <2>1. current' = current + 1 /\ start' < current' /\ mode' = "character"
    BY <1>4, <1>9 DEF Advance
  <2>2. CharacterSoFar'
    BY <1>1, <1>2, <1>9, <2>1 DEF CharacterSoFar
  <2> QED BY <1>1, <2>1, <2>2, MatchFrom, Elsewhere
<1>10. CASE ~isAtEnd /\ peek(0) \in Strange \cup {"BS"} /\ type' = "Unknown" /\ Advance("make")
  <2>1. mode' = "make"
    BY <1>10 DEF Advance
  <2>2. ASSUME NEW h \in Nat, NEW u \in Types \ {"Unknown", "EndOfFile"},
               h <= Len(source), current < h, IsLexeme(current, h, u)
        PROVE  FALSE
    <3>1. source[current + 1] \in Strange \cup {"BS"}
      BY <1>2, <1>10
    <3> QED BY <1>1, <2>2, <3>1, Begins, Classes
  <2>3. Longest(current, current', "Unknown")
    BY <1>1, <2>2, NoneIs
  <2> QED BY <1>1, <1>10, <2>1, <2>3, MatchFrom, Elsewhere DEF Between
<1> QED BY <1>3, <1>5, <1>6, <1>7, <1>8, <1>9, <1>10 DEF First

LEMMA MatchUnchanged == ASSUME MatchInv, UNCHANGED vars PROVE MatchInv'
<1>1. /\ source' = source /\ tokens' = tokens /\ start' = start /\ current' = current
      /\ mode' = mode /\ type' = type
  BY DEF vars, position
<1>2. WordSoFar'
  BY <1>1, Kept DEF MatchInv, WordSoFar
<1>3. NumberSoFar'
  BY <1>1, NumberKept, Kept DEF MatchInv, NumberSoFar
<1>4. StringSoFar'
  BY <1>1, OpenIs, UnendedKept, Kept DEF MatchInv, StringSoFar
<1>5. CharacterSoFar' /\ PairSoFar'
  BY <1>1 DEF MatchInv, CharacterSoFar, PairSoFar
<1>6. /\ mode \notin Between \cup {"make"} => start < current
      /\ mode = "make" /\ type # "EndOfFile" => Longest(start, current, type)
  BY DEF MatchInv
<1> QED BY <1>1, <1>2, <1>3, <1>4, <1>5, <1>6, MatchFrom

LEMMA MatchStep == ASSUME PlacesInv, MatchInv, [Next]_vars PROVE MatchInv'
<1>1. CASE NextToken \/ (\E ahead \in 0..MaxAhead : PeekToken(ahead)) \/ Skip
  <2>1. source' = source /\ tokens' = tokens /\ mode' \in Between
    BY <1>1 DEF NextToken, PeekToken, Skip, Advance, Stay, Keep, Between
  <2> QED BY <2>1, MatchFrom, Elsewhere DEF Between
<1>2. CASE MakeToken
  <2>1. PICK m \in Nat : m = Len(tokens)
    BY Scalars
  <2>2. /\ source' = source /\ mode = "make" /\ mode' = "idle" /\ tokens' = Append(tokens, Made)
        /\ tokens \in Seq(Token)
    BY <1>2, Scalars DEF MakeToken
  <2>3. tokens'[Len(tokens')] = Made /\ Made.lo = start /\ Made.hi = current /\ Made.type = type
    BY <2>1, <2>2 DEF Made
  <2>4. type # "EndOfFile" => Longest(start, current, type)
    BY <2>2 DEF MatchInv
  <2>5. LastSound'
    <3>1. \A lo, hi, t : Longest(lo, hi, t)' <=> Longest(lo, hi, t)
      BY <2>2, Kept
    <3> QED BY <2>3, <2>4, <3>1 DEF LastSound
  <2> QED BY <2>2, <2>5, Elsewhere DEF MatchInv, LastSound, Between
<1>3. CASE Peeked
  <2>1. source' = source /\ tokens' = tokens /\ mode' \in Between
    BY <1>3 DEF Peeked, Between
  <2> QED BY <2>1, MatchFrom, Elsewhere DEF Between
<1>4. CASE UNCHANGED vars
  BY <1>4, MatchUnchanged
<1> QED BY <1>1, <1>2, <1>3, <1>4, MatchFirst, MatchWord, MatchNumber, MatchString, MatchCharacter, MatchPair
        DEF Next, Scan, Done

-----------------------------------------------------------------------------
(* The tokens *)

(* The tokens are those of the text: they are the longest matches, one after   *)
(* another, with nothing left out, and where they are said to be, for every    *)
(* text and every use of peekToken (Lexer.cpp:71-350).                         *)
THEOREM TokensSoundHolds == Spec => []TokensSound
<1>1. Init => ScanInv
  <2>1. ASSUME Init PROVE Located /\ MatchInv
    BY <2>1 DEF Init, Located, MatchInv, Between, WordSoFar, NumberSoFar, StringSoFar, CharacterSoFar, PairSoFar
  <2> QED BY <2>1, PlacesInit, TilesInit DEF ScanInv
<1>2. ScanInv /\ [Next]_vars => ScanInv'
  BY PlacesStep, TilesStep, LocatedStep, MatchStep DEF ScanInv
<1>3. ScanInv => TokensSound
  <2>1. MatchInv => LongestMatch
    BY Zenon DEF MatchInv, LongestMatch, Longest
  <2> QED BY <2>1 DEF ScanInv, TokensSound, PlacesInv, TilesInv
<1> QED BY <1>1, <1>2, <1>3, PTL DEF Spec

-----------------------------------------------------------------------------
(* The trace of the text *)

\* The order of the numbers as a set, as WellFoundedInduction has orders.
Less == {p \in Nat \X Nat : p[1] < p[2]}

\* What holds of 0, and of the next number with a number, holds of all.
LEMMA Numbers ==
    ASSUME NEW S \in SUBSET Nat, 0 \in S, \A n \in S : n + 1 \in S
    PROVE  S = Nat
<1>1. IsWellFoundedOn(Less, Nat)
  BY NatLessThanWellFounded DEF OpToRel, Less
<1>2. ASSUME Nat \ S # {} PROVE FALSE
  <2>1. PICK n \in Nat \ S : \A m \in Nat \ S : ~ (<<m, n>> \in Less)
    BY <1>1, <1>2, WFMin
  <2>2. n # 0 /\ n - 1 \in Nat /\ n - 1 < n /\ (n - 1) + 1 = n
    BY <2>1
  <2>3. n - 1 \in S
    BY <2>1, <2>2 DEF Less
  <2> QED BY <2>1, <2>2, <2>3
<1> QED BY <1>2

\* The modes in which the type counts; in others it is of the token before.
Typed == NumberModes \cup {"pair", "make"}
TypeIn(m, t) == IF m \in Typed THEN t ELSE "Unknown"

\* What nextToken does with the character x, and y after it, in a mode: the next
\* mode, the type, and whether it takes the character.
Turn(c) ==
    LET x == At(c.current + 1) y == At(c.current + 2)
        stay(m, t) == <<m, t, FALSE>> take(m, t) == <<m, t, TRUE>> u == "Unknown" IN
    CASE c.mode = "skip" ->
            IF x \in Blanks THEN take("skip", u)
            ELSE IF x = "/" /\ y = "/" THEN stay("comment", u)
            ELSE IF x = "end" THEN stay("make", "EndOfFile")
            ELSE IF x \in Alpha THEN take("word", u)
            ELSE IF x \in Digits THEN take("digits", "IntegerLiteral")
            ELSE IF x \in DOMAIN Operators THEN take("pair", Operators[x])
            ELSE IF x = "DQ" THEN take("string", u)
            ELSE IF x = "'" THEN take("character", u)
            ELSE take("make", u)
      [] c.mode = "comment" -> IF x \in {"end", "NL"} THEN stay("skip", u) ELSE take("comment", u)
      [] c.mode = "word" ->
            IF x \in Alpha \cup Digits THEN take("word", u)
            ELSE stay("make", IF SubSeq(source, c.start + 1, c.current) \in keywords
                              THEN "Keyword" ELSE "Identifier")
      [] c.mode = "digits" ->
            IF x \in Digits THEN take("digits", c.type)
            ELSE IF x = "." /\ y \in Digits THEN take("fraction", "FloatLiteral")
            ELSE stay("power", c.type)
      [] c.mode = "fraction" ->
            IF x \in Digits THEN take("fraction", c.type) ELSE stay("power", c.type)
      [] c.mode = "power" ->
            IF x \in {"e", "E"} THEN take("sign", "FloatLiteral") ELSE stay("make", c.type)
      [] c.mode = "sign" ->
            IF x \in {"+", "-"} THEN take("exponent", c.type) ELSE stay("exponent", c.type)
      [] c.mode = "exponent" ->
            IF x \in Digits THEN take("exponent", c.type) ELSE stay("make", c.type)
      [] c.mode = "string" ->
            IF x = "end" THEN stay("make", u)
            ELSE IF x = "DQ" THEN take("make", "StringLiteral")
            ELSE IF x = "BS" THEN take("escape", u)
            ELSE take("string", u)
      [] c.mode = "escape" -> IF x = "end" THEN stay("string", u) ELSE take("string", u)
      [] c.mode = "character" ->
            IF x = "end" THEN stay("quote", u)
            ELSE IF x = "BS" THEN take("escaped", u)
            ELSE take("quote", u)
      [] c.mode = "escaped" -> IF x = "end" THEN stay("quote", u) ELSE take("quote", u)
      [] c.mode = "quote" -> IF x = "'" THEN take("make", "CharLiteral") ELSE stay("make", u)
      [] c.mode = "pair" ->
            IF \E p \in Pairs : p[1] = source[c.current] /\ p[2] = x
            THEN take("make", (CHOOSE p \in Pairs : p[1] = source[c.current] /\ p[2] = x)[3])
            ELSE stay("make", c.type)
      [] OTHER -> stay("skip", u)

\* Where a scan is: what decides its next step, and the tokens made before.
Succ(c) ==
    LET u == Turn(c) newline == u[3] /\ At(c.current + 1) = "NL" IN
    [mode |-> u[1], type |-> u[2],
     start |-> IF c.mode = "skip" /\ u[1] \notin Between THEN c.current ELSE c.start,
     current |-> IF u[3] THEN c.current + 1 ELSE c.current,
     line |-> IF newline THEN c.line + 1 ELSE c.line,
     column |-> IF newline THEN 1 ELSE IF u[3] THEN c.column + 1 ELSE c.column,
     made |-> IF c.mode = "make" THEN c.made + 1 ELSE c.made]

At0 == [mode |-> "skip", type |-> "Unknown", start |-> 0, current |-> 0, line |-> 1,
        column |-> 1, made |-> 0]

IsTrace(f, n) == f[0] = At0 /\ \A k \in 0..(n - 1) : f[k + 1] = Succ(f[k])

OnTrace(c) == \E n \in Nat : \E f : IsTrace(f, n) /\ f[n] = c

LEMMA TraceBegins == OnTrace(At0)
<1> DEFINE f == [k \in {0} |-> At0]
<1>1. f[0] = At0 /\ 0 \in Nat /\ 0..(0 - 1) = {}
  OBVIOUS
<1>2. IsTrace(f, 0)
  BY <1>1 DEF IsTrace
<1> QED BY <1>1, <1>2 DEF OnTrace

LEMMA TraceGoesOn == ASSUME NEW c, OnTrace(c) PROVE OnTrace(Succ(c))
<1>1. PICK n \in Nat : \E f : IsTrace(f, n) /\ f[n] = c
  BY DEF OnTrace
<1>2. PICK f : IsTrace(f, n) /\ f[n] = c
  BY <1>1
<1> DEFINE g == [k \in 0..(n + 1) |-> IF k <= n THEN f[k] ELSE Succ(c)]
<1>3. /\ 0 \in 0..(n + 1) /\ 0 <= n /\ n + 1 \in 0..(n + 1) /\ ~(n + 1 <= n) /\ (n + 1) - 1 = n
      /\ \A k \in 0..n : k \in 0..(n + 1) /\ k <= n /\ k + 1 \in 0..(n + 1)
                         /\ (k = n \/ (k \in 0..(n - 1) /\ k + 1 <= n))
  OBVIOUS
<1>4. g[0] = f[0] /\ g[n + 1] = Succ(c) /\ \A k \in 0..n : g[k] = f[k]
  BY <1>3
<1>5. \A k \in 0..n : k + 1 <= n => g[k + 1] = f[k + 1]
  BY <1>3
<1> HIDE DEF g
<1>6. \A k \in 0..n : g[k + 1] = Succ(g[k])
  <2> TAKE k \in 0..n
  <2>1. CASE k = n
    BY <1>2, <1>3, <1>4, <2>1
  <2>2. CASE k \in 0..(n - 1) /\ k + 1 <= n
    BY <1>2, <1>4, <1>5, <2>2 DEF IsTrace
  <2> QED BY <1>3, <2>1, <2>2
<1>7. IsTrace(g, n + 1)
  BY <1>2, <1>3, <1>4, <1>6 DEF IsTrace
<1> QED BY <1>4, <1>7 DEF OnTrace

\* Two traces are the same as far as both go.
LEMMA TracesAgree ==
    ASSUME NEW f, NEW n \in Nat, NEW g, NEW m \in Nat, IsTrace(f, n), IsTrace(g, m)
    PROVE  \A k \in Nat : k <= n /\ k <= m => f[k] = g[k]
<1> DEFINE S == {k \in Nat : k <= n /\ k <= m => f[k] = g[k]}
<1>1. 0 \in S
  BY DEF IsTrace
<1>2. ASSUME NEW k \in S PROVE k + 1 \in S
  <2>1. CASE k + 1 <= n /\ k + 1 <= m
    <3>1. k \in 0..(n - 1) /\ k \in 0..(m - 1) /\ k <= n /\ k <= m
      BY <1>2, <2>1
    <3>2. f[k] = g[k]
      BY <1>2, <3>1
    <3>3. f[k + 1] = Succ(f[k]) /\ g[k + 1] = Succ(g[k])
      BY <3>1 DEF IsTrace
    <3> QED BY <1>2, <3>2, <3>3
  <2>2. CASE ~(k + 1 <= n /\ k + 1 <= m)
    BY <1>2, <2>2
  <2> QED BY <2>1, <2>2
<1>3. S \in SUBSET Nat
  OBVIOUS
<1> HIDE DEF S
<1>4. S = Nat
  BY <1>1, <1>2, <1>3, Numbers
<1> QED BY <1>4 DEF S

\* A trace never has fewer tokens, and with a token made it has more.
LEMMA TraceCounts ==
    ASSUME NEW f, NEW n \in Nat, IsTrace(f, n), NEW j \in Nat, j < n, f[j].mode = "make"
    PROVE  f[j].made \in Nat /\ f[n].made \in Nat /\ f[n].made > f[j].made
<1>1. \A c : Succ(c).made = IF c.mode = "make" THEN c.made + 1 ELSE c.made
  BY DEF Succ
<1>2. \A k \in Nat : k < n => f[k + 1].made = IF f[k].mode = "make" THEN f[k].made + 1 ELSE f[k].made
  <2>1. \A k \in Nat : k < n => k \in 0..(n - 1)
    OBVIOUS
  <2> QED BY <1>1, <2>1 DEF IsTrace
<1> DEFINE S == {k \in Nat : k <= n => f[k].made \in Nat}
           T == {k \in Nat : k > j /\ k <= n => f[k].made > f[j].made}
<1>3. S = Nat
  <2>1. 0 \in S
    BY DEF IsTrace, At0
  <2>2. ASSUME NEW k \in S PROVE k + 1 \in S
    <3>1. k + 1 <= n => k < n /\ f[k].made \in Nat
      BY <2>2
    <3>2. k + 1 <= n => f[k + 1].made \in Nat
      BY <1>2, <2>2, <3>1
    <3> QED BY <2>2, <3>2
  <2>3. S \in SUBSET Nat
    OBVIOUS
  <2> HIDE DEF S
  <2> QED BY <2>1, <2>2, <2>3, Numbers
<1>4. \A k \in Nat : k <= n => f[k].made \in Nat
  BY <1>3
<1>5. T = Nat
  <2>1. 0 \in T
    OBVIOUS
  <2>2. ASSUME NEW k \in T PROVE k + 1 \in T
    <3>1. CASE k + 1 > j /\ k + 1 <= n
      <4>1. k < n /\ k \in Nat /\ (k = j \/ k > j) /\ f[k].made \in Nat
        BY <1>4, <2>2, <3>1
      <4>2. f[k + 1].made = IF f[k].mode = "make" THEN f[k].made + 1 ELSE f[k].made
        BY <1>2, <4>1
      <4>3. k > j => f[k].made > f[j].made
        BY <2>2, <4>1
      <4>4. f[j].made \in Nat
        BY <1>4
      <4>5. f[k + 1].made > f[j].made
        BY <4>1, <4>2, <4>3, <4>4
      <4> QED BY <2>2, <4>5
    <3>2. CASE ~(k + 1 > j /\ k + 1 <= n)
      BY <2>2, <3>2
    <3> QED BY <3>1, <3>2
  <2>3. T \in SUBSET Nat
    OBVIOUS
  <2> HIDE DEF T
  <2> QED BY <2>1, <2>2, <2>3, Numbers
<1>6. n \in T
  BY <1>5
<1> QED BY <1>4, <1>6

\* The token made with a number of tokens before it is one.
LEMMA TraceMakesOne ==
    ASSUME NEW c, NEW d, OnTrace(c), OnTrace(d), c.mode = "make", d.mode = "make", c.made = d.made
    PROVE  c = d
<1>1. PICK n \in Nat : \E f : IsTrace(f, n) /\ f[n] = c
  BY DEF OnTrace
<1>2. PICK f : IsTrace(f, n) /\ f[n] = c
  BY <1>1
<1>3. PICK m \in Nat : \E g : IsTrace(g, m) /\ g[m] = d
  BY DEF OnTrace
<1>4. PICK g : IsTrace(g, m) /\ g[m] = d
  BY <1>3
<1>5. \A k \in Nat : k <= n /\ k <= m => f[k] = g[k]
  BY <1>2, <1>4, TracesAgree
<1>6. CASE n < m
  <2>1. g[n] = c
    BY <1>2, <1>5, <1>6
  <2>2. g[m].made > g[n].made /\ g[n].made \in Nat
    BY <1>4, <1>6, <2>1, TraceCounts
  <2> QED BY <1>4, <2>1, <2>2
<1>7. CASE m < n
  <2>1. f[m] = d
    BY <1>4, <1>5, <1>7
  <2>2. f[n].made > f[m].made /\ f[m].made \in Nat
    BY <1>2, <1>7, <2>1, TraceCounts
  <2> QED BY <1>2, <2>1, <2>2
<1>8. CASE n = m
  BY <1>2, <1>4, <1>5, <1>8
<1> QED BY <1>6, <1>7, <1>8

\* Every pair of characters is one token.
LEMMA PairsAreOne == \A p, q \in Pairs : p[1] = q[1] /\ p[2] = q[2] => p = q
BY DEF Pairs

\* The place of the scan.
Count == IF peeking.on THEN peeking.index - peeking.left - 1 ELSE Len(tokens)
Here == [mode |-> IF mode = "idle" THEN "skip" ELSE mode, type |-> TypeIn(mode, type),
         start |-> start, current |-> current, line |-> line, column |-> column, made |-> Count]

\* What a step of a scan does to the place.
Turned(takes) ==
    /\ Turn(Here) = <<mode', TypeIn(mode', type'), takes>>
    /\ start' = IF mode = "skip" /\ mode' \notin Between THEN current ELSE start
    /\ IF takes THEN Advance(mode') ELSE Stay(mode')

LEMMA HereIs ==
    /\ Here.mode = IF mode = "idle" THEN "skip" ELSE mode
    /\ Here.type = TypeIn(mode, type) /\ Here.start = start /\ Here.current = current
    /\ Here.line = line /\ Here.column = column /\ Here.made = Count
BY DEF Here

LEMMA TurnedSkip == ASSUME PlacesInv, Skip PROVE \E takes \in BOOLEAN : Turned(takes)
<1>1. /\ source \in Seq(Chars) /\ current \in 0..Len(source) /\ start' = start
  BY Scalars DEF Skip, Keep
<1>2. /\ peek(0) = At(current + 1) /\ peek(1) = At(current + 2)
      /\ isAtEnd <=> At(current + 1) = "end"
  BY <1>1, PeekIs
<1>3. Here.mode = IF mode = "idle" THEN "skip" ELSE mode
  BY HereIs
<1>4. Here.current = current
  BY HereIs
<1>5. CASE mode = "skip" /\ peek(0) \in Blanks /\ Advance("skip")
  <2>1. mode' = "skip" /\ TypeIn(mode', type') = "Unknown"
    BY <1>5 DEF Advance, TypeIn, Typed, NumberModes
  <2>2. Turn(Here) = <<"skip", "Unknown", TRUE>>
    BY <1>2, <1>3, <1>4, <1>5 DEF Turn
  <2>3. Turned(TRUE)
    BY <1>1, <1>5, <2>1, <2>2 DEF Turned, Between
  <2> QED BY <2>3
<1>6. CASE mode = "skip" /\ peek(0) = "/" /\ peek(1) = "/" /\ Stay("comment")
  <2>1. mode' = "comment" /\ TypeIn(mode', type') = "Unknown"
    BY <1>6 DEF Stay, TypeIn, Typed, NumberModes
  <2>2. Turn(Here) = <<"comment", "Unknown", FALSE>>
    BY <1>2, <1>3, <1>4, <1>6, Classes DEF Turn
  <2>3. Turned(FALSE)
    BY <1>1, <1>6, <2>1, <2>2 DEF Turned, Between
  <2> QED BY <2>3
<1>7. CASE mode = "comment" /\ ~isAtEnd /\ peek(0) # "NL" /\ Advance("comment")
  <2>1. mode' = "comment" /\ TypeIn(mode', type') = "Unknown"
    BY <1>7 DEF Advance, TypeIn, Typed, NumberModes
  <2>2. Turn(Here) = <<"comment", "Unknown", TRUE>>
    BY <1>2, <1>3, <1>4, <1>7 DEF Turn
  <2>3. Turned(TRUE)
    BY <1>1, <1>7, <2>1, <2>2 DEF Turned, Between
  <2> QED BY <2>3
<1>8. CASE mode = "comment" /\ (isAtEnd \/ peek(0) = "NL") /\ Stay("skip")
  <2>1. mode' = "skip" /\ TypeIn(mode', type') = "Unknown"
    BY <1>8 DEF Stay, TypeIn, Typed, NumberModes
  <2>2. Turn(Here) = <<"skip", "Unknown", FALSE>>
    BY <1>2, <1>3, <1>4, <1>8 DEF Turn
  <2>3. Turned(FALSE)
    BY <1>1, <1>8, <2>1, <2>2 DEF Turned, Between
  <2> QED BY <2>3
<1> QED BY <1>5, <1>6, <1>7, <1>8 DEF Skip

\* The facts that the next lemmas use of a scan within a token.
LEMMA TurnFacts ==
    ASSUME PlacesInv, InToken \/ First
    PROVE  /\ source \in Seq(Chars) /\ current \in 0..Len(source)
           /\ peek(0) = At(current + 1) /\ peek(1) = At(current + 2)
           /\ isAtEnd <=> At(current + 1) = "end"
           /\ mode # "idle" /\ Here.mode = mode /\ Here.current = current /\ Here.start = start
           /\ mode \in Typed => Here.type = type
<1>1. source \in Seq(Chars) /\ current \in 0..Len(source)
  BY Scalars
<1>2. mode # "idle"
  BY DEF InToken, First, identifier, number, string, character, match, Take, TakeAs, Leave, LeaveAs, Fail
<1> QED BY <1>1, <1>2, PeekIs, HereIs DEF TypeIn

LEMMA TurnedWord == ASSUME PlacesInv, identifier PROVE \E takes \in BOOLEAN : Turned(takes)
<1>1. /\ peek(0) = At(current + 1) /\ Here.mode = mode /\ Here.current = current /\ Here.start = start
  BY TurnFacts DEF InToken
<1>2. start' = start /\ mode = "word"
  BY DEF identifier, Take, LeaveAs, Keep
<1>3. CASE peek(0) \in Alpha \cup Digits /\ Take("word", "word")
  <2>1. Turn(Here) = <<"word", "Unknown", TRUE>>
    BY <1>1, <1>2, <1>3 DEF Turn
  <2>2. Turned(TRUE)
    BY <1>2, <1>3, <2>1 DEF Turned, Take, Advance, TypeIn, Typed, NumberModes
  <2> QED BY <2>2
<1>4. CASE /\ peek(0) \notin Alpha \cup Digits
           /\ LeaveAs("word", "make", IF Scanned \in keywords THEN "Keyword" ELSE "Identifier")
  <2>1. Turn(Here) = <<"make", IF Scanned \in keywords THEN "Keyword" ELSE "Identifier", FALSE>>
    BY <1>1, <1>2, <1>4 DEF Turn, Scanned
  <2>2. Turned(FALSE)
    BY <1>2, <1>4, <2>1 DEF Turned, LeaveAs, Stay, TypeIn, Typed
  <2> QED BY <2>2
<1> QED BY <1>3, <1>4 DEF identifier

LEMMA TurnedNumber == ASSUME PlacesInv, number PROVE \E takes \in BOOLEAN : Turned(takes)
<1>1. /\ peek(0) = At(current + 1) /\ peek(1) = At(current + 2)
      /\ Here.mode = mode /\ Here.type = type /\ mode \in NumberModes
  <2>1. mode \in NumberModes
    BY DEF number, Take, TakeAs, Leave, NumberModes
  <2> QED BY <2>1, TurnFacts DEF InToken, Typed
<1>2. start' = start /\ Here.current = current
  BY TurnFacts DEF InToken, number, Take, TakeAs, Leave, Keep
<1>3. /\ \A x \in Digits : x \notin {"e", "E", "+", "-", "."}
  BY Classes
<1>4. ASSUME NEW m, NEW t, NEW takes \in BOOLEAN, Turn(Here) = <<m, t, takes>>, m \in Typed,
             mode' = m, type' = t, IF takes THEN Advance(m) ELSE Stay(m)
      PROVE  \E q \in BOOLEAN : Turned(q)
  BY <1>1, <1>2, <1>4 DEF Turned, TypeIn, NumberModes
<1>5. CASE peek(0) \in Digits /\ \E m \in {"digits", "fraction", "exponent"} : Take(m, m)
  <2>1. PICK m \in {"digits", "fraction", "exponent"} : Take(m, m)
    BY <1>5
  <2>2. Turn(Here) = <<m, type, TRUE>>
    BY <1>1, <1>2, <1>5, <2>1 DEF Turn, Take
  <2> QED BY <1>4, <2>1, <2>2 DEF Take, Keep, Advance, Typed, NumberModes
<1>6. CASE peek(0) = "." /\ peek(1) \in Digits /\ TakeAs("digits", "fraction", "FloatLiteral")
  <2>1. Turn(Here) = <<"fraction", "FloatLiteral", TRUE>>
    BY <1>1, <1>2, <1>3, <1>6 DEF Turn, TakeAs
  <2> QED BY <1>4, <1>6, <2>1 DEF TakeAs, Advance, Typed, NumberModes
<1>7. CASE /\ peek(0) \notin Digits /\ ~(peek(0) = "." /\ peek(1) \in Digits)
           /\ Leave("digits", "power")
  <2>1. Turn(Here) = <<"power", type, FALSE>>
    BY <1>1, <1>2, <1>7 DEF Turn, Leave
  <2> QED BY <1>4, <1>7, <2>1 DEF Leave, Stay, Keep, Typed, NumberModes
<1>8. CASE peek(0) \notin Digits /\ Leave("fraction", "power")
  <2>1. Turn(Here) = <<"power", type, FALSE>>
    BY <1>1, <1>2, <1>8 DEF Turn, Leave
  <2> QED BY <1>4, <1>8, <2>1 DEF Leave, Stay, Keep, Typed, NumberModes
<1>9. CASE peek(0) \in {"e", "E"} /\ TakeAs("power", "sign", "FloatLiteral")
  <2>1. Turn(Here) = <<"sign", "FloatLiteral", TRUE>>
    BY <1>1, <1>2, <1>9 DEF Turn, TakeAs
  <2> QED BY <1>4, <1>9, <2>1 DEF TakeAs, Advance, Typed, NumberModes
<1>10. CASE peek(0) \notin {"e", "E"} /\ Leave("power", "make")
  <2>1. Turn(Here) = <<"make", type, FALSE>>
    BY <1>1, <1>2, <1>10 DEF Turn, Leave
  <2> QED BY <1>4, <1>10, <2>1 DEF Leave, Stay, Keep, Typed
<1>11. CASE peek(0) \in {"+", "-"} /\ Take("sign", "exponent")
  <2>1. Turn(Here) = <<"exponent", type, TRUE>>
    BY <1>1, <1>2, <1>11 DEF Turn, Take
  <2> QED BY <1>4, <1>11, <2>1 DEF Take, Keep, Advance, Typed, NumberModes
<1>12. CASE peek(0) \notin {"+", "-"} /\ Leave("sign", "exponent")
  <2>1. Turn(Here) = <<"exponent", type, FALSE>>
    BY <1>1, <1>2, <1>12 DEF Turn, Leave
  <2> QED BY <1>4, <1>12, <2>1 DEF Leave, Stay, Keep, Typed, NumberModes
<1>13. CASE peek(0) \notin Digits /\ Leave("exponent", "make")
  <2>1. Turn(Here) = <<"make", type, FALSE>>
    BY <1>1, <1>2, <1>13 DEF Turn, Leave
  <2> QED BY <1>4, <1>13, <2>1 DEF Leave, Stay, Keep, Typed
<1> QED BY <1>5, <1>6, <1>7, <1>8, <1>9, <1>10, <1>11, <1>12, <1>13 DEF number

\* The turns of the literals in quotes.
LEMMA TurnedQuoted ==
    ASSUME PlacesInv, string \/ character
    PROVE  \E takes \in BOOLEAN : Turned(takes)
<1>1. /\ peek(0) = At(current + 1)
      /\ isAtEnd <=> At(current + 1) = "end"
  BY TurnFacts DEF InToken
<1>2. start' = start /\ Here.current = current /\ Here.mode = mode
      /\ mode \in {"string", "escape", "character", "escaped", "quote"}
  BY TurnFacts DEF InToken, string, character, Take, TakeAs, Leave, Fail, Keep
<1>3. ASSUME NEW m, NEW t, NEW takes \in BOOLEAN, Turn(Here) = <<m, t, takes>>,
             (m = "make" /\ type' = t) \/ (m \in {"string", "escape", "character", "escaped", "quote"} /\ t = "Unknown"),
             mode' = m, IF takes THEN Advance(m) ELSE Stay(m)
      PROVE  \E q \in BOOLEAN : Turned(q)
  BY <1>2, <1>3 DEF Turned, TypeIn, Typed, NumberModes
<1> USE DEF Take, TakeAs, Leave, Fail, Advance, Stay
<1>4. CASE isAtEnd /\ Fail("string")
  <2>1. Turn(Here) = <<"make", "Unknown", FALSE>>
    BY <1>1, <1>2, <1>4 DEF Turn
  <2> QED BY <1>3, <1>4, <2>1
<1>5. CASE ~isAtEnd /\ peek(0) = "DQ" /\ TakeAs("string", "make", "StringLiteral")
  <2>1. Turn(Here) = <<"make", "StringLiteral", TRUE>>
    BY <1>1, <1>2, <1>5 DEF Turn
  <2>2. mode' = "make" /\ type' = "StringLiteral" /\ Advance("make")
    BY <1>5
  <2>3. Turned(TRUE)
    BY <1>2, <2>1, <2>2 DEF Turned, TypeIn, Typed
  <2> QED BY <2>3
<1>6. CASE ~isAtEnd /\ peek(0) = "BS" /\ Take("string", "escape")
  <2>1. Turn(Here) = <<"escape", "Unknown", TRUE>>
    BY <1>1, <1>2, <1>6 DEF Turn
  <2> QED BY <1>3, <1>6, <2>1
<1>7. CASE ~isAtEnd /\ peek(0) \notin {"DQ", "BS"} /\ Take("string", "string")
  <2>1. Turn(Here) = <<"string", "Unknown", TRUE>>
    BY <1>1, <1>2, <1>7 DEF Turn
  <2> QED BY <1>3, <1>7, <2>1
<1>8. CASE isAtEnd /\ Leave("escape", "string")
  <2>1. Turn(Here) = <<"string", "Unknown", FALSE>>
    BY <1>1, <1>2, <1>8 DEF Turn
  <2> QED BY <1>3, <1>8, <2>1
<1>9. CASE ~isAtEnd /\ Take("escape", "string")
  <2>1. Turn(Here) = <<"string", "Unknown", TRUE>>
    BY <1>1, <1>2, <1>9 DEF Turn
  <2> QED BY <1>3, <1>9, <2>1
<1>10. CASE ~isAtEnd /\ peek(0) = "BS" /\ Take("character", "escaped")
  <2>1. Turn(Here) = <<"escaped", "Unknown", TRUE>>
    BY <1>1, <1>2, <1>10 DEF Turn
  <2> QED BY <1>3, <1>10, <2>1
<1>11. CASE ~isAtEnd /\ peek(0) # "BS" /\ Take("character", "quote")
  <2>1. Turn(Here) = <<"quote", "Unknown", TRUE>>
    BY <1>1, <1>2, <1>11 DEF Turn
  <2> QED BY <1>3, <1>11, <2>1
<1>12. CASE isAtEnd /\ (Leave("character", "quote") \/ Leave("escaped", "quote"))
  <2>1. Turn(Here) = <<"quote", "Unknown", FALSE>>
    BY <1>1, <1>2, <1>12 DEF Turn
  <2> QED BY <1>3, <1>12, <2>1
<1>13. CASE ~isAtEnd /\ Take("escaped", "quote")
  <2>1. Turn(Here) = <<"quote", "Unknown", TRUE>>
    BY <1>1, <1>2, <1>13 DEF Turn
  <2> QED BY <1>3, <1>13, <2>1
<1>14. CASE peek(0) = "'" /\ TakeAs("quote", "make", "CharLiteral")
  <2>1. Turn(Here) = <<"make", "CharLiteral", TRUE>>
    BY <1>1, <1>2, <1>14 DEF Turn
  <2>2. mode' = "make" /\ type' = "CharLiteral" /\ Advance("make")
    BY <1>14
  <2>3. Turned(TRUE)
    BY <1>2, <2>1, <2>2 DEF Turned, TypeIn, Typed
  <2> QED BY <2>3
<1>15. CASE peek(0) # "'" /\ Fail("quote")
  <2>1. Turn(Here) = <<"make", "Unknown", FALSE>>
    BY <1>1, <1>2, <1>15 DEF Turn
  <2> QED BY <1>3, <1>15, <2>1
<1> QED BY <1>4, <1>5, <1>6, <1>7, <1>8, <1>9, <1>10, <1>11, <1>12, <1>13, <1>14, <1>15
        DEF string, character

LEMMA TurnedPair == ASSUME PlacesInv, match PROVE \E takes \in BOOLEAN : Turned(takes)
<1>1. /\ peek(0) = At(current + 1) /\ Here.mode = mode /\ Here.current = current
      /\ Here.type = type /\ mode = "pair"
  <2>1. mode = "pair"
    BY DEF match
  <2> QED BY <2>1, TurnFacts DEF InToken, Typed
<1>2. start' = start /\ mode' = "make"
  BY DEF match, TakeAs, Leave, Keep, Advance, Stay
<1>3. ASSUME NEW p \in Pairs, p[1] = source[current], p[2] = peek(0), TakeAs("pair", "make", p[3])
      PROVE  Turned(TRUE)
  <2>1. \E q \in Pairs : q[1] = source[current] /\ q[2] = At(current + 1)
    BY <1>1, <1>3
  <2>2. (CHOOSE q \in Pairs : q[1] = source[current] /\ q[2] = At(current + 1)) = p
    BY <1>1, <1>3, PairsAreOne
  <2>3. Turn(Here) = <<"make", p[3], TRUE>>
    BY <1>1, <2>1, <2>2 DEF Turn
  <2> QED BY <1>1, <1>2, <1>3, <2>3 DEF Turned, TakeAs, TypeIn, Typed
<1>4. CASE /\ \A p \in Pairs : <<p[1], p[2]>> # <<source[current], peek(0)>>
           /\ Leave("pair", "make")
  <2>1. ~(\E q \in Pairs : q[1] = source[current] /\ q[2] = At(current + 1))
    BY <1>1, <1>4
  <2>2. Turn(Here) = <<"make", type, FALSE>>
    BY <1>1, <2>1 DEF Turn
  <2>3. Turned(FALSE)
    BY <1>1, <1>2, <1>4, <2>2 DEF Turned, Leave, Keep, TypeIn, Typed
  <2> QED BY <2>3
<1> QED BY <1>3, <1>4 DEF match

LEMMA TurnedFirst == ASSUME PlacesInv, First PROVE \E takes \in BOOLEAN : Turned(takes)
<1>1. /\ peek(0) = At(current + 1) /\ peek(1) = At(current + 2)
      /\ isAtEnd <=> At(current + 1) = "end"
      /\ Here.mode = mode /\ Here.current = current
  BY TurnFacts
<1>2. mode = "skip" /\ start' = current /\ peek(0) \notin Blanks /\ ~(peek(0) = "/" /\ peek(1) = "/")
  BY DEF First
<1>3. ASSUME NEW m, NEW t, NEW takes \in BOOLEAN, Turn(Here) = <<m, t, takes>>,
             (m \in Typed /\ type' = t) \/ (m \in {"word", "string", "character"} /\ t = "Unknown"),
             mode' = m, IF takes THEN Advance(m) ELSE Stay(m)
      PROVE  \E q \in BOOLEAN : Turned(q)
  BY <1>2, <1>3 DEF Turned, TypeIn, Typed, NumberModes, Between
<1> USE DEF Advance, Stay
<1>4. CASE isAtEnd /\ type' = "EndOfFile" /\ Stay("make")
  <2>1. Turn(Here) = <<"make", "EndOfFile", FALSE>>
    BY <1>1, <1>2, <1>4 DEF Turn
  <2>2. mode' = "make" /\ type' = "EndOfFile" /\ Stay("make") /\ "make" \in Typed
    BY <1>4 DEF Typed
  <2>3. Turned(FALSE)
    BY <1>2, <2>1, <2>2 DEF Turned, TypeIn, Between
  <2> QED BY <2>3
<1>5. CASE ~isAtEnd /\ peek(0) \in Alpha /\ Advance("word")
  <2>1. Turn(Here) = <<"word", "Unknown", TRUE>>
    BY <1>1, <1>2, <1>5 DEF Turn
  <2> QED BY <1>3, <1>5, <2>1
<1>6. CASE ~isAtEnd /\ peek(0) \in Digits /\ type' = "IntegerLiteral" /\ Advance("digits")
  <2>1. Turn(Here) = <<"digits", "IntegerLiteral", TRUE>>
    BY <1>1, <1>2, <1>6, Classes DEF Turn
  <2>2. mode' = "digits" /\ type' = "IntegerLiteral" /\ Advance("digits") /\ "digits" \in Typed
    BY <1>6 DEF Typed, NumberModes
  <2>3. Turned(TRUE)
    BY <1>2, <2>1, <2>2 DEF Turned, TypeIn, Between
  <2> QED BY <2>3
<1>7. CASE /\ ~isAtEnd /\ peek(0) \in DOMAIN Operators
           /\ type' = Operators[peek(0)] /\ Advance("pair")
  <2>1. Turn(Here) = <<"pair", Operators[peek(0)], TRUE>>
    BY <1>1, <1>2, <1>7, Classes DEF Turn
  <2>2. mode' = "pair" /\ type' = Operators[peek(0)] /\ Advance("pair") /\ "pair" \in Typed
    BY <1>7 DEF Typed
  <2>3. Turned(TRUE)
    BY <1>2, <2>1, <2>2 DEF Turned, TypeIn, Between
  <2> QED BY <2>3
<1>8. CASE ~isAtEnd /\ peek(0) = "DQ" /\ Advance("string")
  <2>1. Turn(Here) = <<"string", "Unknown", TRUE>>
    BY <1>1, <1>2, <1>8, Classes DEF Turn
  <2> QED BY <1>3, <1>8, <2>1
<1>9. CASE ~isAtEnd /\ peek(0) = "'" /\ Advance("character")
  <2>1. Turn(Here) = <<"character", "Unknown", TRUE>>
    BY <1>1, <1>2, <1>9, Classes DEF Turn
  <2> QED BY <1>3, <1>9, <2>1
<1>10. CASE ~isAtEnd /\ peek(0) \in Strange \cup {"BS"} /\ type' = "Unknown" /\ Advance("make")
  <2>1. Turn(Here) = <<"make", "Unknown", TRUE>>
    BY <1>1, <1>2, <1>10, Classes DEF Turn
  <2> QED BY <1>3, <1>10, <2>1 DEF Typed
<1> QED BY <1>4, <1>5, <1>6, <1>7, <1>8, <1>9, <1>10 DEF First

\* The step of a scan is the next of the trace.
LEMMA HereGoesOn == ASSUME PlacesInv, Scanning PROVE Here' = Succ(Here)
<1>1. PICK takes \in BOOLEAN : Turned(takes)
  BY TurnedSkip, TurnedFirst, TurnedWord, TurnedNumber, TurnedQuoted, TurnedPair DEF Scanning
<1>2. Turn(Here) = <<mode', TypeIn(mode', type'), takes>>
      /\ start' = IF mode = "skip" /\ mode' \notin Between THEN current ELSE start
  BY <1>1 DEF Turned
<1>3. /\ tokens' = tokens /\ peeking' = peeking /\ mode' # "idle"
  <2>1. TypeOK /\ current <= Len(source)
    BY Scalars DEF PlacesInv
  <2> QED BY <2>1, ScanShape DEF Shape
<1>4. mode # "idle" /\ mode # "make"
  BY DEF Scanning, Skip, First, identifier, number, string, character, match, Take, TakeAs, Leave,
         LeaveAs, Fail
<1>5. peek(0) = At(current + 1)
  <2>1. source \in Seq(Chars) /\ current \in 0..Len(source)
    BY Scalars
  <2> QED BY <2>1, PeekIs
<1>6. Count' = Count
  BY <1>3 DEF Count
<1>7. /\ current' = IF takes THEN current + 1 ELSE current
      /\ line' = IF takes /\ At(current + 1) = "NL" THEN line + 1 ELSE line
      /\ column' = IF takes /\ At(current + 1) = "NL" THEN 1 ELSE IF takes THEN column + 1 ELSE column
  BY <1>1, <1>5 DEF Turned, Advance, Stay
<1>8. Here' = [mode |-> mode', type |-> TypeIn(mode', type'), start |-> start', current |-> current',
               line |-> line', column |-> column', made |-> Count]
  BY <1>3, <1>6 DEF Here
<1>9. /\ Here.mode = mode /\ Here.start = start /\ Here.current = current
      /\ Here.line = line /\ Here.column = column /\ Here.made = Count
  BY <1>4, HereIs
<1> HIDE DEF Here
<1>10. /\ Turn(Here)[1] = mode' /\ Turn(Here)[2] = TypeIn(mode', type') /\ Turn(Here)[3] = takes
  BY <1>2
<1> QED BY <1>2, <1>4, <1>7, <1>8, <1>9, <1>10 DEF Succ

\* Beyond a token made the trace goes on to the next one.
LEMMA SuccOfMake ==
    ASSUME mode = "make"
    PROVE  Succ(Here) = [mode |-> "skip", type |-> "Unknown", start |-> start, current |-> current,
                         line |-> line, column |-> column, made |-> Count + 1]
<1>1. /\ Here.mode = "make" /\ Here.start = start /\ Here.current = current
      /\ Here.line = line /\ Here.column = column /\ Here.made = Count
  BY HereIs
<1>2. Turn(Here) = <<"skip", "Unknown", FALSE>>
  BY <1>1 DEF Turn
<1>3. Turn(Here)[1] = "skip" /\ Turn(Here)[2] = "Unknown" /\ Turn(Here)[3] = FALSE
  BY <1>2
<1> QED BY <1>1, <1>3 DEF Succ

LEMMA TraceKept ==
    ASSUME source' = source
    PROVE  \A c : OnTrace(c)' <=> OnTrace(c)
<1>1. \A c : Turn(c)' = Turn(c)
  <2> TAKE c
  <2>1. At(c.current + 1)' = At(c.current + 1) /\ At(c.current + 2)' = At(c.current + 2)
    BY Kept
  <2> QED BY <2>1, Zenon DEF Turn
<1>2. \A c : Succ(c)' = Succ(c)
  BY <1>1, Kept DEF Succ
<1>3. \A f, n : IsTrace(f, n)' <=> IsTrace(f, n)
  BY <1>2 DEF IsTrace
<1> QED BY <1>3 DEF OnTrace

TokenAt(c) ==
    [type |-> c.type, lo |-> c.start, hi |-> c.current, line |-> c.line,
     column |-> (c.column - (c.current - c.start)) % SizeT]

\* The token t is the k-th of the trace.
MadeAt(t, k) == \E c : OnTrace(c) /\ c.mode = "make" /\ c.made = k - 1 /\ t = TokenAt(c)

LEMMA MadeAtKept ==
    ASSUME source' = source
    PROVE  \A t, k : MadeAt(t, k)' <=> MadeAt(t, k)
BY TraceKept DEF MadeAt

\* Where the scan goes on when peekToken is done.
Back == [mode |-> "skip", type |-> "Unknown", start |-> Saved[1], current |-> Saved[2],
         line |-> Saved[3], column |-> Saved[4], made |-> Len(tokens)]

PeekInv ==
    /\ OnTrace(Here)
    /\ peeking.on => OnTrace(Back)
    /\ \A k \in DOMAIN tokens : MadeAt(tokens[k], k)
    /\ ~peeking.on /\ peeking.index > 0 => MadeAt(peeking.saw, peeking.index)

LEMMA MadeHere ==
    ASSUME mode = "make", OnTrace(Here), NEW k \in Nat, Count = k - 1
    PROVE  MadeAt(Made, k)
<1>1. /\ Here.mode = "make" /\ Here.type = type /\ Here.start = start /\ Here.current = current
      /\ Here.line = line /\ Here.column = column /\ Here.made = Count
  BY HereIs DEF TypeIn, Typed
<1>2. Made = TokenAt(Here)
  BY <1>1 DEF Made, TokenAt
<1> QED BY <1>1, <1>2 DEF MadeAt

LEMMA PeekInit == ASSUME Init PROVE PeekInv
<1>1. Here = At0
  BY DEF Init, Here, TypeIn, Typed, NumberModes, Count, NotPeeking, At0
<1> QED BY <1>1, TraceBegins DEF Init, PeekInv, NotPeeking

\* A step that leaves the place on the trace and the tokens as they were.
LEMMA PeekFrom ==
    ASSUME source' = source, tokens' = tokens, peeking' = peeking, PeekInv, OnTrace(Here')
    PROVE  PeekInv'
<1>1. OnTrace(Here)'
  BY TraceKept
<1>2. (peeking.on => OnTrace(Back))'
  <2>1. Back' = Back
    BY DEF Back, Saved
  <2> QED BY <2>1, TraceKept DEF PeekInv
<1>3. (\A k \in DOMAIN tokens : MadeAt(tokens[k], k))'
  BY MadeAtKept DEF PeekInv
<1>4. (~peeking.on /\ peeking.index > 0 => MadeAt(peeking.saw, peeking.index))'
  BY MadeAtKept DEF PeekInv
<1> QED BY <1>1, <1>2, <1>3, <1>4 DEF PeekInv

LEMMA PeekStep == ASSUME PlacesInv, PeekInv, [Next]_vars PROVE PeekInv'
<1>1. /\ tokens \in Seq(Token) /\ Len(tokens) \in Nat /\ MaxAhead \in Nat
      /\ peeking \in [on : BOOLEAN, left : 0..MaxAhead, saved : Seq(Nat), calls : 0..MaxPeeks,
                      saw : Token, index : Nat]
  BY Scalars, BoundsAssumption DEF PlacesInv, TypeOK
<1>2. CASE NextToken
  <2>1. Here' = Here
    BY <1>2 DEF NextToken, position, Here, Count, TypeIn, Typed, NumberModes
  <2> QED BY <1>2, <2>1, PeekFrom DEF NextToken, PeekInv
<1>3. CASE Scanning
  <2>1. source' = source /\ tokens' = tokens /\ peeking' = peeking
    <3>1. TypeOK /\ current <= Len(source)
      BY Scalars DEF PlacesInv
    <3> QED BY <1>3, <3>1, ScanShape DEF Shape
  <2>2. OnTrace(Here')
    BY <1>3, HereGoesOn, TraceGoesOn DEF PeekInv
  <2> QED BY <2>1, <2>2, PeekFrom
<1>4. ASSUME NEW ahead \in 0..MaxAhead, PeekToken(ahead) PROVE PeekInv'
  <2>1. /\ mode = "idle" /\ mode' = "skip" /\ ~peeking.on
        /\ UNCHANGED <<source, start, current, line, column, tokens>>
        /\ peeking' = [on |-> TRUE, left |-> ahead, saved |-> <<start, current, line, column>>,
                       calls |-> peeking.calls + 1, saw |-> NoToken, index |-> Len(tokens) + ahead + 1]
    BY <1>4 DEF PeekToken, position
  <2>2. Count' = Len(tokens) /\ Count = Len(tokens)
    BY <1>1, <2>1 DEF Count
  <2>3. Here' = Here
    BY <2>1, <2>2 DEF Here, TypeIn, Typed, NumberModes
  <2>4. Back' = Here
    BY <2>1, <2>2 DEF Here, Back, Saved, TypeIn, Typed, NumberModes
  <2>5. OnTrace(Here)' /\ OnTrace(Back)'
    BY <2>1, <2>3, <2>4, TraceKept DEF PeekInv
  <2>6. (\A k \in DOMAIN tokens : MadeAt(tokens[k], k))'
    BY <2>1, MadeAtKept DEF PeekInv
  <2> QED BY <2>1, <2>5, <2>6 DEF PeekInv
<1>5. CASE MakeToken
  <2>1. PICK m \in Nat : m = Len(tokens)
    BY <1>1
  <2>2. /\ mode = "make" /\ ~peeking.on /\ mode' = "idle" /\ tokens' = Append(tokens, Made)
        /\ UNCHANGED <<source, start, current, line, column, peeking>>
    BY <1>5 DEF MakeToken, position
  <2>3. /\ DOMAIN tokens = 1..m /\ DOMAIN tokens' = 1..(m + 1) /\ Len(tokens') = m + 1
        /\ tokens'[m + 1] = Made /\ \A k \in 1..m : tokens'[k] = tokens[k]
    BY <1>1, <2>1, <2>2
  <2>4. Count = m /\ Count' = m + 1
    BY <2>1, <2>2, <2>3 DEF Count
  <2>5. Here' = Succ(Here)
    <3>1. Here' = [mode |-> "skip", type |-> "Unknown", start |-> start, current |-> current,
                   line |-> line, column |-> column, made |-> Count + 1]
      BY <2>2, <2>4 DEF Here, TypeIn, Typed, NumberModes
    <3> QED BY <2>2, <3>1, SuccOfMake
  <2>6. OnTrace(Here)'
    BY <2>2, <2>5, TraceGoesOn, TraceKept DEF PeekInv
  <2>7. (\A k \in DOMAIN tokens : MadeAt(tokens[k], k))'
    <3>1. MadeAt(Made, m + 1)
      BY <2>1, <2>2, <2>4, MadeHere DEF PeekInv
    <3>2. \A k \in 1..(m + 1) : MadeAt(tokens'[k], k)
      BY <2>1, <2>3, <3>1 DEF PeekInv
    <3> QED BY <2>2, <2>3, <3>2, MadeAtKept
  <2>8. (~peeking.on /\ peeking.index > 0 => MadeAt(peeking.saw, peeking.index))'
    BY <2>2, MadeAtKept DEF PeekInv
  <2> QED BY <2>2, <2>6, <2>7, <2>8 DEF PeekInv
<1>6. CASE Peeked
  <2>1. mode = "make" /\ peeking.on /\ source' = source /\ tokens' = tokens
    BY <1>6 DEF Peeked
  <2>2. (\A k \in DOMAIN tokens : MadeAt(tokens[k], k))'
    BY <2>1, MadeAtKept DEF PeekInv
  <2>3. CASE /\ peeking.left > 0 /\ mode' = "skip" /\ peeking' = [peeking EXCEPT !.left = @ - 1]
             /\ UNCHANGED position
    <3>1. /\ peeking'.on /\ peeking'.index = peeking.index /\ peeking'.left = peeking.left - 1
          /\ Saved' = Saved
      BY <1>1, <2>1, <2>3 DEF Saved
    <3>2. Count' = Count + 1
      BY <1>1, <2>1, <3>1 DEF Count
    <3>3. Here' = Succ(Here)
      <4>1. Here' = [mode |-> "skip", type |-> "Unknown", start |-> start, current |-> current,
                     line |-> line, column |-> column, made |-> Count + 1]
        BY <2>3, <3>2 DEF Here, TypeIn, Typed, NumberModes, position
      <4> QED BY <2>1, <4>1, SuccOfMake
    <3>4. Back' = Back
      BY <2>1, <3>1 DEF Back
    <3>5. OnTrace(Here)' /\ OnTrace(Back)'
      BY <2>1, <3>3, <3>4, TraceGoesOn, TraceKept DEF PeekInv
    <3> QED BY <2>2, <3>1, <3>5 DEF PeekInv
  <2>4. CASE /\ peeking.left = 0 /\ mode' = "idle"
             /\ peeking' = [peeking EXCEPT !.on = FALSE, !.saw = Made]
             /\ start' = Saved[1] /\ current' = Saved[2] /\ line' = Saved[3] /\ column' = Saved[4]
    <3>1. peeking'.on = FALSE /\ peeking'.saw = Made /\ peeking'.index = peeking.index
      BY <1>1, <2>4
    <3>2. Here' = Back
      <4>1. Count' = Len(tokens)
        BY <2>1, <3>1 DEF Count
      <4> QED BY <2>4, <4>1 DEF Here, Back, TypeIn, Typed, NumberModes
    <3>3. OnTrace(Here)'
      BY <2>1, <3>2, TraceKept DEF PeekInv
    <3>4. Count = peeking.index - 1
      BY <1>1, <2>1, <2>4 DEF Count
    <3>5. MadeAt(Made, peeking.index)
      BY <1>1, <2>1, <3>4, MadeHere DEF PeekInv
    <3>6. MadeAt(peeking.saw, peeking.index)'
      BY <2>1, <3>1, <3>5, MadeAtKept
    <3> QED BY <2>2, <3>1, <3>3, <3>6 DEF PeekInv
  <2> QED BY <1>6, <2>3, <2>4 DEF Peeked, Saved
<1>7. CASE UNCHANGED vars
  <2>1. Here' = Here
    BY <1>7 DEF vars, position, Here, Count
  <2> QED BY <1>7, <2>1, PeekFrom DEF vars, PeekInv
<1> QED BY <1>2, <1>3, <1>4, <1>5, <1>6, <1>7 DEF Next, Scan, Scanning, Done

(* What peekToken saw is what nextToken returns when the parser comes there,   *)
(* however far it looked ahead and whatever was peeked in between              *)
(* (Lexer.cpp:333-350).                                                        *)
THEOREM PeekAgreesHolds == Spec => []PeekAgrees
<1>1. Init => PlacesInv /\ PeekInv
  BY PlacesInit, PeekInit
<1>2. PlacesInv /\ PeekInv /\ [Next]_vars => (PlacesInv /\ PeekInv)'
  BY PlacesStep, PeekStep
<1>3. PlacesInv /\ PeekInv => PeekAgrees
  <2> SUFFICES ASSUME PlacesInv, PeekInv, ~peeking.on, peeking.index \in DOMAIN tokens
               PROVE  tokens[peeking.index] = peeking.saw
    BY DEF PeekAgrees
  <2>1. peeking.index \in Nat /\ peeking.index > 0
    BY Scalars
  <2>2. PICK c : /\ OnTrace(c) /\ c.mode = "make" /\ c.made = peeking.index - 1
                 /\ tokens[peeking.index] = TokenAt(c)
    BY DEF PeekInv, MadeAt
  <2>3. PICK d : /\ OnTrace(d) /\ d.mode = "make" /\ d.made = peeking.index - 1
                 /\ peeking.saw = TokenAt(d)
    BY <2>1 DEF PeekInv, MadeAt
  <2>4. c = d
    BY <2>2, <2>3, TraceMakesOne
  <2> QED BY <2>2, <2>3, <2>4
<1> QED BY <1>1, <1>2, <1>3, PTL DEF Spec
=============================================================================
