------------------------------- MODULE Notation -------------------------------
(***************************************************************************)
(* How DNN IDs are written and read (internal/encoder/encoder.go,          *)
(* parseDNNName in internal/node/node.go, isDNNName in                     *)
(* internal/dns/server.go).  A DNN ID is a block and a position in it.  It *)
(* is written in numbers, n<block>.<position> or b<Bitcoin block>          *)
(* .<position>, or as an n, two words of a list, a number of cycles if     *)
(* there is one, and letters for the position.                             *)
(*                                                                         *)
(* A text is the sequence of its parts between dots, a part the sequence   *)
(* of its characters, all in lower case.  The multipliers of two letters   *)
(* (qd, qt) are left out: they differ from the others in their value only. *)
(***************************************************************************)
EXTENDS Integers, Sequences, SequencesExt

CONSTANTS
    Letters,     \* the alphabet, in order
    Wordlist,    \* BIP39EnglishWordlist
    Multipliers, \* letter |-> the number it stands for after a block number
    Genesis,     \* the Bitcoin block of DNN block 0
    Nothing      \* no ID, no number, no filter

Digits == <<"0", "1", "2", "3", "4", "5", "6", "7", "8", "9">>
Digit == [c \in Range(Digits) |-> (CHOOSE i \in DOMAIN Digits : Digits[i] = c) - 1]

IsLetter(c) == c \in Range(Letters)

\* TestBIP39WordList: words that begin another word were taken out of the list.
ASSUME WordlistAssumption ==
    /\ Wordlist \in Seq(Seq(Range(Letters))) /\ Wordlist # <<>>
    /\ \A i \in DOMAIN Wordlist : Wordlist[i] # <<>> /\ \A j \in DOMAIN Wordlist :
        IsPrefix(Wordlist[i], Wordlist[j]) => i = j
    /\ {"n", "b"} \union DOMAIN Multipliers \subseteq Range(Letters)
    /\ Genesis \in Nat

ASSUME LettersAssumption ==
    /\ Letters \in Seq(STRING) /\ Range(Letters) \intersect Range(Digits) = {}
    /\ \A i, j \in DOMAIN Letters : Letters[i] = Letters[j] => i = j

\* Nothing is no number, no ID, no query and no state of a parser.
ASSUME NothingAssumption ==
    /\ Nothing \notin Nat /\ Nothing \notin Nat \X Nat
    /\ Nothing \notin [name : Seq(STRING), block : Int, pos : Nat]
    /\ Nothing \notin [sum : Nat, num : Nat \union {Nothing}]

-----------------------------------------------------------------------------
(* The encoder. *)

Base == Len(Wordlist)
CycleSize == Base * Base

\* encodePosition: bijective, a digit is one of the letters.
EncodePosition(pos) ==
    LET write[n \in 0..pos] ==
            IF n = 0 THEN <<>>
            ELSE Append(write[(n - 1) \div Len(Letters)], Letters[((n - 1) % Len(Letters)) + 1])
    IN write[pos]

Decimal(number) ==
    LET write[n \in 0..number] ==
            IF n < 10 THEN <<Digits[n + 1]>> ELSE Append(write[n \div 10], Digits[(n % 10) + 1])
    IN write[number]

Encode(block, pos) ==
    LET inCycle == block % CycleSize IN
    <<"n">> \o Wordlist[(inCycle \div Base) + 1] \o Wordlist[(inCycle % Base) + 1]
        \o (IF block >= CycleSize THEN Decimal(block \div CycleSize) ELSE <<>>)
        \o EncodePosition(pos)

\* The number whose digits are given, the highest first.
Value(digits, base) ==
    LET sum[i \in 0..Len(digits)] == IF i = 0 THEN 0 ELSE base * sum[i - 1] + digits[i]
    IN sum[Len(digits)]

\* The digits at the start of s, and their value, Nothing if there are none.
LeadingDigits(s) ==
    CHOOSE i \in 0..Len(s) : /\ \A j \in 1..i : s[j] \in DOMAIN Digit
                             /\ i < Len(s) => s[i + 1] \notin DOMAIN Digit
Scan(s) ==
    IF LeadingDigits(s) = 0 THEN Nothing
    ELSE Value([i \in 1..LeadingDigits(s) |-> Digit[s[i]]], 10)

LetterNumber(c) == CHOOSE i \in DOMAIN Letters : Letters[i] = c

\* Mutant: only positions of one letter are read.
DecodeOneLetter(s) == IF Len(s) # 1 \/ ~ IsLetter(s[1]) THEN Nothing ELSE LetterNumber(s[1])

DecodePosition(s) ==
    IF s = <<>> \/ \E i \in DOMAIN s : ~ IsLetter(s[i]) THEN Nothing
    ELSE Value([i \in DOMAIN s |-> LetterNumber(s[i])], Len(Letters))

\* matchBIP39Word: the longest word that s begins with.
Matches(s) == {i \in DOMAIN Wordlist : IsPrefix(Wordlist[i], s)}
LongestMatch(s) ==
    CHOOSE i \in Matches(s) : \A j \in Matches(s) : Len(Wordlist[j]) <= Len(Wordlist[i])

From(s, i) == SubSeq(s, i, Len(s))
Rest(s, word) == From(s, Len(Wordlist[word]) + 1)

DecodeNumbers(first, second, s) ==
    LET cycle == Scan(s)
        pos == DecodePosition(From(s, LeadingDigits(s) + 1))
    IN IF pos = Nothing THEN Nothing
       ELSE <<(IF cycle = Nothing THEN 0 ELSE cycle) * CycleSize
                + (first - 1) * Base + (second - 1), pos>>

\* An ID, or Nothing if s is not the code of one.
Decode(s) ==
    IF Len(s) < 2 \/ s[1] # "n" \/ Matches(Tail(s)) = {} THEN Nothing
    ELSE LET first == LongestMatch(Tail(s))
             rest == Rest(Tail(s), first)
         IN IF Matches(rest) = {} THEN Nothing
            ELSE LET second == LongestMatch(rest)
                 IN DecodeNumbers(first, second, Rest(rest, second))

-----------------------------------------------------------------------------
(* Names in requests. *)

HasLetters(s) == \E i \in DOMAIN s : IsLetter(s[i])

StartsID(s) == s # <<>> /\ s[1] \in {"n", "b"}

\* parseBlockWithShorthand: numbers, each multiplied by the letter after it, are added.
ParseBlock(s) ==
    LET step(acc, c) ==
            IF acc = Nothing THEN Nothing
            ELSE IF c \in DOMAIN Digit
                 THEN [acc EXCEPT !.num = (IF @ = Nothing THEN 0 ELSE 10 * @) + Digit[c]]
            ELSE IF c \in DOMAIN Multipliers
                 THEN [sum |-> acc.sum + (IF acc.num = Nothing THEN 1 ELSE acc.num) * Multipliers[c],
                       num |-> Nothing]
            ELSE Nothing
        read[i \in 0..Len(s)] ==
            IF i = 0 THEN [sum |-> 0, num |-> Nothing] ELSE step(read[i - 1], s[i])
        end == read[Len(s)]
        total == end.sum + (IF end.num = Nothing THEN 0 ELSE end.num)
    IN IF end = Nothing THEN Nothing ELSE IF total = 0 THEN Nothing ELSE total

\* The DNN block that n<number> or b<number> stands for.
NumberedBlock(s) ==
    LET number == ParseBlock(Tail(s)) IN
    IF number = Nothing \/ s[1] = "n" THEN number ELSE number - Genesis

\* What GetAnchorByName is asked for: <<>> is no name, Nothing no block and no position.
Query(name, block, pos) == [name |-> name, block |-> block, pos |-> pos]

ByCode(name, s) == LET id == Decode(s) IN IF id = Nothing THEN Nothing ELSE Query(name, id[1], id[2])

\* s2 is the part with the position; position 1 where there is none.
ByNumber(name, s, s2) ==
    LET pos == Scan(s2) IN
    IF NumberedBlock(s) = Nothing THEN Nothing
    ELSE Query(name, NumberedBlock(s), IF pos = Nothing THEN 1 ELSE pos)

ParseOnePart(s) ==
    IF ~ StartsID(s) THEN Query(s, Nothing, Nothing)
    ELSE IF HasLetters(Tail(s)) THEN ByCode(<<>>, s)
    ELSE ByNumber(<<>>, s, <<>>)

\* name.id and name.id.position.
ParseNamed(parts) ==
    LET id == parts[2] IN
    IF ~ StartsID(id) THEN Nothing
    ELSE IF id[1] = "n" /\ HasLetters(Tail(id)) THEN ByCode(parts[1], id)
    ELSE IF Len(parts) # 3 THEN ByNumber(parts[1], id, <<>>)
    ELSE IF Scan(parts[3]) = Nothing THEN Nothing
    ELSE ByNumber(parts[1], id, parts[3])

\* parseDNNName: a query, or Nothing if the format is invalid.
ParseDNNName(parts) ==
    IF Len(parts) = 1 THEN ParseOnePart(parts[1])
    ELSE IF StartsID(parts[1]) THEN ByNumber(<<>>, parts[1], parts[2])
    ELSE ParseNamed(parts)

\* isBlockSpec
IsBlockSpec(s) ==
    Len(s) >= 2 /\ StartsID(s) /\ s[2] \in DOMAIN Digit \union {"m", "h", "k"}

\* handleResolve: domain.name[.blockspec], which asks for a key of the connection event.
HasSubdomain(parts) ==
    /\ Len(parts) >= 2 /\ parts[1] # <<>> /\ Tail(parts) # << <<>> >>
    /\ ~ IsBlockSpec(parts[1]) /\ ~ IsBlockSpec(parts[2])

\* The DNS server: the last part is the ID, what is before it the domain.
IsDNNName(parts) ==
    LET looksLikeID(s) == Len(s) > 1 /\ s[1] = "n" /\ HasLetters(Tail(s)) IN
    looksLikeID(Last(parts)) \/ looksLikeID(FlattenSeq(parts))

-----------------------------------------------------------------------------
(* The texts by which the node itself calls a DNN ID (handleLookupByNpub:  *)
(* "encoded", and the name with "format"), and the one in the number of   *)
(* the Bitcoin block, which its parser reads too.                          *)

Encoded(id) == <<Encode(id[1], id[2])>>
Numeric(id) == << <<"n">> \o Decimal(id[1]), Decimal(id[2]) >>
NumericBitcoin(id) == << <<"b">> \o Decimal(Genesis + id[1]), Decimal(id[2]) >>

\* The numbers that the parser accepts: zero is no valid number of a block.
Numerics(id) ==
    (IF id[1] > 0 THEN {Numeric(id)} ELSE {})
    \union (IF Genesis + id[1] > 0 THEN {NumericBitcoin(id)} ELSE {})

\* A text of the ID, or the text after a name that is not read as an ID.
IsCalled(parts, text) ==
    \/ parts = text
    \/ parts = <<parts[1]>> \o text /\ parts[1] \in Seq(STRING) /\ ~ StartsID(parts[1])
=============================================================================
