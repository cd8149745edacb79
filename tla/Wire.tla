-------------------------------- MODULE Wire --------------------------------
(***************************************************************************)
(* How values become bytes of Protocol A and come back: the packages       *)
(* hollerith, utils and types.  A line is a sequence of characters.        *)
(*                                                                         *)
(* Replies counts what a reader takes from a stream; here a reader also    *)
(* returns a value.  It takes the line s and the position p of its first   *)
(* character, and gives [v |-> the value, next |-> the position past it].  *)
(* Reading past the end of the line gives next > Len(s) + 1.               *)
(***************************************************************************)
EXTENDS Naturals, Sequences

CONSTANTS
  Word,      \* how many values a uint32 has: 2^32 in the code
  ConfWord,  \* how many values a types.ConfNo has: 2^16 in the code
  ByteWord   \* how many values a byte has: 2^8 in the code

ASSUME WireAssumption == Word \in Nat \ {0} /\ ConfWord \in Nat \ {0} /\ ByteWord \in Nat \ {0}

-----------------------------------------------------------------------------
(***************************************************************************)
(* Writing.                                                                *)
(***************************************************************************)
Digits == <<"0", "1", "2", "3", "4", "5", "6", "7", "8", "9">>
DigitChars == {Digits[i] : i \in DOMAIN Digits}
DigitValue(c) == (CHOOSE i \in DOMAIN Digits : Digits[i] = c) - 1

\* %d
Decimal[n \in Nat] ==
  IF n < 10 THEN <<Digits[n + 1]>> ELSE Append(Decimal[n \div 10], Digits[(n % 10) + 1])

Bit(b) == IF b THEN "1" ELSE "0"

\* The words of a line, with a blank between them.
Spaced(words) ==
  LET line[i \in 0..Len(words)] ==
        CASE i = 0 -> <<>>
          [] i = 1 -> words[1]
          [] OTHER -> line[i - 1] \o <<" ">> \o words[i]
  IN  line[Len(words)]

Numbers(ns) == Spaced([i \in DOMAIN ns |-> Decimal[ns[i]]])

\* Mutant: the length counts one character too few.
SprintShort(text) == Decimal[IF text = <<>> THEN 0 ELSE Len(text) - 1] \o <<"H">> \o text

\* hollerith.Sprint
Sprint(text) == Decimal[Len(text)] \o <<"H">> \o text

\* TextNoArray and UInt32Array: a count and the elements in braces.
ArrayOf(ns) ==
  LET words == [i \in DOMAIN ns |-> Decimal[ns[i]]]
  IN  Spaced(<< Decimal[Len(ns)], <<"{">> >> \o words \o << <<"}">> >>)

\* The flags, in the order of their bits.
PrivFlags ==
  <<"Wheel", "Admin", "Statistic", "CreatePersons", "CreateConferences", "ChangeName">>
ConfFlags == <<"RdProt", "Original", "Secret", "LetterBox">>
ExtendedFlags ==
  ConfFlags \o <<"AllowAnonymous", "ForbidSecret", "Reserved2", "Reserved3">>

\* A set of flags as n bits, one a flag of the list, and zeros.
BitsOf(flags, list, n) == [i \in 1..n |-> Bit(i <= Len(list) /\ list[i] \in flags)]

\* PrivBits.Repr and ExtendedConfType.Repr
PrivRepr(flags) == BitsOf(flags, PrivFlags, 16)
ExtendedRepr(flags) == BitsOf(flags, ExtendedFlags, 8)

\* BitField of a ConfType and of an ExtendedConfType, which leaves the reserved bits out.
ConfBitField(flags) == BitsOf(flags, ConfFlags, 4)
ExtendedBitField(flags) == BitsOf(flags, SubSeq(ExtendedFlags, 1, 6), 8)

\* StringTime: second, minute, hour, day, month, year, weekday, day of the year, DST.
StringTime(when) ==
  Numbers([when EXCEPT ![5] = @ - 1, ![6] = @ - 1900, ![8] = @ - 1])

-----------------------------------------------------------------------------
(***************************************************************************)
(* Reading from a stream.                                                  *)
(***************************************************************************)
Value(v, next) == [v |-> v, next |-> next]
At(s, p, chars) == p \in DOMAIN s /\ s[p] \in chars

\* The first position from p on whose character is in chars, or past the end.
Find(s, p, chars) ==
  LET found == {q \in p..Len(s) : s[q] \in chars}
  IN  IF found = {} THEN Len(s) + 1 ELSE CHOOSE q \in found : \A r \in found : q <= r

\* The first position from p on whose character is not in chars, or past the end.
SkipOver(s, p, chars) ==
  LET other == {q \in p..Len(s) : s[q] \notin chars}
  IN  IF other = {} THEN Len(s) + 1 ELSE CHOOSE q \in other : \A r \in other : q <= r

\* The number the digits of s say, in an unsigned type of the given width; whatever is
\* no digit does not count.
Unsigned(s, width) ==
  LET read[i \in 0..Len(s)] ==
        CASE i = 0 -> 0
          [] i > 0 /\ s[i] \in DigitChars -> (10 * read[i - 1] + DigitValue(s[i])) % width
          [] OTHER -> read[i - 1]
  IN  read[Len(s)]

\* readUInt32: the digits and the character after them.
ReadUInt32(s, p) ==
  LET end == SkipOver(s, p, DigitChars) IN Value(Unsigned(SubSeq(s, p, end - 1), Word), end + 1)

\* hollerith.Scan: blanks and digits up to the H, then as many characters as they say.
\* ok is FALSE where Scan returns an error.
Scan(s, p) ==
  LET h   == SkipOver(s, p, DigitChars \cup {" "})
      len == Unsigned(SubSeq(s, p, h - 1), Word)
      ok  == At(s, h, {"H"}) /\ h + len <= Len(s)
  IN  [v |-> IF ok THEN SubSeq(s, h + 1, h + len) ELSE <<>>, next |-> h + len + 1, ok |-> ok]

\* Fscanf("%0nb") into a number whose set bits are flags: blanks, then at most n bits,
\* the last of which is the lowest.
ReadFlags(s, p, list, n) ==
  LET from == SkipOver(s, p, {" "})
      run  == SkipOver(s, from, {"0", "1"})
      end  == IF run > from + n THEN from + n ELSE run
  IN  Value({list[i] : i \in {j \in DOMAIN list : j > n - (end - from)
                                               /\ s[end - 1 - n + j] = "1"}}, end)

ReadPrivBits(s, p) == ReadFlags(s, p, PrivFlags, 16)
ReadExtendedConfType(s, p) == ReadFlags(s, p, ExtendedFlags, 8)

\* readDelimitedList('{', '}'): what was read up to the first brace that closes, even
\* inside a string; nothing if the first character is no brace.
ReadDelimitedList(s, p) ==
  LET end == Find(s, p + 1, {"}"})
  IN  IF At(s, p, {"{"})
      THEN [v |-> SubSeq(s, p, end), next |-> end + 1, ok |-> end <= Len(s)]
      ELSE [v |-> <<>>, next |-> p + 1, ok |-> FALSE]

-----------------------------------------------------------------------------
(***************************************************************************)
(* Reading from a string that is in memory: an index that runs off its end *)
(* panics.                                                                 *)
(***************************************************************************)

\* strings.Split(s, " ")
Split(s) ==
  LET words[i \in 0..Len(s)] ==
        CASE i = 0 -> << <<>> >>
          [] i > 0 /\ s[i] = " " -> Append(words[i - 1], <<>>)
          [] OTHER -> [words[i - 1] EXCEPT ![Len(words[i - 1])] = Append(@, s[i])]
  IN  words[Len(s)]

\* strconv.Atoi takes digits only (no sign comes from the server).
IsNumber(word) == word # <<>> /\ \A i \in DOMAIN word : word[i] \in DigitChars
Atoi(word) == Unsigned(word, Word)

\* hollerith.FromString: digits count wherever they are before the H.
FromString(s, p) ==
  LET h   == Find(s, p, {"H"})
      len == Unsigned(SubSeq(s, p, h - 1), Word)
  IN  [v |-> SubSeq(s, h + 1, h + len), next |-> h + len + 1,
       panics |-> h > Len(s) \/ h + len > Len(s)]

\* ReadUInt32FromString skips to the first digit and stops at the character after the last.
ReadUInt32FromString(s, p) ==
  LET from == Find(s, p, DigitChars)
      end  == SkipOver(s, from, DigitChars)
  IN  Value(Unsigned(SubSeq(s, from, end - 1), Word), end)

\* ParseConfType
ParseConfType(s, p) == {ConfFlags[i] : i \in {j \in DOMAIN ConfFlags : s[p + j - 1] = "1"}}
=============================================================================
