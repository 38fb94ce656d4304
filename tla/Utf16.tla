-------------------------------- MODULE Utf16 --------------------------------
(***************************************************************************)
(* The strings of a document as the C++ parser hands them out: UTF-16 code *)
(* units converted to UTF-8, plainly or as a JSON string, by way of a      *)
(* decoding buffer that the parser keeps and enlarges.  Its size is asked  *)
(* for before the text is looked at.                                       *)
(*                                                                         *)
(* A text is a sequence of code units, its conversion a sequence of bytes. *)
(***************************************************************************)
EXTENDS Integers, Sequences

CONSTANT Texts  \* the strings of the document

Units == 0..65535

ASSUME TextsAssumption == Texts \subseteq Seq(Units)

VARIABLES
  decodingBufferSize,
  text, json,  \* the text converted last, and whether as a JSON string
  room,        \* the size of the buffer that was used
  utf8         \* the bytes put into it, before a terminating 0

texts == <<decodingBufferSize, text, json, room, utf8>>

-----------------------------------------------------------------------------
isHighSurrogate(ch) == ch \in 55296..56319
isLowSurrogate(ch) == ch \in 56320..57343
toCodePoint(high, low) == (high - 55296) * 1024 + (low - 56320) + 65536

(* The six bits of a continuation byte. *)
Trail(codePoint, weight) == 128 + ((codePoint \div weight) % 64)

(* Code points of UTF-16 need no more than four bytes.                     *)
Utf8(codePoint) ==
  IF codePoint <= 127 THEN <<codePoint>>
  ELSE IF codePoint <= 2047
  THEN <<192 + codePoint \div 64, Trail(codePoint, 1)>>
  ELSE IF codePoint <= 65535
  THEN <<224 + codePoint \div 4096, Trail(codePoint, 64), Trail(codePoint, 1)>>
  ELSE <<240 + codePoint \div 262144, Trail(codePoint, 4096),
         Trail(codePoint, 64), Trail(codePoint, 1)>>

Quote == 34
Backslash == 92

(* What follows the backslash for a control character that has a letter.   *)
Letter == [ch \in {8, 9, 10, 12, 13} |->
            CASE ch = 8 -> 98 [] ch = 9 -> 116 [] ch = 10 -> 110
              [] ch = 12 -> 102 [] ch = 13 -> 114]

(* A unit inside a JSON string.  Other control characters go out as is.    *)
Quoted(ch) ==
  IF ch \in {Quote, Backslash} THEN <<Backslash, ch>>
  ELSE IF ch \in DOMAIN Letter THEN <<Backslash, Letter[ch]>>
  ELSE Utf8(ch)

(* Mutant: the unit after a high surrogate is always its other half.       *)
PairUnchecked(txt, i) == isHighSurrogate(txt[i]) /\ i < Len(txt)

(* Two units of one character begin here. *)
Pair(txt, i) ==
  isHighSurrogate(txt[i]) /\ i < Len(txt) /\ isLowSurrogate(txt[i + 1])

(* A loop that goes over a sequence and appends to another. *)
States == [at : Nat \ {0}, out : Seq(Nat)]

Begin(at) == [at |-> at, out |-> <<>>]

(* The state after n rounds. *)
Loop(begin, round) ==
  LET run[n \in Nat] == IF n = 0 THEN begin ELSE round[run[n - 1]]
  IN  run

(* A round of the loop both conversions share. *)
ConvertRound(txt, quote) ==
  [s \in States |->
     LET i == s.at
     IN  IF i > Len(txt) THEN s
         ELSE IF Pair(txt, i)
         THEN [at |-> i + 2, out |-> s.out \o Utf8(toCodePoint(txt[i], txt[i + 1]))]
         ELSE [at |-> i + 1,
               out |-> s.out \o (IF quote THEN Quoted(txt[i]) ELSE Utf8(txt[i]))]]

Convert(txt, quote) == Loop(Begin(1), ConvertRound(txt, quote))[Len(txt)].out

utf16_convert_to_utf8_cstr(txt) == Convert(txt, FALSE)

(* Mutant: a quote in the text is not escaped.                             *)
QuoteBare(txt) == <<Quote>> \o Convert(txt, FALSE) \o <<Quote>>

utf16_convert_to_utf8_quote_cstr(txt) ==
  <<Quote>> \o Convert(txt, TRUE) \o <<Quote>>

-----------------------------------------------------------------------------
(* Mutant: the length of the text counts bytes.                            *)
AskBytes(txt) == 2 * Len(txt)

(* The size asked for: twice the number of bytes of the UTF-16 text. *)
Ask(txt) == 2 * (2 * Len(txt))

requireDecodingBuffer(length) ==
  IF decodingBufferSize <= 0 \/ decodingBufferSize < length
  THEN length ELSE decodingBufferSize

Converted(txt, asJson, size) ==
  /\ text' = txt
  /\ json' = asJson
  /\ room' = size
  /\ utf8' = IF asJson THEN utf16_convert_to_utf8_quote_cstr(txt)
                       ELSE utf16_convert_to_utf8_cstr(txt)

(* nextMapKeyUTF8, nextStringUTF8 and nextNumber (plain), toJSONtring.     *)
Decode ==
  \E txt \in Texts, asJson \in BOOLEAN :
    /\ decodingBufferSize' = requireDecodingBuffer(Ask(txt))
    /\ Converted(txt, asJson, decodingBufferSize')

(* The conversions without a buffer allocate one for the occasion. *)
DecodeApart ==
  \E txt \in Texts, asJson \in BOOLEAN :
    /\ Converted(txt, asJson, 4 * Len(txt) + 4)
    /\ UNCHANGED decodingBufferSize

(* wson16ToString of the runtime bridge, which is given a length in bytes. *)
RuntimeDecode ==
  \E txt \in Texts :
    /\ Converted(txt, FALSE, 2 * (2 * Len(txt)))
    /\ UNCHANGED decodingBufferSize

DecodingInit ==
  /\ decodingBufferSize = 0
  /\ text = <<>> /\ json = FALSE
  /\ room = 1 /\ utf8 = <<>>

DecodingNext == Decode \/ DecodeApart \/ RuntimeDecode

DecodingSpec == DecodingInit /\ [][DecodingNext]_texts

-----------------------------------------------------------------------------
(* Properties.                                                             *)

(* The characters of a text: the second half of a pair counts with the     *)
(* first, a surrogate that is alone for itself.                            *)
Second(txt, i) == i > 1 /\ isHighSurrogate(txt[i - 1]) /\ isLowSurrogate(txt[i])

CodePointAt(txt, i) ==
  IF i < Len(txt) /\ Second(txt, i + 1)
  THEN toCodePoint(txt[i], txt[i + 1]) ELSE txt[i]

CodePointRound(txt) ==
  [s \in States |->
     LET i == s.at
     IN  IF i > Len(txt) THEN s
         ELSE [at |-> i + 1,
               out |-> IF Second(txt, i) THEN s.out
                                         ELSE Append(s.out, CodePointAt(txt, i))]]

CodePoints(txt) == Loop(Begin(1), CodePointRound(txt))[Len(txt)].out

(* The bytes of a C string, which a 0 ends. *)
ByteAt(bts, i) == IF i \in 1..Len(bts) THEN bts[i] ELSE 0

(* A UTF-8 reader: the leading byte tells the number of bytes. *)
Utf8Size(lead) ==
  IF lead < 128 THEN 1 ELSE IF lead < 224 THEN 2 ELSE IF lead < 240 THEN 3 ELSE 4

ReadCodePoint(bts, i) ==
  LET lead == ByteAt(bts, i)
      low(k) == ByteAt(bts, i + k) % 64
  IN  CASE Utf8Size(lead) = 1 -> lead
        [] Utf8Size(lead) = 2 -> (lead % 32) * 64 + low(1)
        [] Utf8Size(lead) = 3 -> (lead % 16) * 4096 + low(1) * 64 + low(2)
        [] Utf8Size(lead) = 4 ->
             (lead % 8) * 262144 + low(1) * 4096 + low(2) * 64 + low(3)

ReadRound(bts) ==
  [s \in States |->
     IF s.at > Len(bts) THEN s
     ELSE [at |-> s.at + Utf8Size(ByteAt(bts, s.at)),
           out |-> Append(s.out, ReadCodePoint(bts, s.at))]]

ReadUtf8(bts) == Loop(Begin(1), ReadRound(bts))[Len(bts)].out

(* A JSON string reader: the bytes up to the quote that is not escaped.    *)
Unescaped(ch) ==
  IF \E c \in DOMAIN Letter : Letter[c] = ch
  THEN CHOOSE c \in DOMAIN Letter : Letter[c] = ch ELSE ch

UnquoteRound(bts) ==
  [s \in States |->
     LET ch == ByteAt(bts, s.at)
     IN  IF s.at > Len(bts) \/ ch = Quote THEN s
         ELSE IF ch = Backslash
         THEN [at |-> s.at + 2, out |-> Append(s.out, Unescaped(ByteAt(bts, s.at + 1)))]
         ELSE [at |-> s.at + 1, out |-> Append(s.out, ch)]]

Unquote(bts) == Loop(Begin(2), UnquoteRound(bts))[Len(bts)].out

(* A UTF-8 reader gets from a conversion the characters of the text, pairs *)
(* and surrogates that stand alone included (wson_util.cpp).               *)
TextReadsBack ==
  ~json => ReadUtf8(utf8) = CodePoints(text)

(* A JSON reader gets from toJSONtring the text that nextStringUTF8 gives: *)
(* nothing in it ends the string early or is taken for an escape.          *)
TextUnquotesBack ==
  json => Unquote(utf8) = utf16_convert_to_utf8_cstr(text)

(* The buffer was sized from the length alone and holds the conversion and *)
(* its terminator, for every text of three units or more, every plain one  *)
(* that is not empty, and, once the buffer has 9 bytes, every text.        *)
TextFits ==
  \/ Len(utf8) + 1 <= room
  \/ room < 9 /\ Len(text) < (IF json THEN 3 ELSE 1)
=============================================================================
