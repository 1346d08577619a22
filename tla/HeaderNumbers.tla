----------------------------- MODULE HeaderNumbers -----------------------------
(***************************************************************************)
(* Numbers in header fields: to_chars of create.c writes them, from_header *)
(* of list.c reads them.  A field is a sequence of characters, which are   *)
(* numbers.                                                                *)
(*                                                                         *)
(* Not modelled: substitutes for owners, two's complement octal (a value   *)
(* that does not fit base 256 is wider than its type here), base 64, and   *)
(* the blanks older tars write.                                            *)
(***************************************************************************)
EXTENDS Integers, Sequences, SequencesExt, FiniteSetsExt

CONSTANTS
  LG_8, LG_256,    \* bits in an octal digit and in a character
  FieldSize,       \* characters in a field
  OffMax           \* TYPE_MAXIMUM (off_t)

ASSUME FieldAssumption ==
  LG_8 \in Nat \ {0} /\ LG_256 \in Nat \ {0, 1} /\ FieldSize \in Nat \ {0, 1} /\ OffMax \in Nat

NUL == 0
Digit0 == 2 ^ LG_8                        \* '0': no digit is NUL or has the leading bit
Positive == 2 ^ (LG_256 - 1)              \* '\200'
Negative == 2 ^ LG_256 - 1                \* '\377'

MaxValWithDigits(digits, bits) == 2 ^ (digits * bits) - 1

(* The size low-order digits of v in base 2^bits; \div and % make two's    *)
(* complement of a negative v.                                             *)
Digits(v, size, bits) == [k \in 1 .. size |-> (v \div 2 ^ (bits * (size - k))) % 2 ^ bits]

ToOctal(v) == [k \in 1 .. FieldSize |->
  IF k = FieldSize THEN NUL ELSE Digit0 + Digits(v, FieldSize - 1, LG_8)[k]]

ToBase256(v) ==
  <<IF v < 0 THEN Negative ELSE Positive>> \o Digits(v, FieldSize - 1, LG_256)

Blank == [k \in 1 .. FieldSize |-> NUL]

(* to_chars over what the field held before; gnu: are GNU extensions       *)
(* allowed?                                                                *)
FitsOctal(v) == v <= MaxValWithDigits(FieldSize - 1, LG_8)

FitsBase256(v) ==
  (IF v < 0 THEN -1 - v ELSE v) <= MaxValWithDigits(FieldSize - 1, LG_256)

ToChars(v, gnu, before) ==
  IF v >= 0 /\ FitsOctal(v) THEN ToOctal(v)
  ELSE IF gnu /\ FitsBase256(v) THEN ToBase256(v) ELSE before

CanWrite(v, gnu) == (v >= 0 /\ FitsOctal(v)) \/ (gnu /\ FitsBase256(v))

-----------------------------------------------------------------------------
IsOctalDigit(c) == c \in Digit0 .. Digit0 + 2 ^ LG_8 - 1

(* The number that the characters first .. last of a field are in base     *)
(* 2^bits, each less the given offset.                                     *)
Number(field, first, last, bits, offset) ==
  LET value[k \in first - 1 .. last] ==
        IF k < first THEN 0 ELSE value[k - 1] * 2 ^ bits + (field[k] - offset)
  IN value[last]

(* The character after the octal digits that start at character k.         *)
EndOfDigits(field, k) ==
  Min({j \in k .. Len(field) + 1 :
         j > Len(field) \/ ~ IsOctalDigit(IF j > Len(field) THEN NUL ELSE field[j])})

(* from_header for a number between 0 and maxval, or between -minus_minval *)
(* and maxval; -1 is also what an error returns, and a field of NULs is 0.  *)
FromHeader(field, minus_minval, maxval) ==
  LET start == IF field[1] = NUL THEN 2 ELSE 1
      end == EndOfDigits(field, start)
      octal == Number(field, start, end - 1, LG_8, Digit0)
      rest == Number(field, 2, Len(field), LG_256, 0)
      binary == IF field[1] = Negative THEN rest - 2 ^ (LG_256 * (Len(field) - 1)) ELSE rest
      InRange(v) == -minus_minval <= v /\ v <= maxval
  IN CASE IsOctalDigit(field[start]) ->
            IF (end <= Len(field) => field[end] = NUL) /\ InRange(octal) THEN octal ELSE -1
       [] field[start] \in {Positive, Negative} -> IF InRange(binary) THEN binary ELSE -1
       [] field[start] = NUL -> 0
       [] OTHER -> -1

OffFromHeader(field) == FromHeader(field, 0, OffMax)
==============================================================================
