----------------------------- MODULE TapiVersion -----------------------------
(***************************************************************************)
(* parseVersion32 of tapilite (LinkerInterfaceFile.cpp) and the packed    *)
(* version it produces.                                                    *)
(*                                                                         *)
(* A version string is abstracted to its '.'-separated fields: a sequence *)
(* of natural numbers, with Empty for an empty field and NoDigits for a  *)
(* field of text that does not start with a digit.  "10.14" is           *)
(* << 10, 14 >>, "1..2" is << 1, Empty, 2 >>, "1." is << 1, Empty >>,     *)
(* "1.2.x" is << 1, 2, NoDigits >> and the empty string is << Empty >>.   *)
(* std::stoull reads the leading                                           *)
(* digits of the remaining text and throws std::invalid_argument when     *)
(* there are none; Throw stands for that exception.                        *)
(***************************************************************************)
EXTENDS Integers, Sequences

Empty == -1
NoDigits == -2

\* stoull finds no digits at the start of the field's text
NoNumber(f) == f \in {Empty, NoDigits}

UINT8_MAX  == 2^8 - 1
UINT16_MAX == 2^16 - 1

(***************************************************************************)
(* PackedVersion32(major, minor, patch) of the TAPI headers: major in the *)
(* upper 16 bits, minor and patch in a byte each.  The uint32_t is held   *)
(* as its three fields (2^16 * 65535 is beyond TLC's integers); every     *)
(* write into it is range-checked first, so the fields never overlap and *)
(* |= sets one field.  getMajor and getMinor read the fields back.        *)
(***************************************************************************)
PackedVersion32(major, minor, patch) == << major, minor, patch >>
getMajor(v) == v[1]
getMinor(v) == v[2]

\* the value 0
Zero == PackedVersion32(0, 0, 0)

\* stands for std::invalid_argument thrown out of std::stoull
Throw == << -1, -1, -1 >>

\* version |= num << shift, for the field at index i (1 major .. 3 patch)
OrField(version, i, num) == [version EXCEPT ![i] = num]

\* the text is the empty string
StrEmpty(s) == s = << Empty >>

\* mutant: the field bound tested with >= instead of >
FieldTooBigAtMax(num, max) == num >= max

\* the range checks "if (num > UINT8_MAX) return 0" and its UINT16 twin
FieldTooBig(num, max) == num > max

(***************************************************************************)
(* The last step: the remaining text s, if not empty, is read by stoull   *)
(* and ORed in as the low byte.                                            *)
(***************************************************************************)
OrPatch(version, s) ==
    IF StrEmpty(s) THEN version
    ELSE IF NoNumber(s[1]) THEN Throw
    ELSE IF FieldTooBig(s[1], UINT8_MAX) THEN Zero
    ELSE OrField(version, 3, s[1])

(***************************************************************************)
(* parseVersion32(str).  The first field is the major number; a text with *)
(* no '.' is 0.  After it, the middle field is taken as the minor number  *)
(* only when another '.' follows; whatever remains is read as the patch.  *)
(***************************************************************************)
parseVersion32(str) ==
    IF StrEmpty(str) \/ Len(str) = 1 THEN Zero
    ELSE IF NoNumber(str[1]) THEN Throw
    ELSE IF FieldTooBig(str[1], UINT16_MAX) THEN Zero
    ELSE LET version == OrField(Zero, 1, str[1])
             rest    == Tail(str)
         IN  IF Len(rest) > 1
             THEN IF NoNumber(rest[1]) THEN Throw
                  ELSE IF FieldTooBig(rest[1], UINT8_MAX) THEN Zero
                  ELSE OrPatch(OrField(version, 2, rest[1]), Tail(rest))
             ELSE OrPatch(version, rest)

=============================================================================
