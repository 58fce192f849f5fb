------------------------------ MODULE Decoding ------------------------------
(***************************************************************************)
(* The bytes of a file and the text the engine reads in them:              *)
(* SourceText::from_bytes drops a leading byte-order mark and puts U+FFFD  *)
(* in the place of each sequence that is not UTF-8.                        *)
(*                                                                         *)
(* Bytes and texts are both sequences of tokens; one malformed sequence is *)
(* one token, and so is what replaces it.                                  *)
(***************************************************************************)
EXTENDS Naturals, Sequences

CONSTANTS
    Bom,         \* the byte-order mark
    Malformed,   \* a sequence of bytes that is not UTF-8
    Replacement  \* U+FFFD

ASSUME DecodingAssumption == Bom # Malformed /\ Replacement \notin {Bom, Malformed}

HadBom(bytes) == Len(bytes) > 0 /\ bytes[1] = Bom
Mark(bytes) == IF HadBom(bytes) THEN <<Bom>> ELSE << >>
Content(bytes) == IF HadBom(bytes) THEN Tail(bytes) ELSE bytes

DecodeLossy(content) ==
    [i \in DOMAIN content |-> IF content[i] = Malformed THEN Replacement ELSE content[i]]

FromBytes(bytes) == DecodeLossy(Content(bytes))

\* The text is the bytes, token for token.
IsPristine(bytes) == ~HadBom(bytes) /\ \A i \in DOMAIN bytes : bytes[i] # Malformed
=============================================================================
