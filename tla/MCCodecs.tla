------------------------------ MODULE MCCodecs ------------------------------
(* Model-checking instance of Codecs: the characters that mean something   *)
(* in a form or a header, a digit, a letter and the last byte.             *)
EXTENDS Codecs

MCChar == {37, 38, 61, 43, 58, 32, 52, 97, 255}
MCLength == {0, 1, 125, 126, 127, 255, 256, 65535, 65536, 16777216}
=============================================================================
