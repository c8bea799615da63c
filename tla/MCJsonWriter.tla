---------------------------- MODULE MCJsonWriter ----------------------------
(***************************************************************************)
(* A small instance of JsonWriter: a buffer of five bytes and documents of *)
(* up to seven, so that a document may be shorter than the buffer, fill it *)
(* exactly, be clipped in the middle of a piece, or meet a full buffer.    *)
(***************************************************************************)
EXTENDS JsonWriter

MCTexts == {<<>>, <<"a">>, <<"b">>, <<"a", "b">>, <<"b", "a", "a">>}
=============================================================================
