----------------------------- MODULE JsonReader -----------------------------
(***************************************************************************)
(* A strict reader of JSON, as the Python tools have in their library: it  *)
(* takes a text token by token and yields the facts in it, a fact being a  *)
(* path of keys and positions and the scalar there; or it refuses.         *)
(*                                                                         *)
(* Tokens: <<"object">>, <<"endObject">>, <<"array">>, <<"endArray">> and  *)
(* <<"comma">> for the structure, <<"key", k>> for a key and its colon,    *)
(* <<"literal", b>> for true and false, <<"digit", d>>; and between quotes *)
(* <<"char", c>>, <<"hex", v>> for the digits of v, and <<"digit", d>>.    *)
(* White space is no token.                                                *)
(***************************************************************************)
EXTENDS Naturals, Sequences, SequencesExt

Top(s) == s[Len(s)]

\* What the reader keeps: where it is in the grammar, the open objects and
\* arrays, the path to the value expected, the scalar being read, the facts.
Reader0 == [at |-> "value", open |-> <<>>, path |-> <<>>, scalar |-> <<>>, facts |-> {}]

Refused == [Reader0 EXCEPT !.at = "refused"]

\* After a value the reader is behind it in its container, or at the end.
Behind(r) == [r EXCEPT !.at = IF r.open = <<>> THEN "end" ELSE "behind", !.scalar = <<>>]

Take(r, value) == Behind([r EXCEPT !.facts = @ \cup {<<r.path, value>>}])

Number(digits) ==
    LET value[n \in 0 .. Len(digits)] ==
            IF n = 0 THEN 0 ELSE 10 * value[n - 1] + digits[n][2]
    IN  value[Len(digits)]

\* A number ends where something else begins; a second digit after a leading
\* zero was refused already.
EndNumber(r) == IF r.at = "number" THEN Take(r, <<"number", Number(r.scalar)>>) ELSE r

Enter(r, container) ==
    IF container = "object" THEN [r EXCEPT !.at = "firstKey", !.open = Append(@, "object")]
    ELSE [r EXCEPT !.at = "firstItem", !.open = Append(@, "array"), !.path = Append(@, 1)]

\* Leaving an object the path ends in its last key, unless it has none.
Leave(r) ==
    Behind([r EXCEPT !.open = Front(@), !.path = IF r.at = "firstKey" THEN @ ELSE Front(@)])

InString(r, token) ==
    CASE token[1] = "quote"                    -> Take(r, <<"string", r.scalar>>)
      [] token[1] = "backslash"                -> [r EXCEPT !.at = "escape"]
      [] token[1] \in {"char", "hex", "digit"} -> [r EXCEPT !.scalar = Append(@, token)]
      [] OTHER                                 -> Refused

InEscape(r, token) ==
    IF token[1] \in {"quote", "backslash"}
    THEN [r EXCEPT !.at = "string", !.scalar = Append(@, token)] ELSE Refused

AtValue(r, token) ==
    CASE token[1] \in {"object", "array"}            -> Enter(r, token[1])
      [] token[1] = "literal"                        -> Take(r, token)
      [] token[1] = "digit"                          -> [r EXCEPT !.at = "number", !.scalar = <<token>>]
      [] token[1] = "quote"                          -> [r EXCEPT !.at = "string", !.scalar = <<>>]
      [] token[1] = "endArray" /\ r.at = "firstItem" -> Leave(r)
      [] OTHER                                       -> Refused

AtKey(r, token) ==
    CASE token[1] = "key"                            -> [r EXCEPT !.at = "value", !.path = Append(@, token[2])]
      [] token[1] = "endObject" /\ r.at = "firstKey" -> Leave(r)
      [] OTHER                                       -> Refused

BehindValue(r, token) ==
    CASE token[1] = "endObject" /\ Top(r.open) = "object" -> Leave(r)
      [] token[1] = "endArray" /\ Top(r.open) = "array"   -> Leave(r)
      [] token[1] = "comma" /\ Top(r.open) = "object"     -> [r EXCEPT !.at = "key", !.path = Front(@)]
      [] token[1] = "comma" /\ Top(r.open) = "array"      ->
            [r EXCEPT !.at = "value", !.path = Append(Front(@), Top(@) + 1)]
      [] OTHER                                            -> Refused

Continue(r, token) ==
    CASE r.at \in {"value", "firstItem"} -> AtValue(r, token)
      [] r.at \in {"key", "firstKey"}    -> AtKey(r, token)
      [] r.at = "behind"                 -> BehindValue(r, token)
      [] r.at = "string"                 -> InString(r, token)
      [] r.at = "escape"                 -> InEscape(r, token)
      [] OTHER                           -> Refused

\* The reader r after one more token.
Read(r, token) ==
    IF r.at = "number" /\ token[1] = "digit"
    THEN IF r.scalar = <<<<"digit", 0>>>> THEN Refused
         ELSE [r EXCEPT !.scalar = Append(@, token)]
    ELSE Continue(EndNumber(r), token)
=============================================================================
