---------------------------- MODULE JsonBuilder ----------------------------
(***************************************************************************)
(* The JSON builder. A call prints at offset and adds to offset what it    *)
(* wanted to print, so the buffer holds as much of the document as fits,   *)
(* until offset has passed its end. A document is the sequence of its      *)
(* tokens, each with its width.                                            *)
(***************************************************************************)
EXTENDS Integers, Sequences, FiniteSetsExt

CONSTANT JSON_BUF_SIZE   \* size of jb->buf

-----------------------------------------------------------------------------
Token(text, width) == [text |-> text, width |-> width]
Mark(c) == Token(<<c>>, 1)

(* kept: how much of the document is in the buffer; stray: whether a call  *)
(* printed outside of it.                                                  *)
json_init ==
  [doc |-> <<>>, offset |-> 0, is_first |-> TRUE, kept |-> 0, stray |-> FALSE]

(* snprintf(buf + offset, JSON_BUF_SIZE - offset, ...): one character of   *)
(* the room is for the terminator; negative room is a huge size_t.         *)
Printed(b, token) ==
  [b EXCEPT !.doc = Append(@, token),
            !.offset = @ + token.width,
            !.kept = IF b.offset < JSON_BUF_SIZE
                     THEN Min({b.offset + token.width, JSON_BUF_SIZE - 1}) ELSE @,
            !.stray = @ \/ b.offset > JSON_BUF_SIZE]

add_comma_if_needed(b) ==
  IF b.is_first THEN [b EXCEPT !.is_first = FALSE] ELSE Printed(b, Mark(","))

(* Mutant: the object is not marked as having no member yet.               *)
start_objectGoesOn(b) == Printed(b, Mark("{"))

start_object(b) == [Printed(b, Mark("{")) EXCEPT !.is_first = TRUE]
end_object(b)   == Printed(b, Mark("}"))
end_array(b)    == [Printed(b, Mark("]")) EXCEPT !.is_first = FALSE]
start_array(b, key) ==
  [Printed(add_comma_if_needed(b), Token(<<key, "[">>, 1)) EXCEPT !.is_first = TRUE]

(* json_add_string, json_add_float and their like.                         *)
add(b, key, value, width) == Printed(add_comma_if_needed(b), Token(<<key, value>>, width))

=============================================================================
