------------------------------ MODULE Template ------------------------------
(***************************************************************************)
(* render_template, one turn of its loop per action, and add_body. The     *)
(* output buffer is the template's length and a fixed slack, which is all  *)
(* the room the values of the variables have; the loop ends at the end of  *)
(* the template and not at the end of the buffer.                          *)
(***************************************************************************)
EXTENDS Integers, Sequences

CONSTANTS
  Keys,       \* names between braces
  Templates,  \* what load_template_to_string returns: [len, holes]
  Values,     \* what the handlers pass: functions from keys to lengths
  Slack,      \* the 1024 of render_template
  BODY_LEN    \* size of res->body

(* holes maps the position of each "{{" with a "}}" after it (not of one   *)
(* inside another) to the key between them and the position behind.        *)
ASSUME TemplateAssumption ==
  /\ Slack \in Nat \ {0} /\ BODY_LEN \in Nat \ {0}
  /\ \A t \in Templates :
       /\ t.len \in Nat
       /\ \A i \in DOMAIN t.holes :
            /\ i \in 1 .. t.len /\ t.holes[i].key \in Keys
            /\ t.holes[i].next \in i + 4 .. t.len + 1
            /\ \A j \in DOMAIN t.holes : i < j => t.holes[i].next <= j
  /\ \A v \in Values : \A k \in DOMAIN v : v[k] \in Nat

VARIABLES
  template,  \* the template
  value,     \* lengths of the values, by key
  p,         \* position of the pointer p
  out,       \* out_buf up to out_idx: where each character came from
  state,     \* "copying", "rendered" or "sent"
  body       \* res->body up to its terminator

vars == <<template, value, p, out, state, body>>
request == <<template, value>>

-----------------------------------------------------------------------------
OutSize == template.len + Slack
out_idx == Len(out)

IsHole(i) == i \in DOMAIN template.holes
ValueLen(key) == IF key \in DOMAIN value THEN value[key] ELSE 0
ValueAt(i) == [n \in 1 .. ValueLen(template.holes[i].key) |-> <<i, n>>]
Junk(n) == [i \in 1 .. n |-> <<0, 0>>]     \* what malloc left in out_buf

Init ==
  /\ template \in Templates /\ value \in Values
  /\ p = 1 /\ out = <<>> /\ state = "copying" /\ body = <<>>

CopyChar ==
  /\ state = "copying" /\ p <= template.len /\ ~IsHole(p)
  /\ out_idx < OutSize - 1     \* otherwise the loop turns for ever
  /\ out' = Append(out, <<p, 0>>) /\ p' = p + 1
  /\ UNCHANGED <<request, state, body>>

Fits == ValueLen(template.holes[p].key) + out_idx < OutSize - 1

(* Mutant: only one of the closing braces is skipped.                      *)
CopyValueHalf ==
  /\ state = "copying" /\ p <= template.len /\ IsHole(p) /\ Fits
  /\ out' = out \o ValueAt(p) /\ p' = template.holes[p].next - 1
  /\ UNCHANGED <<request, state, body>>

(* Mutant: the pointer is not moved before continue.                       *)
CopyValueStays ==
  /\ state = "copying" /\ p <= template.len /\ IsHole(p) /\ Fits
  /\ out' = out \o ValueAt(p)
  /\ UNCHANGED <<request, p, state, body>>

CopyValue ==
  /\ state = "copying" /\ p <= template.len /\ IsHole(p) /\ Fits
  /\ out' = out \o ValueAt(p) /\ p' = template.holes[p].next
  /\ UNCHANGED <<request, state, body>>

Break ==
  /\ state = "copying" /\ p <= template.len /\ IsHole(p) /\ ~Fits
  /\ state' = "rendered"
  /\ UNCHANGED <<request, p, out, body>>

EndOfTemplate ==
  /\ state = "copying" /\ p > template.len
  /\ state' = "rendered"
  /\ UNCHANGED <<request, p, out, body>>

(* add_body: strncpy and the terminator after it.                          *)
Cut(text) == IF Len(text) < BODY_LEN THEN text ELSE SubSeq(text, 1, BODY_LEN - 1)

(* Only the last byte of out_buf is terminated: strncpy goes on into what  *)
(* follows the page, up to the first zero that happens to be there.        *)
AddBody ==
  /\ state = "rendered"
  /\ \E n \in 0 .. OutSize - 1 - out_idx : body' = Cut(out \o Junk(n))
  /\ state' = "sent"
  /\ UNCHANGED <<request, p, out>>

Next == CopyChar \/ CopyValue \/ Break \/ EndOfTemplate \/ AddBody

Spec == Init /\ [][Next]_vars /\ WF_vars(Next)

-----------------------------------------------------------------------------
(* Properties.                                                             *)

(* The page the template and the values mean, up to a position.            *)
Rendering ==
  LET upTo[i \in 1 .. template.len + 1] ==
        IF i = 1 THEN <<>>
        ELSE LET holes == {h \in DOMAIN template.holes :
                             h < i /\ i <= template.holes[h].next}
             IN IF holes = {} THEN Append(upTo[i - 1], <<i - 1, 0>>)
                ELSE LET h == CHOOSE h \in holes : TRUE
                     IN upTo[h] \o ValueAt(h)
  IN upTo

Page == Rendering[template.len + 1]
PageFits == Len(Page) < OutSize - 1

TypeOK ==
  /\ template \in Templates /\ value \in Values
  /\ p \in 1 .. template.len + 1
  /\ out \in Seq(Nat \X Nat)
  /\ state \in {"copying", "rendered", "sent"}
  /\ body \in Seq(Nat \X Nat) /\ Len(body) < BODY_LEN

(* Whatever the values are, nothing is written at or past the last byte of *)
(* out_buf, which gets the terminator.                                     *)
OutFits == out_idx <= OutSize - 1

(* The output is at every turn the page up to the pointer: no brace left,  *)
(* no character lost or written twice, also when the rendering breaks off. *)
RendersPrefix == out = Rendering[p]

(* A page that has room is rendered and sent: the loop, which goes on for  *)
(* ever when the buffer fills up within plain text, ends. The body then    *)
(* begins with the page, cut by add_body when it is longer than a body;    *)
(* what follows the page may be anything.                                  *)
BodyShowsPage ==
  LET n == IF Len(Page) < BODY_LEN THEN Len(Page) ELSE BODY_LEN - 1
  IN Len(body) >= n /\ SubSeq(body, 1, n) = SubSeq(Page, 1, n)

RenderEnds == PageFits ~> (state = "sent" /\ BodyShowsPage)

=============================================================================
