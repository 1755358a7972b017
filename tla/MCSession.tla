------------------------------ MODULE MCSession -----------------------------
(* Session on small instances: passwords by word and length, names by what *)
(* they hold.                                                              *)
EXTENDS Session

P(word, length) == [word |-> word, length |-> length]

OneShortOneLong == {P("p", 6), P("q", 8)}
Advised == {P("p", 8)}

(* Names: plain, with a sub, with an exp, with a brace before an exp.       *)
AllNames ==
  { <<>>, <<Claim("sub", 1)>>, <<Claim("exp", 9)>>, <<Brace, Claim("exp", 9)>> }
PlainNames == { <<>> }

=============================================================================
