------------------------------ MODULE MCServer ------------------------------
(* Server on small instances: which requests the clients send.             *)
EXTENDS Server, TLC

Symmetry == Permutations(Clients)

R(path, method, token, form, ctype) ==
  [path |-> path, method |-> method, token |-> token, form |-> form, ctype |-> ctype]

(* What the pages of the site make a browser send, one of each way through *)
(* the loop, and another path for what it asks of any site, as its icon;   *)
(* no page links to the two routes whose templates are missing.            *)
BrowserRequests ==
  {R("/", "GET", "none", FALSE, FALSE),
   R("/login", "GET", "good", FALSE, FALSE),
   R("/login", "POST", "none", TRUE, TRUE),
   R("/other", "GET", "none", FALSE, FALSE),
   R("/register", "POST", "bad", TRUE, TRUE),
   R("/accounts", "GET", "good", FALSE, FALSE),
   R("/accounts", "GET", "bad", FALSE, FALSE),
   R("/api/accounts", "GET", "good", FALSE, FALSE)}

ASSUME BrowserAssumption == \A r \in BrowserRequests : ~ Lethal(r)

(* One of each way through the loop, the lethal ones included.             *)
AnyRequests ==
  {BadLine,
   R("/", "PUT", "none", FALSE, FALSE),
   R("/other", "GET", "none", FALSE, FALSE),
   R("/login", "POST", "none", TRUE, TRUE),
   R("/login", "post", "none", TRUE, TRUE),
   R("/api/accounts", "POST", "good", TRUE, TRUE),
   R("/api/accounts", "get", "good", FALSE, FALSE),
   R("/cards", "POST", "bad", TRUE, TRUE),
   R("/cards", "GET", "good", FALSE, FALSE),
   R("/transfer", "GET", "good", FALSE, FALSE)}

=============================================================================
