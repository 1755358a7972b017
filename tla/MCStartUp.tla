----------------------------- MODULE MCStartUp -----------------------------
(* The table of server/routes.h with arrays of two places, and files of up *)
(* to three lines: names defined twice, lines without a name or a value,   *)
(* lines that make the buffer grow never, once and twice.                  *)
EXTENDS StartUp

SmallLines ==
  { [name |-> "JWT_SECRET", value |-> "a", width |-> 2],
    [name |-> "JWT_SECRET", value |-> "b", width |-> 4],
    [name |-> "JWT_EXP", value |-> "a", width |-> 1],
    [name |-> "JWT_EXP", value |-> NoValue, width |-> 1],
    [name |-> NoName, value |-> "a", width |-> 0] }

SmallFiles == UNION {[1 .. n -> SmallLines] : n \in 0 .. 3}

Entry(path, methods, middlewares) ==
  [path |-> path, allowed_methods |-> methods, middlewares |-> middlewares]

Get  == <<"GET", NONE>>
Both == <<"GET", "POST">>
Open == <<"decode_url", NONE>>
Auth == <<"decode_url", "auth">>

RealTable ==
  << Entry("/", Get, Open), Entry("/accounts", Get, Auth),
     Entry("/api/accounts", Both, Auth), Entry("/login", Both, Open),
     Entry("/register", Both, Open), Entry("/transfer", Both, Auth),
     Entry("/extract", Both, Auth), Entry("/cards", Both, Auth),
     Entry("/payments", Both, Auth) >>

SomeRequests ==
  [path : {"/", "/accounts", "/login", "/payments", "/other"}, method : {"get", "POST", "PUT"}]

=============================================================================
