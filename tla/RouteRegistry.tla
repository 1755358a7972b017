--------------------------- MODULE RouteRegistry ---------------------------
(***************************************************************************)
(* The route registry: main registers the table of routes one after        *)
(* another in an array that doubles, and does not look at whether it       *)
(* worked; then the loop searches it for each request.                     *)
(***************************************************************************)
EXTENDS Integers, Sequences, FiniteSets

CONSTANTS
  Table,           \* routes[]: [path, allowed_methods, middlewares]
  NONE,            \* an empty place of the last two
  Requests,        \* what clients ask for: [path, method]
  FIRST_CAPACITY   \* the array's first size: 8

(* strcasecmp: the method a table may hold for each that a client sends.   *)
Upper == [GET |-> "GET", get |-> "GET", POST |-> "POST", post |-> "POST", PUT |-> "PUT"]

(* What an initializer of routes.h leaves out comes last and is NULL.      *)
Packed(array) ==
  /\ Len(array) \in Nat /\ DOMAIN array = 1 .. Len(array)
  /\ \A n \in DOMAIN array : array[n] # NONE => \A i \in 1 .. n : array[i] # NONE

ASSUME RegistryAssumption ==
  /\ FIRST_CAPACITY \in Nat \ {0}
  /\ Len(Table) \in Nat
  /\ \A n \in 1 .. Len(Table) :
       Packed(Table[n].allowed_methods) /\ Packed(Table[n].middlewares)
  /\ \A r \in Requests : Upper[r.method] # NONE

VARIABLES
  routes,        \* registry->routes up to count
  capacity,      \* registry->capacity
  next,          \* the next of the table's routes
  unregistered,  \* history: the table's routes that realloc was refused for
  req,           \* the last request
  found          \* what get_route returned for it

registry_vars == <<routes, capacity, next, unregistered, req, found>>

-----------------------------------------------------------------------------
NoRequest == [path |-> NONE, method |-> NONE]
NotFound == [index |-> 0, error_flag |-> "NOT_FOUND_FLAG"]
NotAllowed == [index |-> 0, error_flag |-> "METHOD_NOT_ALLOWED_FLAG"]
ValidRoute(i) == [index |-> i, error_flag |-> "NO_ERROR_FLAG"]

(* The places before the first empty one.                                  *)
Counted(array) == Cardinality({n \in 1 .. Len(array) : \A i \in 1 .. n : array[i] # NONE})

Route(i) ==
  [index |-> i, path |-> Table[i].path,
   methods |-> SubSeq(Table[i].allowed_methods, 1, Counted(Table[i].allowed_methods)),
   middleware_count |-> Counted(Table[i].middlewares)]

RegistryInit ==
  /\ routes = <<>> /\ capacity = 0 /\ next = 1 /\ unregistered = {}
  /\ req = NoRequest /\ found = NotFound

(* Mutant: the array grows one route too late.                             *)
GrownLate ==
  IF Len(routes) <= capacity THEN capacity
  ELSE IF capacity = 0 THEN FIRST_CAPACITY ELSE 2 * capacity

Grown ==
  IF Len(routes) < capacity THEN capacity
  ELSE IF capacity = 0 THEN FIRST_CAPACITY ELSE 2 * capacity

RegisterRoute ==
  /\ next <= Len(Table)
  /\ capacity' = Grown
  /\ routes' = Append(routes, Route(next))
  /\ next' = next + 1
  /\ UNCHANGED <<unregistered, req, found>>

RegisterFails ==
  /\ next <= Len(Table) /\ Len(routes) >= capacity
  /\ unregistered' = unregistered \cup {next}
  /\ next' = next + 1
  /\ UNCHANGED <<routes, capacity, req, found>>

(* Mutant: the last route is not looked at.                                *)
get_routeShort(path, method) ==
  LET same == {i \in 1 .. Len(routes) - 1 : routes[i].path = path}
      i    == CHOOSE i \in same : \A j \in same : i <= j
  IN IF same = {} THEN NotFound
     ELSE IF \E k \in DOMAIN routes[i].methods : routes[i].methods[k] = Upper[method]
     THEN ValidRoute(routes[i].index) ELSE NotAllowed

(* The first route with the path decides.                                  *)
get_route(path, method) ==
  LET same == {i \in DOMAIN routes : routes[i].path = path}
      i    == CHOOSE i \in same : \A j \in same : i <= j
  IN IF same = {} THEN NotFound
     ELSE IF \E k \in DOMAIN routes[i].methods : routes[i].methods[k] = Upper[method]
     THEN ValidRoute(routes[i].index) ELSE NotAllowed

GetRoute(r) ==
  /\ next > Len(Table)
  /\ req' = r /\ found' = get_route(r.path, r.method)
  /\ UNCHANGED <<routes, capacity, next, unregistered>>

RegistryNext == RegisterRoute \/ RegisterFails \/ \E r \in Requests : GetRoute(r)

-----------------------------------------------------------------------------
(* Properties.                                                             *)

RegistryTypeOK ==
  /\ capacity \in Nat /\ next \in 1 .. Len(Table) + 1
  /\ Len(routes) \in Nat /\ unregistered \subseteq 1 .. Len(Table)

(* Wherever the array had to grow and whenever it could not, a route is    *)
(* written inside of it.                                                   *)
RoutesFit == Len(routes) <= capacity

(* The first route of the table with a path, of those that were            *)
(* registered, answers for it: for its methods in any case, and for no     *)
(* other; and it brings all the middlewares that the table gives it, even  *)
(* after others could not be registered.                                   *)
TableServed ==
  LET kept == {i \in 1 .. Len(Table) : i \notin unregistered /\ Table[i].path = req.path}
      first == CHOOSE i \in kept : \A j \in kept : i <= j
      methods == {Table[first].allowed_methods[k] : k \in DOMAIN Table[first].allowed_methods}
  IN /\ req # NoRequest =>
          found = IF kept = {} THEN NotFound
                  ELSE IF Upper[req.method] \in methods THEN ValidRoute(first) ELSE NotAllowed
     /\ \A i \in DOMAIN routes :
          LET given == Table[routes[i].index].middlewares
          IN routes[i].middleware_count = Cardinality({k \in DOMAIN given : given[k] # NONE})

=============================================================================
