------------------------------ MODULE StartUp ------------------------------
(***************************************************************************)
(* main: load_env, then the loop over routes[], then the server. Whatever  *)
(* load_env and register_route could not do, main goes on.                 *)
(***************************************************************************)
EXTENDS Secrets, RouteRegistry

vars == <<secrets_vars, registry_vars>>

Init == SecretsInit /\ RegistryInit

LoadEnv == Load /\ UNCHANGED registry_vars

LoadEnvFails == Refuse /\ UNCHANGED registry_vars

RegisterRoutes ==
  /\ pc = "loaded"
  /\ RegisterRoute \/ RegisterFails
  /\ UNCHANGED secrets_vars

Serve ==
  /\ pc = "loaded"
  /\ \E r \in Requests : GetRoute(r)
  /\ UNCHANGED secrets_vars

Next == LoadEnv \/ LoadEnvFails \/ RegisterRoutes \/ Serve

(* main runs on. That memory is refused is possible and not necessary.     *)
Spec == Init /\ [][Next]_vars /\ WF_vars(LoadEnv) /\ WF_vars(RegisterRoutes)

-----------------------------------------------------------------------------
(* Properties.                                                             *)

TypeOK == SecretsTypeOK /\ RegistryTypeOK

(* Wherever a buffer or a table had to grow, and whenever it could not,    *)
(* what is written next has its place: the terminator of a line, a secret, *)
(* a route.                                                                *)
StartUpFits == BuffersFit /\ RoutesFit

(* The server comes to serve, whatever memory is refused, unless it is     *)
(* memory for a secret's value or for the stars it is printed as.          *)
Serving == pc = "loaded" /\ next > Len(Table)
Starts == <>(Serving \/ refused \cap {"value", "stars"} # {})

=============================================================================
