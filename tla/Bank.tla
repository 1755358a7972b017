-------------------------------- MODULE Bank --------------------------------
(***************************************************************************)
(* What registration promises, with no file in sight: an e-mail becomes a  *)
(* client once, and a client gets one account with a number of its own,    *)
(* which the accounts page shows. When a fault has damaged the store       *)
(* (intact is FALSE) the bank promises less, but still something: no       *)
(* client disappears, an account keeps its number, and the page shows a    *)
(* client this number or nothing.                                          *)
(***************************************************************************)
EXTENDS Integers

CONSTANTS Emails

NoAccount == -1

VARIABLES
  clients,   \* e-mails the bank has admitted
  account,   \* the number of each client's account
  shown,     \* the number the accounts page shows each client
  intact     \* no fault has damaged the store

vars == <<clients, account, shown, intact>>

Init ==
  /\ clients = {}
  /\ account = [e \in Emails |-> NoAccount]
  /\ shown = account
  /\ intact = TRUE

Admit(e) ==
  /\ intact
  /\ e \notin clients
  /\ clients' = clients \cup {e}
  /\ UNCHANGED <<account, shown, intact>>

Open(e) ==
  /\ intact
  /\ e \in clients /\ account[e] = NoAccount
  /\ account'[e] \in Nat
  /\ \A d \in Emails : account[d] # account'[e]
  /\ account' = [account EXCEPT ![e] = account'[e]]
  /\ shown' = account'
  /\ UNCHANGED <<clients, intact>>

Degraded ==
  /\ ~intact'
  /\ clients \subseteq clients'
  /\ \A e \in Emails :
       /\ account[e] # NoAccount => account'[e] = account[e]
       /\ shown'[e] \in {account'[e], NoAccount}

Next == Degraded \/ \E e \in Emails : Admit(e) \/ Open(e)

Spec == Init /\ [][Next]_vars

=============================================================================
