-------------------------------- MODULE Account --------------------------------
(***************************************************************************)
(* What credit and debit of packages/economy/src/coins.js and the payout   *)
(* request of packages/api/src/services/paymentOrchestration.js promise:   *)
(* each request moves its amount at one instant, if the balance of that    *)
(* instant covers it, or is refused and moves nothing.                     *)
(***************************************************************************)
EXTENDS Integers

CONSTANTS Users, Procs

VARIABLES
  request,    \* what each process was asked for: kind, user and amount
  balance,    \* of each user
  outcome     \* of each request: "open", then "made" or "refused"

vars == <<request, balance, outcome>>

Init ==
  /\ balance \in [Users -> Nat]
  /\ outcome = [p \in Procs |-> "open"]

(* The balance after p's movement.                                         *)
After(p) ==
  IF request[p].kind = "credit"
  THEN balance[request[p].user] + request[p].amount
  ELSE balance[request[p].user] - request[p].amount

Make(p) ==
  /\ outcome[p] = "open"
  /\ After(p) >= 0
  /\ balance' = [balance EXCEPT ![request[p].user] = After(p)]
  /\ outcome' = [outcome EXCEPT ![p] = "made"]
  /\ UNCHANGED request

Refuse(p) ==
  /\ outcome[p] = "open"
  /\ outcome' = [outcome EXCEPT ![p] = "refused"]
  /\ UNCHANGED <<request, balance>>

Next == \E p \in Procs : Make(p) \/ Refuse(p)

Spec == Init /\ [][Next]_vars
=============================================================================
