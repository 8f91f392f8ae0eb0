------------------------------ MODULE MCAccounts ------------------------------
(* Instances of Accounts for TLC. *)
EXTENDS Accounts, TLC

(* An approval is under way and every account is gone: two administrators  *)
(* deleted each other (see AdminRemains), which takes one request and one  *)
(* signup more than the instance has.                                      *)
LateInit ==
  \E r \in Requests, a, e \in Emails :
    /\ status = [d \in Emails |-> "absent"]
    /\ password = [d \in Emails |-> 0]
    /\ limit = [d \in Emails |-> InitialLimit]
    /\ owned = [d \in Emails |-> 0]
    /\ signup = [[i \in Ids |-> Unused] EXCEPT ![1] = [email |-> e, state |-> "verified"]]
    /\ setupDone = TRUE
    /\ setupLock = None
    /\ userLock = [d \in Emails |-> None]
    /\ signupLock = [i \in Ids |-> None]
    /\ req = [[s \in Requests |-> Idle] EXCEPT
                ![r] = [Idle EXCEPT !.do = "approve", !.at = "lock", !.by = a, !.id = 1]]

MCSpec == (Init \/ LateInit) /\ [][Next]_vars

Symmetry == Permutations(Requests) \cup Permutations(Emails)
===============================================================================
