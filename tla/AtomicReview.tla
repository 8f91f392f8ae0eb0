------------------------------ MODULE AtomicReview ------------------------------
(***************************************************************************)
(* The review as if requests came one at a time: each is decided and done  *)
(* in one instant.  There are no locks, tokens, passwords or epochs here:  *)
(* who holds an authorization is known, and a change of the credentials    *)
(* withdraws them all.                                                     *)
(***************************************************************************)
EXTENDS Naturals, FiniteSets

CONSTANTS Visits, Events, None, VisitLimit, EventLimit

VARIABLES
  status,     \* of the gallery
  linked,     \* it has a share link
  visits,     \* visits on record
  authorized, \* those let in under the present credentials
  completed,  \* those that completed the review
  expired,    \* those past their time
  author      \* the visit of each selection, None while it is not made

atomic == <<status, linked, visits, authorized, completed, expired, author>>

Written == {e \in Events : author[e] # None}

Init ==
  /\ status = "draft" /\ linked = FALSE
  /\ visits = {} /\ authorized = {} /\ completed = {} /\ expired = {}
  /\ author = [e \in Events |-> None]

-----------------------------------------------------------------------------
(* Guests.                                                                 *)

Enter(v) ==
  /\ linked /\ status \in {"shared", "completed"} /\ Cardinality(visits) < VisitLimit
  /\ v \notin visits
  /\ visits' = visits \cup {v} /\ authorized' = authorized \cup {v}
  /\ UNCHANGED <<status, linked, completed, expired, author>>

Select(v, e) ==
  /\ linked /\ status = "shared" /\ v \in authorized
  /\ e \notin Written /\ Cardinality(Written) < EventLimit
  /\ author' = [author EXCEPT ![e] = v]
  /\ UNCHANGED <<status, linked, visits, authorized, completed, expired>>

Complete(v) ==
  /\ linked /\ status = "shared" /\ v \in authorized \ completed
  /\ completed' = completed \cup {v} /\ status' = "completed"
  /\ UNCHANGED <<linked, visits, authorized, expired, author>>

(* Expired visits go that leave nothing behind. *)
Sweep(gone) ==
  /\ gone \cap (completed \cup {author[e] : e \in Events}) = {}
  /\ visits' = visits \ gone /\ authorized' = authorized \ gone /\ expired' = expired \ gone
  /\ UNCHANGED <<status, linked, completed, author>>

Expire(v) ==
  /\ expired' = expired \cup {v}
  /\ UNCHANGED <<status, linked, visits, authorized, completed, author>>

-----------------------------------------------------------------------------
(* The owner.                                                              *)

Withdraw(withLink, next) ==
  /\ linked' = withLink /\ status' = next /\ authorized' = {}
  /\ UNCHANGED <<visits, completed, expired, author>>

Share    == Withdraw(TRUE, IF status = "draft" THEN "shared" ELSE status)
Revoke   == Withdraw(FALSE, IF status = "shared" THEN "draft" ELSE status)
Password == Withdraw(linked, status)

(* The one change that was decided earlier: what allowed it may be over.   *)
ChangeStatus(target) ==
  /\ status' = target
  /\ UNCHANGED <<linked, visits, authorized, completed, expired, author>>

Delete ==
  /\ status' = "deleted" /\ linked' = FALSE
  /\ visits' = {} /\ authorized' = {} /\ completed' = {} /\ expired' = {}
  /\ author' = [e \in Events |-> None]

Next ==
  \/ \E v \in Visits : Enter(v) \/ Complete(v) \/ \E e \in Events : Select(v, e)
  \/ \E gone \in SUBSET (visits \cap expired) : Sweep(gone)
  \/ \E v \in visits : Expire(v)
  \/ /\ status # "deleted"
     /\ \/ Share \/ Revoke \/ Password \/ Delete
        \/ \E target \in {"shared", "completed", "archived"} : ChangeStatus(target)

Spec == Init /\ [][Next]_atomic
=============================================================================
