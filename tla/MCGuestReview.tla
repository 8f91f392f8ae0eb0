----------------------------- MODULE MCGuestReview -----------------------------
(* Instances of GuestReview for TLC. *)
EXTENDS GuestReview, TLC

Symmetry == Permutations(Requests) \cup Permutations(Visits)
              \cup Permutations(Events) \cup Permutations(Passwords)
=============================================================================
