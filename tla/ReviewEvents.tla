----------------------------- MODULE ReviewEvents -----------------------------
(***************************************************************************)
(* The selection events of one image, what each says about it, and the     *)
(* order in which later ones replace earlier ones.                         *)
(***************************************************************************)
EXTENDS Integers

CONSTANTS
  MaxEvents, \* bound on the event ids
  MaxStamp   \* bound on the clock

ASSUME EventsAssumption == MaxEvents \in Nat \ {0} /\ MaxStamp \in Nat

Dimensions == {"selected", "favorited", "comment"}
Actions    == {"select", "deselect", "favorite", "unfavorite", "comment", "blank"}

\* A comment event without a text projects nothing.
DimensionOf(action) ==
  CASE action \in {"select", "deselect"}     -> "selected"
    [] action \in {"favorite", "unfavorite"} -> "favorited"
    [] action = "comment"                    -> "comment"
    [] OTHER                                 -> "none"

ValueOf(action) == action \in {"select", "favorite", "comment"}

Event   == [action : Actions, at : 0..MaxStamp]
NoEvent == [action |-> "none", at |-> -1]

\* What a dimension shows: an event's value with its time and id.
Unrated            == [value |-> FALSE, at |-> -1, id |-> 0]
Version(id, event) == [value |-> ValueOf(event.action), at |-> event.at, id |-> id]
Newer(new, old)    == old.at < new.at \/ (old.at = new.at /\ old.id < new.id)
===============================================================================
