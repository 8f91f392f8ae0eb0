------------------------- MODULE SelectionProjection -------------------------
(***************************************************************************)
(* The append-only selection events of one image and the row that projects *)
(* them.  A writer's transaction begins, waits, inserts its event and      *)
(* updates the row inside the same flush, then commits or rolls back.      *)
(* created_at is the time the transaction began, so a writer that waited   *)
(* commits an event older than what it finds.                              *)
(*                                                                         *)
(* Data abstracted away.  A comment is as good as any other; the locks in  *)
(* front of the insert (gallery, image, budget) are not assumed, because   *)
(* the projection has to be right "for every ORM producer".                *)
(***************************************************************************)
EXTENDS ReviewEvents

CONSTANTS
  Authors, \* transactions that write an event
  NoAuthor \* nobody holds the row

ASSUME ProjectionAssumption == NoAuthor \notin Authors

VARIABLES
  stamp,   \* the clock that created_at is taken from
  nextId,  \* the sequence of selection_events.id
  events,  \* committed selection_events, by id
  current, \* the committed row of current_selections
  rowLock, \* who holds that row
  author   \* the transactions

projectionVars == <<stamp, nextId, events, current, rowLock, author>>

\* Migration 0018: the last event of a dimension in the order (created_at, id).
Backfilled(log, d) ==
  LET versions == {Version(i, log[i]) : i \in {j \in 1..MaxEvents : DimensionOf(log[j].action) = d}}
  IN  IF versions = {} THEN Unrated
      ELSE CHOOSE v \in versions : \A w \in versions \ {v} : Newer(v, w)

Waiting == [at |-> "idle", began |-> -1, id |-> 0, action |-> "none"]

ProjectionTypeOK ==
  /\ stamp \in 0..MaxStamp /\ nextId \in 1..(MaxEvents + 1)
  /\ events \in [1..MaxEvents -> [action : Actions \cup {"none"}, at : -1..MaxStamp]]
  /\ current \in [Dimensions -> [value : BOOLEAN, at : -1..MaxStamp, id : 0..MaxEvents]]
  /\ rowLock \in Authors \cup {NoAuthor}
  /\ author \in [Authors -> [at : {"idle", "begun", "inserted", "projected"}, began : -1..MaxStamp,
                             id : 0..MaxEvents, action : Actions \cup {"none"}]]

\* One event from before the migration, and the row that it backfilled.
ProjectionInit ==
  /\ stamp = 0
  /\ \E action \in Actions : events = [i \in 1..MaxEvents |-> IF i = 1 THEN [action |-> action, at |-> 0] ELSE NoEvent]
  /\ nextId = 2
  /\ current = [d \in Dimensions |-> Backfilled(events, d)]
  /\ rowLock = NoAuthor
  /\ author = [a \in Authors |-> Waiting]

-----------------------------------------------------------------------------
AuthorStep(a, from, record) ==
  /\ author[a].at = from
  /\ author' = [author EXCEPT ![a] = record]

StampClock ==
  /\ stamp < MaxStamp
  /\ stamp' = stamp + 1
  /\ UNCHANGED <<nextId, events, current, rowLock, author>>

\* now() is frozen here, in front of every lock the handler waits for.
AuthorBegins(a) ==
  /\ AuthorStep(a, "idle", [Waiting EXCEPT !.at = "begun", !.began = stamp])
  /\ UNCHANGED <<stamp, nextId, events, current, rowLock>>

\* The insert takes the next id, whether or not it will commit.
EventInserted(a, action) ==
  /\ nextId <= MaxEvents
  /\ AuthorStep(a, "begun", [author[a] EXCEPT !.at = "inserted", !.id = nextId, !.action = action])
  /\ nextId' = nextId + 1
  /\ UNCHANGED <<stamp, events, current, rowLock>>

\* _project_selection_event: the upsert waits for the row, or for another
\* insert of it, and keeps it until the transaction ends.
EventProjected(a) ==
  /\ AuthorStep(a, "inserted", [author[a] EXCEPT !.at = "projected"])
  /\ IF DimensionOf(author[a].action) = "none"
       THEN UNCHANGED rowLock
       ELSE rowLock = NoAuthor /\ rowLock' = a
  /\ UNCHANGED <<stamp, nextId, events, current>>

(* Defect: the event that commits last wins. *)
ProjectedLast(a) ==
  LET event == [action |-> author[a].action, at |-> author[a].began]
      d     == DimensionOf(event.action)
  IN  IF d # "none" THEN [current EXCEPT ![d] = Version(author[a].id, event)] ELSE current

\* What the upsert made of the row it found.
Projected(a) ==
  LET event == [action |-> author[a].action, at |-> author[a].began]
      d     == DimensionOf(event.action)
      new   == Version(author[a].id, event)
  IN  IF d # "none" /\ (current[d].at = -1 \/ Newer(new, current[d])) THEN [current EXCEPT ![d] = new] ELSE current

AuthorCommits(a) ==
  /\ AuthorStep(a, "projected", Waiting)
  /\ events' = [events EXCEPT ![author[a].id] = [action |-> author[a].action, at |-> author[a].began]]
  /\ current' = Projected(a)
  /\ rowLock' = IF rowLock = a THEN NoAuthor ELSE rowLock
  /\ UNCHANGED <<stamp, nextId>>

AuthorRollsBack(a) ==
  /\ author[a].at # "idle"
  /\ AuthorStep(a, author[a].at, Waiting)
  /\ rowLock' = IF rowLock = a THEN NoAuthor ELSE rowLock
  /\ UNCHANGED <<stamp, nextId, events, current>>

-----------------------------------------------------------------------------
ProjectionNext ==
  \/ StampClock
  \/ \E a \in Authors :
       \/ AuthorBegins(a) \/ EventProjected(a) \/ AuthorCommits(a) \/ AuthorRollsBack(a)
       \/ \E action \in Actions : EventInserted(a, action)

ProjectionSpec == ProjectionInit /\ [][ProjectionNext]_projectionVars

-----------------------------------------------------------------------------
(* "Each dimension uses exactly the same (created_at, id) ordering as live *)
(* writes": the row that guests and exports read is what the migration     *)
(* would make of the committed log, also when a backdated event commits    *)
(* last, two have the same time, or an id is lost in a rollback.           *)
CurrentIsBackfill == \A d \in Dimensions : current[d] = Backfilled(events, d)

Log == INSTANCE ReviewLog WITH log <- events, view <- current

(* Each commit of a writer appends its event and shows it, or the later    *)
(* event it found, in one step; nothing else changes what readers see:     *)
(* the event log with its projected row implements the abstract review log *)
(* (SelectionEvent, its after_insert listener and CurrentSelection).       *)
ImplementsReviewLog == Log!LogSpec
=============================================================================
