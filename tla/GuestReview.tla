------------------------------ MODULE GuestReview ------------------------------
(***************************************************************************)
(* The review of one shared gallery: the owner rotates, protects, revokes  *)
(* and reopens it while guests open visits, read, select and complete.     *)
(*                                                                         *)
(* Every request is one transaction.  It collects locks in a fixed order   *)
(* (lifecycle fence, session admission or selection budget, row lock of    *)
(* the gallery), reads the row again under them, writes, and its COMMIT or *)
(* ROLLBACK releases everything.  Only the owner's change of the status    *)
(* reads the row without a lock and locks it for the UPDATE.  Concurrent   *)
(* selections are of different images: the image fence never delays them.  *)
(*                                                                         *)
(* Data abstracted away.  A share token is the authorization epoch that    *)
(* created it.  The bounded, rotating sweep of expired visits removes some *)
(* of the visits it may remove.  Refusals by clock, rate limit, disabled   *)
(* owner or malformed input are the action GiveUp.  The images stay: what  *)
(* deleting one does is in StorageLifecycle.                               *)
(***************************************************************************)
EXTENDS Integers, Sequences, FiniteSets

CONSTANTS
  Requests,   \* concurrent requests
  Visits,     \* share session UUIDs that may ever be generated
  Events,     \* selection event ids that may ever be drawn
  Passwords,  \* gallery passwords
  None,       \* no password, no visit
  MaxEpoch,   \* bound on credential changes
  VisitLimit, \* settings.max_share_sessions_per_gallery
  EventLimit  \* settings.max_selection_events_per_gallery

ASSUME ReviewAssumption ==
  /\ IsFiniteSet(Requests)
  /\ None \notin Passwords \cup Visits
  /\ MaxEpoch \in Nat /\ VisitLimit \in Nat /\ EventLimit \in Nat

VARIABLES
  row,        \* the gallery row: status, token, password, epoch
  visits,     \* rows of share_sessions
  stamp,      \* authorization epoch a visit was created with, -1 before that
  completed,  \* visits with completed_at
  lapsed,     \* visits whose expires_at has passed
  author,     \* the visit of each selection event, None before it exists
  held,       \* the locks of each request's transaction
  pc,         \* idle, lock, check, act
  kind,       \* which handler
  ask,        \* what the request asks with: token, visit, password, target
  seen        \* the gallery row as read under the locks

review == <<row, visits, stamp, completed, lapsed, author>>
vars   == <<review, held, pc, kind, ask, seen>>

Statuses   == {"draft", "shared", "completed", "archived", "deleted"}
GuestKinds == {"enter", "read", "select", "complete"}
OwnerKinds == {"share", "revoke", "password", "status", "delete"}
Rows == [status : Statuses, token : 0..MaxEpoch,
         password : Passwords \cup {None}, epoch : 0..MaxEpoch]
Asks == [token : 0..MaxEpoch, visit : Visits \cup {None},
         password : Passwords \cup {None}, target : Statuses]
Locks == {"life", "admission", "budget", "row"} \X {"S", "X"}

NoRow == [status |-> "draft", token |-> 0, password |-> None, epoch |-> 0]
NoAsk == [token |-> 0, visit |-> None, password |-> None, target |-> "draft"]
Written == {e \in Events : author[e] # None}

TypeOK ==
  /\ row \in Rows
  /\ visits \subseteq Visits /\ completed \subseteq Visits /\ lapsed \subseteq Visits
  /\ stamp \in [Visits -> -1..MaxEpoch]
  /\ author \in [Events -> Visits \cup {None}]
  /\ held \in [Requests -> SUBSET Locks]
  /\ pc \in [Requests -> {"idle", "lock", "check", "act"}]
  /\ kind \in [Requests -> GuestKinds \cup OwnerKinds \cup {"none"}]
  /\ ask \in [Requests -> Asks]
  /\ seen \in [Requests -> Rows]

Init ==
  /\ row = NoRow
  /\ visits = {} /\ completed = {} /\ lapsed = {}
  /\ stamp = [v \in Visits |-> -1]
  /\ author = [e \in Events |-> None]
  /\ held = [r \in Requests |-> {}]
  /\ pc = [r \in Requests |-> "idle"]
  /\ kind = [r \in Requests |-> "none"]
  /\ ask = [r \in Requests |-> NoAsk]
  /\ seen = [r \in Requests |-> NoRow]

-----------------------------------------------------------------------------
(* Locks.                                                                  *)

S(l) == <<l, "S">>
X(l) == <<l, "X">>
Conflict(l, m) == l[1] = m[1] /\ ~(l[2] = "S" /\ m[2] = "S")

(* Defect: selections and visits take the row lock in reader mode only. *)
OrderWithReaders ==
  [enter    |-> <<S("life"), S("row")>>,
   read     |-> <<S("life"), S("row")>>,
   select   |-> <<S("life"), S("row")>>,
   complete |-> <<S("life"), S("row")>>,
   share    |-> <<S("life"), X("row")>>,
   revoke   |-> <<S("life"), X("row")>>,
   password |-> <<S("life"), X("row")>>,
   status   |-> <<X("row")>>,
   delete   |-> <<X("life"), X("row")>>]

(* Defect: a visit takes the reader lock of the row before the admission. *)
OrderWithUpgrade ==
  [enter    |-> <<S("life"), S("row"), X("admission"), X("row")>>,
   read     |-> <<S("life"), S("row")>>,
   select   |-> <<S("life"), X("budget"), X("row")>>,
   complete |-> <<S("life"), X("row")>>,
   share    |-> <<S("life"), X("row")>>,
   revoke   |-> <<S("life"), X("row")>>,
   password |-> <<S("life"), X("row")>>,
   status   |-> <<X("row")>>,
   delete   |-> <<X("life"), X("row")>>]

(* Defect: the owner's credential changes do not lock the row to read it. *)
OrderWithoutOwnerLock ==
  [enter    |-> <<S("life"), X("admission"), X("row")>>,
   read     |-> <<S("life"), S("row")>>,
   select   |-> <<S("life"), X("budget"), X("row")>>,
   complete |-> <<S("life"), X("row")>>,
   share    |-> <<S("life")>>,
   revoke   |-> <<S("life")>>,
   password |-> <<S("life")>>,
   status   |-> <<X("row")>>,
   delete   |-> <<X("life"), X("row")>>]

(* The order in which each handler takes its locks. *)
LockOrder ==
  [enter    |-> <<S("life"), X("admission"), X("row")>>,
   read     |-> <<S("life"), S("row")>>,
   select   |-> <<S("life"), X("budget"), X("row")>>,
   complete |-> <<S("life"), X("row")>>,
   share    |-> <<S("life"), X("row")>>,
   revoke   |-> <<S("life"), X("row")>>,
   password |-> <<S("life"), X("row")>>,
   status   |-> <<X("row")>>,
   delete   |-> <<X("life"), X("row")>>]

NextLock(r) == LockOrder[kind[r]][Cardinality(held[r]) + 1]
HasAllLocks(r) == Cardinality(held[r]) = Len(LockOrder[kind[r]])

Acquire(r) ==
  /\ pc[r] = "lock" /\ ~HasAllLocks(r)
  /\ \A q \in Requests \ {r} : \A l \in held[q] : ~Conflict(l, NextLock(r))
  /\ held' = [held EXCEPT ![r] = @ \cup {NextLock(r)}]
  /\ pc' = [pc EXCEPT ![r] = IF Cardinality(held[r]) + 1 = Len(LockOrder[kind[r]])
                               THEN "check" ELSE "lock"]
  /\ UNCHANGED <<review, kind, ask, seen>>

End(r) ==
  /\ held' = [held EXCEPT ![r] = {}]
  /\ pc' = [pc EXCEPT ![r] = "idle"]
  /\ kind' = [kind EXCEPT ![r] = "none"]
  /\ ask' = [ask EXCEPT ![r] = NoAsk]
  /\ seen' = [seen EXCEPT ![r] = NoRow]

Begin(r, k, a) ==
  /\ pc[r] = "idle"
  /\ kind' = [kind EXCEPT ![r] = k]
  /\ ask' = [ask EXCEPT ![r] = a]
  /\ pc' = [pc EXCEPT ![r] = "lock"]
  /\ UNCHANGED <<review, held, seen>>

-----------------------------------------------------------------------------
(* Requests of guests.                                                     *)

Open == {"shared", "completed"}
Resolves(g, token) == token # 0 /\ g.token = token /\ g.status \in Open

(* Bound: every admitted visit finds an unused id in Visits. *)
RoomForVisit ==
  Cardinality({q \in Requests : kind[q] = "enter"}) < Cardinality({v \in Visits : stamp[v] = -1})

(* resolve_gallery_by_token finds the gallery; the cookie names a visit.   *)
GuestArrives(r, k, token, v, pw) ==
  /\ Resolves(row, token)
  /\ k = "enter" => RoomForVisit
  /\ v # None => stamp[v] # -1
  /\ Begin(r, k, [NoAsk EXCEPT !.token = token, !.visit = v, !.password = pw])

(* current_share_session *)
Current(g, v) ==
  v \in visits /\ stamp[v] = g.epoch /\ v \notin lapsed

(* Defect: the sweep does not look for selection events. *)
ReclaimableWithHistory == (visits \cap lapsed) \ completed

(* Expired visits the sweep may delete: it keeps completed ones and those  *)
(* that selections refer to.                                               *)
Reclaimable ==
  {v \in (visits \cap lapsed) \ completed : \A e \in Events : author[e] # v}

(* The rows of deleted visits, with ON DELETE CASCADE of their events. *)
Drop(gone) ==
  /\ visits' = visits \ gone
  /\ completed' = completed \ gone
  /\ lapsed' = lapsed \ gone
  /\ author' = [e \in Events |-> IF author[e] \in gone THEN None ELSE author[e]]

PasswordFits(g, pw) == g.password = pw

(* create_share_session up to the decision: password, reuse of a browser's *)
(* visit, sweep, limit.  Refusing at the limit still commits the sweep.    *)
EnterChecked(r) ==
  /\ pc[r] = "check" /\ kind[r] = "enter"
  /\ IF ~Resolves(row, ask[r].token) \/ ~PasswordFits(row, ask[r].password)
       THEN End(r) /\ UNCHANGED <<visits, completed, lapsed, author>>
       ELSE \/ /\ Current(row, ask[r].visit) /\ ask[r].visit \notin completed
               /\ End(r) /\ UNCHANGED <<visits, completed, lapsed, author>>
            \/ \E gone \in SUBSET Reclaimable :
                 /\ Drop(gone)
                 /\ IF Cardinality(visits \ gone) >= VisitLimit
                      THEN End(r)
                      ELSE /\ pc' = [pc EXCEPT ![r] = "act"]
                           /\ seen' = [seen EXCEPT ![r] = row]
                           /\ UNCHANGED <<held, kind, ask>>
  /\ UNCHANGED <<row, stamp>>

(* What the handler of a grant requires of the row it reads under lock. *)
Granted(r, g) ==
  /\ Resolves(g, ask[r].token)
  /\ CASE kind[r] = "read"     -> g.password = None \/ Current(g, ask[r].visit)
       [] kind[r] = "select"   -> g.status # "completed" /\ Current(g, ask[r].visit)
                                    /\ Cardinality(Written) < EventLimit
       [] kind[r] = "complete" -> g.status # "completed" /\ Current(g, ask[r].visit)
                                    /\ ask[r].visit \notin completed

GrantChecked(r) ==
  /\ pc[r] = "check" /\ kind[r] \in {"read", "select", "complete"}
  /\ IF Granted(r, row)
       THEN /\ pc' = [pc EXCEPT ![r] = "act"]
            /\ seen' = [seen EXCEPT ![r] = row]
            /\ UNCHANGED <<held, kind, ask>>
       ELSE End(r)
  /\ UNCHANGED review

Enter(r) ==
  /\ pc[r] = "act" /\ kind[r] = "enter"
  /\ \E v \in Visits :
       /\ stamp[v] = -1
       /\ stamp' = [stamp EXCEPT ![v] = seen[r].epoch]
       /\ visits' = visits \cup {v}
  /\ End(r)
  /\ UNCHANGED <<row, completed, lapsed, author>>

(* The page is rendered from the rows read, then the transaction ends. *)
Read(r) ==
  /\ pc[r] = "act" /\ kind[r] = "read"
  /\ End(r)
  /\ UNCHANGED review

Select(r) ==
  /\ pc[r] = "act" /\ kind[r] = "select"
  /\ \E e \in Events \ Written : author' = [author EXCEPT ![e] = ask[r].visit]
  /\ End(r)
  /\ UNCHANGED <<row, visits, stamp, completed, lapsed>>

Complete(r) ==
  /\ pc[r] = "act" /\ kind[r] = "complete"
  /\ completed' = completed \cup {ask[r].visit}
  /\ row' = IF seen[r].status = "shared" THEN [row EXCEPT !.status = "completed"] ELSE row
  /\ End(r)
  /\ UNCHANGED <<visits, stamp, lapsed, author>>

-----------------------------------------------------------------------------
(* Requests of the owner.                                                  *)

CredentialKinds == {"share", "revoke", "password"}

(* Bound: no credential change takes the epoch beyond MaxEpoch. *)
RoomForEpoch ==
  row.epoch + Cardinality({q \in Requests : kind[q] \in CredentialKinds}) < MaxEpoch

OwnerArrives(r, k, pw) ==
  /\ row.status # "deleted"
  /\ k \in CredentialKinds => RoomForEpoch
  /\ Begin(r, k, [NoAsk EXCEPT !.password = pw])

AllowedTransitions ==
  [draft |-> {"shared"}, shared |-> {"completed"},
   completed |-> {"archived", "shared"}, archived |-> {"shared"}, deleted |-> {}]

(* change_gallery_status validates the row that was read without a lock. *)
StatusArrives(r, target) ==
  /\ target \in AllowedTransitions[row.status]
  /\ target = "shared" => row.token # 0
  /\ Begin(r, "status", [NoAsk EXCEPT !.target = target])

(* lock_owned_gallery_authorization reads the row again under its lock.    *)
OwnerChecked(r) ==
  /\ pc[r] = "check" /\ kind[r] \in CredentialKinds \cup {"delete"}
  /\ IF row.status = "deleted"
       THEN End(r)
       ELSE /\ pc' = [pc EXCEPT ![r] = "act"]
            /\ seen' = [seen EXCEPT ![r] = row]
            /\ UNCHANGED <<held, kind, ask>>
  /\ UNCHANGED review

NextEpoch(r) == seen[r].epoch + 1

WithCredentials(r) ==
  CASE kind[r] = "share" ->
         [status |-> IF seen[r].status = "draft" THEN "shared" ELSE row.status,
          token |-> NextEpoch(r), password |-> ask[r].password, epoch |-> NextEpoch(r)]
    [] kind[r] = "revoke" ->
         [status |-> IF seen[r].status = "shared" THEN "draft" ELSE row.status,
          token |-> 0, password |-> None, epoch |-> NextEpoch(r)]
    [] kind[r] = "password" ->
         [row EXCEPT !.password = ask[r].password, !.epoch = NextEpoch(r)]

ChangeCredentials(r) ==
  /\ pc[r] = "act" /\ kind[r] \in CredentialKinds
  /\ row' = IF row.status = "deleted" THEN row ELSE WithCredentials(r)
  /\ End(r)
  /\ UNCHANGED <<visits, stamp, completed, lapsed, author>>

(* The UPDATE waits for the row and writes the status decided before; a    *)
(* row that is gone fails it.                                              *)
ChangeStatus(r) ==
  /\ pc[r] = "check" /\ kind[r] = "status"
  /\ row' = IF row.status = "deleted" THEN row ELSE [row EXCEPT !.status = ask[r].target]
  /\ End(r)
  /\ UNCHANGED <<visits, stamp, completed, lapsed, author>>

(* purge_gallery as far as the review goes: events, visits, gallery.       *)
Delete(r) ==
  /\ pc[r] = "act" /\ kind[r] = "delete"
  /\ row' = [row EXCEPT !.status = "deleted", !.token = 0, !.password = None]
  /\ Drop(visits)
  /\ End(r)
  /\ UNCHANGED stamp

-----------------------------------------------------------------------------
(* A refusal, an error or a cancellation: ROLLBACK. *)
GiveUp(r) ==
  /\ pc[r] # "idle"
  /\ End(r)
  /\ UNCHANGED review

(* settings.share_session_ttl_seconds have passed. *)
Lapse(v) ==
  /\ v \in visits \ lapsed
  /\ lapsed' = lapsed \cup {v}
  /\ UNCHANGED <<row, visits, stamp, completed, author, held, pc, kind, ask, seen>>

Arrive(r) ==
  \/ \E token \in 1..MaxEpoch, v \in Visits \cup {None} :
       \/ \E pw \in Passwords \cup {None} : GuestArrives(r, "enter", token, v, pw)
       \/ \E k \in {"read", "select", "complete"} : GuestArrives(r, k, token, v, None)
  \/ \E k \in {"share", "password"}, pw \in Passwords \cup {None} : OwnerArrives(r, k, pw)
  \/ \E k \in {"revoke", "delete"} : OwnerArrives(r, k, None)
  \/ \E target \in Statuses : StatusArrives(r, target)

Work(r) ==
  \/ EnterChecked(r) \/ GrantChecked(r) \/ OwnerChecked(r)
  \/ Enter(r) \/ Read(r) \/ Select(r) \/ Complete(r)
  \/ ChangeCredentials(r) \/ ChangeStatus(r) \/ Delete(r)

Next ==
  \/ \E r \in Requests : Arrive(r) \/ Acquire(r) \/ Work(r) \/ GiveUp(r)
  \/ \E v \in Visits : Lapse(v)

Spec == Init /\ [][Next]_vars

(* PostgreSQL grants a lock that stays free and the event loop runs every  *)
(* coroutine; neither clients nor clocks owe us anything.                  *)
Fairness == \A r \in Requests : WF_vars(Acquire(r)) /\ WF_vars(Work(r))
FairSpec == Spec /\ Fairness

-----------------------------------------------------------------------------
(* Properties.                                                             *)

(* What a guest handler was granted still holds at the instant it writes   *)
(* or renders: the link resolves, the visit belongs to the gallery's       *)
(* present credentials, and nothing is reviewed after completion.          *)
(* lock_gallery_for_review, current_share_session, guest/router.py.        *)
GrantStillGood ==
  \A r \in Requests : (pc[r] = "act" /\ kind[r] \in GuestKinds) =>
    /\ Resolves(row, ask[r].token)
    /\ kind[r] = "enter" => PasswordFits(row, ask[r].password) /\ seen[r].epoch = row.epoch
    /\ kind[r] = "read" /\ row.password # None =>
         ask[r].visit \in visits /\ stamp[ask[r].visit] = row.epoch
    /\ kind[r] \in {"select", "complete"} =>
         /\ row.status = "shared"
         /\ ask[r].visit \in visits /\ stamp[ask[r].visit] = row.epoch

(* However many guests arrive at once, a gallery never retains more visits *)
(* than the limit: counting and inserting are one critical section.        *)
(* create_share_session.                                                   *)
VisitsWithinLimit == Cardinality(visits) <= VisitLimit

(* Concurrent selections on different images never overrun the history     *)
(* budget of the gallery.  lock_selection_budget, assert_selection_budget. *)
BudgetKept == Cardinality(Written) <= EventLimit

(* No request rewrites or loses a selection, or its attribution to a visit *)
(* that still exists, until the gallery itself is deleted: sweeping visits *)
(* must not cascade into the history.  cleanup_expired_share_sessions.     *)
HistoryKept ==
  [][row'.status # "deleted" =>
       \A e \in Written : author'[e] = author[e] /\ author[e] \in visits']_vars

(* Every change of the link or of the password starts one new              *)
(* authorization epoch, so no grant outlives its credentials.              *)
(* galleries/management.py.                                                *)
CredentialsStampEpoch ==
  [][row'.status # "deleted" =>
       /\ row'.token # row.token \/ row'.password # row.password => row'.epoch > row.epoch
       /\ row'.epoch \in {row.epoch, row.epoch + 1}]_vars

(* A review is completed by one visit, out of an open review, and closes   *)
(* the gallery in the same commit.  complete_review.                       *)
OneCompletion ==
  [][~(completed' \subseteq completed) =>
       /\ row.status = "shared" /\ row'.status = "completed"
       /\ \E v \in visits : completed' = completed \cup {v}]_vars

(* When requests stop arriving, all that are under way come to an end: the *)
(* order of the locks leaves no circle of waiters.                         *)
(* create_share_session, lock_gallery_for_session_admission.               *)
RequestsDrain ==
  <>[][~\E r \in Requests : Arrive(r)]_vars
    => \A r \in Requests : pc[r] # "idle" ~> pc[r] = "idle"

(* No set of requests, however many take part, waits in a circle: one that *)
(* all its members wait in for one another.  Nobody takes a lock that a    *)
(* request further on in its own order still needs.                        *)
(* lock_gallery_for_session_admission, lock_selection_budget, purge_gallery. *)
WaitsFor(r, q) == pc[r] = "lock" /\ \E l \in held[q] : Conflict(l, NextLock(r))

NoCircleOfWaiters ==
  \A circle \in (SUBSET Requests) \ {{}} : \E r \in circle : \A q \in circle \ {r} : ~WaitsFor(r, q)

Atomic == INSTANCE AtomicReview WITH
  status     <- row.status,
  linked     <- row.token # 0,
  authorized <- {v \in visits : stamp[v] = row.epoch},
  expired    <- lapsed

(* Requests that overlap do to the review what they would do one at a      *)
(* time: nothing is decided on what another has changed before it is done, *)
(* but for the status, and an epoch really withdraws what came before it.  *)
(* guest/router.py, guest/service.py, galleries/management.py.             *)
ImplementsAtomicReview == Atomic!Spec

(* "Cannot share gallery without a share link. Create one first."          *)
(* change_gallery_status checks that on a row nobody locked.               *)
SharedHasLink == row.status = "shared" => row.token # 0
=============================================================================
