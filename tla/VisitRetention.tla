---------------------------- MODULE VisitRetention ----------------------------
(***************************************************************************)
(* The share sessions of one gallery under its admission lock: every       *)
(* admission of a guest reclaims one window of expired sessions behind a   *)
(* durable cursor, then admits or refuses.  Sessions that gave a selection *)
(* or an audit entry are kept for ever and fill the window; writers of     *)
(* such entries hold the session's row and are skipped.                    *)
(*                                                                         *)
(* Data abstracted away.  A session is its position in the order           *)
(* (expires_at, id); it has expired once the clock has reached it.  Audit  *)
(* entries of guests exist only from older versions of the program.  The   *)
(* gallery row, which today's writers lock as well, is not relied on: any  *)
(* writer in flight may hold a session, as the code's comment has it.      *)
(***************************************************************************)
EXTENDS Integers, FiniteSets

CONSTANTS
  LastVisit, \* bound on the sessions
  BatchSize, \* SHARE_SESSION_CLEANUP_BATCH_SIZE
  MaxVisits  \* max_share_sessions_per_gallery

ASSUME RetentionAssumption ==
  LastVisit \in Nat /\ BatchSize \in Nat \ {0} /\ MaxVisits \in Nat

Visits == 1..LastVisit

VARIABLES
  hour,       \* sessions up to here have expired
  visits,     \* share_sessions
  finished,   \* those with completed_at
  history,    \* those that selections or audit entries refer to
  held,       \* rows that a writer of such an entry holds
  checkpoint, \* share_session_cleanup_states, 0 for none
  admission   \* the transaction under the admission lock

retentionVars == <<hour, visits, finished, history, held, checkpoint, admission>>

NoAdmission == [at |-> "none", window |-> {}, locked |-> {}, cursor |-> 0, now |-> 0]

RetentionTypeOK ==
  /\ hour \in 0..LastVisit
  /\ visits \subseteq Visits /\ finished \subseteq Visits /\ held \subseteq Visits
  /\ history \subseteq Visits
  /\ checkpoint \in 0..LastVisit
  /\ admission \in [at : {"none", "windowed", "locked"}, window : SUBSET Visits, locked : SUBSET Visits,
                    cursor : 0..LastVisit, now : 0..LastVisit]

RetentionInit ==
  /\ hour = 0
  /\ visits \in SUBSET Visits
  /\ history \in SUBSET visits
  /\ finished = {} /\ held = {}
  /\ checkpoint = 0
  /\ admission = NoAdmission

-----------------------------------------------------------------------------
Valid(v) == v \in visits /\ v > hour

HourPasses ==
  /\ hour < LastVisit
  /\ hour' = hour + 1
  /\ UNCHANGED <<visits, finished, history, held, checkpoint, admission>>

\* A guest whose session was good when it was checked writes an entry; the
\* reference locks the row against deletion until the transaction ends.
EntryBegins(v) ==
  /\ Valid(v) /\ v \notin held \cup admission.locked
  /\ held' = held \cup {v}
  /\ UNCHANGED <<hour, visits, finished, history, checkpoint, admission>>

EntryEnds(v, entered) ==
  /\ v \in held
  /\ held' = held \ {v}
  /\ history' = IF entered THEN history \cup {v} ELSE history
  /\ UNCHANGED <<hour, visits, finished, checkpoint, admission>>

ReviewCompleted(v) ==
  /\ Valid(v) /\ admission.at = "none"
  /\ finished' = finished \cup {v}
  /\ UNCHANGED <<hour, visits, history, held, checkpoint, admission>>

-----------------------------------------------------------------------------
(* cleanup_expired_share_sessions inside create_share_session *)

Reclaimable(v)  == v \in visits /\ v <= hour /\ v \notin finished \cup history
Lapsed(now)     == {v \in visits \ finished : v <= now}
Beyond(v)       == {w \in Lapsed(hour) : w > v}
FirstVisits(vs) == {v \in vs : Cardinality({w \in vs : w <= v}) <= BatchSize}

(* Defect: the cursor does not wrap at the end. *)
WindowBeyond == FirstVisits(Beyond(checkpoint))

\* The window behind the checkpoint, or the first one when that is empty.
Window == FirstVisits(IF Beyond(checkpoint) = {} THEN Lapsed(hour) ELSE Beyond(checkpoint))

LastIn(window) == IF window = {} THEN checkpoint ELSE CHOOSE v \in window : \A w \in window : w <= v

AdmissionReads ==
  /\ admission.at = "none"
  /\ admission' = [at |-> "windowed", window |-> Window, locked |-> {}, cursor |-> LastIn(Window), now |-> hour]
  /\ UNCHANGED <<hour, visits, finished, history, held, checkpoint>>

\* FOR UPDATE SKIP LOCKED
AdmissionLocks ==
  /\ admission.at = "windowed"
  /\ admission' = [admission EXCEPT !.at = "locked", !.locked = admission.window \ held]
  /\ UNCHANGED <<hour, visits, finished, history, held, checkpoint>>

(* Defect: what refers to a session is not asked once the row is locked. *)
DeletedUnasked == admission.locked \cap Lapsed(admission.now)

\* The guest is admitted while there is room; a refusal commits as well, to
\* keep what was reclaimed and the cursor.  A new session expires later.
Deleted == (admission.locked \cap Lapsed(admission.now)) \ history
Kept    == visits \ Deleted
Fresh   == {v \in Visits : v > hour /\ v \notin visits}

AdmissionCommits ==
  /\ admission.at = "locked"
  /\ IF Cardinality(Kept) >= MaxVisits \/ Fresh = {}
       THEN visits' = Kept
       ELSE \E v \in Fresh : visits' = Kept \cup {v}
  /\ checkpoint' = admission.cursor
  /\ admission' = NoAdmission
  /\ UNCHANGED <<hour, finished, history, held>>

AdmissionFails ==
  /\ admission.at # "none"
  /\ admission' = NoAdmission
  /\ UNCHANGED <<hour, visits, finished, history, held, checkpoint>>

-----------------------------------------------------------------------------
RetentionNext ==
  \/ HourPasses
  \/ \E v \in Visits : EntryBegins(v) \/ ReviewCompleted(v) \/ \E entered \in BOOLEAN : EntryEnds(v, entered)
  \/ AdmissionReads \/ AdmissionLocks \/ AdmissionCommits \/ AdmissionFails

\* Guests keep knocking and not every admission fails; a writer's transaction ends.
RetentionFairness ==
  /\ WF_retentionVars(AdmissionReads) /\ SF_retentionVars(AdmissionLocks) /\ SF_retentionVars(AdmissionCommits)
  /\ \A v \in Visits : WF_retentionVars(\E entered \in BOOLEAN : EntryEnds(v, entered))

RetentionSpec == RetentionInit /\ [][RetentionNext]_retentionVars /\ RetentionFairness

-----------------------------------------------------------------------------
(* "Never cascade selection history or orphan an audit attribution": what  *)
(* refers to a session finds it, although the window was read before the   *)
(* entry was committed (cleanup_expired_share_sessions).                   *)
HistoryKept == history \cup held \cup finished \subseteq visits

(* A gallery at its limit does not stay closed while a session in it could *)
(* be reclaimed: the cursor gets to it past any number of protected ones,  *)
(* and past the failures of single admissions.                             *)
FullGalleryReopens ==
  (Cardinality(visits) >= MaxVisits /\ \E v \in Visits : Reclaimable(v))
    ~> (Cardinality(visits) < MaxVisits \/ ~ \E v \in Visits : Reclaimable(v))
===============================================================================
