------------------------------- MODULE Accounts -------------------------------
(***************************************************************************)
(* Accounts and who may create them: first-run setup and recovery, signup, *)
(* verification and approval, the administrators' changes of accounts, and *)
(* the gallery slots of an account.                                        *)
(*                                                                         *)
(* A request is one READ COMMITTED transaction.  Each of its statements    *)
(* sees what is committed by then; SELECT ... FOR UPDATE, UPDATE and       *)
(* DELETE wait for the row; the last step writes and commits.              *)
(*                                                                         *)
(* Data abstracted away.  An account is its unique email, a password is    *)
(* the signup it came from (0 when an administrator was set up).  Captcha, *)
(* rate limits, audit rows and notifications are left out; what deleting   *)
(* an account does to stored files is not part of this module.             *)
(***************************************************************************)
EXTENDS Integers, FiniteSets

CONSTANTS
  Requests,   \* concurrent requests
  Emails,     \* email addresses
  MaxSignups, \* bound on pending_signups ids ever drawn
  Limits,     \* effective gallery limits, 0 for unlimited
  MaxOwned,   \* bound on the galleries of one account
  Handlers,   \* the handlers clients call
  None        \* no request, no email

ASSUME AccountsAssumption ==
  /\ None \notin Requests \cup Emails
  /\ MaxSignups \in Nat /\ MaxOwned \in Nat
  /\ Limits \subseteq Nat /\ Limits # {}

VARIABLES
  status,     \* users.status, absent without a row
  password,   \* where the password of an account comes from
  limit,      \* effective gallery limit of an account
  owned,      \* number of its galleries
  signup,     \* pending_signups: email and state
  setupDone,  \* setup_state.completed
  setupLock,  \* holder of the row lock of setup_state
  userLock,   \* holder of the row lock of an account
  signupLock, \* holder of the row lock of a signup
  req         \* the requests

tables == <<status, password, limit, owned, signup, setupDone>>
locks  == <<setupLock, userLock, signupLock>>
vars   == <<tables, locks, req>>

Ids == 1..MaxSignups
UserStatuses == {"active", "admin", "disabled"}
LoginAllowed == {"active", "admin"}
SignupKinds == {"verify", "approve", "reject"}
Idle == [do |-> "none", at |-> "idle", by |-> None, to |-> None, id |-> 0, new |-> "none", limit |-> 0]
Unused == [email |-> None, state |-> "unused"]
InitialLimit == CHOOSE l \in Limits : TRUE

TypeOK ==
  /\ status \in [Emails -> UserStatuses \cup {"absent"}]
  /\ password \in [Emails -> 0..MaxSignups]
  /\ limit \in [Emails -> Limits]
  /\ owned \in [Emails -> 0..MaxOwned]
  /\ signup \in [Ids -> [email : Emails \cup {None},
                         state : {"unused", "unverified", "verified", "gone"}]]
  /\ setupDone \in BOOLEAN
  /\ setupLock \in Requests \cup {None}
  /\ userLock \in [Emails -> Requests \cup {None}]
  /\ signupLock \in [Ids -> Requests \cup {None}]
  /\ \A r \in Requests : req[r].at = "idle" =>
       /\ setupLock # r
       /\ \A e \in Emails : userLock[e] # r
       /\ \A i \in Ids : signupLock[i] # r

Init ==
  /\ status = [e \in Emails |-> "absent"]
  /\ password = [e \in Emails |-> 0]
  /\ limit = [e \in Emails |-> InitialLimit]
  /\ owned = [e \in Emails |-> 0]
  /\ signup = [i \in Ids |-> Unused]
  /\ setupDone = FALSE
  /\ setupLock = None
  /\ userLock = [e \in Emails |-> None]
  /\ signupLock = [i \in Ids |-> None]
  /\ req = [r \in Requests |-> Idle]

-----------------------------------------------------------------------------
(* Transactions.                                                           *)

Begin(r, task) ==
  /\ req[r] = Idle /\ task.do \in Handlers
  /\ req' = [req EXCEPT ![r] = task]
  /\ UNCHANGED <<tables, locks>>

Stands(r, kinds, at) == req[r].do \in kinds /\ req[r].at = at

Goto(r, at) ==
  /\ req' = [req EXCEPT ![r].at = at]
  /\ UNCHANGED locks

(* COMMIT or ROLLBACK and the answer. *)
Finish(r) ==
  /\ req' = [req EXCEPT ![r] = Idle]
  /\ setupLock' = IF setupLock = r THEN None ELSE setupLock
  /\ userLock' = [e \in Emails |-> IF userLock[e] = r THEN None ELSE userLock[e]]
  /\ signupLock' = [i \in Ids |-> IF signupLock[i] = r THEN None ELSE signupLock[i]]

(* An error, a timeout or a cancellation before COMMIT. *)
GiveUp(r) == req[r] # Idle /\ Finish(r) /\ UNCHANGED tables

-----------------------------------------------------------------------------
(* First-run setup and recovery on the operator's console.                 *)

NoUsers == \A e \in Emails : status[e] = "absent"

Unclaimed(k) == NoUsers /\ (k = "setup" => ~setupDone)

SetupArrives(r, k, e) ==
  /\ k = "setup" => NoUsers
  /\ Begin(r, [Idle EXCEPT !.do = k, !.at = "lock", !.to = e])

(* Defect: setup_state is read without FOR UPDATE. *)
ClaimUnlocked(r, at) == Goto(r, at)

(* SELECT ... FOR UPDATE of the row of setup_state, kept until COMMIT. *)
TakeClaim(r, at) ==
  /\ setupLock \in {None, r} /\ setupLock' = r
  /\ req' = [req EXCEPT ![r].at = at]
  /\ UNCHANGED <<userLock, signupLock>>

SetupLocks(r) ==
  /\ Stands(r, {"setup", "recover"}, "lock")
  /\ TakeClaim(r, "check")
  /\ UNCHANGED tables

(* Setup that finds accounts consumes the claim for good. *)
SetupChecked(r) ==
  /\ Stands(r, {"setup", "recover"}, "check")
  /\ IF Unclaimed(req[r].do)
       THEN Goto(r, "insert") /\ UNCHANGED setupDone
       ELSE Finish(r) /\ setupDone' = (setupDone \/ (req[r].do = "setup" /\ ~NoUsers))
  /\ UNCHANGED <<status, password, limit, owned, signup>>

(* INSERT: the trigger guard_admin_insert takes the claim too and decides  *)
(* once more.  Its exception is a GiveUp.                                  *)
AdminInserted(r) ==
  /\ Stands(r, {"setup", "recover"}, "insert")
  /\ Unclaimed(req[r].do)
  /\ TakeClaim(r, "commit")
  /\ UNCHANGED tables

AdminCommitted(r) ==
  /\ Stands(r, {"setup", "recover"}, "commit")
  /\ status' = [status EXCEPT ![req[r].to] = "admin"]
  /\ setupDone' = TRUE
  /\ Finish(r)
  /\ UNCHANGED <<password, limit, owned, signup>>

(* users.email is unique: an uncommitted row makes others wait. *)
Inserting(e) == \E r \in Requests : Stands(r, {"setup", "recover"}, "commit") /\ req[r].to = e

-----------------------------------------------------------------------------
(* Signup, verification, approval.                                         *)

Pending(e) == {i \in Ids : signup[i].email = e /\ signup[i].state \in {"unverified", "verified"}}

(* Two statements look for the email, first among accounts. *)
SignupArrives(r, e) ==
  /\ status[e] = "absent"
  /\ Begin(r, [Idle EXCEPT !.do = "signup", !.at = "existing", !.to = e])

SignupLooked(r) ==
  /\ Stands(r, {"signup"}, "existing")
  /\ IF Pending(req[r].to) = {} THEN Goto(r, "insert") ELSE Finish(r)
  /\ UNCHANGED tables

(* pending_signups.email is unique. *)
SignupInserted(r) ==
  /\ Stands(r, {"signup"}, "insert")
  /\ IF Pending(req[r].to) # {}
       THEN UNCHANGED signup
       ELSE \E i \in Ids : /\ signup[i] = Unused /\ \A j \in 1..(i - 1) : signup[j] # Unused
                           /\ signup' = [signup EXCEPT ![i] = [email |-> req[r].to, state |-> "unverified"]]
  /\ Finish(r)
  /\ UNCHANGED <<status, password, limit, owned, setupDone>>

(* The link is resolved without a lock; an administrator names the row. *)
SignupNamed(r, k, a, i) ==
  /\ IF k = "verify" THEN signup[i].state = "unverified" ELSE status[a] = "admin"
  /\ signup[i] # Unused
  /\ Begin(r, [Idle EXCEPT !.do = k, !.at = "lock", !.by = a, !.id = i])

(* lock_pending_signup *)
SignupLocks(r) ==
  /\ Stands(r, SignupKinds, "lock") /\ signupLock[req[r].id] = None
  /\ IF signup[req[r].id].state = "gone"
       THEN Finish(r)
       ELSE /\ signupLock' = [signupLock EXCEPT ![req[r].id] = r]
            /\ req' = [req EXCEPT ![r].at = "act"]
            /\ UNCHANGED <<setupLock, userLock>>
  /\ UNCHANGED tables

Verified(r) ==
  /\ Stands(r, {"verify"}, "act")
  /\ signup' = IF signup[req[r].id].state = "unverified"
                 THEN [signup EXCEPT ![req[r].id].state = "verified"] ELSE signup
  /\ Finish(r)
  /\ UNCHANGED <<status, password, limit, owned, setupDone>>

(* Defect: ON CONFLICT replaces the password of the account. *)
InsertOrReplace(e, i) ==
  /\ status' = [status EXCEPT ![e] = IF @ = "absent" THEN "active" ELSE @]
  /\ password' = [password EXCEPT ![e] = i]

(* INSERT ... ON CONFLICT (email) DO NOTHING *)
InsertUnlessPresent(e, i) ==
  /\ status' = [status EXCEPT ![e] = IF @ = "absent" THEN "active" ELSE @]
  /\ password' = [password EXCEPT ![e] = IF status[e] = "absent" THEN i ELSE @]

Approved(r) ==
  /\ Stands(r, {"approve"}, "act")
  /\ LET i == req[r].id IN
       IF signup[i].state = "verified"
         THEN /\ ~Inserting(signup[i].email)
              /\ InsertUnlessPresent(signup[i].email, i)
              /\ signup' = [signup EXCEPT ![i].state = "gone"]
         ELSE UNCHANGED <<status, password, signup>>
  /\ Finish(r)
  /\ UNCHANGED <<limit, owned, setupDone>>

Rejected(r) ==
  /\ Stands(r, {"reject"}, "act")
  /\ signup' = [signup EXCEPT ![req[r].id].state = "gone"]
  /\ Finish(r)
  /\ UNCHANGED <<status, password, limit, owned, setupDone>>

-----------------------------------------------------------------------------
(* Administration of accounts.                                             *)

Admins == {e \in Emails : status[e] = "admin"}

(* require_admin read the actor's row. *)
AdminArrives(r, k, a, e, new, l) ==
  /\ status[a] = "admin"
  /\ Begin(r, [Idle EXCEPT !.do = k, !.at = IF k = "limit" THEN "write" ELSE "check",
                           !.by = a, !.to = e, !.new = new, !.limit = l])

(* S1 and S2: not oneself, not the last remaining administrator. *)
TargetChecked(r) ==
  /\ Stands(r, {"status", "delete"}, "check")
  /\ LET old == status[req[r].to]
     IN  IF \/ old = "absent" \/ req[r].to = req[r].by \/ req[r].new = old
            \/ old = "admin" /\ req[r].new # "admin" /\ Cardinality(Admins) <= 1
           THEN Finish(r)
           ELSE Goto(r, "write")
  /\ UNCHANGED tables

(* UPDATE and DELETE wait for the row; a row that is gone matches nothing. *)
CanWriteUser(r) == userLock[req[r].to] = None

StatusWritten(r) ==
  /\ Stands(r, {"status"}, "write") /\ CanWriteUser(r)
  /\ status' = [status EXCEPT ![req[r].to] = IF @ = "absent" THEN @ ELSE req[r].new]
  /\ Finish(r)
  /\ UNCHANGED <<password, limit, owned, signup, setupDone>>

AccountDeleted(r) ==
  /\ Stands(r, {"delete"}, "write") /\ CanWriteUser(r)
  /\ status' = [status EXCEPT ![req[r].to] = "absent"]
  /\ password' = [password EXCEPT ![req[r].to] = 0]
  /\ limit' = [limit EXCEPT ![req[r].to] = InitialLimit]
  /\ owned' = [owned EXCEPT ![req[r].to] = 0]
  /\ Finish(r)
  /\ UNCHANGED <<signup, setupDone>>

LimitWritten(r) ==
  /\ Stands(r, {"limit"}, "write") /\ CanWriteUser(r)
  /\ limit' = [limit EXCEPT ![req[r].to] =
                 IF status[req[r].to] = "absent" THEN @ ELSE req[r].limit]
  /\ Finish(r)
  /\ UNCHANGED <<status, password, owned, signup, setupDone>>

-----------------------------------------------------------------------------
(* Gallery slots.                                                          *)

SlotArrives(r, e) ==
  /\ status[e] \in LoginAllowed
  /\ Begin(r, [Idle EXCEPT !.do = "gallery", !.at = "lock", !.to = e])

(* Defect: the slot is counted without locking the account. *)
CountWithoutLock(r) == Goto(r, "count")

LockAccount(r) ==
  /\ userLock' = [userLock EXCEPT ![req[r].to] = r]
  /\ req' = [req EXCEPT ![r].at = "count"]
  /\ UNCHANGED <<setupLock, signupLock>>

(* reserve_gallery_slot reads the override under the lock of the account.  *)
SlotLocks(r) ==
  /\ Stands(r, {"gallery"}, "lock") /\ CanWriteUser(r)
  /\ LockAccount(r)
  /\ UNCHANGED tables

SlotCounted(r) ==
  /\ Stands(r, {"gallery"}, "count")
  /\ LET e == req[r].to
     IN  IF limit[e] > 0 /\ owned[e] >= limit[e] THEN Finish(r) ELSE Goto(r, "insert")
  /\ UNCHANGED tables

(* The foreign key refuses the gallery of an account that is gone. *)
GalleryInserted(r) ==
  /\ Stands(r, {"gallery"}, "insert")
  /\ LET e == req[r].to
     IN  /\ status[e] # "absent" /\ owned[e] < MaxOwned
         /\ owned' = [owned EXCEPT ![e] = @ + 1]
  /\ Finish(r)
  /\ UNCHANGED <<status, password, limit, signup, setupDone>>

GalleryDeleted(e) ==
  /\ owned[e] > 0
  /\ owned' = [owned EXCEPT ![e] = @ - 1]
  /\ UNCHANGED <<status, password, limit, signup, setupDone, locks, req>>

-----------------------------------------------------------------------------
Arrive(r) ==
  \E e \in Emails :
    \/ \E k \in {"setup", "recover"} : SetupArrives(r, k, e)
    \/ SignupArrives(r, e)
    \/ SlotArrives(r, e)
    \/ \E k \in SignupKinds, i \in Ids : SignupNamed(r, k, IF k = "verify" THEN None ELSE e, i)
    \/ \E a \in Emails : \/ \E new \in UserStatuses : AdminArrives(r, "status", a, e, new, 0)
                         \/ AdminArrives(r, "delete", a, e, "none", 0)
                         \/ \E l \in Limits : AdminArrives(r, "limit", a, e, "none", l)

Work(r) ==
  \/ SetupLocks(r) \/ SetupChecked(r) \/ AdminInserted(r) \/ AdminCommitted(r)
  \/ SignupLooked(r) \/ SignupInserted(r)
  \/ SignupLocks(r) \/ Verified(r) \/ Approved(r) \/ Rejected(r)
  \/ TargetChecked(r) \/ StatusWritten(r) \/ AccountDeleted(r) \/ LimitWritten(r)
  \/ SlotLocks(r) \/ SlotCounted(r) \/ GalleryInserted(r)

Next ==
  \/ \E r \in Requests : Arrive(r) \/ Work(r) \/ GiveUp(r)
  \/ \E e \in Emails : GalleryDeleted(e)

Spec == Init /\ [][Next]_vars

-----------------------------------------------------------------------------
(* Properties.                                                             *)

(* Bootstraps do not meet.  When an administrator appears out of nothing,  *)
(* whoever already has an account was approved from a signup (the table    *)
(* was empty at the INSERT, an approval may have come before the COMMIT)   *)
(* and was not bootstrapped as well; and once the claim is consumed, only  *)
(* the recovery at the console makes one.                                  *)
(* frontend/setup.py, cli/recover_admin.py, migration 0010.                *)
BootstrapsApart ==
  [][\A e \in Emails : status[e] = "absent" /\ status'[e] = "admin" =>
       /\ \A f \in Emails : status[f] # "absent" => password[f] # 0
       /\ setupDone => \E r \in Requests : /\ Stands(r, {"recover"}, "commit")
                                           /\ req[r].to = e /\ req'[r] = Idle]_vars

(* An account gets the password of a signup only when it is created, from  *)
(* the verified signup of its own email: approving a signup that raced the *)
(* account's creation never replaces credentials.  approve_pending_signup. *)
AccountsFromVerified ==
  [][\A e \in Emails : password'[e] # password[e] /\ password'[e] # 0 =>
       /\ status[e] = "absent"
       /\ signup[password'[e]] = [email |-> e, state |-> "verified"]]_vars

(* No gallery is created beyond the limit that is in force when it is      *)
(* committed, however creations and changes of the limit interleave.       *)
(* reserve_gallery_slot, set_gallery_limit_override.                       *)
SlotsWithinLimit ==
  [][\A e \in Emails : owned'[e] > owned[e] => limit[e] = 0 \/ owned'[e] <= limit[e]]_vars

(* The strengthening that makes SlotsWithinLimit provable: whoever counted *)
(* the galleries of an account still holds its row, so the count is not    *)
(* stale when the gallery is inserted.                                     *)
RequestsTyped ==
  /\ req \in [Requests -> [do : {"none", "setup", "recover", "signup", "status", "delete",
                                 "limit", "gallery"} \cup SignupKinds,
                           at : {"idle", "lock", "check", "existing", "insert", "commit",
                                 "act", "write", "count"},
                           by : Emails \cup {None}, to : Emails \cup {None},
                           id : 0..MaxSignups, new : UserStatuses \cup {"none"},
                           limit : Limits \cup {0}]]
  /\ \A r \in Requests :
       /\ req[r].do = "status" => req[r].new \in UserStatuses
       /\ req[r].do = "limit" => req[r].limit \in Limits

CountersHoldAccount ==
  \A r \in Requests : req[r].do = "gallery" =>
    /\ req[r].to \in Emails
    /\ req[r].at \in {"count", "insert"} => userLock[req[r].to] = r

CountNotStale ==
  \A r \in Requests : Stands(r, {"gallery"}, "insert") =>
    LET e == req[r].to IN limit[e] = 0 \/ owned[e] < limit[e]

AccountsInv ==
  /\ TypeOK /\ RequestsTyped
  /\ CountersHoldAccount /\ CountNotStale

(* The strengthening that makes BootstrapsApart provable: whoever checked  *)
(* the table holds the claim until COMMIT, so all accounts that exist then *)
(* were approved meanwhile; a setup has not lost the claim; approvals name *)
(* a signup.                                                               *)
ClaimHeld ==
  /\ \A r \in Requests :
       /\ req[r].do \in {"setup", "recover"} /\ req[r].at # "lock" => setupLock = r
       /\ req[r].do \in SignupKinds => req[r].id # 0
  /\ \A r \in Requests : Stands(r, {"setup", "recover"}, "commit") =>
       /\ req[r].do = "setup" => ~setupDone
       /\ \A f \in Emails : status[f] # "absent" => password[f] # 0

(* S2: "never demote/lock the last remaining admin" and "never delete the  *)
(* last remaining admin".  change_user_status, delete_user.                *)
AdminRemains == [][Admins # {} => Admins' # {}]_vars
===============================================================================
