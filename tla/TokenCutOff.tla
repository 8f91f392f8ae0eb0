------------------------------ MODULE TokenCutOff ------------------------------
(***************************************************************************)
(* The cut-off tokens_valid_after of one account: login, the account check *)
(* of an authenticated request, and the administrator's password reset,    *)
(* lock and unlock.  A handler reads the account, computes and commits in  *)
(* steps; time passes between any two of them.                             *)
(*                                                                         *)
(* Data abstracted away.  A login's password is always right, also a       *)
(* replaced one verified before the reset commits; a token neither expires *)
(* nor is logged out here (that is LogoutLedger).                          *)
(***************************************************************************)
EXTENDS AccessTokens

CONSTANTS
  Callers,  \* concurrent requests
  Logins,   \* tokens ever issued to the account
  NoLogin   \* no token

ASSUME CutOffAssumption == NoLogin \notin Logins

VARIABLES
  clock,   \* the server clock
  token,   \* when a token was issued
  account, \* users: tokens_valid_after, status
  caller   \* the requests

cutOffVars == <<clock, token, account, caller>>

NoCall == [at |-> "idle", token |-> NoLogin, stamp |-> Never]

CutOffTypeOK ==
  /\ clock \in 0..MaxTick
  /\ token \in [Logins -> Ticks]
  /\ account \in [validAfter : Ticks, disabled : BOOLEAN]
  /\ caller \in [Callers -> [at : {"idle", "verified", "accepted", "resetting", "locking"},
                             token : Logins \cup {NoLogin}, stamp : Ticks]]

CutOffInit ==
  /\ clock = 0
  /\ token = [t \in Logins |-> Never]
  /\ account = [validAfter |-> Never, disabled |-> FALSE]
  /\ caller = [c \in Callers |-> NoCall]

-----------------------------------------------------------------------------
CallerStep(c, from, record) ==
  /\ caller[c].at = from
  /\ caller' = [caller EXCEPT ![c] = record]

CutOffClock ==
  /\ clock < MaxTick
  /\ clock' = clock + 1
  /\ UNCHANGED <<token, account, caller>>

\* Login reads the account and verifies the password against what it read.
LoginReads(c) ==
  /\ ~ account.disabled
  /\ CallerStep(c, "idle", [NoCall EXCEPT !.at = "verified"])
  /\ UNCHANGED <<clock, token, account>>

LoginIssues(c, t) ==
  /\ token[t] = Never
  /\ token' = [token EXCEPT ![t] = clock]
  /\ CallerStep(c, "verified", NoCall)
  /\ UNCHANGED <<clock, account>>

(* Defect: both times are truncated before they are compared. *)
BeforeCutOffSecond(t) ==
  account.validAfter # Never /\ SecondOf(token[t]) < SecondOf(account.validAfter)

\* _token_revoked: the truncated iat against the exact cut-off.
BeforeCutOff(t) == account.validAfter # Never /\ Iat(token[t]) < account.validAfter

\* get_current_user and get_user_from_cookie with the status gate.
AccountRead(c, t) ==
  /\ token[t] # Never
  /\ ~ account.disabled /\ ~ BeforeCutOff(t)
  /\ CallerStep(c, "idle", [NoCall EXCEPT !.at = "accepted", !.token = t, !.stamp = account.validAfter])
  /\ UNCHANGED <<clock, token, account>>

CallerServed(c) ==
  /\ CallerStep(c, "accepted", NoCall)
  /\ UNCHANGED <<clock, token, account>>

\* The cut-off is taken from the clock, then written with the commit.
ResetStarts(c) ==
  /\ CallerStep(c, "idle", [NoCall EXCEPT !.at = "resetting", !.stamp = clock])
  /\ UNCHANGED <<clock, token, account>>

ResetCommits(c) ==
  /\ account' = [account EXCEPT !.validAfter = caller[c].stamp]
  /\ CallerStep(c, "resetting", NoCall)
  /\ UNCHANGED <<clock, token>>

LockStarts(c) ==
  /\ ~ account.disabled
  /\ CallerStep(c, "idle", [NoCall EXCEPT !.at = "locking", !.stamp = clock])
  /\ UNCHANGED <<clock, token, account>>

LockCommits(c) ==
  /\ account' = [account EXCEPT !.disabled = TRUE, !.validAfter = caller[c].stamp]
  /\ CallerStep(c, "locking", NoCall)
  /\ UNCHANGED <<clock, token>>

Unlocked ==
  /\ account.disabled
  /\ account' = [account EXCEPT !.disabled = FALSE]
  /\ UNCHANGED <<clock, token, caller>>

-----------------------------------------------------------------------------
CutOffNext ==
  \/ CutOffClock \/ Unlocked
  \/ \E c \in Callers :
       \/ LoginReads(c) \/ CallerServed(c)
       \/ ResetStarts(c) \/ ResetCommits(c) \/ LockStarts(c) \/ LockCommits(c)
       \/ \E t \in Logins : LoginIssues(c, t) \/ AccountRead(c, t)

CutOffSpec == CutOffInit /\ [][CutOffNext]_cutOffVars

-----------------------------------------------------------------------------
(* Truncating iat to a second never lets a token slip past a cut-off taken *)
(* after it was issued, not even within one second (_token_revoked).       *)
CutOffRefusesOlder == \A c \in Callers :
  caller[c].at = "accepted" => token[caller[c].token] >= caller[c].stamp
=============================================================================
