----------------------------- MODULE LogoutLedger -----------------------------
(***************************************************************************)
(* Logout and the revocation ledger: a token that was logged out must stay *)
(* refused although every logout also cleans expired rows out of the       *)
(* ledger, and although a request reads the clock before it reads the      *)
(* ledger.  Every read and every commit is a step of its own; time passes  *)
(* between any two of them.                                                *)
(*                                                                         *)
(* Data abstracted away.  A token is its fingerprint; its signature always *)
(* verifies.  The checks of the account itself are in TokenCutOff.         *)
(***************************************************************************)
EXTENDS AccessTokens

CONSTANTS
  Requests,    \* concurrent requests
  Fingerprints, \* tokens ever issued
  NoToken      \* no token presented, or a malformed one

ASSUME LedgerAssumption == NoToken \notin Fingerprints

VARIABLES
  now,       \* the server clock
  issued,    \* when a token was created
  revoked,   \* rows of revoked_tokens
  loggedOut, \* tokens whose logout was answered
  request    \* the requests

ledgerVars == <<now, issued, revoked, loggedOut, request>>

Quiet == [at |-> "idle", token |-> NoToken, read |-> Never, late |-> FALSE]

LedgerTypeOK ==
  /\ now \in 0..MaxTick
  /\ issued \in [Fingerprints -> Ticks]
  /\ revoked \subseteq Fingerprints
  /\ loggedOut \subseteq Fingerprints
  /\ request \in [Requests -> [at : {"idle", "decoded", "accepted", "leaving", "committed"},
                               token : Fingerprints \cup {NoToken}, read : Ticks, late : BOOLEAN]]

LedgerInit ==
  /\ now = 0
  /\ issued = [t \in Fingerprints |-> Never]
  /\ revoked = {}
  /\ loggedOut = {}
  /\ request = [r \in Requests |-> Quiet]

-----------------------------------------------------------------------------
\* decode_access_token
Decodes(t) == t \in Fingerprints /\ issued[t] # Never /\ Unexpired(issued[t], now)

RequestStep(r, from, record) ==
  /\ request[r].at = from
  /\ request' = [request EXCEPT ![r] = record]

LedgerClock ==
  /\ now < MaxTick
  /\ now' = now + 1
  /\ UNCHANGED <<issued, revoked, loggedOut, request>>

TokenIssued(t) ==
  /\ issued[t] = Never
  /\ issued' = [issued EXCEPT ![t] = now]
  /\ UNCHANGED <<now, revoked, loggedOut, request>>

\* get_current_user and get_user_from_cookie: decode, then ask the ledger.
TokenPresented(r, t) ==
  /\ Decodes(t)
  /\ RequestStep(r, "idle", [Quiet EXCEPT !.at = "decoded", !.token = t, !.late = (t \in loggedOut)])
  /\ UNCHANGED <<now, issued, revoked, loggedOut>>

LedgerAsked(r) ==
  /\ RequestStep(r, "decoded", IF request[r].token \in revoked THEN Quiet
                                                               ELSE [request[r] EXCEPT !.at = "accepted"])
  /\ UNCHANGED <<now, issued, revoked, loggedOut>>

RequestServed(r) ==
  /\ RequestStep(r, "accepted", Quiet)
  /\ UNCHANGED <<now, issued, revoked, loggedOut>>

\* logout_credential.  A header beside a good cookie must carry the same
\* credential; without a header the cookie is the credential.
Conflict(cookie, header) ==
  header # "none" /\ Decodes(cookie) /\ (~ Decodes(header) \/ header # cookie)

LogoutArrives(r, cookie, header) ==
  LET t == IF header = "none" THEN cookie ELSE header
  IN  /\ ~ Conflict(cookie, header) /\ Decodes(t)
      /\ RequestStep(r, "idle", [Quiet EXCEPT !.at = "leaving", !.token = t, !.read = now])
      /\ UNCHANGED <<now, issued, revoked, loggedOut>>

\* One transaction: expired rows go, the row of the credential comes.  The
\* cleanup takes a bounded batch and skips locked rows, so it may be any part.
Expired(r) == {t \in revoked : ExpiresAt(issued[t]) <= request[r].read}

LogoutCommits(r) ==
  /\ \E batch \in SUBSET Expired(r) : revoked' = (revoked \ batch) \cup {request[r].token}
  /\ RequestStep(r, "leaving", [Quiet EXCEPT !.at = "committed", !.token = request[r].token])
  /\ UNCHANGED <<now, issued, loggedOut>>

LogoutFails(r) ==
  /\ RequestStep(r, "leaving", Quiet)
  /\ UNCHANGED <<now, issued, revoked, loggedOut>>

\* Only after the commit is the cookie deleted and the logout answered.
LogoutAnswered(r) ==
  /\ loggedOut' = loggedOut \cup {request[r].token}
  /\ RequestStep(r, "committed", Quiet)
  /\ UNCHANGED <<now, issued, revoked>>

-----------------------------------------------------------------------------
LedgerRequest(r) ==
  \/ \E t \in Fingerprints : TokenPresented(r, t)
  \/ LedgerAsked(r) \/ RequestServed(r)
  \/ \E cookie \in Fingerprints \cup {NoToken}, header \in Fingerprints \cup {NoToken, "none"} :
       LogoutArrives(r, cookie, header)
  \/ LogoutCommits(r) \/ LogoutFails(r) \/ LogoutAnswered(r)

LedgerNext ==
  \/ LedgerClock
  \/ \E t \in Fingerprints : TokenIssued(t)
  \/ \E r \in Requests : LedgerRequest(r)

LedgerSpec == LedgerInit /\ [][LedgerNext]_ledgerVars

-----------------------------------------------------------------------------
(* A logout that was answered is durable: its row stays in the ledger for  *)
(* as long as the token would decode, whatever other logouts clean up      *)
(* meanwhile (logout_credential, cleanup_revoked_tokens).                  *)
AnsweredLogoutDurable == \A t \in loggedOut : t \in revoked \/ ~ Decodes(t)

(* A request that presents a token after its logout was answered is let in *)
(* only if the token expired while the request was being checked: the row  *)
(* may be cleaned between the decoding and the ledger query.               *)
LoggedOutRefused == \A r \in Requests :
  request[r].at = "accepted" /\ request[r].late => ~ Decodes(request[r].token)
===============================================================================
