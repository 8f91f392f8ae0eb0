------------------------------- MODULE CsrfToken -------------------------------
(***************************************************************************)
(* The double-submit tokens of one browser: several pages load at the same *)
(* time, their answers arrive in any order and set the shared cookie, and  *)
(* login and logout change the session between a page and its form.        *)
(*                                                                         *)
(* Data abstracted away.  A token is the session it was derived from or    *)
(* the number of a random one.  Every form can be a login or logout form.  *)
(* The script that copies the cookie into forms is left out: a page has    *)
(* only the token it was rendered with.                                    *)
(***************************************************************************)
EXTENDS Integers

CONSTANTS
  Pages,     \* pages open in the browser
  Sessions,  \* sessions that logins create, each used once
  NoSession, \* no session, no cookie
  MaxRandom  \* bound on the random tokens

ASSUME CsrfAssumption ==
  NoSession \notin Sessions /\ MaxRandom \in Nat /\ Sessions \cap (1..MaxRandom) = {}

VARIABLES
  session,    \* the session cookie
  csrf,       \* the csrf_token cookie
  spent,      \* sessions that ended
  randoms,    \* random tokens minted so far
  page        \* the pages

csrfVars == <<session, csrf, spent, randoms, page>>

Tokens == Sessions \cup 1..MaxRandom
Blank  == [at |-> "blank", session |-> NoSession, token |-> NoSession, sets |-> FALSE, fresh |-> FALSE]

CsrfTypeOK ==
  /\ session \in Sessions \cup {NoSession}
  /\ csrf \in Tokens \cup {NoSession}
  /\ spent \subseteq Sessions
  /\ randoms \in 0..MaxRandom
  /\ page \in [Pages -> [at : {"blank", "loading", "shown", "posting", "refused"},
                         session : Sessions \cup {NoSession}, token : Tokens \cup {NoSession},
                         sets : BOOLEAN, fresh : BOOLEAN]]

CsrfInit ==
  /\ session = NoSession /\ csrf = NoSession
  /\ spent = {} /\ randoms = 0
  /\ page = [p \in Pages |-> Blank]

-----------------------------------------------------------------------------
PageStep(p, from, record) ==
  /\ page[p].at \in from
  /\ page' = [page EXCEPT ![p] = record]

(* Defect: the cookie of an anonymous visit is not replaced after a login. *)
PageAskedKeepingCookie(p) ==
  LET derived == session # NoSession
      mint    == ~ derived /\ csrf = NoSession
      token   == IF derived THEN session ELSE IF mint THEN randoms + 1 ELSE csrf
  IN  /\ mint => randoms < MaxRandom
      /\ randoms' = IF mint THEN randoms + 1 ELSE randoms
      /\ PageStep(p, {"blank", "shown", "refused"},
           [at |-> "loading", session |-> session, token |-> token, sets |-> (csrf = NoSession), fresh |-> TRUE])
      /\ UNCHANGED <<session, csrf, spent>>

\* A GET carries the cookies of this moment; with a session its token is
\* derived, without one a missing token is minted, and rendered.
PageAsked(p) ==
  LET derived == session # NoSession
      mint    == ~ derived /\ csrf = NoSession
      token   == IF derived THEN session ELSE IF mint THEN randoms + 1 ELSE csrf
  IN  /\ mint => randoms < MaxRandom
      /\ randoms' = IF mint THEN randoms + 1 ELSE randoms
      /\ PageStep(p, {"blank", "shown", "refused"},
           [at |-> "loading", session |-> session, token |-> token, sets |-> (csrf # token), fresh |-> TRUE])
      /\ UNCHANGED <<session, csrf, spent>>

\* The answer arrives and sets the cookie it issued.  History: with it the
\* pages of every other session are no longer fresh.
PageShown(p) ==
  /\ page[p].at = "loading"
  /\ page' = [q \in Pages |->
       IF q = p THEN [page[p] EXCEPT !.at = "shown"]
                ELSE [page[q] EXCEPT !.fresh = @ /\ (page[p].sets => page[q].session = page[p].session)]]
  /\ csrf' = IF page[p].sets THEN page[p].token ELSE csrf
  /\ UNCHANGED <<session, spent, randoms>>

\* The cookies that a POST presents must fit each other and the form.
TokenAccepted(token) ==
  /\ csrf # NoSession
  /\ session # NoSession => csrf = session
  /\ token = csrf

FormPosted(p) ==
  /\ PageStep(p, {"shown"}, [page[p] EXCEPT !.at = IF TokenAccepted(page[p].token) THEN "posting" ELSE "refused",
                                            !.session = session])
  /\ UNCHANGED <<session, csrf, spent, randoms>>

\* The answers of accepted forms; they change only the session cookie.
LoggedIn(p, s) ==
  /\ s \notin spent /\ s # session
  /\ PageStep(p, {"posting"}, Blank)
  /\ session' = s
  /\ spent' = spent \cup ({session} \ {NoSession})
  /\ UNCHANGED <<csrf, randoms>>

LoggedOut(p) ==
  /\ PageStep(p, {"posting"}, Blank)
  /\ session' = NoSession
  /\ spent' = spent \cup ({session} \ {NoSession})
  /\ UNCHANGED <<csrf, randoms>>

FormAnswered(p) ==
  /\ PageStep(p, {"posting"}, Blank)
  /\ UNCHANGED <<session, csrf, spent, randoms>>

-----------------------------------------------------------------------------
CsrfNext == \E p \in Pages :
  \/ PageAsked(p) \/ PageShown(p) \/ FormPosted(p) \/ LoggedOut(p) \/ FormAnswered(p)
  \/ \E s \in Sessions : LoggedIn(p, s)

CsrfSpec == CsrfInit /\ [][CsrfNext]_csrfVars

-----------------------------------------------------------------------------
(* A page of the current session can be submitted, however many pages of   *)
(* it load at the same time and in whatever order their answers set the    *)
(* cookie; only the answer to a request of another session spoils it       *)
(* ("stable across concurrent GETs for one session", _mint_csrf_token).    *)
SessionPageAccepted == \A p \in Pages :
  page[p].at = "shown" /\ page[p].fresh /\ page[p].session = session /\ session # NoSession =>
    TokenAccepted(page[p].token)
===============================================================================
