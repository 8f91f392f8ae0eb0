----------------------------- MODULE SignupCaptcha -----------------------------
(***************************************************************************)
(* Signup captchas: signed challenges that are good for a fixed time, and  *)
(* the shared ledger that makes every challenge good for one signup, keeps *)
(* a bounded number of rows and forgets expired ones in batches.           *)
(*                                                                         *)
(* A signup verifies its proof (slow, without a lock), then redeems it     *)
(* under one global try-lock, and only then does anything else.  Workers   *)
(* of several processes run these steps in any order; time passes between  *)
(* any two of them.                                                        *)
(*                                                                         *)
(* Data abstracted away.  A challenge is its verified signature: malformed *)
(* and forged proofs, all refused before the first step, are not modelled. *)
(***************************************************************************)
EXTENDS Integers, FiniteSets

CONSTANTS
  Signups,        \* concurrent signup requests
  Challenges,     \* challenges ever handed out
  NoChallenge,    \* no challenge, or nobody at the gate
  ChallengeTtl,   \* CHALLENGE_TTL_SECONDS
  LedgerCapacity, \* LEDGER_CAPACITY
  PruneBatch,     \* expired rows pruned by one redemption
  MaxTime         \* bound on the clock

ASSUME CaptchaAssumption ==
  /\ IsFiniteSet(Challenges) /\ NoChallenge \notin Challenges \cup Signups
  /\ ChallengeTtl \in Nat \ {0} /\ LedgerCapacity \in Nat \ {0} /\ PruneBatch \in Nat \ {0}
  /\ MaxTime \in Nat

VARIABLES
  time,     \* the clock all processes share
  expires,  \* expiry of a challenge, 0 before it is handed out
  redeemed, \* rows of captcha_redemptions
  gate,     \* who holds the advisory lock of the ledger
  signup,   \* the signup requests
  effects   \* challenges for which signup effects took place, with the signup

captchaVars == <<time, expires, redeemed, gate, signup, effects>>

Outside == [at |-> "idle", challenge |-> NoChallenge, read |-> 0]

CaptchaTypeOK ==
  /\ time \in 0..MaxTime
  /\ expires \in [Challenges -> 0..(MaxTime + ChallengeTtl)]
  /\ redeemed \subseteq Challenges
  /\ gate \in Signups \cup {NoChallenge}
  /\ signup \in [Signups -> [at : {"idle", "verified", "gated", "admitted", "served", "invalid", "busy", "full"},
                             challenge : Challenges \cup {NoChallenge}, read : 0..MaxTime]]
  /\ effects \subseteq Signups \X Challenges

CaptchaInit ==
  /\ time = 0
  /\ expires = [c \in Challenges |-> 0]
  /\ redeemed = {}
  /\ gate = NoChallenge
  /\ signup = [s \in Signups |-> Outside]
  /\ effects = {}

-----------------------------------------------------------------------------
SignupStep(s, from, record) ==
  /\ signup[s].at = from
  /\ signup' = [signup EXCEPT ![s] = record]

Ended(s, at) == [signup[s] EXCEPT !.at = at]

CaptchaClock ==
  /\ time < MaxTime
  /\ time' = time + 1
  /\ UNCHANGED <<expires, redeemed, gate, signup, effects>>

\* signup_challenge
ChallengeIssued(c) ==
  /\ expires[c] = 0
  /\ expires' = [expires EXCEPT ![c] = time + ChallengeTtl]
  /\ UNCHANGED <<time, redeemed, gate, signup, effects>>

\* verify_signup_proof: the challenge must be fresh when its proof is checked.
Fresh(c) == time < expires[c]

ProofVerified(s, c) ==
  /\ expires[c] # 0
  /\ SignupStep(s, "idle", IF Fresh(c) THEN [Outside EXCEPT !.at = "verified", !.challenge = c]
                                       ELSE Ended(s, "invalid"))
  /\ UNCHANGED <<time, expires, redeemed, gate, effects>>

\* The gate is tried, never awaited; the clock is read again behind it.
GateTried(s) ==
  /\ IF gate # NoChallenge
       THEN SignupStep(s, "verified", Ended(s, "busy")) /\ UNCHANGED gate
       ELSE SignupStep(s, "verified", [Ended(s, "gated") EXCEPT !.read = time]) /\ gate' = s
  /\ UNCHANGED <<time, expires, redeemed, effects>>

\* What is left after one batch of expired rows is pruned.
Overdue(s) == {c \in redeemed : expires[c] <= signup[s].read}

Pruned(s) ==
  {redeemed \ batch : batch \in {b \in SUBSET Overdue(s) :
     Cardinality(b) = IF Cardinality(Overdue(s)) < PruneBatch THEN Cardinality(Overdue(s)) ELSE PruneBatch}}

(* Defect: the expiry is not checked again behind the gate. *)
NeverLate(s) == FALSE

Late(s) == signup[s].read >= expires[signup[s].challenge]

\* Either way the gate opens; a refusal rolls the pruning back.
LeaveGate(s, at, rows) ==
  /\ gate = s
  /\ SignupStep(s, "gated", Ended(s, at))
  /\ redeemed' = rows
  /\ gate' = NoChallenge
  /\ UNCHANGED <<time, expires, effects>>

Admits(s, rows) == Cardinality(rows) < LedgerCapacity /\ signup[s].challenge \notin rows

Redeem(s) ==
  /\ signup[s].at = "gated" /\ ~ Late(s)
  /\ \E rows \in Pruned(s) :
       \/ Admits(s, rows) /\ LeaveGate(s, "admitted", rows \cup {signup[s].challenge})
       \/ Cardinality(rows) >= LedgerCapacity /\ LeaveGate(s, "full", redeemed)
       \/ Cardinality(rows) < LedgerCapacity /\ ~ Admits(s, rows) /\ LeaveGate(s, "invalid", redeemed)

RedeemsLate(s) ==
  /\ signup[s].at = "gated" /\ Late(s)
  /\ LeaveGate(s, "invalid", redeemed)

RedeemFails(s) == LeaveGate(s, "busy", redeemed)

\* The rest of the signup; it may also die before its effects.
SignupTakesEffect(s) ==
  /\ SignupStep(s, "admitted", Ended(s, "served"))
  /\ effects' = effects \cup {<<s, signup[s].challenge>>}
  /\ UNCHANGED <<time, expires, redeemed, gate>>

SignupDies(s) ==
  /\ SignupStep(s, "admitted", Ended(s, "served"))
  /\ UNCHANGED <<time, expires, redeemed, gate, effects>>

-----------------------------------------------------------------------------
SignupRequest(s) ==
  \/ \E c \in Challenges : ProofVerified(s, c)
  \/ GateTried(s) \/ Redeem(s) \/ RedeemsLate(s) \/ RedeemFails(s) \/ SignupTakesEffect(s) \/ SignupDies(s)

CaptchaNext ==
  \/ CaptchaClock
  \/ \E c \in Challenges : ChallengeIssued(c)
  \/ \E s \in Signups : SignupRequest(s)

CaptchaSpec == CaptchaInit /\ [][CaptchaNext]_captchaVars

-----------------------------------------------------------------------------
(* "One durable use per signed signup challenge": no two signups take      *)
(* effect on one challenge, although its row is pruned once it expired and *)
(* a proof verified in time may reach the ledger late.                     *)
RedeemedOnce == \A e, f \in effects : e[2] = f[2] => e = f

(* The ledger never outgrows its capacity, whichever processes redeem at   *)
(* the same time ("bounds total rows across processes").                   *)
LedgerBounded == Cardinality(redeemed) <= LedgerCapacity

(* A signup is refused for want of room only while no row has expired: a   *)
(* full ledger of expired rows never locks signups out, for a refusal      *)
(* rolls its pruning back.                                                 *)
FullOnlyWhenNothingExpired == [][\A s \in Signups :
  signup[s].at = "gated" /\ signup'[s].at = "full" => Overdue(s) = {}]_captchaVars
===============================================================================
