----------------------------- MODULE Requests_proofs -----------------------------
(* The services a single request passes through: the captcha of the signup, *)
(* the form token, the cut-off of an account, the admission of work, the    *)
(* limit of the body, the webhooks and the ledger of logouts.  Each has an  *)
(* invariant of its own; no argument reaches into another section.          *)
EXTENDS SignupCaptcha, CsrfToken, LogoutLedger, TokenCutOff, WorkAdmission,
        RequestBody, Notifications, FiniteSetTheorems, TLAPS

-----------------------------------------------------------------------------
(* One signup per challenge, and a bounded ledger (SignupCaptcha)           *)

Stages == {"idle", "verified", "gated", "admitted", "served", "invalid", "busy", "full"}

\* A challenge is used once a signup was admitted with it.
Used(c) ==
  \/ \E s \in Signups : signup[s].at = "admitted" /\ signup[s].challenge = c
  \/ \E e \in effects : e[2] = c

Known ==
  /\ \A s \in Signups : signup[s].at \in {"verified", "gated", "admitted"} =>
       signup[s].challenge \in Challenges /\ expires[signup[s].challenge] # 0
  /\ \A c \in redeemed : expires[c] # 0
  /\ \A c \in Challenges : Used(c) => expires[c] # 0

\* Who is behind the gate is alone there, and read the clock before.
Alone == \A s \in Signups : signup[s].at = "gated" => gate = s /\ signup[s].read <= time

\* The row of a used challenge is pruned only after the challenge expired, and
\* whoever is behind the gate would see that with the time it read.
RowsKept == \A c \in Challenges : Used(c) /\ c \notin redeemed =>
  /\ expires[c] <= time
  /\ \A s \in Signups : signup[s].at = "gated" => expires[c] <= signup[s].read

OneUser ==
  /\ \A s, u \in Signups : signup[s].at = "admitted" /\ signup[u].at = "admitted"
                             /\ signup[s].challenge = signup[u].challenge => s = u
  /\ \A s \in Signups : signup[s].at = "admitted" => \A e \in effects : e[2] # signup[s].challenge
  /\ RedeemedOnce

CaptchaInv == CaptchaTypeOK /\ Known /\ Alone /\ RowsKept /\ OneUser /\ LedgerBounded

-----------------------------------------------------------------------------
LEMMA OneSignup ==
  ASSUME CaptchaTypeOK, NEW s \in Signups, NEW from, NEW record, SignupStep(s, from, record)
  PROVE  signup[s].at = from /\ \A u \in Signups : signup'[u] = IF u = s THEN record ELSE signup[u]
BY DEF SignupStep, CaptchaTypeOK

\* A record that only changes its stage.
LEMMA EndedIs ==
  ASSUME CaptchaTypeOK, NEW s \in Signups, NEW at \in Stages
  PROVE  /\ Ended(s, at) \in [at : Stages, challenge : Challenges \cup {NoChallenge}, read : 0..MaxTime]
         /\ Ended(s, at).at = at /\ Ended(s, at).challenge = signup[s].challenge
         /\ Ended(s, at).read = signup[s].read
BY DEF Ended, CaptchaTypeOK, Stages

LEMMA SignupTyped ==
  ASSUME CaptchaTypeOK, NEW s \in Signups, NEW from,
         NEW record \in [at : Stages, challenge : Challenges \cup {NoChallenge}, read : 0..MaxTime],
         SignupStep(s, from, record)
  PROVE  signup' \in [Signups -> [at : Stages, challenge : Challenges \cup {NoChallenge}, read : 0..MaxTime]]
BY DEF SignupStep, CaptchaTypeOK, Stages

\* Pruning removes rows that were overdue when the pruner read the clock.
LEMMA PrunedRows ==
  ASSUME CaptchaInv, NEW s \in Signups, NEW rows \in Pruned(s)
  PROVE  /\ rows \subseteq redeemed /\ IsFiniteSet(rows) /\ IsFiniteSet(redeemed)
         /\ \A c \in redeemed \ rows : expires[c] <= signup[s].read
         /\ Cardinality(rows) \in Nat /\ Cardinality(redeemed) \in Nat
<1>1. PICK batch \in SUBSET Overdue(s) : rows = redeemed \ batch
  BY DEF Pruned
<1>2. IsFiniteSet(redeemed) /\ rows \subseteq redeemed
  BY <1>1, FS_Subset, CaptchaAssumption DEF CaptchaInv, CaptchaTypeOK
<1>3. IsFiniteSet(rows)
  BY <1>2, FS_Subset
<1>4. Cardinality(rows) \in Nat /\ Cardinality(redeemed) \in Nat
  BY <1>2, <1>3, FS_CardinalityType
<1>5. \A c \in redeemed \ rows : expires[c] <= signup[s].read
  BY <1>1 DEF Overdue
<1> QED BY <1>2, <1>3, <1>4, <1>5

\* A full ledger that was pruned was full of rows that had not expired.
LEMMA NothingToPrune ==
  ASSUME CaptchaInv, NEW s \in Signups, NEW rows \in Pruned(s), Cardinality(rows) >= LedgerCapacity
  PROVE  Overdue(s) = {}
<1> DEFINE over == Overdue(s)
<1>1. PICK batch \in SUBSET over :
        /\ rows = redeemed \ batch
        /\ Cardinality(batch) = IF Cardinality(over) < PruneBatch THEN Cardinality(over) ELSE PruneBatch
  BY DEF Pruned
<1>2. IsFiniteSet(redeemed) /\ over \subseteq redeemed /\ batch \subseteq redeemed
  BY <1>1, FS_Subset, CaptchaAssumption DEF CaptchaInv, CaptchaTypeOK, Overdue
<1>3. IsFiniteSet(over) /\ IsFiniteSet(batch)
  BY <1>2, FS_Subset
<1>4. Cardinality(over) \in Nat /\ Cardinality(batch) \in Nat /\ Cardinality(redeemed) \in Nat
  BY <1>2, <1>3, FS_CardinalityType
<1>5. Cardinality(redeemed \ batch) = Cardinality(redeemed) - Cardinality(redeemed \cap batch)
  BY <1>2, FS_Difference
<1>6. redeemed \cap batch = batch
  BY <1>2
<1>7. Cardinality(redeemed) <= LedgerCapacity
  BY DEF CaptchaInv, LedgerBounded
<1>8. Cardinality(batch) = 0
  <2>1. Cardinality(rows) = Cardinality(redeemed) - Cardinality(batch)
    BY <1>1, <1>5, <1>6
  <2>2. LedgerCapacity \in Nat
    BY CaptchaAssumption
  <2> QED BY <1>4, <1>7, <2>1, <2>2
<1>9. Cardinality(over) = 0
  BY <1>1, <1>4, <1>8, CaptchaAssumption
<1> QED BY <1>3, <1>9, FS_EmptySet

-----------------------------------------------------------------------------
LEMMA CaptchaInitInv == CaptchaInit => CaptchaInv
<1> SUFFICES ASSUME CaptchaInit PROVE CaptchaInv
  OBVIOUS
<1>1. CaptchaTypeOK
  <2>1. 0 \in 0..MaxTime /\ 0 \in 0..(MaxTime + ChallengeTtl)
    BY CaptchaAssumption
  <2>2. Outside \in [at : Stages, challenge : Challenges \cup {NoChallenge}, read : 0..MaxTime]
    BY <2>1 DEF Outside, Stages
  <2> QED BY <2>1, <2>2 DEF CaptchaInit, CaptchaTypeOK, Stages
<1>2. Known /\ Alone /\ RowsKept /\ OneUser
  BY DEF CaptchaInit, Known, Alone, RowsKept, OneUser, RedeemedOnce, Used, Outside
<1>3. LedgerBounded
  BY FS_EmptySet, CaptchaAssumption DEF CaptchaInit, LedgerBounded
<1> QED BY <1>1, <1>2, <1>3 DEF CaptchaInv

LEMMA ClockInv == CaptchaInv /\ CaptchaClock => CaptchaInv'
<1> SUFFICES ASSUME CaptchaInv, CaptchaClock PROVE CaptchaInv'
  OBVIOUS
<1> USE DEF CaptchaInv, CaptchaClock
<1>1. CaptchaTypeOK'
  BY CaptchaAssumption DEF CaptchaTypeOK
<1>2. \A c : Used(c)' = Used(c)
  BY DEF Used
<1>3. time \in Int /\ time' = time + 1 /\ \A c \in Challenges : expires[c] \in Int
  BY CaptchaAssumption DEF CaptchaTypeOK
<1>4. \A s \in Signups : signup[s].read \in Int
  BY CaptchaAssumption DEF CaptchaTypeOK
<1>5. Known' /\ OneUser' /\ LedgerBounded'
  BY <1>2 DEF Known, OneUser, RedeemedOnce, LedgerBounded
<1>6. Alone'
  BY <1>3, <1>4 DEF Alone
<1>7. RowsKept'
  BY <1>2, <1>3 DEF RowsKept
<1> QED BY <1>1, <1>5, <1>6, <1>7

LEMMA IssueInv == ASSUME CaptchaInv, NEW c \in Challenges, ChallengeIssued(c) PROVE CaptchaInv'
<1> USE DEF CaptchaInv, ChallengeIssued
<1>1. CaptchaTypeOK'
  <2>1. time + ChallengeTtl \in 0..(MaxTime + ChallengeTtl)
    BY CaptchaAssumption DEF CaptchaTypeOK
  <2> QED BY <2>1 DEF CaptchaTypeOK
<1>2. \A d : Used(d)' = Used(d)
  BY DEF Used
<1>3. \A d \in Challenges : expires[d] # 0 => expires'[d] = expires[d]
  BY DEF CaptchaTypeOK
<1>4. redeemed \subseteq Challenges
  BY DEF CaptchaTypeOK
<1>5. Known' /\ OneUser' /\ LedgerBounded' /\ Alone'
  BY <1>2, <1>3, <1>4 DEF Known, OneUser, RedeemedOnce, LedgerBounded, Alone
<1>6. RowsKept'
  BY <1>2, <1>3 DEF RowsKept, Known
<1> QED BY <1>1, <1>5, <1>6

-----------------------------------------------------------------------------
\* Steps of one signup that leave the ledger alone and use no challenge.
LEMMA PlainStepInv ==
  ASSUME CaptchaInv, NEW s \in Signups, NEW from, NEW to \in Stages, from # "gated",
         NEW record \in [at : Stages, challenge : Challenges \cup {NoChallenge}, read : 0..MaxTime],
         SignupStep(s, from, record), record.at = to,
         UNCHANGED <<time, expires, redeemed, effects>>,
         to # "admitted",
         to = "gated" => gate' = s /\ gate = NoChallenge /\ record.read = time,
         to # "gated" => gate' = gate,
         to \in {"verified", "gated"} => record.challenge \in Challenges /\ expires[record.challenge] # 0
  PROVE  CaptchaInv'
<1> USE DEF CaptchaInv
<1>1. signup[s].at = from /\ \A u \in Signups : signup'[u] = IF u = s THEN record ELSE signup[u]
  BY OneSignup
<1>2. CaptchaTypeOK'
  <2>1. signup' \in [Signups -> [at : Stages, challenge : Challenges \cup {NoChallenge}, read : 0..MaxTime]]
    BY SignupTyped
  <2> QED BY <2>1 DEF CaptchaTypeOK, Stages
<1>3. \A c : Used(c)' => Used(c)
  BY <1>1 DEF Used
<1>4. Known'
  BY <1>1, <1>3 DEF Known
<1>5. time \in Int /\ NoChallenge \notin Signups
  BY CaptchaAssumption DEF CaptchaTypeOK
<1>6. Alone'
  <2>1. CASE to = "gated"
    <3>1. \A u \in Signups : signup[u].at # "gated"
      BY <2>1, <1>5 DEF Alone
    <3>2. time <= time
      BY <1>5
    <3> QED BY <1>1, <2>1, <3>1, <3>2 DEF Alone
  <2>2. CASE to # "gated"
    BY <1>1, <2>2 DEF Alone
  <2> QED BY <2>1, <2>2
<1>7. RowsKept'
  BY <1>1, <1>3 DEF RowsKept
<1>8. OneUser'
  BY <1>1 DEF OneUser, RedeemedOnce
<1> QED BY <1>2, <1>4, <1>6, <1>7, <1>8 DEF LedgerBounded

\* Leaving the gate with the ledger as it was.
LEMMA RefusedInv ==
  ASSUME CaptchaInv, NEW s \in Signups, NEW at \in {"invalid", "busy", "full"}, LeaveGate(s, at, redeemed)
  PROVE  CaptchaInv'
<1> USE DEF CaptchaInv
<1> DEFINE record == Ended(s, at)
<1>1. /\ record \in [at : Stages, challenge : Challenges \cup {NoChallenge}, read : 0..MaxTime]
      /\ record.at = at
  BY EndedIs DEF Stages
<1>2. SignupStep(s, "gated", record) /\ gate' = NoChallenge /\ gate = s
      /\ UNCHANGED <<time, expires, redeemed, effects>>
  BY DEF LeaveGate
<1> HIDE DEF record
<1>3. signup[s].at = "gated" /\ \A u \in Signups : signup'[u] = IF u = s THEN record ELSE signup[u]
  BY <1>2, OneSignup
<1>4. CaptchaTypeOK'
  <2>1. signup' \in [Signups -> [at : Stages, challenge : Challenges \cup {NoChallenge}, read : 0..MaxTime]]
    BY <1>1, <1>2, SignupTyped
  <2> QED BY <1>2, <2>1 DEF CaptchaTypeOK, Stages
<1>5. \A c : Used(c)' => Used(c)
  BY <1>1, <1>2, <1>3 DEF Used
<1>6. Known'
  BY <1>1, <1>2, <1>3, <1>5 DEF Known
<1>7. Alone' /\ RowsKept' /\ OneUser'
  BY <1>1, <1>2, <1>3, <1>5 DEF Alone, RowsKept, OneUser, RedeemedOnce
<1> QED BY <1>2, <1>4, <1>6, <1>7 DEF LedgerBounded

\* The row of a challenge that was used is still there, or the gate shows that
\* the challenge expired: nobody is admitted with it again.
LEMMA AdmittedInv ==
  ASSUME CaptchaInv, NEW s \in Signups, NEW rows \in Pruned(s), ~ Late(s), Admits(s, rows),
         LeaveGate(s, "admitted", rows \cup {signup[s].challenge})
  PROVE  CaptchaInv'
<1> USE DEF CaptchaInv
<1> DEFINE record == Ended(s, "admitted")
<1>1. PICK c \in Challenges : c = signup[s].challenge /\ expires[c] # 0
  BY DEF LeaveGate, SignupStep, Known
<1>2. /\ record \in [at : Stages, challenge : Challenges \cup {NoChallenge}, read : 0..MaxTime]
      /\ record.at = "admitted" /\ record.challenge = c
  BY <1>1, EndedIs DEF Stages
<1>3. SignupStep(s, "gated", record) /\ gate' = NoChallenge /\ gate = s /\ redeemed' = rows \cup {c}
      /\ UNCHANGED <<time, expires, effects>>
  BY <1>1 DEF LeaveGate
<1> HIDE DEF record
<1>4. signup[s].at = "gated" /\ \A u \in Signups : signup'[u] = IF u = s THEN record ELSE signup[u]
  BY <1>3, OneSignup
<1>5. /\ rows \subseteq redeemed /\ IsFiniteSet(rows) /\ Cardinality(rows) \in Nat
      /\ \A d \in redeemed \ rows : expires[d] <= signup[s].read
  BY PrunedRows
<1>6. redeemed \subseteq Challenges /\ time \in Int /\ signup[s].read \in Int /\ \A d \in Challenges : expires[d] \in Int
  BY CaptchaAssumption DEF CaptchaTypeOK
<1>7. signup[s].read < expires[c]
  BY <1>1, <1>6 DEF Late
<1>8. c \notin redeemed
  BY <1>1, <1>5, <1>6, <1>7 DEF Admits
<1>9. ~ Used(c)
  BY <1>4, <1>6, <1>7, <1>8 DEF RowsKept
<1>10. CaptchaTypeOK'
  <2>1. signup' \in [Signups -> [at : Stages, challenge : Challenges \cup {NoChallenge}, read : 0..MaxTime]]
    BY <1>2, <1>3, SignupTyped
  <2> QED BY <1>3, <1>5, <2>1 DEF CaptchaTypeOK, Stages
<1>11. \A d : Used(d)' => Used(d) \/ d = c
  BY <1>2, <1>3, <1>4 DEF Used
<1>12. Known'
  BY <1>1, <1>2, <1>3, <1>4, <1>5, <1>11 DEF Known
<1>13. \A u \in Signups : signup'[u].at # "gated"
  <2>1. \A u \in Signups : signup[u].at = "gated" => u = s
    BY <1>3 DEF Alone
  <2> QED BY <1>2, <1>4, <2>1
<1>14. Alone'
  BY <1>13 DEF Alone
<1>15. RowsKept'
  <2> SUFFICES ASSUME NEW d \in Challenges, Used(d)', d \notin redeemed' PROVE expires[d] <= time
    BY <1>3, <1>13 DEF RowsKept
  <2>1. Used(d) /\ d \notin rows
    BY <1>3, <1>11
  <2>2. CASE d \in redeemed
    <3>1. signup[s].read <= time /\ expires[d] <= signup[s].read
      BY <1>4, <1>5, <2>1, <2>2 DEF Alone
    <3> QED BY <1>6, <3>1
  <2>3. CASE d \notin redeemed
    BY <2>1, <2>3 DEF RowsKept
  <2> QED BY <2>2, <2>3
<1>16. OneUser'
  BY <1>2, <1>3, <1>4, <1>9 DEF OneUser, RedeemedOnce, Used
<1>17. LedgerBounded'
  <2>1. c \notin rows
    BY <1>1 DEF Admits
  <2>2. Cardinality(rows \cup {c}) = Cardinality(rows) + 1
    BY <1>5, <2>1, FS_AddElement
  <2> QED BY <1>3, <1>5, <2>2, CaptchaAssumption DEF LedgerBounded, Admits
<1> QED BY <1>10, <1>12, <1>14, <1>15, <1>16, <1>17

LEMMA EffectInv == ASSUME CaptchaInv, NEW s \in Signups, SignupTakesEffect(s) PROVE CaptchaInv'
<1> USE DEF CaptchaInv
<1> DEFINE record == Ended(s, "served")
<1>1. PICK c \in Challenges : c = signup[s].challenge /\ expires[c] # 0
  BY DEF SignupTakesEffect, SignupStep, Known
<1>2. /\ record \in [at : Stages, challenge : Challenges \cup {NoChallenge}, read : 0..MaxTime]
      /\ record.at = "served"
  BY EndedIs DEF Stages
<1>3. SignupStep(s, "admitted", record) /\ effects' = effects \cup {<<s, c>>}
      /\ UNCHANGED <<time, expires, redeemed, gate>>
  BY <1>1 DEF SignupTakesEffect
<1> HIDE DEF record
<1>4. signup[s].at = "admitted" /\ \A u \in Signups : signup'[u] = IF u = s THEN record ELSE signup[u]
  BY <1>3, OneSignup
<1>5. CaptchaTypeOK'
  <2>1. signup' \in [Signups -> [at : Stages, challenge : Challenges \cup {NoChallenge}, read : 0..MaxTime]]
    BY <1>2, <1>3, SignupTyped
  <2> QED BY <1>3, <2>1 DEF CaptchaTypeOK, Stages
<1>6. \A e \in effects' : e \in effects \/ (e = <<s, c>> /\ e[2] = c)
  BY <1>3
<1>7. \A d : Used(d)' => Used(d)
  BY <1>1, <1>2, <1>4, <1>6 DEF Used
<1>8. Known' /\ Alone' /\ RowsKept'
  BY <1>2, <1>3, <1>4, <1>7 DEF Known, Alone, RowsKept
<1>9. \A e \in effects : e[2] # c
  BY <1>1, <1>4 DEF OneUser
<1>10. RedeemedOnce'
  BY <1>6, <1>9 DEF OneUser, RedeemedOnce
<1>11. OneUser'
  <2>1. \A u \in Signups : signup'[u].at = "admitted" => u # s /\ signup[u].at = "admitted" /\ signup'[u] = signup[u]
    BY <1>2, <1>4
  <2>2. \A u \in Signups : signup'[u].at = "admitted" => \A e \in effects' : e[2] # signup'[u].challenge
    BY <1>1, <1>4, <1>6, <2>1 DEF OneUser
  <2>3. \A u, v \in Signups : signup'[u].at = "admitted" /\ signup'[v].at = "admitted"
           /\ signup'[u].challenge = signup'[v].challenge => u = v
    BY <2>1 DEF OneUser
  <2> QED BY <1>10, <2>2, <2>3 DEF OneUser
<1> QED BY <1>3, <1>5, <1>8, <1>11 DEF LedgerBounded

-----------------------------------------------------------------------------
LEMMA CaptchaStepInv == CaptchaInv /\ [CaptchaNext]_captchaVars => CaptchaInv'
<1> SUFFICES ASSUME CaptchaInv, [CaptchaNext]_captchaVars PROVE CaptchaInv'
  OBVIOUS
<1>0. CaptchaTypeOK
  BY DEF CaptchaInv
<1>1. CASE CaptchaClock
  BY <1>1, ClockInv
<1>2. ASSUME NEW c \in Challenges, ChallengeIssued(c) PROVE CaptchaInv'
  BY <1>2, IssueInv
<1>3. ASSUME NEW s \in Signups, SignupRequest(s) PROVE CaptchaInv'
  <2>1. ASSUME NEW c \in Challenges, ProofVerified(s, c) PROVE CaptchaInv'
    <3>1. CASE Fresh(c)
      <4> DEFINE record == [Outside EXCEPT !.at = "verified", !.challenge = c]
      <4>1. record \in [at : Stages, challenge : Challenges \cup {NoChallenge}, read : 0..MaxTime]
            /\ record.at = "verified" /\ record.challenge = c
        <5>1. 0 \in 0..MaxTime
          BY CaptchaAssumption
        <5> QED BY <5>1 DEF Outside, Stages
      <4>2. SignupStep(s, "idle", record) /\ UNCHANGED <<time, expires, redeemed, gate, effects>> /\ expires[c] # 0
        BY <2>1, <3>1 DEF ProofVerified
      <4> HIDE DEF record
      <4> QED BY <4>1, <4>2, PlainStepInv DEF Stages
    <3>2. CASE ~ Fresh(c)
      <4>1. SignupStep(s, "idle", Ended(s, "invalid")) /\ UNCHANGED <<time, expires, redeemed, gate, effects>>
        BY <2>1, <3>2 DEF ProofVerified
      <4> QED BY <1>0, <4>1, EndedIs, PlainStepInv DEF Stages
    <3> QED BY <3>1, <3>2
  <2>2. CASE GateTried(s)
    <3>1. CASE gate # NoChallenge
      <4>1. SignupStep(s, "verified", Ended(s, "busy")) /\ UNCHANGED <<time, expires, redeemed, gate, effects>>
        BY <2>2, <3>1 DEF GateTried
      <4> QED BY <1>0, <4>1, EndedIs, PlainStepInv DEF Stages
    <3>2. CASE gate = NoChallenge
      <4> DEFINE record == [Ended(s, "gated") EXCEPT !.read = time]
      <4>1. signup[s].at = "verified" /\ signup[s].challenge \in Challenges /\ expires[signup[s].challenge] # 0
        BY <2>2, <3>2 DEF GateTried, SignupStep, CaptchaInv, Known
      <4>2. time \in 0..MaxTime
        BY <1>0 DEF CaptchaTypeOK
      <4>3. /\ record \in [at : Stages, challenge : Challenges \cup {NoChallenge}, read : 0..MaxTime]
            /\ record.at = "gated" /\ record.challenge = signup[s].challenge /\ record.read = time
        BY <1>0, <4>2, EndedIs DEF Stages
      <4>4. SignupStep(s, "verified", record) /\ gate' = s /\ UNCHANGED <<time, expires, redeemed, effects>>
        BY <2>2, <3>2 DEF GateTried
      <4> HIDE DEF record
      <4> QED BY <3>2, <4>1, <4>3, <4>4, PlainStepInv DEF Stages
    <3> QED BY <3>1, <3>2
  <2>3. CASE Redeem(s)
    <3>1. PICK rows \in Pruned(s) :
            \/ Admits(s, rows) /\ LeaveGate(s, "admitted", rows \cup {signup[s].challenge})
            \/ LeaveGate(s, "full", redeemed) \/ LeaveGate(s, "invalid", redeemed)
      BY <2>3 DEF Redeem
    <3>2. ~ Late(s)
      BY <2>3 DEF Redeem
    <3> QED BY <3>1, <3>2, AdmittedInv, RefusedInv
  <2>4. CASE RedeemsLate(s) \/ RedeemFails(s)
    BY <2>4, RefusedInv DEF RedeemsLate, RedeemFails
  <2>5. CASE SignupTakesEffect(s)
    BY <2>5, EffectInv
  <2>6. CASE SignupDies(s)
    <3>1. SignupStep(s, "admitted", Ended(s, "served")) /\ UNCHANGED <<time, expires, redeemed, gate, effects>>
      BY <2>6 DEF SignupDies
    <3> QED BY <1>0, <3>1, EndedIs, PlainStepInv DEF Stages
  <2> QED BY <1>3, <2>1, <2>2, <2>3, <2>4, <2>5, <2>6 DEF SignupRequest
<1>4. CASE UNCHANGED captchaVars
  BY <1>4 DEF captchaVars, CaptchaInv, CaptchaTypeOK, Known, Alone, RowsKept, OneUser, RedeemedOnce, Used, LedgerBounded
<1> QED BY <1>1, <1>2, <1>3, <1>4 DEF CaptchaNext

(* Whoever is behind the gate would see, with the time it read, that a used *)
(* challenge without a row has expired: the inductive invariant of redeem_signup_challenge. *)
THEOREM CaptchaInvariant == CaptchaSpec => []CaptchaInv
BY CaptchaInitInv, CaptchaStepInv, PTL DEF CaptchaSpec

(* No two signups take effect on one challenge, although expired rows are   *)
(* pruned and late proofs redeemed.                                         *)
THEOREM EveryChallengeRedeemedOnce == CaptchaSpec => []RedeemedOnce
<1>1. CaptchaInv => RedeemedOnce
  BY DEF CaptchaInv, OneUser
<1> QED BY CaptchaInvariant, <1>1, PTL

(* The ledger holds no more rows than its capacity (LEDGER_CAPACITY).       *)
THEOREM LedgerAlwaysBounded == CaptchaSpec => []LedgerBounded
<1>1. CaptchaInv => LedgerBounded
  BY DEF CaptchaInv
<1> QED BY CaptchaInvariant, <1>1, PTL

(* A signup is refused for want of room only when no row has expired,       *)
(* although the refusal undoes its pruning.                                 *)
THEOREM FullLedgerIsFresh == CaptchaSpec => FullOnlyWhenNothingExpired
<1> DEFINE A == \A s \in Signups : signup[s].at = "gated" /\ signup'[s].at = "full" => Overdue(s) = {}
<1>1. CaptchaInv /\ [CaptchaNext]_captchaVars => [A]_captchaVars
  <2> SUFFICES ASSUME CaptchaInv, CaptchaNext, NEW s \in Signups, signup[s].at = "gated", signup'[s].at = "full"
               PROVE  Overdue(s) = {}
    OBVIOUS
  <2>0. CaptchaTypeOK
    BY DEF CaptchaInv
  <2>1. PICK u \in Signups : SignupRequest(u)
    BY DEF CaptchaNext, CaptchaClock, ChallengeIssued
  <2>2. u = s
    BY <2>0, <2>1 DEF SignupRequest, ProofVerified, GateTried, Redeem, RedeemsLate, RedeemFails, SignupTakesEffect,
       SignupDies, LeaveGate, SignupStep, CaptchaTypeOK
  <2>3. Redeem(s) \/ RedeemsLate(s) \/ RedeemFails(s)
    BY <2>1, <2>2 DEF SignupRequest, ProofVerified, GateTried, SignupTakesEffect, SignupDies, SignupStep
  <2>4. \A at \in Stages : \A rows : LeaveGate(s, at, rows) => at = "full"
    BY <2>0, EndedIs, OneSignup DEF LeaveGate
  <2>5. PICK rows \in Pruned(s) : Cardinality(rows) >= LedgerCapacity
    BY <2>3, <2>4 DEF Redeem, RedeemsLate, RedeemFails, Stages
  <2> QED BY <2>5, NothingToPrune
<1> QED BY CaptchaInvariant, <1>1, PTL DEF CaptchaSpec, FullOnlyWhenNothingExpired

-----------------------------------------------------------------------------
(* The form tokens of one browser (CsrfToken)                               *)

OpenPage(p) == page[p].at \in {"loading", "shown"} /\ page[p].session # NoSession

\* A page of a session carries the token of that session.  While it is fresh
\* the cookie has the token too, from the moment its own answer cannot change
\* the cookie any more.
CsrfInv ==
  /\ CsrfTypeOK
  /\ \A p \in Pages : OpenPage(p) =>
       /\ page[p].token = page[p].session
       /\ page[p].fresh /\ (page[p].at = "loading" => ~ page[p].sets) => csrf = page[p].session

PageRecords == [at : {"blank", "loading", "shown", "posting", "refused"},
            session : Sessions \cup {NoSession}, token : Tokens \cup {NoSession},
            sets : BOOLEAN, fresh : BOOLEAN]

LEMMA CsrfInitInv == CsrfInit => CsrfInv
BY CsrfAssumption DEF CsrfInit, CsrfInv, CsrfTypeOK, OpenPage, Blank

(* A step of one page that does not touch the cookie.                       *)
LEMMA PageKeeps ==
  ASSUME CsrfInv, NEW p \in Pages, NEW from, NEW record \in PageRecords, PageStep(p, from, record),
         csrf' = csrf, session' \in Sessions \cup {NoSession}, spent' \subseteq Sessions,
         randoms' \in 0..MaxRandom,
         record.at \in {"loading", "shown"} /\ record.session # NoSession =>
           /\ record.token = record.session
           /\ record.fresh /\ (record.at = "loading" => ~ record.sets) => csrf = record.session
  PROVE  CsrfInv'
<1>1. \A q \in Pages : page'[q] = IF q = p THEN record ELSE page[q]
  BY DEF CsrfInv, CsrfTypeOK, PageStep
<1>2. CsrfTypeOK'
  BY <1>1 DEF CsrfInv, CsrfTypeOK, PageStep, PageRecords
<1> QED BY <1>1, <1>2 DEF CsrfInv, OpenPage

LEMMA PageAskedInv ==
  ASSUME CsrfInv, NEW p \in Pages, PageAsked(p)
  PROVE  CsrfInv'
<1> DEFINE derived == session # NoSession
           mint    == ~ derived /\ csrf = NoSession
           minted  == IF derived THEN session ELSE IF mint THEN randoms + 1 ELSE csrf
           sets    == csrf # minted
           record  == [at |-> "loading", session |-> session, token |-> minted, sets |-> sets, fresh |-> TRUE]
<1>1. /\ PageStep(p, {"blank", "shown", "refused"}, record)
      /\ randoms' = (IF mint THEN randoms + 1 ELSE randoms) /\ (mint => randoms < MaxRandom)
      /\ UNCHANGED <<session, csrf, spent>>
  BY DEF PageAsked
<1>2. randoms' \in 0..MaxRandom /\ (mint => randoms + 1 \in 1..MaxRandom)
  BY <1>1, CsrfAssumption DEF CsrfInv, CsrfTypeOK
<1>3. minted \in Tokens \cup {NoSession}
  BY <1>2 DEF CsrfInv, CsrfTypeOK, Tokens
<1>4. sets \in BOOLEAN /\ session \in Sessions \cup {NoSession}
  BY DEF CsrfInv, CsrfTypeOK
<1>5. record \in PageRecords
  <2> HIDE DEF minted, sets
  <2> QED BY <1>3, <1>4 DEF PageRecords
<1>6. record.at = "loading" /\ record.session = session /\ record.token = minted /\ record.sets = sets
  OBVIOUS
<1>7. session # NoSession => minted = session /\ (~ sets => csrf = session)
  OBVIOUS
<1>8. session' \in Sessions \cup {NoSession} /\ spent' \subseteq Sessions
  BY <1>1 DEF CsrfInv, CsrfTypeOK
<1> HIDE DEF record, sets, minted, mint, derived
<1> QED BY <1>1, <1>2, <1>5, <1>6, <1>7, <1>8, PageKeeps

LEMMA PageShownInv ==
  ASSUME CsrfInv, NEW p \in Pages, PageShown(p)
  PROVE  CsrfInv'
<1>1. /\ page[p].at = "loading" /\ UNCHANGED <<session, spent, randoms>>
      /\ csrf' = IF page[p].sets THEN page[p].token ELSE csrf
      /\ page \in [Pages -> PageRecords] /\ csrf \in Tokens \cup {NoSession}
  BY DEF PageShown, CsrfInv, CsrfTypeOK, PageRecords
<1>2. ASSUME NEW q \in Pages
      PROVE  /\ page'[q] \in PageRecords
             /\ page'[q].session = page[q].session /\ page'[q].token = page[q].token
             /\ page'[q].sets = page[q].sets
             /\ page'[q].at = IF q = p THEN "shown" ELSE page[q].at
             /\ q = p => page'[q].fresh = page[q].fresh
             /\ q # p => page'[q].fresh = (page[q].fresh /\ (page[p].sets => page[q].session = page[p].session))
  <2>1. page[q] \in PageRecords
    BY <1>1
  <2>2. CASE q = p
    <3>1. page'[q] = [page[p] EXCEPT !.at = "shown"]
      BY <2>2 DEF PageShown
    <3> QED BY <2>1, <2>2, <3>1 DEF PageRecords
  <2>3. CASE q # p
    <3> DEFINE fresh == page[q].fresh /\ (page[p].sets => page[q].session = page[p].session)
    <3>1. page'[q] = [page[q] EXCEPT !.fresh = fresh]
      BY <2>3 DEF PageShown
    <3>2. fresh \in BOOLEAN
      OBVIOUS
    <3> HIDE DEF fresh
    <3>3. page'[q] \in PageRecords /\ page'[q].session = page[q].session /\ page'[q].token = page[q].token
          /\ page'[q].sets = page[q].sets /\ page'[q].at = page[q].at /\ page'[q].fresh = fresh
      BY <2>1, <3>1, <3>2 DEF PageRecords
    <3> QED BY <2>3, <3>3 DEF fresh
  <2> QED BY <2>2, <2>3
<1>3. page' = [q \in Pages |-> page'[q]]
  BY DEF PageShown
<1>4. csrf' \in Tokens \cup {NoSession}
  BY <1>1 DEF PageRecords
<1>5. CsrfTypeOK'
  BY <1>1, <1>2, <1>3, <1>4 DEF CsrfInv, CsrfTypeOK, PageRecords
<1>6. ASSUME NEW q \in Pages, OpenPage(q)'
      PROVE  /\ page'[q].token = page'[q].session
             /\ page'[q].fresh /\ (page'[q].at = "loading" => ~ page'[q].sets) => csrf' = page'[q].session
  <2>1. OpenPage(q) /\ page'[q].token = page'[q].session
    BY <1>1, <1>2, <1>6 DEF OpenPage, CsrfInv
  <2>2. ASSUME page'[q].fresh, page'[q].at = "loading" => ~ page'[q].sets PROVE csrf' = page'[q].session
    <3>1. CASE q = p
      BY <1>1, <1>2, <2>1, <2>2, <3>1 DEF CsrfInv
    <3>2. CASE q # p
      <4>1. page[q].fresh /\ (page[p].sets => page[q].session = page[p].session)
        BY <1>2, <2>2, <3>2
      <4>2. csrf = page[q].session
        BY <1>2, <2>1, <2>2, <3>2, <4>1 DEF CsrfInv
      <4>3. page[p].sets => page[p].token = page[p].session
        BY <1>1, <2>1, <4>1 DEF CsrfInv, OpenPage
      <4> QED BY <1>1, <1>2, <4>1, <4>2, <4>3
    <3> QED BY <3>1, <3>2
  <2> QED BY <2>1, <2>2
<1> QED BY <1>5, <1>6 DEF CsrfInv

LEMMA CsrfStepInv ==
  ASSUME CsrfInv, [CsrfNext]_csrfVars
  PROVE  CsrfInv'
<1>t. /\ session \in Sessions \cup {NoSession} /\ spent \subseteq Sessions /\ randoms \in 0..MaxRandom
      /\ page \in [Pages -> PageRecords]
  BY DEF CsrfInv, CsrfTypeOK, PageRecords
<1>b. Blank \in PageRecords /\ Blank.at = "blank"
  BY DEF Blank, PageRecords
<1>1. ASSUME NEW p \in Pages, PageAsked(p) PROVE CsrfInv'
  BY <1>1, PageAskedInv
<1>2. ASSUME NEW p \in Pages, PageShown(p) PROVE CsrfInv'
  BY <1>2, PageShownInv
<1>3. ASSUME NEW p \in Pages, FormPosted(p) PROVE CsrfInv'
  <2>1. PICK at \in {"posting", "refused"} :
          PageStep(p, {"shown"}, [page[p] EXCEPT !.at = at, !.session = session]) /\ UNCHANGED <<session, csrf, spent, randoms>>
    BY <1>3 DEF FormPosted
  <2> DEFINE record == [page[p] EXCEPT !.at = at, !.session = session]
  <2>2. record \in PageRecords /\ record.at = at
    BY <1>t DEF PageRecords
  <2> HIDE DEF record
  <2>3. PageStep(p, {"shown"}, record)
    BY <2>1 DEF record
  <2> QED BY <1>t, <2>1, <2>2, <2>3, PageKeeps
<1>4. ASSUME NEW p \in Pages, FormAnswered(p) \/ LoggedOut(p) \/ \E s \in Sessions : LoggedIn(p, s) PROVE CsrfInv'
  <2>1. /\ PageStep(p, {"posting"}, Blank) /\ UNCHANGED <<csrf, randoms>>
        /\ session' \in Sessions \cup {NoSession} /\ spent' \subseteq Sessions
    BY <1>4, <1>t DEF FormAnswered, LoggedOut, LoggedIn
  <2> QED BY <1>t, <1>b, <2>1, PageKeeps
<1>5. CASE UNCHANGED csrfVars
  BY <1>5 DEF csrfVars, CsrfInv, CsrfTypeOK, OpenPage
<1> QED BY <1>1, <1>2, <1>3, <1>4, <1>5 DEF CsrfNext

(* A page of the current session can be submitted, in whatever order the    *)
(* answers of the pages that load beside it set the cookie                  *)
(* (_mint_csrf_token, CSRFMiddleware.dispatch).                                        *)
THEOREM SessionPageAlwaysAccepted == CsrfSpec => []SessionPageAccepted
<1>1. CsrfInv /\ [CsrfNext]_csrfVars => CsrfInv'
  BY CsrfStepInv
<1>2. CsrfInv => SessionPageAccepted
  BY DEF CsrfInv, SessionPageAccepted, OpenPage, TokenAccepted
<1> QED BY CsrfInitInv, <1>1, <1>2, PTL DEF CsrfSpec

-----------------------------------------------------------------------------
(* The cut-off of an account (TokenCutOff)                                  *)

\* A token that a request was let in with was issued, and not before the
\* cut-off that the request read.
CutOffInv ==
  /\ CutOffTypeOK
  /\ \A c \in Callers : caller[c].at = "accepted" =>
       /\ caller[c].token \in Logins /\ token[caller[c].token] # Never
       /\ token[caller[c].token] >= caller[c].stamp

(* Truncation to a second never makes a time later.                         *)
LEMMA IatNotLater ==
  ASSUME NEW t \in Logins, token[t] \in Nat
  PROVE  Iat(token[t]) \in Nat /\ Iat(token[t]) <= token[t]
<1>1. TicksPerSecond \in Nat /\ TicksPerSecond > 0
  BY AccessTokensAssumption
<1> QED BY <1>1, SMT DEF Iat, SecondOf

(* A step of one caller that leaves the tokens alone keeps the invariant,   *)
(* when what it leaves of the caller does.                                  *)
LEMMA CallerKeeps ==
  ASSUME CutOffInv, NEW c \in Callers, NEW from, NEW record, CallerStep(c, from, record),
         token' = token,
         record \in [at : {"idle", "verified", "accepted", "resetting", "locking"},
                     token : Logins \cup {NoLogin}, stamp : Ticks],
         record.at = "accepted" =>
           /\ record.token \in Logins /\ token[record.token] # Never
           /\ token[record.token] >= record.stamp,
         clock' \in 0..MaxTick, account' \in [validAfter : Ticks, disabled : BOOLEAN]
  PROVE  CutOffInv'
<1>1. \A d \in Callers : caller'[d] = IF d = c THEN record ELSE caller[d]
  BY DEF CutOffInv, CutOffTypeOK, CallerStep
<1>2. CutOffTypeOK'
  BY <1>1 DEF CutOffInv, CutOffTypeOK, CallerStep
<1> QED BY <1>1, <1>2 DEF CutOffInv

LEMMA CutOffInitInv == CutOffInit => CutOffInv
BY AccessTokensAssumption DEF CutOffInit, CutOffInv, CutOffTypeOK, NoCall, Ticks, Never

LEMMA CutOffStepInv ==
  ASSUME CutOffInv, [CutOffNext]_cutOffVars
  PROVE  CutOffInv'
<1> DEFINE Records == [at : {"idle", "verified", "accepted", "resetting", "locking"},
                       token : Logins \cup {NoLogin}, stamp : Ticks]
<1>t. /\ clock \in 0..MaxTick /\ clock \in Ticks /\ account \in [validAfter : Ticks, disabled : BOOLEAN]
      /\ token \in [Logins -> Ticks] /\ caller \in [Callers -> Records]
  BY AccessTokensAssumption DEF CutOffInv, CutOffTypeOK, Ticks
<1>n. NoCall \in Records /\ NoCall.at = "idle"
  BY DEF NoCall, Ticks
<1>1. CASE CutOffClock
  BY <1>1, <1>t, AccessTokensAssumption DEF CutOffClock, CutOffInv, CutOffTypeOK
<1>2. CASE Unlocked
  <2>1. account' \in [validAfter : Ticks, disabled : BOOLEAN]
    BY <1>2, <1>t DEF Unlocked
  <2> QED BY <1>2, <2>1 DEF Unlocked, CutOffInv, CutOffTypeOK
<1>3. ASSUME NEW c \in Callers, LoginReads(c) PROVE CutOffInv'
  <2> DEFINE record == [NoCall EXCEPT !.at = "verified"]
  <2>1. record \in Records /\ record.at = "verified"
    BY DEF NoCall, Ticks
  <2>2. CallerStep(c, "idle", record) /\ UNCHANGED <<clock, token, account>>
    BY <1>3 DEF LoginReads
  <2> HIDE DEF record
  <2> QED BY <1>t, <2>1, <2>2, CallerKeeps
<1>4. ASSUME NEW c \in Callers, CallerServed(c) PROVE CutOffInv'
  <2>1. CallerStep(c, "accepted", NoCall) /\ UNCHANGED <<clock, token, account>>
    BY <1>4 DEF CallerServed
  <2> QED BY <1>t, <1>n, <2>1, CallerKeeps
<1>5. ASSUME NEW c \in Callers, ResetStarts(c) \/ LockStarts(c) PROVE CutOffInv'
  <2>1. PICK at \in {"resetting", "locking"} :
          CallerStep(c, "idle", [NoCall EXCEPT !.at = at, !.stamp = clock]) /\ UNCHANGED <<clock, token, account>>
    BY <1>5 DEF ResetStarts, LockStarts
  <2> DEFINE record == [NoCall EXCEPT !.at = at, !.stamp = clock]
  <2>2. record \in Records /\ record.at = at
    BY <1>t DEF NoCall
  <2> HIDE DEF record
  <2>3. CallerStep(c, "idle", record)
    BY <2>1 DEF record
  <2> QED BY <1>t, <2>1, <2>2, <2>3, CallerKeeps
<1>6. ASSUME NEW c \in Callers, ResetCommits(c) \/ LockCommits(c) PROVE CutOffInv'
  <2>1. account' \in [validAfter : Ticks, disabled : BOOLEAN]
    BY <1>6, <1>t DEF ResetCommits, LockCommits
  <2>2. PICK from : CallerStep(c, from, NoCall)
    BY <1>6 DEF ResetCommits, LockCommits
  <2>3. UNCHANGED <<clock, token>>
    BY <1>6 DEF ResetCommits, LockCommits
  <2> QED BY <1>t, <1>n, <2>1, <2>2, <2>3, CallerKeeps
<1>7. ASSUME NEW c \in Callers, NEW t \in Logins, LoginIssues(c, t) PROVE CutOffInv'
  <2>1. /\ token[t] = Never /\ token' = [token EXCEPT ![t] = clock] /\ UNCHANGED <<clock, account>>
        /\ \A d \in Callers : caller'[d] = IF d = c THEN NoCall ELSE caller[d]
        /\ caller' = [caller EXCEPT ![c] = NoCall]
    BY <1>7, <1>t DEF LoginIssues, CallerStep
  <2>2. CutOffTypeOK'
    BY <1>t, <1>n, <2>1 DEF CutOffTypeOK
  <2>3. \A u \in Logins : u # t => token'[u] = token[u]
    BY <1>t, <2>1
  <2> QED BY <1>n, <2>1, <2>2, <2>3 DEF CutOffInv
<1>8. ASSUME NEW c \in Callers, NEW t \in Logins, AccountRead(c, t) PROVE CutOffInv'
  <2> DEFINE record == [NoCall EXCEPT !.at = "accepted", !.token = t, !.stamp = account.validAfter]
  <2>1. record \in Records /\ record.token = t /\ record.stamp = account.validAfter
    BY <1>t DEF NoCall
  <2>2. CallerStep(c, "idle", record) /\ UNCHANGED <<clock, token, account>> /\ token[t] # Never /\ ~ BeforeCutOff(t)
    BY <1>8 DEF AccountRead
  <2>3. token[t] \in Nat /\ account.validAfter \in Ticks
    BY <1>t, <2>2, AccessTokensAssumption DEF Ticks
  <2>4. account.validAfter \in Int
    BY <2>3, AccessTokensAssumption DEF Ticks, Never
  <2>5. token[t] >= account.validAfter
    BY <2>2, <2>3, <2>4, IatNotLater DEF BeforeCutOff, Never
  <2> HIDE DEF record
  <2> QED BY <1>t, <2>1, <2>2, <2>5, CallerKeeps
<1>9. CASE UNCHANGED cutOffVars
  BY <1>9 DEF cutOffVars, CutOffInv, CutOffTypeOK
<1> QED BY <1>1, <1>2, <1>3, <1>4, <1>5, <1>6, <1>7, <1>8, <1>9 DEF CutOffNext

(* No request is let in with a token that is older than the cut-off it has  *)
(* read, although the token's time is truncated to a second and the         *)
(* cut-off is not (_token_revoked).                                         *)
THEOREM CutOffAlwaysRefusesOlder == CutOffSpec => []CutOffRefusesOlder
<1>1. CutOffInv /\ [CutOffNext]_cutOffVars => CutOffInv'
  BY CutOffStepInv
<1>2. CutOffInv => CutOffRefusesOlder
  BY DEF CutOffInv, CutOffRefusesOlder
<1> QED BY CutOffInitInv, <1>1, <1>2, PTL DEF CutOffSpec

-----------------------------------------------------------------------------
(* The counters of the admission are the tasks they count (WorkAdmission)   *)

Counted == {h \in Hashers : hash[h].thread # "none"}

\* A job belongs to a task that is inside its slot and waits for the job.
JobsInSlots ==
  /\ \A t \in Tasks : job[t] # "none" => task[t] \in {"working", "stopping"}
  /\ \A h \in Hashers : hash[h].caller = "idle" <=> hash[h].thread = "none"

WorkInv == WorkTypeOK /\ CountersMatchTasks /\ JobsInSlots

-----------------------------------------------------------------------------
(* Cardinalities                                                            *)

LEMMA TasksFinite == IsFiniteSet(Tasks) /\ Limit \in Nat \ {0}
<1>1. IsFiniteSet(Tasks)
  BY FS_Union, WorkAssumption DEF Tasks
<1> QED BY <1>1, WorkAssumption DEF Limit

\* Two sets that differ at most in one element.
LEMMA OneMoves ==
  ASSUME NEW S, NEW R, NEW t, IsFiniteSet(S), \A u : u # t => (u \in S <=> u \in R)
  PROVE  /\ (t \in S <=> t \in R) => Cardinality(R) = Cardinality(S)
         /\ t \in R /\ t \notin S => Cardinality(R) = Cardinality(S) + 1
         /\ t \in S /\ t \notin R => Cardinality(R) = Cardinality(S) - 1 /\ Cardinality(S) >= 1
         /\ Cardinality(S) \in Nat
<1>1. CASE t \in S <=> t \in R
  <2>1. S = R
    BY <1>1
  <2> QED BY <1>1, <2>1, FS_CardinalityType
<1>2. CASE t \in R /\ t \notin S
  <2>1. R = S \cup {t}
    BY <1>2
  <2> QED BY <1>2, <2>1, FS_CardinalityType, FS_AddElement
<1>3. CASE t \in S /\ t \notin R
  <2>1. R = S \ {t}
    BY <1>3
  <2>2. Cardinality(R) = Cardinality(S) - 1
    BY <1>3, <2>1, FS_RemoveElement
  <2>3. IsFiniteSet(R)
    BY <2>1, FS_Subset
  <2>4. Cardinality(R) \in Nat /\ Cardinality(S) \in Nat
    BY <2>3, FS_CardinalityType
  <2>5. Cardinality(S) >= 1
    BY <2>2, <2>4
  <2> QED BY <1>3, <2>2, <2>4, <2>5
<1> QED BY <1>1, <1>2, <1>3

\* What the move of one task does to the slots and to the waiting room.
LEMMA TaskMoves ==
  ASSUME WorkInv, NEW t \in Tasks, NEW from \in SUBSET Places, NEW to \in Places, TaskStep(t, from, to)
  PROVE  /\ task[t] \in from /\ task' \in [Tasks -> Places] /\ \A u \in Tasks : task'[u] = IF u = t THEN to ELSE task[u]
         /\ Cardinality(Holders') = IF (t \in Holders) = (to \in {"holding", "working", "stopping"})
                                      THEN active ELSE IF t \in Holders THEN active - 1 ELSE active + 1
         /\ t \in Holders => active >= 1
         /\ Cardinality(Waiters') = IF (t \in Waiters) = (to \in {"waiting", "overdue"})
                                      THEN queue ELSE IF t \in Waiters THEN queue - 1 ELSE queue + 1
         /\ t \in Waiters => queue >= 1
<1>1. task[t] \in from /\ task' \in [Tasks -> Places] /\ \A u \in Tasks : task'[u] = IF u = t THEN to ELSE task[u]
  BY DEF TaskStep, WorkInv, WorkTypeOK
<1>2. IsFiniteSet(Holders) /\ IsFiniteSet(Waiters)
  BY TasksFinite, FS_Subset DEF Holders, Waiters
<1>3. active = Cardinality(Holders) /\ queue = Cardinality(Waiters)
  BY DEF WorkInv, CountersMatchTasks
<1>4. /\ \A u : u # t => (u \in Holders <=> u \in Holders')
      /\ \A u : u # t => (u \in Waiters <=> u \in Waiters')
  BY <1>1 DEF Holders, Waiters
<1>5. /\ t \in Holders' <=> to \in {"holding", "working", "stopping"}
      /\ t \in Waiters' <=> to \in {"waiting", "overdue"}
  BY <1>1 DEF Holders, Waiters
<1>6. /\ Cardinality(Holders) \in Nat
      /\ (t \in Holders <=> t \in Holders') => Cardinality(Holders') = Cardinality(Holders)
      /\ t \in Holders' /\ t \notin Holders => Cardinality(Holders') = Cardinality(Holders) + 1
      /\ t \in Holders /\ t \notin Holders' => Cardinality(Holders') = Cardinality(Holders) - 1
  BY <1>2, <1>4, OneMoves
<1>7. /\ Cardinality(Waiters) \in Nat
      /\ (t \in Waiters <=> t \in Waiters') => Cardinality(Waiters') = Cardinality(Waiters)
      /\ t \in Waiters' /\ t \notin Waiters => Cardinality(Waiters') = Cardinality(Waiters) + 1
      /\ t \in Waiters /\ t \notin Waiters' => Cardinality(Waiters') = Cardinality(Waiters) - 1
  BY <1>2, <1>4, OneMoves
<1>8. (t \in Holders => active >= 1) /\ (t \in Waiters => queue >= 1)
  <2>1. \A S : IsFiniteSet(S) /\ t \in S => Cardinality(S) >= 1
    <3> SUFFICES ASSUME NEW S, IsFiniteSet(S), t \in S PROVE Cardinality(S) >= 1
      OBVIOUS
    <3>1. \A u : u # t => (u \in S <=> u \in (S \ {t}))
      OBVIOUS
    <3>2. t \notin (S \ {t})
      OBVIOUS
    <3> QED BY <3>1, <3>2, OneMoves
  <2> QED BY <1>2, <1>3, <2>1
<1> QED BY <1>1, <1>3, <1>5, <1>6, <1>7, <1>8

\* What the move of one hashing request does to the count of hashes.
LEMMA HashMoves ==
  ASSUME WorkInv, NEW h \in Hashers, NEW from,
         NEW record \in [caller : {"idle", "awaiting", "gone"}, thread : {"none", "queued", "running"}],
         HashStep(h, from, record)
  PROVE  /\ hash[h] = from /\ \A u \in Hashers : hash'[u] = IF u = h THEN record ELSE hash[u]
         /\ hash' \in [Hashers -> [caller : {"idle", "awaiting", "gone"}, thread : {"none", "queued", "running"}]]
         /\ Cardinality(Counted') = IF (from.thread # "none") = (record.thread # "none")
                                      THEN hashing ELSE IF from.thread # "none" THEN hashing - 1 ELSE hashing + 1
         /\ from.thread # "none" => hashing >= 1
<1>1. /\ hash[h] = from /\ \A u \in Hashers : hash'[u] = IF u = h THEN record ELSE hash[u]
      /\ hash' \in [Hashers -> [caller : {"idle", "awaiting", "gone"}, thread : {"none", "queued", "running"}]]
  BY DEF HashStep, WorkInv, WorkTypeOK
<1>2. IsFiniteSet(Counted)
  BY WorkAssumption, FS_Subset DEF Counted
<1>3. hashing = Cardinality(Counted)
  BY DEF WorkInv, CountersMatchTasks, Counted
<1>4. \A u : u # h => (u \in Counted <=> u \in Counted')
  BY <1>1 DEF Counted
<1>5. (h \in Counted' <=> record.thread # "none") /\ (h \in Counted <=> from.thread # "none")
  BY <1>1 DEF Counted
<1>6. /\ Cardinality(Counted) \in Nat
      /\ (h \in Counted <=> h \in Counted') => Cardinality(Counted') = Cardinality(Counted)
      /\ h \in Counted' /\ h \notin Counted => Cardinality(Counted') = Cardinality(Counted) + 1
      /\ h \in Counted /\ h \notin Counted' => Cardinality(Counted') = Cardinality(Counted) - 1
  BY <1>2, <1>4, OneMoves
<1>7. from.thread # "none" => hashing >= 1
  <2> SUFFICES ASSUME h \in Counted PROVE hashing >= 1
    BY <1>5
  <2>1. \A u : u # h => (u \in Counted <=> u \in (Counted \ {h}))
    OBVIOUS
  <2>2. h \notin (Counted \ {h})
    OBVIOUS
  <2> QED BY <1>2, <1>3, <2>1, <2>2, OneMoves
<1> QED BY <1>1, <1>3, <1>5, <1>6, <1>7

-----------------------------------------------------------------------------
LEMMA WorkInitInv == WorkInit => WorkInv
<1> SUFFICES ASSUME WorkInit PROVE WorkInv
  OBVIOUS
<1>1. Holders = {} /\ Waiters = {} /\ Counted = {}
  BY DEF WorkInit, Holders, Waiters, Counted
<1>2. WorkTypeOK
  <2>1. 0 \in 0..Limit /\ 0 \in 0..(2 * Limit) /\ 0 \in 0..MaxHashes
    BY TasksFinite, WorkAssumption
  <2> QED BY <2>1 DEF WorkInit, WorkTypeOK, Places
<1>3. CountersMatchTasks
  BY <1>1, FS_EmptySet DEF WorkInit, CountersMatchTasks, Counted
<1>4. JobsInSlots
  BY DEF WorkInit, JobsInSlots
<1> QED BY <1>2, <1>3, <1>4 DEF WorkInv

\* A step of a task keeps the invariant when the counters follow its move and
\* its job stays with a task that waits for it.
LEMMA TaskStepInv ==
  ASSUME WorkInv, NEW t \in Tasks, NEW from \in SUBSET Places, NEW to \in Places, TaskStep(t, from, to),
         active' = Cardinality(Holders'), queue' = Cardinality(Waiters'),
         active' \in 0..Limit, queue' \in 0..(2 * Limit),
         NEW j \in {"none", "running", "over"}, job' = [job EXCEPT ![t] = j],
         j # "none" => to \in {"working", "stopping"}
  PROVE  WorkInv'
<1>1. UNCHANGED <<hashing, hash>> /\ task' \in [Tasks -> Places]
      /\ \A u \in Tasks : task'[u] = IF u = t THEN to ELSE task[u]
  BY TaskMoves DEF TaskStep
<1>2. job' \in [Tasks -> {"none", "running", "over"}] /\ \A u \in Tasks : job'[u] = IF u = t THEN j ELSE job[u]
  BY DEF WorkInv, WorkTypeOK
<1>3. WorkTypeOK'
  BY <1>1, <1>2 DEF WorkInv, WorkTypeOK
<1>4. CountersMatchTasks'
  <2>1. {h \in Hashers : hash'[h].thread # "none"} = {h \in Hashers : hash[h].thread # "none"}
    BY <1>1
  <2> QED BY <1>1, <2>1 DEF WorkInv, CountersMatchTasks
<1>5. JobsInSlots'
  BY <1>1, <1>2 DEF WorkInv, JobsInSlots
<1> QED BY <1>3, <1>4, <1>5 DEF WorkInv

\* The counters as the tasks move in and out of the slots and the waiting room.
LEMMA TaskNextInv ==
  ASSUME WorkInv, NEW t \in Tasks,
         \/ TaskRuns(t) \/ SlotAsked(t) \/ SlotReturned(t) \/ WaiterCancelled(t)
         \/ JobScheduled(t) \/ JobCancelled(t)
  PROVE  WorkInv'
<1>0. /\ active \in 0..Limit /\ queue \in 0..(2 * Limit) /\ Limit \in Nat
      /\ job \in [Tasks -> {"none", "running", "over"}]
      /\ task[t] \in {"waiting", "overdue"} <=> t \in Waiters
      /\ task[t] \in {"holding", "working", "stopping"} <=> t \in Holders
  BY TasksFinite DEF WorkInv, WorkTypeOK, Waiters, Holders
<1>1. job[t] \in {"none", "running", "over"} /\ job = [job EXCEPT ![t] = job[t]]
  BY <1>0
<1>2. job[t] # "none" => task[t] \in {"working", "stopping"}
  BY DEF WorkInv, JobsInSlots
<1>3. CASE SlotAsked(t)
  <2>1. CASE active < Limit /\ TaskStep(t, {"idle"}, "holding") /\ active' = active + 1 /\ UNCHANGED <<queue, job>>
    <3>1. task[t] = "idle"
      BY <2>1 DEF TaskStep
    <3>2. active' = Cardinality(Holders') /\ queue' = Cardinality(Waiters')
      BY <1>0, <2>1, <3>1, TaskMoves DEF Places
    <3> QED BY <1>0, <1>1, <1>2, <2>1, <3>1, <3>2, TaskStepInv DEF Places
  <2>2. CASE queue < 2 * Limit /\ TaskStep(t, {"idle"}, "waiting") /\ queue' = queue + 1 /\ UNCHANGED <<active, job>>
    <3>1. task[t] = "idle"
      BY <2>2 DEF TaskStep
    <3>2. active' = Cardinality(Holders') /\ queue' = Cardinality(Waiters')
      BY <1>0, <2>2, <3>1, TaskMoves DEF Places
    <3> QED BY <1>0, <1>1, <1>2, <2>2, <3>1, <3>2, TaskStepInv DEF Places
  <2> QED BY <1>3, <2>1, <2>2 DEF SlotAsked
<1>4. CASE WaitEnds(t)
  <2>1. TaskStep(t, {"waiting"}, "overdue") /\ UNCHANGED <<active, queue, job>>
    BY <1>4 DEF WaitEnds
  <2>2. task[t] = "waiting"
    BY <2>1 DEF TaskStep
  <2>3. active' = Cardinality(Holders') /\ queue' = Cardinality(Waiters')
    BY <1>0, <2>1, <2>2, TaskMoves DEF Places
  <2> QED BY <1>0, <1>1, <1>2, <2>1, <2>2, <2>3, TaskStepInv DEF Places
<1>5. CASE WaiterPolls(t)
  <2>1. CASE active < Limit /\ TaskStep(t, {"waiting", "overdue"}, "holding") /\ active' = active + 1
             /\ queue' = queue - 1 /\ UNCHANGED job
    <3>1. task[t] \in {"waiting", "overdue"}
      BY <2>1 DEF TaskStep
    <3>2. active' = Cardinality(Holders') /\ queue' = Cardinality(Waiters') /\ queue >= 1
      BY <1>0, <2>1, <3>1, TaskMoves DEF Places
    <3> QED BY <1>0, <1>1, <1>2, <2>1, <3>1, <3>2, TaskStepInv DEF Places
  <2>2. CASE TaskStep(t, {"overdue"}, "idle") /\ queue' = queue - 1 /\ UNCHANGED <<active, job>>
    <3>1. task[t] = "overdue"
      BY <2>2 DEF TaskStep
    <3>2. active' = Cardinality(Holders') /\ queue' = Cardinality(Waiters') /\ queue >= 1
      BY <1>0, <2>2, <3>1, TaskMoves DEF Places
    <3> QED BY <1>0, <1>1, <1>2, <2>2, <3>1, <3>2, TaskStepInv DEF Places
  <2> QED BY <1>5, <2>1, <2>2 DEF WaiterPolls
<1>6. CASE WaiterCancelled(t)
  <2>1. TaskStep(t, {"waiting", "overdue"}, "idle") /\ queue' = queue - 1 /\ UNCHANGED <<active, job>>
    BY <1>6 DEF WaiterCancelled
  <2>2. task[t] \in {"waiting", "overdue"}
    BY <2>1 DEF TaskStep
  <2>3. active' = Cardinality(Holders') /\ queue' = Cardinality(Waiters') /\ queue >= 1
    BY <1>0, <2>1, <2>2, TaskMoves DEF Places
  <2> QED BY <1>0, <1>1, <1>2, <2>1, <2>2, <2>3, TaskStepInv DEF Places
<1>7. CASE SlotReturned(t)
  <2>1. TaskStep(t, {"holding"}, "idle") /\ active' = active - 1 /\ UNCHANGED <<queue, job>>
    BY <1>7 DEF SlotReturned
  <2>2. task[t] = "holding"
    BY <2>1 DEF TaskStep
  <2>3. active' = Cardinality(Holders') /\ queue' = Cardinality(Waiters') /\ active >= 1
    BY <1>0, <2>1, <2>2, TaskMoves DEF Places
  <2> QED BY <1>0, <1>1, <1>2, <2>1, <2>2, <2>3, TaskStepInv DEF Places
<1>8. CASE JobScheduled(t)
  <2>1. TaskStep(t, {"holding"}, "working") /\ job' = [job EXCEPT ![t] = "running"] /\ UNCHANGED <<active, queue>>
    BY <1>8 DEF JobScheduled
  <2>2. task[t] = "holding"
    BY <2>1 DEF TaskStep
  <2>3. active' = Cardinality(Holders') /\ queue' = Cardinality(Waiters')
    BY <1>0, <2>1, <2>2, TaskMoves DEF Places
  <2> QED BY <1>0, <2>1, <2>2, <2>3, TaskStepInv DEF Places
<1>9. CASE JobAnswered(t)
  <2>1. TaskStep(t, {"working"}, "holding") /\ job' = [job EXCEPT ![t] = "none"] /\ UNCHANGED <<active, queue>>
    BY <1>9 DEF JobAnswered
  <2>2. task[t] = "working"
    BY <2>1 DEF TaskStep
  <2>3. active' = Cardinality(Holders') /\ queue' = Cardinality(Waiters')
    BY <1>0, <2>1, <2>2, TaskMoves DEF Places
  <2> QED BY <1>0, <2>1, <2>2, <2>3, TaskStepInv DEF Places
<1>10. CASE JobStopped(t)
  <2>1. TaskStep(t, {"stopping"}, "idle") /\ job' = [job EXCEPT ![t] = "none"] /\ active' = active - 1 /\ UNCHANGED queue
    BY <1>10 DEF JobStopped
  <2>2. task[t] = "stopping"
    BY <2>1 DEF TaskStep
  <2>3. active' = Cardinality(Holders') /\ queue' = Cardinality(Waiters') /\ active >= 1
    BY <1>0, <2>1, <2>2, TaskMoves DEF Places
  <2>4. active' \in 0..Limit /\ queue' \in 0..(2 * Limit)
    BY <1>0, <2>1, <2>3
  <2> QED BY <2>1, <2>2, <2>3, <2>4, TaskStepInv DEF Places
<1>11. CASE JobCancelled(t)
  <2>1. TaskStep(t, {"working", "stopping"}, "stopping") /\ UNCHANGED <<active, queue, job>>
    BY <1>11 DEF JobCancelled
  <2>2. task[t] \in {"working", "stopping"}
    BY <2>1 DEF TaskStep
  <2>3. active' = Cardinality(Holders') /\ queue' = Cardinality(Waiters')
    BY <1>0, <2>1, <2>2, TaskMoves DEF Places
  <2> QED BY <1>0, <1>1, <1>2, <2>1, <2>2, <2>3, TaskStepInv DEF Places
<1> QED BY <1>3, <1>4, <1>5, <1>6, <1>7, <1>8, <1>9, <1>10, <1>11 DEF TaskRuns

LEMMA JobEndsInv == ASSUME WorkInv, NEW t \in Tasks, JobEnds(t) PROVE WorkInv'
<1>1. WorkTypeOK'
  BY DEF JobEnds, WorkInv, WorkTypeOK
<1>2. Holders' = Holders /\ Waiters' = Waiters
  BY DEF JobEnds, Holders, Waiters
<1>3. CountersMatchTasks'
  BY <1>2 DEF JobEnds, WorkInv, CountersMatchTasks
<1>4. JobsInSlots'
  BY DEF JobEnds, WorkInv, WorkTypeOK, JobsInSlots
<1> QED BY <1>1, <1>3, <1>4 DEF WorkInv

-----------------------------------------------------------------------------
LEMMA HashStepInv ==
  ASSUME WorkInv, NEW h \in Hashers, NEW from,
         NEW record \in [caller : {"idle", "awaiting", "gone"}, thread : {"none", "queued", "running"}],
         HashStep(h, from, record), record.caller = "idle" <=> record.thread = "none",
         hashing' = Cardinality(Counted'), hashing' \in 0..MaxHashes
  PROVE  WorkInv'
<1>1. UNCHANGED <<active, queue, task, job>>
  BY DEF HashStep
<1>2. /\ \A u \in Hashers : hash'[u] = IF u = h THEN record ELSE hash[u]
      /\ hash' \in [Hashers -> [caller : {"idle", "awaiting", "gone"}, thread : {"none", "queued", "running"}]]
  BY HashMoves
<1>3. WorkTypeOK'
  BY <1>1, <1>2 DEF WorkInv, WorkTypeOK
<1>4. Holders' = Holders /\ Waiters' = Waiters
  BY <1>1 DEF Holders, Waiters
<1>5. CountersMatchTasks'
  BY <1>1, <1>4 DEF WorkInv, CountersMatchTasks, Counted
<1>6. JobsInSlots'
  BY <1>1, <1>2 DEF WorkInv, JobsInSlots
<1> QED BY <1>3, <1>5, <1>6 DEF WorkInv

LEMMA HashNextInv ==
  ASSUME WorkInv, NEW h \in Hashers,
         HashAsked(h) \/ HashNotSubmitted(h) \/ HashSubmitted(h) \/ HashCallerGone(h) \/ HashFinished(h)
  PROVE  WorkInv'
<1>0. hashing \in 0..MaxHashes /\ MaxHashes \in Nat
  BY WorkAssumption DEF WorkInv, WorkTypeOK
<1>1. \A c, w : At(c, w).caller = c /\ At(c, w).thread = w
  BY DEF At
<1>2. \A c \in {"idle", "awaiting", "gone"}, w \in {"none", "queued", "running"} :
        At(c, w) \in [caller : {"idle", "awaiting", "gone"}, thread : {"none", "queued", "running"}]
  BY DEF At
<1>3. CASE HashAsked(h)
  <2>1. HashStep(h, At("idle", "none"), At("awaiting", "queued")) /\ hashing' = hashing + 1 /\ hashing < MaxHashes
    BY <1>3 DEF HashAsked
  <2>2. hashing' = Cardinality(Counted')
    BY <1>1, <1>2, <2>1, HashMoves
  <2> QED BY <1>0, <1>1, <1>2, <2>1, <2>2, HashStepInv
<1>4. ASSUME NEW c \in {"awaiting", "gone"}, NEW w \in {"queued", "running"},
             HashStep(h, At(c, w), At("idle", "none")), hashing' = hashing - 1
      PROVE  WorkInv'
  <2>1. hashing' = Cardinality(Counted') /\ hashing >= 1
    BY <1>1, <1>2, <1>4, HashMoves
  <2> QED BY <1>0, <1>1, <1>2, <1>4, <2>1, HashStepInv
<1>5. ASSUME NEW c \in {"awaiting", "gone"}, NEW w \in {"queued", "running"},
             HashStep(h, At("awaiting", w), At(c, "running")), UNCHANGED hashing
      PROVE  WorkInv'
  <2>1. hashing' = Cardinality(Counted')
    BY <1>1, <1>2, <1>5, HashMoves
  <2> QED BY <1>0, <1>1, <1>2, <1>5, <2>1, HashStepInv
<1> QED BY <1>3, <1>4, <1>5 DEF HashNotSubmitted, HashSubmitted, HashCallerGone, HashFinished

LEMMA WorkStepInv == WorkInv /\ [WorkNext]_workVars => WorkInv'
<1>1. ASSUME WorkInv, UNCHANGED workVars PROVE WorkInv'
  BY <1>1 DEF workVars, WorkInv, WorkTypeOK, CountersMatchTasks, Holders, Waiters, JobsInSlots
<1> QED BY <1>1, TaskNextInv, JobEndsInv, HashNextInv DEF WorkNext

(* No slot and no place in the waiting room is lost or given back twice,    *)
(* however tasks end (image_processing_slot, run_in_pool, _hash_and_release). *)
THEOREM CountersAlwaysMatch == WorkSpec => []CountersMatchTasks
<1>1. WorkInv => CountersMatchTasks
  BY DEF WorkInv
<1> QED BY WorkInitInv, WorkStepInv, <1>1, PTL DEF WorkSpec

(* No more jobs and hashes run than allowed, although cancelled requests    *)
(* leave theirs behind.                                                     *)
THEOREM WorkAlwaysWithinLimit == WorkSpec => []WorkWithinLimit
<1>1. WorkInv => WorkWithinLimit
  <2> SUFFICES ASSUME WorkInv PROVE WorkWithinLimit
    OBVIOUS
  <2>1. IsFiniteSet(Holders) /\ IsFiniteSet(Counted)
    BY TasksFinite, WorkAssumption, FS_Subset DEF Holders, Counted
  <2>2. Jobs \subseteq Holders /\ Threads \subseteq Counted
    BY DEF WorkInv, JobsInSlots, Jobs, Holders, Threads, Counted
  <2>3. Cardinality(Jobs) <= Cardinality(Holders) /\ Cardinality(Threads) <= Cardinality(Counted)
    BY <2>1, <2>2, FS_Subset
  <2>4. /\ Cardinality(Holders) = active /\ Cardinality(Counted) = hashing
        /\ active \in 0..Limit /\ hashing \in 0..MaxHashes
    BY DEF WorkInv, CountersMatchTasks, Counted, WorkTypeOK
  <2>5. IsFiniteSet(Jobs) /\ IsFiniteSet(Threads) /\ Limit \in Nat
    BY <2>1, <2>2, TasksFinite, FS_Subset
  <2>6. Cardinality(Jobs) \in Nat /\ Cardinality(Threads) \in Nat
    BY <2>5, FS_CardinalityType
  <2> QED BY <2>3, <2>4, <2>5, <2>6, WorkAssumption DEF WorkWithinLimit
<1> QED BY WorkInitInv, WorkStepInv, <1>1, PTL DEF WorkSpec

-----------------------------------------------------------------------------
(* One request under the body limit (RequestBody)                           *)

Refusing == app = "skipped" \/ rejected

\* How much of an answer of one author is on the wire.
Sent(w, n, first, second) ==
  /\ Len(w) = n /\ n \in 0..2
  /\ n >= 1 => w[1] = first
  /\ n = 2 => w[2] = second

\* Either the 413 goes out and the application has sent nothing, or no 413
\* does: the two are decided before the first message of either.
OneAuthor ==
  /\ Refusing => ~ started /\ answering = "none" /\ Sent(wire, 2 - rejecting, "413_start", "413_body")
  /\ ~ Refusing =>
       /\ rejecting = 0
       /\ ~ started => answering = "none" /\ Sent(wire, 0, "app_start", "app_body")
       /\ started => \/ answering = "start" /\ Sent(wire, 0, "app_start", "app_body")
                     \/ answering \in {"none", "body"} /\ Sent(wire, 1, "app_start", "app_body")
                     \/ answering = "none" /\ Sent(wire, 2, "app_start", "app_body")

\* Where the application is says what has been sent.
AppKnows ==
  /\ app \in {"waiting", "skipped"} => ~ rejected /\ ~ started
  /\ app \in {"told", "returned", "raised"} => rejecting = 0
  /\ app \in {"waiting", "returned", "raised"} => answering = "none"
  /\ app = "returned" => Len(wire) = 2
  /\ rejected => limitHit

WithinLimit == received = chunks /\ delivered <= received /\ (Unlimited \/ delivered <= BodyLimit)

BodyInv == BodyTypeOK /\ OneAuthor /\ AppKnows /\ WithinLimit

Messages == {"413_start", "413_body", "app_start", "app_body"}

LEMMA BodyTypes ==
  BodyTypeOK <=>
    /\ route \in Routes /\ declared \in -1..MaxBody
    /\ {chunks, received, delivered} \subseteq 0..MaxBody
    /\ {limitHit, rejected, started} \subseteq BOOLEAN
    /\ rejecting \in 0..2 /\ answering \in {"none", "start", "body"}
    /\ wire \in Seq(Messages)
    /\ app \in {"waiting", "running", "told", "returned", "raised", "skipped"}
BY DEF BodyTypeOK, Messages

(* The smallest limit that applies to a request is one of the limits.       *)
LEMMA LimitIsNat == ~ Unlimited => BodyLimit \in Nat
<1> SUFFICES ASSUME Limits # {} PROVE BodyLimit \in Nat
  BY DEF Unlimited
<1>1. Limits \subseteq {UploadLimit, OrdinaryLimit, SelectionLimit} /\ Limits \subseteq Nat
  BY BodyAssumption DEF Limits
<1>2. \E n \in Limits : \A m \in Limits : n <= m
  <2> SUFFICES ASSUME \A n \in Limits : \E m \in Limits : ~ (n <= m) PROVE FALSE
    OBVIOUS
  <2>1. PICK a \in Limits : TRUE
    OBVIOUS
  <2>2. PICK b \in Limits : ~ (a <= b)
    OBVIOUS
  <2>3. PICK c \in Limits : ~ (b <= c)
    OBVIOUS
  <2>4. PICK d \in Limits : ~ (c <= d)
    OBVIOUS
  <2>5. a \in Nat /\ b \in Nat /\ c \in Nat /\ d \in Nat
    BY <1>1
  <2>6. a # b /\ a # c /\ a # d /\ b # c /\ b # d /\ c # d
    BY <2>2, <2>3, <2>4, <2>5
  <2> QED BY <1>1, <2>6
<1> QED BY <1>1, <1>2 DEF BodyLimit

(* The limit depends only on the route, which no step changes.              *)
LEMMA LimitStays == route' = route => Unlimited' = Unlimited /\ BodyLimit' = BodyLimit
BY DEF Unlimited, BodyLimit, Limits

LEMMA BodyInitInv == BodyInit => BodyInv
<1> SUFFICES ASSUME BodyInit PROVE BodyInv
  OBVIOUS
<1>1. BodyTypeOK
  <2>1. MaxBody \in Nat /\ wire \in Seq(Messages)
    BY BodyAssumption DEF BodyInit
  <2>2. {limitHit, rejected, started} \subseteq BOOLEAN
    BY DEF BodyInit
  <2>3. /\ route \in Routes /\ declared \in -1..MaxBody
        /\ {chunks, received, delivered} \subseteq 0..MaxBody
        /\ rejecting \in 0..2 /\ answering \in {"none", "start", "body"}
        /\ app \in {"waiting", "running", "told", "returned", "raised", "skipped"}
    BY <2>1 DEF BodyInit
  <2> QED BY <2>1, <2>2, <2>3, BodyTypes
<1>2. OneAuthor /\ AppKnows
  <2>1. Len(wire) = 0
    BY DEF BodyInit
  <2> QED BY <2>1 DEF BodyInit, OneAuthor, AppKnows, Sent, Refusing
<1>3. WithinLimit
  BY LimitIsNat DEF BodyInit, WithinLimit
<1> QED BY <1>1, <1>2, <1>3 DEF BodyInv

(* One more message of the answer that is under way.                        *)
LEMMA Appended ==
  ASSUME NEW s \in Seq(Messages), NEW m \in Messages
  PROVE  /\ Append(s, m) \in Seq(Messages) /\ Len(Append(s, m)) = Len(s) + 1
         /\ Append(s, m)[Len(s) + 1] = m /\ \A i \in 1..Len(s) : Append(s, m)[i] = s[i]
OBVIOUS

LEMMA OneMore ==
  ASSUME BodyTypeOK, NEW n \in 0..1, NEW first \in Messages, NEW second \in Messages, Sent(wire, n, first, second),
         wire' = Append(wire, IF n = 0 THEN first ELSE second)
  PROVE  Sent(wire', n + 1, first, second) /\ wire' \in Seq(Messages)
<1> DEFINE m == IF n = 0 THEN first ELSE second
<1>1. wire \in Seq(Messages) /\ m \in Messages
  BY BodyTypes
<1>2. wire' = Append(wire, m)
  OBVIOUS
<1>3. /\ wire' \in Seq(Messages) /\ Len(wire') = Len(wire) + 1 /\ wire'[Len(wire) + 1] = m
      /\ \A i \in 1..Len(wire) : wire'[i] = wire[i]
  <2> HIDE DEF m
  <2> QED BY <1>1, <1>2, Appended
<1>4. Len(wire) = n
  BY DEF Sent
<1>5. CASE n = 0
  BY <1>3, <1>4, <1>5 DEF Sent
<1>6. CASE n = 1
  BY <1>3, <1>4, <1>6 DEF Sent
<1> QED BY <1>3, <1>5, <1>6

\* What the middleware and the application do to the types, variable by variable.
Typed ==
  /\ route \in Routes /\ declared \in -1..MaxBody
  /\ {chunks, received, delivered} \subseteq 0..MaxBody
  /\ rejecting \in 0..2 /\ answering \in {"none", "start", "body"}
  /\ app \in {"waiting", "running", "told", "returned", "raised", "skipped"}

LEMMA TypesKept ==
  ASSUME Typed', {limitHit', rejected', started'} \subseteq BOOLEAN, wire' \in Seq(Messages)
  PROVE  BodyTypeOK'
BY DEF Typed, BodyTypeOK, Messages

LEMMA BodyStepInv ==
  ASSUME BodyInv, [BodyNext]_bodyVars
  PROVE  BodyInv'
<1>i. BodyTypeOK /\ OneAuthor /\ AppKnows /\ WithinLimit
  BY DEF BodyInv
<1>t. Typed /\ {limitHit, rejected, started} \subseteq BOOLEAN /\ wire \in Seq(Messages)
  BY <1>i, BodyTypes DEF Typed
<1>r. route' = route => Unlimited' = Unlimited /\ BodyLimit' = BodyLimit
  BY LimitStays
<1>w. ASSUME route' = route, received' = received, chunks' = chunks, delivered' = delivered PROVE WithinLimit'
  BY <1>w, <1>r, <1>i DEF WithinLimit
<1>1. CASE BodyArrives
  <2>1. {limitHit', rejected', started'} \subseteq BOOLEAN /\ wire' = wire
    BY <1>1, <1>t DEF BodyArrives
  <2>2. Typed'
    BY <1>1, <1>t DEF BodyArrives, Typed
  <2>3. rejecting = 0 /\ ~ rejected /\ ~ started /\ answering = "none" /\ Sent(wire, 0, "app_start", "app_body") /\ Len(wire) = 0
    BY <1>1, <1>i DEF BodyArrives, OneAuthor, AppKnows, Refusing, Sent
  <2>4. Sent(wire, 0, "413_start", "413_body")
    BY <2>3 DEF Sent
  <2>5. ~ rejected' /\ ~ started' /\ answering' = "none" /\ Len(wire') = 0 /\ Sent(wire, 0, "app_start", "app_body")'
    BY <1>1, <2>1, <2>3 DEF BodyArrives
  <2>6. OneAuthor' /\ (app' = "skipped" \/ (app' = "running" /\ rejecting' = 0))
    <3>1. CASE ~ Unlimited /\ declared > BodyLimit
      <4>1. app' = "skipped" /\ rejecting' = 2
        BY <1>1, <3>1 DEF BodyArrives
      <4>2. Sent(wire, 2 - rejecting, "413_start", "413_body")'
        BY <2>5, <4>1 DEF Sent
      <4>3. Refusing'
        BY <4>1 DEF Refusing
      <4>4. ~ started' /\ answering' = "none" /\ Sent(wire', 2 - rejecting', "413_start", "413_body")
        BY <2>5, <4>2
      <4>5. OneAuthor'
        BY <4>3, <4>4 DEF OneAuthor
      <4> QED BY <4>1, <4>5
    <3>2. CASE ~ (~ Unlimited /\ declared > BodyLimit)
      <4>1. app' = "running" /\ rejecting' = rejecting
        BY <1>1, <3>2 DEF BodyArrives
      <4> QED BY <2>3, <2>5, <4>1 DEF OneAuthor, Refusing
    <3> QED BY <3>1, <3>2
  <2>7. AppKnows'
    BY <2>5, <2>6 DEF AppKnows
  <2> QED BY <1>1, <1>t, <1>w, <2>1, <2>2, <2>6, <2>7, TypesKept DEF BodyArrives, BodyInv
<1>2. ASSUME NEW n \in 1..MaxChunk, ChunkWithin(n) PROVE BodyInv'
  <2>n. n \in Nat /\ MaxBody \in Nat /\ (~ Unlimited => BodyLimit \in Nat)
    BY BodyAssumption, LimitIsNat
  <2>1. {limitHit', rejected', started'} \subseteq BOOLEAN /\ wire' = wire
    BY <1>2, <1>t DEF ChunkWithin
  <2>2. Typed'
    BY <1>2, <1>i, <1>t, <2>n DEF ChunkWithin, Typed, WithinLimit
  <2>3. OneAuthor' /\ AppKnows'
    BY <1>2, <1>i, <2>1 DEF ChunkWithin, OneAuthor, Refusing, AppKnows
  <2>4. WithinLimit'
    BY <1>2, <1>i, <1>t, <1>r, <2>n DEF ChunkWithin, WithinLimit, Typed
  <2> QED BY <1>t, <2>1, <2>2, <2>3, <2>4, TypesKept DEF BodyInv
<1>3. ASSUME NEW n \in 1..MaxChunk, ChunkBeyond(n) PROVE BodyInv'
  <2>n. n \in Nat /\ MaxBody \in Nat
    BY BodyAssumption
  <2>1. {limitHit', rejected', started'} \subseteq BOOLEAN /\ wire' = wire
    BY <1>3, <1>t DEF ChunkBeyond
  <2>2. Typed'
    BY <1>3, <1>i, <1>t, <2>n DEF ChunkBeyond, Typed, WithinLimit
  <2>3. WithinLimit'
    BY <1>3, <1>i, <1>t, <1>r, <2>n DEF ChunkBeyond, WithinLimit, Typed
  <2>4. CASE started
    <3>1. UNCHANGED <<started, rejected, rejecting, answering, wire, app>>
      BY <1>3, <2>4 DEF ChunkBeyond
    <3>2. OneAuthor'
      BY <1>i, <3>1, Zenon DEF OneAuthor, Refusing
    <3>3. AppKnows'
      BY <1>3, <1>i, <3>1 DEF AppKnows, ChunkBeyond
    <3> QED BY <1>t, <2>1, <2>2, <2>3, <3>2, <3>3, TypesKept DEF BodyInv
  <2>5. CASE ~ started
    <3>1. /\ UNCHANGED <<started, answering, wire, app>> /\ rejected' = TRUE /\ rejecting' = 2
          /\ app = "running" /\ rejecting = 0
      BY <1>3, <2>5 DEF ChunkBeyond
    <3>2. ~ Refusing
      BY <1>3, <1>i, <3>1 DEF ChunkBeyond, Refusing, AppKnows
    <3>3. answering = "none" /\ Len(wire) = 0
      BY <1>i, <2>5, <3>2 DEF OneAuthor, Sent
    <3>4. Sent(wire, 2 - rejecting, "413_start", "413_body")'
      BY <3>1, <3>3 DEF Sent
    <3>5. OneAuthor'
      BY <2>5, <3>1, <3>3, <3>4 DEF OneAuthor, Refusing
    <3>6. AppKnows'
      BY <1>3, <2>5, <3>1 DEF AppKnows, ChunkBeyond
    <3> QED BY <1>t, <2>1, <2>2, <2>3, <3>5, <3>6, TypesKept DEF BodyInv
  <2> QED BY <2>4, <2>5
<1>4. CASE RejectionSent
  <2>1. /\ rejecting > 0 /\ rejecting' = rejecting - 1
        /\ UNCHANGED <<route, declared, chunks, received, delivered, limitHit, rejected, started, answering, app>>
        /\ wire' = Append(wire, IF rejecting = 2 THEN "413_start" ELSE "413_body")
    BY <1>4 DEF RejectionSent
  <2>2. rejecting \in 1..2 /\ rejecting' \in 0..1
    BY <1>t, <2>1 DEF Typed
  <2>3. {limitHit', rejected', started'} \subseteq BOOLEAN
    BY <1>t, <2>1
  <2>4. Typed'
    BY <1>t, <2>1, <2>2 DEF Typed
  <2>5. Refusing /\ ~ started /\ answering = "none" /\ Sent(wire, 2 - rejecting, "413_start", "413_body")
    BY <1>i, <2>2 DEF OneAuthor
  <2>6. PICK n \in 0..1 : n = 2 - rejecting
    BY <2>2
  <2>7. wire' = Append(wire, IF n = 0 THEN "413_start" ELSE "413_body") /\ 2 - rejecting' = n + 1
    BY <2>1, <2>2, <2>6
  <2>8. Sent(wire', n + 1, "413_start", "413_body") /\ wire' \in Seq(Messages)
    <3>1. "413_start" \in Messages /\ "413_body" \in Messages /\ Sent(wire, n, "413_start", "413_body")
      BY <2>5, <2>6 DEF Messages
    <3> QED BY <1>i, <2>7, <3>1, OneMore
  <2>9. Refusing' /\ ~ started' /\ answering' = "none" /\ Sent(wire', 2 - rejecting', "413_start", "413_body")
    BY <2>1, <2>5, <2>7, <2>8 DEF Refusing
  <2>10. OneAuthor'
    BY <2>9 DEF OneAuthor
  <2>11. app \in {"running", "skipped"}
    BY <1>i, <1>t, <2>2, <2>5 DEF AppKnows, Typed, Refusing
  <2>12. AppKnows'
    BY <1>i, <2>1, <2>11 DEF AppKnows
  <2>13. WithinLimit'
    BY <1>w, <2>1
  <2> QED BY <2>3, <2>4, <2>8, <2>10, <2>12, <2>13, TypesKept DEF BodyInv
<1>5. CASE DisconnectTold
  <2>1. /\ app = "running" /\ app' = "told" /\ rejecting = 0
        /\ UNCHANGED <<route, declared, chunks, received, delivered, limitHit, rejected, started, rejecting, answering, wire>>
    BY <1>5 DEF DisconnectTold
  <2>2. Typed' /\ {limitHit', rejected', started'} \subseteq BOOLEAN
    BY <1>t, <2>1 DEF Typed
  <2>3. OneAuthor' /\ AppKnows'
    BY <1>i, <2>1 DEF OneAuthor, AppKnows, Refusing
  <2> QED BY <1>t, <1>w, <2>1, <2>2, <2>3, TypesKept DEF BodyInv
<1>6. CASE AppAnswers
  <2>1. /\ app \in {"running", "told"} /\ answering = "none"
        /\ \A i \in 1..Len(wire) : wire[i] # "app_body"
        /\ UNCHANGED <<route, declared, chunks, received, delivered, limitHit, rejected, rejecting, wire, app>>
    BY <1>6 DEF AppAnswers
  <2>2. CASE rejected
    <3>1. UNCHANGED bodyVars
      BY <1>6, <2>1, <2>2 DEF AppAnswers, bodyVars
    <3> QED BY <1>i, <1>w, <3>1 DEF bodyVars, BodyInv, BodyTypeOK, OneAuthor, AppKnows, Refusing
  <2>3. CASE ~ rejected
    <3>1. started' = TRUE /\ answering' = IF started THEN "body" ELSE "start"
      BY <1>6, <2>3 DEF AppAnswers
    <3>2. ~ Refusing /\ ~ Refusing' /\ rejecting' = 0
      BY <1>i, <2>1, <2>3 DEF Refusing, OneAuthor
    <3>3. {limitHit', rejected', started'} \subseteq BOOLEAN
      BY <1>t, <2>1, <3>1
    <3>4. Typed'
      BY <1>t, <2>1, <3>1 DEF Typed
    <3>5. CASE started
      <4>1. Sent(wire, 1, "app_start", "app_body") /\ answering' = "body"
        BY <1>i, <2>1, <3>1, <3>2, <3>5 DEF OneAuthor, Sent
      <4>2. OneAuthor'
        BY <2>1, <3>1, <3>2, <4>1 DEF OneAuthor
      <4> QED BY <1>i, <1>t, <1>w, <2>1, <3>1, <3>3, <3>4, <4>2, TypesKept DEF BodyInv, AppKnows
    <3>6. CASE ~ started
      <4>1. Sent(wire, 0, "app_start", "app_body") /\ answering' = "start"
        BY <1>i, <3>1, <3>2, <3>6 DEF OneAuthor
      <4>2. OneAuthor'
        BY <2>1, <3>1, <3>2, <4>1 DEF OneAuthor
      <4> QED BY <1>i, <1>t, <1>w, <2>1, <3>1, <3>3, <3>4, <4>2, TypesKept DEF BodyInv, AppKnows
    <3> QED BY <3>5, <3>6
  <2> QED BY <2>2, <2>3
<1>7. CASE AnswerSent
  <2>1. /\ answering # "none" /\ answering' = "none"
        /\ wire' = Append(wire, IF answering = "start" THEN "app_start" ELSE "app_body")
        /\ UNCHANGED <<route, declared, chunks, received, delivered, limitHit, rejected, started, rejecting, app>>
    BY <1>7 DEF AnswerSent
  <2>2. ~ Refusing /\ ~ Refusing' /\ started /\ started' /\ rejecting' = 0
    BY <1>i, <2>1 DEF OneAuthor, Refusing
  <2>3. PICK n \in 0..1 : Sent(wire, n, "app_start", "app_body") /\ (n = 0 <=> answering = "start")
    BY <1>i, <2>1, <2>2 DEF OneAuthor
  <2>4. Sent(wire', n + 1, "app_start", "app_body") /\ wire' \in Seq(Messages)
    <3>1. "app_start" \in Messages /\ "app_body" \in Messages
      BY DEF Messages
    <3>2. wire' = Append(wire, IF n = 0 THEN "app_start" ELSE "app_body")
      BY <2>1, <2>3
    <3> QED BY <1>i, <2>3, <3>1, <3>2, OneMore
  <2>5. n + 1 = 1 \/ n + 1 = 2
    OBVIOUS
  <2>6. OneAuthor'
    BY <2>1, <2>2, <2>4, <2>5 DEF OneAuthor
  <2>7. Typed' /\ {limitHit', rejected', started'} \subseteq BOOLEAN
    BY <1>t, <2>1 DEF Typed
  <2>8. AppKnows'
    BY <1>i, <2>1 DEF AppKnows
  <2> QED BY <1>w, <2>1, <2>4, <2>6, <2>7, <2>8, TypesKept DEF BodyInv
<1>8. CASE AppReturns
  <2>1. /\ app \in {"running", "told"} /\ answering = "none" /\ rejecting = 0 /\ app' = "returned"
        /\ UNCHANGED <<route, declared, chunks, received, delivered, limitHit, rejected, started, rejecting, answering, wire>>
        /\ rejected \/ \E i \in 1..Len(wire) : wire[i] = "app_body"
    BY <1>8 DEF AppReturns
  <2>2. Typed' /\ {limitHit', rejected', started'} \subseteq BOOLEAN
    BY <1>t, <2>1 DEF Typed
  <2>3. Len(wire) = 2
    <3>1. CASE Refusing
      BY <1>i, <2>1, <3>1 DEF OneAuthor, Sent
    <3>2. CASE ~ Refusing
      BY <1>i, <2>1, <3>2 DEF OneAuthor, Refusing, Sent
    <3> QED BY <3>1, <3>2
  <2>4. OneAuthor' /\ AppKnows'
    BY <1>i, <2>1, <2>3 DEF OneAuthor, AppKnows, Refusing
  <2> QED BY <1>t, <1>w, <2>1, <2>2, <2>4, TypesKept DEF BodyInv
<1>9. CASE DisconnectRaised
  <2>1. /\ app = "told" /\ answering = "none" /\ app' \in {"returned", "raised"} /\ (app' = "returned" => rejected)
        /\ UNCHANGED <<route, declared, chunks, received, delivered, limitHit, rejected, started, rejecting, answering, wire>>
    BY <1>9 DEF DisconnectRaised
  <2>2. Typed' /\ {limitHit', rejected', started'} \subseteq BOOLEAN
    BY <1>t, <2>1 DEF Typed
  <2>3. rejecting = 0 /\ (rejected => Len(wire) = 2)
    BY <1>i, <2>1 DEF OneAuthor, AppKnows, Refusing, Sent
  <2>4. OneAuthor' /\ AppKnows'
    BY <1>i, <2>1, <2>3 DEF OneAuthor, AppKnows, Refusing
  <2> QED BY <1>t, <1>w, <2>1, <2>2, <2>4, TypesKept DEF BodyInv
<1>10. CASE UNCHANGED bodyVars
  BY <1>10, <1>i, <1>w DEF bodyVars, BodyInv, BodyTypeOK, OneAuthor, AppKnows, Refusing
<1> QED BY <1>1, <1>2, <1>3, <1>4, <1>5, <1>6, <1>7, <1>8, <1>9, <1>10 DEF BodyNext

(* The client sees one response, whole and of one author; a request that    *)
(* ends without an error was answered in full; the application gets no more *)
(* than the limit (limited_receive, guarded_send).                          *)
THEOREM AlwaysOneResponse == BodySpec => []OneResponse
<1>1. BodyInv /\ [BodyNext]_bodyVars => BodyInv'
  BY BodyStepInv
<1>2. BodyInv => OneResponse
  <2> SUFFICES ASSUME BodyInv PROVE OneResponse
    OBVIOUS
  <2>1. OneAuthor /\ AppKnows /\ WithinLimit
    BY DEF BodyInv
  <2>2. \/ \E n \in 0..2 : Sent(wire, n, "413_start", "413_body")
        \/ \E n \in 0..2 : Sent(wire, n, "app_start", "app_body")
    <3>1. CASE Refusing
      <4>1. 2 - rejecting \in 0..2
        BY <2>1, <3>1 DEF OneAuthor, Sent
      <4> QED BY <2>1, <3>1, <4>1 DEF OneAuthor
    <3>2. CASE ~ Refusing
      BY <2>1, <3>2 DEF OneAuthor
    <3> QED BY <3>1, <3>2
  <2>3. ASSUME NEW first, NEW second, NEW n \in 0..2, Sent(wire, n, first, second)
        PROVE  Len(wire) <= 2 /\ \A i \in 1..Len(wire) : wire[i] = <<first, second>>[i]
    <3>1. Len(wire) = n /\ (n >= 1 => wire[1] = first) /\ (n = 2 => wire[2] = second)
      BY <2>3 DEF Sent
    <3>2. ASSUME NEW i \in 1..n PROVE i = 1 \/ (i = 2 /\ n = 2)
      BY n \in 0..2, i \in 1..n
    <3> QED BY <3>1, <3>2
  <2>4. \E whole \in {<<"413_start", "413_body">>, <<"app_start", "app_body">>} :
          Len(wire) <= 2 /\ \A i \in 1..Len(wire) : wire[i] = whole[i]
    BY <2>2, <2>3
  <2> QED BY <2>1, <2>4 DEF OneResponse, AppKnows, WithinLimit
<1> QED BY BodyInitInv, <1>1, <1>2, PTL DEF BodySpec

-----------------------------------------------------------------------------
(* The webhooks of one owner (Notifications)                                *)

\* A configuration that is still to be asked has been asked by nobody, and no
\* success is recorded that the receiver did not give.
SenderKnows ==
  /\ \A c \in sender.todo : posts[c] = 0
  /\ sender.at = "idle" => \A c \in Configs : posts[c] = 0
  /\ sender.at \in {"connecting", "asked", "ended"} => sender.config \in Configs \ sender.todo
  /\ sender.at = "connecting" => posts[sender.config] = 0
  /\ sender.at = "ended" /\ sender.outcome = "sent" => sender.config \in accepted

NotificationInv == NotificationTypeOK /\ SenderKnows /\ DeliveredAtMostOnce

SenderRecords == [at : {"idle", "next", "connecting", "asked", "ended", "done", "error"},
                  todo : SUBSET Configs, config : Configs \cup {NoConfig},
                  address : 0..Addresses, outcome : {"pending", "sent", "failed"}]

LEMMA NotificationInitInv == NotificationInit => NotificationInv
<1> SUFFICES ASSUME NotificationInit PROVE NotificationInv
  OBVIOUS
<1>1. Unsent \in SenderRecords
  BY NotificationAssumption DEF Unsent, SenderRecords
<1>2. NotificationTypeOK
  BY <1>1 DEF NotificationInit, NotificationTypeOK, SenderRecords
<1>3. SenderKnows /\ DeliveredAtMostOnce
  BY DEF NotificationInit, SenderKnows, DeliveredAtMostOnce, Unsent
<1> QED BY <1>2, <1>3 DEF NotificationInv

(* A saving request changes its own record, and adds a configuration at     *)
(* most.                                                                    *)
LEMMA SaverKeeps ==
  ASSUME NotificationInv, NEW s \in Savers, NEW from,
         NEW record \in [at : {"idle", "found", "done", "error"}, found : Configs \cup {NoConfig}],
         SaverStep(s, from, record), configs \subseteq configs', configs' \subseteq Configs
  PROVE  NotificationInv'
<1>1. /\ saver' \in [Savers -> [at : {"idle", "found", "done", "error"}, found : Configs \cup {NoConfig}]]
      /\ UNCHANGED <<owner, sender, posts, accepted, deliveries>>
  BY DEF NotificationInv, NotificationTypeOK, SaverStep
<1>2. NotificationTypeOK'
  BY <1>1 DEF NotificationInv, NotificationTypeOK
<1> QED BY <1>1, <1>2 DEF NotificationInv, SenderKnows, DeliveredAtMostOnce

LEMMA SaverInv ==
  ASSUME NotificationInv, NEW s \in Savers, ConfigLookedUp(s) \/ ConfigSaved(s) \/ SaveFails(s)
  PROVE  NotificationInv'
<1> DEFINE Rows == [at : {"idle", "found", "done", "error"}, found : Configs \cup {NoConfig}]
<1>t. configs \subseteq Configs /\ saver[s] \in Rows
  BY DEF NotificationInv, NotificationTypeOK
<1>1. CASE ConfigLookedUp(s)
  <2>1. PICK record \in Rows : SaverStep(s, "idle", record)
    <3>1. [at |-> "error", found |-> NoConfig] \in Rows
      OBVIOUS
    <3>2. \A c \in (IF configs = {} THEN {NoConfig} ELSE configs) : [at |-> "found", found |-> c] \in Rows
      BY <1>t
    <3> HIDE DEF Rows
    <3> QED BY <1>1, <3>1, <3>2 DEF ConfigLookedUp
  <2>2. configs' = configs
    BY <1>1 DEF ConfigLookedUp
  <2> QED BY <1>t, <2>1, <2>2, SaverKeeps
<1>2. CASE ConfigSaved(s)
  <2> DEFINE record == [saver[s] EXCEPT !.at = "done"]
  <2>1. record \in Rows
    BY <1>t
  <2>2. SaverStep(s, "found", record) /\ configs \subseteq configs' /\ configs' \subseteq Configs
    BY <1>2, <1>t DEF ConfigSaved
  <2> HIDE DEF record
  <2> QED BY <2>1, <2>2, SaverKeeps
<1>3. CASE SaveFails(s)
  <2> DEFINE record == [saver[s] EXCEPT !.at = "error"]
  <2>1. record \in Rows
    BY <1>t
  <2>2. SaverStep(s, "found", record) /\ configs' = configs
    BY <1>3 DEF SaveFails
  <2> HIDE DEF record
  <2> QED BY <1>t, <2>1, <2>2, SaverKeeps
<1> QED BY <1>1, <1>2, <1>3

(* What every step of the sender leaves alone, and what its record holds.   *)
LEMMA SenderKeeps ==
  ASSUME NotificationInv, NEW from, NEW record \in SenderRecords, SenderStep(from, record),
         posts' \in [Configs -> Nat], accepted' \subseteq Configs,
         deliveries' \in [Configs -> {"none", "pending", "sent", "failed"}]
  PROVE  NotificationTypeOK' /\ sender' = record /\ sender.at = from /\ configs' = configs
<1>1. sender' = record /\ sender.at = from /\ UNCHANGED <<configs, owner, saver>>
  BY DEF SenderStep
<1>2. sender' \in [at : {"idle", "next", "connecting", "asked", "ended", "done", "error"},
                  todo : SUBSET Configs, config : Configs \cup {NoConfig},
                  address : 0..Addresses, outcome : {"pending", "sent", "failed"}]
  BY <1>1 DEF SenderRecords
<1> QED BY <1>1, <1>2 DEF NotificationInv, NotificationTypeOK

(* A step that asks nobody, and whose next record asks nobody new.          *)
LEMMA SenderQuiet ==
  ASSUME NotificationInv, NEW from, NEW record \in SenderRecords, SenderStep(from, record),
         posts' = posts, deliveries' = deliveries, accepted \subseteq accepted', accepted' \subseteq Configs,
         record.todo \subseteq sender.todo, record.at # "idle",
         record.at \in {"connecting", "asked", "ended"} => record.config \in Configs \ record.todo,
         record.at = "connecting" => posts[record.config] = 0,
         record.at = "ended" /\ record.outcome = "sent" => record.config \in accepted'
  PROVE  NotificationInv'
<1>1. posts' \in [Configs -> Nat] /\ deliveries' \in [Configs -> {"none", "pending", "sent", "failed"}]
  BY DEF NotificationInv, NotificationTypeOK
<1>2. NotificationTypeOK' /\ sender' = record /\ configs' = configs
  BY <1>1, SenderKeeps
<1>3. SenderKnows'
  BY <1>2 DEF NotificationInv, SenderKnows
<1>4. DeliveredAtMostOnce'
  BY <1>2 DEF NotificationInv, DeliveredAtMostOnce
<1> QED BY <1>2, <1>3, <1>4 DEF NotificationInv

LEMMA SenderInv ==
  ASSUME NotificationInv,
         \/ NotificationStarts \/ (\E c \in Configs : DeliveryStarts(c))
         \/ ConnectFails \/ PostArrives \/ PostAccepted \/ PostRejected \/ AnswerLost \/ DeliveryTimesOut
         \/ DeliveryRecorded \/ DeliveryLost \/ NotificationEnds \/ SenderDies
  PROVE  NotificationInv'
<1>t. /\ configs \subseteq Configs /\ sender \in SenderRecords /\ posts \in [Configs -> Nat] /\ accepted \subseteq Configs
      /\ deliveries \in [Configs -> {"none", "pending", "sent", "failed"}]
  BY DEF NotificationInv, NotificationTypeOK, SenderRecords
<1>k. SenderKnows /\ DeliveredAtMostOnce
  BY DEF NotificationInv
<1>u. /\ Unsent \in SenderRecords /\ Unsent.at = "idle" /\ Unsent.todo = {} /\ Unsent.config = NoConfig
      /\ Unsent.address = 0 /\ Unsent.outcome = "pending"
  BY NotificationAssumption DEF Unsent, SenderRecords
<1>1. CASE NotificationStarts
  <2> DEFINE record == [Unsent EXCEPT !.at = "next", !.todo = configs]
  <2>1. record \in SenderRecords /\ record.at = "next" /\ record.todo = configs
    BY <1>t, <1>u DEF SenderRecords
  <2>2. SenderStep("idle", record) /\ UNCHANGED <<posts, accepted, deliveries>>
    BY <1>1 DEF NotificationStarts
  <2> HIDE DEF record
  <2>3. NotificationTypeOK' /\ sender' = record /\ sender.at = "idle" /\ configs' = configs
    BY <1>t, <2>1, <2>2, SenderKeeps
  <2>4. SenderKnows' /\ DeliveredAtMostOnce'
    BY <1>t, <1>k, <2>1, <2>2, <2>3 DEF SenderKnows, DeliveredAtMostOnce
  <2> QED BY <2>3, <2>4 DEF NotificationInv
<1>2. ASSUME NEW c \in Configs, DeliveryStarts(c) PROVE NotificationInv'
  <2> DEFINE record == [Unsent EXCEPT !.at = "connecting", !.todo = sender.todo \ {c}, !.config = c, !.address = 1]
  <2>1. 1 \in 0..Addresses
    BY NotificationAssumption
  <2>2. record \in SenderRecords /\ record.at = "connecting" /\ record.todo = sender.todo \ {c} /\ record.config = c
    BY <1>t, <1>u, <2>1 DEF SenderRecords
  <2>3. SenderStep("next", record) /\ UNCHANGED <<posts, accepted, deliveries>> /\ c \in sender.todo
    BY <1>2 DEF DeliveryStarts
  <2>4. posts[c] = 0
    BY <1>k, <2>3 DEF SenderKnows
  <2> HIDE DEF record
  <2> QED BY <1>t, <2>2, <2>3, <2>4, SenderQuiet
<1>o. ASSUME NEW status \in {"pending", "sent", "failed"}
      PROVE  /\ Outcome(status) \in SenderRecords /\ Outcome(status).at = "ended" /\ Outcome(status).outcome = status
             /\ Outcome(status).todo = sender.todo /\ Outcome(status).config = sender.config
  BY <1>t DEF Outcome, SenderRecords
<1>3. CASE ConnectFails
  <2>1. CASE sender.address < Addresses
    <3> DEFINE record == [sender EXCEPT !.address = @ + 1]
    <3>1. sender.address + 1 \in 0..Addresses
      BY <1>t, <2>1, NotificationAssumption DEF SenderRecords
    <3>2. record \in SenderRecords /\ record.at = sender.at /\ record.todo = sender.todo /\ record.config = sender.config
      BY <1>t, <3>1 DEF SenderRecords
    <3>3. SenderStep("connecting", record) /\ UNCHANGED <<posts, accepted, deliveries>> /\ sender.at = "connecting"
      BY <1>3, <2>1 DEF ConnectFails, SenderStep
    <3> HIDE DEF record
    <3>4. record.config \in Configs \ record.todo /\ posts[record.config] = 0
      BY <1>k, <3>2, <3>3 DEF SenderKnows
    <3> QED BY <1>t, <3>2, <3>3, <3>4, SenderQuiet
  <2>2. CASE ~ (sender.address < Addresses)
    <3>1. SenderStep("connecting", Outcome("failed")) /\ UNCHANGED <<posts, accepted, deliveries>> /\ sender.at = "connecting"
      BY <1>3, <2>2 DEF ConnectFails, SenderStep
    <3>2. sender.config \in Configs \ sender.todo
      BY <1>k, <3>1 DEF SenderKnows
    <3> QED BY <1>t, <1>o, <3>1, <3>2, SenderQuiet
  <2> QED BY <2>1, <2>2
<1>4. CASE PostArrives
  <2> DEFINE record == [sender EXCEPT !.at = "asked"]
  <2>1. record \in SenderRecords /\ record.at = "asked" /\ record.todo = sender.todo /\ record.config = sender.config
    BY <1>t DEF SenderRecords
  <2>2. SenderStep("connecting", record) /\ UNCHANGED <<accepted, deliveries>>
        /\ posts' = [posts EXCEPT ![sender.config] = @ + 1]
    BY <1>4 DEF PostArrives
  <2>3. sender.at = "connecting" /\ sender.config \in Configs \ sender.todo /\ posts[sender.config] = 0
    BY <1>k, <2>2 DEF SenderKnows, SenderStep
  <2>4. posts' \in [Configs -> Nat] /\ \A c \in Configs : posts'[c] = IF c = sender.config THEN 1 ELSE posts[c]
    BY <1>t, <2>2, <2>3
  <2> HIDE DEF record
  <2>5. NotificationTypeOK' /\ sender' = record /\ configs' = configs
    BY <1>t, <2>1, <2>2, <2>4, SenderKeeps
  <2>6. SenderKnows'
    <3>1. sender.todo \subseteq Configs
      BY <1>t DEF SenderRecords
    <3> QED BY <1>k, <2>1, <2>3, <2>4, <2>5, <3>1 DEF SenderKnows
  <2>7. DeliveredAtMostOnce'
    BY <1>k, <2>2, <2>4, <2>5 DEF DeliveredAtMostOnce
  <2> QED BY <2>5, <2>6, <2>7 DEF NotificationInv
<1>5. CASE PostAccepted \/ PostRejected \/ AnswerLost \/ DeliveryTimesOut
  <2>1. PICK from \in {"connecting", "asked"}, status \in {"sent", "failed"} :
          /\ SenderStep(from, Outcome(status)) /\ UNCHANGED <<posts, deliveries>>
          /\ accepted' = accepted \/ accepted' = accepted \cup {sender.config}
          /\ status = "sent" => sender.config \in accepted'
    BY <1>5 DEF PostAccepted, PostRejected, AnswerLost, DeliveryTimesOut
  <2>2. sender.config \in Configs \ sender.todo
    BY <1>k, <2>1 DEF SenderKnows, SenderStep
  <2> QED BY <1>t, <1>o, <2>1, <2>2, SenderQuiet
<1>6. CASE DeliveryRecorded
  <2> DEFINE record == [Unsent EXCEPT !.at = "next", !.todo = sender.todo]
  <2>1. record \in SenderRecords /\ record.at = "next" /\ record.todo = sender.todo
    BY <1>t, <1>u DEF SenderRecords
  <2>2. SenderStep("ended", record) /\ UNCHANGED <<posts, accepted>> /\ sender.config \in configs
        /\ deliveries' = [deliveries EXCEPT ![sender.config] = sender.outcome]
    BY <1>6 DEF DeliveryRecorded, Recorded
  <2>3. sender.outcome \in {"pending", "sent", "failed"}
    BY <1>t DEF SenderRecords
  <2>4. /\ deliveries' \in [Configs -> {"none", "pending", "sent", "failed"}]
        /\ \A c \in Configs : deliveries'[c] = IF c = sender.config THEN sender.outcome ELSE deliveries[c]
    BY <1>t, <2>2, <2>3
  <2> HIDE DEF record
  <2>5. NotificationTypeOK' /\ sender' = record /\ sender.at = "ended" /\ configs' = configs
    BY <1>t, <2>1, <2>2, <2>4, SenderKeeps
  <2>6. SenderKnows' /\ DeliveredAtMostOnce'
    BY <1>k, <2>1, <2>2, <2>4, <2>5 DEF SenderKnows, DeliveredAtMostOnce
  <2> QED BY <2>5, <2>6 DEF NotificationInv
<1>7. CASE DeliveryLost \/ NotificationEnds \/ SenderDies
  <2>1. PICK at \in {"error", "done"} :
          SenderStep(sender.at, [Unsent EXCEPT !.at = at]) /\ UNCHANGED <<posts, accepted, deliveries>>
    BY <1>7 DEF DeliveryLost, NotificationEnds, SenderDies, SenderStep
  <2> DEFINE record == [Unsent EXCEPT !.at = at]
  <2>2. record \in SenderRecords /\ record.at = at /\ record.todo = {}
    BY <1>u DEF SenderRecords
  <2>3. SenderStep(sender.at, record)
    BY <2>1
  <2> HIDE DEF record
  <2> QED BY <1>t, <2>1, <2>2, <2>3, SenderQuiet
<1> QED BY <1>1, <1>2, <1>3, <1>4, <1>5, <1>6, <1>7

LEMMA NotificationStepInv ==
  ASSUME NotificationInv, [NotificationNext]_notificationVars
  PROVE  NotificationInv'
<1>1. ASSUME NEW s \in Savers, ConfigLookedUp(s) \/ ConfigSaved(s) \/ SaveFails(s) PROVE NotificationInv'
  BY <1>1, SaverInv
<1>2. CASE OwnerDeleted
  <2>1. NotificationTypeOK'
    BY <1>2 DEF OwnerDeleted, NotificationInv, NotificationTypeOK
  <2>2. SenderKnows' /\ DeliveredAtMostOnce'
    BY <1>2 DEF OwnerDeleted, NotificationInv, SenderKnows, DeliveredAtMostOnce
  <2> QED BY <2>1, <2>2 DEF NotificationInv
<1>3. CASE UNCHANGED notificationVars
  BY <1>3 DEF notificationVars, NotificationInv, NotificationTypeOK, SenderKnows, DeliveredAtMostOnce
<1> QED BY <1>1, <1>2, <1>3, SenderInv DEF NotificationNext

(* No receiver is asked twice for one event, and no row claims a success    *)
(* that the receiver did not give (post_webhook, _send_webhook).            *)
THEOREM AlwaysDeliveredAtMostOnce == NotificationSpec => []DeliveredAtMostOnce
<1>1. NotificationInv /\ [NotificationNext]_notificationVars => NotificationInv'
  BY NotificationStepInv
<1>2. NotificationInv => DeliveredAtMostOnce
  BY DEF NotificationInv
<1> QED BY NotificationInitInv, <1>1, <1>2, PTL DEF NotificationSpec

-----------------------------------------------------------------------------
(* A logout that was answered stays in the ledger (LogoutLedger)            *)

USE DEF Never, Ticks

-----------------------------------------------------------------------------
(* The clock in seconds                                                     *)

(* A time that has reached k seconds lies in second k or later.             *)
LEMMA SecondsReached ==
  ASSUME NEW n \in Nat, NEW k \in Nat, k * TicksPerSecond <= n
  PROVE  k <= SecondOf(n)
<1> DEFINE d == TicksPerSecond
<1>1. d \in Nat /\ d > 0
  BY AccessTokensAssumption
<1>2. PICK q \in Nat : q = n \div d
  BY <1>1, SMT
<1>3. n < (q + 1) * d
  BY <1>1, <1>2, SMT
<1>4. k * d < (q + 1) * d
  BY <1>1, <1>3, SMT
<1>5. k < q + 1
  BY <1>1, <1>4, SMT
<1> QED BY <1>2, <1>5 DEF SecondOf

LEMMA SecondsStart ==
  ASSUME NEW n \in Nat
  PROVE  SecondOf(n) \in Nat /\ SecondOf(n) * TicksPerSecond <= n
<1>1. TicksPerSecond \in Nat /\ TicksPerSecond > 0
  BY AccessTokensAssumption
<1> QED BY <1>1, SMT DEF SecondOf

(* A token does not become good again, and is over once its revocation is.  *)
LEMMA StaysExpired ==
  ASSUME NEW t \in Nat, NEW n \in Nat, ~ Unexpired(t, n)
  PROVE  ~ Unexpired(t, n + 1)
<1>1. SecondOf(n) * TicksPerSecond <= n + 1 /\ SecondOf(n) \in Nat
  BY SecondsStart, AccessTokensAssumption, SMT
<1>2. SecondOf(n) <= SecondOf(n + 1)
  BY <1>1, SecondsReached
<1>3. SecondOf(n + 1) \in Nat /\ ExpirySecond(t) \in Nat
  BY SecondsStart, AccessTokensAssumption DEF ExpirySecond
<1> QED BY <1>1, <1>2, <1>3 DEF Unexpired

LEMMA OverWhenForgotten ==
  ASSUME NEW t \in Nat, NEW n \in Nat, ExpiresAt(t) <= n
  PROVE  ~ Unexpired(t, n)
<1>1. ExpirySecond(t) + 1 \in Nat /\ SecondOf(n) \in Nat
  BY SecondsStart, AccessTokensAssumption DEF ExpirySecond
<1>2. ExpirySecond(t) + 1 <= SecondOf(n)
  BY <1>1, SecondsReached DEF ExpiresAt
<1>3. ExpirySecond(t) \in Nat
  BY SecondsStart, AccessTokensAssumption DEF ExpirySecond
<1> QED BY <1>1, <1>2, <1>3 DEF Unexpired

-----------------------------------------------------------------------------
(* The inductive invariant *)

\* A logout has read a clock that is not ahead; what it names was issued.
RequestsKnow == \A r \in Requests : request[r].at # "idle" =>
  /\ request[r].token \in Fingerprints /\ issued[request[r].token] # Never
  /\ request[r].at = "leaving" => request[r].read \in 0..now

\* A token is refused once its row is committed, answered or not.
Refused(t) == t \in revoked \/ ~ Decodes(t)

LogoutsHold ==
  /\ \A t \in loggedOut : issued[t] # Never /\ Refused(t)
  /\ \A r \in Requests :
       /\ request[r].at = "committed" => Refused(request[r].token)
       /\ request[r].at \in {"decoded", "accepted"} /\ request[r].late => request[r].token \in loggedOut

LedgerInv == LedgerTypeOK /\ RequestsKnow /\ LogoutsHold /\ LoggedOutRefused

(* What a step of one request leaves of all requests.                       *)
LEMMA OneRequest ==
  ASSUME NEW r \in Requests, NEW from, NEW record, LedgerTypeOK, RequestStep(r, from, record)
  PROVE  \A q \in Requests : request'[q] = IF q = r THEN record ELSE request[q]
BY DEF LedgerTypeOK, RequestStep

(* Tokens that were refused stay refused while the clock goes on.           *)
LEMMA ClockRefuses ==
  ASSUME LedgerTypeOK, LedgerClock, NEW t \in Fingerprints, ~ Decodes(t)
  PROVE  ~ Decodes(t)'
<1>1. CASE issued[t] = Never
  BY <1>1 DEF Decodes, LedgerClock
<1>2. CASE issued[t] # Never
  <2>1. issued[t] \in Nat /\ now \in Nat /\ ~ Unexpired(issued[t], now)
    BY <1>2, AccessTokensAssumption DEF Decodes, LedgerTypeOK
  <2>2. ~ Unexpired(issued[t], now + 1)
    BY <2>1, StaysExpired
  <2> QED BY <2>2 DEF Decodes, LedgerClock
<1> QED BY <1>1, <1>2

(* A row that a logout cleans belongs to a token that no longer decodes.    *)
LEMMA CleanedIsOver ==
  ASSUME LedgerInv, NEW r \in Requests, request[r].at = "leaving", NEW t \in Expired(r)
  PROVE  ~ Decodes(t)
<1>1. t \in Fingerprints /\ request[r].read \in 0..now /\ now \in Nat
  BY AccessTokensAssumption DEF LedgerInv, LedgerTypeOK, RequestsKnow, Expired
<1>2. CASE issued[t] = Never
  BY <1>2 DEF Decodes
<1>3. CASE issued[t] # Never
  <2>1. issued[t] \in Nat
    BY <1>1, <1>3, AccessTokensAssumption DEF LedgerInv, LedgerTypeOK
  <2>2. ExpiresAt(issued[t]) \in Nat
    BY <2>1, SecondsStart, AccessTokensAssumption, SMT DEF ExpiresAt, ExpirySecond
  <2>3. ExpiresAt(issued[t]) <= now
    BY <1>1, <2>2 DEF Expired
  <2> QED BY <1>1, <2>1, <2>3, OverWhenForgotten DEF Decodes
<1> QED BY <1>2, <1>3

-----------------------------------------------------------------------------
LEMMA LedgerInitInv == LedgerInit => LedgerInv
BY AccessTokensAssumption DEF LedgerInit, LedgerInv, LedgerTypeOK, RequestsKnow, LogoutsHold, LoggedOutRefused, Quiet

LEMMA QuietTyped ==
  Quiet \in [at : {"idle", "decoded", "accepted", "leaving", "committed"},
             token : Fingerprints \cup {NoToken}, read : Ticks, late : BOOLEAN]
BY DEF Quiet

LEMMA PresentedTyped ==
  ASSUME NEW t \in Fingerprints, NEW late \in BOOLEAN
  PROVE  LET record == [Quiet EXCEPT !.at = "decoded", !.token = t, !.late = late]
         IN  /\ record \in [at : {"idle", "decoded", "accepted", "leaving", "committed"},
                             token : Fingerprints \cup {NoToken}, read : Ticks, late : BOOLEAN]
             /\ record.at = "decoded" /\ record.token = t /\ record.late = late
BY QuietTyped

LEMMA LedgerStepInv ==
  ASSUME LedgerInv, [LedgerNext]_ledgerVars
  PROVE  LedgerInv'
<1> USE DEF LedgerInv
<1>1. CASE LedgerClock
  <2>1. LedgerTypeOK' /\ RequestsKnow'
    BY <1>1, AccessTokensAssumption DEF LedgerClock, LedgerTypeOK, RequestsKnow
  <2>2. \A t \in Fingerprints : ~ Decodes(t) => ~ Decodes(t)'
    BY <1>1, ClockRefuses
  <2>3. LogoutsHold' /\ LoggedOutRefused'
    BY <1>1, <2>2 DEF LedgerClock, LogoutsHold, LoggedOutRefused, Refused, RequestsKnow, LedgerTypeOK
  <2> QED BY <2>1, <2>3
<1>2. ASSUME NEW t \in Fingerprints, TokenIssued(t) PROVE LedgerInv'
  <2>1. LedgerTypeOK' /\ RequestsKnow'
    BY <1>2, AccessTokensAssumption DEF TokenIssued, LedgerTypeOK, RequestsKnow
  <2>2. \A u \in Fingerprints : issued[u] # Never => (issued'[u] = issued[u] /\ Decodes(u)' = Decodes(u))
    BY <1>2 DEF TokenIssued, LedgerTypeOK, Decodes
  <2>3. LogoutsHold' /\ LoggedOutRefused'
    BY <1>2, <2>2 DEF TokenIssued, LogoutsHold, LoggedOutRefused, Refused, RequestsKnow, LedgerTypeOK
  <2> QED BY <2>1, <2>3
<1>3. ASSUME NEW r \in Requests, LedgerRequest(r) PROVE LedgerInv'
  <2>0. \A t : UNCHANGED <<now, issued>> => Decodes(t)' = Decodes(t)
    BY DEF Decodes
  <2>1. ASSUME NEW t \in Fingerprints, TokenPresented(r, t) PROVE LedgerInv'
    <3>0. PICK late \in BOOLEAN : late = (t \in loggedOut)
      <4>1. CASE t \in loggedOut
        <5>1. TRUE = (t \in loggedOut)
          BY <4>1
        <5> QED BY <5>1
      <4>2. CASE t \notin loggedOut
        <5>1. FALSE = (t \in loggedOut)
          BY <4>2
        <5> QED BY <5>1
      <4> QED BY <4>1, <4>2
    <3> DEFINE record == [Quiet EXCEPT !.at = "decoded", !.token = t, !.late = late]
    <3>1. record \in [at : {"idle", "decoded", "accepted", "leaving", "committed"},
                      token : Fingerprints \cup {NoToken}, read : Ticks, late : BOOLEAN]
          /\ record.at = "decoded" /\ record.token = t /\ record.late = late
      BY PresentedTyped
    <3>2. RequestStep(r, "idle", record) /\ UNCHANGED <<now, issued, revoked, loggedOut>> /\ Decodes(t)
      BY <2>1, <3>0 DEF TokenPresented
    <3> HIDE DEF record
    <3>3. \A q \in Requests : request'[q] = IF q = r THEN record ELSE request[q]
      BY <3>2, OneRequest
    <3>4. LedgerTypeOK'
      BY <3>1, <3>2, <3>3 DEF LedgerTypeOK, RequestStep
    <3>5. RequestsKnow'
      BY <3>1, <3>2, <3>3 DEF RequestsKnow, Decodes
    <3>6. LogoutsHold' /\ LoggedOutRefused'
      BY <3>0, <3>1, <3>2, <3>3, <2>0 DEF LogoutsHold, LoggedOutRefused, Refused
    <3> QED BY <3>4, <3>5, <3>6
  <2>2. CASE LedgerAsked(r)
    <3> DEFINE record == IF request[r].token \in revoked THEN Quiet ELSE [request[r] EXCEPT !.at = "accepted"]
    <3>1. record \in [at : {"idle", "decoded", "accepted", "leaving", "committed"},
                      token : Fingerprints \cup {NoToken}, read : Ticks, late : BOOLEAN]
      BY QuietTyped DEF LedgerTypeOK
    <3>2. \/ record.at = "idle"
          \/ record.at = "accepted" /\ record.token = request[r].token /\ record.late = request[r].late
             /\ request[r].token \notin revoked
      BY DEF Quiet, LedgerTypeOK
    <3>3. RequestStep(r, "decoded", record) /\ UNCHANGED <<now, issued, revoked, loggedOut>> /\ request[r].at = "decoded"
      BY <2>2 DEF LedgerAsked, RequestStep
    <3> HIDE DEF record
    <3>4. \A q \in Requests : request'[q] = IF q = r THEN record ELSE request[q]
      BY <3>3, OneRequest
    <3>5. LedgerTypeOK'
      BY <3>1, <3>3, <3>4 DEF LedgerTypeOK, RequestStep
    <3>6. RequestsKnow'
      BY <3>2, <3>3, <3>4 DEF RequestsKnow
    <3>7. LogoutsHold'
      BY <3>2, <3>3, <3>4, <2>0 DEF LogoutsHold, Refused
    <3>8. LoggedOutRefused'
      BY <3>2, <3>3, <3>4, <2>0 DEF LogoutsHold, LoggedOutRefused, Refused
    <3> QED BY <3>5, <3>6, <3>7, <3>8
  <2>3. CASE RequestServed(r) \/ LogoutFails(r)
    <3>1. UNCHANGED <<now, issued, revoked, loggedOut>>
          /\ \A q \in Requests : request'[q] = IF q = r THEN Quiet ELSE request[q]
      BY <2>3, OneRequest DEF RequestServed, LogoutFails
    <3>2. Quiet.at = "idle"
      BY DEF Quiet
    <3>3. LedgerTypeOK'
      BY <2>3, <3>1, QuietTyped DEF LedgerTypeOK, RequestServed, LogoutFails, RequestStep
    <3> QED BY <3>1, <3>2, <3>3, <2>0 DEF RequestsKnow, LogoutsHold, LoggedOutRefused, Refused
  <2>4. ASSUME NEW cookie \in Fingerprints \cup {NoToken}, NEW header \in Fingerprints \cup {NoToken, "none"},
               LogoutArrives(r, cookie, header)
        PROVE  LedgerInv'
    <3> DEFINE t == IF header = "none" THEN cookie ELSE header
               record == [Quiet EXCEPT !.at = "leaving", !.token = t, !.read = now]
    <3>1. t \in Fingerprints /\ issued[t] # Never
      BY <2>4 DEF LogoutArrives, Decodes
    <3>2. record \in [at : {"idle", "decoded", "accepted", "leaving", "committed"},
                      token : Fingerprints \cup {NoToken}, read : Ticks, late : BOOLEAN]
          /\ record.at = "leaving" /\ record.token = t /\ record.read = now
      BY <3>1 DEF Quiet, LedgerTypeOK
    <3>3. RequestStep(r, "idle", record) /\ UNCHANGED <<now, issued, revoked, loggedOut>>
      BY <2>4 DEF LogoutArrives
    <3> HIDE DEF record, t
    <3>4. \A q \in Requests : request'[q] = IF q = r THEN record ELSE request[q]
      BY <3>3, OneRequest
    <3>5. LedgerTypeOK'
      BY <3>2, <3>3, <3>4 DEF LedgerTypeOK, RequestStep
    <3>6. now \in 0..now
      BY AccessTokensAssumption DEF LedgerTypeOK
    <3>7. RequestsKnow'
      BY <3>1, <3>2, <3>3, <3>4, <3>6 DEF RequestsKnow
    <3>8. LogoutsHold' /\ LoggedOutRefused'
      BY <3>2, <3>3, <3>4, <2>0 DEF LogoutsHold, LoggedOutRefused, Refused
    <3> QED BY <3>5, <3>7, <3>8
  <2>5. CASE LogoutCommits(r)
    <3>1. PICK t \in Fingerprints : request[r].at = "leaving" /\ t = request[r].token /\ issued[t] # Never
      BY <2>5 DEF LogoutCommits, RequestStep, RequestsKnow
    <3> DEFINE record == [Quiet EXCEPT !.at = "committed", !.token = t]
    <3>2. record \in [at : {"idle", "decoded", "accepted", "leaving", "committed"},
                      token : Fingerprints \cup {NoToken}, read : Ticks, late : BOOLEAN]
          /\ record.at = "committed" /\ record.token = t
      BY <3>1 DEF Quiet
    <3>3. RequestStep(r, "leaving", record) /\ UNCHANGED <<now, issued, loggedOut>>
      BY <2>5, <3>1 DEF LogoutCommits
    <3>4. PICK batch \in SUBSET Expired(r) : revoked' = (revoked \ batch) \cup {t}
      BY <2>5, <3>1 DEF LogoutCommits
    <3> HIDE DEF record
    <3>5. \A q \in Requests : request'[q] = IF q = r THEN record ELSE request[q]
      BY <3>3, OneRequest
    <3>6. LedgerTypeOK'
      BY <3>1, <3>2, <3>3, <3>4, <3>5 DEF LedgerTypeOK, RequestStep
    <3>7. RequestsKnow'
      BY <3>1, <3>2, <3>3, <3>5 DEF RequestsKnow
    <3>8. \A u \in Fingerprints : Refused(u) => Refused(u)'
      BY <3>1, <3>3, <3>4, <2>0, CleanedIsOver DEF Refused
    <3>9. Refused(t)'
      BY <3>4 DEF Refused
    <3>10. loggedOut \subseteq Fingerprints /\ \A q \in Requests : request[q].at # "idle" => request[q].token \in Fingerprints
      BY DEF LedgerTypeOK, RequestsKnow
    <3>11. LogoutsHold'
      BY <3>2, <3>3, <3>5, <3>8, <3>9, <3>10 DEF LogoutsHold
    <3>12. LoggedOutRefused'
      BY <3>2, <3>3, <3>5, <2>0 DEF LoggedOutRefused
    <3> QED BY <3>6, <3>7, <3>11, <3>12
  <2>6. CASE LogoutAnswered(r)
    <3>1. /\ UNCHANGED <<now, issued, revoked>> /\ request[r].at = "committed"
          /\ loggedOut' = loggedOut \cup {request[r].token}
          /\ \A q \in Requests : request'[q] = IF q = r THEN Quiet ELSE request[q]
      BY <2>6, OneRequest DEF LogoutAnswered, RequestStep
    <3>2. Quiet.at = "idle"
      BY DEF Quiet
    <3>3. request[r].token \in Fingerprints /\ issued[request[r].token] # Never /\ Refused(request[r].token)
      BY <3>1 DEF RequestsKnow, LogoutsHold
    <3>4. LedgerTypeOK'
      BY <2>6, <3>1, <3>3, QuietTyped DEF LedgerTypeOK, LogoutAnswered, RequestStep
    <3>5. \A t : Refused(t)' = Refused(t)
      BY <3>1, <2>0 DEF Refused
    <3>6. RequestsKnow' /\ LoggedOutRefused'
      BY <3>1, <3>2, <2>0 DEF RequestsKnow, LoggedOutRefused
    <3>7. LogoutsHold'
      BY <3>1, <3>2, <3>3, <3>5 DEF LogoutsHold
    <3> QED BY <3>4, <3>6, <3>7
  <2> QED BY <1>3, <2>1, <2>2, <2>3, <2>4, <2>5, <2>6 DEF LedgerRequest
<1>4. CASE UNCHANGED ledgerVars
  BY <1>4 DEF ledgerVars, LedgerTypeOK, RequestsKnow, LogoutsHold, LoggedOutRefused, Refused, Decodes
<1> QED BY <1>1, <1>2, <1>3, <1>4 DEF LedgerNext

(* A revocation is never cleaned while its token decodes: the inductive     *)
(* invariant of logout_credential and cleanup_revoked_tokens.               *)
THEOREM LedgerInvariant == LedgerSpec => []LedgerInv
<1>1. LedgerInv /\ [LedgerNext]_ledgerVars => LedgerInv'
  BY LedgerStepInv
<1> QED BY LedgerInitInv, <1>1, PTL DEF LedgerSpec

(* An answered logout is durable, whatever other logouts clean up           *)
(* (logout_credential, cleanup_revoked_tokens).                             *)
THEOREM AnsweredLogoutsDurable == LedgerSpec => []AnsweredLogoutDurable
<1>1. LedgerInv => AnsweredLogoutDurable
  BY DEF LedgerInv, LogoutsHold, AnsweredLogoutDurable, Refused
<1> QED BY LedgerInvariant, <1>1, PTL

(* A request with a token whose logout was answered before it came is let   *)
(* in only when the token is over by then (is_token_revoked).               *)
THEOREM LoggedOutAlwaysRefused == LedgerSpec => []LoggedOutRefused
<1>1. LedgerInv => LoggedOutRefused
  BY DEF LedgerInv
<1> QED BY LedgerInvariant, <1>1, PTL
==================================================================================
