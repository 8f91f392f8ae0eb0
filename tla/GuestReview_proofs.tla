--------------------------- MODULE GuestReview_proofs ---------------------------
(* What a guest was granted holds until it is used, limits and history are   *)
(* kept, credentials move with their epoch, requests never wait in a circle, *)
(* and they do what they would do one at a time, for any number of them.     *)
EXTENDS GuestReview, FiniteSetTheorems, TLAPS

Kinds       == GuestKinds \cup OwnerKinds
RowLock(k)  == IF k = "read" THEN S("row") ELSE X("row")
Inside(r)   == pc[r] \in {"check", "act"}
Changing    == {q \in Requests : kind[q] \in CredentialKinds}

ControlTypes ==
  /\ held \in [Requests -> SUBSET Locks]
  /\ pc \in [Requests -> {"idle", "lock", "check", "act"}]
  /\ kind \in [Requests -> GuestKinds \cup OwnerKinds \cup {"none"}]
  /\ ask \in [Requests -> Asks]
  /\ seen \in [Requests -> Rows]

\* The last lock of every handler is the one of the row.
LocksTaken == \A r \in Requests :
  /\ IsFiniteSet(held[r])
  /\ pc[r] = "idle" <=> kind[r] = "none"
  /\ pc[r] = "idle" => held[r] = {}
  /\ pc[r] = "lock" => Cardinality(held[r]) < Len(LockOrder[kind[r]])
  /\ Inside(r) => RowLock(kind[r]) \in held[r]

NoConflict == \A q, r \in Requests : q # r => \A l \in held[q], m \in held[r] : ~ Conflict(l, m)

ControlInv == ControlTypes /\ LocksTaken /\ NoConflict

\* The requests under way leave room for the epochs they will start.
EpochsLeft == row.epoch + Cardinality(Changing) <= MaxEpoch

ReviewTypes ==
  /\ row \in Rows
  /\ visits \subseteq Visits /\ completed \subseteq visits /\ lapsed \subseteq visits
  /\ stamp \in [Visits -> -1..MaxEpoch]
  /\ author \in [Events -> Visits \cup {None}]

HistoryWhole ==
  /\ IsFiniteSet(visits) /\ IsFiniteSet(Written)
  /\ \A e \in Written : author[e] \in visits
  /\ VisitsWithinLimit /\ BudgetKept

\* What was checked under the row lock, as long as the lock is held.
Grant(r) ==
  /\ seen[r] = row
  /\ kind[r] \in GuestKinds => Resolves(row, ask[r].token)
  /\ kind[r] = "enter" => PasswordFits(row, ask[r].password) /\ Cardinality(visits) < VisitLimit
  /\ kind[r] = "read" /\ row.password # None => ask[r].visit \in visits /\ stamp[ask[r].visit] = row.epoch
  /\ kind[r] \in {"select", "complete"} =>
       row.status = "shared" /\ ask[r].visit \in visits /\ stamp[ask[r].visit] = row.epoch
  /\ kind[r] = "select" => Cardinality(Written) < EventLimit
  /\ kind[r] = "complete" => ask[r].visit \notin completed

GrantsHold == \A r \in Requests : pc[r] = "act" => Grant(r)

ReviewInv == ControlInv /\ EpochsLeft /\ ReviewTypes /\ HistoryWhole /\ GrantsHold

-----------------------------------------------------------------------------
(* Locks                                                                    *)

LEMMA OrderIs ==
  ASSUME NEW k \in Kinds
  PROVE  /\ Len(LockOrder[k]) \in 1..3
         /\ \A i \in 1..Len(LockOrder[k]) : LockOrder[k][i] \in Locks
         /\ LockOrder[k][Len(LockOrder[k])] = RowLock(k)
<1> DEFINE order == LockOrder[k]
<1>1. order \in {<<S("life"), X("admission"), X("row")>>, <<S("life"), X("budget"), X("row")>>,
                 <<S("life"), S("row")>>, <<S("life"), X("row")>>, <<X("life"), X("row")>>, <<X("row")>>}
      /\ (k = "read" <=> order = <<S("life"), S("row")>>)
  BY DEF LockOrder, Kinds, GuestKinds, OwnerKinds, S, X
<1>2. \A l \in {"life", "admission", "budget", "row"} : S(l) \in Locks /\ X(l) \in Locks
  BY DEF S, X, Locks
<1> HIDE DEF order
<1>3. CASE Len(order) = 3
  BY <1>1, <1>2, <1>3 DEF RowLock, order
<1>4. CASE Len(order) = 2
  BY <1>1, <1>2, <1>4 DEF RowLock, order
<1>5. CASE Len(order) = 1
  BY <1>1, <1>2, <1>5 DEF RowLock, order
<1>6. Len(order) \in 1..3
  BY <1>1
<1> QED BY <1>3, <1>4, <1>5, <1>6

\* Whoever is inside without being a reader is there alone.
LEMMA Alone ==
  ASSUME ControlInv, NEW q \in Requests, NEW r \in Requests, q # r, Inside(q), Inside(r)
  PROVE  kind[q] = "read" /\ kind[r] = "read"
<1>1. RowLock(kind[q]) \in held[q] /\ RowLock(kind[r]) \in held[r]
  BY DEF ControlInv, LocksTaken
<1>2. ~ Conflict(RowLock(kind[q]), RowLock(kind[r]))
  BY <1>1 DEF ControlInv, NoConflict
<1> QED BY <1>2 DEF RowLock, Conflict, S, X

LEMMA Bounds == /\ MaxEpoch \in Nat /\ VisitLimit \in Nat /\ EventLimit \in Nat /\ IsFiniteSet(Requests)
                /\ None \notin Visits
BY ReviewAssumption

LEMMA EmptyAsk == NoAsk \in Asks /\ NoRow \in Rows
<1>1. 0 \in 0..MaxEpoch
  BY Bounds
<1> QED BY <1>1 DEF NoAsk, Asks, NoRow, Rows, Statuses

-----------------------------------------------------------------------------
(* How requests move                                                        *)

LEMMA EndMoves ==
  ASSUME ControlInv, NEW r \in Requests, End(r)
  PROVE  /\ ControlInv' /\ pc'[r] = "idle" /\ kind'[r] = "none"
         /\ \A q \in Requests \ {r} : /\ pc'[q] = pc[q] /\ kind'[q] = kind[q] /\ ask'[q] = ask[q] /\ seen'[q] = seen[q]
<1>1. ControlTypes'
  BY EmptyAsk DEF End, ControlInv, ControlTypes
<1>2. /\ held'[r] = {} /\ pc'[r] = "idle" /\ kind'[r] = "none"
      /\ \A q \in Requests \ {r} : /\ held'[q] = held[q] /\ pc'[q] = pc[q] /\ kind'[q] = kind[q]
                                   /\ ask'[q] = ask[q] /\ seen'[q] = seen[q]
  BY DEF End, ControlInv, ControlTypes
<1>3. LocksTaken'
  <2> SUFFICES ASSUME NEW q \in Requests
               PROVE  /\ IsFiniteSet(held'[q])
                      /\ pc'[q] = "idle" <=> kind'[q] = "none"
                      /\ pc'[q] = "idle" => held'[q] = {}
                      /\ pc'[q] = "lock" => Cardinality(held'[q]) < Len(LockOrder[kind'[q]])
                      /\ pc'[q] \in {"check", "act"} => RowLock(kind'[q]) \in held'[q]
    BY DEF LocksTaken, Inside, RowLock
  <2>1. CASE q = r
    BY <1>2, <2>1, FS_EmptySet
  <2>2. CASE q # r
    BY <1>2, <2>2 DEF ControlInv, LocksTaken, Inside
  <2> QED BY <2>1, <2>2
<1>4. NoConflict'
  BY <1>2 DEF ControlInv, NoConflict
<1> QED BY <1>1, <1>2, <1>3, <1>4 DEF ControlInv

LEMMA BeginMoves ==
  ASSUME ControlInv, NEW r \in Requests, NEW k \in Kinds, NEW a \in Asks, Begin(r, k, a)
  PROVE  /\ ControlInv' /\ UNCHANGED review /\ pc[r] = "idle" /\ pc'[r] = "lock" /\ kind'[r] = k
         /\ \A q \in Requests \ {r} : /\ pc'[q] = pc[q] /\ kind'[q] = kind[q] /\ ask'[q] = ask[q] /\ seen'[q] = seen[q]
<1>1. ControlTypes'
  BY DEF Begin, ControlInv, ControlTypes, Kinds
<1>2. /\ pc[r] = "idle" /\ pc'[r] = "lock" /\ kind'[r] = k /\ held' = held /\ UNCHANGED review
      /\ \A q \in Requests \ {r} : /\ pc'[q] = pc[q] /\ kind'[q] = kind[q] /\ ask'[q] = ask[q] /\ seen'[q] = seen[q]
  BY DEF Begin, ControlInv, ControlTypes
<1>3. "none" \notin Kinds /\ k \in Kinds
  BY DEF Kinds, GuestKinds, OwnerKinds
<1>4. Cardinality(held[r]) = 0 /\ Len(LockOrder[k]) \in 1..3
  BY <1>2, FS_EmptySet, OrderIs DEF ControlInv, LocksTaken
<1>5. LocksTaken'
  <2> SUFFICES ASSUME NEW q \in Requests
               PROVE  /\ IsFiniteSet(held'[q])
                      /\ pc'[q] = "idle" <=> kind'[q] = "none"
                      /\ pc'[q] = "idle" => held'[q] = {}
                      /\ pc'[q] = "lock" => Cardinality(held'[q]) < Len(LockOrder[kind'[q]])
                      /\ pc'[q] \in {"check", "act"} => RowLock(kind'[q]) \in held'[q]
    BY DEF LocksTaken, Inside, RowLock
  <2>1. CASE q = r
    <3>1. held'[r] = held[r] /\ kind'[r] = k /\ pc'[r] = "lock" /\ k # "none" /\ IsFiniteSet(held[r])
      BY <1>2, <1>3 DEF ControlInv, LocksTaken
    <3>2. Cardinality(held'[r]) < Len(LockOrder[kind'[r]])
      <4>1. \A n \in 1..3 : 0 < n
        OBVIOUS
      <4> QED BY <1>4, <3>1, <4>1
    <3> QED BY <2>1, <3>1, <3>2
  <2>2. CASE q # r
    BY <1>2, <2>2 DEF ControlInv, LocksTaken, Inside
  <2> QED BY <2>1, <2>2
<1>6. NoConflict'
  BY <1>2 DEF ControlInv, NoConflict
<1> QED BY <1>1, <1>2, <1>5, <1>6 DEF ControlInv

LEMMA AcquireMoves ==
  ASSUME ControlInv, NEW r \in Requests, Acquire(r)
  PROVE  /\ ControlInv' /\ UNCHANGED <<review, kind, ask, seen>> /\ pc[r] = "lock" /\ pc'[r] \in {"lock", "check"}
         /\ \A q \in Requests \ {r} : pc'[q] = pc[q]
<1> DEFINE k    == kind[r]
           n    == Cardinality(held[r])
           next == NextLock(r)
<1>1. pc[r] = "lock" /\ k \in Kinds
  BY DEF Acquire, ControlInv, ControlTypes, LocksTaken, Kinds
<1>2. IsFiniteSet(held[r]) /\ n \in Nat /\ n < Len(LockOrder[k]) /\ Len(LockOrder[k]) \in 1..3
  BY <1>1, FS_CardinalityType, OrderIs DEF ControlInv, LocksTaken
<1>3. n + 1 \in 1..Len(LockOrder[k])
  BY <1>2
<1>4. next = LockOrder[k][n + 1] /\ next \in Locks
  BY <1>1, <1>3, OrderIs DEF NextLock
<1>5. n + 1 = Len(LockOrder[k]) => next = RowLock(k)
  BY <1>1, <1>4, OrderIs
<1>6. held' = [held EXCEPT ![r] = @ \cup {next}]
      /\ pc' = [pc EXCEPT ![r] = IF n + 1 = Len(LockOrder[k]) THEN "check" ELSE "lock"]
      /\ UNCHANGED <<review, kind, ask, seen>>
      /\ \A q \in Requests \ {r} : \A l \in held[q] : ~ Conflict(l, next)
  BY DEF Acquire
<1> HIDE DEF next, n, k
<1>7. /\ held'[r] = held[r] \cup {next} /\ pc'[r] = (IF n + 1 = Len(LockOrder[k]) THEN "check" ELSE "lock")
      /\ \A q \in Requests \ {r} : held'[q] = held[q] /\ pc'[q] = pc[q]
  BY <1>6 DEF ControlInv, ControlTypes
<1>8. ControlTypes'
  BY <1>4, <1>6 DEF ControlInv, ControlTypes
<1>9. IsFiniteSet(held'[r]) /\ Cardinality(held'[r]) <= n + 1 /\ Cardinality(held'[r]) \in Nat
  <2>1. CASE next \in held[r]
    <3>1. held'[r] = held[r]
      BY <1>7, <2>1
    <3> QED BY <1>2, <3>1 DEF n
  <2>2. CASE next \notin held[r]
    BY <1>2, <1>7, <2>2, FS_AddElement, FS_CardinalityType DEF n
  <2> QED BY <2>1, <2>2
<1>10. LocksTaken'
  <2> SUFFICES ASSUME NEW q \in Requests
               PROVE  /\ IsFiniteSet(held'[q])
                      /\ pc'[q] = "idle" <=> kind'[q] = "none"
                      /\ pc'[q] = "idle" => held'[q] = {}
                      /\ pc'[q] = "lock" => Cardinality(held'[q]) < Len(LockOrder[kind'[q]])
                      /\ pc'[q] \in {"check", "act"} => RowLock(kind'[q]) \in held'[q]
    BY DEF LocksTaken, Inside, RowLock
  <2>1. CASE q = r
    <3>1. kind'[r] = k /\ k # "none"
      BY <1>1, <1>6 DEF k, Kinds, GuestKinds, OwnerKinds
    <3>2. n + 1 # Len(LockOrder[k]) => Cardinality(held'[r]) < Len(LockOrder[k])
      BY <1>2, <1>3, <1>9
    <3>3. pc'[r] \in {"check", "act"} => RowLock(k) \in held'[r]
      BY <1>5, <1>7
    <3> QED BY <1>7, <1>9, <2>1, <3>1, <3>2, <3>3
  <2>2. CASE q # r
    BY <1>6, <1>7, <2>2 DEF ControlInv, LocksTaken, Inside
  <2> QED BY <2>1, <2>2
<1>11. NoConflict'
  <2> SUFFICES ASSUME NEW q \in Requests, NEW u \in Requests, q # u, NEW l \in held'[q], NEW m \in held'[u]
               PROVE  ~ Conflict(l, m)
    BY DEF NoConflict, Conflict
  <2>1. \A a, b : Conflict(a, b) => Conflict(b, a)
    BY DEF Conflict
  <2>2. (l \in held[q] \/ (q = r /\ l = next)) /\ (m \in held[u] \/ (u = r /\ m = next))
    BY <1>7
  <2>3. CASE l \in held[q] /\ m \in held[u]
    BY <2>3 DEF ControlInv, NoConflict
  <2>4. CASE q = r /\ l = next
    BY <1>6, <1>7, <2>1, <2>4
  <2>5. CASE u = r /\ m = next
    BY <1>6, <1>7, <2>5
  <2> QED BY <2>2, <2>3, <2>4, <2>5
<1> QED BY <1>1, <1>6, <1>7, <1>8, <1>10, <1>11 DEF ControlInv, k

\* A check that succeeds.
LEMMA CheckMoves ==
  ASSUME ControlInv, NEW r \in Requests, pc[r] = "check", row \in Rows,
         pc' = [pc EXCEPT ![r] = "act"], seen' = [seen EXCEPT ![r] = row], UNCHANGED <<held, kind, ask>>
  PROVE  /\ ControlInv' /\ pc'[r] = "act" /\ seen'[r] = row
         /\ \A q \in Requests \ {r} : pc'[q] = pc[q] /\ seen'[q] = seen[q]
<1>1. /\ pc'[r] = "act" /\ seen'[r] = row
      /\ \A q \in Requests \ {r} : pc'[q] = pc[q] /\ seen'[q] = seen[q]
  BY DEF ControlInv, ControlTypes
<1>2. ControlTypes'
  BY DEF ControlInv, ControlTypes
<1>3. LocksTaken' /\ NoConflict'
  BY <1>1 DEF ControlInv, LocksTaken, NoConflict, Inside
<1> QED BY <1>1, <1>2, <1>3 DEF ControlInv

LEMMA IdleStays ==
  ASSUME ControlInv, UNCHANGED <<held, pc, kind, ask, seen>>
  PROVE  ControlInv'
BY DEF ControlInv, ControlTypes, LocksTaken, NoConflict, Inside

-----------------------------------------------------------------------------
(* The epochs that are left                                                 *)

LEMMA ChangingFinite == IsFiniteSet(Changing) /\ Cardinality(Changing) \in Nat
BY Bounds, FS_Subset, FS_CardinalityType DEF Changing

LEMMA ChangingStays ==
  ASSUME NEW r \in Requests, \A q \in Requests \ {r} : kind'[q] = kind[q]
  PROVE  /\ kind'[r] \notin CredentialKinds => Cardinality(Changing') <= Cardinality(Changing)
         /\ kind'[r] \notin CredentialKinds /\ kind[r] \in CredentialKinds =>
              Cardinality(Changing') = Cardinality(Changing) - 1
         /\ Cardinality(Changing') <= Cardinality(Changing) + 1
         /\ IsFiniteSet(Changing') /\ Cardinality(Changing') \in Nat
<1>1. IsFiniteSet(Changing') /\ Cardinality(Changing') \in Nat
  BY Bounds, FS_Subset, FS_CardinalityType DEF Changing
<1>2. Changing \ {r} = Changing' \ {r}
  BY DEF Changing
<1>3. r \in Changing' <=> kind'[r] \in CredentialKinds
  BY DEF Changing
<1>4. r \in Changing <=> kind[r] \in CredentialKinds
  BY DEF Changing
<1>5. \A T : IsFiniteSet(T) => Cardinality(T \ {r}) = IF r \in T THEN Cardinality(T) - 1 ELSE Cardinality(T)
  <2> SUFFICES ASSUME NEW T, IsFiniteSet(T)
               PROVE  Cardinality(T \ {r}) = IF r \in T THEN Cardinality(T) - 1 ELSE Cardinality(T)
    OBVIOUS
  <2>1. r \notin T => T \ {r} = T
    OBVIOUS
  <2> QED BY <2>1, FS_RemoveElement
<1>6. Cardinality(Changing \ {r}) = (IF r \in Changing THEN Cardinality(Changing) - 1 ELSE Cardinality(Changing))
  BY <1>5, ChangingFinite
<1>7. Cardinality(Changing' \ {r}) = (IF r \in Changing' THEN Cardinality(Changing') - 1 ELSE Cardinality(Changing'))
  BY <1>1, <1>5
<1>8. Cardinality(Changing) \in Nat
  BY ChangingFinite
<1>9. (IF r \in Changing THEN Cardinality(Changing) - 1 ELSE Cardinality(Changing))
      = (IF r \in Changing' THEN Cardinality(Changing') - 1 ELSE Cardinality(Changing'))
  BY <1>2, <1>6, <1>7
<1>10. CASE r \in Changing
  BY <1>1, <1>3, <1>4, <1>8, <1>9, <1>10
<1>11. CASE r \notin Changing
  BY <1>1, <1>3, <1>4, <1>8, <1>9, <1>11
<1> QED BY <1>10, <1>11

-----------------------------------------------------------------------------
(* What one step may do                                                     *)

HistoryStep == row'.status # "deleted" =>
  \A e \in Written : author'[e] = author[e] /\ author[e] \in visits'
EpochStep == row'.status # "deleted" =>
  /\ row'.token # row.token \/ row'.password # row.password => row'.epoch > row.epoch
  /\ row'.epoch \in {row.epoch, row.epoch + 1}
CompletionStep == ~ (completed' \subseteq completed) =>
  /\ row.status = "shared" /\ row'.status = "completed"
  /\ \E v \in visits : completed' = completed \cup {v}
StepFits == HistoryStep /\ EpochStep /\ CompletionStep

LEMMA EpochType == ASSUME ReviewTypes PROVE row.epoch \in Nat /\ row.epoch <= MaxEpoch
<1>1. row.epoch \in 0..MaxEpoch
  BY DEF ReviewTypes, Rows
<1> QED BY <1>1, Bounds

\* A request that ends starts no further epoch.
LEMMA EpochsStay ==
  ASSUME EpochsLeft, ReviewTypes, row'.epoch = row.epoch, NEW r \in Requests, kind'[r] \notin CredentialKinds,
         \A q \in Requests \ {r} : kind'[q] = kind[q]
  PROVE  EpochsLeft'
<1>1. Cardinality(Changing') <= Cardinality(Changing) /\ Cardinality(Changing') \in Nat
  BY ChangingStays
<1>2. Cardinality(Changing) \in Nat
  BY ChangingFinite
<1> QED BY <1>1, <1>2, EpochType, Bounds DEF EpochsLeft

LEMMA NoneIsNoChange == "none" \notin CredentialKinds
BY DEF CredentialKinds

\* A step that leaves the review as it is.
LEMMA QuietFits ==
  ASSUME ReviewInv, UNCHANGED review
  PROVE  ReviewTypes' /\ HistoryWhole' /\ StepFits
<1>1. row' = row /\ visits' = visits /\ completed' = completed /\ lapsed' = lapsed /\ stamp' = stamp /\ author' = author
  BY DEF review
<1>2. ReviewTypes'
  BY <1>1 DEF ReviewInv, ReviewTypes
<1>3. HistoryWhole'
  BY <1>1 DEF ReviewInv, HistoryWhole, Written, VisitsWithinLimit, BudgetKept
<1>4. HistoryStep /\ CompletionStep
  BY <1>1 DEF ReviewInv, HistoryWhole, HistoryStep, CompletionStep
<1>5. EpochStep
  BY <1>1 DEF EpochStep
<1> QED BY <1>2, <1>3, <1>4, <1>5 DEF StepFits

\* Grants of the requests a step does not touch.
LEMMA GrantsStay ==
  ASSUME ReviewInv, UNCHANGED <<row, visits, stamp, completed, author>>, NEW q \in Requests, pc'[q] = "act",
         pc[q] = "act", kind'[q] = kind[q], ask'[q] = ask[q], seen'[q] = seen[q]
  PROVE  Grant(q)'
<1>1. Grant(q)
  BY DEF ReviewInv, GrantsHold
<1> QED BY <1>1 DEF Grant, Resolves, PasswordFits, Written

LEMMA QuietStep ==
  ASSUME ReviewInv, UNCHANGED review, ControlInv', EpochsLeft', NEW r \in Requests, pc'[r] # "act",
         \A q \in Requests \ {r} : /\ pc'[q] = pc[q] /\ kind'[q] = kind[q] /\ ask'[q] = ask[q] /\ seen'[q] = seen[q]
  PROVE  ReviewInv' /\ StepFits
<1>1. \A q \in Requests : pc'[q] = "act" => Grant(q)'
  BY GrantsStay DEF review
<1>2. GrantsHold'
  BY <1>1 DEF GrantsHold
<1> QED BY <1>2, QuietFits DEF ReviewInv

LEMMA QuietEnd ==
  ASSUME ReviewInv, NEW r \in Requests, End(r), UNCHANGED review
  PROVE  ReviewInv' /\ StepFits
<1>1. /\ ControlInv' /\ pc'[r] = "idle" /\ kind'[r] = "none"
      /\ \A q \in Requests \ {r} : /\ pc'[q] = pc[q] /\ kind'[q] = kind[q] /\ ask'[q] = ask[q] /\ seen'[q] = seen[q]
  BY EndMoves DEF ReviewInv
<1>2. EpochsLeft'
  BY <1>1, EpochsStay, NoneIsNoChange DEF ReviewInv, review
<1> QED BY <1>1, <1>2, QuietStep

\* Whoever writes under the row lock leaves no other grant behind.
LEMMA NobodyElseActs ==
  ASSUME ControlInv, NEW r \in Requests, Inside(r), kind[r] # "read", \A q \in Requests \ {r} : pc'[q] = pc[q]
  PROVE  \A q \in Requests \ {r} : pc'[q] # "act"
BY Alone DEF Inside

LEMMA WriterEnds ==
  ASSUME ReviewInv, NEW r \in Requests, Inside(r), kind[r] # "read", End(r)
  PROVE  ControlInv' /\ GrantsHold' /\ (row'.epoch = row.epoch => EpochsLeft')
<1>1. /\ ControlInv' /\ pc'[r] = "idle" /\ kind'[r] = "none"
      /\ \A q \in Requests \ {r} : /\ pc'[q] = pc[q] /\ kind'[q] = kind[q]
  BY EndMoves DEF ReviewInv
<1>2. \A q \in Requests : pc'[q] # "act"
  BY <1>1, NobodyElseActs DEF ReviewInv
<1>3. GrantsHold'
  BY <1>2 DEF GrantsHold
<1>4. row'.epoch = row.epoch => EpochsLeft'
  BY <1>1, EpochsStay, NoneIsNoChange DEF ReviewInv
<1> QED BY <1>1, <1>3, <1>4

-----------------------------------------------------------------------------
(* Requests of guests                                                       *)

LEMMA BeginFits ==
  ASSUME ReviewInv, NEW r \in Requests, NEW k \in Kinds, NEW a \in Asks, Begin(r, k, a),
         k \in CredentialKinds => RoomForEpoch
  PROVE  ReviewInv' /\ StepFits
<1>1. /\ ControlInv' /\ UNCHANGED review /\ pc'[r] = "lock" /\ kind'[r] = k
      /\ \A q \in Requests \ {r} : /\ pc'[q] = pc[q] /\ kind'[q] = kind[q] /\ ask'[q] = ask[q] /\ seen'[q] = seen[q]
  BY BeginMoves DEF ReviewInv
<1>2. EpochsLeft'
  <2>1. CASE k \notin CredentialKinds
    BY <1>1, <2>1, EpochsStay DEF ReviewInv, review
  <2>2. CASE k \in CredentialKinds
    <3>1. row.epoch + Cardinality(Changing) < MaxEpoch
      BY <2>2 DEF RoomForEpoch, Changing
    <3>2. Cardinality(Changing') <= Cardinality(Changing) + 1 /\ Cardinality(Changing') \in Nat
      BY <1>1, ChangingStays
    <3>3. Cardinality(Changing) \in Nat
      BY ChangingFinite
    <3>4. row' = row
      BY <1>1 DEF review
    <3> QED BY <3>1, <3>2, <3>3, <3>4, EpochType, Bounds DEF EpochsLeft, ReviewInv
  <2> QED BY <2>1, <2>2
<1> QED BY <1>1, <1>2, QuietStep

LEMMA AsksArePlain ==
  ASSUME NEW token \in 0..MaxEpoch, NEW v \in Visits \cup {None}, NEW pw \in Passwords \cup {None}, NEW target \in Statuses
  PROVE  /\ [NoAsk EXCEPT !.token = token, !.visit = v, !.password = pw] \in Asks
         /\ [NoAsk EXCEPT !.password = pw] \in Asks
         /\ [NoAsk EXCEPT !.target = target] \in Asks
BY EmptyAsk DEF NoAsk, Asks

LEMMA ArriveFits ==
  ASSUME ReviewInv, NEW r \in Requests, Arrive(r)
  PROVE  ReviewInv' /\ StepFits
<1>1. "draft" \in Statuses /\ 1..MaxEpoch \subseteq 0..MaxEpoch /\ 0 \in 0..MaxEpoch
  BY Bounds DEF Statuses
<1>2. "enter" \notin CredentialKinds /\ "status" \notin CredentialKinds
      /\ \A k \in {"read", "select", "complete"} : k \notin CredentialKinds /\ k \in Kinds
      /\ {"enter", "share", "password", "revoke", "delete", "status"} \subseteq Kinds
  BY DEF CredentialKinds, Kinds, GuestKinds, OwnerKinds
<1>3. ASSUME NEW token \in 1..MaxEpoch, NEW v \in Visits \cup {None}, NEW pw \in Passwords \cup {None},
             NEW k \in {"enter", "read", "select", "complete"}, GuestArrives(r, k, token, v, pw)
      PROVE  ReviewInv' /\ StepFits
  BY <1>1, <1>2, <1>3, AsksArePlain, BeginFits DEF GuestArrives
<1>4. ASSUME NEW pw \in Passwords \cup {None}, NEW k \in {"share", "password", "revoke", "delete"}, OwnerArrives(r, k, pw)
      PROVE  ReviewInv' /\ StepFits
  BY <1>1, <1>2, <1>4, AsksArePlain, BeginFits DEF OwnerArrives
<1>5. ASSUME NEW target \in Statuses, StatusArrives(r, target)
      PROVE  ReviewInv' /\ StepFits
  BY <1>1, <1>2, <1>5, AsksArePlain, BeginFits DEF StatusArrives
<1> QED BY <1>3, <1>4, <1>5 DEF Arrive

LEMMA AcquireFits ==
  ASSUME ReviewInv, NEW r \in Requests, Acquire(r)
  PROVE  ReviewInv' /\ StepFits
<1>1. /\ ControlInv' /\ UNCHANGED <<review, kind, ask, seen>> /\ pc'[r] # "act"
      /\ \A q \in Requests \ {r} : pc'[q] = pc[q]
  BY AcquireMoves DEF ReviewInv
<1>2. EpochsLeft'
  BY <1>1 DEF ReviewInv, EpochsLeft, Changing, review
<1> QED BY <1>1, <1>2, QuietStep

\* The sweep takes no visit the history needs.
LEMMA SweepFits ==
  ASSUME ReviewInv, NEW gone \in SUBSET Reclaimable, Drop(gone), UNCHANGED <<row, stamp>>
  PROVE  ReviewTypes' /\ HistoryWhole' /\ StepFits /\ Written' = Written /\ visits' = visits \ gone
<1>1. visits' = visits \ gone /\ completed' \subseteq completed /\ completed' \subseteq visits' /\ lapsed' \subseteq visits'
  BY DEF Drop, ReviewInv, ReviewTypes
<1>2. \A e \in Events : author'[e] = author[e]
  BY DEF Drop, Reclaimable
<1>3. \A e \in Written : author[e] \in visits'
  BY <1>1 DEF ReviewInv, HistoryWhole, Written, Reclaimable
<1>4. Written' = Written
  BY <1>2 DEF Written
<1>5. IsFiniteSet(visits') /\ Cardinality(visits') <= VisitLimit
  <2>1. IsFiniteSet(visits) /\ Cardinality(visits) <= VisitLimit /\ Cardinality(visits) \in Nat
    BY FS_CardinalityType DEF ReviewInv, HistoryWhole, VisitsWithinLimit
  <2>2. IsFiniteSet(visits') /\ Cardinality(visits') <= Cardinality(visits) /\ Cardinality(visits') \in Nat
    BY <1>1, <2>1, FS_Subset, FS_CardinalityType
  <2> QED BY <2>1, <2>2, Bounds
<1>6. ReviewTypes'
  <2>1. author' \in [Events -> Visits \cup {None}]
    BY <1>2 DEF Drop, ReviewInv, ReviewTypes
  <2> QED BY <1>1, <2>1 DEF ReviewInv, ReviewTypes
<1>7. HistoryWhole'
  BY <1>2, <1>3, <1>4, <1>5 DEF ReviewInv, HistoryWhole, VisitsWithinLimit, BudgetKept, Written
<1>8. StepFits
  BY <1>1, <1>2, <1>3 DEF StepFits, HistoryStep, EpochStep, CompletionStep, Written
<1> QED BY <1>1, <1>4, <1>6, <1>7, <1>8

LEMMA EnterCheckedFits ==
  ASSUME ReviewInv, NEW r \in Requests, EnterChecked(r)
  PROVE  ReviewInv' /\ StepFits
<1>1. pc[r] = "check" /\ kind[r] = "enter" /\ Inside(r) /\ kind[r] # "read" /\ row' = row /\ stamp' = stamp
  BY DEF EnterChecked, Inside
<1>2. CASE End(r) /\ UNCHANGED <<visits, completed, lapsed, author>>
  BY <1>1, <1>2, QuietEnd DEF review
<1>3. CASE /\ Resolves(row, ask[r].token) /\ PasswordFits(row, ask[r].password)
           /\ \E gone \in SUBSET Reclaimable :
                /\ Drop(gone)
                /\ IF Cardinality(visits \ gone) >= VisitLimit
                     THEN End(r)
                     ELSE /\ pc' = [pc EXCEPT ![r] = "act"]
                          /\ seen' = [seen EXCEPT ![r] = row]
                          /\ UNCHANGED <<held, kind, ask>>
  <2>1. PICK gone \in SUBSET Reclaimable :
                /\ Drop(gone)
                /\ IF Cardinality(visits \ gone) >= VisitLimit
                     THEN End(r)
                     ELSE /\ pc' = [pc EXCEPT ![r] = "act"]
                          /\ seen' = [seen EXCEPT ![r] = row]
                          /\ UNCHANGED <<held, kind, ask>>
    BY <1>3
  <2>2. ReviewTypes' /\ HistoryWhole' /\ StepFits /\ visits' = visits \ gone
    BY <1>1, <2>1, SweepFits
  <2>3. CASE End(r)
    BY <1>1, <2>2, <2>3, WriterEnds DEF ReviewInv
  <2>4. CASE /\ ~ (Cardinality(visits \ gone) >= VisitLimit)
             /\ pc' = [pc EXCEPT ![r] = "act"] /\ seen' = [seen EXCEPT ![r] = row] /\ UNCHANGED <<held, kind, ask>>
    <3>1. /\ ControlInv' /\ pc'[r] = "act" /\ seen'[r] = row
          /\ \A q \in Requests \ {r} : pc'[q] = pc[q] /\ seen'[q] = seen[q]
      BY <1>1, <2>4, CheckMoves DEF ReviewInv, ReviewTypes
    <3>2. \A q \in Requests \ {r} : pc'[q] # "act"
      BY <1>1, <3>1, NobodyElseActs DEF ReviewInv
    <3>3. Cardinality(visits') < VisitLimit
      <4>1. IsFiniteSet(visits')
        BY <2>2 DEF HistoryWhole
      <4>2. Cardinality(visits') \in Nat
        BY <4>1, FS_CardinalityType
      <4> QED BY <2>2, <2>4, <4>2, Bounds
    <3>4. Grant(r)'
      BY <1>1, <1>3, <2>4, <3>1, <3>3 DEF Grant, Resolves, PasswordFits
    <3>5. GrantsHold'
      BY <3>2, <3>4 DEF GrantsHold
    <3>6. EpochsLeft'
      BY <1>1, <2>4 DEF ReviewInv, EpochsLeft, Changing
    <3> QED BY <2>2, <3>1, <3>5, <3>6 DEF ReviewInv
  <2> QED BY <2>1, <2>3, <2>4
<1> QED BY <1>2, <1>3 DEF EnterChecked

\* A check that leaves the review as it is.
LEMMA CheckFits ==
  ASSUME ReviewInv, NEW r \in Requests, pc[r] = "check", UNCHANGED review,
         pc' = [pc EXCEPT ![r] = "act"], seen' = [seen EXCEPT ![r] = row], UNCHANGED <<held, kind, ask>>,
         seen'[r] = row => Grant(r)'
  PROVE  ReviewInv' /\ StepFits
<1>1. /\ ControlInv' /\ pc'[r] = "act" /\ seen'[r] = row
      /\ \A q \in Requests \ {r} : pc'[q] = pc[q] /\ seen'[q] = seen[q]
  BY CheckMoves DEF ReviewInv, ReviewTypes
<1>2. \A q \in Requests \ {r} : pc'[q] = "act" => Grant(q)'
  BY <1>1, GrantsStay DEF review
<1>3. GrantsHold'
  BY <1>1, <1>2 DEF GrantsHold
<1>4. EpochsLeft'
  BY DEF ReviewInv, EpochsLeft, Changing, review
<1> QED BY <1>1, <1>3, <1>4, QuietFits DEF ReviewInv

LEMMA GrantCheckedFits ==
  ASSUME ReviewInv, NEW r \in Requests, GrantChecked(r)
  PROVE  ReviewInv' /\ StepFits
<1>1. pc[r] = "check" /\ kind[r] \in {"read", "select", "complete"} /\ UNCHANGED review
  BY DEF GrantChecked
<1>2. CASE End(r)
  BY <1>1, <1>2, QuietEnd
<1>3. CASE /\ Granted(r, row) /\ pc' = [pc EXCEPT ![r] = "act"] /\ seen' = [seen EXCEPT ![r] = row]
           /\ UNCHANGED <<held, kind, ask>>
  <2> DEFINE v == ask[r].visit
  <2>1. Resolves(row, ask[r].token) /\ row.status \in Open
    BY <1>3 DEF Granted, Resolves
  <2>2. /\ kind[r] = "read" => row.password = None \/ Current(row, v)
        /\ kind[r] = "select" => row.status # "completed" /\ Current(row, v) /\ Cardinality(Written) < EventLimit
        /\ kind[r] = "complete" => row.status # "completed" /\ Current(row, v) /\ v \notin completed
    BY <1>1, <1>3 DEF Granted
  <2>3. Current(row, v) => v \in visits /\ stamp[v] = row.epoch
    BY DEF Current
  <2>4. row.status # "completed" => row.status = "shared"
    BY <2>1 DEF Open
  <2>5. /\ row' = row /\ visits' = visits /\ stamp' = stamp /\ completed' = completed /\ Written' = Written
        /\ kind' = kind /\ ask' = ask
    BY <1>1, <1>3 DEF review, Written
  <2>6. seen'[r] = row => Grant(r)'
    BY <1>1, <2>1, <2>2, <2>3, <2>4, <2>5 DEF Grant, Resolves, GuestKinds
  <2> QED BY <1>1, <1>3, <2>6, CheckFits
<1> QED BY <1>2, <1>3 DEF GrantChecked

LEMMA EnterFits ==
  ASSUME ReviewInv, NEW r \in Requests, Enter(r)
  PROVE  ReviewInv' /\ StepFits
<1>1. /\ pc[r] = "act" /\ kind[r] = "enter" /\ Inside(r) /\ kind[r] # "read" /\ End(r)
      /\ row' = row /\ completed' = completed /\ lapsed' = lapsed /\ author' = author
  BY DEF Enter, Inside
<1>2. PICK v \in Visits : stamp' = [stamp EXCEPT ![v] = seen[r].epoch] /\ visits' = visits \cup {v}
  BY DEF Enter
<1>3. ControlInv' /\ GrantsHold' /\ EpochsLeft'
  BY <1>1, WriterEnds
<1>4. Cardinality(visits) < VisitLimit /\ seen[r] = row
  BY <1>1 DEF ReviewInv, GrantsHold, Grant, GuestKinds
<1>5. IsFiniteSet(visits') /\ Cardinality(visits') <= VisitLimit
  <2>1. IsFiniteSet(visits) /\ Cardinality(visits) \in Nat
    BY FS_CardinalityType DEF ReviewInv, HistoryWhole
  <2>2. IsFiniteSet(visits') /\ (Cardinality(visits') = Cardinality(visits) \/ Cardinality(visits') = Cardinality(visits) + 1)
    <3>1. CASE v \in visits
      <4>1. visits' = visits
        BY <1>2, <3>1
      <4> QED BY <2>1, <4>1
    <3>2. CASE v \notin visits
      BY <1>2, <2>1, <3>2, FS_AddElement
    <3> QED BY <3>1, <3>2
  <2> QED BY <1>4, <2>1, <2>2, Bounds
<1>6. ReviewTypes'
  <2>1. seen[r].epoch \in -1..MaxEpoch
    BY <1>4, EpochType, Bounds DEF ReviewInv
  <2>2. stamp' \in [Visits -> -1..MaxEpoch]
    BY <1>2, <2>1 DEF ReviewInv, ReviewTypes
  <2> QED BY <1>1, <1>2, <2>2 DEF ReviewInv, ReviewTypes
<1>7. HistoryWhole'
  BY <1>1, <1>2, <1>5 DEF ReviewInv, HistoryWhole, VisitsWithinLimit, BudgetKept, Written
<1>8. StepFits
  BY <1>1, <1>2 DEF StepFits, HistoryStep, EpochStep, CompletionStep, ReviewInv, HistoryWhole
<1> QED BY <1>3, <1>6, <1>7, <1>8 DEF ReviewInv

LEMMA ReadFits ==
  ASSUME ReviewInv, NEW r \in Requests, Read(r) \/ GiveUp(r)
  PROVE  ReviewInv' /\ StepFits
BY QuietEnd DEF Read, GiveUp

LEMMA SelectFits ==
  ASSUME ReviewInv, NEW r \in Requests, Select(r)
  PROVE  ReviewInv' /\ StepFits
<1>1. /\ pc[r] = "act" /\ kind[r] = "select" /\ Inside(r) /\ kind[r] # "read" /\ End(r)
      /\ UNCHANGED <<row, visits, stamp, completed, lapsed>>
  BY DEF Select, Inside
<1>2. PICK e \in Events \ Written : author' = [author EXCEPT ![e] = ask[r].visit]
  BY DEF Select
<1>3. ControlInv' /\ GrantsHold' /\ EpochsLeft'
  BY <1>1, WriterEnds
<1>4. ask[r].visit \in visits /\ Cardinality(Written) < EventLimit
  BY <1>1 DEF ReviewInv, GrantsHold, Grant
<1>5. ask[r].visit \in Visits /\ ask[r].visit # None
  BY <1>4, Bounds DEF ReviewInv, ReviewTypes
<1>6. /\ author'[e] = ask[r].visit /\ \A f \in Events \ {e} : author'[f] = author[f]
      /\ author' \in [Events -> Visits \cup {None}]
  BY <1>2, <1>5 DEF ReviewInv, ReviewTypes
<1>7. Written' = Written \cup {e}
  BY <1>2, <1>5, <1>6 DEF Written
<1>8. IsFiniteSet(Written') /\ Cardinality(Written') <= EventLimit
  <2>1. IsFiniteSet(Written) /\ Cardinality(Written) \in Nat
    BY FS_CardinalityType DEF ReviewInv, HistoryWhole
  <2>2. IsFiniteSet(Written') /\ Cardinality(Written') = Cardinality(Written) + 1
    BY <1>2, <1>7, <2>1, FS_AddElement
  <2> QED BY <1>4, <2>1, <2>2, Bounds
<1>9. ReviewTypes'
  BY <1>1, <1>6 DEF ReviewInv, ReviewTypes
<1>10. \A f \in Written' : author'[f] \in visits'
  BY <1>1, <1>2, <1>4, <1>6, <1>7 DEF ReviewInv, HistoryWhole, Written
<1>11. HistoryWhole'
  BY <1>1, <1>8, <1>10 DEF ReviewInv, HistoryWhole, VisitsWithinLimit, BudgetKept
<1>12. StepFits
  <2>1. HistoryStep
    BY <1>1, <1>2, <1>6 DEF HistoryStep, ReviewInv, HistoryWhole, Written
  <2> QED BY <1>1, <2>1 DEF StepFits, EpochStep, CompletionStep
<1> QED BY <1>3, <1>9, <1>11, <1>12 DEF ReviewInv

LEMMA CompleteFits ==
  ASSUME ReviewInv, NEW r \in Requests, Complete(r)
  PROVE  ReviewInv' /\ StepFits
<1>1. /\ pc[r] = "act" /\ kind[r] = "complete" /\ Inside(r) /\ kind[r] # "read" /\ End(r)
      /\ completed' = completed \cup {ask[r].visit} /\ UNCHANGED <<visits, stamp, lapsed, author>>
      /\ row' = IF seen[r].status = "shared" THEN [row EXCEPT !.status = "completed"] ELSE row
  BY DEF Complete, Inside
<1>2. seen[r] = row /\ row.status = "shared" /\ ask[r].visit \in visits
  BY <1>1 DEF ReviewInv, GrantsHold, Grant, GuestKinds
<1>3. row' = [row EXCEPT !.status = "completed"] /\ row \in Rows /\ "completed" \in Statuses
  BY <1>1, <1>2 DEF ReviewInv, ReviewTypes, Statuses
<1>4. /\ row' \in Rows /\ row'.status = "completed" /\ row'.epoch = row.epoch
      /\ row'.token = row.token /\ row'.password = row.password
  BY <1>3 DEF Rows
<1>5. ControlInv' /\ GrantsHold' /\ EpochsLeft'
  BY <1>1, <1>4, WriterEnds
<1>6. ReviewTypes'
  BY <1>1, <1>2, <1>4 DEF ReviewInv, ReviewTypes
<1>7. HistoryWhole'
  BY <1>1 DEF ReviewInv, HistoryWhole, VisitsWithinLimit, BudgetKept, Written
<1>8. HistoryStep
  BY <1>1 DEF HistoryStep, ReviewInv, HistoryWhole
<1>9. EpochStep /\ CompletionStep
  BY <1>1, <1>2, <1>4 DEF EpochStep, CompletionStep
<1> QED BY <1>5, <1>6, <1>7, <1>8, <1>9 DEF ReviewInv, StepFits

LEMMA LapseFits ==
  ASSUME ReviewInv, NEW v \in Visits, Lapse(v)
  PROVE  ReviewInv' /\ StepFits
<1>1. /\ v \in visits /\ lapsed' = lapsed \cup {v}
      /\ UNCHANGED <<row, visits, stamp, completed, author, held, pc, kind, ask, seen>>
  BY DEF Lapse
<1>2. ControlInv'
  BY <1>1, IdleStays DEF ReviewInv
<1>3. EpochsLeft' /\ ReviewTypes'
  BY <1>1 DEF ReviewInv, EpochsLeft, Changing, ReviewTypes
<1>4. HistoryWhole'
  BY <1>1 DEF ReviewInv, HistoryWhole, VisitsWithinLimit, BudgetKept, Written
<1>5. \A q \in Requests : pc'[q] = "act" => Grant(q)'
  BY <1>1, GrantsStay
<1>6. GrantsHold'
  BY <1>5 DEF GrantsHold
<1>7. StepFits
  BY <1>1 DEF StepFits, HistoryStep, EpochStep, CompletionStep, ReviewInv, HistoryWhole
<1> QED BY <1>2, <1>3, <1>4, <1>6, <1>7 DEF ReviewInv

-----------------------------------------------------------------------------
(* Requests of the owner                                                    *)

LEMMA OwnerCheckedFits ==
  ASSUME ReviewInv, NEW r \in Requests, OwnerChecked(r)
  PROVE  ReviewInv' /\ StepFits
<1>1. pc[r] = "check" /\ kind[r] \in CredentialKinds \cup {"delete"} /\ UNCHANGED review
  BY DEF OwnerChecked
<1>2. CASE End(r)
  BY <1>1, <1>2, QuietEnd
<1>3. CASE pc' = [pc EXCEPT ![r] = "act"] /\ seen' = [seen EXCEPT ![r] = row] /\ UNCHANGED <<held, kind, ask>>
  <2>1. row' = row /\ kind' = kind
    BY <1>1, <1>3 DEF review
  <2>2. kind[r] \notin GuestKinds /\ kind[r] \notin {"enter", "read", "select", "complete"}
    BY <1>1 DEF CredentialKinds, GuestKinds
  <2>3. seen'[r] = row => Grant(r)'
    BY <2>1, <2>2 DEF Grant
  <2> QED BY <1>1, <1>3, <2>3, CheckFits
<1> QED BY <1>2, <1>3 DEF OwnerChecked

\* The row that carries the credentials of a request.
LEMMA CredentialRow ==
  ASSUME NEW r \in Requests, kind[r] \in CredentialKinds, seen[r] = row, row \in Rows, ask[r] \in Asks,
         row.epoch + 1 \in 0..MaxEpoch, row.status # "deleted"
  PROVE  WithCredentials(r) \in Rows /\ WithCredentials(r).epoch = row.epoch + 1
<1>1. ask[r].password \in Passwords \cup {None} /\ None \in Passwords \cup {None}
  BY DEF Asks
<1>2. 0 \in 0..MaxEpoch /\ row.status \in Statuses /\ "shared" \in Statuses /\ "draft" \in Statuses
  BY Bounds DEF Rows, Statuses
<1>3. NextEpoch(r) = row.epoch + 1
  BY DEF NextEpoch
<1>4. CASE kind[r] = "share"
  <2>1. WithCredentials(r) =
          [status |-> IF seen[r].status = "draft" THEN "shared" ELSE row.status,
           token |-> NextEpoch(r), password |-> ask[r].password, epoch |-> NextEpoch(r)]
    BY <1>4 DEF WithCredentials
  <2> QED BY <1>1, <1>2, <1>3, <2>1 DEF Rows
<1>5. CASE kind[r] = "revoke"
  <2>1. WithCredentials(r) =
          [status |-> IF seen[r].status = "shared" THEN "draft" ELSE row.status,
           token |-> 0, password |-> None, epoch |-> NextEpoch(r)]
    BY <1>5 DEF WithCredentials
  <2> QED BY <1>1, <1>2, <1>3, <2>1 DEF Rows
<1>6. CASE kind[r] = "password"
  <2>1. WithCredentials(r) = [row EXCEPT !.password = ask[r].password, !.epoch = NextEpoch(r)]
    BY <1>6 DEF WithCredentials
  <2> QED BY <1>1, <1>2, <1>3, <2>1 DEF Rows
<1> QED BY <1>4, <1>5, <1>6 DEF CredentialKinds

LEMMA ChangeCredentialsFits ==
  ASSUME ReviewInv, NEW r \in Requests, ChangeCredentials(r)
  PROVE  ReviewInv' /\ StepFits
<1>1. /\ pc[r] = "act" /\ kind[r] \in CredentialKinds /\ Inside(r) /\ kind[r] # "read" /\ End(r)
      /\ UNCHANGED <<visits, stamp, completed, lapsed, author>>
      /\ row' = IF row.status = "deleted" THEN row ELSE WithCredentials(r)
  BY DEF ChangeCredentials, Inside, CredentialKinds
<1>2. CASE row.status = "deleted"
  <2>1. UNCHANGED review
    BY <1>1, <1>2 DEF review
  <2> QED BY <1>1, <2>1, QuietEnd
<1>3. CASE row.status # "deleted"
  <2>1. seen[r] = row /\ row \in Rows /\ ask[r] \in Asks
    BY <1>1 DEF ReviewInv, GrantsHold, Grant, ReviewTypes, ControlInv, ControlTypes
  <2>2. /\ kind'[r] = "none" /\ \A q \in Requests \ {r} : kind'[q] = kind[q]
    BY <1>1, EndMoves DEF ReviewInv
  <2>3. Cardinality(Changing') = Cardinality(Changing) - 1 /\ Cardinality(Changing') \in Nat
    BY <1>1, <2>2, ChangingStays, NoneIsNoChange
  <2>4. Cardinality(Changing) \in Nat /\ row.epoch \in Nat /\ row.epoch + Cardinality(Changing) <= MaxEpoch
    BY ChangingFinite, EpochType DEF ReviewInv, EpochsLeft
  <2>5. row.epoch + 1 \in 0..MaxEpoch
    BY <2>3, <2>4, Bounds
  <2>6. row' \in Rows /\ row'.epoch = row.epoch + 1
    BY <1>1, <1>3, <2>1, <2>5, CredentialRow
  <2>7. EpochsLeft'
    BY <2>3, <2>4, <2>6, Bounds DEF EpochsLeft
  <2>8. ControlInv' /\ GrantsHold'
    BY <1>1, WriterEnds
  <2>9. ReviewTypes'
    BY <1>1, <2>6 DEF ReviewInv, ReviewTypes
  <2>10. HistoryWhole'
    BY <1>1 DEF ReviewInv, HistoryWhole, VisitsWithinLimit, BudgetKept, Written
  <2>11. HistoryStep /\ CompletionStep
    BY <1>1 DEF HistoryStep, CompletionStep, ReviewInv, HistoryWhole
  <2>12. EpochStep
    BY <2>4, <2>6 DEF EpochStep
  <2> QED BY <2>7, <2>8, <2>9, <2>10, <2>11, <2>12 DEF ReviewInv, StepFits
<1> QED BY <1>2, <1>3

LEMMA ChangeStatusFits ==
  ASSUME ReviewInv, NEW r \in Requests, ChangeStatus(r)
  PROVE  ReviewInv' /\ StepFits
<1>1. /\ pc[r] = "check" /\ kind[r] = "status" /\ Inside(r) /\ kind[r] # "read" /\ End(r)
      /\ UNCHANGED <<visits, stamp, completed, lapsed, author>>
      /\ row' = IF row.status = "deleted" THEN row ELSE [row EXCEPT !.status = ask[r].target]
  BY DEF ChangeStatus, Inside
<1>2. ask[r].target \in Statuses /\ row \in Rows
  BY DEF ReviewInv, ControlInv, ControlTypes, Asks, ReviewTypes
<1>3. row' \in Rows /\ row'.epoch = row.epoch /\ row'.token = row.token /\ row'.password = row.password
  BY <1>1, <1>2 DEF Rows
<1>4. ControlInv' /\ GrantsHold' /\ EpochsLeft'
  BY <1>1, <1>3, WriterEnds
<1>5. ReviewTypes'
  BY <1>1, <1>3 DEF ReviewInv, ReviewTypes
<1>6. HistoryWhole'
  BY <1>1 DEF ReviewInv, HistoryWhole, VisitsWithinLimit, BudgetKept, Written
<1>7. HistoryStep /\ CompletionStep
  BY <1>1 DEF HistoryStep, CompletionStep, ReviewInv, HistoryWhole
<1>8. EpochStep
  BY <1>3 DEF EpochStep
<1> QED BY <1>4, <1>5, <1>6, <1>7, <1>8 DEF ReviewInv, StepFits

LEMMA DeleteFits ==
  ASSUME ReviewInv, NEW r \in Requests, Delete(r)
  PROVE  ReviewInv' /\ StepFits
<1>1. /\ pc[r] = "act" /\ kind[r] = "delete" /\ Inside(r) /\ kind[r] # "read" /\ End(r) /\ stamp' = stamp
      /\ row' = [row EXCEPT !.status = "deleted", !.token = 0, !.password = None] /\ Drop(visits)
  BY DEF Delete, Inside
<1>2. visits' = {} /\ completed' \subseteq completed /\ completed' = {} /\ lapsed' = {}
  BY <1>1 DEF Drop, ReviewInv, ReviewTypes
<1>3. \A e \in Events : author'[e] = None
  BY <1>1 DEF Drop, ReviewInv, HistoryWhole, Written
<1>4. author' \in [Events -> Visits \cup {None}] /\ Written' = {}
  BY <1>1, <1>3 DEF Drop, Written
<1>5. row \in Rows /\ "deleted" \in Statuses /\ 0 \in 0..MaxEpoch
  BY Bounds DEF ReviewInv, ReviewTypes, Statuses
<1>6. row' \in Rows /\ row'.epoch = row.epoch /\ row'.status = "deleted"
  BY <1>1, <1>5 DEF Rows
<1>7. ControlInv' /\ GrantsHold' /\ EpochsLeft'
  BY <1>1, <1>6, WriterEnds
<1>8. ReviewTypes'
  BY <1>1, <1>2, <1>4, <1>6 DEF ReviewInv, ReviewTypes
<1>9. HistoryWhole'
  <2>1. IsFiniteSet({}) /\ Cardinality({}) = 0
    BY FS_EmptySet
  <2>2. Cardinality(visits') <= VisitLimit /\ Cardinality(Written') <= EventLimit
    BY <1>2, <1>4, <2>1, Bounds
  <2> QED BY <1>2, <1>4, <2>1, <2>2 DEF HistoryWhole, VisitsWithinLimit, BudgetKept
<1>10. StepFits
  BY <1>2, <1>6 DEF StepFits, HistoryStep, EpochStep, CompletionStep
<1> QED BY <1>7, <1>8, <1>9, <1>10 DEF ReviewInv

-----------------------------------------------------------------------------
(* The theorems                                                             *)

LEMMA InitInv == Init => ReviewInv
<1> SUFFICES ASSUME Init PROVE ReviewInv
  OBVIOUS
<1>1. IsFiniteSet({}) /\ Cardinality({}) = 0
  BY FS_EmptySet
<1>2. \A r \in Requests : pc[r] = "idle" /\ kind[r] = "none" /\ held[r] = {}
  BY DEF Init
<1>3. ControlTypes
  BY EmptyAsk DEF Init, ControlTypes
<1>4. LocksTaken /\ NoConflict
  BY <1>1, <1>2 DEF LocksTaken, NoConflict, Inside
<1>5. EpochsLeft
  <2>1. Changing = {}
    BY <1>2, NoneIsNoChange DEF Changing
  <2>2. row.epoch = 0
    BY DEF Init, NoRow
  <2> QED BY <1>1, <2>1, <2>2, Bounds DEF EpochsLeft
<1>6. ReviewTypes
  <2>1. -1 \in -1..MaxEpoch
    BY Bounds
  <2> QED BY <2>1, EmptyAsk DEF Init, ReviewTypes
<1>7. HistoryWhole
  <2>1. Written = {} /\ visits = {}
    BY DEF Init, Written
  <2> QED BY <1>1, <2>1, Bounds DEF HistoryWhole, VisitsWithinLimit, BudgetKept
<1>8. GrantsHold
  BY <1>2 DEF GrantsHold
<1> QED BY <1>3, <1>4, <1>5, <1>6, <1>7, <1>8 DEF ReviewInv, ControlInv

LEMMA StepInv == ReviewInv /\ [Next]_vars => ReviewInv' /\ StepFits
<1> SUFFICES ASSUME ReviewInv, [Next]_vars PROVE ReviewInv' /\ StepFits
  OBVIOUS
<1>1. ASSUME NEW r \in Requests, Work(r) PROVE ReviewInv' /\ StepFits
  BY <1>1, EnterCheckedFits, GrantCheckedFits, OwnerCheckedFits, EnterFits, ReadFits, SelectFits, CompleteFits,
     ChangeCredentialsFits, ChangeStatusFits, DeleteFits DEF Work
<1>2. ASSUME NEW r \in Requests, Arrive(r) \/ Acquire(r) \/ GiveUp(r) PROVE ReviewInv' /\ StepFits
  BY <1>2, ArriveFits, AcquireFits, ReadFits
<1>3. ASSUME NEW v \in Visits, Lapse(v) PROVE ReviewInv' /\ StepFits
  BY <1>3, LapseFits
<1>4. CASE UNCHANGED vars
  <2>1. UNCHANGED review /\ UNCHANGED <<held, pc, kind, ask, seen>>
    BY <1>4 DEF vars
  <2>2. ControlInv' /\ EpochsLeft'
    BY <2>1, IdleStays DEF ReviewInv, EpochsLeft, Changing, review
  <2>3. \A q \in Requests : pc'[q] = "act" => Grant(q)'
    BY <2>1, GrantsStay DEF review
  <2>4. GrantsHold'
    BY <2>3 DEF GrantsHold
  <2> QED BY <2>1, <2>2, <2>4, QuietFits DEF ReviewInv
<1> QED BY <1>1, <1>2, <1>3, <1>4 DEF Next

(* The locks of the requests, their grants and the rows of the review      *)
(* agree in every state, for any number of requests, visits and events.    *)
THEOREM ReviewInvariant == Spec => []ReviewInv
BY InitInv, StepInv, PTL DEF Spec

(* Every variable keeps the type the rows and the requests have. *)
THEOREM TypesAlwaysOK == Spec => []TypeOK
<1>1. ReviewInv => TypeOK
  BY DEF ReviewInv, ReviewTypes, ControlInv, ControlTypes, TypeOK
<1> QED BY <1>1, ReviewInvariant, PTL

(* What lock_gallery_for_review granted a guest holds when it is used. *)
THEOREM GrantsAlwaysGood == Spec => []GrantStillGood
<1>1. ReviewInv => GrantStillGood
  BY DEF ReviewInv, GrantsHold, Grant, GrantStillGood, GuestKinds
<1> QED BY <1>1, ReviewInvariant, PTL

(* Concurrent create_share_session never exceed the limit of visits. *)
THEOREM VisitsAlwaysWithinLimit == Spec => []VisitsWithinLimit
<1>1. ReviewInv => VisitsWithinLimit
  BY DEF ReviewInv, HistoryWhole
<1> QED BY <1>1, ReviewInvariant, PTL

(* Concurrent selections never exceed the budget of the history. *)
THEOREM BudgetAlwaysKept == Spec => []BudgetKept
<1>1. ReviewInv => BudgetKept
  BY DEF ReviewInv, HistoryWhole
<1> QED BY <1>1, ReviewInvariant, PTL

(* The sweep of visits never cascades into the history of selections. *)
THEOREM HistoryAlwaysKept == Spec => HistoryKept
BY ReviewInvariant, StepInv, PTL DEF HistoryKept, StepFits, HistoryStep, Spec

(* No grant outlives its credentials: each change starts an epoch. *)
THEOREM EpochsAlwaysStamped == Spec => CredentialsStampEpoch
BY ReviewInvariant, StepInv, PTL DEF CredentialsStampEpoch, StepFits, EpochStep, Spec

(* A review is completed by one of its visits and closes in that commit. *)
THEOREM CompletedOnce == Spec => OneCompletion
BY ReviewInvariant, StepInv, PTL DEF OneCompletion, StepFits, CompletionStep, Spec

-----------------------------------------------------------------------------
(* No circle of waiters                                                     *)

Prefix(k, n) == {LockOrder[k][i] : i \in 1..n}

\* A request on its way holds the first of the locks of its order.
OrderHeld == \A r \in Requests : pc[r] = "lock" =>
  \E n \in Nat : n < Len(LockOrder[kind[r]]) /\ held[r] = Prefix(kind[r], n)

LEMMA Orders ==
  ASSUME NEW k \in Kinds
  PROVE  LockOrder[k] \in {<<S("life"), X("admission"), X("row")>>, <<S("life"), X("budget"), X("row")>>,
                           <<S("life"), S("row")>>, <<S("life"), X("row")>>, <<X("life"), X("row")>>, <<X("row")>>}
BY DEF LockOrder, Kinds, GuestKinds, OwnerKinds, S, X

\* As many locks as the place in the order says.
LEMMA PrefixCounted ==
  ASSUME NEW k \in Kinds, NEW n \in Nat, n < Len(LockOrder[k])
  PROVE  /\ IsFiniteSet(Prefix(k, n)) /\ Cardinality(Prefix(k, n)) = n
         /\ Prefix(k, n + 1) = Prefix(k, n) \cup {LockOrder[k][n + 1]}
<1>1. Prefix(k, n + 1) = Prefix(k, n) \cup {LockOrder[k][n + 1]}
  BY DEF Prefix
<1>2. n \in {0, 1, 2} /\ (n = 2 => Len(LockOrder[k]) = 3)
  BY OrderIs
<1>3. IsFiniteSet({}) /\ Cardinality({}) = 0
  BY FS_EmptySet
<1>4. Prefix(k, 0) = {}
  BY DEF Prefix
<1>5. CASE n = 0
  BY <1>1, <1>3, <1>4, <1>5
<1>6. Prefix(k, 1) = {LockOrder[k][1]} /\ IsFiniteSet(Prefix(k, 1)) /\ Cardinality(Prefix(k, 1)) = 1
  <2>1. Prefix(k, 1) = {} \cup {LockOrder[k][1]}
    BY DEF Prefix
  <2>2. Cardinality({} \cup {LockOrder[k][1]}) = 0 + 1 /\ IsFiniteSet({} \cup {LockOrder[k][1]})
    BY <1>3, FS_AddElement
  <2> QED BY <2>1, <2>2
<1>7. CASE n = 1
  BY <1>1, <1>6, <1>7
<1>8. CASE n = 2
  <2>1. LockOrder[k][2] # LockOrder[k][1]
    BY <1>2, <1>8, Orders DEF S, X
  <2>2. Prefix(k, 2) = Prefix(k, 1) \cup {LockOrder[k][2]}
    BY DEF Prefix
  <2> DEFINE p == Prefix(k, 1)
             l == LockOrder[k][2]
  <2>3. IsFiniteSet(p) /\ Cardinality(p) = 1 /\ l \notin p
    BY <1>6, <2>1
  <2> HIDE DEF p, l
  <2>4. IsFiniteSet(p \cup {l}) /\ Cardinality(p \cup {l}) = 2
    BY <2>3, FS_AddElement
  <2>5. IsFiniteSet(Prefix(k, 2)) /\ Cardinality(Prefix(k, 2)) = 2
    BY <2>2, <2>4 DEF p, l
  <2> QED BY <1>1, <1>8, <2>5
<1> QED BY <1>2, <1>5, <1>7, <1>8

LEMMA ArrivalBegins ==
  ASSUME NEW r \in Requests, Arrive(r)
  PROVE  \E k \in Kinds, a \in Asks : Begin(r, k, a)
<1>1. "draft" \in Statuses /\ 1..MaxEpoch \subseteq 0..MaxEpoch /\ 0 \in 0..MaxEpoch
      /\ {"enter", "read", "select", "complete", "share", "password", "revoke", "delete", "status"} \subseteq Kinds
  BY Bounds DEF Statuses, Kinds, GuestKinds, OwnerKinds
<1>2. ASSUME NEW token \in 1..MaxEpoch, NEW v \in Visits \cup {None}, NEW pw \in Passwords \cup {None},
             NEW k \in {"enter", "read", "select", "complete"}, GuestArrives(r, k, token, v, pw)
      PROVE  \E a \in Asks : Begin(r, k, a)
  BY <1>1, <1>2, AsksArePlain DEF GuestArrives
<1>3. ASSUME NEW pw \in Passwords \cup {None}, NEW k \in {"share", "password", "revoke", "delete"}, OwnerArrives(r, k, pw)
      PROVE  \E a \in Asks : Begin(r, k, a)
  BY <1>1, <1>3, AsksArePlain DEF OwnerArrives
<1>4. ASSUME NEW target \in Statuses, StatusArrives(r, target)
      PROVE  \E a \in Asks : Begin(r, "status", a)
  BY <1>1, <1>4, AsksArePlain DEF StatusArrives
<1> QED BY <1>1, <1>2, <1>3, <1>4 DEF Arrive

LEMMA OrderStep == ControlInv /\ OrderHeld /\ [Next]_vars => OrderHeld'
<1> SUFFICES ASSUME ControlInv, OrderHeld, [Next]_vars PROVE OrderHeld'
  OBVIOUS
<1> DEFINE Fits(q) == pc'[q] = "lock" =>
             \E n \in Nat : n < Len(LockOrder[kind'[q]]) /\ held'[q] = Prefix(kind'[q], n)
<1>1. ASSUME NEW q \in Requests, pc'[q] = pc[q], kind'[q] = kind[q], held'[q] = held[q] PROVE Fits(q)
  BY <1>1 DEF OrderHeld
<1>2. ASSUME NEW r \in Requests, Arrive(r) PROVE OrderHeld'
  <2>1. PICK k \in Kinds, a \in Asks : Begin(r, k, a)
    BY <1>2, ArrivalBegins
  <2>2. held'[r] = {} /\ kind'[r] = k /\ held' = held
        /\ \A q \in Requests \ {r} : pc'[q] = pc[q] /\ kind'[q] = kind[q]
    BY <2>1 DEF Begin, ControlInv, ControlTypes, LocksTaken
  <2>3. held'[r] = Prefix(k, 0) /\ 0 < Len(LockOrder[k])
    <3>1. Len(LockOrder[k]) \in 1..3
      BY OrderIs
    <3>2. \A m \in 1..3 : 0 < m
      OBVIOUS
    <3>3. Prefix(k, 0) = {}
      BY DEF Prefix
    <3>4. 0 < Len(LockOrder[k])
      BY <3>1, <3>2
    <3> QED BY <2>2, <3>3, <3>4
  <2>4. Fits(r)
    BY <2>2, <2>3
  <2>5. \A q \in Requests \ {r} : Fits(q)
    BY <1>1, <2>2
  <2> QED BY <2>4, <2>5 DEF OrderHeld
<1>3. ASSUME NEW r \in Requests, Acquire(r) PROVE OrderHeld'
  <2>1. /\ pc[r] = "lock" /\ kind' = kind
        /\ held' = [held EXCEPT ![r] = @ \cup {NextLock(r)}]
        /\ pc' = [pc EXCEPT ![r] = IF Cardinality(held[r]) + 1 = Len(LockOrder[kind[r]]) THEN "check" ELSE "lock"]
    BY <1>3 DEF Acquire
  <2>2. kind[r] \in Kinds
    BY <2>1 DEF ControlInv, ControlTypes, LocksTaken, Kinds
  <2>3. PICK n \in Nat : n < Len(LockOrder[kind[r]]) /\ held[r] = Prefix(kind[r], n)
    BY <2>1 DEF OrderHeld
  <2>4. Cardinality(held[r]) = n /\ held'[r] = Prefix(kind[r], n + 1)
    <3>1. Cardinality(Prefix(kind[r], n)) = n
          /\ Prefix(kind[r], n + 1) = Prefix(kind[r], n) \cup {LockOrder[kind[r]][n + 1]}
      BY <2>2, <2>3, PrefixCounted
    <3>2. Cardinality(held[r]) = n
      BY <2>3, <3>1
    <3>3. held'[r] = held[r] \cup {LockOrder[kind[r]][n + 1]}
      <4>1. NextLock(r) = LockOrder[kind[r]][n + 1]
        BY <3>2 DEF NextLock
      <4>2. held'[r] = held[r] \cup {NextLock(r)}
        BY <2>1 DEF ControlInv, ControlTypes
      <4> QED BY <4>1, <4>2
    <3> QED BY <2>3, <3>1, <3>2, <3>3
  <2>5. pc'[r] = "lock" => n + 1 < Len(LockOrder[kind[r]])
    BY <2>1, <2>2, <2>3, <2>4, OrderIs DEF ControlInv, ControlTypes
  <2>6. Fits(r)
    BY <2>1, <2>4, <2>5
  <2>7. \A q \in Requests \ {r} : Fits(q)
    BY <1>1, <2>1 DEF ControlInv, ControlTypes
  <2> QED BY <2>6, <2>7 DEF OrderHeld
<1>4. ASSUME NEW r \in Requests, Work(r) \/ GiveUp(r) PROVE OrderHeld'
  <2>1. End(r) \/ (pc' = [pc EXCEPT ![r] = "act"] /\ UNCHANGED <<held, kind>>)
    BY <1>4 DEF Work, GiveUp, EnterChecked, GrantChecked, OwnerChecked, Enter, Read, Select, Complete,
         ChangeCredentials, ChangeStatus, Delete
  <2>2. pc'[r] # "lock"
    BY <2>1 DEF End, ControlInv, ControlTypes
  <2>3. \A q \in Requests \ {r} : pc'[q] = pc[q] /\ kind'[q] = kind[q] /\ held'[q] = held[q]
    BY <2>1 DEF End, ControlInv, ControlTypes
  <2> QED BY <1>1, <2>2, <2>3 DEF OrderHeld
<1>5. ASSUME NEW v \in Visits, Lapse(v) PROVE OrderHeld'
  BY <1>5, <1>1 DEF Lapse, OrderHeld
<1>6. CASE UNCHANGED vars
  BY <1>6, <1>1 DEF vars, OrderHeld
<1> QED BY <1>2, <1>3, <1>4, <1>5, <1>6 DEF Next

\* What a waiting request holds comes before what it waits for.
LEMMA Ahead ==
  ASSUME ControlInv, OrderHeld, NEW q \in Requests, pc[q] = "lock", NEW l \in held[q]
  PROVE  /\ l[1] # "row" /\ NextLock(q)[1] # "life"
         /\ l[1] \in {"admission", "budget"} => NextLock(q)[1] = "row"
         /\ l[1] \in {"life", "admission", "budget"}
<1> DEFINE order == LockOrder[kind[q]]
<1>1. kind[q] \in Kinds
  BY DEF ControlInv, ControlTypes, LocksTaken, Kinds
<1>2. PICK n \in Nat : n < Len(order) /\ held[q] = Prefix(kind[q], n)
  BY DEF OrderHeld
<1>3. NextLock(q) = order[n + 1]
  <2>1. Cardinality(Prefix(kind[q], n)) = n
    BY <1>1, <1>2, PrefixCounted
  <2> QED BY <1>2, <2>1 DEF NextLock
<1>4. PICK i \in 1..n : l = order[i]
  BY <1>2 DEF Prefix
<1>5. order \in {<<S("life"), X("admission"), X("row")>>, <<S("life"), X("budget"), X("row")>>,
                 <<S("life"), S("row")>>, <<S("life"), X("row")>>, <<X("life"), X("row")>>, <<X("row")>>}
  BY <1>1, Orders
<1> HIDE DEF order
<1>6. Len(order) \in 1..3
  BY <1>5
<1>7. (n = 1 /\ i = 1) \/ (n = 2 /\ i = 1 /\ Len(order) = 3) \/ (n = 2 /\ i = 2 /\ Len(order) = 3)
  <2> DEFINE len == Len(order)
  <2>1. n < len /\ len \in 1..3
    BY <1>2, <1>6
  <2> HIDE DEF len
  <2>2. i \in 1..n /\ n \in Nat
    BY <1>4
  <2>3. (n = 1 /\ i = 1) \/ (n = 2 /\ i = 1 /\ len = 3) \/ (n = 2 /\ i = 2 /\ len = 3)
    BY <2>1, <2>2
  <2> QED BY <2>3 DEF len
<1>8. CASE n = 1 /\ i = 1
  BY <1>2, <1>3, <1>4, <1>5, <1>8 DEF S, X
<1>9. CASE n = 2 /\ Len(order) = 3
  BY <1>3, <1>4, <1>5, <1>7, <1>9 DEF S, X
<1> QED BY <1>7, <1>8, <1>9

(* Requests that wait for one another in a circle do not exist: whoever    *)
(* keeps a lock from another waits, if it waits, for a later one, and who  *)
(* waits for the row, the last, waits for a request that has all it needs. *)
THEOREM NoCircleEver == Spec => []NoCircleOfWaiters
<1>1. Init => OrderHeld
  BY DEF Init, OrderHeld
<1>2. ControlInv /\ OrderHeld => NoCircleOfWaiters
  <2> SUFFICES ASSUME ControlInv, OrderHeld, NEW circle \in SUBSET Requests, NEW r \in circle,
                      \A u \in circle : \E q \in circle \ {u} : WaitsFor(u, q)
               PROVE  FALSE
    BY DEF NoCircleOfWaiters
  <2>1. ASSUME NEW u \in circle
        PROVE  pc[u] = "lock" /\ \E q \in circle : \E l \in held[q] : l[1] = NextLock(u)[1]
    BY <2>1 DEF WaitsFor, Conflict
  <2>2. ASSUME NEW u \in circle PROVE NextLock(u)[1] # "row"
    <3>1. PICK q \in circle : \E l \in held[q] : l[1] = NextLock(u)[1]
      BY <2>1, <2>2
    <3>2. pc[q] = "lock" /\ q \in Requests
      BY <2>1
    <3> QED BY <3>1, <3>2, Ahead
  <2>3. PICK q \in circle : \E l \in held[q] : l[1] = NextLock(r)[1]
    BY <2>1
  <2>4. NextLock(q)[1] # "life"
    BY <2>1, <2>3, Ahead
  <2>5. PICK u \in circle : \E l \in held[u] : l[1] = NextLock(q)[1]
    BY <2>1
  <2>6. NextLock(u)[1] = "row"
    BY <2>1, <2>4, <2>5, Ahead
  <2> QED BY <2>2, <2>6
<1>3. ReviewInv => ControlInv
  BY DEF ReviewInv
<1> QED BY <1>1, <1>2, <1>3, OrderStep, ReviewInvariant, PTL DEF Spec

-----------------------------------------------------------------------------
(* One request at a time                                                    *)

Authorized == {v \in visits : stamp[v] = row.epoch}

\* Nobody holds an authorization of the future, a status that is asked for is
\* one that a gallery may change to, and the owner acts on a gallery that exists.
PastStamps  == \A v \in visits : stamp[v] \in 0..row.epoch
AskedStatus == \A r \in Requests : kind[r] = "status" => ask[r].target \in {"shared", "completed", "archived"}
OwnerSees   == \A r \in Requests : pc[r] = "act" /\ kind[r] \in OwnerKinds => seen[r].status # "deleted"
AtomicInv   == PastStamps /\ AskedStatus /\ OwnerSees

\* What a step may do to one request.
LEMMA RequestSteps ==
  ASSUME ControlInv, row \in Rows, NEW r \in Requests, Arrive(r) \/ Acquire(r) \/ Work(r) \/ GiveUp(r), NEW q \in Requests
  PROVE  /\ kind'[q] = "status" =>
              \/ kind[q] = "status" /\ ask'[q] = ask[q]
              \/ ask'[q].target \in {"shared", "completed", "archived"}
         /\ pc'[q] = "act" /\ kind'[q] \in OwnerKinds =>
              \/ pc[q] = "act" /\ kind[q] \in OwnerKinds /\ seen'[q] = seen[q]
              \/ seen'[q].status # "deleted"
<1> DEFINE Goal ==
         /\ kind'[q] = "status" =>
              \/ kind[q] = "status" /\ ask'[q] = ask[q]
              \/ ask'[q].target \in {"shared", "completed", "archived"}
         /\ pc'[q] = "act" /\ kind'[q] \in OwnerKinds =>
              \/ pc[q] = "act" /\ kind[q] \in OwnerKinds /\ seen'[q] = seen[q]
              \/ seen'[q].status # "deleted"
<1>1. CASE End(r)
  BY <1>1, EndMoves DEF OwnerKinds
<1>2. ASSUME NEW target \in Statuses, StatusArrives(r, target) PROVE Goal
  <2>1. target \in AllowedTransitions[row.status] /\ Begin(r, "status", [NoAsk EXCEPT !.target = target])
    BY <1>2 DEF StatusArrives
  <2>2. \A s \in Statuses : AllowedTransitions[s] \subseteq {"shared", "completed", "archived"}
    BY DEF AllowedTransitions, Statuses
  <2>3. target \in {"shared", "completed", "archived"}
    BY <2>1, <2>2 DEF Rows
  <2>4. ask'[r].target = target /\ pc'[r] = "lock"
    BY <2>1 DEF Begin, ControlInv, ControlTypes, NoAsk
  <2>5. \A u \in Requests \ {r} : pc'[u] = pc[u] /\ kind'[u] = kind[u] /\ ask'[u] = ask[u] /\ seen'[u] = seen[u]
    BY <2>1 DEF Begin, ControlInv, ControlTypes
  <2> QED BY <2>3, <2>4, <2>5
<1>3. ASSUME NEW k \in Kinds \ {"status"}, NEW a, Begin(r, k, a) PROVE Goal
  <2>1. pc'[r] = "lock" /\ kind'[r] = k
        /\ \A u \in Requests \ {r} : pc'[u] = pc[u] /\ kind'[u] = kind[u] /\ ask'[u] = ask[u] /\ seen'[u] = seen[u]
    BY <1>3 DEF Begin, ControlInv, ControlTypes
  <2> QED BY <2>1
<1>4. CASE Arrive(r)
  <2>1. {"enter", "read", "select", "complete", "share", "password", "revoke", "delete"} \subseteq Kinds \ {"status"}
    BY DEF Kinds, GuestKinds, OwnerKinds
  <2> QED BY <1>2, <1>3, <1>4, <2>1 DEF Arrive, GuestArrives, OwnerArrives
<1>5. CASE Acquire(r)
  <2>1. /\ pc'[r] # "act" /\ kind' = kind /\ ask' = ask /\ seen' = seen
        /\ \A u \in Requests \ {r} : pc'[u] = pc[u]
    BY <1>5, AcquireMoves
  <2> QED BY <2>1
<1>6. ASSUME pc' = [pc EXCEPT ![r] = "act"], seen' = [seen EXCEPT ![r] = row], UNCHANGED <<held, kind, ask>>,
             kind[r] \in OwnerKinds => row.status # "deleted"
      PROVE  Goal
  <2>1. seen'[r] = row /\ \A u \in Requests \ {r} : pc'[u] = pc[u] /\ seen'[u] = seen[u]
    BY <1>6 DEF ControlInv, ControlTypes
  <2> QED BY <1>6, <2>1
<1>7. CASE Work(r) \/ GiveUp(r)
  <2>1. End(r) \/ /\ pc' = [pc EXCEPT ![r] = "act"] /\ seen' = [seen EXCEPT ![r] = row] /\ UNCHANGED <<held, kind, ask>>
                  /\ kind[r] \in OwnerKinds => row.status # "deleted"
    BY <1>7 DEF Work, GiveUp, EnterChecked, GrantChecked, OwnerChecked, Enter, Read, Select, Complete,
         ChangeCredentials, ChangeStatus, Delete, OwnerKinds
  <2> QED BY <1>1, <1>6, <2>1
<1> QED BY <1>4, <1>5, <1>7

\* Stamps are given by the present epoch, and epochs only grow.
LEMMA StampsStay ==
  ASSUME ReviewInv, ReviewInv', PastStamps, [Next]_vars
  PROVE  PastStamps'
<1>1. row.epoch \in Nat /\ row'.epoch \in Nat
  BY EpochType DEF ReviewInv, ReviewTypes, Rows
<1>2. ASSUME visits' \subseteq visits, stamp' = stamp, row'.epoch >= row.epoch PROVE PastStamps'
  BY <1>1, <1>2 DEF PastStamps
<1>3. CASE UNCHANGED review
  BY <1>1, <1>2, <1>3 DEF review
<1>4. ASSUME NEW r \in Requests, Enter(r) PROVE PastStamps'
  <2>1. seen[r] = row
    BY <1>4 DEF Enter, ReviewInv, GrantsHold, Grant
  <2>2. PICK v \in Visits : stamp' = [stamp EXCEPT ![v] = seen[r].epoch] /\ visits' = visits \cup {v} /\ row' = row
    BY <1>4 DEF Enter
  <2>3. \A u \in visits' : stamp'[u] = row.epoch \/ (u \in visits /\ stamp'[u] = stamp[u])
    BY <2>1, <2>2 DEF ReviewInv, ReviewTypes
  <2> QED BY <1>1, <2>2, <2>3 DEF PastStamps
<1>5. ASSUME NEW r \in Requests, EnterChecked(r) PROVE PastStamps'
  <2>1. row' = row /\ stamp' = stamp /\ visits' \subseteq visits
    BY <1>5 DEF EnterChecked, Drop
  <2> QED BY <1>1, <1>2, <2>1
<1>6. ASSUME NEW r \in Requests, Select(r) \/ Complete(r) PROVE PastStamps'
  <2>1. row'.epoch = row.epoch /\ UNCHANGED <<visits, stamp>>
    BY <1>6 DEF Select, Complete, ReviewInv, ReviewTypes, Rows
  <2> QED BY <1>1, <1>2, <2>1
<1>7. ASSUME NEW r \in Requests, ChangeCredentials(r) PROVE PastStamps'
  <2>1. seen[r] = row /\ UNCHANGED <<visits, stamp>>
    BY <1>7 DEF ChangeCredentials, ReviewInv, GrantsHold, Grant
  <2>2. row'.epoch = row.epoch \/ row'.epoch = row.epoch + 1
    BY <1>7, <2>1 DEF ChangeCredentials, WithCredentials, NextEpoch, CredentialKinds, ReviewInv, ReviewTypes, Rows
  <2> QED BY <1>1, <1>2, <2>1, <2>2
<1>8. ASSUME NEW r \in Requests, ChangeStatus(r) \/ Delete(r) PROVE PastStamps'
  <2>1. row'.epoch = row.epoch /\ visits' \subseteq visits /\ stamp' = stamp
    BY <1>8 DEF ChangeStatus, Delete, Drop, ReviewInv, ReviewTypes, Rows
  <2> QED BY <1>1, <1>2, <2>1
<1>9. ASSUME NEW v \in Visits, Lapse(v) PROVE PastStamps'
  BY <1>1, <1>2, <1>9 DEF Lapse
<1>10. ASSUME NEW r \in Requests, Arrive(r) \/ Acquire(r) \/ GiveUp(r) \/ GrantChecked(r) \/ OwnerChecked(r) \/ Read(r)
       PROVE  UNCHANGED review
  BY <1>10 DEF Arrive, GuestArrives, OwnerArrives, StatusArrives, Begin, Acquire, GiveUp, GrantChecked, OwnerChecked, Read
<1>11. UNCHANGED vars => UNCHANGED review
  BY DEF vars
<1> QED BY <1>3, <1>4, <1>5, <1>6, <1>7, <1>8, <1>9, <1>10, <1>11 DEF Next, Work

LEMMA AtomicInvStep ==
  ASSUME ReviewInv, ReviewInv', AtomicInv, [Next]_vars
  PROVE  AtomicInv'
<1>1. PastStamps'
  BY StampsStay DEF AtomicInv
<1>2. ASSUME NEW r \in Requests, Arrive(r) \/ Acquire(r) \/ Work(r) \/ GiveUp(r) PROVE AskedStatus' /\ OwnerSees'
  <2>1. ControlInv /\ row \in Rows
    BY DEF ReviewInv, ReviewTypes
  <2> QED BY <1>2, <2>1, RequestSteps DEF AtomicInv, AskedStatus, OwnerSees
<1>3. CASE UNCHANGED <<pc, kind, ask, seen>>
  BY <1>1, <1>3 DEF AtomicInv, AskedStatus, OwnerSees
<1> QED BY <1>1, <1>2, <1>3 DEF AtomicInv, Next, Lapse, vars

-----------------------------------------------------------------------------

\* What the atomic review is made of.
AtomicVars == <<row.status, row.token # 0, visits, Authorized, completed, lapsed, author>>

\* Both count the same way.
LEMMA SameCount == ASSUME NEW set PROVE Atomic!Cardinality(set) = Cardinality(set)
BY DEF Atomic!Cardinality, Cardinality, Atomic!IsFiniteSet, IsFiniteSet

LEMMA SweepIsAtomic ==
  ASSUME ReviewInv, NEW r \in Requests, EnterChecked(r)
  PROVE  Atomic!Next \/ UNCHANGED AtomicVars
<1>1. row' = row /\ stamp' = stamp
  BY DEF EnterChecked
<1>2. CASE UNCHANGED <<visits, completed, lapsed, author>>
  BY <1>1, <1>2 DEF AtomicVars, Authorized
<1>3. ASSUME NEW gone \in SUBSET Reclaimable, Drop(gone) PROVE Atomic!Next
  <2>1. gone \subseteq visits \cap lapsed /\ gone \cap completed = {} /\ \A e \in Events : author[e] \notin gone
    BY DEF Reclaimable
  <2>2. visits' = visits \ gone /\ lapsed' = lapsed \ gone /\ completed' = completed
    BY <1>3, <2>1 DEF Drop
  <2>3. author' = author
    BY <1>3, <2>1 DEF Drop, ReviewInv, ReviewTypes
  <2>4. Authorized' = Authorized \ gone
    BY <1>1, <2>2 DEF Authorized
  <2>5. Atomic!Sweep(gone)
    BY <1>1, <2>1, <2>2, <2>3, <2>4 DEF Atomic!Sweep, Authorized
  <2> QED BY <2>1, <2>5 DEF Atomic!Next
<1> QED BY <1>2, <1>3 DEF EnterChecked

LEMMA GuestIsAtomic ==
  ASSUME ReviewInv, AtomicInv, NEW r \in Requests, Enter(r) \/ Select(r) \/ Complete(r)
  PROVE  Atomic!Next
<1>1. Grant(r) /\ kind[r] \in GuestKinds
  BY DEF ReviewInv, GrantsHold, Enter, Select, Complete, GuestKinds
<1>2. row.token # 0 /\ row.status \in {"shared", "completed"}
  BY <1>1 DEF Grant, Resolves, Open
<1>3. row \in Rows /\ row.epoch \in Nat
  BY EpochType DEF ReviewInv, ReviewTypes
<1>4. CASE Enter(r)
  <2>1. PICK v \in Visits : stamp[v] = -1 /\ stamp' = [stamp EXCEPT ![v] = row.epoch] /\ visits' = visits \cup {v}
    BY <1>1, <1>4 DEF Enter, Grant
  <2>2. UNCHANGED <<row, completed, lapsed, author>> /\ Cardinality(visits) < VisitLimit
    BY <1>1, <1>4 DEF Enter, Grant
  <2>3. v \notin visits
    BY <1>3, <2>1 DEF AtomicInv, PastStamps
  <2>4. Authorized' = Authorized \cup {v}
    <3>1. \A u \in visits : stamp'[u] = stamp[u]
      BY <2>1, <2>3 DEF ReviewInv, ReviewTypes
    <3>2. stamp'[v] = row.epoch
      BY <2>1 DEF ReviewInv, ReviewTypes
    <3> QED BY <2>1, <2>2, <3>1, <3>2 DEF Authorized
  <2>5. row'.token = row.token /\ row'.status = row.status
    BY <2>2
  <2>6. UNCHANGED <<row.status, row.token # 0, completed, lapsed, author>>
    BY <2>2, <2>5
  <2>7. Atomic!Enter(v)
    BY <1>2, <2>1, <2>2, <2>3, <2>4, <2>6, SameCount DEF Atomic!Enter, Authorized
  <2> QED BY <2>7 DEF Atomic!Next
<1>5. CASE Select(r)
  <2>1. PICK e \in Events \ Written : author' = [author EXCEPT ![e] = ask[r].visit]
    BY <1>5 DEF Select
  <2>2. /\ row.status = "shared" /\ ask[r].visit \in visits /\ stamp[ask[r].visit] = row.epoch
        /\ Cardinality(Written) < EventLimit /\ UNCHANGED <<row, visits, stamp, completed, lapsed>>
    BY <1>1, <1>5 DEF Select, Grant
  <2>3. ask[r].visit \in Authorized /\ Authorized' = Authorized /\ ask[r].visit \in Visits
    BY <2>2 DEF Authorized, ReviewInv, ReviewTypes
  <2>4. Atomic!Written = Written
    BY DEF Atomic!Written, Written
  <2>5. row'.token = row.token /\ row'.status = row.status
    BY <2>2
  <2>6. UNCHANGED <<row.status, row.token # 0, visits, Authorized, completed, lapsed>>
    BY <2>2, <2>3, <2>5
  <2>7. e \notin Atomic!Written /\ Atomic!Cardinality(Atomic!Written) < EventLimit
    BY <2>1, <2>2, <2>4, SameCount
  <2>8. Atomic!Select(ask[r].visit, e)
    BY <1>2, <2>1, <2>2, <2>3, <2>6, <2>7 DEF Atomic!Select, Authorized
  <2> QED BY <2>1, <2>3, <2>8 DEF Atomic!Next
<1>6. CASE Complete(r)
  <2>1. /\ row.status = "shared" /\ ask[r].visit \in visits \ completed /\ stamp[ask[r].visit] = row.epoch
        /\ seen[r] = row
    BY <1>1, <1>6 DEF Complete, Grant
  <2>2. /\ completed' = completed \cup {ask[r].visit} /\ UNCHANGED <<visits, stamp, lapsed, author>>
        /\ row' = [row EXCEPT !.status = "completed"]
    BY <1>6, <2>1 DEF Complete
  <2>3. row'.status = "completed" /\ row'.token = row.token /\ row'.epoch = row.epoch
    BY <1>3, <2>2 DEF Rows
  <2>4. Authorized' = Authorized /\ ask[r].visit \in Authorized /\ ask[r].visit \in Visits
    BY <2>1, <2>2, <2>3 DEF Authorized, ReviewInv, ReviewTypes
  <2>5. Atomic!Complete(ask[r].visit)
    BY <1>2, <2>1, <2>2, <2>3, <2>4 DEF Atomic!Complete, Authorized
  <2> QED BY <2>4, <2>5 DEF Atomic!Next
<1> QED BY <1>4, <1>5, <1>6

\* A new epoch is one that no visit has been stamped with.
LEMMA CredentialsAreAtomic ==
  ASSUME ReviewInv, AtomicInv, NEW r \in Requests, ChangeCredentials(r)
  PROVE  Atomic!Next
<1>1. seen[r] = row /\ kind[r] \in CredentialKinds /\ UNCHANGED <<visits, stamp, completed, lapsed, author>>
  BY DEF ChangeCredentials, ReviewInv, GrantsHold, Grant
<1>2. row \in Rows /\ row.epoch \in Nat /\ row.status # "deleted"
  BY <1>1, EpochType DEF ReviewInv, ReviewTypes, AtomicInv, OwnerSees, ChangeCredentials, CredentialKinds, OwnerKinds
<1>3. row' = WithCredentials(r) /\ NextEpoch(r) = row.epoch + 1
  BY <1>1, <1>2 DEF ChangeCredentials, NextEpoch
<1>4. ASSUME row'.epoch = row.epoch + 1 PROVE Authorized' = {}
  BY <1>1, <1>2, <1>4 DEF Authorized, AtomicInv, PastStamps
<1>5. CASE kind[r] = "share"
  <2>1. /\ row'.token # 0 /\ row'.epoch = row.epoch + 1
        /\ row'.status = IF row.status = "draft" THEN "shared" ELSE row.status
    BY <1>1, <1>2, <1>3, <1>5 DEF WithCredentials
  <2>2. Atomic!Share
    BY <1>1, <1>4, <2>1 DEF Atomic!Share, Atomic!Withdraw, Authorized
  <2> QED BY <1>2, <2>2 DEF Atomic!Next
<1>6. CASE kind[r] = "revoke"
  <2>1. /\ row'.token = 0 /\ row'.epoch = row.epoch + 1
        /\ row'.status = IF row.status = "shared" THEN "draft" ELSE row.status
    BY <1>1, <1>2, <1>3, <1>6 DEF WithCredentials
  <2>2. Atomic!Revoke
    BY <1>1, <1>4, <2>1 DEF Atomic!Revoke, Atomic!Withdraw, Authorized
  <2> QED BY <1>2, <2>2 DEF Atomic!Next
<1>7. CASE kind[r] = "password"
  <2>1. row'.token = row.token /\ row'.epoch = row.epoch + 1 /\ row'.status = row.status
    BY <1>1, <1>2, <1>3, <1>7 DEF WithCredentials, Rows
  <2>2. Atomic!Password
    BY <1>1, <1>4, <2>1 DEF Atomic!Password, Atomic!Withdraw, Authorized
  <2> QED BY <1>2, <2>2 DEF Atomic!Next
<1> QED BY <1>1, <1>5, <1>6, <1>7 DEF CredentialKinds

LEMMA OwnerIsAtomic ==
  ASSUME ReviewInv, AtomicInv, NEW r \in Requests, ChangeStatus(r) \/ Delete(r)
  PROVE  Atomic!Next \/ UNCHANGED AtomicVars
<1>1. row \in Rows
  BY DEF ReviewInv, ReviewTypes
<1>2. CASE ChangeStatus(r)
  <2>1. /\ UNCHANGED <<visits, stamp, completed, lapsed, author>> /\ ask[r].target \in {"shared", "completed", "archived"}
        /\ row' = IF row.status = "deleted" THEN row ELSE [row EXCEPT !.status = ask[r].target]
    BY <1>2 DEF ChangeStatus, AtomicInv, AskedStatus
  <2>2. CASE row.status = "deleted"
    BY <2>1, <2>2 DEF AtomicVars, Authorized
  <2>3. CASE row.status # "deleted"
    <3>1. row'.status = ask[r].target /\ row'.token = row.token /\ row'.epoch = row.epoch
      BY <1>1, <2>1, <2>3 DEF Rows
    <3>2. Atomic!ChangeStatus(ask[r].target)
      BY <2>1, <3>1 DEF Atomic!ChangeStatus
    <3> QED BY <2>1, <2>3, <3>2 DEF Atomic!Next
  <2> QED BY <2>2, <2>3
<1>3. CASE Delete(r)
  <2>1. row.status # "deleted"
    BY <1>3 DEF Delete, AtomicInv, OwnerSees, OwnerKinds, ReviewInv, GrantsHold, Grant
  <2>2. row'.status = "deleted" /\ row'.token = 0
    BY <1>1, <1>3 DEF Delete, Rows
  <2>3. visits' = {} /\ completed' = {} /\ lapsed' = {}
    BY <1>3 DEF Delete, Drop, ReviewInv, ReviewTypes
  <2>4. author' = [e \in Events |-> None]
    <3>1. \A e \in Events : author[e] # None => author[e] \in visits
      BY DEF ReviewInv, HistoryWhole, Written
    <3>2. author' = [e \in Events |-> IF author[e] \in visits THEN None ELSE author[e]]
      BY <1>3 DEF Delete, Drop
    <3> QED BY <3>1, <3>2
  <2>5. Authorized' = {}
    BY <2>3 DEF Authorized
  <2>6. Atomic!Delete
    BY <2>2, <2>3, <2>4, <2>5 DEF Atomic!Delete, Authorized
  <2> QED BY <2>1, <2>6 DEF Atomic!Next
<1> QED BY <1>2, <1>3

LEMMA StepIsAtomic ==
  ASSUME ReviewInv, AtomicInv, [Next]_vars
  PROVE  Atomic!Next \/ UNCHANGED AtomicVars
<1>1. UNCHANGED review => UNCHANGED AtomicVars
  BY DEF review, AtomicVars, Authorized
<1>2. ASSUME NEW r \in Requests, Arrive(r) \/ Acquire(r) \/ GiveUp(r) \/ GrantChecked(r) \/ OwnerChecked(r) \/ Read(r)
      PROVE  UNCHANGED review
  BY <1>2 DEF Arrive, GuestArrives, OwnerArrives, StatusArrives, Begin, Acquire, GiveUp, GrantChecked, OwnerChecked, Read
<1>3. ASSUME NEW v \in Visits, Lapse(v) PROVE Atomic!Next
  <2>1. v \in visits /\ lapsed' = lapsed \cup {v} /\ UNCHANGED <<row, visits, stamp, completed, author>>
    BY <1>3 DEF Lapse
  <2>2. Atomic!Expire(v)
    BY <2>1 DEF Atomic!Expire
  <2> QED BY <2>1, <2>2 DEF Atomic!Next
<1>4. ASSUME NEW r \in Requests, Work(r) PROVE Atomic!Next \/ UNCHANGED AtomicVars
  BY <1>1, <1>2, <1>4, SweepIsAtomic, GuestIsAtomic, CredentialsAreAtomic, OwnerIsAtomic DEF Work
<1>5. UNCHANGED vars => UNCHANGED review
  BY DEF vars
<1> QED BY <1>1, <1>2, <1>3, <1>4, <1>5 DEF Next

(* However requests overlap, each does to the review what it would do if   *)
(* it were decided and done in one instant, and a new epoch withdraws      *)
(* every authorization that came before it.                                *)
THEOREM ReviewIsAtomic == Spec => ImplementsAtomicReview
<1>1. Init => AtomicInv /\ Atomic!Init
  <2> SUFFICES ASSUME Init PROVE AtomicInv /\ Atomic!Init
    OBVIOUS
  <2>1. AtomicInv
    BY DEF Init, AtomicInv, PastStamps, AskedStatus, OwnerSees
  <2>2. Atomic!Init
    BY DEF Init, NoRow, Atomic!Init
  <2> QED BY <2>1, <2>2
<1>2. ReviewInv /\ ReviewInv' /\ AtomicInv /\ [Next]_vars => AtomicInv'
  BY AtomicInvStep
<1>3. ReviewInv /\ AtomicInv /\ [Next]_vars => [Atomic!Next]_(Atomic!atomic)
  <2>1. UNCHANGED AtomicVars => UNCHANGED Atomic!atomic
    BY DEF AtomicVars, Authorized, Atomic!atomic
  <2> QED BY <2>1, StepIsAtomic
<1> QED BY <1>1, <1>2, <1>3, ReviewInvariant, PTL DEF Spec, ImplementsAtomicReview, Atomic!Spec
=============================================================================
