---------------------------- MODULE Accounts_proofs ----------------------------
(***************************************************************************)
(* Proofs about Accounts, for any number of requests, emails and limits.   *)
(***************************************************************************)
EXTENDS Accounts, TLAPS

TaskSet ==
  [do : {"none", "setup", "recover", "signup", "status", "delete",
         "limit", "gallery"} \cup SignupKinds,
   at : {"idle", "lock", "check", "existing", "insert", "commit", "act", "write", "count"},
   by : Emails \cup {None}, to : Emails \cup {None},
   id : 0..MaxSignups, new : UserStatuses \cup {"none"}, limit : Limits \cup {0}]

Points == {"lock", "check", "existing", "insert", "commit", "act", "write", "count"}

TablesTyped ==
  /\ status \in [Emails -> UserStatuses \cup {"absent"}]
  /\ password \in [Emails -> 0..MaxSignups]
  /\ limit \in [Emails -> Limits]
  /\ owned \in [Emails -> 0..MaxOwned]
  /\ signup \in [Ids -> [email : Emails \cup {None},
                         state : {"unused", "unverified", "verified", "gone"}]]
  /\ setupDone \in BOOLEAN

LocksTyped ==
  /\ setupLock \in Requests \cup {None}
  /\ userLock \in [Emails -> Requests \cup {None}]
  /\ signupLock \in [Ids -> Requests \cup {None}]
  /\ \A r \in Requests : req[r].at = "idle" =>
       /\ setupLock # r
       /\ \A e \in Emails : userLock[e] # r
       /\ \A i \in Ids : signupLock[i] # r

LEMMA Parts == TypeOK <=> TablesTyped /\ LocksTyped
BY DEF TypeOK, TablesTyped, LocksTyped

(* What a status change and a limit change carry. *)
ArgumentsGiven(task) ==
  /\ task.do = "status" => task.new \in UserStatuses
  /\ task.do = "limit" => task.limit \in Limits

LEMMA Typed == RequestsTyped <=> /\ req \in [Requests -> TaskSet]
                                 /\ \A r \in Requests : ArgumentsGiven(req[r])
BY DEF RequestsTyped, TaskSet, ArgumentsGiven

(* Limits and numbers of galleries are natural numbers. *)
LEMMA Numbers ==
  ASSUME TablesTyped, NEW e \in Emails
  PROVE  limit[e] \in Nat /\ owned[e] \in Nat
<1>1. limit[e] \in Limits /\ owned[e] \in 0..MaxOwned
  BY DEF TablesTyped
<1>2. Limits \subseteq Nat /\ MaxOwned \in Nat
  BY AccountsAssumption
<1>3. limit[e] \in Nat
  BY <1>1, <1>2
<1>4. \A n : n \in 0..MaxOwned => n \in Nat
  BY <1>2
<1>5. owned[e] \in Nat
  BY <1>1, <1>4
<1>6. QED BY <1>3, <1>5

LEMMA Zeros == 0 \in 0..MaxSignups /\ 0 \in 0..MaxOwned
BY AccountsAssumption

LEMMA IdleTask == Idle \in TaskSet /\ Idle.at = "idle" /\ Idle.do = "none"
BY AccountsAssumption DEF Idle, TaskSet

(* A transaction that ends releases its locks and nobody else's. *)
LEMMA FinishStep ==
  ASSUME AccountsInv, NEW r \in Requests, Finish(r)
  PROVE  /\ LocksTyped' /\ RequestsTyped' /\ CountersHoldAccount'
         /\ \A s \in Requests : req'[s].do = "gallery" => req'[s] = req[s] /\ s # r
<1>1. /\ req \in [Requests -> TaskSet] /\ \A s \in Requests : ArgumentsGiven(req[s])
      /\ LocksTyped /\ CountersHoldAccount
  BY Parts, Typed DEF AccountsInv
<1>2. /\ req' \in [Requests -> TaskSet] /\ req'[r] = Idle
      /\ \A s \in Requests \ {r} : req'[s] = req[s]
  BY <1>1, IdleTask DEF Finish
<1>3. RequestsTyped'
  BY <1>1, <1>2, Typed, IdleTask DEF ArgumentsGiven, RequestsTyped, TaskSet
<1>4. /\ \A e \in Emails : userLock'[e] = IF userLock[e] = r THEN None ELSE userLock[e]
      /\ \A i \in Ids : signupLock'[i] = IF signupLock[i] = r THEN None ELSE signupLock[i]
      /\ setupLock' = IF setupLock = r THEN None ELSE setupLock
  BY DEF Finish
<1>5. LocksTyped'
  <2>1. /\ setupLock' \in Requests \cup {None}
        /\ userLock' \in [Emails -> Requests \cup {None}]
        /\ signupLock' \in [Ids -> Requests \cup {None}]
    BY <1>1 DEF LocksTyped, Finish
  <2>2. ASSUME NEW s \in Requests, req'[s].at = "idle"
        PROVE  /\ setupLock' # s
               /\ \A e \in Emails : userLock'[e] # s
               /\ \A i \in Ids : signupLock'[i] # s
    <3>1. None # s
      BY AccountsAssumption
    <3>2. CASE s = r
      BY <3>1, <3>2, <1>4
    <3>3. CASE s # r
      BY <3>1, <3>3, <2>2, <1>1, <1>2, <1>4 DEF LocksTyped
    <3>4. QED BY <3>2, <3>3
  <2>3. QED BY <2>1, <2>2 DEF LocksTyped
<1>6. \A s \in Requests : req'[s].do = "gallery" => req'[s] = req[s] /\ s # r
  BY <1>2, IdleTask
<1>7. CountersHoldAccount'
  BY <1>1, <1>4, <1>6 DEF CountersHoldAccount
<1>8. QED BY <1>3, <1>5, <1>6, <1>7

(* Whoever counted keeps a valid count while the two tables stay. *)
LEMMA CountKept ==
  ASSUME CountNotStale, UNCHANGED <<limit, owned>>,
         \A s \in Requests : req'[s].do = "gallery" /\ req'[s].at = "insert" => req'[s] = req[s]
  PROVE  CountNotStale'
BY DEF CountNotStale, Stands

LEMMA FinishInv ==
  ASSUME AccountsInv, NEW r \in Requests, Finish(r), TablesTyped', UNCHANGED <<limit, owned>>
  PROVE  AccountsInv'
<1>1. CountNotStale'
  BY FinishStep, CountKept DEF AccountsInv
<1>2. TypeOK'
  BY FinishStep, Parts DEF TypeOK, TablesTyped, LocksTyped
<1>3. QED BY <1>1, <1>2, FinishStep DEF AccountsInv

(* A task goes on to its next point, perhaps with a lock more. *)
LEMMA StepInv ==
  ASSUME AccountsInv, NEW r \in Requests, NEW at \in Points,
         req' = [req EXCEPT ![r].at = at], UNCHANGED tables,
         \/ UNCHANGED locks
         \/ setupLock' = r /\ UNCHANGED <<userLock, signupLock>>
         \/ /\ userLock' = [userLock EXCEPT ![req[r].to] = r]
            /\ req[r].to \in Emails /\ userLock[req[r].to] = None
            /\ UNCHANGED <<setupLock, signupLock>>
         \/ signupLock' = [signupLock EXCEPT ![req[r].id] = r] /\ UNCHANGED <<setupLock, userLock>>,
         req[r].do = "gallery" /\ at \in {"count", "insert"} =>
           req[r].to \in Emails /\ userLock'[req[r].to] = r,
         req[r].do = "gallery" /\ at = "insert" =>
           limit[req[r].to] = 0 \/ owned[req[r].to] < limit[req[r].to]
  PROVE  AccountsInv'
<1>1. /\ req \in [Requests -> TaskSet] /\ \A s \in Requests : ArgumentsGiven(req[s])
      /\ TablesTyped /\ LocksTyped /\ CountersHoldAccount /\ CountNotStale
  BY Parts, Typed DEF AccountsInv
<1>2. /\ req' \in [Requests -> TaskSet]
      /\ req'[r].at = at /\ req'[r].do = req[r].do /\ req'[r].to = req[r].to
      /\ \A s \in Requests \ {r} : req'[s] = req[s]
  BY <1>1 DEF TaskSet, Points
<1>3. RequestsTyped'
  BY <1>1, <1>2, Typed, IdleTask DEF ArgumentsGiven, RequestsTyped, TaskSet
<1>4. at # "idle"
  BY DEF Points
<1>5. LocksTyped'
  <2>1. /\ setupLock' \in Requests \cup {None}
        /\ userLock' \in [Emails -> Requests \cup {None}]
        /\ signupLock' \in [Ids -> Requests \cup {None}]
    BY <1>1 DEF LocksTyped, locks
  <2>2. ASSUME NEW s \in Requests, req'[s].at = "idle"
        PROVE  /\ setupLock' # s
               /\ \A e \in Emails : userLock'[e] # s
               /\ \A i \in Ids : signupLock'[i] # s
    <3>1. s # r /\ req[s].at = "idle"
      BY <1>2, <1>4, <2>2
    <3>2. /\ setupLock # s
          /\ \A e \in Emails : userLock[e] # s
          /\ \A i \in Ids : signupLock[i] # s
      BY <3>1, <1>1 DEF LocksTyped
    <3>3. QED BY <3>1, <3>2, <1>1 DEF LocksTyped, locks
  <2>3. QED BY <2>1, <2>2 DEF LocksTyped
<1>6. TablesTyped'
  BY <1>1 DEF TablesTyped, tables
<1>7. CountersHoldAccount'
  <2>1. SUFFICES ASSUME NEW s \in Requests, req'[s].do = "gallery"
                 PROVE  /\ req'[s].to \in Emails
                        /\ req'[s].at \in {"count", "insert"} => userLock'[req'[s].to] = s
    BY DEF CountersHoldAccount
  <2>2. CASE s = r
    BY <1>1, <1>2, <2>1, <2>2 DEF CountersHoldAccount
  <2>3. CASE s # r
    <3>1. /\ req'[s] = req[s] /\ req[s].to \in Emails
          /\ req[s].at \in {"count", "insert"} => userLock[req[s].to] = s
      BY <1>1, <1>2, <2>1, <2>3 DEF CountersHoldAccount
    <3>2. None # s
      BY AccountsAssumption
    <3>3. QED BY <3>1, <3>2, <1>1 DEF LocksTyped, locks
  <2>4. QED BY <2>2, <2>3
<1>8. CountNotStale'
  <2>1. SUFFICES ASSUME NEW s \in Requests, req'[s].do = "gallery", req'[s].at = "insert"
                 PROVE  limit'[req'[s].to] = 0 \/ owned'[req'[s].to] < limit'[req'[s].to]
    BY DEF CountNotStale, Stands
  <2>2. CASE s = r
    BY <1>2, <2>1, <2>2 DEF tables
  <2>3. CASE s # r
    BY <1>1, <1>2, <2>1, <2>3 DEF tables, CountNotStale, Stands
  <2>4. QED BY <2>2, <2>3
<1>9. QED BY <1>3, <1>5, <1>6, <1>7, <1>8, Parts DEF AccountsInv, TypeOK, TablesTyped, LocksTyped

LEMMA BeginInv ==
  ASSUME AccountsInv, NEW r \in Requests, NEW task \in TaskSet, Begin(r, task),
         task.at # "idle", ArgumentsGiven(task), task.do = "gallery" => task.at = "lock" /\ task.to \in Emails
  PROVE  AccountsInv'
<1>1. /\ req \in [Requests -> TaskSet] /\ \A s \in Requests : ArgumentsGiven(req[s])
      /\ LocksTyped /\ TablesTyped /\ CountersHoldAccount /\ CountNotStale
  BY Parts, Typed DEF AccountsInv
<1>2. /\ req' \in [Requests -> TaskSet] /\ req'[r] = task
      /\ \A s \in Requests \ {r} : req'[s] = req[s]
      /\ UNCHANGED <<tables, locks>>
  BY <1>1 DEF Begin
<1>3. RequestsTyped'
  BY <1>1, <1>2, Typed, IdleTask DEF ArgumentsGiven, RequestsTyped, TaskSet
<1>4. TablesTyped'
  BY <1>1, <1>2 DEF TablesTyped, tables
<1>5. LocksTyped'
  BY <1>1, <1>2 DEF LocksTyped, locks
<1>6. CountersHoldAccount'
  BY <1>1, <1>2 DEF CountersHoldAccount, locks
<1>7. CountNotStale'
  BY <1>1, <1>2 DEF CountNotStale, Stands, tables
<1>8. QED BY <1>3, <1>4, <1>5, <1>6, <1>7, Parts DEF AccountsInv, TypeOK, TablesTyped, LocksTyped

LEMMA ArriveInv ==
  ASSUME AccountsInv, NEW r \in Requests, Arrive(r)
  PROVE  AccountsInv'
<1>a. PICK e \in Emails :
        \/ \E k \in {"setup", "recover"} : SetupArrives(r, k, e)
        \/ SignupArrives(r, e)
        \/ SlotArrives(r, e)
        \/ \E k \in SignupKinds, i \in Ids : SignupNamed(r, k, IF k = "verify" THEN None ELSE e, i)
        \/ \E a \in Emails : \/ \E new \in UserStatuses : AdminArrives(r, "status", a, e, new, 0)
                             \/ AdminArrives(r, "delete", a, e, "none", 0)
                             \/ \E l \in Limits : AdminArrives(r, "limit", a, e, "none", l)
  BY DEF Arrive
<1>b. Ids \subseteq 0..MaxSignups
  BY AccountsAssumption DEF Ids
<1>1. ASSUME NEW k \in {"setup", "recover"}, SetupArrives(r, k, e) PROVE AccountsInv'
  <2> DEFINE task == [Idle EXCEPT !.do = k, !.at = "lock", !.to = e]
  <2>1. task \in TaskSet /\ task.at # "idle" /\ task.do # "gallery" /\ ArgumentsGiven(task)
    BY IdleTask DEF TaskSet, ArgumentsGiven, SignupKinds
  <2>2. Begin(r, task)
    BY <1>1 DEF SetupArrives
  <2> HIDE DEF task
  <2>3. QED BY <2>1, <2>2, BeginInv
<1>2. CASE SignupArrives(r, e)
  <2> DEFINE task == [Idle EXCEPT !.do = "signup", !.at = "existing", !.to = e]
  <2>1. task \in TaskSet /\ task.at # "idle" /\ task.do # "gallery" /\ ArgumentsGiven(task)
    BY IdleTask DEF TaskSet, ArgumentsGiven, SignupKinds
  <2>2. Begin(r, task)
    BY <1>2 DEF SignupArrives
  <2> HIDE DEF task
  <2>3. QED BY <2>1, <2>2, BeginInv
<1>3. CASE SlotArrives(r, e)
  <2> DEFINE task == [Idle EXCEPT !.do = "gallery", !.at = "lock", !.to = e]
  <2>1. task \in TaskSet /\ task.at = "lock" /\ task.to \in Emails /\ ArgumentsGiven(task)
    BY IdleTask DEF TaskSet, ArgumentsGiven, SignupKinds
  <2>2. Begin(r, task)
    BY <1>3 DEF SlotArrives
  <2> HIDE DEF task
  <2>3. QED BY <2>1, <2>2, BeginInv
<1>4. ASSUME NEW k \in SignupKinds, NEW i \in Ids, NEW a \in Emails \cup {None}, SignupNamed(r, k, a, i)
      PROVE  AccountsInv'
  <2> DEFINE task == [Idle EXCEPT !.do = k, !.at = "lock", !.by = a, !.id = i]
  <2>1. task \in TaskSet /\ task.at # "idle" /\ task.do # "gallery" /\ ArgumentsGiven(task)
    BY <1>b, AccountsAssumption DEF TaskSet, Idle, ArgumentsGiven, SignupKinds
  <2>2. Begin(r, task)
    BY <1>4 DEF SignupNamed
  <2> HIDE DEF task
  <2>3. QED BY <2>1, <2>2, BeginInv
<1>5. ASSUME NEW k \in {"status", "delete", "limit"}, NEW a \in Emails,
             NEW new \in UserStatuses \cup {"none"}, NEW l \in Limits \cup {0},
             k = "status" => new \in UserStatuses, k = "limit" => l \in Limits,
             AdminArrives(r, k, a, e, new, l)
      PROVE  AccountsInv'
  <2> DEFINE task == [Idle EXCEPT !.do = k, !.at = IF k = "limit" THEN "write" ELSE "check",
                                  !.by = a, !.to = e, !.new = new, !.limit = l]
  <2>1. task \in TaskSet /\ task.at # "idle" /\ task.do # "gallery" /\ ArgumentsGiven(task)
    BY <1>5, IdleTask DEF TaskSet, ArgumentsGiven, SignupKinds
  <2>2. Begin(r, task)
    BY <1>5 DEF AdminArrives
  <2> HIDE DEF task
  <2>3. QED BY <2>1, <2>2, BeginInv
<1>6. CASE \E k \in SignupKinds, i \in Ids : SignupNamed(r, k, IF k = "verify" THEN None ELSE e, i)
  <2>1. PICK k \in SignupKinds, i \in Ids : SignupNamed(r, k, IF k = "verify" THEN None ELSE e, i)
    BY <1>6
  <2>2. (IF k = "verify" THEN None ELSE e) \in Emails \cup {None}
    OBVIOUS
  <2>3. QED BY <2>1, <2>2, <1>4
<1>7. CASE \E a \in Emails : \/ \E new \in UserStatuses : AdminArrives(r, "status", a, e, new, 0)
                             \/ AdminArrives(r, "delete", a, e, "none", 0)
                             \/ \E l \in Limits : AdminArrives(r, "limit", a, e, "none", l)
  BY <1>5, <1>7
<1>8. QED BY <1>a, <1>1, <1>2, <1>3, <1>6, <1>7

(* Steps that end a transaction and leave limits and galleries alone. *)
LEMMA EndingInv ==
  ASSUME AccountsInv, NEW r \in Requests,
         \/ AdminCommitted(r) \/ SignupInserted(r) \/ Verified(r) \/ Approved(r) \/ Rejected(r)
         \/ StatusWritten(r) \/ GiveUp(r)
  PROVE  AccountsInv'
<1>a. /\ TablesTyped /\ req \in [Requests -> TaskSet]
      /\ \A s \in Requests : ArgumentsGiven(req[s])
  BY Parts, Typed DEF AccountsInv
<1>1. CASE AdminCommitted(r)
  <2>1. TablesTyped'
    BY <1>1, <1>a DEF AdminCommitted, TablesTyped, UserStatuses
  <2>2. QED BY <1>1, <2>1, FinishInv DEF AdminCommitted
<1>2. CASE SignupInserted(r)
  <2>1. TablesTyped'
    <3>1. CASE UNCHANGED signup
      BY <1>2, <1>a, <3>1 DEF SignupInserted, TablesTyped
    <3>2. ASSUME NEW i \in Ids,
                 signup' = [signup EXCEPT ![i] = [email |-> req[r].to, state |-> "unverified"]]
          PROVE  TablesTyped'
      <4>1. req[r].to \in Emails \cup {None}
        BY <1>a DEF TaskSet
      <4>2. [email |-> req[r].to, state |-> "unverified"]
              \in [email : Emails \cup {None}, state : {"unused", "unverified", "verified", "gone"}]
        BY <4>1
      <4>3. QED BY <1>2, <1>a, <3>2, <4>2 DEF SignupInserted, TablesTyped
    <3>3. QED BY <1>2, <3>1, <3>2 DEF SignupInserted
  <2>2. QED BY <1>2, <2>1, FinishInv DEF SignupInserted
<1>3. CASE Verified(r)
  <2>1. TablesTyped'
    BY <1>3, <1>a DEF Verified, TablesTyped
  <2>2. QED BY <1>3, <2>1, FinishInv DEF Verified
<1>4. CASE Approved(r)
  <2>1. TablesTyped'
    <3>1. req[r].id \in 0..MaxSignups
      BY <1>a DEF TaskSet
    <3>2. status' \in [Emails -> UserStatuses \cup {"absent"}]
      BY <1>4, <1>a DEF Approved, InsertUnlessPresent, TablesTyped, UserStatuses
    <3>3. password' \in [Emails -> 0..MaxSignups]
      BY <1>4, <1>a, <3>1 DEF Approved, InsertUnlessPresent, TablesTyped
    <3>4. signup' \in [Ids -> [email : Emails \cup {None},
                               state : {"unused", "unverified", "verified", "gone"}]]
      BY <1>4, <1>a DEF Approved, TablesTyped
    <3>5. QED BY <1>4, <1>a, <3>2, <3>3, <3>4 DEF Approved, TablesTyped
  <2>2. QED BY <1>4, <2>1, FinishInv DEF Approved
<1>5. CASE Rejected(r)
  <2>1. TablesTyped'
    BY <1>5, <1>a DEF Rejected, TablesTyped
  <2>2. QED BY <1>5, <2>1, FinishInv DEF Rejected
<1>6. CASE StatusWritten(r)
  <2>1. req[r].new \in UserStatuses
    BY <1>6, <1>a DEF StatusWritten, Stands, ArgumentsGiven
  <2>2. TablesTyped'
    BY <1>6, <1>a, <2>1 DEF StatusWritten, TablesTyped
  <2>3. QED BY <1>6, <2>2, FinishInv DEF StatusWritten
<1>7. CASE GiveUp(r)
  <2>1. TablesTyped'
    BY <1>7, <1>a DEF GiveUp, TablesTyped, tables
  <2>2. QED BY <1>7, <2>1, FinishInv DEF GiveUp, tables
<1>8. QED BY <1>1, <1>2, <1>3, <1>4, <1>5, <1>6, <1>7

LEMMA StandsFacts ==
  ASSUME RequestsTyped, NEW r \in Requests, NEW kinds, NEW at, Stands(r, kinds, at)
  PROVE  /\ req[r] \in TaskSet /\ req[r].do \in kinds /\ req[r].at = at
BY Typed DEF Stands

(* Steps that take a lock, go on, or refuse. *)
LEMMA GoingInv ==
  ASSUME AccountsInv, NEW r \in Requests,
         \/ SetupLocks(r) \/ SetupChecked(r) \/ AdminInserted(r)
         \/ SignupLooked(r) \/ SignupLocks(r)
         \/ TargetChecked(r) \/ SlotLocks(r) \/ SlotCounted(r)
  PROVE  AccountsInv'
<1>a. TablesTyped /\ LocksTyped /\ RequestsTyped /\ CountersHoldAccount
  BY Parts DEF AccountsInv
<1>b. ASSUME UNCHANGED tables, Finish(r) PROVE AccountsInv'
  <2>1. TablesTyped' /\ UNCHANGED <<limit, owned>>
    BY <1>a, <1>b DEF TablesTyped, tables
  <2>2. QED BY <1>b, <2>1, FinishInv
<1>c. ASSUME UNCHANGED tables, NEW at \in Points, Goto(r, at), req[r].do # "gallery" PROVE AccountsInv'
  BY <1>c, StepInv DEF Goto
<1>1. CASE SetupLocks(r)
  <2>1. req[r].do # "gallery" /\ "check" \in Points
    BY <1>1, <1>a, StandsFacts DEF SetupLocks, Points, Stands
  <2>2. QED BY <1>1, <2>1, StepInv DEF SetupLocks, TakeClaim
<1>2. CASE SetupChecked(r)
  <2>1. req[r].do # "gallery" /\ "insert" \in Points
    BY <1>2 DEF SetupChecked, Points, Stands
  <2>2. CASE Unclaimed(req[r].do)
    BY <1>2, <2>1, <2>2, <1>c DEF SetupChecked, tables
  <2>3. CASE ~Unclaimed(req[r].do)
    <3>1. TablesTyped' /\ UNCHANGED <<limit, owned>>
      BY <1>2, <2>3, <1>a DEF SetupChecked, TablesTyped
    <3>2. Finish(r)
      BY <1>2, <2>3 DEF SetupChecked
    <3>3. QED BY <3>1, <3>2, FinishInv
  <2>4. QED BY <2>2, <2>3
<1>3. CASE SignupLooked(r)
  <2>1. req[r].do # "gallery" /\ "insert" \in Points
    BY <1>3 DEF SignupLooked, Points, Stands
  <2>2. QED BY <1>3, <2>1, <1>b, <1>c DEF SignupLooked
<1>4. CASE SignupLocks(r)
  <2>1. req[r].do # "gallery" /\ "act" \in Points
    BY <1>4 DEF SignupLocks, SignupKinds, Points, Stands
  <2>2. CASE signup[req[r].id].state = "gone"
    BY <1>4, <2>2, <1>b DEF SignupLocks
  <2>3. CASE signup[req[r].id].state # "gone"
    BY <1>4, <2>1, <2>3, StepInv DEF SignupLocks
  <2>4. QED BY <2>2, <2>3
<1>5. CASE TargetChecked(r)
  <2>1. req[r].do # "gallery" /\ "write" \in Points
    BY <1>5 DEF TargetChecked, Points, Stands
  <2>2. UNCHANGED tables /\ (Finish(r) \/ Goto(r, "write"))
    BY <1>5 DEF TargetChecked
  <2>3. QED BY <2>1, <2>2, <1>b, <1>c
<1>6. CASE SlotLocks(r)
  <2>1. req[r].to \in Emails /\ "count" \in Points
    BY <1>6, <1>a DEF SlotLocks, Stands, CountersHoldAccount, Points
  <2>2. /\ UNCHANGED tables /\ userLock[req[r].to] = None
        /\ req' = [req EXCEPT ![r].at = "count"]
        /\ userLock' = [userLock EXCEPT ![req[r].to] = r]
        /\ UNCHANGED <<setupLock, signupLock>>
    BY <1>6 DEF SlotLocks, LockAccount, CanWriteUser
  <2>3. userLock'[req[r].to] = r
    BY <2>1, <2>2, <1>a DEF LocksTyped
  <2>4. QED BY <2>1, <2>2, <2>3, StepInv
<1>7. CASE SlotCounted(r)
  <2>1. /\ req[r].to \in Emails /\ userLock[req[r].to] = r /\ "insert" \in Points
    BY <1>7, <1>a DEF SlotCounted, Stands, CountersHoldAccount, Points
  <2>2. UNCHANGED tables
    BY <1>7 DEF SlotCounted
  <2>3. CASE limit[req[r].to] > 0 /\ owned[req[r].to] >= limit[req[r].to]
    BY <1>7, <2>2, <2>3, <1>b DEF SlotCounted
  <2>4. CASE ~(limit[req[r].to] > 0 /\ owned[req[r].to] >= limit[req[r].to])
    <3>1. Goto(r, "insert")
      BY <1>7, <2>4 DEF SlotCounted
    <3>2. limit[req[r].to] \in Nat /\ owned[req[r].to] \in Nat
      BY <2>1, <1>a, Numbers
    <3>3. limit[req[r].to] = 0 \/ owned[req[r].to] < limit[req[r].to]
      BY <2>4, <3>2
    <3>4. QED BY <2>1, <2>2, <3>1, <3>3, StepInv DEF Goto, locks
  <2>5. QED BY <2>3, <2>4
<1>8. CASE AdminInserted(r)
  <2>1. req[r].do # "gallery" /\ "commit" \in Points
    BY <1>8, <1>a, StandsFacts DEF AdminInserted, Points, Stands
  <2>2. QED BY <1>8, <2>1, StepInv DEF AdminInserted, TakeClaim
<1>9. QED BY <1>1, <1>2, <1>3, <1>4, <1>5, <1>6, <1>7, <1>8

(* Steps that change limits or galleries: none of them touches an account  *)
(* whose galleries somebody counted, except to insert or to remove one.    *)
LEMMA CountsInv ==
  ASSUME AccountsInv, NEW r \in Requests,
         AccountDeleted(r) \/ LimitWritten(r) \/ GalleryInserted(r)
  PROVE  AccountsInv'
<1>a. /\ TablesTyped /\ LocksTyped /\ RequestsTyped /\ CountersHoldAccount /\ CountNotStale
      /\ req[r] \in TaskSet /\ ArgumentsGiven(req[r])
  BY Parts, Typed DEF AccountsInv
<1>b. Finish(r)
  BY DEF AccountDeleted, LimitWritten, GalleryInserted
<1>c. InitialLimit \in Limits /\ Limits \subseteq Nat /\ MaxOwned \in Nat
  BY AccountsAssumption DEF InitialLimit
<1>d. ASSUME TablesTyped', CountNotStale' PROVE AccountsInv'
  <2>1. TypeOK'
    BY <1>b, <1>d, FinishStep, Parts DEF TypeOK, TablesTyped, LocksTyped
  <2>2. QED BY <1>b, <1>d, <2>1, FinishStep DEF AccountsInv
<1>e. ASSUME NEW s \in Requests, Stands(s, {"gallery"}, "insert")'
      PROVE  /\ s # r /\ req'[s] = req[s] /\ Stands(s, {"gallery"}, "insert")
             /\ req[s].to \in Emails /\ userLock[req[s].to] = s /\ s # None
             /\ limit[req[s].to] = 0 \/ owned[req[s].to] < limit[req[s].to]
  <2>1. s # r /\ req'[s] = req[s] /\ Stands(s, {"gallery"}, "insert")
    BY <1>b, <1>e, FinishStep DEF Stands
  <2>2. QED BY <2>1, <1>a, AccountsAssumption DEF CountersHoldAccount, CountNotStale, Stands
<1>1. ASSUME userLock[req[r].to] = None,
             \A e \in Emails : e # req[r].to => limit'[e] = limit[e] /\ owned'[e] = owned[e]
      PROVE  CountNotStale'
  <2>1. SUFFICES ASSUME NEW s \in Requests, Stands(s, {"gallery"}, "insert")'
                 PROVE  limit'[req'[s].to] = 0 \/ owned'[req'[s].to] < limit'[req'[s].to]
    BY DEF CountNotStale
  <2>2. req[s].to # req[r].to
    BY <1>1, <1>e, <2>1
  <2>3. QED BY <1>1, <1>e, <2>1, <2>2
<1>2. CASE AccountDeleted(r)
  <2>1. TablesTyped'
    BY <1>2, <1>a, <1>c, Zeros DEF AccountDeleted, TablesTyped, UserStatuses
  <2>2. CountNotStale'
    BY <1>2, <1>1, <1>a DEF AccountDeleted, CanWriteUser, TablesTyped
  <2>3. QED BY <2>1, <2>2, <1>d
<1>3. CASE LimitWritten(r)
  <2>1. req[r].limit \in Limits
    BY <1>3, <1>a DEF LimitWritten, Stands, ArgumentsGiven
  <2>2. TablesTyped'
    BY <1>3, <1>a, <2>1 DEF LimitWritten, TablesTyped
  <2>3. CountNotStale'
    BY <1>3, <1>1, <1>a DEF LimitWritten, CanWriteUser, TablesTyped
  <2>4. QED BY <2>2, <2>3, <1>d
<1>4. CASE GalleryInserted(r)
  <2>1. /\ owned' = [owned EXCEPT ![req[r].to] = @ + 1] /\ owned[req[r].to] < MaxOwned
        /\ UNCHANGED <<status, password, limit, signup, setupDone>>
    BY <1>4 DEF GalleryInserted
  <2>2. req[r].to \in Emails /\ userLock[req[r].to] = r
    BY <1>4, <1>a DEF GalleryInserted, Stands, CountersHoldAccount
  <2>3. TablesTyped'
    <3>1. owned[req[r].to] + 1 \in 0..MaxOwned
      BY <2>1, <2>2, <1>a, <1>c DEF TablesTyped
    <3>2. QED BY <2>1, <3>1, <1>a DEF TablesTyped
  <2>4. CountNotStale'
    <3>1. SUFFICES ASSUME NEW s \in Requests, Stands(s, {"gallery"}, "insert")'
                   PROVE  limit'[req'[s].to] = 0 \/ owned'[req'[s].to] < limit'[req'[s].to]
      BY DEF CountNotStale
    <3>2. req[s].to # req[r].to
      BY <2>2, <1>e, <3>1
    <3>3. owned'[req[s].to] = owned[req[s].to]
      BY <3>2, <2>1, <1>e, <3>1, <1>a DEF TablesTyped
    <3>4. QED BY <3>3, <2>1, <1>e, <3>1
  <2>5. QED BY <2>3, <2>4, <1>d
<1>5. QED BY <1>2, <1>3, <1>4

LEMMA DeletedInv ==
  ASSUME AccountsInv, NEW e \in Emails, GalleryDeleted(e)
  PROVE  AccountsInv'
<1>1. TablesTyped /\ LocksTyped /\ RequestsTyped /\ CountersHoldAccount /\ CountNotStale
  BY Parts DEF AccountsInv
<1>2. MaxOwned \in Nat /\ Limits \subseteq Nat
  BY AccountsAssumption
<1>3. /\ owned[e] > 0 /\ owned' = [owned EXCEPT ![e] = @ - 1]
      /\ UNCHANGED <<status, password, limit, signup, setupDone, setupLock, userLock, signupLock, req>>
  BY DEF GalleryDeleted, locks
<1>4. TablesTyped'
  <2>1. owned[e] - 1 \in 0..MaxOwned
    BY <1>1, <1>2, <1>3 DEF TablesTyped
  <2>2. QED BY <1>1, <1>3, <2>1 DEF TablesTyped
<1>5. LocksTyped' /\ RequestsTyped' /\ CountersHoldAccount'
  BY <1>1, <1>3 DEF LocksTyped, RequestsTyped, CountersHoldAccount
<1>6. CountNotStale'
  <2>1. SUFFICES ASSUME NEW s \in Requests, Stands(s, {"gallery"}, "insert")'
                 PROVE  limit'[req'[s].to] = 0 \/ owned'[req'[s].to] < limit'[req'[s].to]
    BY DEF CountNotStale
  <2>2. /\ req'[s] = req[s] /\ req[s].to \in Emails
        /\ limit[req[s].to] = 0 \/ owned[req[s].to] < limit[req[s].to]
    BY <2>1, <1>1, <1>3 DEF CountersHoldAccount, CountNotStale, Stands
  <2>3. owned[req[s].to] \in Nat /\ limit[req[s].to] \in Nat
    BY <2>2, <1>1, Numbers
  <2>4. owned'[req[s].to] = IF req[s].to = e THEN owned[req[s].to] - 1 ELSE owned[req[s].to]
    BY <2>2, <1>1, <1>3 DEF TablesTyped
  <2>5. QED BY <2>2, <2>3, <2>4, <1>3
<1>7. QED BY <1>4, <1>5, <1>6, Parts DEF AccountsInv, TypeOK, TablesTyped, LocksTyped

LEMMA InvInit == Init => AccountsInv
<1>1. SUFFICES ASSUME Init PROVE AccountsInv
  OBVIOUS
<1>2. MaxSignups \in Nat /\ MaxOwned \in Nat /\ InitialLimit \in Limits
  BY AccountsAssumption DEF InitialLimit
<1>3. TablesTyped
  <2>1. Unused \in [email : Emails \cup {None},
                    state : {"unused", "unverified", "verified", "gone"}]
    BY DEF Unused
  <2>2. QED BY <1>1, <1>2, <2>1, Zeros DEF Init, TablesTyped
<1>4. LocksTyped
  BY <1>1, AccountsAssumption DEF Init, LocksTyped
<1>5. RequestsTyped
  BY <1>1, IdleTask, Typed DEF Init, ArgumentsGiven
<1>6. CountersHoldAccount /\ CountNotStale
  BY <1>1, IdleTask DEF Init, CountersHoldAccount, CountNotStale, Stands
<1>7. QED BY <1>3, <1>4, <1>5, <1>6, Parts DEF AccountsInv

LEMMA InvStep == AccountsInv /\ [Next]_vars => AccountsInv'
<1>1. SUFFICES ASSUME AccountsInv, [Next]_vars PROVE AccountsInv'
  OBVIOUS
<1>2. ASSUME NEW r \in Requests, Arrive(r) PROVE AccountsInv'
  BY <1>1, <1>2, ArriveInv
<1>3. ASSUME NEW r \in Requests, Work(r) PROVE AccountsInv'
  BY <1>1, <1>3, EndingInv, GoingInv, CountsInv DEF Work
<1>4. ASSUME NEW r \in Requests, GiveUp(r) PROVE AccountsInv'
  BY <1>1, <1>4, EndingInv
<1>5. ASSUME NEW e \in Emails, GalleryDeleted(e) PROVE AccountsInv'
  BY <1>1, <1>5, DeletedInv
<1>6. CASE UNCHANGED vars
  BY <1>1, <1>6 DEF vars, tables, locks, AccountsInv, TypeOK, RequestsTyped,
                    CountersHoldAccount, CountNotStale, Stands
<1>7. QED BY <1>1, <1>2, <1>3, <1>4, <1>5, <1>6 DEF Next

(* Every variable of Accounts keeps its type, and a request that has ended *)
(* holds no row lock.  Sessions of get_db.                                 *)
THEOREM TypeCorrect == Spec => []TypeOK
<1>1. AccountsInv => TypeOK
  BY DEF AccountsInv
<1>2. QED BY <1>1, InvInit, InvStep, PTL DEF Spec

(* The inductive invariant: a request that counted galleries holds the     *)
(* account's row until it ends, and its count is not stale.                *)
(* reserve_gallery_slot.                                                   *)
THEOREM AccountsInvariant == Spec => []AccountsInv
<1>1. QED BY InvInit, InvStep, PTL DEF Spec

(* Which steps touch the number of galleries, and how. *)
LEMMA OwnedStep ==
  ASSUME AccountsInv, [Next]_vars
  PROVE  \/ UNCHANGED owned
         \/ \E r \in Requests : AccountDeleted(r) \/ GalleryInserted(r)
         \/ \E e \in Emails : GalleryDeleted(e)
<1>1. CASE UNCHANGED vars
  BY <1>1 DEF vars, tables
<1>2. ASSUME NEW r \in Requests, Arrive(r) PROVE UNCHANGED owned
  BY <1>2 DEF Arrive, SetupArrives, SignupArrives, SlotArrives, SignupNamed, AdminArrives, Begin, tables
<1>3. ASSUME NEW r \in Requests, Work(r) PROVE UNCHANGED owned \/ AccountDeleted(r) \/ GalleryInserted(r)
  BY <1>3 DEF Work, SetupLocks, SetupChecked, AdminInserted, AdminCommitted, SignupLooked, SignupInserted, SignupLocks,
              Verified, Approved, Rejected, TargetChecked, StatusWritten, LimitWritten, SlotLocks,
              SlotCounted, tables
<1>4. ASSUME NEW r \in Requests, GiveUp(r) PROVE UNCHANGED owned
  BY <1>4 DEF GiveUp, tables
<1>5. QED BY <1>1, <1>2, <1>3, <1>4 DEF Next

(* However creations, deletions and changes of the limit interleave, an    *)
(* insertion never overruns the limit in force at that instant.            *)
(* reserve_gallery_slot, set_gallery_limit_override.                       *)
THEOREM SlotsKept == Spec => SlotsWithinLimit
<1>1. ASSUME AccountsInv, [Next]_vars, NEW e \in Emails, owned'[e] > owned[e]
      PROVE  limit[e] = 0 \/ owned'[e] <= limit[e]
  <2>1. TablesTyped /\ TablesTyped'
    <3>1. AccountsInv'
      BY <1>1, InvStep
    <3>2. QED BY <1>1, <3>1, Parts DEF AccountsInv, TypeOK, TablesTyped
  <2>2. owned[e] \in Nat /\ owned'[e] \in Nat /\ limit[e] \in Nat
    <3>1. owned'[e] \in 0..MaxOwned
      BY <2>1 DEF TablesTyped
    <3>2. QED BY <2>1, <3>1, Numbers, AccountsAssumption
  <2>3. CASE UNCHANGED owned
    BY <1>1, <2>2, <2>3
  <2>4. ASSUME NEW r \in Requests, AccountDeleted(r) PROVE FALSE
    <3>1. owned'[e] = 0 \/ owned'[e] = owned[e]
      BY <2>1, <2>4 DEF AccountDeleted, TablesTyped
    <3>2. QED BY <1>1, <2>2, <3>1
  <2>5. ASSUME NEW r \in Requests, GalleryInserted(r) PROVE limit[e] = 0 \/ owned'[e] <= limit[e]
    <3>1. owned'[e] = IF e = req[r].to THEN owned[e] + 1 ELSE owned[e]
      BY <2>1, <2>5 DEF GalleryInserted, TablesTyped
    <3>2. limit[req[r].to] = 0 \/ owned[req[r].to] < limit[req[r].to]
      BY <1>1, <2>5 DEF GalleryInserted, AccountsInv, CountNotStale
    <3>3. QED BY <1>1, <2>2, <3>1, <3>2
  <2>6. ASSUME NEW d \in Emails, GalleryDeleted(d) PROVE FALSE
    <3>1. owned'[e] = IF e = d THEN owned[e] - 1 ELSE owned[e]
      BY <2>1, <2>6 DEF GalleryDeleted, TablesTyped
    <3>2. QED BY <1>1, <2>2, <3>1
  <2>7. QED BY <1>1, <2>3, <2>4, <2>5, <2>6, OwnedStep
<1>2. AccountsInv /\ [Next]_vars =>
        \A e \in Emails : owned'[e] > owned[e] => limit[e] = 0 \/ owned'[e] <= limit[e]
  BY <1>1
<1>3. QED BY <1>2, InvInit, InvStep, PTL DEF Spec, SlotsWithinLimit

(* An account gets a signup's password only when it is created, and from   *)
(* the verified signup of its own email.  approve_pending_signup.          *)
THEOREM ApprovalsFromVerified == Spec => AccountsFromVerified
<1> DEFINE Honest == \A e \in Emails : password'[e] # password[e] /\ password'[e] # 0 =>
              /\ status[e] = "absent"
              /\ signup[password'[e]] = [email |-> e, state |-> "verified"]
<1>1. ASSUME AccountsInv, [Next]_vars, UNCHANGED password PROVE Honest
  BY <1>1
<1>2. ASSUME AccountsInv, NEW r \in Requests, AccountDeleted(r) PROVE Honest
  <2>1. TablesTyped
    BY <1>2, Parts DEF AccountsInv
  <2>2. \A e \in Emails : password'[e] = 0 \/ password'[e] = password[e]
    BY <1>2, <2>1 DEF AccountDeleted, TablesTyped
  <2>3. QED BY <2>2
<1>3. ASSUME AccountsInv, NEW r \in Requests, Approved(r) PROVE Honest
  <2>1. TablesTyped /\ RequestsTyped /\ req[r].do = "approve"
    BY <1>3, Parts DEF AccountsInv, Approved, Stands
  <2>2. CASE signup[req[r].id].state = "verified" /\ req[r].id \in Ids
    <3> DEFINE i == req[r].id
    <3>1. /\ password' = [password EXCEPT ![signup[i].email] =
                            IF status[signup[i].email] = "absent" THEN i ELSE @]
      BY <1>3, <2>2 DEF Approved, InsertUnlessPresent
    <3>2. signup[i] \in [email : Emails \cup {None},
                         state : {"unused", "unverified", "verified", "gone"}]
      BY <2>1, <2>2 DEF TablesTyped
    <3>3. signup[i] = [email |-> signup[i].email, state |-> "verified"]
      BY <2>2, <3>2
    <3>4. ASSUME NEW e \in Emails, password'[e] # password[e]
          PROVE  /\ status[e] = "absent" /\ e = signup[i].email /\ password'[e] = i
      BY <3>1, <3>4, <2>1 DEF TablesTyped
    <3>5. QED BY <3>3, <3>4
  <2>3. CASE ~(signup[req[r].id].state = "verified" /\ req[r].id \in Ids)
    <3>1. CASE signup[req[r].id].state # "verified"
      BY <1>3, <3>1 DEF Approved
    <3>2. CASE signup[req[r].id].state = "verified" /\ req[r].id \notin Ids
      <4>1. req[r].id = 0
        BY <3>2, <2>1, Typed, AccountsAssumption DEF TaskSet, Ids
      <4>2. \A e \in Emails : password'[e] = 0 \/ password'[e] = password[e]
        BY <1>3, <4>1, <3>2, <2>1 DEF Approved, InsertUnlessPresent, TablesTyped
      <4>3. QED BY <4>2
    <3>3. QED BY <2>3, <3>1, <3>2
  <2>4. QED BY <2>2, <2>3
<1>4. ASSUME AccountsInv, [Next]_vars
      PROVE  UNCHANGED password \/ \E r \in Requests : AccountDeleted(r) \/ Approved(r)
  <2>1. CASE UNCHANGED vars
    BY <2>1 DEF vars, tables
  <2>2. ASSUME NEW r \in Requests, Arrive(r) PROVE UNCHANGED password
    BY <2>2 DEF Arrive, SetupArrives, SignupArrives, SlotArrives, SignupNamed, AdminArrives, Begin, tables
  <2>3. ASSUME NEW r \in Requests, Work(r) PROVE UNCHANGED password \/ AccountDeleted(r) \/ Approved(r)
    BY <2>3 DEF Work, SetupLocks, SetupChecked, AdminInserted, AdminCommitted, SignupLooked, SignupInserted, SignupLocks,
                Verified, Rejected, TargetChecked, StatusWritten, LimitWritten, SlotLocks,
                SlotCounted, GalleryInserted, tables
  <2>4. ASSUME NEW r \in Requests, GiveUp(r) PROVE UNCHANGED password
    BY <2>4 DEF GiveUp, tables
  <2>5. ASSUME NEW e \in Emails, GalleryDeleted(e) PROVE UNCHANGED password
    BY <2>5 DEF GalleryDeleted
  <2>6. QED BY <1>4, <2>1, <2>2, <2>3, <2>4, <2>5 DEF Next
<1>5. AccountsInv /\ [Next]_vars => Honest
  BY <1>1, <1>2, <1>3, <1>4
<1>6. QED BY <1>5, InvInit, InvStep, PTL DEF Spec, AccountsFromVerified

(* Which steps touch the status of an account, and how. *)
LEMMA StatusStep ==
  ASSUME [Next]_vars
  PROVE  \/ UNCHANGED status
         \/ \E r \in Requests : AdminCommitted(r) \/ Approved(r) \/ StatusWritten(r) \/ AccountDeleted(r)
<1>1. CASE UNCHANGED vars
  BY <1>1 DEF vars, tables
<1>2. ASSUME NEW r \in Requests, Arrive(r) PROVE UNCHANGED status
  BY <1>2 DEF Arrive, SetupArrives, SignupArrives, SlotArrives, SignupNamed, AdminArrives, Begin, tables
<1>3. ASSUME NEW r \in Requests, Work(r)
      PROVE  UNCHANGED status \/ AdminCommitted(r) \/ Approved(r) \/ StatusWritten(r) \/ AccountDeleted(r)
  BY <1>3 DEF Work, SetupLocks, SetupChecked, AdminInserted, SignupLooked, SignupInserted, SignupLocks,
              Verified, Rejected, TargetChecked, LimitWritten, SlotLocks, SlotCounted, GalleryInserted, tables
<1>4. ASSUME NEW r \in Requests, GiveUp(r) PROVE UNCHANGED status
  BY <1>4 DEF GiveUp, tables
<1>5. ASSUME NEW e \in Emails, GalleryDeleted(e) PROVE UNCHANGED status
  BY <1>5 DEF GalleryDeleted
<1>6. QED BY <1>1, <1>2, <1>3, <1>4, <1>5 DEF Next

SetupKinds == {"setup", "recover"}

LEMMA ClaimInit == Init => ClaimHeld
<1>1. SUFFICES ASSUME Init PROVE ClaimHeld
  OBVIOUS
<1>2. \A r \in Requests : req[r].do = "none"
  BY <1>1, IdleTask DEF Init
<1>3. QED BY <1>2 DEF ClaimHeld, Stands, SignupKinds

(* A request arrives. *)
LEMMA ClaimBegin ==
  ASSUME AccountsInv, ClaimHeld, NEW r \in Requests, NEW task, Begin(r, task),
         task.do \in SetupKinds => task.at = "lock",
         task.do \in SignupKinds => task.id # 0
  PROVE  ClaimHeld'
<1>1. /\ req'[r] = task /\ \A s \in Requests \ {r} : req'[s] = req[s]
      /\ UNCHANGED <<setupLock, setupDone, status, password>>
  BY Typed DEF AccountsInv, Begin, tables, locks
<1>2. \A s \in Requests :
        /\ req'[s].do \in {"setup", "recover"} /\ req'[s].at # "lock" => setupLock' = s
        /\ req'[s].do \in SignupKinds => req'[s].id # 0
  BY <1>1 DEF ClaimHeld, SetupKinds
<1>3. \A s \in Requests : Stands(s, {"setup", "recover"}, "commit")' =>
        s # r /\ Stands(s, {"setup", "recover"}, "commit") /\ req'[s] = req[s]
  BY <1>1 DEF Stands, SetupKinds
<1>4. \A s \in Requests : Stands(s, {"setup", "recover"}, "commit")' =>
        /\ req'[s].do = "setup" => ~setupDone'
        /\ \A f \in Emails : status'[f] # "absent" => password'[f] # 0
  BY <1>1, <1>3 DEF ClaimHeld
<1>5. QED BY <1>2, <1>4 DEF ClaimHeld

(* A request goes on: a bootstrap only with the claim, and to its COMMIT   *)
(* only past the check of the trigger.                                     *)
LEMMA ClaimMove ==
  ASSUME AccountsInv, ClaimHeld, NEW r \in Requests, NEW at,
         req' = [req EXCEPT ![r].at = at], UNCHANGED tables,
         setupLock' = setupLock \/ (setupLock \in {None, r} /\ setupLock' = r),
         req[r].do \in SetupKinds => setupLock' = r,
         req[r].do \in SetupKinds /\ at = "commit" => Unclaimed(req[r].do)
  PROVE  ClaimHeld'
<1>1. req \in [Requests -> TaskSet] /\ None \notin Requests
  BY Typed, AccountsAssumption DEF AccountsInv
<1>2. /\ req'[r].at = at /\ req'[r].do = req[r].do /\ req'[r].id = req[r].id
      /\ \A s \in Requests \ {r} : req'[s] = req[s]
      /\ UNCHANGED <<setupDone, status, password>>
  BY <1>1 DEF TaskSet, tables
<1>3. \A s \in Requests :
        /\ req'[s].do \in {"setup", "recover"} /\ req'[s].at # "lock" => setupLock' = s
        /\ req'[s].do \in SignupKinds => req'[s].id # 0
  BY <1>1, <1>2 DEF ClaimHeld, SetupKinds
<1>4. ASSUME NEW s \in Requests, Stands(s, {"setup", "recover"}, "commit")'
      PROVE  /\ req'[s].do = "setup" => ~setupDone'
             /\ \A f \in Emails : status'[f] # "absent" => password'[f] # 0
  <2>1. CASE s = r
    <3>1. Unclaimed(req[r].do)
      BY <1>2, <1>4, <2>1 DEF Stands, SetupKinds
    <3>2. QED BY <1>2, <2>1, <3>1 DEF Unclaimed, NoUsers
  <2>2. CASE s # r
    <3>1. Stands(s, {"setup", "recover"}, "commit") /\ req'[s] = req[s]
      BY <1>2, <1>4, <2>2 DEF Stands
    <3>2. QED BY <1>2, <3>1 DEF ClaimHeld
  <2>3. QED BY <2>1, <2>2
<1>5. QED BY <1>3, <1>4 DEF ClaimHeld

(* A request ends: with the claim nobody else is at COMMIT; without it the *)
(* claim stays and new accounts have the password of a signup.             *)
LEMMA ClaimEnd ==
  ASSUME AccountsInv, ClaimHeld, NEW r \in Requests, Finish(r),
         \/ setupLock = r
         \/ /\ setupDone' = setupDone
            /\ \A f \in Emails : status'[f] # "absent" =>
                 password'[f] # 0 \/ (status[f] # "absent" /\ password'[f] = password[f])
  PROVE  ClaimHeld'
<1>1. /\ req'[r].do = "none" /\ \A s \in Requests \ {r} : req'[s] = req[s]
      /\ setupLock' = IF setupLock = r THEN None ELSE setupLock
  BY Typed, IdleTask DEF AccountsInv, Finish
<1>2. \A s \in Requests :
        /\ req'[s].do \in {"setup", "recover"} /\ req'[s].at # "lock" => setupLock' = s
        /\ req'[s].do \in SignupKinds => req'[s].id # 0
  BY <1>1 DEF ClaimHeld, SignupKinds
<1>3. ASSUME NEW s \in Requests, Stands(s, {"setup", "recover"}, "commit")'
      PROVE  /\ req'[s].do = "setup" => ~setupDone'
             /\ \A f \in Emails : status'[f] # "absent" => password'[f] # 0
  <2>1. s # r /\ req'[s] = req[s] /\ Stands(s, {"setup", "recover"}, "commit")
    BY <1>1, <1>3 DEF Stands
  <2>2. setupLock = s
    BY <2>1 DEF ClaimHeld, Stands
  <2>3. QED BY <2>1, <2>2 DEF ClaimHeld
<1>4. QED BY <1>2, <1>3 DEF ClaimHeld

LEMMA ClaimArrive ==
  ASSUME AccountsInv, ClaimHeld, NEW r \in Requests, Arrive(r)
  PROVE  ClaimHeld'
<1> DEFINE Fresh(task) == /\ task.do \in SetupKinds => task.at = "lock"
                          /\ task.do \in SignupKinds => task.id # 0
<1>1. ASSUME NEW task, Begin(r, task), Fresh(task) PROVE ClaimHeld'
  BY <1>1, ClaimBegin
<1>2. ASSUME NEW k \in {"setup", "recover"}, NEW e, SetupArrives(r, k, e) PROVE ClaimHeld'
  <2>1. Fresh([Idle EXCEPT !.do = k, !.at = "lock", !.to = e])
    BY <1>2 DEF Idle, SignupKinds
  <2>2. QED BY <1>1, <1>2, <2>1 DEF SetupArrives
<1>3. ASSUME NEW e, SignupArrives(r, e) PROVE ClaimHeld'
  <2>1. Fresh([Idle EXCEPT !.do = "signup", !.at = "existing", !.to = e])
    BY DEF Idle, SignupKinds, SetupKinds
  <2>2. QED BY <1>1, <1>3, <2>1 DEF SignupArrives
<1>4. ASSUME NEW e, SlotArrives(r, e) PROVE ClaimHeld'
  <2>1. Fresh([Idle EXCEPT !.do = "gallery", !.at = "lock", !.to = e])
    BY DEF Idle, SignupKinds, SetupKinds
  <2>2. QED BY <1>1, <1>4, <2>1 DEF SlotArrives
<1>5. ASSUME NEW k \in SignupKinds, NEW a, NEW i \in Ids, SignupNamed(r, k, a, i) PROVE ClaimHeld'
  <2>1. i # 0
    BY AccountsAssumption DEF Ids
  <2>2. Fresh([Idle EXCEPT !.do = k, !.at = "lock", !.by = a, !.id = i])
    BY <1>5, <2>1 DEF Idle, SignupKinds, SetupKinds
  <2>3. QED BY <1>1, <1>5, <2>2 DEF SignupNamed
<1>6. ASSUME NEW k \in {"status", "delete", "limit"}, NEW a, NEW e, NEW new, NEW l,
             AdminArrives(r, k, a, e, new, l)
      PROVE  ClaimHeld'
  <2>1. Fresh([Idle EXCEPT !.do = k, !.at = IF k = "limit" THEN "write" ELSE "check",
                           !.by = a, !.to = e, !.new = new, !.limit = l])
    BY <1>6 DEF Idle, SignupKinds, SetupKinds
  <2>2. QED BY <1>1, <1>6, <2>1 DEF AdminArrives
<1> HIDE DEF Fresh
<1>7. QED BY <1>2, <1>3, <1>4, <1>5, <1>6 DEF Arrive

LEMMA ClaimStep == AccountsInv /\ ClaimHeld /\ [Next]_vars => ClaimHeld'
<1>1. SUFFICES ASSUME AccountsInv, ClaimHeld, [Next]_vars PROVE ClaimHeld'
  OBVIOUS
<1>a. TablesTyped /\ RequestsTyped
  BY <1>1, Parts DEF AccountsInv
<1>2. ASSUME NEW r \in Requests, SetupLocks(r) \/ AdminInserted(r) PROVE ClaimHeld'
  <2>1. ASSUME NEW at, TakeClaim(r, at), UNCHANGED tables, at = "commit" => Unclaimed(req[r].do)
        PROVE  ClaimHeld'
    BY <1>1, <2>1, ClaimMove DEF TakeClaim
  <2>2. QED BY <1>2, <2>1 DEF SetupLocks, AdminInserted
<1>3. ASSUME NEW r \in Requests, SetupChecked(r) PROVE ClaimHeld'
  <2>1. setupLock = r
    BY <1>1, <1>3 DEF SetupChecked, Stands, ClaimHeld
  <2>2. CASE Goto(r, "insert") /\ UNCHANGED tables
    BY <1>1, <2>1, <2>2, ClaimMove DEF Goto, locks
  <2>3. CASE Finish(r)
    BY <1>1, <2>1, <2>3, ClaimEnd
  <2>4. QED BY <1>3, <2>2, <2>3 DEF SetupChecked, tables
<1>4. ASSUME NEW r \in Requests, AdminCommitted(r) PROVE ClaimHeld'
  <2>1. setupLock = r
    BY <1>1, <1>4 DEF AdminCommitted, Stands, ClaimHeld
  <2>2. QED BY <1>1, <1>4, <2>1, ClaimEnd DEF AdminCommitted
<1>5. ASSUME NEW r \in Requests, NEW at, req' = [req EXCEPT ![r].at = at],
             UNCHANGED <<tables, setupLock>>, req[r].do \notin SetupKinds
      PROVE  ClaimHeld'
  BY <1>1, <1>5, ClaimMove
<1>6. ASSUME NEW r \in Requests, Finish(r), UNCHANGED <<status, password, setupDone>> PROVE ClaimHeld'
  BY <1>1, <1>6, ClaimEnd
<1>7. ASSUME NEW r \in Requests, SignupLooked(r) \/ SignupLocks(r) \/ TargetChecked(r)
                                 \/ SlotLocks(r) \/ SlotCounted(r)
      PROVE  ClaimHeld'
  <2>1. UNCHANGED tables /\ req[r].do \notin SetupKinds
    BY <1>7 DEF SignupLooked, SignupLocks, TargetChecked, SlotLocks, SlotCounted, Stands,
                SignupKinds, SetupKinds
  <2>2. \/ Finish(r)
        \/ UNCHANGED setupLock /\ \E at \in Points : req' = [req EXCEPT ![r].at = at]
    BY <1>7 DEF SignupLooked, SignupLocks, TargetChecked, SlotLocks, SlotCounted, Goto,
                LockAccount, locks, Points
  <2>3. QED BY <2>1, <2>2, <1>5, <1>6 DEF tables
<1>8. ASSUME NEW r \in Requests, SignupInserted(r) \/ Verified(r) \/ Rejected(r) \/ LimitWritten(r)
                                 \/ GalleryInserted(r) \/ GiveUp(r)
      PROVE  ClaimHeld'
  <2>1. Finish(r) /\ UNCHANGED <<status, password, setupDone>>
    BY <1>8 DEF SignupInserted, Verified, Rejected, LimitWritten, GalleryInserted, GiveUp, tables
  <2>2. QED BY <2>1, <1>6
<1>9. ASSUME NEW r \in Requests, Approved(r) PROVE ClaimHeld'
  <2>1. req[r].id # 0
    BY <1>1, <1>9 DEF Approved, Stands, ClaimHeld, SignupKinds
  <2>2. \A f \in Emails : status'[f] # "absent" =>
          password'[f] # 0 \/ (status[f] # "absent" /\ password'[f] = password[f])
    BY <1>9, <1>a, <2>1 DEF Approved, InsertUnlessPresent, TablesTyped
  <2>3. QED BY <1>1, <1>9, <2>2, ClaimEnd DEF Approved
<1>10. ASSUME NEW r \in Requests, StatusWritten(r) \/ AccountDeleted(r) PROVE ClaimHeld'
  <2>1. \A f \in Emails : status'[f] # "absent" =>
          password'[f] # 0 \/ (status[f] # "absent" /\ password'[f] = password[f])
    BY <1>10, <1>a DEF StatusWritten, AccountDeleted, TablesTyped
  <2>2. QED BY <1>1, <1>10, <2>1, ClaimEnd DEF StatusWritten, AccountDeleted
<1>11. ASSUME NEW r \in Requests, Work(r) PROVE ClaimHeld'
  BY <1>2, <1>3, <1>4, <1>7, <1>8, <1>9, <1>10, <1>11 DEF Work
<1>12. CASE UNCHANGED <<req, setupLock, setupDone, status, password>>
  BY <1>1, <1>12 DEF ClaimHeld, Stands
<1>13. ASSUME NEW e \in Emails, GalleryDeleted(e) PROVE ClaimHeld'
  BY <1>12, <1>13 DEF GalleryDeleted, locks
<1>14. CASE UNCHANGED vars
  BY <1>12, <1>14 DEF vars, tables, locks
<1>15. QED BY <1>1, <1>8, <1>11, <1>13, <1>14, ClaimArrive DEF Next

(* However setups, recoveries, approvals and deletions interleave, the     *)
(* accounts that a bootstrapped administrator meets at COMMIT were all     *)
(* approved while its transaction was open: the claim is kept from the     *)
(* first check to COMMIT, past the trigger, and only a setup that found it *)
(* unconsumed or a recovery gets there.                                    *)
(* frontend/setup.py, cli/recover_admin.py, migration 0010.                *)
THEOREM BootstrapsNeverMeet == Spec => BootstrapsApart
<1> DEFINE Apart == \A e \in Emails : status[e] = "absent" /\ status'[e] = "admin" =>
       /\ \A f \in Emails : status[f] # "absent" => password[f] # 0
       /\ setupDone => \E r \in Requests : /\ Stands(r, {"recover"}, "commit")
                                           /\ req[r].to = e /\ req'[r] = Idle
<1>1. ASSUME AccountsInv, ClaimHeld, NEW r \in Requests, AdminCommitted(r) PROVE Apart
  <2>1. SUFFICES ASSUME NEW e \in Emails, status[e] = "absent", status'[e] = "admin"
                 PROVE  /\ \A f \in Emails : status[f] # "absent" => password[f] # 0
                        /\ setupDone => \E s \in Requests : /\ Stands(s, {"recover"}, "commit")
                                                            /\ req[s].to = e /\ req'[s] = Idle
    OBVIOUS
  <2>2. Stands(r, {"setup", "recover"}, "commit") /\ Finish(r)
    BY <1>1 DEF AdminCommitted
  <2>3. /\ \A f \in Emails : status[f] # "absent" => password[f] # 0
        /\ req[r].do = "setup" => ~setupDone
    BY <1>1, <2>2 DEF ClaimHeld
  <2>4. req[r].to = e
    <3>1. status \in [Emails -> UserStatuses \cup {"absent"}]
      BY <1>1, Parts DEF AccountsInv, TablesTyped
    <3>2. QED BY <1>1, <2>1, <3>1 DEF AdminCommitted
  <2>5. req'[r] = Idle
    BY <1>1, <2>2, Typed DEF AccountsInv, Finish
  <2>6. QED BY <2>2, <2>3, <2>4, <2>5 DEF Stands
<1>2. ASSUME AccountsInv, NEW r \in Requests, Approved(r) \/ StatusWritten(r) \/ AccountDeleted(r)
      PROVE  Apart
  <2>1. status \in [Emails -> UserStatuses \cup {"absent"}]
    BY <1>2, Parts DEF AccountsInv, TablesTyped
  <2>2. \A e \in Emails : status[e] = "absent" => status'[e] \in {"absent", "active"}
    BY <1>2, <2>1 DEF Approved, InsertUnlessPresent, StatusWritten, AccountDeleted
  <2>3. QED BY <2>2
<1>3. AccountsInv /\ ClaimHeld /\ [Next]_vars => Apart
  BY <1>1, <1>2, StatusStep
<1>4. QED BY <1>3, InvInit, InvStep, ClaimInit, ClaimStep, PTL DEF Spec, BootstrapsApart
=============================================================================
