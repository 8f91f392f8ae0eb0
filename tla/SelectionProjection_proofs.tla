----------------------- MODULE SelectionProjection_proofs -----------------------
(* The projected row is the latest of the log for any number of writers, and *)
(* the log with its row implements the abstract review log.                  *)
EXTENDS SelectionProjection, TLAPS

Shown   == [value : BOOLEAN, at : -1..MaxStamp, id : 0..MaxEvents]
Records == [at : {"idle", "begun", "inserted", "projected"}, began : -1..MaxStamp,
            id : 0..MaxEvents, action : Actions \cup {"none"}]

Occurs(d) == {i \in 1..MaxEvents : DimensionOf(events[i].action) = d}

Latest(d) ==
  \/ Occurs(d) = {} /\ current[d] = Unrated
  \/ \E i \in Occurs(d) : /\ current[d] = Version(i, events[i])
                          /\ \A j \in Occurs(d) \ {i} : Newer(current[d], Version(j, events[j]))

\* A writer that inserted has an id that no event and no other writer has.
Inserted(a) == author[a].at \in {"inserted", "projected"}

IdsFresh ==
  /\ \A i \in 1..MaxEvents : events[i] \in Event \/ events[i] = NoEvent
  /\ \A i \in 1..MaxEvents : i >= nextId => events[i] = NoEvent
  /\ \A a \in Authors : author[a].at # "idle" => author[a].began \in 0..MaxStamp
  /\ \A a \in Authors : Inserted(a) =>
       /\ author[a].id \in 1..MaxEvents /\ author[a].id < nextId /\ author[a].action \in Actions
       /\ events[author[a].id] = NoEvent
  /\ \A a, b \in Authors : Inserted(a) /\ Inserted(b) /\ author[a].id = author[b].id => a = b

ProjectionInv == ProjectionTypeOK /\ IdsFresh /\ \A d \in Dimensions : Latest(d)

-----------------------------------------------------------------------------
(* Versions and their order                                                 *)

LEMMA Dimension ==
  /\ DimensionOf("none") = "none" /\ "none" \notin Dimensions
  /\ \A action \in Actions : DimensionOf(action) \in Dimensions \cup {"none"}
BY DEF DimensionOf, Dimensions, Actions

LEMMA VersionShown ==
  ASSUME NEW i \in 1..MaxEvents, NEW event \in Event
  PROVE  Version(i, event) \in Shown /\ Version(i, event).at = event.at /\ Version(i, event).id = i
         /\ event.at \in 0..MaxStamp /\ event.action \in Actions
<1>1. event.at \in 0..MaxStamp /\ event.action \in Actions
  BY DEF Event
<1>2. ValueOf(event.action) \in BOOLEAN
  BY DEF ValueOf
<1>3. i \in 0..MaxEvents /\ event.at \in -1..MaxStamp
  BY <1>1, EventsAssumption
<1>4. Version(i, event).at = event.at /\ Version(i, event).id = i
  BY DEF Version
<1>5. Version(i, event) \in Shown
  <2> DEFINE shown == ValueOf(event.action)
  <2> HIDE DEF shown
  <2>1. shown \in BOOLEAN
    BY <1>2 DEF shown
  <2>2. Version(i, event) = [value |-> shown, at |-> event.at, id |-> i]
    BY DEF Version, shown
  <2> QED BY <1>3, <2>1, <2>2 DEF Shown
<1> QED BY <1>1, <1>4, <1>5

LEMMA NewerOrder ==
  ASSUME NEW u \in Shown, NEW v \in Shown
  PROVE  /\ ~ (Newer(u, v) /\ Newer(v, u))
         /\ u.id # v.id => Newer(u, v) \/ Newer(v, u)
         /\ \A w \in Shown : Newer(u, v) /\ Newer(v, w) => Newer(u, w)
<1>1. \A w \in Shown : w.at \in Int /\ w.id \in Int
  BY EventsAssumption DEF Shown
<1> QED BY <1>1 DEF Newer

LEMMA OccursIs ==
  ASSUME IdsFresh, NEW d \in Dimensions, NEW i \in Occurs(d)
  PROVE  i \in 1..MaxEvents /\ events[i] \in Event
BY Dimension DEF Occurs, IdsFresh, NoEvent

-----------------------------------------------------------------------------
(* What the migration would make of the log is what dominates it            *)

LEMMA LatestIsBackfill ==
  ASSUME ProjectionInv, NEW d \in Dimensions
  PROVE  current[d] = Backfilled(events, d)
<1> DEFINE versions == {Version(i, events[i]) : i \in {j \in 1..MaxEvents : DimensionOf(events[j].action) = d}}
           Top(v)   == \A w \in versions \ {v} : Newer(v, w)
<1>1. versions = {Version(i, events[i]) : i \in Occurs(d)}
  BY DEF Occurs
<1>2. Backfilled(events, d) = IF versions = {} THEN Unrated ELSE CHOOSE v \in versions : Top(v)
  BY DEF Backfilled
<1>3. versions \subseteq Shown
  BY <1>1, OccursIs, VersionShown DEF ProjectionInv
<1> HIDE DEF versions
<1>4. CASE Occurs(d) = {}
  <2>1. versions = {} /\ current[d] = Unrated
    BY <1>1, <1>4 DEF ProjectionInv, Latest
  <2> QED BY <1>2, <2>1
<1>5. CASE Occurs(d) # {}
  <2>1. PICK i \in Occurs(d) : current[d] = Version(i, events[i])
                               /\ \A j \in Occurs(d) \ {i} : Newer(current[d], Version(j, events[j]))
    BY <1>5 DEF ProjectionInv, Latest
  <2>2. current[d] \in versions /\ Top(current[d])
    BY <1>1, <2>1
  <2>3. ASSUME NEW v \in versions, Top(v) PROVE v = current[d]
    BY <1>3, <2>2, <2>3, NewerOrder
  <2>4. (CHOOSE v \in versions : Top(v)) \in versions /\ Top(CHOOSE v \in versions : Top(v))
    BY <2>2, Zenon
  <2>5. (CHOOSE v \in versions : Top(v)) = current[d]
    BY <2>3, <2>4
  <2> QED BY <1>2, <2>2, <2>5
<1> QED BY <1>4, <1>5

-----------------------------------------------------------------------------
LEMMA BackfilledFirst ==
  ASSUME ProjectionInit, NEW d \in Dimensions
  PROVE  Latest(d) /\ current[d] \in Shown
<1>1. PICK action \in Actions : events = [i \in 1..MaxEvents |-> IF i = 1 THEN [action |-> action, at |-> 0] ELSE NoEvent]
  BY DEF ProjectionInit
<1>2. 1 \in 1..MaxEvents
  BY EventsAssumption
<1>3. events[1].action = action /\ events[1] \in Event
        /\ \A i \in 1..MaxEvents : i # 1 => events[i].action = "none"
  BY <1>1, <1>2, EventsAssumption DEF NoEvent, Event
<1>4. Occurs(d) = IF DimensionOf(action) = d THEN {1} ELSE {}
  BY <1>2, <1>3, Dimension DEF Occurs
<1> DEFINE versions == {Version(i, events[i]) : i \in Occurs(d)}
           Top(v)   == \A w \in versions \ {v} : Newer(v, w)
<1>5. current[d] = IF versions = {} THEN Unrated ELSE CHOOSE v \in versions : Top(v)
  BY DEF ProjectionInit, Backfilled, Occurs
<1>6. CASE DimensionOf(action) = d
  <2>1. versions = {Version(1, events[1])}
    BY <1>4, <1>6
  <2>2. current[d] = Version(1, events[1])
    <3> HIDE DEF versions
    <3>1. Top(Version(1, events[1])) /\ Version(1, events[1]) \in versions
      BY <2>1
    <3>2. (CHOOSE v \in versions : Top(v)) \in versions
      BY <3>1, Zenon
    <3> QED BY <1>5, <2>1, <3>2
  <2>3. Occurs(d) = {1}
    BY <1>4, <1>6
  <2> QED BY <1>2, <1>3, <2>2, <2>3, VersionShown DEF Latest
<1>7. CASE DimensionOf(action) # d
  <2>1. Occurs(d) = {} /\ current[d] = Unrated
    BY <1>4, <1>5, <1>7
  <2>2. Unrated \in Shown
    BY EventsAssumption DEF Unrated, Shown
  <2> QED BY <2>1, <2>2 DEF Latest
<1> QED BY <1>6, <1>7

LEMMA WaitingIs == Waiting \in Records /\ Waiting.at = "idle"
<1>1. 0 \in 0..MaxEvents /\ -1 \in -1..MaxStamp
  BY EventsAssumption
<1> QED BY <1>1 DEF Waiting, Records

LEMMA ProjectionInitInv == ProjectionInit => ProjectionInv
<1> SUFFICES ASSUME ProjectionInit PROVE ProjectionInv
  OBVIOUS
<1>1. \A d \in Dimensions : Latest(d) /\ current[d] \in Shown
  BY BackfilledFirst
<1>2. PICK action \in Actions : events = [i \in 1..MaxEvents |-> IF i = 1 THEN [action |-> action, at |-> 0] ELSE NoEvent]
  BY DEF ProjectionInit
<1>3. 0 \in 0..MaxStamp /\ 0 \in -1..MaxStamp /\ -1 \in -1..MaxStamp /\ 2 \in 1..(MaxEvents + 1)
  BY EventsAssumption
<1>4. [action |-> action, at |-> 0] \in Event
      /\ [action |-> action, at |-> 0] \in [action : Actions \cup {"none"}, at : -1..MaxStamp]
      /\ NoEvent \in [action : Actions \cup {"none"}, at : -1..MaxStamp]
  BY <1>3 DEF Event, NoEvent
<1>5. events \in [1..MaxEvents -> [action : Actions \cup {"none"}, at : -1..MaxStamp]]
  BY <1>2, <1>4
<1>6. current \in [Dimensions -> Shown]
  BY <1>1 DEF ProjectionInit
<1>7. author \in [Authors -> Records] /\ \A a \in Authors : author[a].at = "idle"
  BY WaitingIs DEF ProjectionInit
<1>8. ProjectionTypeOK
  BY <1>3, <1>5, <1>6, <1>7 DEF ProjectionTypeOK, ProjectionInit, Shown, Records
<1>9. \A i \in 1..MaxEvents : (events[i] \in Event \/ events[i] = NoEvent) /\ (i >= 2 => events[i] = NoEvent)
  BY <1>2, <1>4
<1>10. IdsFresh
  BY <1>7, <1>9 DEF IdsFresh, Inserted, ProjectionInit
<1> QED BY <1>1, <1>8, <1>10 DEF ProjectionInv

-----------------------------------------------------------------------------
LEMMA AuthorMoves ==
  ASSUME ProjectionInv, NEW a \in Authors, NEW from, NEW record \in Records, AuthorStep(a, from, record)
  PROVE  /\ author[a].at = from /\ author' \in [Authors -> Records]
         /\ \A b \in Authors : author'[b] = IF b = a THEN record ELSE author[b]
BY DEF AuthorStep, ProjectionInv, ProjectionTypeOK, Records

\* A writer's step that leaves the log, its row and the ids alone.
LEMMA QuietStepInv ==
  ASSUME ProjectionInv, NEW a \in Authors, NEW from, NEW record \in Records, AuthorStep(a, from, record),
         UNCHANGED <<stamp, nextId, events, current>>, rowLock' \in Authors \cup {NoAuthor},
         record.at # "idle" => record.began \in 0..MaxStamp,
         record.at \in {"inserted", "projected"} =>
           Inserted(a) /\ record.id = author[a].id /\ record.action = author[a].action
  PROVE  ProjectionInv'
<1>1. /\ author' \in [Authors -> Records]
      /\ \A b \in Authors : author'[b] = IF b = a THEN record ELSE author[b]
  BY AuthorMoves
<1>2. ProjectionTypeOK'
  BY <1>1 DEF ProjectionInv, ProjectionTypeOK, Records
<1>3. \A b \in Authors : Inserted(b)' => Inserted(b) /\ author'[b].id = author[b].id /\ author'[b].action = author[b].action
  BY <1>1 DEF Inserted
<1>4. IdsFresh'
  BY <1>1, <1>3 DEF ProjectionInv, IdsFresh
<1>5. \A d \in Dimensions : Latest(d)'
  BY DEF ProjectionInv, Latest, Occurs
<1> QED BY <1>2, <1>4, <1>5 DEF ProjectionInv

LEMMA InsertedInv ==
  ASSUME ProjectionInv, NEW a \in Authors, NEW action \in Actions, EventInserted(a, action)
  PROVE  ProjectionInv'
<1> DEFINE record == [author[a] EXCEPT !.at = "inserted", !.id = nextId, !.action = action]
<1>1. nextId \in 1..MaxEvents /\ nextId \in 0..MaxEvents /\ nextId' = nextId + 1 /\ nextId' \in 1..(MaxEvents + 1)
  BY EventsAssumption DEF EventInserted, ProjectionInv, ProjectionTypeOK
<1>2. author[a] \in Records
  BY DEF ProjectionInv, ProjectionTypeOK, Records
<1>3. record \in Records /\ record.at = "inserted" /\ record.id = nextId /\ record.action = action
        /\ record.began = author[a].began
  BY <1>1, <1>2 DEF Records
<1>4. AuthorStep(a, "begun", record) /\ UNCHANGED <<stamp, events, current, rowLock>>
  BY DEF EventInserted
<1> HIDE DEF record
<1>5. /\ author[a].at = "begun" /\ author' \in [Authors -> Records]
      /\ \A b \in Authors : author'[b] = IF b = a THEN record ELSE author[b]
  BY <1>3, <1>4, AuthorMoves
<1>6. ProjectionTypeOK'
  BY <1>1, <1>4, <1>5 DEF ProjectionInv, ProjectionTypeOK, Records
<1>7. \A b \in Authors : b # a /\ Inserted(b)' => Inserted(b) /\ author[b].id \in 1..MaxEvents /\ author[b].id < nextId
  BY <1>5 DEF Inserted, ProjectionInv, IdsFresh
<1>8. \A i \in 1..MaxEvents : i >= nextId' => i >= nextId
  BY <1>1
<1>9. \A k \in 1..MaxEvents : k < nextId => k < nextId' /\ k # nextId
  BY <1>1
<1>10. events[nextId] = NoEvent /\ author[a].began \in 0..MaxStamp /\ nextId < nextId'
  BY <1>1, <1>5 DEF ProjectionInv, IdsFresh
<1>11. IdsFresh'
  <2>1. \A i \in 1..MaxEvents : (events'[i] \in Event \/ events'[i] = NoEvent) /\ (i >= nextId' => events'[i] = NoEvent)
    BY <1>4, <1>8 DEF ProjectionInv, IdsFresh
  <2>2. \A b \in Authors : author'[b].at # "idle" => author'[b].began \in 0..MaxStamp
    BY <1>3, <1>5, <1>10 DEF ProjectionInv, IdsFresh
  <2>3. \A b \in Authors : Inserted(b)' =>
          /\ author'[b].id \in 1..MaxEvents /\ author'[b].id < nextId' /\ author'[b].action \in Actions
          /\ events'[author'[b].id] = NoEvent
    BY <1>1, <1>3, <1>4, <1>5, <1>7, <1>9, <1>10 DEF ProjectionInv, IdsFresh
  <2>4. \A b, c \in Authors : Inserted(b)' /\ Inserted(c)' /\ author'[b].id = author'[c].id => b = c
    BY <1>3, <1>5, <1>7, <1>9 DEF ProjectionInv, IdsFresh
  <2> QED BY <2>1, <2>2, <2>3, <2>4 DEF IdsFresh, Inserted
<1>12. \A d \in Dimensions : Latest(d)'
  BY <1>4 DEF ProjectionInv, Latest, Occurs
<1> QED BY <1>6, <1>11, <1>12 DEF ProjectionInv

\* The upsert leaves the newer of the row it found and its own event.
LEMMA CommitLatest ==
  ASSUME ProjectionInv, NEW i \in 1..MaxEvents, NEW event \in Event, events[i] = NoEvent,
         events' = [events EXCEPT ![i] = event],
         NEW d \in Dimensions,
         current'[d] = IF DimensionOf(event.action) = d
                            /\ (current[d].at = -1 \/ Newer(Version(i, event), current[d]))
                         THEN Version(i, event) ELSE current[d]
  PROVE  Latest(d)'
<1> DEFINE new == Version(i, event)
<1>0. IdsFresh
  BY DEF ProjectionInv
<1>1. \A j \in 1..MaxEvents : events'[j] = IF j = i THEN event ELSE events[j]
  BY DEF ProjectionInv, ProjectionTypeOK
<1>2. i \notin Occurs(d)
  BY Dimension DEF Occurs, NoEvent
<1>3. Occurs(d)' = IF DimensionOf(event.action) = d THEN Occurs(d) \cup {i} ELSE Occurs(d)
  BY <1>1, <1>2 DEF Occurs
<1>4. \A j \in Occurs(d) : events'[j] = events[j] /\ j # i /\ Version(j, events[j]) \in Shown
                          /\ Version(j, events[j]).id = j /\ Version(j, events[j]).at \in 0..MaxStamp
  BY <1>0, <1>1, <1>2, OccursIs, VersionShown
<1>5. new \in Shown /\ new.id = i /\ events'[i] = event
  BY <1>1, VersionShown
<1> HIDE DEF new
<1>6. CASE Occurs(d) = {}
  <2>1. current[d] = Unrated
    BY <1>6 DEF ProjectionInv, Latest
  <2>2. current[d].at = -1
    BY <2>1 DEF Unrated
  <2>3. CASE DimensionOf(event.action) = d
    <3>1. Occurs(d)' = {i} /\ current'[d] = Version(i, events'[i])
      BY <1>3, <1>5, <1>6, <2>2, <2>3
    <3> QED BY <3>1 DEF Latest
  <2>4. CASE DimensionOf(event.action) # d
    <3>1. Occurs(d)' = {} /\ current'[d] = Unrated
      BY <1>3, <1>6, <2>1, <2>4
    <3> QED BY <3>1 DEF Latest
  <2> QED BY <2>3, <2>4
<1>7. CASE Occurs(d) # {}
  <2>1. PICK k \in Occurs(d) : current[d] = Version(k, events[k])
                               /\ \A j \in Occurs(d) \ {k} : Newer(current[d], Version(j, events[j]))
    BY <1>7 DEF ProjectionInv, Latest
  <2>2. current[d] \in Shown /\ current[d].id = k /\ k # i /\ current[d].at # -1
    BY <1>4, <2>1, EventsAssumption
  <2>3. CASE DimensionOf(event.action) # d
    <3>1. Occurs(d)' = Occurs(d) /\ current'[d] = current[d]
      BY <1>3, <2>3
    <3> QED BY <1>4, <2>1, <3>1 DEF Latest
  <2>4. CASE DimensionOf(event.action) = d /\ Newer(new, current[d])
    <3>1. Occurs(d)' = Occurs(d) \cup {i} /\ current'[d] = Version(i, events'[i]) /\ current'[d] = new
      BY <1>3, <1>5, <2>4 DEF new
    <3>2. \A j \in Occurs(d) : Newer(new, Version(j, events[j]))
      <4> SUFFICES ASSUME NEW j \in Occurs(d), j # k PROVE Newer(new, Version(j, events[j]))
        BY <2>1, <2>4
      <4> QED BY <1>4, <1>5, <2>1, <2>2, <2>4, NewerOrder
    <3>3. \A j \in Occurs(d)' \ {i} : Newer(current'[d], Version(j, events'[j]))
      BY <1>4, <3>1, <3>2
    <3> QED BY <3>1, <3>3 DEF Latest
  <2>5. CASE DimensionOf(event.action) = d /\ ~ Newer(new, current[d])
    <3>1. Occurs(d)' = Occurs(d) \cup {i} /\ current'[d] = current[d]
      BY <1>3, <2>2, <2>5 DEF new
    <3>2. Newer(current[d], new)
      BY <1>5, <2>2, <2>5, NewerOrder
    <3>3. \A j \in Occurs(d)' \ {k} : Newer(current'[d], Version(j, events'[j]))
      BY <1>4, <1>5, <2>1, <3>1, <3>2 DEF new
    <3>4. current'[d] = Version(k, events'[k]) /\ k \in Occurs(d)'
      BY <1>4, <2>1, <3>1
    <3> QED BY <3>3, <3>4 DEF Latest
  <2> QED BY <2>3, <2>4, <2>5
<1> QED BY <1>6, <1>7

\* What a commit does: it appends its event and shows the latest.
LEMMA CommitIs ==
  ASSUME ProjectionInv, NEW a \in Authors, AuthorCommits(a)
  PROVE  \E i \in 1..MaxEvents, event \in Event :
           /\ i = author[a].id /\ events[i] = NoEvent /\ events' = [events EXCEPT ![i] = event]
           /\ current' \in [Dimensions -> Shown]
           /\ \A d \in Dimensions :
                current'[d] = IF DimensionOf(event.action) = d
                                   /\ (current[d].at = -1 \/ Newer(Version(i, event), current[d]))
                                THEN Version(i, event) ELSE current[d]
<1> DEFINE event == [action |-> author[a].action, at |-> author[a].began]
<1>1. PICK i \in 1..MaxEvents : i = author[a].id /\ events[i] = NoEvent /\ author[a].action \in Actions
                               /\ author[a].began \in 0..MaxStamp
  BY DEF AuthorCommits, AuthorStep, ProjectionInv, IdsFresh, Inserted
<1>2. event \in Event
  BY <1>1 DEF Event
<1>3. events' = [events EXCEPT ![i] = event]
  BY <1>1 DEF AuthorCommits
<1> DEFINE e    == DimensionOf(event.action)
           new  == Version(author[a].id, event)
           wins == e # "none" /\ (current[e].at = -1 \/ Newer(new, current[e]))
<1>4. current' = IF wins THEN [current EXCEPT ![e] = new] ELSE current
  BY DEF AuthorCommits, Projected
<1>5. new \in Shown /\ new = Version(i, event) /\ e \in Dimensions \cup {"none"} /\ "none" \notin Dimensions
  BY <1>1, <1>2, VersionShown, Dimension
<1>6. current \in [Dimensions -> Shown]
  BY DEF ProjectionInv, ProjectionTypeOK, Shown
<1> HIDE DEF event, e, new
<1>7. current' \in [Dimensions -> Shown]
  BY <1>4, <1>5, <1>6
<1>8. ASSUME NEW d \in Dimensions
      PROVE  current'[d] = IF e = d /\ (current[d].at = -1 \/ Newer(new, current[d])) THEN new ELSE current[d]
  <2>1. CASE e = d
    BY <1>4, <1>5, <1>6, <2>1
  <2>2. CASE e # d
    BY <1>4, <1>5, <1>6, <2>2
  <2> QED BY <2>1, <2>2
<1>9. \A d \in Dimensions :
        current'[d] = IF DimensionOf(event.action) = d
                           /\ (current[d].at = -1 \/ Newer(Version(i, event), current[d]))
                        THEN Version(i, event) ELSE current[d]
  BY <1>5, <1>8 DEF e
<1> QED BY <1>1, <1>2, <1>3, <1>7, <1>9

LEMMA CommitInv == ASSUME ProjectionInv, NEW a \in Authors, AuthorCommits(a) PROVE ProjectionInv'
<1>1. PICK i \in 1..MaxEvents, event \in Event :
        /\ i = author[a].id /\ events[i] = NoEvent /\ events' = [events EXCEPT ![i] = event]
        /\ current' \in [Dimensions -> Shown]
        /\ \A d \in Dimensions :
             current'[d] = IF DimensionOf(event.action) = d
                                /\ (current[d].at = -1 \/ Newer(Version(i, event), current[d]))
                             THEN Version(i, event) ELSE current[d]
  BY CommitIs
<1>2. \A d \in Dimensions : Latest(d)'
  BY <1>1, CommitLatest
<1>3. AuthorStep(a, "projected", Waiting) /\ UNCHANGED <<stamp, nextId>> /\ rowLock' \in Authors \cup {NoAuthor}
  BY DEF AuthorCommits, ProjectionInv, ProjectionTypeOK
<1>4. /\ author[a].at = "projected" /\ author' \in [Authors -> Records]
      /\ \A b \in Authors : author'[b] = IF b = a THEN Waiting ELSE author[b]
  BY <1>3, WaitingIs, AuthorMoves
<1>5. event \in [action : Actions \cup {"none"}, at : -1..MaxStamp]
  BY EventsAssumption DEF Event
<1>6. ProjectionTypeOK'
  BY <1>1, <1>3, <1>4, <1>5 DEF ProjectionInv, ProjectionTypeOK, Records, Shown
<1>7. \A j \in 1..MaxEvents : events'[j] = IF j = i THEN event ELSE events[j]
  BY <1>1 DEF ProjectionInv, ProjectionTypeOK
<1>8. i < nextId /\ \A b \in Authors : b # a /\ Inserted(b) => author[b].id # i
  BY <1>1, <1>4 DEF ProjectionInv, IdsFresh, Inserted
<1>9. nextId \in Int
  BY DEF ProjectionInv, ProjectionTypeOK
<1>10. \A b \in Authors : Inserted(b)' => b # a /\ Inserted(b) /\ author'[b] = author[b]
  BY <1>4, WaitingIs DEF Inserted
<1>11. IdsFresh'
  <2>1. \A j \in 1..MaxEvents : (events'[j] \in Event \/ events'[j] = NoEvent) /\ (j >= nextId' => events'[j] = NoEvent)
    BY <1>3, <1>7, <1>8, <1>9 DEF ProjectionInv, IdsFresh
  <2>2. \A b \in Authors : author'[b].at # "idle" => author'[b].began \in 0..MaxStamp
    BY <1>4, WaitingIs DEF ProjectionInv, IdsFresh
  <2>3. \A b \in Authors : Inserted(b)' =>
          /\ author'[b].id \in 1..MaxEvents /\ author'[b].id < nextId' /\ author'[b].action \in Actions
          /\ events'[author'[b].id] = NoEvent
    BY <1>3, <1>7, <1>8, <1>10 DEF ProjectionInv, IdsFresh
  <2>4. \A b, c \in Authors : Inserted(b)' /\ Inserted(c)' /\ author'[b].id = author'[c].id => b = c
    BY <1>10 DEF ProjectionInv, IdsFresh
  <2> QED BY <2>1, <2>2, <2>3, <2>4 DEF IdsFresh, Inserted
<1> QED BY <1>2, <1>6, <1>11 DEF ProjectionInv

\* Every other step leaves the log and its row alone.
LEMMA OtherInv ==
  ASSUME ProjectionInv, NEW a \in Authors, AuthorBegins(a) \/ EventProjected(a) \/ AuthorRollsBack(a)
  PROVE  ProjectionInv' /\ UNCHANGED <<events, current>>
<1>0. author[a] \in Records /\ stamp \in 0..MaxStamp /\ rowLock \in Authors \cup {NoAuthor}
  BY DEF ProjectionInv, ProjectionTypeOK, Records
<1>1. CASE AuthorBegins(a)
  <2> DEFINE record == [Waiting EXCEPT !.at = "begun", !.began = stamp]
  <2>1. stamp \in -1..MaxStamp
    BY <1>0
  <2>2. record \in Records /\ record.at = "begun" /\ record.began = stamp
    BY <2>1, WaitingIs DEF Records
  <2>3. AuthorStep(a, "idle", record) /\ UNCHANGED <<stamp, nextId, events, current, rowLock>>
    BY <1>1 DEF AuthorBegins
  <2> HIDE DEF record
  <2> QED BY <1>0, <2>2, <2>3, QuietStepInv
<1>2. CASE EventProjected(a)
  <2> DEFINE record == [author[a] EXCEPT !.at = "projected"]
  <2>1. record \in Records /\ record.began = author[a].began /\ record.id = author[a].id /\ record.action = author[a].action
    BY <1>0 DEF Records
  <2>2. AuthorStep(a, "inserted", record) /\ UNCHANGED <<stamp, nextId, events, current>> /\ rowLock' \in Authors \cup {NoAuthor}
    BY <1>0, <1>2 DEF EventProjected
  <2>3. Inserted(a) /\ author[a].began \in 0..MaxStamp
    BY <2>2 DEF AuthorStep, Inserted, ProjectionInv, IdsFresh
  <2> HIDE DEF record
  <2> QED BY <2>1, <2>2, <2>3, QuietStepInv
<1>3. CASE AuthorRollsBack(a)
  <2>1. AuthorStep(a, author[a].at, Waiting) /\ UNCHANGED <<stamp, nextId, events, current>>
        /\ rowLock' \in Authors \cup {NoAuthor}
    BY <1>0, <1>3 DEF AuthorRollsBack
  <2> QED BY <2>1, WaitingIs, QuietStepInv
<1> QED BY <1>1, <1>2, <1>3

LEMMA ClockStepInv == ASSUME ProjectionInv, StampClock PROVE ProjectionInv'
<1>1. stamp' \in 0..MaxStamp
  BY EventsAssumption DEF StampClock, ProjectionInv, ProjectionTypeOK
<1>2. ProjectionTypeOK'
  BY <1>1 DEF StampClock, ProjectionInv, ProjectionTypeOK
<1> QED BY <1>2 DEF StampClock, ProjectionInv, IdsFresh, Inserted, Latest, Occurs

LEMMA ProjectionStepInv == ProjectionInv /\ [ProjectionNext]_projectionVars => ProjectionInv'
<1>1. ASSUME ProjectionInv, UNCHANGED projectionVars PROVE ProjectionInv'
  BY <1>1 DEF projectionVars, ProjectionInv, ProjectionTypeOK, IdsFresh, Inserted, Latest, Occurs
<1> QED BY <1>1, ClockStepInv, OtherInv, CommitInv, InsertedInv DEF ProjectionNext

(* Ids stay unused until their writer commits, and every dimension shows    *)
(* an event of the log that all others are older than.                      *)
THEOREM ProjectionInvariant == ProjectionSpec => []ProjectionInv
BY ProjectionInitInv, ProjectionStepInv, PTL DEF ProjectionSpec

(* Live writes leave exactly the row that the migration would backfill from *)
(* the log, however backdated, tied or lost their events are.               *)
THEOREM RowIsBackfill == ProjectionSpec => []CurrentIsBackfill
<1>1. ProjectionInv => CurrentIsBackfill
  BY LatestIsBackfill DEF CurrentIsBackfill
<1> QED BY ProjectionInvariant, <1>1, PTL

-----------------------------------------------------------------------------
(* Refinement                                                               *)

LEMMA LatestShown ==
  ASSUME NEW d \in Dimensions
  PROVE  Latest(d) <=> Log!ShowsLatest(d)
BY DEF Latest, Occurs, Log!ShowsLatest, Log!Of, Log!DimensionOf, DimensionOf, Log!Version, Version,
       Log!Newer, Newer, Log!Unrated, Unrated, Log!ValueOf, ValueOf

LEMMA LogStep ==
  ASSUME ProjectionInv, ProjectionInv', NEW a \in Authors, AuthorCommits(a)
  PROVE  Log!LogNext
<1>1. PICK i \in 1..MaxEvents, event \in Event :
        /\ i = author[a].id /\ events[i] = NoEvent /\ events' = [events EXCEPT ![i] = event]
        /\ \A d \in Dimensions :
             current'[d] = IF DimensionOf(event.action) = d
                                /\ (current[d].at = -1 \/ Newer(Version(i, event), current[d]))
                             THEN Version(i, event) ELSE current[d]
  BY CommitIs
<1>2. \A d \in Dimensions : Log!ShowsLatest(d)'
  <2>1. \A d \in Dimensions : Latest(d)'
    BY DEF ProjectionInv
  <2>2. \A d \in Dimensions : Latest(d)' <=> Log!ShowsLatest(d)'
    BY DEF Latest, Occurs, Log!ShowsLatest, Log!Of, Log!DimensionOf, DimensionOf, Log!Version, Version,
           Log!Newer, Newer, Log!Unrated, Unrated, Log!ValueOf, ValueOf
  <2> QED BY <2>1, <2>2
<1>3. \A d \in Dimensions \ {DimensionOf(event.action)} : current'[d] = current[d]
  BY <1>1
<1>4. Log!Append(i, event)
  BY <1>1, <1>2, <1>3 DEF Log!Append, Log!NoEvent, NoEvent, Log!Dimensions, Dimensions, Log!DimensionOf, DimensionOf
<1>5. event \in Log!Event
  BY DEF Log!Event, Event, Log!Actions, Actions
<1> QED BY <1>4, <1>5 DEF Log!LogNext

(* The events with their projected row implement the abstract review log:   *)
(* each commit appends its event and shows the latest, nothing else is seen. *)
THEOREM ProjectionRefinesLog == ProjectionSpec => ImplementsReviewLog
<1>1. ProjectionInit => Log!LogInit
  <2> SUFFICES ASSUME ProjectionInit PROVE Log!LogInit
    OBVIOUS
  <2>1. ProjectionInv
    BY ProjectionInitInv
  <2>2. \A d \in Dimensions : Log!ShowsLatest(d)
    BY <2>1, LatestShown DEF ProjectionInv
  <2>3. events \in [1..MaxEvents -> Event \cup {NoEvent}]
    BY <2>1 DEF ProjectionInv, ProjectionTypeOK, IdsFresh
  <2> QED BY <2>2, <2>3 DEF Log!LogInit, Log!Event, Event, Log!NoEvent, NoEvent, Log!Actions, Actions,
                            Log!Dimensions, Dimensions
<1>2. ProjectionInv /\ ProjectionInv' /\ [ProjectionNext]_projectionVars => [Log!LogNext]_(Log!logVars)
  <2> SUFFICES ASSUME ProjectionInv, ProjectionInv', [ProjectionNext]_projectionVars
               PROVE  Log!LogNext \/ UNCHANGED Log!logVars
    OBVIOUS
  <2>1. ASSUME NEW a \in Authors, AuthorCommits(a) PROVE Log!LogNext
    BY <2>1, LogStep
  <2>2. ASSUME NEW a \in Authors, NEW action \in Actions, EventInserted(a, action) PROVE UNCHANGED <<events, current>>
    BY <2>2 DEF EventInserted
  <2>3. StampClock \/ UNCHANGED projectionVars => UNCHANGED <<events, current>>
    BY DEF StampClock, projectionVars
  <2> QED BY <2>1, <2>2, <2>3, OtherInv DEF ProjectionNext, Log!logVars
<1> QED BY <1>1, <1>2, ProjectionInvariant, PTL DEF ProjectionSpec, ImplementsReviewLog, Log!LogSpec
=============================================================================
