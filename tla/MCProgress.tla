------------------------------ MODULE MCProgress ------------------------------
(* The services that have to get on, for TLC.  They share no state, so      *)
(* every behaviour is about one of them, chosen in the initial state: the   *)
(* others stay in one of their initial states.                              *)
EXTENDS TokenLookup, WorkAdmission, VisitRetention, TLC

VARIABLE focus \* the service that runs

vars == <<focus, lookupVars, workVars, retentionVars>>

Init ==
  /\ focus \in {"lookup", "work", "retention"}
  /\ LookupInit /\ (focus = "lookup" \/ (kind = "gallery" /\ target = 1 /\ rows[1] = "indexed" /\ ~ linked))
  /\ WorkInit
  /\ RetentionInit /\ (focus = "retention" \/ visits = {})

\* A step of one service leaves the others alone.
Lookup(A)    == focus = "lookup" /\ A /\ UNCHANGED <<focus, workVars, retentionVars>>
Work(A)      == focus = "work" /\ A /\ UNCHANGED <<focus, lookupVars, retentionVars>>
Retention(A) == focus = "retention" /\ A /\ UNCHANGED <<focus, lookupVars, workVars>>

Next == Lookup(LookupNext) \/ Work(WorkNext) \/ Retention(RetentionNext)

\* LookupFairness, WorkFairness and RetentionFairness of the service that runs.
Fairness ==
  /\ \A v \in Tabs : WF_vars(Lookup(TabContinues(v)))
  /\ \A t \in Tasks : WF_vars(Work(TaskRuns(t))) /\ WF_vars(Work(JobEnds(t))) /\ SF_vars(Work(SlotReturned(t)))
  /\ WF_vars(Retention(AdmissionReads)) /\ SF_vars(Retention(AdmissionLocks)) /\ SF_vars(Retention(AdmissionCommits))
  /\ \A v \in Visits : WF_vars(Retention(\E entered \in BOOLEAN : EntryEnds(v, entered)))

Spec == Init /\ [][Next]_vars /\ Fairness

===============================================================================
