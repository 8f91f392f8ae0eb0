------------------------------ MODULE MCServices ------------------------------
(* The small services around the galleries, for TLC.  They share no state,  *)
(* so every behaviour is about one of them, chosen in the initial state:    *)
(* the others stay in one of their initial states.                          *)
EXTENDS BackupRestore, LogoutLedger, TokenCutOff, SignupCaptcha, OwnerStorage, RequestBody, CsrfToken,
        SelectionProjection, GuestPages, Notifications, ArchiveExtraction, TokenLookup, TLC

VARIABLE focus \* the service that runs

vars == <<focus, backupVars, ledgerVars, cutOffVars, captchaVars, ownerVars, bodyVars, csrfVars,
          projectionVars, pagesVars, notificationVars, extractionVars, lookupVars>>

Services == {"backup", "ledger", "cutOff", "captcha", "owner", "body", "csrf", "projection", "pages",
             "notification", "extraction", "lookup"}

Init ==
  /\ focus \in Services
  /\ BackupInit     /\ (focus = "backup" \/ (backend = "local" /\ archive = NoFile /\ live = [i \in Images |-> "new"]))
  /\ LedgerInit /\ CutOffInit /\ CaptchaInit
  /\ OwnerInit      /\ (focus = "owner" \/ galleryRow = [g \in GalleryIds |-> "new"])
  /\ BodyInit       /\ (focus = "body" \/ (route = "upload" /\ declared = -1))
  /\ CsrfInit
  /\ ProjectionInit /\ (focus = "projection" \/ events[1].action = "select")
  /\ PagesInit      /\ (focus = "pages" \/ \A i \in Pictures : picture[i].at = "new" /\ picture[i].key = 1)
  /\ NotificationInit /\ ExtractionInit
  /\ LookupInit     /\ (focus = "lookup" \/ (kind = "gallery" /\ target = 1 /\ rows[1] = "indexed" /\ ~ linked))

\* Of the backups and restores together, at most MaxJobs are ever started.
MaxJobs == 3
Started == {b \in Backups : backup'[b].at # "idle"} \cup {r \in Restores : restore'[r].at # "idle"}

BackupRuns == focus = "backup" /\ BackupNext /\ Cardinality(Started) <= MaxJobs
  /\ UNCHANGED <<focus, ledgerVars, cutOffVars, captchaVars, ownerVars, bodyVars, csrfVars, projectionVars, pagesVars, notificationVars, extractionVars, lookupVars>>
LedgerRuns == focus = "ledger" /\ LedgerNext
  /\ UNCHANGED <<focus, backupVars, cutOffVars, captchaVars, ownerVars, bodyVars, csrfVars, projectionVars, pagesVars, notificationVars, extractionVars, lookupVars>>
CutOffRuns == focus = "cutOff" /\ CutOffNext
  /\ UNCHANGED <<focus, backupVars, ledgerVars, captchaVars, ownerVars, bodyVars, csrfVars, projectionVars, pagesVars, notificationVars, extractionVars, lookupVars>>
CaptchaRuns == focus = "captcha" /\ CaptchaNext
  /\ UNCHANGED <<focus, backupVars, ledgerVars, cutOffVars, ownerVars, bodyVars, csrfVars, projectionVars, pagesVars, notificationVars, extractionVars, lookupVars>>
OwnerRuns == focus = "owner" /\ OwnerNext
  /\ UNCHANGED <<focus, backupVars, ledgerVars, cutOffVars, captchaVars, bodyVars, csrfVars, projectionVars, pagesVars, notificationVars, extractionVars, lookupVars>>
BodyRuns == focus = "body" /\ BodyNext
  /\ UNCHANGED <<focus, backupVars, ledgerVars, cutOffVars, captchaVars, ownerVars, csrfVars, projectionVars, pagesVars, notificationVars, extractionVars, lookupVars>>
CsrfRuns == focus = "csrf" /\ CsrfNext
  /\ UNCHANGED <<focus, backupVars, ledgerVars, cutOffVars, captchaVars, ownerVars, bodyVars, projectionVars, pagesVars, notificationVars, extractionVars, lookupVars>>
ProjectionRuns == focus = "projection" /\ ProjectionNext
  /\ UNCHANGED <<focus, backupVars, ledgerVars, cutOffVars, captchaVars, ownerVars, bodyVars, csrfVars, pagesVars, notificationVars, extractionVars, lookupVars>>
PagesRun == focus = "pages" /\ PagesNext
  /\ UNCHANGED <<focus, backupVars, ledgerVars, cutOffVars, captchaVars, ownerVars, bodyVars, csrfVars, projectionVars, notificationVars, extractionVars, lookupVars>>
NotificationRuns == focus = "notification" /\ NotificationNext
  /\ UNCHANGED <<focus, backupVars, ledgerVars, cutOffVars, captchaVars, ownerVars, bodyVars, csrfVars, projectionVars, pagesVars, extractionVars, lookupVars>>
ExtractionRuns == focus = "extraction" /\ ExtractionNext
  /\ UNCHANGED <<focus, backupVars, ledgerVars, cutOffVars, captchaVars, ownerVars, bodyVars, csrfVars, projectionVars, pagesVars, notificationVars, lookupVars>>

LookupRuns == focus = "lookup" /\ LookupNext
  /\ UNCHANGED <<focus, backupVars, ledgerVars, cutOffVars, captchaVars, ownerVars, bodyVars, csrfVars, projectionVars, pagesVars, notificationVars, extractionVars>>

Next ==
  \/ BackupRuns \/ LedgerRuns \/ CutOffRuns \/ CaptchaRuns \/ OwnerRuns \/ BodyRuns \/ CsrfRuns
  \/ ProjectionRuns \/ PagesRun \/ NotificationRuns \/ ExtractionRuns \/ LookupRuns

Spec == Init /\ [][Next]_vars

-----------------------------------------------------------------------------
StoredKeys   == {<<"g1", 1>>, <<"g2", 1>>}
ArchivePaths == {<<"images">>, <<"images", "g">>, <<"images", "g", "a">>, <<"metadata.json">>}
=============================================================================
