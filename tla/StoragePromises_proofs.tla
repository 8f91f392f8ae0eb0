------------------------ MODULE StoragePromises_proofs ------------------------
(***************************************************************************)
(* What the fences of StorageLifecycle are held for: committed rows have   *)
(* their files, leftovers of an upload have their intent, a purged gallery *)
(* is empty and a compensation spares what is committed.  With them, that  *)
(* no task waits for a fence holding one, and that the tasks implement the *)
(* exclusive owner of the files, StorageOwnership.                         *)
(***************************************************************************)
EXTENDS StorageLifecycle_proofs, FiniteSetTheorems

(***************************************************************************)
(* What a step does to the tasks.                                          *)
(***************************************************************************)

Others(t) == \A s \in Tasks \ {t} :
  /\ pc'[s] = pc[s] /\ kind'[s] = kind[s] /\ gal'[s] = gal[s] /\ plan'[s] = plan[s]
  /\ attempted'[s] = attempted[s] /\ writing'[s] = writing[s]
  /\ added'[s] = added[s] /\ todo'[s] = todo[s]

Ended(t) ==
  /\ pc'[t] = "idle" /\ kind'[t] = "none" /\ plan'[t] = {} /\ attempted'[t] = {}
  /\ writing'[t] = {} /\ added'[t] = {} /\ todo'[t] = {}

RolledBack(t) ==
  /\ pc'[t] = "abort" /\ kind'[t] = kind[t] /\ gal'[t] = gal[t] /\ plan'[t] = plan[t]
  /\ attempted'[t] = attempted[t] /\ todo'[t] = todo[t]
  /\ writing'[t] = {} /\ added'[t] = {}

LEMMA EndEffect ==
  ASSUME TypeOK, NEW t \in Tasks, End(t)
  PROVE  Ended(t) /\ Others(t)
BY DEF TypeOK, End, Ended, Others

LEMMA RollBackEffect ==
  ASSUME TypeOK, NEW t \in Tasks, RollBack(t)
  PROVE  RolledBack(t) /\ Others(t)
BY DEF TypeOK, RollBack, RolledBack, Others

LEMMA StartEffect ==
  ASSUME StorageInv, NEW t \in Tasks, NEW k, NEW g, NEW keys, Start(t, k, g, keys)
  PROVE  /\ pc[t] = "idle" /\ kind'[t] = k /\ gal'[t] = g /\ plan'[t] = keys
         /\ attempted[t] = {} /\ writing[t] = {} /\ added[t] = {} /\ todo[t] = {}
         /\ plan[t] = {}
         /\ \A s \in Tasks \ {t} : kind'[s] = kind[s] /\ gal'[s] = gal[s] /\ plan'[s] = plan[s]
BY IdleTask DEF Start, StorageInv, TypeOK

(* A step of a task leaves the variables of all other tasks alone.         *)
LEMMA OthersStay ==
  ASSUME StorageInv, NEW t \in Tasks, TaskStep(t)
  PROVE  Others(t)
<1> TypeOK
  BY DEF StorageInv
<1> USE DEF Others, local
<1>1. ASSUME NEW k \in {"api", "web"}, NEW g \in Galleries, NEW imgs \in SUBSET Images,
             BeginUpload(t, k, g, imgs)
      PROVE  Others(t)
  BY <1>1 DEF BeginUpload, Start, TypeOK
<1>2. ASSUME NEW src \in Galleries, NEW g \in Galleries, NEW imgs \in SUBSET Images,
             BeginCopy(t, src, g, imgs)
      PROVE  Others(t)
  BY <1>2 DEF BeginCopy, Start, TypeOK
<1>3. ASSUME NEW k \in Keys, Reserve(t, k) PROVE Others(t)
  BY <1>3 DEF Reserve, TypeOK
<1>4. ASSUME NEW k \in Keys, ReserveFails(t, k) PROVE Others(t)
  BY <1>4 DEF ReserveFails, TypeOK
<1>5. CASE ReenterBatch(t)
  BY <1>5, RollBackEffect DEF ReenterBatch, TypeOK
<1>6. CASE PutDone(t)
  BY <1>6 DEF PutDone, TypeOK
<1>7. CASE PutFails(t)
  BY <1>7, RollBackEffect DEF PutFails, TypeOK
<1>8. CASE Abort(t)
  BY <1>8, RollBackEffect DEF Abort
<1>9. CASE CommitAcked(t)
  BY <1>9, EndEffect DEF CommitAcked
<1>10. CASE CommitAckLost(t)
  BY <1>10, RollBackEffect DEF CommitAckLost
<1>11. ASSUME NEW i \in Images, WorkerEnter(t, i) PROVE Others(t)
  BY <1>11 DEF WorkerEnter, Start, TypeOK
<1>12. ASSUME NEW i \in Images, WorkerNotAdmitted(t, i) PROVE Others(t)
  BY <1>12 DEF WorkerNotAdmitted, Start, TypeOK
<1>13. ASSUME NEW i \in Images, DeleteImage(t, i) PROVE Others(t)
  BY <1>13 DEF DeleteImage, Start, TypeOK
<1>14. CASE EnterRecovery(t)
  BY <1>14 DEF EnterRecovery, TypeOK
<1>15. CASE EnterMarkFailed(t)
  BY <1>15, EndEffect DEF EnterMarkFailed, TypeOK
<1>16. ASSUME NEW g \in Galleries, NEW imgs \in SUBSET Images, BulkDelete(t, g, imgs)
       PROVE  Others(t)
  BY <1>16 DEF BulkDelete, Start, TypeOK
<1>17. ASSUME NEW g \in Galleries, PurgeGallery(t, g) PROVE Others(t)
  BY <1>17 DEF PurgeGallery, Start, TypeOK
<1>18. CASE Erase(t)
  BY <1>18, EndEffect DEF Erase, TypeOK
<1>19. CASE Refund(t)
  BY <1>19 DEF Refund, TypeOK
<1>20. CASE Finish(t)
  BY <1>20, EndEffect DEF Finish
<1>21. CASE Vanish(t)
  BY <1>21, EndEffect DEF Vanish
<1>22. QED
  BY <1>1, <1>2, <1>3, <1>4, <1>5, <1>6, <1>7, <1>8, <1>9, <1>10, <1>11, <1>12, <1>13, <1>14,
     <1>15, <1>16, <1>17, <1>18, <1>19, <1>20, <1>21 DEF TaskStep

(* What the fences keep apart: a task that writes, and a task that deletes *)
(* or is about to change the rows of what it deleted.                      *)
LEMMA WritersUntouched ==
  ASSUME StorageInv, NEW p \in Tasks, NEW q \in Tasks,
         pc[p] \in {"write", "put"}, pc[q] \in {"erase", "refund", "finish"}
  PROVE  /\ gal[p] = gal[q] => kind[q] \in {"worker", "image"}
         /\ \A k \in plan[p] : ImageOf(k) \notin ImagesOf(plan[q]) /\ k \notin todo[q]
<1>1. gal[p] \in Galleries /\ p # q /\ p \in shared[gal[p]]
  BY DEF StorageInv, TypeOK, FencesHeld
<1>2. gal[p] = gal[q] => kind[q] \in {"worker", "image"}
  BY <1>1 DEF StorageInv, FencesHeld, FencesExclude
<1>3. ASSUME NEW k \in plan[p] PROVE ImageOf(k) \notin ImagesOf(plan[q])
  <2>1. SUFFICES ASSUME ImageOf(k) \in ImagesOf(plan[q]) PROVE FALSE
    OBVIOUS
  <2>2. k \in Keys /\ gal[p] = GalleryOf[ImageOf(k)] /\ ImageOf(k) \in Images
    BY <1>3, PartsFacts DEF StorageInv, TypeOK, TaskScope, KeysIn
  <2>3. PICK l \in plan[q] : ImageOf(l) = ImageOf(k)
    BY <2>1 DEF ImagesOf
  <2>4. gal[q] = GalleryOf[ImageOf(k)]
    BY <2>3 DEF StorageInv, TypeOK, TaskScope, KeysIn
  <2>5. q \in imageLock[ImageOf(k)] /\ kind[q] \in {"worker", "image"}
    BY <1>2, <2>1, <2>2, <2>4 DEF StorageInv, FencesHeld
  <2>6. ImageOf(k) \in ImagesOf(plan[p])
    BY <1>3 DEF ImagesOf
  <2>7. CASE kind[p] = "worker"
    BY <1>1, <2>2, <2>5, <2>6, <2>7 DEF StorageInv, FencesHeld, FencesExclude
  <2>8. CASE kind[p] # "worker"
    BY <1>1, <2>1, <2>6, <2>8 DEF StorageInv, FencesHeld, BatchPrivate
  <2>9. QED BY <2>7, <2>8
<1>4. ASSUME NEW k \in plan[p], k \in todo[q] PROVE FALSE
  <2>1. k \in Keys /\ gal[p] = GalleryOf[ImageOf(k)] /\ gal[q] = GalleryOf[ImageOf(k)]
    BY <1>4 DEF StorageInv, TypeOK, TaskScope, KeysIn
  <2>2. ImagesOf(todo[q]) \subseteq ImagesOf(plan[q])
    BY <1>2, <2>1 DEF StorageInv, TaskScope
  <2>3. ImageOf(k) \in ImagesOf(todo[q])
    BY <1>4 DEF ImagesOf
  <2>4. QED BY <1>3, <1>4, <2>2, <2>3
<1>5. QED BY <1>2, <1>3, <1>4

(***************************************************************************)
(* Rows.                                                                   *)
(***************************************************************************)

LEMMA PreviewsOnly ==
  ASSUME NEW i \in Images, NEW k \in CanonicalPreviewKeys(i)
  PROVE  k # Original(ImageOf(k))
BY ConstantsAssumption DEF CanonicalPreviewKeys, Original, ImageOf

(* Steps that change no row and no gallery need to be looked at only for   *)
(* the task that takes them.                                               *)
LEMMA RowsQuiet ==
  ASSUME RowsInv, NEW t \in Tasks, Others(t), TaskRows(t)',
         UNCHANGED <<gallery, row, previews>>, queued' \subseteq queued
  PROVE  RowsInv'
<1>1. \A s \in Tasks \ {t} : TaskRows(s)'
  BY DEF RowsInv, TaskRows, Others
<1>2. QED BY <1>1 DEF RowsInv

LEMMA RowsEnded ==
  ASSUME NEW t \in Tasks, Ended(t)
  PROVE  TaskRows(t)'
BY DEF Ended, TaskRows, BatchKinds

LEMMA RowsRolledBack ==
  ASSUME NEW t \in Tasks, TaskRows(t), RolledBack(t), UNCHANGED <<row, previews>>
  PROVE  TaskRows(t)'
BY DEF RolledBack, TaskRows, BatchKinds

(* What a commit makes known: images of the task's own plan, in its        *)
(* gallery, whose original is among the keys it took for stored.           *)
LEMMA CommitFacts ==
  ASSUME StorageInv, RowsInv, NEW t \in Tasks, CommitRows(t)
  PROVE  /\ pc[t] = "write" /\ kind[t] \in BatchKinds \cup {"worker"}
         /\ gal[t] \in Galleries /\ t \in shared[gal[t]]
         /\ gallery' = [gallery EXCEPT ![gal[t]] = "live"] \/ (UNCHANGED gallery /\ kind[t] = "worker")
         /\ gallery[gal[t]] \in {"claimed", "live"}
         /\ added[t] \subseteq plan[t] /\ plan[t] \in SUBSET Keys
         /\ \A i \in Images : row'[i] # row[i] =>
              /\ i \in ImagesOf(plan[t]) /\ GalleryOf[i] = gal[t]
              /\ kind[t] \in BatchKinds => row'[i] = "pending" /\ Original(i) \in added[t]
              /\ kind[t] = "worker" => row'[i] = "ready"
         /\ \A i \in Images : row[i] # "none" => row'[i] # "none"
         /\ kind[t] \in BatchKinds => \A i \in Images : Original(i) \in added[t] => row'[i] = "pending"
         /\ kind[t] = "worker" => \A i \in ImagesOf(plan[t]) : row'[i] = "ready"
         /\ \A k \in previews' \ previews : k \in added[t] /\ k # Original(ImageOf(k))
         /\ previews \subseteq previews'
<1>1. pc[t] = "write" /\ kind[t] \in BatchKinds \cup {"worker"} /\ gal[t] \in Galleries
      /\ t \in shared[gal[t]] /\ gallery[gal[t]] \in {"claimed", "live"}
  BY DEF CommitRows, StorageInv, TypeOK, FencesHeld, RowsInv, TaskRows
<1>2. added[t] \subseteq plan[t] /\ plan[t] \in SUBSET Keys
  BY <1>1 DEF StorageInv, TypeOK, TaskScope
<1>3. \A i \in ImagesOf(plan[t]) : i \in Images /\ GalleryOf[i] = gal[t]
  <2>1. plan[t] \subseteq KeysIn(gal[t])
    BY DEF StorageInv, TaskScope
  <2>2. QED BY <1>2, <2>1, PartsFacts DEF KeysIn, ImagesOf
<1>4. \A i \in Images : Original(i) \in added[t] => i \in ImagesOf(plan[t])
  BY <1>2, PartsFacts, ImagesOfFacts
<1>5. \A k \in previews' \ previews : k \in added[t] /\ k # Original(ImageOf(k))
  BY <1>2, PartsFacts DEF CommitRows
<1>6. previews \subseteq previews'
  BY DEF CommitRows
<1>7. CASE kind[t] = "worker"
  <2>1. row' = [i \in Images |-> IF i \in ImagesOf(plan[t]) THEN "ready" ELSE row[i]]
        /\ UNCHANGED gallery
    BY <1>7 DEF CommitRows
  <2>2. QED BY <1>1, <1>2, <1>3, <1>5, <1>6, <1>7, <2>1 DEF BatchKinds
<1>8. CASE kind[t] # "worker"
  <2>1. row' = [i \in Images |-> IF i \in StoredImages(t) THEN "pending" ELSE row[i]]
        /\ gallery' = [gallery EXCEPT ![gal[t]] = "live"]
    BY <1>8 DEF CommitRows
  <2>2. \A i \in Images : i \in StoredImages(t) <=> Original(i) \in added[t]
    BY DEF StoredImages
  <2>3. QED BY <1>1, <1>2, <1>3, <1>4, <1>5, <1>6, <1>8, <2>1, <2>2
<1>9. QED BY <1>7, <1>8

(* Nobody else works on the images that a task commits.                    *)
LEMMA CommitAlone ==
  ASSUME StorageInv, RowsInv, NEW t \in Tasks, CommitRows(t), NEW s \in Tasks, s # t,
         NEW i \in ImagesOf(plan[t]),
         \/ pc[s] \in {"write", "put", "erase", "refund", "finish"}
         \/ kind[t] \in BatchKinds
  PROVE  i \notin ImagesOf(plan[s])
<1>1. pc[t] = "write"
  BY DEF CommitRows
<1>2. CASE kind[t] \in BatchKinds
  BY <1>1, <1>2 DEF StorageInv, BatchPrivate
<1>3. CASE kind[t] \notin BatchKinds
  <2>1. kind[t] = "worker"
    BY <1>1, <1>3 DEF StorageInv, FencesHeld
  <2>2. CASE pc[s] \in {"erase", "refund", "finish"}
    BY <1>1, <2>2, WritersUntouched DEF ImagesOf
  <2>3. CASE pc[s] \in {"write", "put"}
    <3>1. SUFFICES ASSUME i \in ImagesOf(plan[s]) PROVE FALSE
      OBVIOUS
    <3>2. i \in Images /\ t \in imageLock[i]
      BY <1>1, <2>1, ImagesOfFacts DEF StorageInv, TypeOK, FencesHeld
    <3>3. CASE kind[s] = "worker"
      BY <2>3, <3>1, <3>2, <3>3 DEF StorageInv, FencesHeld, FencesExclude
    <3>4. CASE kind[s] # "worker"
      BY <2>3, <3>1, <3>4 DEF StorageInv, FencesHeld, BatchPrivate
    <3>5. QED BY <3>3, <3>4
  <2>4. QED BY <1>3, <2>2, <2>3
<1>4. QED BY <1>2, <1>3

LEMMA RowsCommit ==
  ASSUME StorageInv, RowsInv, NEW t \in Tasks, CommitRows(t), Others(t),
         Ended(t) \/ RolledBack(t),
         queued' \subseteq queued \cup (IF kind[t] = "web" THEN StoredImages(t) ELSE {})
  PROVE  RowsInv'
<1> USE CommitFacts
<1>1. ASSUME NEW i \in Images, row'[i] # "none" PROVE gallery'[GalleryOf[i]] = "live"
  <2>1. GalleryOf[i] \in Galleries /\ gallery \in [Galleries -> {"unused", "claimed", "live", "gone"}]
    BY ConstantsAssumption DEF StorageInv, TypeOK
  <2>2. CASE row[i] # "none"
    BY <2>1, <2>2 DEF RowsInv
  <2>3. CASE row[i] = "none"
    <3>1. i \in ImagesOf(plan[t]) /\ GalleryOf[i] = gal[t]
      BY <1>1, <2>3
    <3>2. kind[t] # "worker"
      BY <2>3, <3>1 DEF RowsInv, TaskRows
    <3>3. QED BY <2>1, <3>1, <3>2
  <2>4. QED BY <2>2, <2>3
<1>2. \A k \in previews' : k \in Keys /\ ImageOf(k) \in Images
  BY PartsFacts DEF StorageInv, TypeOK
<1>3. ASSUME NEW k \in previews' PROVE row'[ImageOf(k)] # "none"
  <2>1. CASE k \in previews
    BY <1>2, <2>1 DEF RowsInv
  <2>2. CASE k \notin previews
    <3>1. k \in added[t] /\ k # Original(ImageOf(k)) /\ ImageOf(k) \in ImagesOf(plan[t])
      BY <1>3, <2>2, ImagesOfFacts
    <3>2. kind[t] \in BatchKinds => Original(ImageOf(k)) \in added[t]
      BY <3>1 DEF RowsInv, TaskRows
    <3>3. QED BY <1>2, <1>3, <3>1, <3>2
  <2>3. QED BY <2>1, <2>2
<1>4. ASSUME NEW k \in previews', ImageOf(k) \in queued' PROVE row'[ImageOf(k)] = "ready"
  <2>1. CASE ImageOf(k) \in ImagesOf(plan[t]) /\ kind[t] = "worker"
    BY <2>1
  <2>2. CASE ImageOf(k) \in ImagesOf(plan[t]) /\ kind[t] # "worker"
    <3>1. row[ImageOf(k)] = "none" /\ ImageOf(k) \notin queued
      BY <2>2 DEF StorageInv, BatchPrivate
    <3>2. k \in added[t] /\ k # Original(ImageOf(k)) /\ k \in plan[t]
      BY <1>4, <3>1 DEF RowsInv
    <3>3. kind[t] = "web"
      BY <1>4, <3>1
    <3>4. QED BY <3>2, <3>3 DEF RowsInv, TaskRows
  <2>3. CASE ImageOf(k) \notin ImagesOf(plan[t])
    <3>1. k \in previews /\ row'[ImageOf(k)] = row[ImageOf(k)]
      BY <1>2, <1>4, <2>3, ImagesOfFacts
    <3>2. ImageOf(k) \in queued
      BY <1>2, <1>4, <2>3, PartsFacts, ImagesOfFacts DEF StoredImages
    <3>3. QED BY <3>1, <3>2 DEF RowsInv
  <2>4. QED BY <2>1, <2>2, <2>3
<1>5. ASSUME NEW s \in Tasks, s # t PROVE TaskRows(s)'
  <2>1. TaskRows(s)
    BY DEF RowsInv
  <2>2. /\ pc[s] \in {"write", "put"} => gallery'[gal[s]] \in {"claimed", "live"}
        /\ pc[s] = "gap" => gallery'[gal[s]] \in {"live", "gone"}
    BY <2>1 DEF TaskRows, StorageInv, TypeOK
  <2>3. ASSUME kind[s] = "worker", NEW i \in ImagesOf(plan[s])
        PROVE  /\ pc[s] \in {"write", "put"} => row'[i] # "none"
               /\ pc[s] \in {"erase", "refund", "finish"} => row'[i] # "ready"
               /\ \A k \in previews' : ImageOf(k) = i => row'[i] = "ready"
    <3>1. i \in Images
      BY ImagesOfFacts DEF StorageInv, TypeOK
    <3>2. CASE i \in ImagesOf(plan[t])
      <4>1. kind[t] = "worker" /\ pc[s] \notin {"erase", "refund", "finish", "write", "put"}
        BY <1>5, <2>3, <3>2, CommitAlone
      <4>2. QED BY <3>2, <4>1
    <3>3. CASE i \notin ImagesOf(plan[t])
      <4>1. row'[i] = row[i] /\ \A k \in previews' : ImageOf(k) = i => k \in previews
        BY <3>1, <3>3, ImagesOfFacts
      <4>2. QED BY <2>1, <2>3, <4>1 DEF TaskRows
    <3>4. QED BY <3>2, <3>3
  <2>4. /\ pc'[s] = pc[s] /\ kind'[s] = kind[s] /\ gal'[s] = gal[s] /\ plan'[s] = plan[s]
        /\ writing'[s] = writing[s] /\ added'[s] = added[s] /\ todo'[s] = todo[s]
    BY <1>5 DEF Others
  <2>5. QED BY <2>1, <2>2, <2>3, <2>4 DEF TaskRows
<1>6. TaskRows(t)'
  <2>1. CASE Ended(t)
    BY <2>1, RowsEnded
  <2>2. CASE RolledBack(t)
    <3>1. kind[t] = "worker" => \A i \in ImagesOf(plan[t]) : row'[i] = "ready"
      OBVIOUS
    <3>2. /\ kind[t] = "web" => \A k \in plan[t] : k = Original(ImageOf(k))
          /\ kind[t] = "worker" => \A k \in plan[t] \cup todo[t] : k # Original(ImageOf(k))
      BY DEF RowsInv, TaskRows
    <3>3. QED BY <2>2, <3>1, <3>2 DEF RolledBack, TaskRows, BatchKinds
  <2>3. QED BY <2>1, <2>2
<1>7. QED BY <1>1, <1>3, <1>4, <1>5, <1>6 DEF RowsInv

LEMMA FinishFacts ==
  ASSUME StorageInv, RowsInv, NEW t \in Tasks, Finish(t)
  PROVE  /\ pc[t] = "finish" /\ gal[t] \in Galleries
         /\ Ended(t) /\ Others(t) /\ UNCHANGED <<origin, store, queued>>
         /\ \A i \in Images : i \in Doomed(t) => row'[i] = "none"
         /\ \A i \in Images : i \notin Doomed(t) => row'[i] = row[i] \/ (row[i] # "none" /\ row'[i] = "failed")
         /\ \A i \in Images : row'[i] = "failed" \/ row'[i] = row[i] \/ row'[i] = "none"
         /\ \A i \in Images : row[i] = "ready" => i \in Doomed(t) \/ row'[i] = "ready"
         /\ \A k \in Keys : k \in previews' <=> k \in previews /\ ImageOf(k) \notin Doomed(t)
         /\ previews' \subseteq previews
         /\ gallery' = IF kind[t] = "purge" THEN [gallery EXCEPT ![gal[t]] = "gone"] ELSE gallery
<1>1. pc[t] = "finish" /\ End(t) /\ UNCHANGED <<origin, store, queued>>
  BY DEF Finish
<1>2. Ended(t) /\ Others(t) /\ gal[t] \in Galleries
  BY <1>1, EndEffect DEF StorageInv, TypeOK
<1>3. row' = [i \in Images |->
               IF i \in Doomed(t) THEN "none"
               ELSE IF kind[t] = "worker" /\ i \in ImagesOf(plan[t]) /\ row[i] # "none"
                 THEN "failed" ELSE row[i]]
  BY DEF Finish
<1>4. \A i \in Images : kind[t] = "worker" /\ i \in ImagesOf(plan[t]) => row[i] # "ready"
  BY <1>1 DEF RowsInv, TaskRows
<1>5. \A i \in Images : row[i] = "ready" => i \in Doomed(t) \/ row'[i] = "ready"
  BY <1>3, <1>4
<1>6. /\ previews' = {k \in previews : ImageOf(k) \notin Doomed(t)}
      /\ gallery' = IF kind[t] = "purge" THEN [gallery EXCEPT ![gal[t]] = "gone"] ELSE gallery
  BY DEF Finish
<1>7. QED BY <1>1, <1>2, <1>3, <1>5, <1>6

LEMMA RowsFinish ==
  ASSUME StorageInv, RowsInv, NEW t \in Tasks, Finish(t)
  PROVE  RowsInv'
<1> USE FinishFacts
<1>1. \A k \in previews' : k \in previews /\ k \in Keys /\ ImageOf(k) \in Images /\ ImageOf(k) \notin Doomed(t)
  BY PartsFacts DEF StorageInv, TypeOK
<1>2. ASSUME NEW i \in Images, row'[i] # "none" PROVE gallery'[GalleryOf[i]] = "live"
  <2>1. i \notin Doomed(t) /\ row[i] # "none"
    BY <1>2
  <2>2. kind[t] = "purge" => GalleryOf[i] # gal[t]
    BY <2>1 DEF Doomed, Committed
  <2>3. QED BY <2>1, <2>2, ConstantsAssumption DEF RowsInv, StorageInv, TypeOK
<1>3. ASSUME NEW s \in Tasks, s # t PROVE TaskRows(s)'
  <2>1. TaskRows(s)
    BY DEF RowsInv
  <2>2. ASSUME pc[s] \in {"write", "put"} PROVE gallery'[gal[s]] \in {"claimed", "live"}
    <3>1. kind[t] = "purge" => gal[s] # gal[t]
      BY <2>2, WritersUntouched
    <3>2. QED BY <2>1, <2>2, <3>1 DEF TaskRows, StorageInv, TypeOK
  <2>3. pc[s] = "gap" => gallery'[gal[s]] \in {"live", "gone"}
    BY <2>1 DEF TaskRows, StorageInv, TypeOK
  <2>4. ASSUME kind[s] = "worker", NEW i \in ImagesOf(plan[s])
        PROVE  /\ pc[s] \in {"write", "put"} => row'[i] # "none"
               /\ pc[s] \in {"erase", "refund", "finish"} => row'[i] # "ready"
               /\ \A k \in previews' : ImageOf(k) = i => row'[i] = "ready"
    <3>1. i \in Images
      BY ImagesOfFacts DEF StorageInv, TypeOK
    <3>2. ASSUME pc[s] \in {"write", "put"} PROVE i \notin Doomed(t)
      <4>1. PICK k \in plan[s] : ImageOf(k) = i
        BY DEF ImagesOf
      <4>2. i \notin ImagesOf(plan[t]) /\ (gal[s] = gal[t] => kind[t] \in {"worker", "image"})
        BY <3>2, <4>1, WritersUntouched
      <4>3. GalleryOf[i] = gal[s]
        BY <4>1 DEF StorageInv, TaskScope, KeysIn
      <4>4. QED BY <4>2, <4>3 DEF Doomed, Committed
    <3>3. pc[s] \in {"write", "put"} => row'[i] # "none"
      BY <2>1, <2>4, <3>1, <3>2 DEF TaskRows
    <3>4. pc[s] \in {"erase", "refund", "finish"} => row'[i] # "ready"
      BY <2>1, <2>4, <3>1 DEF TaskRows
    <3>5. \A k \in previews' : ImageOf(k) = i => row'[i] = "ready"
      BY <1>1, <2>1, <2>4, <3>1 DEF TaskRows
    <3>6. QED BY <3>3, <3>4, <3>5
  <2>5. /\ pc'[s] = pc[s] /\ kind'[s] = kind[s] /\ gal'[s] = gal[s] /\ plan'[s] = plan[s]
        /\ writing'[s] = writing[s] /\ added'[s] = added[s] /\ todo'[s] = todo[s]
    BY <1>3 DEF Others
  <2>6. QED BY <2>1, <2>2, <2>3, <2>4, <2>5 DEF TaskRows
<1>4. \A k \in previews' : /\ row'[ImageOf(k)] # "none"
                           /\ ImageOf(k) \in queued' => row'[ImageOf(k)] = "ready"
  BY <1>1 DEF RowsInv
<1>5. TaskRows(t)'
  BY RowsEnded
<1>6. QED BY <1>2, <1>3, <1>4, <1>5 DEF RowsInv

LEMMA RowsStep == StorageInv /\ RowsInv /\ [Next]_vars => RowsInv'
<1>a. SUFFICES ASSUME StorageInv, RowsInv, [Next]_vars PROVE RowsInv'
  OBVIOUS
<1>b. StorageInv /\ RowsInv
  BY <1>a
<1>c. ASSUME NEW t \in Tasks, TaskStep(t), TaskRows(t)', UNCHANGED <<gallery, row, previews>>,
             queued' \subseteq queued
      PROVE  RowsInv'
  BY <1>b, <1>c, OthersStay, RowsQuiet
<1> USE <1>b DEF database, store, fences, local
<1>d. ASSUME NEW t \in Tasks PROVE TypeOK /\ TaskRows(t)
  BY DEF StorageInv, RowsInv
<1>1. ASSUME NEW g \in Galleries, CreateGallery(g) PROVE RowsInv'
  BY <1>1 DEF CreateGallery, StorageInv, TypeOK, RowsInv, TaskRows
<1>2. ASSUME NEW t \in Tasks, TaskStep(t), NEW k \in {"api", "web"}, NEW g \in Galleries,
             NEW imgs \in SUBSET Images, BeginUpload(t, k, g, imgs)
      PROVE RowsInv'
  <2>1. /\ Start(t, k, g, PlannedKeys(k, imgs)) /\ pc' = [pc EXCEPT ![t] = "gap"]
        /\ gallery[g] = "live" /\ UNCHANGED <<gallery, row, previews, queued, writing, added>>
    BY <1>2 DEF BeginUpload
  <2>2. k = "web" => \A l \in PlannedKeys(k, imgs) : l = Original(ImageOf(l))
    BY PartsFacts DEF PlannedKeys
  <2>3. TaskRows(t)'
    BY <1>d, <2>1, <2>2, StartEffect DEF TaskRows, TypeOK
  <2>4. QED BY <1>2, <1>c, <2>1, <2>3
<1>3. ASSUME NEW t \in Tasks, TaskStep(t), ReenterBatch(t) PROVE RowsInv'
  <2>1. pc[t] = "gap" /\ UNCHANGED <<gallery, row, previews, queued>>
    BY <1>3 DEF ReenterBatch
  <2>2. CASE RollBack(t)
    BY <1>3, <1>c, <1>d, <2>1, <2>2, RollBackEffect, RowsRolledBack
  <2>3. CASE gallery[gal[t]] = "live" /\ pc' = [pc EXCEPT ![t] = "write"]
               /\ UNCHANGED <<exclusive, imageLock, local>>
    <3>1. kind[t] \in BatchKinds
      BY <2>1 DEF StorageInv, FencesHeld
    <3>2. TaskRows(t)'
      BY <1>d, <2>1, <2>3, <3>1 DEF TaskRows, TypeOK, BatchKinds
    <3>3. QED BY <1>3, <1>c, <2>1, <3>2
  <2>4. QED BY <1>3, <2>2, <2>3 DEF ReenterBatch
<1>4. ASSUME NEW t \in Tasks, TaskStep(t), NEW src \in Galleries, NEW g \in Galleries,
             NEW imgs \in SUBSET Images, BeginCopy(t, src, g, imgs)
      PROVE RowsInv'
  <2>1. PICK keys : Start(t, "copy", g, keys)
    BY <1>4 DEF BeginCopy
  <2>2. /\ pc' = [pc EXCEPT ![t] = "write"] /\ gallery[g] = "unused"
        /\ gallery' = [gallery EXCEPT ![g] = "claimed"]
        /\ UNCHANGED <<row, previews, queued, writing, added>>
    BY <1>4 DEF BeginCopy
  <2>3. TaskRows(t)'
    BY <1>d, <2>1, <2>2, StartEffect DEF TaskRows, TypeOK
  <2>4. \A s \in Tasks \ {t} : TaskRows(s)'
    BY <1>4, <2>2, OthersStay DEF StorageInv, TypeOK, RowsInv, TaskRows, Others
  <2>5. QED BY <2>2, <2>3, <2>4, ConstantsAssumption DEF RowsInv, StorageInv, TypeOK
<1>5. ASSUME NEW t \in Tasks, TaskStep(t), NEW k \in Keys, Reserve(t, k) PROVE RowsInv'
  <2>1. pc[t] = "write" /\ kind[t] \in BatchKinds \cup {"worker"}
    BY <1>5 DEF Reserve, StorageInv, FencesHeld
  <2>2. k = Original(ImageOf(k)) \/ Original(ImageOf(k)) \in added[t] \/ kind[t] = "worker"
    BY <1>5 DEF Reserve, Remaining
  <2>3. /\ pc' = [pc EXCEPT ![t] = "put"] /\ writing' = [writing EXCEPT ![t] = {k}]
        /\ UNCHANGED <<database, queued, kind, gal, plan, added, todo>>
    BY <1>5 DEF Reserve
  <2>4. TaskRows(t)'
    BY <1>d, <2>1, <2>2, <2>3 DEF TaskRows, TypeOK, BatchKinds
  <2>5. QED BY <1>5, <1>c, <2>3, <2>4
<1>6. ASSUME NEW t \in Tasks, TaskStep(t), NEW k \in Keys, ReserveFails(t, k) PROVE RowsInv'
  <2>1. /\ pc[t] = "write" /\ pc'[t] \in {"write", "abort"}
        /\ writing' = writing /\ added'[t] \in {added[t], {}}
        /\ pc'[t] = "write" => added'[t] = added[t]
        /\ UNCHANGED <<database, queued, kind, gal, plan, todo>>
    BY <1>6, <1>d DEF ReserveFails, TypeOK
  <2>2. writing[t] = {}
    BY <2>1 DEF StorageInv, WritesReserved
  <2>3. TaskRows(t)'
    BY <1>d, <2>1, <2>2 DEF TaskRows
  <2>4. QED BY <1>6, <1>c, <2>1, <2>3
<1>7. ASSUME NEW t \in Tasks, TaskStep(t), PutDone(t) PROVE RowsInv'
  <2>1. TaskRows(t)'
    BY <1>7, <1>d DEF PutDone, TaskRows, TypeOK
  <2>2. QED BY <1>7, <1>c, <2>1 DEF PutDone
<1>8. ASSUME NEW t \in Tasks, TaskStep(t), PutFails(t) PROVE RowsInv'
  <2>1. pc[t] = "put" /\ UNCHANGED <<gallery, row, previews, queued>>
    BY <1>8 DEF PutFails
  <2>2. CASE RollBack(t)
    BY <1>8, <1>c, <1>d, <2>1, <2>2, RollBackEffect, RowsRolledBack
  <2>3. CASE writing' = [writing EXCEPT ![t] = {}] /\ pc' = [pc EXCEPT ![t] = "write"]
               /\ UNCHANGED <<fences, kind, gal, plan, attempted, added, todo>>
    <3>1. TaskRows(t)'
      BY <1>d, <2>1, <2>3 DEF TaskRows, TypeOK
    <3>2. QED BY <1>8, <1>c, <2>1, <3>1
  <2>4. QED BY <1>8, <2>2, <2>3 DEF PutFails
<1>9. ASSUME NEW t \in Tasks, TaskStep(t), Abort(t) PROVE RowsInv'
  BY <1>9, <1>c, <1>d, RollBackEffect, RowsRolledBack DEF Abort
<1>10. ASSUME NEW t \in Tasks, CommitAcked(t) PROVE RowsInv'
  BY <1>10, <1>d, EndEffect, RowsCommit DEF CommitAcked
<1>11. ASSUME NEW t \in Tasks, CommitAckLost(t) PROVE RowsInv'
  BY <1>11, <1>d, RollBackEffect, RowsCommit DEF CommitAckLost
<1>12. ASSUME NEW t \in Tasks, TaskStep(t), NEW i \in Images, i \in queued,
              Start(t, "worker", GalleryOf[i], CanonicalPreviewKeys(i)),
              row[i] \notin {"none", "ready"} \/ pc'[t] = "abort", pc'[t] \in {"write", "abort"},
              UNCHANGED <<gallery, row, previews, added, writing, todo>>, queued' \subseteq queued
       PROVE RowsInv'
  <2>1. /\ \A j \in ImagesOf(CanonicalPreviewKeys(i)) : j = i
        /\ \A k \in CanonicalPreviewKeys(i) : k # Original(ImageOf(k))
    BY PartsFacts, PreviewsOnly
  <2>2. row[i] # "none" => gallery[GalleryOf[i]] = "live"
    BY DEF RowsInv
  <2>3. \A k \in previews : ImageOf(k) = i => row[i] = "ready"
    BY <1>12 DEF RowsInv
  <2>4. TaskRows(t)'
    BY <1>12, <1>d, <2>1, <2>2, <2>3, StartEffect DEF TaskRows, BatchKinds
  <2>5. QED BY <1>12, <1>c, <2>4
<1>13. ASSUME NEW t \in Tasks, TaskStep(t), NEW i \in Images, WorkerEnter(t, i) PROVE RowsInv'
  <2>1. i \in queued /\ queued' = queued \ {i} /\ UNCHANGED <<database, store>>
    BY <1>13 DEF WorkerEnter
  <2>2. CASE UNCHANGED <<fences, pc, local>>
    <3>1. TaskRows(t)'
      BY <1>d, <2>1, <2>2 DEF TaskRows
    <3>2. QED BY <1>13, <1>c, <2>1, <3>1
  <2>3. CASE ~ UNCHANGED <<fences, pc, local>>
    <3>1. /\ Start(t, "worker", GalleryOf[i], CanonicalPreviewKeys(i))
          /\ row[i] \notin {"none", "ready"} /\ UNCHANGED <<added, writing, todo>>
          /\ pc' = [pc EXCEPT ![t] = "write"] \/ pc' = [pc EXCEPT ![t] = "abort"]
      BY <1>13, <2>3 DEF WorkerEnter
    <3>2. pc'[t] \in {"write", "abort"}
      BY <1>d, <3>1 DEF TypeOK
    <3>3. QED BY <1>12, <1>13, <2>1, <3>1, <3>2
  <2>4. QED BY <2>2, <2>3
<1>14. ASSUME NEW t \in Tasks, TaskStep(t), NEW i \in Images, WorkerNotAdmitted(t, i) PROVE RowsInv'
  <2>1. pc'[t] = "abort"
    BY <1>14, <1>d DEF WorkerNotAdmitted, TypeOK
  <2>2. QED BY <1>12, <1>14, <2>1 DEF WorkerNotAdmitted
<1>15. ASSUME NEW i \in Images, QueueLost(i) PROVE RowsInv'
  BY <1>15 DEF QueueLost, RowsInv, TaskRows
<1>16. ASSUME NEW t \in Tasks, TaskStep(t), EnterRecovery(t) PROVE RowsInv'
  <2>1. TaskRows(t)'
    BY <1>16, <1>d DEF EnterRecovery, TaskRows, TypeOK, BatchKinds
  <2>2. QED BY <1>16, <1>c, <2>1 DEF EnterRecovery
<1>17. ASSUME NEW t \in Tasks, TaskStep(t), EnterMarkFailed(t) PROVE RowsInv'
  <2>1. pc[t] = "abort" /\ kind[t] = "worker" /\ UNCHANGED <<gallery, row, previews, queued>>
    BY <1>17 DEF EnterMarkFailed
  <2>2. CASE End(t)
    BY <1>17, <1>c, <1>d, <2>1, <2>2, EndEffect, RowsEnded
  <2>3. CASE ~ End(t)
    <3>1. PICK i \in ImagesOf(plan[t]) :
            /\ row[i] # "ready" /\ pc' = [pc EXCEPT ![t] = "erase"]
            /\ UNCHANGED <<kind, gal, plan, writing, added>>
      BY <1>17, <2>3 DEF EnterMarkFailed
    <3>2. /\ \A j \in ImagesOf(plan[t]) : j = i
          /\ attempted[t] \subseteq plan[t]
      BY <2>1 DEF StorageInv, TaskScope
    <3>3. todo'[t] = attempted[t]
      BY <1>17, <1>d, <2>3 DEF EnterMarkFailed, TypeOK
    <3>4. TaskRows(t)'
      BY <1>d, <2>1, <3>1, <3>2, <3>3 DEF TaskRows, TypeOK, BatchKinds
    <3>5. QED BY <1>17, <1>c, <2>1, <3>4
  <2>4. QED BY <2>2, <2>3
<1>18. ASSUME NEW t \in Tasks, TaskStep(t), pc' = [pc EXCEPT ![t] = "erase"], kind'[t] \in DeleteKinds,
              UNCHANGED <<gallery, row, previews, queued>>
       PROVE RowsInv'
  <2>1. TaskRows(t)'
    BY <1>18, <1>d DEF TaskRows, TypeOK, DeleteKinds, BatchKinds
  <2>2. QED BY <1>18, <1>c, <2>1
<1>19. ASSUME NEW t \in Tasks, TaskStep(t), NEW i \in Images, DeleteImage(t, i) PROVE RowsInv'
  <2>1. kind'[t] \in DeleteKinds
    BY <1>19, StartEffect DEF DeleteImage, DeleteKinds
  <2>2. QED BY <1>18, <1>19, <2>1 DEF DeleteImage
<1>20. ASSUME NEW t \in Tasks, TaskStep(t), NEW g \in Galleries, NEW imgs \in SUBSET Images,
              BulkDelete(t, g, imgs)
       PROVE RowsInv'
  <2>1. kind'[t] \in DeleteKinds
    BY <1>20, StartEffect DEF BulkDelete, DeleteKinds
  <2>2. QED BY <1>18, <1>20, <2>1 DEF BulkDelete
<1>21. ASSUME NEW t \in Tasks, TaskStep(t), NEW g \in Galleries, PurgeGallery(t, g) PROVE RowsInv'
  <2>1. kind'[t] \in DeleteKinds
    BY <1>21, StartEffect DEF PurgeGallery, DeleteKinds
  <2>2. QED BY <1>18, <1>21, <2>1 DEF PurgeGallery
<1>22. ASSUME NEW t \in Tasks, TaskStep(t), Erase(t) PROVE RowsInv'
  <2>1. pc[t] = "erase" /\ UNCHANGED <<gallery, row, previews, queued>>
    BY <1>22 DEF Erase
  <2>2. CASE End(t)
    BY <1>22, <1>c, <1>d, <2>1, <2>2, EndEffect, RowsEnded
  <2>3. CASE ~ End(t)
    <3>1. /\ pc' = [pc EXCEPT ![t] = "refund"] \/ pc' = [pc EXCEPT ![t] = "finish"]
          /\ UNCHANGED local
      BY <1>22, <2>3 DEF Erase
    <3>2. TaskRows(t)'
      BY <1>d, <2>1, <3>1 DEF TaskRows, TypeOK
    <3>3. QED BY <1>22, <1>c, <2>1, <3>2
  <2>4. QED BY <2>2, <2>3
<1>23. ASSUME NEW t \in Tasks, TaskStep(t), Refund(t) PROVE RowsInv'
  <2>1. /\ pc[t] = "refund" /\ UNCHANGED <<database, queued, kind, gal, plan, writing>>
        /\ pc' = [pc EXCEPT ![t] = "erase"] \/ pc' = [pc EXCEPT ![t] = "finish"]
        /\ kind[t] # "bulk" => added' = added /\ todo' = todo
    BY <1>23 DEF Refund
  <2>2. TaskRows(t)'
    BY <1>d, <2>1 DEF TaskRows, TypeOK, BatchKinds
  <2>3. QED BY <1>23, <1>c, <2>1, <2>2
<1>24. ASSUME NEW t \in Tasks, Finish(t) PROVE RowsInv'
  BY <1>24, RowsFinish
<1>25. ASSUME NEW t \in Tasks, TaskStep(t), Vanish(t) PROVE RowsInv'
  BY <1>25, <1>c, <1>d, EndEffect, RowsEnded DEF Vanish
<1>26. CASE UNCHANGED vars
  BY <1>26 DEF vars, RowsInv, TaskRows
<1>27. ASSUME NEW t \in Tasks, TaskStep(t) PROVE RowsInv'
  BY <1>27, <1>2, <1>3, <1>4, <1>5, <1>6, <1>7, <1>8, <1>9, <1>10, <1>11, <1>13, <1>14, <1>16, <1>17,
     <1>19, <1>20, <1>21, <1>22, <1>23, <1>24, <1>25 DEF TaskStep
<1>28. QED BY <1>a, <1>1, <1>15, <1>26, <1>27 DEF Next

(***************************************************************************)
(* Files.                                                                  *)
(***************************************************************************)

LEMMA FilesQuiet ==
  ASSUME FilesInv, NEW t \in Tasks, Others(t), TaskFiles(t)',
         UNCHANGED <<gallery, intents, store>>
  PROVE  FilesInv'
<1>1. UNCHANGED <<allocated, objects>>
  BY DEF store
<1>2. \A s \in Tasks \ {t} : TaskFiles(s)'
  BY <1>1 DEF FilesInv, TaskFiles, DoomedKeys, Outstanding, Others
<1>3. QED BY <1>1, <1>2 DEF FilesInv, IntentsOf

LEMMA FilesEnded ==
  ASSUME NEW t \in Tasks, Ended(t)
  PROVE  TaskFiles(t)'
BY DEF Ended, TaskFiles, DeleteKinds

LEMMA FilesRolledBack ==
  ASSUME StorageInv, NEW t \in Tasks, pc[t] \in {"gap", "write", "put"}, RolledBack(t)
  PROVE  TaskFiles(t)'
<1>1. kind[t] \notin DeleteKinds
  BY DEF StorageInv, FencesHeld, BatchKinds, DeleteKinds
<1>2. QED BY <1>1 DEF RolledBack, TaskFiles

(* A key that is about to be written is not doomed.                        *)
LEMMA DoomedApart ==
  ASSUME StorageInv, NEW p \in Tasks, NEW q \in Tasks, pc[p] \in {"write", "put"},
         kind[q] \in DeleteKinds, NEW k \in plan[p]
  PROVE  k \notin DoomedKeys(q)
<1>1. pc[q] \in {"erase", "refund", "finish", "idle"}
  BY DEF StorageInv, TypeOK, FencesHeld, PCs, DeleteKinds, BatchKinds
<1>2. gal[p] \in Galleries /\ k \in KeysIn(gal[p])
  BY DEF StorageInv, TypeOK, TaskScope
<1>3. CASE pc[q] = "idle"
  <2>1. plan[q] = {} /\ gal[q] = None
    BY <1>3, IdleTask
  <2>2. GalleryOf[ImageOf(k)] # None
    BY <1>2, ConstantsAssumption DEF KeysIn
  <2>3. QED BY <2>1, <2>2, ImagesOfFacts DEF DoomedKeys, KeysIn
<1>4. CASE pc[q] # "idle"
  <2>1. ImageOf(k) \notin ImagesOf(plan[q]) /\ (kind[q] = "purge" => gal[p] # gal[q])
    BY <1>1, <1>4, WritersUntouched
  <2>2. QED BY <1>2, <2>1 DEF DoomedKeys, KeysIn
<1>5. QED BY <1>3, <1>4

LEMMA PlannedNonempty ==
  ASSUME NEW imgs \in SUBSET Images, imgs # {}, NEW k
  PROVE  PlannedKeys(k, imgs) # {}
BY DEF PlannedKeys

(* Bytes that land make nobody's files disappear.                          *)
LEMMA FilesLand ==
  ASSUME FilesInv, NEW t \in Tasks, Others(t), TaskFiles(t)', objects \subseteq objects',
         UNCHANGED <<gallery, intents, allocated>>
  PROVE  FilesInv'
<1>1. \A s \in Tasks \ {t} : TaskFiles(s)'
  BY DEF FilesInv, TaskFiles, DoomedKeys, Outstanding, Others
<1>2. QED BY <1>1 DEF FilesInv, IntentsOf

LEMMA FilesCommit ==
  ASSUME StorageInv, RowsInv, FilesInv, NEW t \in Tasks, CommitRows(t), Others(t),
         Ended(t) \/ RolledBack(t), UNCHANGED store
  PROVE  FilesInv'
<1>1. intents' \subseteq intents /\ pc[t] = "write"
  BY DEF CommitRows
<1>2. UNCHANGED <<allocated, objects>>
  BY DEF store
<1>3. \A g \in Galleries : gallery'[g] = "gone" => gallery[g] = "gone"
  BY CommitFacts DEF StorageInv, TypeOK
<1>4. \A s \in Tasks \ {t} : TaskFiles(s)'
  BY <1>2 DEF FilesInv, TaskFiles, DoomedKeys, Outstanding, Others
<1>5. TaskFiles(t)'
  BY <1>1, FilesEnded, FilesRolledBack
<1>6. QED BY <1>1, <1>2, <1>3, <1>4, <1>5 DEF FilesInv, IntentsOf

LEMMA FilesFinish ==
  ASSUME StorageInv, RowsInv, FilesInv, NEW t \in Tasks, Finish(t)
  PROVE  FilesInv'
<1>1. /\ pc[t] = "finish" /\ gal[t] \in Galleries /\ Ended(t) /\ Others(t)
      /\ UNCHANGED <<allocated, objects>>
      /\ gallery' = IF kind[t] = "purge" THEN [gallery EXCEPT ![gal[t]] = "gone"] ELSE gallery
  BY FinishFacts DEF store
<1>2. /\ intents' \subseteq intents
      /\ kind[t] = "purge" => intents' = intents \ IntentsOf(gal[t])
  BY DEF Finish, BatchKinds
<1>3. kind[t] = "purge" => allocated \cap KeysIn(gal[t]) = {}
  BY <1>1 DEF FilesInv, TaskFiles, DoomedKeys, Outstanding, DeleteKinds
<1>4. \A s \in Tasks : TaskFiles(s)'
  BY <1>1, FilesEnded DEF FilesInv, TaskFiles, DoomedKeys, Outstanding, Others
<1>5. ASSUME NEW g \in Galleries, gallery'[g] = "gone"
      PROVE  allocated \cap KeysIn(g) = {} /\ \A s \in intents' : ~ (s \subseteq KeysIn(g))
  <2>1. CASE kind[t] = "purge" /\ g = gal[t]
    BY <1>2, <1>3, <2>1 DEF IntentsOf
  <2>2. CASE ~ (kind[t] = "purge" /\ g = gal[t])
    <3>1. gallery[g] = "gone"
      BY <1>1, <1>5, <2>2 DEF StorageInv, TypeOK
    <3>2. QED BY <1>2, <3>1 DEF FilesInv, IntentsOf
  <2>3. QED BY <2>1, <2>2
<1>6. QED BY <1>1, <1>2, <1>4, <1>5 DEF FilesInv, IntentsOf

(* Each key of the ledger that belongs to an image is among the keys a     *)
(* deletion of the image loads.                                            *)
LEMMA TrackedCovers ==
  ASSUME NEW i, NEW k \in allocated, ImageOf(k) = i
  PROVE  k \in TrackedKeys(i)
BY DEF TrackedKeys

LEMMA FilesStep == StorageInv /\ RowsInv /\ FilesInv /\ [Next]_vars => FilesInv'
<1>a. SUFFICES ASSUME StorageInv, RowsInv, FilesInv, [Next]_vars PROVE FilesInv'
  OBVIOUS
<1>b. StorageInv /\ RowsInv /\ FilesInv
  BY <1>a
<1>c. ASSUME NEW t \in Tasks, TaskStep(t), TaskFiles(t)', UNCHANGED <<gallery, intents, store>>
      PROVE  FilesInv'
  BY <1>b, <1>c, OthersStay, FilesQuiet
<1> USE <1>b DEF database, store, fences, local
<1>d. ASSUME NEW t \in Tasks PROVE TypeOK /\ TaskFiles(t)
  BY DEF StorageInv, FilesInv
<1>e. ASSUME NEW t \in Tasks, pc[t] \in {"gap", "write", "put", "abort"}
      PROVE  kind[t] \notin DeleteKinds
  BY <1>e DEF StorageInv, FencesHeld, BatchKinds, DeleteKinds
<1>1. ASSUME NEW g \in Galleries, CreateGallery(g) PROVE FilesInv'
  BY <1>1 DEF CreateGallery, StorageInv, TypeOK, FilesInv, TaskFiles, DoomedKeys, Outstanding, IntentsOf
<1>2. ASSUME NEW t \in Tasks, TaskStep(t), NEW k \in {"api", "web"}, NEW g \in Galleries,
             NEW imgs \in SUBSET Images, BeginUpload(t, k, g, imgs)
      PROVE FilesInv'
  <2> DEFINE keys == PlannedKeys(k, imgs)
  <2>1. /\ Start(t, k, g, keys) /\ pc' = [pc EXCEPT ![t] = "gap"]
        /\ gallery[g] = "live" /\ UNCHANGED <<gallery, store, added>>
        /\ intents' = intents \cup {keys} /\ imgs # {} /\ \A i \in imgs : GalleryOf[i] = g
    BY <1>2 DEF BeginUpload, Fresh
  <2>2. keys # {} /\ keys \subseteq Keys /\ ImagesOf(keys) = imgs
    BY <2>1, PlannedNonempty, PlannedKeysFacts
  <2> HIDE DEF keys
  <2>3. \A h \in Galleries : h # g => ~ (keys \subseteq KeysIn(h))
    BY <2>1, <2>2, ImagesOfFacts DEF KeysIn
  <2>4. TaskFiles(t)'
    BY <1>d, <2>1, StartEffect DEF TaskFiles, TypeOK, DeleteKinds
  <2>5. \A s \in Tasks \ {t} : TaskFiles(s)'
    BY <1>2, <2>1, OthersStay DEF FilesInv, TaskFiles, DoomedKeys, Outstanding, Others
  <2>6. QED BY <2>1, <2>2, <2>3, <2>4, <2>5 DEF FilesInv, IntentsOf
<1>3. ASSUME NEW t \in Tasks, TaskStep(t), ReenterBatch(t) PROVE FilesInv'
  <2>1. pc[t] = "gap" /\ UNCHANGED <<gallery, intents, store>>
    BY <1>3 DEF ReenterBatch
  <2>2. CASE RollBack(t)
    BY <1>3, <1>c, <1>d, <2>1, <2>2, RollBackEffect, FilesRolledBack
  <2>3. CASE pc' = [pc EXCEPT ![t] = "write"] /\ UNCHANGED <<exclusive, imageLock, local>>
    <3>1. added[t] \subseteq objects
      BY <2>1 DEF FilesInv, TaskFiles
    <3>2. TaskFiles(t)'
      BY <1>d, <1>e, <2>1, <2>3, <3>1 DEF TaskFiles, TypeOK
    <3>3. QED BY <1>3, <1>c, <2>1, <3>2
  <2>4. QED BY <1>3, <2>2, <2>3 DEF ReenterBatch
<1>4. ASSUME NEW t \in Tasks, TaskStep(t), NEW src \in Galleries, NEW g \in Galleries,
             NEW imgs \in SUBSET Images, BeginCopy(t, src, g, imgs)
      PROVE FilesInv'
  <2>1. PICK keys : Start(t, "copy", g, keys)
    BY <1>4 DEF BeginCopy
  <2>2. /\ gallery' = [gallery EXCEPT ![g] = "claimed"] /\ UNCHANGED <<intents, store, added>>
    BY <1>4 DEF BeginCopy
  <2>3. TaskFiles(t)'
    BY <2>1, <2>2, StartEffect DEF TaskFiles, DeleteKinds
  <2>4. \A s \in Tasks \ {t} : TaskFiles(s)'
    BY <1>4, <2>2, OthersStay DEF FilesInv, TaskFiles, DoomedKeys, Outstanding, Others
  <2>5. QED BY <2>2, <2>3, <2>4 DEF FilesInv, StorageInv, TypeOK, IntentsOf
<1>5. ASSUME NEW t \in Tasks, TaskStep(t), NEW k \in Keys, Reserve(t, k) PROVE FilesInv'
  <2>1. /\ pc[t] = "write" /\ k \in plan[t] /\ allocated' = allocated \cup {k}
        /\ UNCHANGED <<database, objects, kind, added>>
    BY <1>5 DEF Reserve, Remaining
  <2>2. k \in KeysIn(gal[t]) /\ gallery[gal[t]] # "gone" /\ gal[t] \in Galleries
    BY <2>1 DEF RowsInv, TaskRows, StorageInv, TypeOK, TaskScope
  <2>3. TaskFiles(t)'
    BY <1>5, <1>d, <1>e, <2>1 DEF Reserve, TaskFiles, TypeOK
  <2>4. ASSUME NEW s \in Tasks, s # t PROVE TaskFiles(s)'
    <3>1. kind[s] \in DeleteKinds => k \notin DoomedKeys(s)
      BY <2>1, DoomedApart
    <3>2. Others(t)
      BY <1>5, OthersStay
    <3>3. QED BY <1>d, <2>1, <2>4, <3>1, <3>2 DEF TaskFiles, DoomedKeys, Outstanding, Others
  <2>5. \A h \in Galleries : gallery[h] = "gone" => k \notin KeysIn(h)
    BY <2>2 DEF KeysIn
  <2>6. QED BY <2>1, <2>3, <2>4, <2>5 DEF FilesInv, IntentsOf
<1>6. ASSUME NEW t \in Tasks, TaskStep(t), NEW k \in Keys, ReserveFails(t, k) PROVE FilesInv'
  <2>1. /\ pc[t] = "write" /\ pc'[t] \in {"write", "abort"}
        /\ added'[t] \in {added[t], {}} /\ UNCHANGED <<database, store, kind>>
    BY <1>6, <1>d DEF ReserveFails, TypeOK
  <2>2. TaskFiles(t)'
    BY <1>d, <1>e, <2>1 DEF TaskFiles
  <2>3. QED BY <1>6, <1>c, <2>1, <2>2
<1>7. ASSUME NEW t \in Tasks, TaskStep(t), PutDone(t) PROVE FilesInv'
  <2>1. TaskFiles(t)'
    BY <1>7, <1>d, <1>e DEF PutDone, TaskFiles, TypeOK
  <2>2. QED BY <1>7, <2>1, OthersStay, FilesLand DEF PutDone
<1>8. ASSUME NEW t \in Tasks, TaskStep(t), PutFails(t) PROVE FilesInv'
  <2>1. pc[t] = "put" /\ UNCHANGED <<gallery, intents, allocated>> /\ objects \subseteq objects'
    BY <1>8 DEF PutFails
  <2>2. CASE RollBack(t)
    BY <1>8, <1>d, <2>1, <2>2, RollBackEffect, FilesRolledBack, FilesLand
  <2>3. CASE pc' = [pc EXCEPT ![t] = "write"] /\ UNCHANGED <<kind, added>>
    <3>1. TaskFiles(t)'
      BY <1>d, <1>e, <2>1, <2>3 DEF TaskFiles, TypeOK
    <3>2. QED BY <1>8, <2>1, <3>1, OthersStay, FilesLand
  <2>4. QED BY <1>8, <2>2, <2>3 DEF PutFails
<1>9. ASSUME NEW t \in Tasks, TaskStep(t), Abort(t) PROVE FilesInv'
  BY <1>9, <1>c, <1>d, RollBackEffect, FilesRolledBack DEF Abort
<1>10. ASSUME NEW t \in Tasks, CommitAcked(t) PROVE FilesInv'
  BY <1>10, <1>d, EndEffect, FilesCommit DEF CommitAcked
<1>11. ASSUME NEW t \in Tasks, CommitAckLost(t) PROVE FilesInv'
  BY <1>11, <1>d, RollBackEffect, FilesCommit DEF CommitAckLost
<1>12. ASSUME NEW t \in Tasks, TaskStep(t), NEW i \in Images, WorkerEnter(t, i) PROVE FilesInv'
  <2>1. UNCHANGED <<gallery, intents, store>>
    BY <1>12 DEF WorkerEnter
  <2>2. CASE UNCHANGED <<fences, pc, local>>
    <3>1. TaskFiles(t)'
      BY <1>d, <2>1, <2>2 DEF TaskFiles, DoomedKeys, Outstanding
    <3>2. QED BY <1>12, <1>c, <2>1, <3>1
  <2>3. CASE ~ UNCHANGED <<fences, pc, local>>
    <3>1. Start(t, "worker", GalleryOf[i], CanonicalPreviewKeys(i)) /\ UNCHANGED <<added, store>>
      BY <1>12, <2>3 DEF WorkerEnter
    <3>2. TaskFiles(t)'
      BY <3>1, StartEffect DEF TaskFiles, DeleteKinds
    <3>3. QED BY <1>12, <1>c, <2>1, <3>2
  <2>4. QED BY <2>2, <2>3
<1>13. ASSUME NEW t \in Tasks, TaskStep(t), NEW i \in Images, WorkerNotAdmitted(t, i) PROVE FilesInv'
  <2>1. Start(t, "worker", GalleryOf[i], CanonicalPreviewKeys(i)) /\ UNCHANGED <<added, database, store>>
    BY <1>13 DEF WorkerNotAdmitted
  <2>2. TaskFiles(t)'
    BY <2>1, StartEffect DEF TaskFiles, DeleteKinds
  <2>3. QED BY <1>13, <1>c, <2>1, <2>2
<1>14. ASSUME NEW i \in Images, QueueLost(i) PROVE FilesInv'
  BY <1>14 DEF QueueLost, FilesInv, TaskFiles, DoomedKeys, Outstanding, IntentsOf
<1>15. ASSUME NEW t \in Tasks, TaskStep(t), EnterRecovery(t) PROVE FilesInv'
  <2>1. TaskFiles(t)'
    BY <1>15, <1>d, <1>e DEF EnterRecovery, TaskFiles, TypeOK
  <2>2. QED BY <1>15, <1>c, <2>1 DEF EnterRecovery
<1>16. ASSUME NEW t \in Tasks, TaskStep(t), EnterMarkFailed(t) PROVE FilesInv'
  <2>1. pc[t] = "abort" /\ UNCHANGED <<gallery, intents, store>>
    BY <1>16 DEF EnterMarkFailed
  <2>2. CASE End(t)
    BY <1>16, <1>c, <1>d, <2>1, <2>2, EndEffect, FilesEnded
  <2>3. CASE ~ End(t)
    <3>1. pc' = [pc EXCEPT ![t] = "erase"] /\ UNCHANGED kind
      BY <1>16, <2>3 DEF EnterMarkFailed
    <3>2. TaskFiles(t)'
      BY <1>d, <1>e, <2>1, <3>1 DEF TaskFiles, TypeOK
    <3>3. QED BY <1>16, <1>c, <2>1, <3>2
  <2>4. QED BY <2>2, <2>3
<1>17. ASSUME NEW t \in Tasks, TaskStep(t), NEW i \in Images, DeleteImage(t, i) PROVE FilesInv'
  <2>1. /\ Start(t, "image", GalleryOf[i], TrackedKeys(i)) /\ pc' = [pc EXCEPT ![t] = "erase"]
        /\ todo' = [todo EXCEPT ![t] = TrackedKeys(i)] /\ UNCHANGED <<database, store>>
    BY <1>17 DEF DeleteImage
  <2>2. pc'[t] = "erase" /\ kind'[t] = "image" /\ plan'[t] = TrackedKeys(i) /\ todo'[t] = TrackedKeys(i)
    BY <1>d, <2>1, StartEffect DEF TypeOK
  <2>3. ImagesOf(TrackedKeys(i)) = {i}
    BY <1>d, TrackedKeysFacts DEF StorageInv
  <2>4. TaskFiles(t)'
    BY <2>1, <2>2, <2>3, TrackedCovers DEF TaskFiles, DoomedKeys, Outstanding
  <2>5. QED BY <1>17, <1>c, <2>1, <2>4
<1>18. ASSUME NEW t \in Tasks, TaskStep(t), NEW g \in Galleries, NEW imgs \in SUBSET Images,
              BulkDelete(t, g, imgs)
       PROVE FilesInv'
  <2> DEFINE keys == UNION {TrackedKeys(i) : i \in imgs}
  <2>1. /\ Start(t, "bulk", g, keys) /\ pc' = [pc EXCEPT ![t] = "erase"]
        /\ UNCHANGED <<database, store, added>>
    BY <1>18 DEF BulkDelete
  <2>2. pc'[t] = "erase" /\ kind'[t] = "bulk" /\ plan'[t] = keys /\ added'[t] = {}
    BY <1>d, <2>1, StartEffect DEF TypeOK
  <2>3. ASSUME NEW k \in allocated, ImageOf(k) \in ImagesOf(keys) PROVE k \in keys
    <3>1. PICK l \in keys : ImageOf(l) = ImageOf(k)
      BY <2>3 DEF ImagesOf
    <3>2. PICK i \in imgs : l \in TrackedKeys(i)
      BY <3>1
    <3>3. ImageOf(l) = i
      BY <3>2, TrackedKeysFacts DEF StorageInv, ImagesOf
    <3>4. QED BY <3>1, <3>3, TrackedCovers
  <2> HIDE DEF keys
  <2>4. TaskFiles(t)'
    BY <2>1, <2>2, <2>3 DEF TaskFiles, DoomedKeys, Outstanding
  <2>5. QED BY <1>18, <1>c, <2>1, <2>4
<1>19. ASSUME NEW t \in Tasks, TaskStep(t), NEW g \in Galleries, PurgeGallery(t, g) PROVE FilesInv'
  <2>1. /\ Start(t, "purge", g, {}) /\ pc' = [pc EXCEPT ![t] = "erase"]
        /\ todo' = [todo EXCEPT ![t] = PurgeKeys(g)] /\ UNCHANGED <<database, store>>
    BY <1>19 DEF PurgeGallery
  <2>2. pc'[t] = "erase" /\ kind'[t] = "purge" /\ gal'[t] = g /\ todo'[t] = PurgeKeys(g)
    BY <1>d, <2>1, StartEffect DEF TypeOK
  <2>3. allocated \cap KeysIn(g) \subseteq PurgeKeys(g)
    BY DEF PurgeKeys, KeysIn
  <2>4. TaskFiles(t)'
    BY <2>1, <2>2, <2>3 DEF TaskFiles, DoomedKeys, Outstanding
  <2>5. QED BY <1>19, <1>c, <2>1, <2>4
<1>20. ASSUME NEW t \in Tasks, TaskStep(t), Erase(t) PROVE FilesInv'
  <2>1. /\ pc[t] = "erase" /\ UNCHANGED <<gallery, intents, allocated>>
        /\ objects \ objects' \subseteq todo[t] /\ Others(t)
    BY <1>20, OthersStay DEF Erase
  <2>2. ASSUME NEW s \in Tasks, s # t PROVE TaskFiles(s)'
    <3>1. ASSUME pc[s] \in {"write", "put"} PROVE added[s] \subseteq objects'
      <4>1. added[s] \subseteq plan[s]
        BY <3>1 DEF StorageInv, TaskScope, FencesHeld
      <4>2. \A k \in plan[s] : k \notin todo[t]
        BY <2>1, <3>1, WritersUntouched
      <4>3. QED BY <1>d, <2>1, <3>1, <4>1, <4>2 DEF TaskFiles
    <3>2. QED BY <1>d, <2>1, <2>2, <3>1 DEF TaskFiles, DoomedKeys, Outstanding, Others
  <2>3. TaskFiles(t)'
    <3>1. CASE End(t)
      BY <1>d, <3>1, EndEffect, FilesEnded
    <3>2. CASE ~ End(t)
      <4>1. /\ \E failed \in SUBSET todo[t] : failed = {} \/ kind[t] = "worker"
            /\ pc'[t] = "refund" \/ (kind[t] = "worker" /\ pc'[t] = "finish")
            /\ UNCHANGED local
        BY <1>20, <1>d, <3>2 DEF Erase, TypeOK
      <4>2. QED BY <1>d, <2>1, <4>1 DEF TaskFiles, DoomedKeys, Outstanding, DeleteKinds
    <3>3. QED BY <3>1, <3>2
  <2>4. QED BY <2>1, <2>2, <2>3 DEF FilesInv, IntentsOf
<1>21. ASSUME NEW t \in Tasks, TaskStep(t), Refund(t) PROVE FilesInv'
  <2>1. /\ pc[t] = "refund" /\ allocated' = allocated \ todo[t] /\ Others(t)
        /\ UNCHANGED <<database, objects, kind, gal, plan>>
        /\ added'[t] = IF kind[t] = "bulk" THEN added[t] \cup todo[t] ELSE added[t]
    BY <1>21, <1>d, OthersStay DEF Refund, TypeOK
  <2>2. \/ kind[t] = "bulk" /\ pc'[t] = "erase"
        \/ pc'[t] = "finish" /\ (kind[t] = "bulk" => ImagesLeft(t) = {})
    BY <1>21, <1>d DEF Refund, TypeOK
  <2>3. kind[t] = "bulk" /\ pc'[t] = "finish" => plan[t] \subseteq added[t] \cup todo[t]
    BY <2>2 DEF ImagesLeft, ImagesOf
  <2>4. TaskFiles(t)'
    BY <1>d, <2>1, <2>2, <2>3 DEF TaskFiles, DoomedKeys, Outstanding
  <2>5. \A s \in Tasks \ {t} : TaskFiles(s)'
    BY <2>1 DEF FilesInv, TaskFiles, DoomedKeys, Outstanding, Others
  <2>6. QED BY <2>1, <2>4, <2>5 DEF FilesInv, IntentsOf
<1>22. ASSUME NEW t \in Tasks, Finish(t) PROVE FilesInv'
  BY <1>22, FilesFinish
<1>23. ASSUME NEW t \in Tasks, TaskStep(t), Vanish(t) PROVE FilesInv'
  BY <1>23, <1>d, EndEffect, FilesEnded, FilesLand DEF Vanish
<1>24. CASE UNCHANGED vars
  BY <1>24 DEF vars, FilesInv, TaskFiles, DoomedKeys, Outstanding, IntentsOf
<1>25. ASSUME NEW t \in Tasks, TaskStep(t) PROVE FilesInv'
  BY <1>25, <1>2, <1>3, <1>4, <1>5, <1>6, <1>7, <1>8, <1>9, <1>10, <1>11, <1>12, <1>13, <1>15, <1>16,
     <1>17, <1>18, <1>19, <1>20, <1>21, <1>22, <1>23 DEF TaskStep
<1>26. QED BY <1>a, <1>1, <1>14, <1>24, <1>25 DEF Next

(***************************************************************************)
(* Intents.                                                                *)
(***************************************************************************)

LEMMA IntentsQuiet ==
  ASSUME IntentsInv, NEW t \in Tasks, Others(t), TaskIntent(t)',
         UNCHANGED <<gallery, origin, row, intents>>, objects' \subseteq objects
  PROVE  IntentsInv'
<1>1. \A s \in Tasks \ {t} : TaskIntent(s)'
  BY DEF IntentsInv, TaskIntent, Unrecovered, Others
<1>2. QED BY <1>1 DEF IntentsInv, LeftoverHasIntent

LEMMA IntentEnded ==
  ASSUME NEW t \in Tasks, Ended(t)
  PROVE  TaskIntent(t)'
BY DEF Ended, TaskIntent, BatchKinds

LEMMA IntentRolledBack ==
  ASSUME NEW t \in Tasks, TaskIntent(t), pc[t] \in {"gap", "write", "put"}, RolledBack(t),
         origin' = origin,
         \A k \in objects' \cap plan[t] : row'[ImageOf(k)] = "none" =>
           row[ImageOf(k)] = "none" /\ k \in objects \cup attempted[t]
  PROVE  TaskIntent(t)'
BY DEF RolledBack, TaskIntent, Unrecovered

(* A task other than t that waits for its fence or writes shares no image  *)
(* with t, and so not its plan.                                            *)
LEMMA PlansApart ==
  ASSUME StorageInv, NEW s \in Tasks, NEW t \in Tasks, s # t, kind[s] \in BatchKinds,
         pc[s] \in {"gap", "write", "put"}, plan[s] # {}
  PROVE  plan[s] # plan[t]
<1>1. PICK k \in plan[s] : TRUE
  OBVIOUS
<1>2. ImageOf(k) \in ImagesOf(plan[s])
  BY DEF ImagesOf
<1>3. ImageOf(k) \notin ImagesOf(plan[t])
  BY <1>2 DEF StorageInv, BatchPrivate
<1>4. QED BY <1>2, <1>3

(* Bytes of a write in flight land: they have their intent, unless the     *)
(* image has its row already or is a copy.                                 *)
LEMMA IntentsLand ==
  ASSUME StorageInv, RowsInv, IntentsInv, NEW t \in Tasks, Others(t), TaskIntent(t)',
         pc[t] = "put" \/ writing[t] = {}, NEW landed \in SUBSET writing[t],
         objects' = objects \cup landed, UNCHANGED <<gallery, origin, row, intents>>
  PROVE  IntentsInv'
<1>1. /\ writing[t] \subseteq plan[t] /\ plan[t] \in SUBSET Keys
      /\ \A k \in plan[t] : ImageOf(k) \in Images /\ ImageOf(k) \in ImagesOf(plan[t])
  BY PartsFacts, ImagesOfFacts DEF StorageInv, TaskScope, TypeOK
<1>2. \A k \in objects' : origin[ImageOf(k)] # "fresh"
  BY <1>1 DEF IntentsInv, StorageInv, FreshUnknown
<1>3. pc[t] = "put" => kind[t] \in {"api", "web", "copy", "worker"}
  BY DEF StorageInv, FencesHeld, BatchKinds
<1>4. ASSUME NEW k \in landed
      PROVE  \/ kind[t] = "worker" /\ row[ImageOf(k)] # "none"
             \/ kind[t] = "copy" /\ origin[ImageOf(k)] = "copy"
             \/ kind[t] \in {"api", "web"} /\ k \in UNION intents
  BY <1>1, <1>3 DEF RowsInv, TaskRows, IntentsInv, TaskIntent
<1>5. LeftoverHasIntent'
  BY <1>4 DEF IntentsInv, LeftoverHasIntent
<1>6. ASSUME NEW s \in Tasks, s # t PROVE TaskIntent(s)'
  <2>1. TaskIntent(s)
    BY DEF IntentsInv
  <2>2. ASSUME NEW k \in landed, k \in plan[s] PROVE row[ImageOf(k)] # "none"
    <3>1. ImageOf(k) \in ImagesOf(plan[t]) /\ ImageOf(k) \in ImagesOf(plan[s])
      BY <1>1, <2>2 DEF ImagesOf
    <3>2. kind[t] \notin BatchKinds
      BY <1>6, <2>2, <3>1 DEF StorageInv, BatchPrivate
    <3>3. QED BY <1>4, <3>2 DEF BatchKinds
  <2>3. QED BY <1>6, <2>1, <2>2 DEF TaskIntent, Unrecovered, Others
<1>7. QED BY <1>2, <1>5, <1>6 DEF IntentsInv

LEMMA IntentsCommit ==
  ASSUME StorageInv, RowsInv, IntentsInv, NEW t \in Tasks, CommitRows(t), Others(t),
         Ended(t) \/ RolledBack(t), UNCHANGED store
  PROVE  IntentsInv'
<1>1. /\ UNCHANGED <<origin, objects>> /\ pc[t] = "write" /\ Remaining(t) = {}
      /\ \A S \in intents : S \in intents' \/ (kind[t] # "worker" /\ S = plan[t])
  BY DEF CommitRows, store
<1>2. objects \subseteq Keys /\ (\A k \in Keys : ImageOf(k) \in Images) /\ kind[t] \in BatchKinds \cup {"worker"}
  BY CommitFacts, PartsFacts DEF StorageInv, TypeOK
<1>3. \A i \in Images : row'[i] = "none" => row[i] = "none"
  BY CommitFacts
<1>4. TaskIntent(t)
  BY DEF IntentsInv
<1>5. ASSUME NEW k \in objects, origin[ImageOf(k)] = "upload", row'[ImageOf(k)] = "none"
      PROVE  k \in UNION intents'
  <2>1. PICK S \in intents : k \in S
    BY <1>2, <1>3, <1>5 DEF IntentsInv, LeftoverHasIntent
  <2>2. CASE S \in intents'
    BY <2>1, <2>2
  <2>3. CASE S = plan[t] /\ kind[t] # "worker"
    <3>1. kind[t] \in {"api", "web"}
      BY <1>2, <1>4, <1>5, <2>1, <2>3 DEF TaskIntent, BatchKinds
    <3>2. Original(ImageOf(k)) \in plan[t] /\ attempted[t] \subseteq added[t] \cup writing[t]
      BY <1>1, <1>4, <2>1, <2>3, <3>1 DEF TaskIntent
    <3>3. writing[t] = {}
      BY <1>1 DEF StorageInv, WritesReserved
    <3>4. ImageOf(Original(ImageOf(k))) = ImageOf(k)
      BY <1>2, PartsFacts
    <3>5. Original(ImageOf(k)) \in attempted[t]
      BY <1>1, <3>2, <3>4 DEF Remaining
    <3>6. Original(ImageOf(k)) \in added[t]
      BY <3>2, <3>3, <3>5
    <3>7. row'[ImageOf(k)] = "pending"
      BY <1>2, <3>1, <3>6, CommitFacts DEF BatchKinds
    <3>8. QED BY <1>5, <3>7
  <2>4. QED BY <1>1, <2>1, <2>2, <2>3
<1>6. ASSUME NEW s \in Tasks, s # t PROVE TaskIntent(s)'
  <2>1. TaskIntent(s) /\ TaskRows(s)
    BY DEF IntentsInv, RowsInv
  <2>2. ASSUME kind[s] \in BatchKinds, pc[s] \in {"erase", "refund", "finish"}, NEW k \in todo[s]
        PROVE  row'[ImageOf(k)] = "none"
    <3>1. gal[s] # gal[t]
      BY <1>1, <2>2, WritersUntouched DEF BatchKinds
    <3>2. k \in KeysIn(gal[s])
      BY DEF StorageInv, TaskScope
    <3>3. row'[ImageOf(k)] = row[ImageOf(k)]
      BY <1>2, <3>1, <3>2, CommitFacts DEF KeysIn
    <3>4. QED BY <2>1, <2>2, <3>3 DEF TaskIntent
  <2>3. ASSUME kind[s] \in {"api", "web"}, pc[s] \in {"gap", "write", "put"}, plan[s] \in intents
        PROVE  plan[s] \in intents'
    <3>1. plan[s] # plan[t]
      BY <1>6, <2>1, <2>3, PlansApart DEF TaskIntent, BatchKinds
    <3>2. QED BY <1>1, <2>3, <3>1
  <2>4. pc[s] = "gap" /\ gallery'[gal[s]] = "live" => gallery[gal[s]] = "live"
    BY <2>1, CommitFacts DEF TaskRows, StorageInv, TypeOK
  <2>5. \A k \in objects \cap plan[s] : row'[ImageOf(k)] = "none" => row[ImageOf(k)] = "none"
    BY <1>2, <1>3
  <2>6. QED BY <1>1, <1>6, <2>1, <2>2, <2>3, <2>4, <2>5 DEF TaskIntent, Unrecovered, Others
<1>7. TaskIntent(t)'
  <2>1. \A k \in objects' \cap plan[t] : row'[ImageOf(k)] = "none" =>
           row[ImageOf(k)] = "none" /\ k \in objects \cup attempted[t]
    BY <1>1, <1>2, <1>3
  <2>2. QED BY <1>1, <1>4, <2>1, IntentEnded, IntentRolledBack
<1>8. QED BY <1>1, <1>5, <1>6, <1>7 DEF IntentsInv, LeftoverHasIntent

(* A deletion that finishes has left no file of what it removes.           *)
LEMMA NothingLeft ==
  ASSUME StorageInv, FilesInv, NEW t \in Tasks, pc[t] = "finish", kind[t] \in DeleteKinds,
         NEW k \in objects
  PROVE  k \notin DoomedKeys(t) /\ ImageOf(k) \notin Doomed(t)
<1>1. k \in Keys /\ k \in allocated /\ ImageOf(k) \in Images
  BY PartsFacts DEF StorageInv, TypeOK, ObjectsAccounted
<1>2. k \notin DoomedKeys(t)
  BY <1>1 DEF FilesInv, TaskFiles, Outstanding
<1>3. QED BY <1>1, <1>2 DEF DoomedKeys, Doomed, Committed, KeysIn, DeleteKinds

LEMMA IntentsFinish ==
  ASSUME StorageInv, RowsInv, FilesInv, IntentsInv, NEW t \in Tasks, Finish(t)
  PROVE  IntentsInv'
<1>1. /\ pc[t] = "finish" /\ gal[t] \in Galleries /\ Ended(t) /\ Others(t)
      /\ UNCHANGED <<origin, objects>>
      /\ gallery' = IF kind[t] = "purge" THEN [gallery EXCEPT ![gal[t]] = "gone"] ELSE gallery
  BY FinishFacts DEF store
<1>2. /\ intents' \subseteq intents
      /\ kind[t] = "purge" => intents' = intents \ IntentsOf(gal[t])
      /\ kind[t] # "purge" => \A S \in intents : S \in intents' \/ (S = plan[t] /\ kind[t] \in BatchKinds)
  BY DEF Finish
<1>3. /\ \A k \in objects : k \in Keys /\ ImageOf(k) \in Images
      /\ \A s \in Tasks : \A k \in todo[s] : ImageOf(k) \in Images
  BY PartsFacts DEF StorageInv, TypeOK
<1>4. \A k \in objects : ImageOf(k) \notin Doomed(t)
  BY <1>1, NothingLeft DEF Doomed, DeleteKinds
<1>5. \A k \in objects : row'[ImageOf(k)] = "none" => row[ImageOf(k)] = "none"
  BY <1>3, <1>4, FinishFacts
<1>6. \A i \in Images : row[i] = "none" => row'[i] = "none"
  BY FinishFacts
<1>7. ASSUME NEW k \in objects, origin[ImageOf(k)] = "upload", row'[ImageOf(k)] = "none"
      PROVE  k \in UNION intents'
  <2>1. row[ImageOf(k)] = "none"
    BY <1>5, <1>7
  <2>2. PICK S \in intents : k \in S
    BY <1>7, <2>1 DEF IntentsInv, LeftoverHasIntent
  <2>3. CASE kind[t] = "purge"
    <3>1. k \notin KeysIn(gal[t])
      BY <1>1, <2>3, NothingLeft DEF DoomedKeys, DeleteKinds
    <3>2. QED BY <1>2, <2>2, <2>3, <3>1 DEF IntentsOf
  <2>4. CASE kind[t] # "purge" /\ S = plan[t] /\ kind[t] \in BatchKinds
    <3>1. kind[t] \in {"api", "web"}
      BY <1>7, <2>2, <2>4 DEF IntentsInv, TaskIntent, BatchKinds
    <3>2. k \in Unrecovered(t)
      BY <2>1, <2>2, <2>4, <3>1 DEF IntentsInv, TaskIntent
    <3>3. QED BY <1>1, <3>2 DEF Unrecovered
  <2>5. QED BY <1>2, <2>2, <2>3, <2>4
<1>8. ASSUME NEW s \in Tasks, s # t PROVE TaskIntent(s)'
  <2>1. TaskIntent(s) /\ TaskRows(s)
    BY DEF IntentsInv, RowsInv
  <2>2. ASSUME kind[s] \in {"api", "web"}, plan[s] \in intents,
               pc[s] \in {"write", "put"} \/ (pc[s] = "gap" /\ gallery'[gal[s]] = "live")
        PROVE  plan[s] \in intents'
    <3>1. plan[s] # {} /\ plan[s] \subseteq KeysIn(gal[s]) /\ gal[s] \in Galleries
      BY <2>1, <2>2 DEF TaskIntent, StorageInv, TaskScope, TypeOK
    <3>2. CASE kind[t] = "purge"
      <4>1. gal[s] # gal[t]
        <5>1. CASE pc[s] \in {"write", "put"}
          BY <1>1, <3>2, <5>1, WritersUntouched
        <5>2. CASE gallery'[gal[s]] = "live"
          BY <1>1, <3>1, <3>2, <5>2 DEF StorageInv, TypeOK
        <5>3. QED BY <2>2, <5>1, <5>2
      <4>2. ~ (plan[s] \subseteq KeysIn(gal[t]))
        BY <3>1, <4>1 DEF KeysIn
      <4>3. QED BY <1>2, <2>2, <3>2, <4>2 DEF IntentsOf
    <3>3. CASE kind[t] # "purge"
      <4>1. plan[s] # plan[t]
        BY <1>8, <2>2, <3>1, PlansApart DEF BatchKinds
      <4>2. QED BY <1>2, <2>2, <3>3, <4>1
    <3>4. QED BY <3>2, <3>3
  <2>3. pc[s] = "gap" /\ gallery'[gal[s]] = "live" => gallery[gal[s]] = "live"
    BY <1>1 DEF StorageInv, TypeOK
  <2>4. \A k \in todo[s] : row[ImageOf(k)] = "none" => row'[ImageOf(k)] = "none"
    BY <1>3, <1>6
  <2>5. QED BY <1>1, <1>5, <1>8, <2>1, <2>2, <2>3, <2>4 DEF TaskIntent, Unrecovered, Others
<1>9. TaskIntent(t)'
  BY <1>1, IntentEnded
<1>10. QED BY <1>1, <1>7, <1>8, <1>9 DEF IntentsInv, LeftoverHasIntent

(* A batch that begins generates image UUIDs nobody has stored anything    *)
(* for.                                                                    *)
LEMMA IntentsGenerate ==
  ASSUME StorageInv, RowsInv, IntentsInv, NEW t \in Tasks, Others(t), TaskIntent(t)',
         NEW imgs \in SUBSET Images, \A i \in imgs : origin[i] = "fresh",
         NEW by \in {"upload", "copy"}, Generate(imgs, by),
         \A g \in Galleries : gallery'[g] = "live" => gallery[g] = "live",
         intents \subseteq intents', UNCHANGED <<row, objects>>
  PROVE  IntentsInv'
<1>1. \A i \in Images : origin[i] # "fresh" => origin'[i] = origin[i]
  BY DEF Generate
<1>2. \A k \in objects : ImageOf(k) \in Images /\ origin'[ImageOf(k)] = origin[ImageOf(k)]
  BY <1>1, PartsFacts DEF IntentsInv, StorageInv, TypeOK
<1>3. ASSUME NEW s \in Tasks, s # t PROVE TaskIntent(s)'
  <2>1. TaskIntent(s) /\ \A k \in plan[s] : ImageOf(k) \in Images
    BY PartsFacts DEF IntentsInv, StorageInv, TypeOK
  <2>2. kind[s] = "copy" => \A k \in plan[s] : origin'[ImageOf(k)] = "copy"
    BY <1>1, <2>1 DEF TaskIntent
  <2>3. pc[s] = "gap" => gal[s] \in Galleries
    BY DEF StorageInv, TypeOK
  <2>4. QED BY <1>3, <2>1, <2>2, <2>3 DEF TaskIntent, Unrecovered, Others
<1>4. QED BY <1>2, <1>3 DEF IntentsInv, LeftoverHasIntent

LEMMA IntentsStep == StorageInv /\ RowsInv /\ FilesInv /\ IntentsInv /\ [Next]_vars => IntentsInv'
<1>a. SUFFICES ASSUME StorageInv, RowsInv, FilesInv, IntentsInv, [Next]_vars PROVE IntentsInv'
  OBVIOUS
<1>b. StorageInv /\ RowsInv /\ FilesInv /\ IntentsInv
  BY <1>a
<1>c. ASSUME NEW t \in Tasks, TaskStep(t), TaskIntent(t)', UNCHANGED <<gallery, origin, row, intents>>,
             objects' \subseteq objects
      PROVE  IntentsInv'
  BY <1>b, <1>c, OthersStay, IntentsQuiet
<1> USE <1>b DEF database, store, fences, local
<1>d. ASSUME NEW t \in Tasks PROVE TypeOK /\ TaskIntent(t) /\ (pc[t] # "put" => writing[t] = {})
  BY DEF StorageInv, IntentsInv, WritesReserved
<1>e. ASSUME NEW t \in Tasks, pc[t] \in {"gap", "write", "put"}, RollBack(t),
             UNCHANGED <<origin, row, objects>>
      PROVE  TaskIntent(t)'
  BY <1>d, <1>e, RollBackEffect, IntentRolledBack
<1>1. ASSUME NEW g \in Galleries, CreateGallery(g) PROVE IntentsInv'
  <2>1. \A s \in Tasks : pc[s] = "gap" /\ gallery'[gal[s]] = "live" => gallery[gal[s]] = "live"
    BY <1>1 DEF CreateGallery, RowsInv, TaskRows, StorageInv, TypeOK
  <2>2. UNCHANGED <<origin, row, intents, store, pc, local>>
    BY <1>1 DEF CreateGallery
  <2>3. QED BY <2>1, <2>2 DEF IntentsInv, TaskIntent, Unrecovered, LeftoverHasIntent
<1>2. ASSUME NEW t \in Tasks, TaskStep(t), NEW k \in {"api", "web"}, NEW g \in Galleries,
             NEW imgs \in SUBSET Images, BeginUpload(t, k, g, imgs)
      PROVE IntentsInv'
  <2> DEFINE keys == PlannedKeys(k, imgs)
  <2>1. /\ Start(t, k, g, keys) /\ pc' = [pc EXCEPT ![t] = "gap"]
        /\ UNCHANGED <<gallery, row, store, attempted, writing, added, todo>>
        /\ intents' = intents \cup {keys} /\ imgs # {} /\ \A i \in imgs : origin[i] = "fresh"
        /\ Generate(imgs, "upload")
    BY <1>2 DEF BeginUpload, Fresh
  <2>2. keys # {} /\ keys \subseteq Keys /\ ImagesOf(keys) = imgs
    BY <2>1, PlannedNonempty, PlannedKeysFacts
  <2>3. \A l \in keys : Original(ImageOf(l)) \in keys
    BY <2>2, ImagesOfFacts DEF PlannedKeys
  <2> HIDE DEF keys
  <2>4. \A l \in objects : l \notin keys
    BY <2>1, <2>2, ImagesOfFacts DEF IntentsInv
  <2>5. /\ pc'[t] = "gap" /\ kind'[t] = k /\ gal'[t] = g /\ plan'[t] = keys
        /\ attempted'[t] = {} /\ writing'[t] = {}
    BY <1>d, <2>1, StartEffect DEF TypeOK
  <2>6. TaskIntent(t)'
    BY <2>1, <2>2, <2>3, <2>4, <2>5 DEF TaskIntent, Unrecovered
  <2>7. QED BY <1>2, <2>1, <2>6, OthersStay, IntentsGenerate
<1>3. ASSUME NEW t \in Tasks, TaskStep(t), ReenterBatch(t) PROVE IntentsInv'
  <2>1. pc[t] = "gap" /\ UNCHANGED <<database, store>>
    BY <1>3 DEF ReenterBatch
  <2>2. CASE RollBack(t)
    BY <1>3, <1>c, <1>e, <2>1, <2>2
  <2>3. CASE gallery[gal[t]] = "live" /\ pc' = [pc EXCEPT ![t] = "write"]
               /\ UNCHANGED <<exclusive, imageLock, local>>
    <3>1. TaskIntent(t)'
      BY <1>d, <2>1, <2>3 DEF TaskIntent, Unrecovered, TypeOK
    <3>2. QED BY <1>3, <1>c, <2>1, <3>1
  <2>4. QED BY <1>3, <2>2, <2>3 DEF ReenterBatch
<1>4. ASSUME NEW t \in Tasks, TaskStep(t), NEW src \in Galleries, NEW g \in Galleries,
             NEW imgs \in SUBSET Images, BeginCopy(t, src, g, imgs)
      PROVE IntentsInv'
  <2>1. PICK from \in [imgs -> Committed(src)] :
          Start(t, "copy", g,
                {Original(i) : i \in imgs} \cup
                {k \in imgs \X Variants : <<from[ImageOf(k)], k[2]>> \in previews})
    BY <1>4 DEF BeginCopy
  <2> DEFINE keys == {Original(i) : i \in imgs} \cup
                     {k \in imgs \X Variants : <<from[ImageOf(k)], k[2]>> \in previews}
  <2>2. /\ Start(t, "copy", g, keys) /\ pc' = [pc EXCEPT ![t] = "write"]
        /\ gallery' = [gallery EXCEPT ![g] = "claimed"] /\ Generate(imgs, "copy")
        /\ \A i \in imgs : origin[i] = "fresh"
        /\ UNCHANGED <<row, intents, objects, attempted, writing>>
    BY <1>4, <2>1 DEF BeginCopy, Fresh
  <2>3. \A k \in keys : ImageOf(k) \in imgs
    BY PartsFacts DEF ImageOf, Original
  <2> HIDE DEF keys
  <2>4. \A k \in keys : origin'[ImageOf(k)] = "copy"
    BY <2>2, <2>3 DEF Generate
  <2>5. pc'[t] = "write" /\ kind'[t] = "copy" /\ plan'[t] = keys /\ writing'[t] = {}
    BY <1>d, <2>2, StartEffect DEF TypeOK
  <2>6. TaskIntent(t)'
    BY <2>4, <2>5 DEF TaskIntent
  <2>7. \A h \in Galleries : gallery'[h] = "live" => gallery[h] = "live"
    BY <1>d, <2>2 DEF TypeOK
  <2>8. QED BY <1>4, <2>2, <2>6, <2>7, OthersStay, IntentsGenerate
<1>5. ASSUME NEW t \in Tasks, TaskStep(t), NEW k \in Keys, Reserve(t, k) PROVE IntentsInv'
  <2>1. /\ pc[t] = "write" /\ pc'[t] = "put" /\ attempted'[t] = attempted[t] \cup {k}
        /\ writing'[t] = {k} /\ UNCHANGED <<database, objects, kind, gal, plan, added, todo>>
    BY <1>5, <1>d DEF Reserve, TypeOK
  <2>2. TaskIntent(t)'
    BY <1>d, <2>1 DEF TaskIntent, Unrecovered
  <2>3. QED BY <1>5, <1>c, <2>1, <2>2
<1>6. ASSUME NEW t \in Tasks, TaskStep(t), NEW k \in Keys, ReserveFails(t, k) PROVE IntentsInv'
  <2>1. /\ pc[t] = "write" /\ attempted'[t] = attempted[t] \cup {k}
        /\ pc'[t] = "abort" \/ (kind[t] = "copy" /\ pc'[t] = "write")
        /\ UNCHANGED <<database, store, kind, gal, plan, writing, todo>>
    BY <1>6, <1>d DEF ReserveFails, TypeOK
  <2>2. TaskIntent(t)'
    BY <1>d, <2>1 DEF TaskIntent, Unrecovered
  <2>3. QED BY <1>6, <1>c, <2>1, <2>2
<1>7. ASSUME NEW t \in Tasks, TaskStep(t), PutDone(t) PROVE IntentsInv'
  <2>1. /\ pc[t] = "put" /\ pc'[t] = "write" /\ added'[t] = added[t] \cup writing[t]
        /\ writing'[t] = {} /\ objects' = objects \cup writing[t]
        /\ UNCHANGED <<database, kind, gal, plan, attempted, todo>>
    BY <1>7, <1>d DEF PutDone, TypeOK
  <2>2. TaskIntent(t)'
    BY <1>d, <2>1 DEF TaskIntent, Unrecovered
  <2>3. QED BY <1>7, <2>1, <2>2, OthersStay, IntentsLand
<1>8. ASSUME NEW t \in Tasks, TaskStep(t), PutFails(t) PROVE IntentsInv'
  <2>1. pc[t] = "put" /\ UNCHANGED database
    BY <1>8 DEF PutFails
  <2>2. PICK landed \in SUBSET writing[t] : objects' = objects \cup landed
    BY <1>8 DEF PutFails
  <2>3. writing[t] \subseteq attempted[t]
    BY <1>d DEF TaskIntent
  <2>4. TaskIntent(t)'
    <3>1. CASE RollBack(t)
      BY <1>d, <2>1, <2>2, <2>3, <3>1, RollBackEffect, IntentRolledBack
    <3>2. CASE kind[t] = "copy" /\ writing' = [writing EXCEPT ![t] = {}]
                 /\ pc' = [pc EXCEPT ![t] = "write"] /\ UNCHANGED <<kind, plan, attempted>>
      BY <1>d, <2>1, <3>2 DEF TaskIntent, TypeOK
    <3>3. QED BY <1>8, <3>1, <3>2 DEF PutFails
  <2>5. QED BY <1>8, <2>1, <2>2, <2>4, OthersStay, IntentsLand
<1>9. ASSUME NEW t \in Tasks, TaskStep(t), Abort(t) PROVE IntentsInv'
  BY <1>9, <1>c, <1>e DEF Abort
<1>10. ASSUME NEW t \in Tasks, CommitAcked(t) PROVE IntentsInv'
  BY <1>10, <1>d, EndEffect, IntentsCommit DEF CommitAcked
<1>11. ASSUME NEW t \in Tasks, CommitAckLost(t) PROVE IntentsInv'
  BY <1>11, <1>d, RollBackEffect, IntentsCommit DEF CommitAckLost
<1>12. ASSUME NEW t \in Tasks, TaskStep(t), kind'[t] \notin BatchKinds, writing'[t] = {},
              UNCHANGED <<database, objects>>
       PROVE IntentsInv'
  <2>1. TaskIntent(t)'
    BY <1>12 DEF TaskIntent, BatchKinds
  <2>2. QED BY <1>12, <1>c, <2>1
<1>13. ASSUME NEW t \in Tasks, TaskStep(t), NEW i \in Images, WorkerEnter(t, i) PROVE IntentsInv'
  <2>1. pc[t] = "idle" /\ UNCHANGED <<database, store>>
    BY <1>13 DEF WorkerEnter
  <2>2. CASE UNCHANGED <<fences, pc, local>>
    <3>1. TaskIntent(t)'
      BY <1>d, <2>1, <2>2 DEF TaskIntent, Unrecovered
    <3>2. QED BY <1>13, <1>c, <2>1, <3>1
  <2>3. CASE ~ UNCHANGED <<fences, pc, local>>
    <3>1. Start(t, "worker", GalleryOf[i], CanonicalPreviewKeys(i)) /\ UNCHANGED writing
      BY <1>13, <2>3 DEF WorkerEnter
    <3>2. QED BY <1>12, <1>13, <2>1, <3>1, StartEffect DEF BatchKinds
  <2>4. QED BY <2>2, <2>3
<1>14. ASSUME NEW t \in Tasks, TaskStep(t), NEW i \in Images, WorkerNotAdmitted(t, i) PROVE IntentsInv'
  BY <1>12, <1>14, StartEffect DEF WorkerNotAdmitted, BatchKinds
<1>15. ASSUME NEW i \in Images, QueueLost(i) PROVE IntentsInv'
  BY <1>15 DEF QueueLost, IntentsInv, TaskIntent, Unrecovered, LeftoverHasIntent
<1>16. ASSUME NEW t \in Tasks, TaskStep(t), EnterRecovery(t) PROVE IntentsInv'
  <2>1. /\ pc[t] = "abort" /\ pc'[t] = "erase"
        /\ todo'[t] = {k \in attempted[t] : row[ImageOf(k)] = "none"}
        /\ UNCHANGED <<database, store, kind, gal, plan, attempted, writing, added>>
    BY <1>16, <1>d DEF EnterRecovery, TypeOK
  <2>2. TaskIntent(t)'
    BY <1>d, <2>1 DEF TaskIntent, Unrecovered
  <2>3. QED BY <1>16, <1>c, <2>1, <2>2
<1>17. ASSUME NEW t \in Tasks, TaskStep(t), EnterMarkFailed(t) PROVE IntentsInv'
  <2>1. pc[t] = "abort" /\ kind[t] = "worker" /\ UNCHANGED <<database, store>>
    BY <1>17 DEF EnterMarkFailed
  <2>2. CASE End(t)
    BY <1>17, <1>c, <1>d, <2>1, <2>2, EndEffect, IntentEnded
  <2>3. CASE ~ End(t)
    BY <1>12, <1>17, <1>d, <2>1, <2>3 DEF EnterMarkFailed, BatchKinds
  <2>4. QED BY <2>2, <2>3
<1>18. ASSUME NEW t \in Tasks, TaskStep(t), NEW i \in Images, DeleteImage(t, i) PROVE IntentsInv'
  BY <1>12, <1>18, StartEffect DEF DeleteImage, BatchKinds
<1>19. ASSUME NEW t \in Tasks, TaskStep(t), NEW g \in Galleries, NEW imgs \in SUBSET Images,
              BulkDelete(t, g, imgs)
       PROVE IntentsInv'
  BY <1>12, <1>19, StartEffect DEF BulkDelete, BatchKinds
<1>20. ASSUME NEW t \in Tasks, TaskStep(t), NEW g \in Galleries, PurgeGallery(t, g) PROVE IntentsInv'
  BY <1>12, <1>20, StartEffect DEF PurgeGallery, BatchKinds
<1>21. ASSUME NEW t \in Tasks, TaskStep(t), Erase(t) PROVE IntentsInv'
  <2>1. pc[t] = "erase" /\ UNCHANGED <<database, allocated>> /\ objects' \subseteq objects
    BY <1>21 DEF Erase
  <2>2. CASE End(t)
    BY <1>21, <1>c, <1>d, <2>1, <2>2, EndEffect, IntentEnded
  <2>3. CASE ~ End(t)
    <3>1. /\ pc'[t] = "refund" \/ (kind[t] = "worker" /\ pc'[t] = "finish")
          /\ UNCHANGED local
      BY <1>21, <1>d, <2>3 DEF Erase, TypeOK
    <3>2. TaskIntent(t)'
      BY <1>d, <2>1, <3>1 DEF TaskIntent, Unrecovered, BatchKinds
    <3>3. QED BY <1>21, <1>c, <2>1, <3>2
  <2>4. QED BY <2>2, <2>3
<1>22. ASSUME NEW t \in Tasks, TaskStep(t), Refund(t) PROVE IntentsInv'
  <2>1. /\ pc[t] = "refund" /\ UNCHANGED <<database, objects, kind, gal, plan, attempted, writing>>
        /\ kind[t] # "bulk" => pc'[t] = "finish" /\ todo'[t] = todo[t]
    BY <1>22, <1>d DEF Refund, TypeOK
  <2>2. todo[t] \cap objects = {}
    BY <2>1 DEF StorageInv, RefundsErased
  <2>3. TaskIntent(t)'
    BY <1>d, <2>1, <2>2 DEF TaskIntent, Unrecovered, BatchKinds
  <2>4. QED BY <1>22, <1>c, <2>1, <2>3
<1>23. ASSUME NEW t \in Tasks, Finish(t) PROVE IntentsInv'
  BY <1>23, IntentsFinish
<1>24. ASSUME NEW t \in Tasks, TaskStep(t), Vanish(t) PROVE IntentsInv'
  <2>1. PICK landed \in SUBSET writing[t] : objects' = objects \cup landed
    BY <1>24 DEF Vanish
  <2>2. QED BY <1>24, <1>d, <2>1, EndEffect, IntentEnded, IntentsLand DEF Vanish
<1>25. CASE UNCHANGED vars
  BY <1>25 DEF vars, IntentsInv, TaskIntent, Unrecovered, LeftoverHasIntent
<1>26. ASSUME NEW t \in Tasks, TaskStep(t) PROVE IntentsInv'
  BY <1>26, <1>2, <1>3, <1>4, <1>5, <1>6, <1>7, <1>8, <1>9, <1>10, <1>11, <1>13, <1>14, <1>16, <1>17,
     <1>18, <1>19, <1>20, <1>21, <1>22, <1>23, <1>24 DEF TaskStep
<1>27. QED BY <1>a, <1>1, <1>15, <1>25, <1>26 DEF Next

(***************************************************************************)
(* The promises.                                                           *)
(***************************************************************************)

LEMMA PromisesInit == Init => RowsInv /\ FilesInv /\ IntentsInv
<1>1. SUFFICES ASSUME Init PROVE RowsInv /\ FilesInv /\ IntentsInv
  OBVIOUS
<1>2. RowsInv
  BY <1>1 DEF Init, RowsInv, TaskRows, BatchKinds
<1>3. FilesInv
  BY <1>1 DEF Init, FilesInv, TaskFiles, DeleteKinds, IntentsOf
<1>4. IntentsInv
  BY <1>1 DEF Init, IntentsInv, TaskIntent, LeftoverHasIntent, BatchKinds
<1>5. QED BY <1>2, <1>3, <1>4

(* The rows of images and previews change only when a batch or a worker    *)
(* commits, or a handler finishes.                                         *)
LEMMA RowChange ==
  ASSUME Next
  PROVE  \/ UNCHANGED <<row, previews>>
         \/ \E t \in Tasks : (CommitRows(t) /\ UNCHANGED objects) \/ Finish(t)
<1> USE DEF database, store
<1>1. ASSUME NEW t \in Tasks, TaskStep(t)
      PROVE  \/ UNCHANGED <<row, previews>>
             \/ (CommitRows(t) /\ UNCHANGED objects) \/ Finish(t)
  BY <1>1 DEF TaskStep, BeginUpload, BeginCopy, Reserve, ReserveFails, ReenterBatch, PutDone, PutFails,
       Abort, CommitAcked, CommitAckLost, WorkerEnter, WorkerNotAdmitted, DeleteImage, EnterRecovery,
       EnterMarkFailed, BulkDelete, PurgeGallery, Erase, Refund, Vanish
<1>2. QED BY <1>1 DEF Next, CreateGallery, QueueLost

(* Files are only ever deleted by delete_storage_keys.                     *)
LEMMA FileLoss ==
  ASSUME Next
  PROVE  objects \subseteq objects' \/ \E t \in Tasks : Erase(t)
<1> USE DEF store
<1>1. ASSUME NEW t \in Tasks, TaskStep(t) PROVE objects \subseteq objects' \/ Erase(t)
  BY <1>1 DEF TaskStep, BeginUpload, BeginCopy, Reserve, ReserveFails, ReenterBatch, PutDone, PutFails,
       Abort, CommitAcked, CommitAckLost, WorkerEnter, WorkerNotAdmitted, DeleteImage, EnterRecovery,
       EnterMarkFailed, BulkDelete, PurgeGallery, Refund, Finish, Vanish
<1>2. QED BY <1>1 DEF Next, CreateGallery, QueueLost

(* The invariants together: what rows, files and intents promise each      *)
(* other while handlers, workers and compensations run.                    *)
THEOREM PromisesInvariant == Spec => [](RowsInv /\ FilesInv /\ IntentsInv)
<1> DEFINE Inv == StorageInv /\ RowsInv /\ FilesInv /\ IntentsInv
<1>1. Init => Inv
  BY InvInit, PromisesInit
<1>2. Inv /\ [Next]_vars => Inv'
  BY InvStep, RowsStep, FilesStep, IntentsStep
<1>3. QED BY <1>1, <1>2, PTL DEF Spec

(* Whatever fails, vanishes or loses its acknowledgement, a file that an   *)
(* upload left without an image row is listed in a committed intent.       *)
THEOREM LeftoversListed == Spec => []LeftoverHasIntent
<1>1. IntentsInv => LeftoverHasIntent
  BY DEF IntentsInv
<1>2. QED BY <1>1, PromisesInvariant, PTL

(* A purged gallery stays empty: no batch that lost the fence in the gap,  *)
(* no worker and no copy puts anything into it.                            *)
THEOREM PurgedStaysEmpty == Spec => []PurgedGalleryEmpty
<1>1. StorageInv /\ RowsInv /\ FilesInv => PurgedGalleryEmpty
  <2>1. SUFFICES ASSUME StorageInv, RowsInv, FilesInv, NEW g \in Galleries, gallery[g] = "gone"
                 PROVE  /\ (objects \cup allocated) \cap KeysIn(g) = {}
                        /\ Committed(g) = {} /\ IntentsOf(g) = {}
    BY DEF PurgedGalleryEmpty
  <2>2. allocated \cap KeysIn(g) = {} /\ IntentsOf(g) = {} /\ objects \subseteq allocated
    BY <2>1 DEF FilesInv, StorageInv, ObjectsAccounted
  <2>3. Committed(g) = {}
    BY <2>1 DEF RowsInv, Committed
  <2>4. QED BY <2>2, <2>3
<1>2. QED BY <1>1, PromisesInvariant, StorageInvariant, PTL

(* A row that becomes visible has its file in the backend.                 *)
THEOREM RowsAreBacked == Spec => CommittedRowsAreBacked
<1>1. StorageInv /\ RowsInv /\ FilesInv /\ [Next]_vars =>
        [Referenced' \ Referenced \subseteq objects']_vars
  <2>1. SUFFICES ASSUME StorageInv, RowsInv, FilesInv, Next, NEW k \in Referenced', k \notin Referenced
                 PROVE  k \in objects'
    OBVIOUS
  <2>2. CASE UNCHANGED <<row, previews>>
    BY <2>1, <2>2 DEF Referenced
  <2>3. ASSUME NEW t \in Tasks, CommitRows(t), UNCHANGED objects PROVE k \in objects'
    <3>1. added[t] \subseteq objects
      BY <2>1, <2>3, CommitFacts DEF FilesInv, TaskFiles
    <3>2. CASE k \in previews'
      BY <2>1, <2>3, <3>1, <3>2, CommitFacts DEF Referenced
    <3>3. CASE k \in Keys /\ k = Original(ImageOf(k)) /\ row'[ImageOf(k)] # "none"
      <4>1. ImageOf(k) \in Images /\ row[ImageOf(k)] = "none"
        BY <2>1, <3>3, PartsFacts DEF Referenced
      <4>2. ImageOf(k) \in ImagesOf(plan[t]) /\ (kind[t] \in BatchKinds => k \in added[t])
        BY <2>1, <2>3, <3>3, <4>1, CommitFacts
      <4>3. kind[t] # "worker"
        BY <2>1, <2>3, <4>1, <4>2, CommitFacts DEF RowsInv, TaskRows
      <4>4. QED BY <2>1, <2>3, <3>1, <4>2, <4>3, CommitFacts
    <3>4. QED BY <2>1, <3>2, <3>3 DEF Referenced
  <2>4. ASSUME NEW t \in Tasks, Finish(t) PROVE k \in objects'
    <3>1. CASE k \in previews'
      BY <2>1, <2>4, <3>1, FinishFacts DEF Referenced
    <3>2. CASE k \in Keys /\ k = Original(ImageOf(k)) /\ row'[ImageOf(k)] # "none"
      <4>1. ImageOf(k) \in Images /\ row[ImageOf(k)] = "none"
        BY <2>1, <3>2, PartsFacts DEF Referenced
      <4>2. QED BY <2>1, <2>4, <3>2, <4>1, FinishFacts
    <3>3. QED BY <2>1, <3>1, <3>2 DEF Referenced
  <2>5. QED BY <2>1, <2>2, <2>3, <2>4, RowChange
<1>2. QED BY <1>1, PromisesInvariant, StorageInvariant, PTL DEF CommittedRowsAreBacked, Spec

(* Only a deletion handler deletes a file that a committed row points to:  *)
(* no recovery and no failed worker ever does.                             *)
THEOREM CompensationIsSafe == Spec => CompensationSparesCommitted
<1> DEFINE Spared == \A k \in (objects \ objects') \cap Referenced :
                       \E t \in Tasks : kind[t] \in DeleteKinds /\ k \in todo[t]
<1>1. StorageInv /\ RowsInv /\ IntentsInv /\ [Next]_vars => [Spared]_vars
  <2>1. SUFFICES ASSUME StorageInv, RowsInv, IntentsInv, Next,
                        NEW k \in objects, k \notin objects', k \in Referenced
                 PROVE  \E t \in Tasks : kind[t] \in DeleteKinds /\ k \in todo[t]
    OBVIOUS
  <2>2. PICK t \in Tasks : Erase(t)
    BY <2>1, FileLoss
  <2>3. pc[t] = "erase" /\ k \in todo[t] /\ kind[t] \in BatchKinds \cup DeleteKinds \cup {"worker"}
    BY <2>1, <2>2 DEF Erase, StorageInv, TypeOK, FencesHeld, Kinds
  <2>4. ASSUME kind[t] \in BatchKinds PROVE FALSE
    BY <2>1, <2>3, <2>4 DEF IntentsInv, TaskIntent, RowsInv, Referenced
  <2>5. ASSUME kind[t] = "worker" PROVE FALSE
    <3>1. ImageOf(k) \in ImagesOf(plan[t])
      BY <2>1, <2>3, <2>5 DEF StorageInv, TaskScope, ImagesOf
    <3>2. k # Original(ImageOf(k)) /\ k \notin previews
      BY <2>1, <2>3, <2>5, <3>1 DEF RowsInv, TaskRows
    <3>3. QED BY <2>1, <3>2 DEF Referenced
  <2>6. QED BY <2>3, <2>4, <2>5
<1>2. QED BY <1>1, PromisesInvariant, StorageInvariant, PTL DEF CompensationSparesCommitted, Spec

(* Once ready, an image is ready until it is deleted: a worker that failed *)
(* earlier and marks its failure late does not demote it.                  *)
THEOREM ReadyStaysReady == Spec => ReadyIsFinal
<1>1. StorageInv /\ RowsInv /\ [Next]_vars =>
        [\A i \in Images : row[i] = "ready" => row'[i] \in {"ready", "none"}]_vars
  <2>1. SUFFICES ASSUME StorageInv, RowsInv, Next, NEW i \in Images, row[i] = "ready"
                 PROVE  row'[i] \in {"ready", "none"}
    OBVIOUS
  <2>2. ASSUME NEW t \in Tasks, CommitRows(t) PROVE row'[i] = "ready"
    <3>1. CASE kind[t] \in BatchKinds /\ row'[i] # row[i]
      <4>1. i \in ImagesOf(plan[t]) /\ pc[t] = "write"
        BY <2>1, <2>2, <3>1, CommitFacts
      <4>2. row[i] = "none"
        BY <2>1, <3>1, <4>1 DEF StorageInv, BatchPrivate
      <4>3. QED BY <2>1, <4>2
    <3>2. QED BY <2>1, <2>2, <3>1, CommitFacts
  <2>3. ASSUME NEW t \in Tasks, Finish(t) PROVE row'[i] \in {"ready", "none"}
    BY <2>1, <2>3, FinishFacts
  <2>4. QED BY <2>1, <2>2, <2>3, RowChange
<1>2. QED BY <1>1, PromisesInvariant, StorageInvariant, PTL DEF ReadyIsFinal, Spec

(***************************************************************************)
(* Fences and waiting.                                                     *)
(***************************************************************************)

Holds(t) ==
  \/ \E g \in Galleries : t \in shared[g] \cup exclusive[g]
  \/ \E i \in Images : t \in imageLock[i]

(* A step changes what its own task holds, and nobody else's.              *)
LEMMA FencesOfOthers ==
  ASSUME StorageInv, NEW t \in Tasks, TaskStep(t), NEW s \in Tasks, s # t
  PROVE  Holds(s)' <=> Holds(s)
<1> TypeOK /\ GalleryOf \in [Images -> Galleries]
  BY ConstantsAssumption DEF StorageInv
<1>1. ASSUME ReleaseFences(t) PROVE Holds(s)' <=> Holds(s)
  BY <1>1 DEF ReleaseFences, Holds, TypeOK
<1>2. ASSUME UNCHANGED fences PROVE Holds(s)' <=> Holds(s)
  BY <1>2 DEF fences, Holds
<1>3. ASSUME NEW gs \in SUBSET Galleries, ShareGallery(t, gs), UNCHANGED exclusive,
             UNCHANGED imageLock \/ \E i \in Images : LockImage(t, i)
      PROVE  Holds(s)' <=> Holds(s)
  <2>1. \A g \in Galleries : (s \in shared'[g] <=> s \in shared[g]) /\ exclusive'[g] = exclusive[g]
    BY <1>3 DEF ShareGallery, TypeOK
  <2>2. \A i \in Images : s \in imageLock'[i] <=> s \in imageLock[i]
    BY <1>3 DEF LockImage, TypeOK
  <2>3. QED BY <2>1, <2>2 DEF Holds
<1>4. ASSUME NEW g \in Galleries, ExcludeGallery(t, g), UNCHANGED <<shared, imageLock>>
      PROVE  Holds(s)' <=> Holds(s)
  <2>1. \A h \in Galleries : (s \in exclusive'[h] <=> s \in exclusive[h]) /\ shared'[h] = shared[h]
    BY <1>4 DEF ExcludeGallery, TypeOK
  <2>2. QED BY <1>4, <2>1 DEF Holds
<1>5. CASE \/ \E g \in Galleries, imgs \in SUBSET Images : BulkDelete(t, g, imgs)
           \/ \E g \in Galleries : PurgeGallery(t, g)
  BY <1>4, <1>5 DEF BulkDelete, PurgeGallery
<1>6. CASE EnterRecovery(t)
  <2>1. gal[t] \in Galleries
    BY <1>6 DEF EnterRecovery, TypeOK
  <2>2. QED BY <1>4, <1>6, <2>1 DEF EnterRecovery
<1>7. CASE \/ CommitAcked(t) \/ CommitAckLost(t) \/ Abort(t) \/ Finish(t) \/ Vanish(t)
  BY <1>1, <1>7 DEF CommitAcked, CommitAckLost, Abort, Finish, Vanish, End, RollBack
<1>8. CASE ReenterBatch(t)
  <2>1. gal[t] \in Galleries
    BY <1>8 DEF ReenterBatch, TypeOK
  <2>2. CASE gallery[gal[t]] = "live"
    BY <1>3, <1>8, <2>1, <2>2 DEF ReenterBatch
  <2>3. CASE gallery[gal[t]] # "live"
    BY <1>1, <1>8, <2>3 DEF ReenterBatch, RollBack
  <2>4. QED BY <2>2, <2>3
<1>9. CASE EnterMarkFailed(t)
  <2>1. gal[t] \in Galleries /\ ImagesOf(plan[t]) \subseteq Images
    BY <1>9, ImagesOfFacts DEF EnterMarkFailed, TypeOK
  <2>2. PICK i \in ImagesOf(plan[t]) :
          End(t) \/ (ShareGallery(t, {gal[t]}) /\ LockImage(t, i) /\ UNCHANGED exclusive)
    BY <1>9 DEF EnterMarkFailed
  <2>3. QED BY <1>1, <1>3, <2>1, <2>2 DEF End
<1>10. ASSUME NEW i \in Images, WorkerEnter(t, i) \/ DeleteImage(t, i) PROVE Holds(s)' <=> Holds(s)
  <2>1. \/ UNCHANGED fences
        \/ ShareGallery(t, {GalleryOf[i]}) /\ LockImage(t, i) /\ UNCHANGED exclusive
    BY <1>10 DEF WorkerEnter, DeleteImage, fences
  <2>2. QED BY <1>2, <1>3, <2>1
<1>11. ASSUME NEW src \in Galleries, NEW g \in Galleries, NEW imgs \in SUBSET Images,
              BeginCopy(t, src, g, imgs)
       PROVE  Holds(s)' <=> Holds(s)
  BY <1>3, <1>11 DEF BeginCopy
<1>12. CASE \/ PutFails(t) \/ Erase(t) \/ \E k \in Keys : ReserveFails(t, k)
  BY <1>1, <1>2, <1>12 DEF PutFails, Erase, ReserveFails, End, RollBack, fences
<1>13. CASE \/ \E k \in {"api", "web"}, g \in Galleries, imgs \in SUBSET Images : BeginUpload(t, k, g, imgs)
            \/ \E k \in Keys : Reserve(t, k)
            \/ \E i \in Images : WorkerNotAdmitted(t, i)
            \/ PutDone(t) \/ Refund(t)
  BY <1>2, <1>13 DEF BeginUpload, Reserve, WorkerNotAdmitted, PutDone, Refund
<1>14. QED
  BY <1>5, <1>6, <1>7, <1>8, <1>9, <1>10, <1>11, <1>12, <1>13 DEF TaskStep

(* Where a step leaves its task waiting, the task has released its fences  *)
(* or held none before.                                                    *)
LEMMA WaitersStep == StorageInv /\ WaitersHoldNothing /\ [Next]_vars => WaitersHoldNothing'
<1>1. WaitersHoldNothing <=> \A t \in Tasks : pc[t] \in {"idle", "gap", "abort"} => ~Holds(t)
  BY DEF WaitersHoldNothing, Holds
<1>2. WaitersHoldNothing' <=> \A t \in Tasks : pc'[t] \in {"idle", "gap", "abort"} => ~Holds(t)'
  BY DEF WaitersHoldNothing, Holds
<1>3. SUFFICES ASSUME StorageInv, WaitersHoldNothing, [Next]_vars, NEW s \in Tasks,
                      pc'[s] \in {"idle", "gap", "abort"}
               PROVE  ~Holds(s)'
  BY <1>2
<1>4. pc[s] \in {"idle", "gap", "abort"} => ~Holds(s)
  BY <1>1, <1>3
<1>5. CASE UNCHANGED <<pc, fences>>
  BY <1>3, <1>4, <1>5 DEF fences, Holds
<1>6. ASSUME NEW t \in Tasks, TaskStep(t), s # t PROVE ~Holds(s)'
  <2>1. Others(t)
    BY <1>3, <1>6, OthersStay
  <2>2. pc'[s] = pc[s]
    BY <1>6, <2>1 DEF Others
  <2>3. Holds(s)' <=> Holds(s)
    BY <1>3, <1>6, FencesOfOthers
  <2>4. QED BY <1>3, <1>4, <2>2, <2>3
<1>7. ASSUME TaskStep(s) PROVE ~Holds(s)'
  <2> TypeOK
    BY <1>3 DEF StorageInv
  <2>1. ReleaseFences(s) => ~Holds(s)'
    BY DEF ReleaseFences, Holds, TypeOK
  <2>2. pc[s] \in {"idle", "gap", "abort"} /\ UNCHANGED fences => ~Holds(s)'
    BY <1>4 DEF fences, Holds
  <2>3. ReleaseFences(s) \/ (pc[s] \in {"idle", "gap", "abort"} /\ UNCHANGED fences)
    <3> USE <1>3
    <3>1. CASE \/ \E k \in {"api", "web"}, g \in Galleries, imgs \in SUBSET Images : BeginUpload(s, k, g, imgs)
               \/ \E i \in Images : WorkerNotAdmitted(s, i)
      BY <3>1 DEF BeginUpload, WorkerNotAdmitted, Start
    <3>2. CASE ReenterBatch(s) \/ PutFails(s) \/ Abort(s) \/ CommitAcked(s) \/ CommitAckLost(s)
      BY <3>2 DEF ReenterBatch, PutFails, Abort, CommitAcked, CommitAckLost, RollBack, End, TypeOK
    <3>3. CASE EnterMarkFailed(s) \/ Erase(s) \/ Finish(s) \/ Vanish(s)
      BY <3>3 DEF EnterMarkFailed, Erase, Finish, Vanish, End, TypeOK
    <3>4. CASE \E k \in Keys : Reserve(s, k) \/ ReserveFails(s, k)
      BY <3>4 DEF Reserve, ReserveFails, TypeOK
    <3>5. ASSUME NEW src \in Galleries, NEW g \in Galleries, NEW imgs \in SUBSET Images,
                 BeginCopy(s, src, g, imgs)
          PROVE  FALSE
      <4>1. pc' = [pc EXCEPT ![s] = "write"]
        BY <3>5 DEF BeginCopy
      <4>2. QED BY <4>1 DEF TypeOK
    <3>6. ASSUME NEW i \in Images, DeleteImage(s, i) PROVE FALSE
      <4>1. pc' = [pc EXCEPT ![s] = "erase"]
        BY <3>6 DEF DeleteImage
      <4>2. QED BY <4>1 DEF TypeOK
    <3>7. ~\E g \in Galleries, imgs \in SUBSET Images : BulkDelete(s, g, imgs)
      BY DEF BulkDelete, TypeOK
    <3>8. ~\E g \in Galleries : PurgeGallery(s, g)
      BY DEF PurgeGallery, TypeOK
    <3>9. ~(PutDone(s) \/ EnterRecovery(s) \/ Refund(s))
      BY DEF PutDone, EnterRecovery, Refund, TypeOK
    <3>10. ASSUME NEW i \in Images, WorkerEnter(s, i)
           PROVE  pc[s] = "idle" /\ UNCHANGED fences
      BY <3>10 DEF WorkerEnter, fences, TypeOK
    <3>11. QED
      BY <1>7, <3>1, <3>2, <3>3, <3>4, <3>5, <3>6, <3>7, <3>8, <3>9, <3>10 DEF TaskStep
  <2>4. QED BY <2>1, <2>2, <2>3
<1>8. QED BY <1>3, <1>5, <1>6, <1>7 DEF Next, vars, CreateGallery, QueueLost

(* Nobody waits for a fence while holding one.                             *)
THEOREM NobodyWaitsHolding == Spec => []WaitersHoldNothing
<1>1. Init => WaitersHoldNothing
  BY DEF Init, WaitersHoldNothing
<1>2. QED BY <1>1, WaitersStep, StorageInvariant, PTL DEF Spec

(***************************************************************************)
(* Claims.                                                                 *)
(***************************************************************************)

(* Only an upload adds an intent, only a reservation an entry of the       *)
(* ledger, and an identifier that was generated stays what it is.          *)
LEMMA ClaimFrame ==
  ASSUME TypeOK, Next
  PROVE  /\ \A i \in Images : origin'[i] = origin[i] \/ (origin[i] = "fresh" /\ origin'[i] # "fresh")
         /\ intents' \subseteq intents \/ \E t \in Tasks, k \in {"api", "web"}, g \in Galleries,
                                             imgs \in SUBSET Images : BeginUpload(t, k, g, imgs)
         /\ allocated' \subseteq allocated \/ \E t \in Tasks, k \in Keys : Reserve(t, k)
<1> DEFINE Goal ==
      /\ \A i \in Images : origin'[i] = origin[i] \/ (origin[i] = "fresh" /\ origin'[i] # "fresh")
      /\ intents' \subseteq intents \/ \E t \in Tasks, k \in {"api", "web"}, g \in Galleries,
                                          imgs \in SUBSET Images : BeginUpload(t, k, g, imgs)
      /\ allocated' \subseteq allocated \/ \E t \in Tasks, k \in Keys : Reserve(t, k)
<1> USE DEF database, store
<1>1. ASSUME NEW t \in Tasks, NEW k \in {"api", "web"}, NEW g \in Galleries, NEW imgs \in SUBSET Images,
             BeginUpload(t, k, g, imgs)
      PROVE  Goal
  BY <1>1 DEF BeginUpload, Generate, Fresh, TypeOK
<1>2. ASSUME NEW t \in Tasks, NEW src \in Galleries, NEW g \in Galleries, NEW imgs \in SUBSET Images,
             BeginCopy(t, src, g, imgs)
      PROVE  Goal
  <2>1. Generate(imgs, "copy") /\ imgs \subseteq Fresh(g) /\ UNCHANGED <<intents, allocated>>
    BY <1>2 DEF BeginCopy
  <2>2. QED BY <2>1 DEF Generate, Fresh, TypeOK
<1>3. ASSUME NEW t \in Tasks, NEW k \in Keys, Reserve(t, k) PROVE Goal
  BY <1>3 DEF Reserve
<1>4. ASSUME NEW t \in Tasks, CommitAcked(t) \/ CommitAckLost(t) \/ Finish(t) PROVE Goal
  BY <1>4 DEF CommitAcked, CommitAckLost, CommitRows, Finish
<1>5. ASSUME NEW t \in Tasks,
             \/ \E k \in Keys : ReserveFails(t, k)
             \/ ReenterBatch(t) \/ PutDone(t) \/ PutFails(t) \/ Abort(t)
             \/ \E i \in Images : WorkerEnter(t, i) \/ WorkerNotAdmitted(t, i) \/ DeleteImage(t, i)
             \/ EnterRecovery(t) \/ EnterMarkFailed(t)
             \/ \E g \in Galleries, imgs \in SUBSET Images : BulkDelete(t, g, imgs)
             \/ \E g \in Galleries : PurgeGallery(t, g)
             \/ Erase(t) \/ Refund(t) \/ Vanish(t)
      PROVE  Goal
  <2>1. UNCHANGED <<origin, intents>> /\ allocated' \subseteq allocated
    BY <1>5 DEF ReserveFails, ReenterBatch, PutDone, PutFails, Abort, WorkerEnter, WorkerNotAdmitted,
         DeleteImage, EnterRecovery, EnterMarkFailed, BulkDelete, PurgeGallery, Erase, Refund, Vanish
  <2>2. QED BY <2>1
<1>6. ASSUME NEW t \in Tasks, TaskStep(t) PROVE Goal
  BY <1>1, <1>2, <1>3, <1>4, <1>5, <1>6 DEF TaskStep
<1>7. QED BY <1>6 DEF Next, CreateGallery, QueueLost

(* What the task of a step claims.                                         *)
LEMMA ClaimsOfActor ==
  ASSUME StorageInv, RowsInv, ClaimsInv, NEW t \in Tasks, TaskStep(t)
  PROVE  TaskClaims(t)'
<1> USE DEF database, store, fences, local
<1>a. TypeOK /\ TaskClaims(t)
  BY DEF StorageInv, ClaimsInv
<1>b. ASSUME Ended(t) PROVE TaskClaims(t)'
  BY <1>b DEF Ended, TaskClaims
<1>c. ASSUME kind'[t] \notin {"worker", "bulk"} PROVE TaskClaims(t)'
  BY <1>c DEF TaskClaims
<1>d. ASSUME UNCHANGED <<kind, plan, todo, row>>, pc'[t] \in {"write", "put"} => pc[t] \in {"write", "put"}
      PROVE  TaskClaims(t)'
  BY <1>a, <1>d DEF TaskClaims
<1>e. ASSUME RolledBack(t), pc[t] \in {"gap", "write", "put"} PROVE TaskClaims(t)'
  BY <1>a, <1>e DEF RolledBack, TaskClaims
<1>1. CASE \/ \E k \in {"api", "web"}, g \in Galleries, imgs \in SUBSET Images : BeginUpload(t, k, g, imgs)
           \/ \E src, g \in Galleries, imgs \in SUBSET Images : BeginCopy(t, src, g, imgs)
           \/ \E i \in Images : DeleteImage(t, i)
           \/ \E g \in Galleries : PurgeGallery(t, g)
  <2>1. \E k \in BatchKinds \cup {"image", "purge"} : kind' = [kind EXCEPT ![t] = k]
    BY <1>1 DEF BeginUpload, BeginCopy, DeleteImage, PurgeGallery, Start, BatchKinds
  <2>2. QED BY <1>a, <1>c, <2>1 DEF TypeOK, BatchKinds
<1>2. CASE \E k \in Keys : Reserve(t, k) \/ ReserveFails(t, k)
  BY <1>2, <1>d DEF Reserve, ReserveFails
<1>3. CASE ReenterBatch(t)
  <2>1. kind[t] \in BatchKinds /\ UNCHANGED kind
    BY <1>3 DEF ReenterBatch, RollBack, StorageInv, FencesHeld
  <2>2. QED BY <1>c, <2>1 DEF BatchKinds
<1>4. CASE PutDone(t)
  BY <1>4, <1>d DEF PutDone
<1>5. CASE PutFails(t)
  <2>1. pc[t] = "put" /\ UNCHANGED <<kind, plan, todo, row>>
    BY <1>5 DEF PutFails, RollBack
  <2>2. QED BY <1>d, <2>1
<1>6. CASE Abort(t) \/ CommitAckLost(t)
  BY <1>6, <1>a, <1>e, RollBackEffect DEF Abort, CommitAckLost, CommitRows
<1>7. CASE CommitAcked(t) \/ Finish(t) \/ Vanish(t)
  BY <1>7, <1>a, <1>b, EndEffect DEF CommitAcked, Finish, Vanish
<1>8. ASSUME NEW i \in Images, WorkerEnter(t, i) PROVE TaskClaims(t)'
  <2>1. CASE row[i] \in {"none", "ready"}
    <3>1. UNCHANGED <<pc, local, row>>
      BY <1>8, <2>1 DEF WorkerEnter
    <3>2. QED BY <3>1, <1>d
  <2>2. CASE row[i] \notin {"none", "ready"}
    <3>1. Start(t, "worker", GalleryOf[i], CanonicalPreviewKeys(i)) /\ UNCHANGED row
      BY <1>8, <2>2 DEF WorkerEnter
    <3>2. kind'[t] = "worker" /\ plan'[t] = CanonicalPreviewKeys(i)
      BY <3>1, StartEffect
    <3>3. ImagesOf(plan'[t]) = {i}
      BY <3>2, PartsFacts
    <3>4. QED BY <2>2, <3>1, <3>2, <3>3 DEF TaskClaims
  <2>3. QED BY <2>1, <2>2
<1>9. ASSUME NEW i \in Images, WorkerNotAdmitted(t, i) PROVE TaskClaims(t)'
  BY <1>9, <1>a DEF WorkerNotAdmitted, Start, TaskClaims, TypeOK
<1>10. CASE EnterRecovery(t)
  <2>1. kind[t] \in BatchKinds /\ UNCHANGED kind
    BY <1>10 DEF EnterRecovery
  <2>2. QED BY <1>c, <2>1 DEF BatchKinds
<1>11. CASE EnterMarkFailed(t)
  <2>1. pc[t] = "abort" /\ kind[t] = "worker"
    BY <1>11 DEF EnterMarkFailed
  <2>2. Ended(t) \/ (pc'[t] = "erase" /\ kind'[t] = "worker")
    BY <1>11, <1>a, <2>1, EndEffect DEF EnterMarkFailed, TypeOK
  <2>3. QED BY <1>b, <2>2 DEF TaskClaims
<1>12. ASSUME NEW g \in Galleries, NEW imgs \in SUBSET Images, BulkDelete(t, g, imgs)
       PROVE  TaskClaims(t)'
  <2>1. PICK i \in imgs : todo' = [todo EXCEPT ![t] = TrackedKeys(i)]
    BY <1>12 DEF BulkDelete
  <2>2. Start(t, "bulk", g, UNION {TrackedKeys(j) : j \in imgs})
    BY <1>12 DEF BulkDelete
  <2>3. kind'[t] = "bulk" /\ plan'[t] = UNION {TrackedKeys(j) : j \in imgs} /\ todo'[t] = TrackedKeys(i)
    BY <1>a, <2>1, <2>2, StartEffect DEF TypeOK
  <2>4. TrackedKeys(i) \subseteq plan'[t]
    BY <2>1, <2>3
  <2>5. ImagesOf(todo'[t]) \subseteq ImagesOf(plan'[t])
    BY <2>3, <2>4 DEF ImagesOf
  <2>6. QED BY <2>3, <2>5 DEF TaskClaims
<1>13. CASE Erase(t)
  <2>1. UNCHANGED row /\ (End(t) \/ (UNCHANGED <<kind, plan, todo>> /\ pc'[t] \notin {"write", "put"}))
    BY <1>13, <1>a DEF Erase, TypeOK
  <2>2. QED BY <1>a, <1>b, <1>d, <2>1, EndEffect
<1>14. CASE Refund(t)
  <2>1. UNCHANGED <<kind, plan, row>> /\ pc'[t] \in {"erase", "finish"}
    BY <1>14, <1>a DEF Refund, TypeOK
  <2>2. CASE UNCHANGED todo
    BY <1>d, <2>1, <2>2
  <2>3. CASE \E i \in ImagesLeft(t) : todo' = [todo EXCEPT ![t] = TrackedKeys(i)]
    <3>1. PICK i \in ImagesLeft(t) : todo'[t] = TrackedKeys(i)
      BY <1>a, <2>3 DEF TypeOK
    <3>2. i \in ImagesOf(plan[t]) /\ i \in Images
      BY <1>a, <3>1, ImagesOfFacts DEF ImagesLeft, TypeOK, ImagesOf
    <3>3. ImagesOf(todo'[t]) = {i}
      BY <1>a, <3>1, <3>2, TrackedKeysFacts
    <3>4. QED BY <2>1, <3>2, <3>3 DEF TaskClaims
  <2>4. QED BY <1>14, <2>2, <2>3 DEF Refund
<1>15. QED
  BY <1>1, <1>2, <1>3, <1>4, <1>5, <1>6, <1>7, <1>8, <1>9, <1>10, <1>11, <1>12, <1>13, <1>14 DEF TaskStep

LEMMA AffordableFacts ==
  /\ {} \in Affordable
  /\ \A S \in Affordable : \A R \in SUBSET S : R \in Affordable
  /\ \A S \in Affordable : \A k \in Keys :
       Cardinality(S \cup {k}) <= MaxObjects => S \cup {k} \in Affordable
<1>1. {} \in Affordable
  BY FS_EmptySet, ConstantsAssumption DEF Affordable
<1>2. ASSUME NEW S \in Affordable, NEW R \in SUBSET S PROVE R \in Affordable
  <2>1. IsFiniteSet(S) /\ S \subseteq Keys /\ Cardinality(S) <= MaxObjects
    BY DEF Affordable
  <2>2. IsFiniteSet(R) /\ Cardinality(R) <= Cardinality(S)
    BY <2>1, FS_Subset
  <2>3. Cardinality(R) \in Nat /\ Cardinality(S) \in Nat
    BY <2>1, <2>2, FS_CardinalityType
  <2>4. Cardinality(R) <= MaxObjects
    BY <2>1, <2>2, <2>3, ConstantsAssumption
  <2>5. QED BY <2>1, <2>2, <2>4 DEF Affordable
<1>3. ASSUME NEW S \in Affordable, NEW k \in Keys, Cardinality(S \cup {k}) <= MaxObjects
      PROVE  S \cup {k} \in Affordable
  BY <1>3, FS_AddElement DEF Affordable
<1>4. QED BY <1>1, <1>2, <1>3

LEMMA ClaimsStep == StorageInv /\ RowsInv /\ ClaimsInv /\ [Next]_vars => ClaimsInv'
<1>a. SUFFICES ASSUME StorageInv, RowsInv, ClaimsInv, [Next]_vars PROVE ClaimsInv'
  OBVIOUS
<1>b. TypeOK /\ (\A s \in intents : s \in SUBSET Keys) /\ allocated \subseteq Keys
  BY <1>a DEF StorageInv, TypeOK
<1>1. CASE UNCHANGED vars
  BY <1>a, <1>1 DEF ClaimsInv, TaskClaims, vars, database, store, local
<1>2. CASE Next
  <2>1. ASSUME NEW s \in intents'
        PROVE  (\A k \in s : origin'[ImageOf(k)] = "upload") /\ \E g \in Galleries : s \subseteq KeysIn(g)
    <3>1. CASE s \in intents
      BY <1>a, <1>b, <1>2, <3>1, ClaimFrame, PartsFacts DEF ClaimsInv
    <3>2. CASE s \notin intents
      <4>1. PICK t \in Tasks, k \in {"api", "web"}, g \in Galleries, imgs \in SUBSET Images :
              BeginUpload(t, k, g, imgs)
        BY <1>b, <1>2, <2>1, <3>2, ClaimFrame
      <4>2. s = PlannedKeys(k, imgs) /\ imgs \subseteq Fresh(g) /\ Generate(imgs, "upload")
        BY <2>1, <3>2, <4>1 DEF BeginUpload
      <4>3. s \in SUBSET Keys /\ \A l \in s : ImageOf(l) \in imgs
        BY <4>2, PlannedKeysFacts, ImagesOfFacts
      <4>4. QED BY <4>2, <4>3 DEF Generate, Fresh, KeysIn
    <3>3. QED BY <3>1, <3>2
  <2>2. ASSUME NEW k \in allocated' PROVE origin'[ImageOf(k)] # "fresh"
    <3>1. CASE k \in allocated
      BY <1>a, <1>b, <1>2, <3>1, ClaimFrame, PartsFacts DEF ClaimsInv
    <3>2. CASE k \notin allocated
      <4>1. PICK t \in Tasks, l \in Keys : Reserve(t, l)
        BY <1>b, <1>2, <2>2, <3>2, ClaimFrame
      <4>2. k = l /\ k \in plan[t] /\ UNCHANGED origin
        BY <2>2, <3>2, <4>1 DEF Reserve, Remaining, database
      <4>3. ImageOf(k) \in Images /\ ImageOf(k) \in ImagesOf(plan[t])
        BY <4>1, <4>2, PartsFacts DEF ImagesOf
      <4>4. QED BY <1>a, <4>2, <4>3 DEF StorageInv, FreshUnknown
    <3>3. QED BY <3>1, <3>2
  <2>3. ASSUME NEW t \in Tasks, TaskStep(t), NEW s \in Tasks PROVE TaskClaims(s)'
    <3>1. CASE s = t
      BY <1>a, <2>3, <3>1, ClaimsOfActor
    <3>2. CASE s # t
      <4>1. Others(t) /\ TaskClaims(s)
        BY <1>a, <2>3, OthersStay DEF ClaimsInv
      <4>2. pc'[s] = pc[s] /\ kind'[s] = kind[s] /\ plan'[s] = plan[s] /\ todo'[s] = todo[s]
        BY <3>2, <4>1 DEF Others
      <4>3. ASSUME kind[s] = "worker", pc[s] \in {"write", "put"}, NEW i \in ImagesOf(plan[s])
            PROVE  row'[i] # "ready"
        <5>1. row[i] # "ready" /\ i \in Images
          BY <1>b, <4>1, <4>3, ImagesOfFacts DEF TaskClaims, TypeOK
        <5>2. CASE CommitRows(t)
          <6>1. i \notin ImagesOf(plan[t])
            BY <1>a, <3>2, <4>3, <5>2, CommitAlone
          <6>2. QED BY <1>a, <5>1, <5>2, <6>1, CommitFacts
        <5>3. CASE Finish(t)
          BY <1>a, <5>1, <5>3, FinishFacts
        <5>4. CASE UNCHANGED row
          BY <5>1, <5>4
        <5>5. UNCHANGED row \/ CommitRows(t) \/ Finish(t)
          BY <2>3 DEF TaskStep, BeginUpload, BeginCopy, Reserve, ReserveFails, ReenterBatch, PutDone,
               PutFails, Abort, CommitAcked, CommitAckLost, WorkerEnter, WorkerNotAdmitted, DeleteImage,
               EnterRecovery, EnterMarkFailed, BulkDelete, PurgeGallery, Erase, Refund, Vanish, database
        <5>6. QED BY <5>2, <5>3, <5>4, <5>5
      <4>4. QED BY <4>1, <4>2, <4>3 DEF TaskClaims
    <3>3. QED BY <3>1, <3>2
  <2>4. ASSUME NEW g \in Galleries, CreateGallery(g) PROVE \A s \in Tasks : TaskClaims(s)'
    BY <1>a, <2>4 DEF CreateGallery, ClaimsInv, TaskClaims, local
  <2>5. ASSUME NEW i \in Images, QueueLost(i) PROVE \A s \in Tasks : TaskClaims(s)'
    BY <1>a, <2>5 DEF QueueLost, ClaimsInv, TaskClaims, local, database
  <2>6. \A s \in Tasks : TaskClaims(s)'
    BY <1>2, <2>3, <2>4, <2>5 DEF Next
  <2>7. allocated' \in Affordable
    <3>1. CASE allocated' \subseteq allocated
      BY <1>a, <3>1, AffordableFacts DEF ClaimsInv
    <3>2. CASE ~(allocated' \subseteq allocated)
      <4>1. PICK t \in Tasks, l \in Keys : Reserve(t, l)
        BY <1>b, <1>2, <3>2, ClaimFrame
      <4>2. QED BY <1>a, <4>1, AffordableFacts DEF Reserve, ClaimsInv
    <3>3. QED BY <3>1, <3>2
  <2>8. QED BY <2>1, <2>2, <2>6, <2>7 DEF ClaimsInv
<1>3. QED BY <1>a, <1>1, <1>2

(***************************************************************************)
(* What an exclusive owner of the files sees of a step.                    *)
(***************************************************************************)

Seen == <<objects, allocated, Listed, Duplicated, WithRow, Referenced, Condemned, Purged>>

AllInv == StorageInv /\ RowsInv /\ FilesInv /\ IntentsInv /\ ClaimsInv

LEMMA FilesOfFacts ==
  /\ \A I \in SUBSET Images : \A k : k \in Ownership!FilesOfAll(I) <=> k \in Keys /\ ImageOf(k) \in I
  /\ \A G : \A i : i \in Ownership!ImagesIn(G) <=> i \in Images /\ GalleryOf[i] \in G
  /\ \A G : Ownership!FilesIn(G) = Ownership!FilesOfAll(Ownership!ImagesIn(G))
<1>1. ASSUME NEW I \in SUBSET Images, NEW k
      PROVE  k \in Ownership!FilesOfAll(I) <=> k \in Keys /\ ImageOf(k) \in I
  <2>1. k \in Ownership!FilesOfAll(I) <=> \E i \in I : k \in {i} \X Parts
    BY DEF Ownership!FilesOfAll
  <2>2. \A i \in I : k \in {i} \X Parts <=> k \in Keys /\ ImageOf(k) = i
    BY DEF Keys, ImageOf
  <2>3. QED BY <2>1, <2>2
<1>2. QED BY <1>1 DEF Ownership!ImagesIn, Ownership!FilesIn

LEMMA SeenSets ==
  ASSUME AllInv
  PROVE  /\ Listed \subseteq Keys /\ Referenced \subseteq Keys
         /\ Duplicated \subseteq Images /\ WithRow \subseteq Images /\ Condemned \subseteq Images
         /\ \A G : Ownership!ImagesIn(G) \subseteq Images
BY FilesOfFacts DEF AllInv, StorageInv, TypeOK, Listed, Referenced, Duplicated, WithRow, Condemned

(* A key is doomed with its image.                                         *)
LEMMA DoomedWithImage ==
  ASSUME NEW q, NEW k \in Keys
  PROVE  Original(ImageOf(k)) \in DoomedKeys(q) <=> k \in DoomedKeys(q)
BY PartsFacts DEF DoomedKeys, KeysIn

LEMMA CondemnedKeys ==
  ASSUME NEW k \in Keys
  PROVE  k \in Ownership!FilesOfAll(Condemned) <=>
           \E q \in Tasks : kind[q] \in DeleteKinds /\ k \in DoomedKeys(q)
<1>1. k \in Ownership!FilesOfAll(Condemned) <=> ImageOf(k) \in Condemned
  BY FilesOfFacts DEF Condemned
<1>2. QED BY <1>1, DoomedWithImage, PartsFacts DEF Condemned

(* A step that is not one of a deletion leaves the condemned images alone; *)
(* a deletion that ends spares some.                                       *)
LEMMA CondemnedStays ==
  ASSUME NEW t \in Tasks, Others(t),
         \/ UNCHANGED <<kind, gal, plan>>
         \/ kind[t] \notin DeleteKinds /\ kind'[t] \notin DeleteKinds
  PROVE  Condemned' = Condemned
<1>1. ASSUME NEW s \in Tasks, NEW i
      PROVE  (kind[s] \in DeleteKinds /\ Original(i) \in DoomedKeys(s)) <=>
             (kind[s] \in DeleteKinds /\ Original(i) \in DoomedKeys(s))'
  BY DEF Others, DoomedKeys
<1>2. QED BY <1>1 DEF Condemned

LEMMA CondemnedSpared ==
  ASSUME NEW t \in Tasks, Others(t), Ended(t)
  PROVE  Condemned' \subseteq Condemned
<1>1. ASSUME NEW s \in Tasks, NEW i, (kind[s] \in DeleteKinds /\ Original(i) \in DoomedKeys(s))'
      PROVE  kind[s] \in DeleteKinds /\ Original(i) \in DoomedKeys(s)
  BY <1>1 DEF Others, Ended, DoomedKeys, DeleteKinds
<1>2. QED BY <1>1 DEF Condemned

LEMMA CondemnedMore ==
  ASSUME NEW t \in Tasks, Others(t), kind[t] \notin DeleteKinds
  PROVE  Condemned \subseteq Condemned'
<1>1. ASSUME NEW s \in Tasks, NEW i, kind[s] \in DeleteKinds /\ Original(i) \in DoomedKeys(s)
      PROVE  (kind[s] \in DeleteKinds /\ Original(i) \in DoomedKeys(s))'
  BY <1>1 DEF Others, DoomedKeys
<1>2. QED BY <1>1 DEF Condemned

LEMMA DatabaseSame ==
  ASSUME UNCHANGED database
  PROVE  UNCHANGED <<Listed, Duplicated, WithRow, Referenced, Purged>>
BY DEF database, Listed, Duplicated, WithRow, Referenced, Purged

(* An idle task is of no kind that deletes anything.                       *)
LEMMA IdleDeletesNothing ==
  ASSUME StorageInv, NEW q \in Tasks, NEW k \in DoomedKeys(q), kind[q] \in DeleteKinds
  PROVE  pc[q] \in {"erase", "refund", "finish"} /\ k \in Keys
<1>1. pc[q] \in {"erase", "refund", "finish", "idle"} /\ k \in Keys
  BY DEF StorageInv, TypeOK, FencesHeld, PCs, DeleteKinds, BatchKinds, DoomedKeys, KeysIn
<1>2. pc[q] # "idle"
  <2>1. SUFFICES ASSUME pc[q] = "idle" PROVE FALSE
    OBVIOUS
  <2>2. plan[q] = {} /\ gal[q] = None
    BY <2>1, IdleTask
  <2>3. GalleryOf[ImageOf(k)] # None
    BY <1>1, PartsFacts, ConstantsAssumption
  <2>4. QED BY <2>2, <2>3 DEF DoomedKeys, KeysIn, ImagesOf
<1>3. QED BY <1>1, <1>2

LEMMA StartCondemns ==
  ASSUME StorageInv, NEW t \in Tasks, Others(t), pc[t] = "idle"
  PROVE  Condemned \subseteq Condemned' /\ (kind'[t] \notin DeleteKinds => Condemned' = Condemned)
<1>1. \A i : ~(kind[t] \in DeleteKinds /\ Original(i) \in DoomedKeys(t))
  BY IdleDeletesNothing
<1>2. ASSUME NEW s \in Tasks, s # t, NEW i
      PROVE  (kind[s] \in DeleteKinds /\ Original(i) \in DoomedKeys(s)) <=>
             (kind[s] \in DeleteKinds /\ Original(i) \in DoomedKeys(s))'
  BY <1>2 DEF Others, DoomedKeys
<1>3. Condemned \subseteq Condemned'
  BY <1>1, <1>2 DEF Condemned
<1>4. ASSUME kind'[t] \notin DeleteKinds PROVE Condemned' \subseteq Condemned
  BY <1>2, <1>4 DEF Condemned
<1>5. QED BY <1>3, <1>4

(* Nobody has heard of an identifier that is still fresh, when its gallery *)
(* can be shared and was not purged.                                       *)
LEMMA FreshUnheard ==
  ASSUME AllInv, NEW g \in Galleries, CanShare(g), gallery[g] # "gone", NEW i \in Fresh(g)
  PROVE  i \in Ownership!Unheard
<1>1. i \in Images /\ GalleryOf[i] = g /\ origin[i] = "fresh" /\ row[i] = "none"
      /\ \A t \in Tasks : i \notin ImagesOf(plan[t])
  BY DEF Fresh, AllInv, StorageInv, FreshUnknown
<1>2. i \notin Duplicated \cup WithRow \cup Ownership!ImagesIn(Purged)
  BY <1>1, FilesOfFacts DEF Duplicated, WithRow, Purged
<1>3. ASSUME i \in Condemned PROVE FALSE
  <2>1. PICK q \in Tasks : kind[q] \in DeleteKinds /\ Original(i) \in DoomedKeys(q)
    BY <1>3 DEF Condemned
  <2>2. kind[q] = "purge" /\ gal[q] = g
    BY <1>1, <2>1, PartsFacts DEF DoomedKeys, KeysIn
  <2>3. q \in exclusive[g]
    BY <2>1, <2>2, IdleDeletesNothing DEF AllInv, StorageInv, FencesHeld
  <2>4. QED BY <2>3 DEF CanShare
<1>4. ASSUME NEW k \in {i} \X Parts PROVE k \notin objects \cup allocated \cup Listed
  <2>1. ImageOf(k) = i
    BY <1>4 DEF ImageOf
  <2>2. QED BY <1>1, <2>1 DEF AllInv, IntentsInv, ClaimsInv, Listed
<1>5. QED BY <1>1, <1>2, <1>3, <1>4 DEF Ownership!Unheard

(* What a writer may write: somebody answers for it, no row points to it,  *)
(* no deletion dooms it and its gallery exists.                            *)
LEMMA PlannedWritable ==
  ASSUME AllInv, NEW t \in Tasks, pc[t] \in {"write", "put"}, NEW k \in plan[t]
  PROVE  k \in Ownership!Writable
<1>1. /\ k \in Keys /\ ImageOf(k) \in Images /\ GalleryOf[ImageOf(k)] = gal[t] /\ gal[t] \in Galleries
      /\ kind[t] \in BatchKinds \cup {"worker"} /\ ImageOf(k) \in ImagesOf(plan[t])
  BY PartsFacts DEF AllInv, StorageInv, TypeOK, TaskScope, FencesHeld, KeysIn, ImagesOf
<1>2. k \in Ownership!Owned
  <2>1. k \in Ownership!Owned <=> k \in Listed \/ ImageOf(k) \in WithRow \cup Duplicated
    BY <1>1, FilesOfFacts DEF Ownership!Owned, WithRow, Duplicated
  <2>2. CASE kind[t] \in {"api", "web"}
    BY <2>1, <2>2 DEF AllInv, IntentsInv, TaskIntent, Listed
  <2>3. CASE kind[t] = "copy"
    BY <1>1, <2>1, <2>3 DEF AllInv, IntentsInv, TaskIntent, Duplicated
  <2>4. CASE kind[t] = "worker"
    BY <1>1, <2>1, <2>4 DEF AllInv, RowsInv, TaskRows, WithRow
  <2>5. QED BY <1>1, <2>2, <2>3, <2>4 DEF BatchKinds
<1>3. k \notin Referenced
  <2>1. CASE kind[t] \in BatchKinds
    <3>1. row[ImageOf(k)] = "none"
      BY <1>1, <2>1 DEF AllInv, StorageInv, BatchPrivate
    <3>2. QED BY <3>1 DEF Referenced, AllInv, RowsInv
  <2>2. CASE kind[t] = "worker"
    <3>1. k # Original(ImageOf(k)) /\ row[ImageOf(k)] # "ready"
          /\ (k \in previews => row[ImageOf(k)] = "ready")
      BY <1>1, <2>2 DEF AllInv, RowsInv, TaskRows, ClaimsInv, TaskClaims
    <3>2. QED BY <3>1 DEF Referenced
  <2>3. QED BY <1>1, <2>1, <2>2
<1>4. k \notin Ownership!FilesOfAll(Condemned)
  BY <1>1, CondemnedKeys, DoomedApart DEF AllInv
<1>5. k \notin Ownership!FilesIn(Purged)
  <2>1. gallery[gal[t]] # "gone"
    BY DEF AllInv, RowsInv, TaskRows
  <2>2. QED BY <1>1, <2>1, FilesOfFacts, SeenSets DEF Purged
<1>6. QED BY <1>2, <1>3, <1>4, <1>5 DEF Ownership!Writable

(***************************************************************************)
(* The steps.                                                              *)
(***************************************************************************)

LEMMA UploadAnnounces ==
  ASSUME AllInv, NEW t \in Tasks, Others(t), NEW k \in {"api", "web"}, NEW g \in Galleries,
         NEW imgs \in SUBSET Images, BeginUpload(t, k, g, imgs)
  PROVE  Ownership!Announce
<1>1. /\ Start(t, k, g, PlannedKeys(k, imgs)) /\ CanShare(g) /\ gallery[g] = "live"
      /\ imgs \subseteq Fresh(g) /\ Generate(imgs, "upload")
      /\ intents' = intents \cup {PlannedKeys(k, imgs)}
      /\ UNCHANGED <<gallery, row, previews, store>>
  BY DEF BeginUpload
<1>2. \A i \in imgs : i \in Ownership!Unheard
  BY <1>1, FreshUnheard
<1>3. \A x \in PlannedKeys(k, imgs) : x \in Keys /\ ImageOf(x) \in imgs
  BY PlannedKeysFacts, ImagesOfFacts
<1>4. Listed' = Listed \cup PlannedKeys(k, imgs)
  BY <1>1 DEF Listed
<1>5. \A x \in Listed' \ Listed : x \in Ownership!FilesOfAll(Ownership!Unheard)
  <2>1. Ownership!Unheard \subseteq Images
    BY DEF Ownership!Unheard
  <2>2. QED BY <1>2, <1>3, <1>4, <2>1, FilesOfFacts
<1>6. UNCHANGED <<objects, allocated, WithRow, Referenced, Purged>>
  BY <1>1 DEF store, WithRow, Referenced, Purged
<1>7. Duplicated' = Duplicated
  BY <1>1 DEF Duplicated, Generate, Fresh
<1>8. Condemned' = Condemned
  <2>1. kind'[t] = k /\ pc[t] = "idle"
    BY <1>1, StartEffect DEF AllInv
  <2>2. QED BY <2>1, StartCondemns DEF AllInv, DeleteKinds
<1>9. QED BY <1>4, <1>5, <1>6, <1>7, <1>8 DEF Ownership!Announce

LEMMA CopyPlans ==
  ASSUME AllInv, NEW t \in Tasks, Others(t), NEW src \in Galleries, NEW g \in Galleries,
         NEW imgs \in SUBSET Images, BeginCopy(t, src, g, imgs)
  PROVE  Ownership!Duplicate
<1>1. /\ \E keys : Start(t, "copy", g, keys)
      /\ CanShare(g) /\ gallery[g] = "unused" /\ imgs \subseteq Fresh(g) /\ Generate(imgs, "copy")
      /\ gallery' = [gallery EXCEPT ![g] = "claimed"]
      /\ UNCHANGED <<row, previews, intents, store, attempted, writing, added, todo>>
  BY DEF BeginCopy
<1>2. \A i \in imgs : i \in Ownership!Unheard
  BY <1>1, FreshUnheard
<1>3. Duplicated' = Duplicated \cup imgs
  BY <1>1 DEF Duplicated, Generate, Fresh
<1>4. UNCHANGED <<objects, allocated, Listed, WithRow, Referenced, Purged>>
  <2>1. Purged' = Purged
    BY <1>1 DEF Purged, AllInv, StorageInv, TypeOK
  <2>2. QED BY <1>1, <2>1 DEF store, Listed, WithRow, Referenced
<1>5. Condemned' = Condemned
  <2>1. kind'[t] = "copy" /\ pc[t] = "idle"
    BY <1>1, StartEffect DEF AllInv
  <2>2. QED BY <2>1, StartCondemns DEF AllInv, DeleteKinds
<1>6. QED BY <1>2, <1>3, <1>4, <1>5 DEF Ownership!Duplicate

LEMMA ReserveCharges ==
  ASSUME AllInv, NEW t \in Tasks, Others(t), NEW k \in Keys, Reserve(t, k)
  PROVE  Ownership!Charge
<1>1. /\ pc[t] = "write" /\ k \in plan[t] /\ allocated' = allocated \cup {k}
      /\ Cardinality(allocated \cup {k}) <= MaxObjects
      /\ UNCHANGED <<database, objects, kind, gal, plan>>
  BY DEF Reserve, Remaining
<1>2. k \in Ownership!Writable
  BY <1>1, PlannedWritable
<1>3. UNCHANGED <<objects, Listed, Duplicated, WithRow, Referenced, Condemned, Purged>>
  BY <1>1, DatabaseSame, CondemnedStays
<1>4. allocated' \in Affordable
  BY <1>1, AffordableFacts DEF AllInv, ClaimsInv
<1>5. QED BY <1>1, <1>2, <1>3, <1>4 DEF Ownership!Charge

(* Bytes land where the writer announced them, whatever becomes of it.     *)
LEMMA BytesLand ==
  ASSUME AllInv, NEW t \in Tasks, Others(t), pc[t] = "put", NEW landed \in SUBSET writing[t],
         objects' = objects \cup landed, UNCHANGED <<database, allocated>>,
         UNCHANGED <<kind, gal, plan>> \/ Ended(t)
  PROVE  Ownership!Land
<1>1. writing[t] \subseteq plan[t] /\ writing[t] \subseteq allocated /\ kind[t] \notin DeleteKinds
  BY DEF AllInv, StorageInv, TaskScope, WritesReserved, FencesHeld, BatchKinds, DeleteKinds
<1>2. \A k \in landed : k \in Ownership!Writable
  BY <1>1, PlannedWritable
<1>3. Condemned' = Condemned
  BY <1>1, CondemnedStays DEF Ended, DeleteKinds
<1>4. UNCHANGED <<allocated, Listed, Duplicated, WithRow, Referenced, Purged>>
  BY DatabaseSame
<1>5. QED BY <1>1, <1>2, <1>3, <1>4 DEF Ownership!Land

LEMMA CommitPublishes ==
  ASSUME AllInv, RowsInv', LeftoverHasIntent', NEW t \in Tasks, Others(t), CommitRows(t),
         UNCHANGED store, Ended(t) \/ RolledBack(t)
  PROVE  Ownership!Publish
<1> USE CommitFacts DEF AllInv, store
<1>1. pc[t] = "write" /\ kind[t] \in BatchKinds \cup {"worker"} /\ added[t] \subseteq objects
      /\ added[t] \subseteq plan[t] /\ plan[t] \in SUBSET Keys
  BY DEF FilesInv, TaskFiles
<1>2. UNCHANGED <<objects, allocated, Duplicated>>
  BY DEF CommitRows, Duplicated
<1>3. Condemned' = Condemned
  BY <1>1, CondemnedStays DEF Ended, RolledBack, BatchKinds, DeleteKinds
<1>4. Purged' = Purged
  BY DEF Purged, StorageInv, TypeOK
<1>5. WithRow \subseteq WithRow' /\ Referenced \subseteq Referenced'
  BY PartsFacts DEF WithRow, Referenced, StorageInv, TypeOK
<1>6. ASSUME NEW i \in WithRow' \ WithRow
      PROVE  i \notin Condemned \cup Ownership!ImagesIn(Purged)
  <2>1. i \in Images /\ i \in ImagesOf(plan[t]) /\ GalleryOf[i] = gal[t]
    BY <1>6 DEF WithRow
  <2>2. i \notin Ownership!ImagesIn(Purged)
    BY <2>1, FilesOfFacts DEF Purged
  <2>3. PICK k \in plan[t] : ImageOf(k) = i
    BY <2>1 DEF ImagesOf
  <2>4. i \notin Condemned
    BY <1>1, <2>3, DoomedApart, DoomedWithImage DEF Condemned
  <2>5. QED BY <2>2, <2>4
<1>7. ASSUME NEW k \in Referenced' \ Referenced
      PROVE  k \in objects /\ k \in plan[t] /\ ImageOf(k) \in WithRow' /\ k \in Keys
  <2>1. CASE k \in previews'
    <3>1. k \in added[t]
      BY <1>7, <2>1 DEF Referenced
    <3>2. k \in Keys /\ row'[ImageOf(k)] # "none"
      BY <1>1, <2>1, <3>1 DEF RowsInv
    <3>3. QED BY <1>1, <3>1, <3>2, PartsFacts DEF WithRow
  <2>2. CASE k \notin previews'
    <3>1. k \in Keys /\ k = Original(ImageOf(k)) /\ row'[ImageOf(k)] # "none" /\ row[ImageOf(k)] = "none"
          /\ ImageOf(k) \in Images
      BY <1>7, <2>2, PartsFacts DEF Referenced
    <3>2. ImageOf(k) \in ImagesOf(plan[t])
      BY <3>1
    <3>3. kind[t] # "worker"
      BY <1>1, <3>1, <3>2 DEF RowsInv, TaskRows
    <3>4. k \in added[t]
      BY <1>1, <3>1, <3>3
    <3>5. QED BY <1>1, <3>1, <3>4 DEF WithRow
  <2>3. QED BY <2>1, <2>2
<1>8. ASSUME NEW k \in plan[t] PROVE k \notin Ownership!FilesOfAll(Condemned)
  BY <1>1, CondemnedKeys, DoomedApart
<1>9. Referenced' \ Referenced \subseteq
        (objects \cap Ownership!FilesOfAll(WithRow')) \ Ownership!FilesOfAll(Condemned)
  <2>1. WithRow' \subseteq Images
    BY DEF WithRow
  <2>2. QED BY <1>7, <1>8, <2>1, FilesOfFacts
<1>10. Listed' \subseteq Listed
  BY DEF Listed, CommitRows
<1>11. objects \cap (Listed \ Listed') \subseteq Ownership!FilesOfAll(WithRow')
  <2>1. ASSUME NEW k \in objects, k \in Listed, k \notin Listed'
        PROVE  k \in Keys /\ ImageOf(k) \in WithRow'
    <3>1. k \in Keys /\ ImageOf(k) \in Images
      BY PartsFacts DEF StorageInv, TypeOK
    <3>2. origin'[ImageOf(k)] = "upload" /\ k \in objects'
      BY <2>1 DEF Listed, ClaimsInv, CommitRows
    <3>3. row'[ImageOf(k)] # "none"
      BY <2>1, <3>2 DEF LeftoverHasIntent, Listed
    <3>4. QED BY <3>1, <3>3 DEF WithRow
  <2>2. WithRow' \subseteq Images
    BY DEF WithRow
  <2>3. QED BY <2>1, <2>2, FilesOfFacts
<1>12. QED BY <1>2, <1>3, <1>4, <1>5, <1>6, <1>9, <1>10, <1>11 DEF Ownership!Publish

LEMMA EraseDiscards ==
  ASSUME AllInv, NEW t \in Tasks, Others(t), Erase(t)
  PROVE  Ownership!Discard
<1> USE DEF AllInv
<1>1. PICK failed \in SUBSET todo[t] : objects' = objects \ (todo[t] \ failed)
  BY DEF Erase
<1>2. pc[t] = "erase" /\ UNCHANGED <<database, allocated>> /\ (UNCHANGED <<kind, gal, plan>> \/ End(t))
  BY DEF Erase, local
<1>3. Condemned' \subseteq Condemned
  BY <1>2, EndEffect, CondemnedStays, CondemnedSpared DEF StorageInv
<1>4. ASSUME NEW k \in objects, k \notin objects', k \in Referenced
      PROVE  k \in Ownership!FilesOfAll(Condemned)
  <2>1. k \in todo[t] /\ k \in Keys /\ kind[t] \in BatchKinds \cup DeleteKinds \cup {"worker"}
    BY <1>1, <1>2, <1>4 DEF StorageInv, TypeOK, FencesHeld, Kinds
  <2>2. kind[t] \notin BatchKinds
    BY <1>2, <1>4, <2>1 DEF IntentsInv, TaskIntent, RowsInv, Referenced
  <2>3. kind[t] # "worker"
    <3>1. SUFFICES ASSUME kind[t] = "worker" PROVE FALSE
      OBVIOUS
    <3>2. ImageOf(k) \in ImagesOf(plan[t])
      BY <2>1, <3>1 DEF StorageInv, TaskScope, ImagesOf
    <3>3. k # Original(ImageOf(k)) /\ k \notin previews
      BY <1>2, <2>1, <3>1, <3>2 DEF RowsInv, TaskRows
    <3>4. QED BY <1>4, <3>3 DEF Referenced
  <2>4. k \in DoomedKeys(t)
    <3>1. ImageOf(k) \in ImagesOf(todo[t]) /\ k \in KeysIn(gal[t])
      BY <2>1 DEF ImagesOf, StorageInv, TaskScope
    <3>2. kind[t] # "purge" => ImagesOf(todo[t]) \subseteq ImagesOf(plan[t])
      BY <2>1, <2>2, <2>3 DEF DeleteKinds, StorageInv, TaskScope, ClaimsInv, TaskClaims
    <3>3. QED BY <2>1, <3>1, <3>2 DEF DoomedKeys
  <2>5. QED BY <2>1, <2>2, <2>3, <2>4, CondemnedKeys
<1>5. UNCHANGED <<allocated, Listed, Duplicated, WithRow, Referenced, Purged>>
  BY <1>2, DatabaseSame
<1>6. (objects \ objects') \cap Referenced \subseteq Ownership!FilesOfAll(Condemned)
  BY <1>4
<1>7. objects' \subseteq objects
  BY <1>1
<1>8. QED BY <1>3, <1>5, <1>6, <1>7 DEF Ownership!Discard

LEMMA RefundRefunds ==
  ASSUME AllInv, NEW t \in Tasks, Others(t), Refund(t)
  PROVE  Ownership!Refund
<1>1. pc[t] = "refund" /\ allocated' = allocated \ todo[t] /\ UNCHANGED <<database, objects, kind, gal, plan>>
  BY DEF Refund
<1>2. todo[t] \cap objects = {}
  BY <1>1 DEF AllInv, StorageInv, RefundsErased
<1>3. UNCHANGED <<objects, Listed, Duplicated, WithRow, Referenced, Condemned, Purged>>
  BY <1>1, DatabaseSame, CondemnedStays
<1>4. QED BY <1>1, <1>2, <1>3 DEF Ownership!Refund

(* A deletion starts, and condemns its images.                             *)
LEMMA DeletionCondemns ==
  ASSUME AllInv, NEW t \in Tasks, Others(t), pc[t] = "idle", UNCHANGED <<database, store>>
  PROVE  Ownership!Condemn
<1>1. Condemned \subseteq Condemned'
  BY StartCondemns DEF AllInv
<1>2. QED BY <1>1, DatabaseSame DEF Ownership!Condemn, store

(* The rows a deletion removes are those of condemned images, of which     *)
(* nothing is stored or counted any more.                                  *)
LEMMA DoomedEmpty ==
  ASSUME AllInv, NEW t \in Tasks, pc[t] = "finish", kind[t] \in DeleteKinds, NEW i \in Images,
         Original(i) \in DoomedKeys(t)
  PROVE  i \in Condemned /\ \A k \in Keys : ImageOf(k) = i => k \notin objects \cup allocated
<1>1. i \in Condemned
  BY DEF Condemned
<1>2. ASSUME NEW k \in Keys, ImageOf(k) = i PROVE k \notin objects \cup allocated
  <2>1. k \in DoomedKeys(t)
    BY <1>2, DoomedWithImage
  <2>2. QED BY <2>1 DEF AllInv, FilesInv, TaskFiles, Outstanding, StorageInv, ObjectsAccounted
<1>3. QED BY <1>1, <1>2

LEMMA FinishRemoves ==
  ASSUME AllInv, RowsInv', NEW t \in Tasks, Finish(t), kind[t] \in DeleteKinds
  PROVE  Ownership!Remove
<1> USE FinishFacts DEF AllInv
<1> DEFINE G    == IF kind[t] = "purge" THEN {gal[t]} ELSE {}
           gone == (WithRow \ WithRow') \cup Ownership!ImagesIn(Purged' \ Purged)
<1>1. pc[t] = "finish" /\ Others(t) /\ Ended(t) /\ UNCHANGED <<origin, store>>
  OBVIOUS
<1>2. UNCHANGED <<objects, allocated, Duplicated>>
  BY <1>1 DEF store, Duplicated
<1>3. Condemned' \subseteq Condemned
  BY <1>1, CondemnedSpared
<1>4. \A i \in Images : i \in Doomed(t) => Original(i) \in DoomedKeys(t)
  BY PartsFacts DEF Doomed, DoomedKeys, Committed, KeysIn, DeleteKinds
<1>5. WithRow' \subseteq WithRow
  BY DEF WithRow
<1>6. gallery \in [Galleries -> {"unused", "claimed", "live", "gone"}] /\ gal[t] \in Galleries
  BY DEF StorageInv, TypeOK
<1>7. Purged' = Purged \cup G
  BY <1>6 DEF Purged
<1>8. ASSUME NEW i \in gone PROVE i \in Images /\ Original(i) \in DoomedKeys(t)
  <2>1. CASE i \in WithRow \ WithRow'
    BY <1>4, <2>1 DEF WithRow
  <2>2. CASE i \in Ownership!ImagesIn(Purged' \ Purged)
    <3>1. i \in Images /\ GalleryOf[i] = gal[t] /\ kind[t] = "purge"
      BY <1>7, <2>2, FilesOfFacts
    <3>2. QED BY <3>1, PartsFacts DEF DoomedKeys, KeysIn
  <2>3. QED BY <1>8, <2>1, <2>2
<1>9. gone \subseteq Condemned /\ gone \subseteq Images
  BY <1>1, <1>8, DoomedEmpty
<1>10. Ownership!FilesOfAll(gone) \cap (objects \cup allocated) = {}
  <2>1. ASSUME NEW k \in Ownership!FilesOfAll(gone) PROVE k \notin objects \cup allocated
    <3>1. k \in Keys /\ ImageOf(k) \in gone
      BY <1>9, <2>1, FilesOfFacts
    <3>2. QED BY <1>1, <1>8, <3>1, DoomedEmpty
  <2>2. QED BY <2>1
<1>11. Ownership!ImagesIn(Purged') \cap WithRow' = {}
  <2>1. ASSUME NEW i \in WithRow' PROVE i \notin Ownership!ImagesIn(Purged')
    <3>1. i \in Images /\ gallery'[GalleryOf[i]] = "live"
      BY <2>1 DEF WithRow, RowsInv
    <3>2. QED BY <3>1, FilesOfFacts DEF Purged
  <2>2. QED BY <2>1
<1>12. Referenced' = Referenced \ Ownership!FilesOfAll(gone)
  <2>1. ASSUME NEW k \in Keys
        PROVE  k \in Referenced' <=> k \in Referenced /\ ImageOf(k) \notin gone
    <3>1. ImageOf(k) \in Images
      BY PartsFacts
    <3>2. k \in Referenced => ImageOf(k) \in WithRow
      BY <3>1 DEF Referenced, WithRow, RowsInv
    <3>3. k \in Referenced' => ImageOf(k) \in WithRow'
      BY <3>1 DEF Referenced, WithRow, RowsInv
    <3>4. ImageOf(k) \in WithRow' => ImageOf(k) \notin gone
      BY <1>11 DEF Purged, WithRow, RowsInv, Ownership!ImagesIn
    <3>5. ImageOf(k) \in WithRow' => (k \in Referenced <=> k \in Referenced')
      BY <3>1 DEF Referenced, WithRow
    <3>6. ImageOf(k) \in WithRow /\ ImageOf(k) \notin gone => ImageOf(k) \in WithRow'
      OBVIOUS
    <3>7. QED BY <3>2, <3>3, <3>4, <3>5, <3>6
  <2>2. Referenced \subseteq Keys /\ Referenced' \subseteq Keys
    BY DEF Referenced, StorageInv, TypeOK
  <2>3. QED BY <1>9, <2>1, <2>2, FilesOfFacts
<1>13. Listed' = Listed \ Ownership!FilesIn(Purged' \ Purged)
  <2>1. \A k : k \in Ownership!FilesIn(Purged' \ Purged) <=>
                 k \in Keys /\ GalleryOf[ImageOf(k)] \in Purged' \ Purged
    BY FilesOfFacts, PartsFacts DEF Ownership!ImagesIn
  <2>2. CASE kind[t] # "purge"
    <3>1. intents' = intents
      BY <2>2 DEF Finish, DeleteKinds, BatchKinds
    <3>2. QED BY <1>7, <2>1, <2>2, <3>1 DEF Listed
  <2>3. CASE kind[t] = "purge"
    <3>1. intents' = intents \ IntentsOf(gal[t])
      BY <2>3 DEF Finish
    <3>2. gal[t] \in Purged => \A k \in Listed : GalleryOf[ImageOf(k)] # gal[t]
      <4>1. SUFFICES ASSUME gallery[gal[t]] = "gone", NEW s \in intents, NEW k \in s,
                            GalleryOf[ImageOf(k)] = gal[t]
                     PROVE  FALSE
        BY DEF Purged, Listed
      <4>2. PICK g \in Galleries : s \subseteq KeysIn(g)
        BY DEF ClaimsInv
      <4>3. g = gal[t]
        BY <4>1, <4>2 DEF KeysIn
      <4>4. QED BY <1>6, <4>1, <4>2, <4>3 DEF FilesInv, IntentsOf
    <3>3. ASSUME NEW s \in intents, NEW k \in s
          PROVE  k \in Keys /\ (s \in IntentsOf(gal[t]) <=> GalleryOf[ImageOf(k)] = gal[t])
      <4>1. PICK g \in Galleries : s \subseteq KeysIn(g)
        BY DEF ClaimsInv
      <4>2. QED BY <4>1 DEF IntentsOf, KeysIn
    <3>4. \A k : k \in Listed' <=> k \in Listed /\ GalleryOf[ImageOf(k)] # gal[t]
      BY <3>1, <3>3 DEF Listed
    <3>5. \A k \in Listed : k \in Keys
      BY <3>3 DEF Listed
    <3>6. QED BY <1>7, <2>1, <2>3, <3>2, <3>4, <3>5
  <2>4. QED BY <2>2, <2>3
<1>14. Purged \subseteq Purged'
  BY <1>7
<1>15. QED
  BY <1>2, <1>3, <1>5, <1>9, <1>10, <1>11, <1>12, <1>13, <1>14 DEF Ownership!Remove

(* A recovery that has cleaned up drops its intent, a worker that failed   *)
(* marks its image.                                                        *)
LEMMA FinishSettles ==
  ASSUME AllInv, LeftoverHasIntent', NEW t \in Tasks, Finish(t), kind[t] \notin DeleteKinds
  PROVE  Ownership!Publish
<1> USE FinishFacts DEF AllInv
<1>1. Others(t) /\ Ended(t) /\ UNCHANGED <<origin, store>> /\ Doomed(t) = {}
  BY DEF Doomed, DeleteKinds
<1>2. UNCHANGED <<objects, allocated, Duplicated, Purged>>
  BY <1>1 DEF store, Duplicated, Purged, DeleteKinds
<1>3. Condemned' = Condemned
  BY <1>1, CondemnedStays DEF Ended, DeleteKinds
<1>4. WithRow' = WithRow
  BY <1>1 DEF WithRow
<1>5. previews' = previews
  BY <1>1 DEF Finish
<1>6. Referenced' = Referenced
  BY <1>1, <1>5, PartsFacts DEF Referenced
<1>7. intents' \subseteq intents
  BY DEF Finish
<1>8. Listed' \subseteq Listed
  BY <1>7 DEF Listed
<1>9. objects \cap (Listed \ Listed') \subseteq Ownership!FilesOfAll(WithRow')
  <2>1. ASSUME NEW k \in objects, k \in Listed, k \notin Listed'
        PROVE  k \in Keys /\ ImageOf(k) \in WithRow'
    <3>1. k \in Keys /\ ImageOf(k) \in Images
      BY PartsFacts DEF StorageInv, TypeOK
    <3>2. origin'[ImageOf(k)] = "upload" /\ k \in objects'
      BY <1>1, <1>2, <2>1 DEF Listed, ClaimsInv
    <3>3. row'[ImageOf(k)] # "none"
      BY <2>1, <3>2 DEF LeftoverHasIntent, Listed
    <3>4. QED BY <3>1, <3>3 DEF WithRow
  <2>2. WithRow' \subseteq Images
    BY DEF WithRow
  <2>3. QED BY <2>1, <2>2, FilesOfFacts
<1>10. QED BY <1>2, <1>3, <1>4, <1>6, <1>8, <1>9 DEF Ownership!Publish

LEMMA VanishSeen ==
  ASSUME AllInv, NEW t \in Tasks, Others(t), Vanish(t)
  PROVE  Ownership!Land \/ Ownership!Discard
<1> USE DEF AllInv
<1>1. PICK landed \in SUBSET writing[t] : objects' = objects \cup landed
  BY DEF Vanish
<1>2. End(t) /\ UNCHANGED <<database, allocated>>
  BY DEF Vanish
<1>3. Ended(t)
  BY <1>2, EndEffect DEF StorageInv
<1>4. CASE pc[t] = "put"
  BY <1>1, <1>2, <1>3, <1>4, BytesLand
<1>5. CASE pc[t] # "put"
  <2>1. objects' = objects
    BY <1>1, <1>5 DEF StorageInv, WritesReserved
  <2>2. Condemned' \subseteq Condemned
    BY <1>3, CondemnedSpared
  <2>3. QED BY <1>2, <2>1, <2>2, DatabaseSame DEF Ownership!Discard
<1>6. QED BY <1>4, <1>5

LEMMA OwnershipStep ==
  AllInv /\ RowsInv' /\ LeftoverHasIntent' /\ [Next]_vars => [Ownership!Next]_Seen
<1>a. SUFFICES ASSUME AllInv, RowsInv', LeftoverHasIntent', Next PROVE Ownership!Next \/ UNCHANGED Seen
  BY DEF Seen, vars, database, store, local, Listed, Duplicated, WithRow, Referenced, Purged,
         Condemned, DoomedKeys
<1>b. AllInv /\ StorageInv /\ TypeOK
  BY <1>a DEF AllInv, StorageInv
<1>c. ASSUME NEW t \in Tasks, Others(t), UNCHANGED <<database, store>>, pc[t] # "idle",
             UNCHANGED <<kind, gal, plan>> \/ (kind[t] \notin DeleteKinds /\ (Ended(t) \/ RolledBack(t)))
      PROVE  UNCHANGED Seen
  BY <1>c, DatabaseSame, CondemnedStays DEF Seen, store, Ended, RolledBack, DeleteKinds
<1>d. ASSUME NEW t \in Tasks, Others(t), UNCHANGED <<database, store>>, pc[t] = "idle", kind'[t] = "worker"
      PROVE  UNCHANGED Seen
  BY <1>b, <1>d, DatabaseSame, StartCondemns DEF Seen, store, DeleteKinds
<1>1. ASSUME NEW g \in Galleries, CreateGallery(g) PROVE UNCHANGED Seen
  <2>1. UNCHANGED <<origin, row, previews, intents, store, local>>
        /\ \A h \in Galleries : gallery[h] = "gone" <=> gallery'[h] = "gone"
    BY <1>b, <1>1 DEF CreateGallery, TypeOK
  <2>2. QED BY <2>1 DEF Seen, store, local, Listed, Duplicated, WithRow, Referenced, Purged,
                         Condemned, DoomedKeys
<1>2. ASSUME NEW i \in Images, QueueLost(i) PROVE UNCHANGED Seen
  BY <1>2 DEF QueueLost, Seen, database, store, local, Listed, Duplicated, WithRow, Referenced, Purged,
         Condemned, DoomedKeys
<1>3. ASSUME NEW t \in Tasks, TaskStep(t) PROVE Ownership!Next \/ UNCHANGED Seen
  <2> Others(t)
    BY <1>b, <1>3, OthersStay
  <2> USE <1>a, <1>b
  <2> USE DEF Ownership!Next
  <2>1. ASSUME NEW k \in {"api", "web"}, NEW g \in Galleries, NEW imgs \in SUBSET Images,
               BeginUpload(t, k, g, imgs)
        PROVE  Ownership!Next
    BY <2>1, UploadAnnounces
  <2>2. ASSUME NEW src \in Galleries, NEW g \in Galleries, NEW imgs \in SUBSET Images,
               BeginCopy(t, src, g, imgs)
        PROVE  Ownership!Next
    BY <2>2, CopyPlans
  <2>3. ASSUME NEW k \in Keys, Reserve(t, k) PROVE Ownership!Next
    BY <2>3, ReserveCharges
  <2>4. ASSUME NEW k \in Keys, ReserveFails(t, k) PROVE UNCHANGED Seen
    <3>1. pc[t] = "write" /\ UNCHANGED <<database, store, kind, gal, plan>>
      BY <2>4 DEF ReserveFails
    <3>2. QED BY <1>c, <3>1
  <2>5. CASE ReenterBatch(t)
    <3>1. pc[t] = "gap" /\ UNCHANGED <<database, store, kind, gal, plan>>
      BY <2>5 DEF ReenterBatch, RollBack, local
    <3>2. QED BY <1>c, <3>1
  <2>6. CASE PutDone(t)
    <3>1. pc[t] = "put" /\ objects' = objects \cup writing[t]
          /\ UNCHANGED <<database, allocated, kind, gal, plan>>
      BY <2>6 DEF PutDone
    <3>2. QED BY <3>1, BytesLand
  <2>7. CASE PutFails(t)
    <3>1. PICK landed \in SUBSET writing[t] : objects' = objects \cup landed
      BY <2>7 DEF PutFails
    <3>2. pc[t] = "put" /\ UNCHANGED <<database, allocated, kind, gal, plan>>
      BY <2>7 DEF PutFails, RollBack
    <3>3. QED BY <3>1, <3>2, BytesLand
  <2>8. CASE Abort(t)
    <3>1. pc[t] = "write" /\ UNCHANGED <<database, store, kind, gal, plan>>
      BY <2>8 DEF Abort, RollBack
    <3>2. QED BY <1>c, <3>1
  <2>9. CASE CommitAcked(t)
    BY <2>9, EndEffect, CommitPublishes DEF CommitAcked
  <2>10. CASE CommitAckLost(t)
    BY <2>10, RollBackEffect, CommitPublishes DEF CommitAckLost
  <2>11. ASSUME NEW i \in Images, WorkerEnter(t, i) PROVE UNCHANGED Seen
    <3>1. pc[t] = "idle" /\ UNCHANGED <<database, store>>
      BY <2>11 DEF WorkerEnter
    <3>2. CASE UNCHANGED local
      BY <3>1, <3>2, DatabaseSame, CondemnedStays DEF Seen, store, local
    <3>3. CASE Start(t, "worker", GalleryOf[i], CanonicalPreviewKeys(i))
      BY <1>d, <3>1, <3>3, StartEffect
    <3>4. QED BY <2>11, <3>2, <3>3 DEF WorkerEnter
  <2>12. ASSUME NEW i \in Images, WorkerNotAdmitted(t, i) PROVE UNCHANGED Seen
    <3>1. Start(t, "worker", GalleryOf[i], CanonicalPreviewKeys(i)) /\ UNCHANGED <<database, store>>
      BY <2>12 DEF WorkerNotAdmitted
    <3>2. QED BY <1>d, <3>1, StartEffect
  <2>13. ASSUME NEW i \in Images, DeleteImage(t, i) PROVE Ownership!Next
    <3>1. pc[t] = "idle" /\ UNCHANGED <<database, store>>
      BY <2>13 DEF DeleteImage, Start
    <3>2. QED BY <3>1, DeletionCondemns
  <2>14. CASE EnterRecovery(t)
    <3>1. pc[t] = "abort" /\ UNCHANGED <<database, store, kind, gal, plan>>
      BY <2>14 DEF EnterRecovery
    <3>2. QED BY <1>c, <3>1
  <2>15. CASE EnterMarkFailed(t)
    <3>1. pc[t] = "abort" /\ kind[t] = "worker" /\ UNCHANGED <<database, store>>
          /\ (End(t) \/ UNCHANGED <<kind, gal, plan>>)
      BY <2>15 DEF EnterMarkFailed
    <3>2. QED BY <1>c, <3>1, EndEffect DEF DeleteKinds
  <2>16. ASSUME NEW g \in Galleries, NEW imgs \in SUBSET Images, BulkDelete(t, g, imgs)
         PROVE  Ownership!Next
    <3>1. pc[t] = "idle" /\ UNCHANGED <<database, store>>
      BY <2>16 DEF BulkDelete, Start
    <3>2. QED BY <3>1, DeletionCondemns
  <2>17. ASSUME NEW g \in Galleries, PurgeGallery(t, g) PROVE Ownership!Next
    <3>1. pc[t] = "idle" /\ UNCHANGED <<database, store>>
      BY <2>17 DEF PurgeGallery, Start
    <3>2. QED BY <3>1, DeletionCondemns
  <2>18. CASE Erase(t)
    BY <2>18, EraseDiscards
  <2>19. CASE Refund(t)
    BY <2>19, RefundRefunds
  <2>20. CASE Finish(t)
    BY <2>20, FinishRemoves, FinishSettles
  <2>21. CASE Vanish(t)
    BY <2>21, VanishSeen
  <2>22. QED
    BY <1>3, <2>1, <2>2, <2>3, <2>4, <2>5, <2>6, <2>7, <2>8, <2>9, <2>10, <2>11, <2>12, <2>13,
       <2>14, <2>15, <2>16, <2>17, <2>18, <2>19, <2>20, <2>21 DEF TaskStep
<1>4. QED BY <1>a, <1>1, <1>2, <1>3 DEF Next

(* The claims, which the ownership needs besides the other promises.       *)
THEOREM ClaimsInvariant == Spec => []ClaimsInv
<1>1. Init => ClaimsInv
  BY AffordableFacts DEF Init, ClaimsInv, TaskClaims
<1>2. QED BY <1>1, ClaimsStep, StorageInvariant, PromisesInvariant, PTL DEF Spec

(* The storage life of images implements its ownership: with any number of *)
(* tasks, failures and retries, every step does to files, ledger and rows  *)
(* what one step of an exclusive owner could do, or nothing.               *)
THEOREM LifecycleRefinesOwnership == Spec => ImplementsStorageOwnership
<1>1. Init => Ownership!Init
  <2>1. SUFFICES ASSUME Init PROVE Ownership!Init
    OBVIOUS
  <2>2. objects = {} /\ allocated = {}
    BY <2>1 DEF Init
  <2>3. Listed = {} /\ Purged = {}
    BY <2>1 DEF Init, Listed, Purged
  <2>4. Duplicated = {} /\ WithRow = {}
    BY <2>1 DEF Init, Duplicated, WithRow
  <2>5. Referenced = {}
    <3>1. \A k \in Keys : row[ImageOf(k)] = "none"
      BY <2>1, PartsFacts DEF Init
    <3>2. QED BY <2>1, <3>1 DEF Init, Referenced
  <2>6. Condemned = {}
    BY <2>1 DEF Init, Condemned, DeleteKinds
  <2>7. QED BY <2>2, <2>3, <2>4, <2>5, <2>6 DEF Ownership!Init
<1>2. AllInv /\ AllInv' /\ [Next]_vars => [Ownership!Next]_(Ownership!ownership)
  <2>1. AllInv' => RowsInv' /\ LeftoverHasIntent'
    BY DEF AllInv, IntentsInv
  <2>2. Ownership!ownership = Seen /\ Ownership!ownership' = Seen'
    BY DEF Ownership!ownership, Seen
  <2>3. QED BY <2>1, <2>2, OwnershipStep
<1>3. StorageInv /\ RowsInv /\ FilesInv /\ IntentsInv /\ ClaimsInv => AllInv
  BY DEF AllInv
<1>4. QED
  BY <1>1, <1>2, <1>3, StorageInvariant, PromisesInvariant, ClaimsInvariant, PTL
     DEF Spec, ImplementsStorageOwnership, Ownership!Spec

(***************************************************************************)
(* What the ownership promises by itself.                                  *)
(***************************************************************************)

(* Answered, key by key. *)
KeysAnswered ==
  /\ objects \subseteq allocated /\ allocated \in Affordable
  /\ \A k \in objects : k \in Listed \/ ImageOf(k) \in WithRow \cup Duplicated
  /\ \A k \in Keys : GalleryOf[ImageOf(k)] \in Purged => k \notin allocated \cup Listed
  /\ \A i \in WithRow : GalleryOf[i] \notin Purged
  /\ \A k \in Referenced : k \in Keys /\ ImageOf(k) \in WithRow

LEMMA MappedSets ==
  /\ WithRow \subseteq Images /\ Duplicated \subseteq Images /\ Condemned \subseteq Images
  /\ WithRow' \subseteq Images /\ Duplicated' \subseteq Images /\ Condemned' \subseteq Images
  /\ \A S \in Affordable : S \subseteq Keys
BY DEF WithRow, Duplicated, Condemned, Affordable

LEMMA AnsweredByKeys ==
  /\ Ownership!Answered <=> KeysAnswered
  /\ Ownership!Answered' <=> KeysAnswered'
<1>1. \A G, k : k \in Ownership!FilesIn(G) <=> k \in Keys /\ GalleryOf[ImageOf(k)] \in G
  <2>1. \A G : Ownership!ImagesIn(G) \in SUBSET Images
    BY FilesOfFacts
  <2>2. QED BY <2>1, FilesOfFacts, PartsFacts
<1>2. Ownership!Answered <=> KeysAnswered
  BY <1>1, FilesOfFacts, MappedSets DEF Ownership!Answered, Ownership!Owned, KeysAnswered
<1>3. Ownership!Answered' <=> KeysAnswered'
  BY <1>1, FilesOfFacts, MappedSets DEF Ownership!Answered, Ownership!Owned, KeysAnswered
<1>4. QED BY <1>2, <1>3

LEMMA AnsweredStep ==
  ASSUME Ownership!Answered, Ownership!Next
  PROVE  Ownership!Answered'
<1> USE MappedSets
<1>1. KeysAnswered
  BY AnsweredByKeys
<1>a. \A G, k : k \in Ownership!FilesIn(G) <=> k \in Keys /\ GalleryOf[ImageOf(k)] \in G
  <2>1. \A G : Ownership!ImagesIn(G) \in SUBSET Images
    BY FilesOfFacts
  <2>2. QED BY <2>1, FilesOfFacts, PartsFacts
<1>b. \A I \in SUBSET Images : \A k : k \in Ownership!FilesOfAll(I) <=> k \in Keys /\ ImageOf(k) \in I
  BY FilesOfFacts
<1>c. \A G, i : i \in Ownership!ImagesIn(G) <=> i \in Images /\ GalleryOf[i] \in G
  BY FilesOfFacts
<1>d. \A k : k \in Ownership!Owned => k \in Listed \/ (k \in Keys /\ ImageOf(k) \in WithRow \cup Duplicated)
  BY <1>b DEF Ownership!Owned
<1>2. CASE Ownership!Announce
  <2>1. \A i \in Ownership!Unheard : i \in Images /\ GalleryOf[i] \notin Purged
    BY <1>c DEF Ownership!Unheard
  <2>2. \A k \in Listed' \ Listed : k \in Keys /\ GalleryOf[ImageOf(k)] \notin Purged
    BY <1>2, <1>b, <2>1 DEF Ownership!Announce
  <2>3. QED BY <1>1, <1>2, <2>2, AnsweredByKeys DEF KeysAnswered, Ownership!Announce
<1>3. CASE Ownership!Duplicate
  BY <1>1, <1>3, AnsweredByKeys DEF KeysAnswered, Ownership!Duplicate
<1>4. CASE Ownership!Charge
  <2>1. \A k \in allocated' \ allocated : k \in Keys => GalleryOf[ImageOf(k)] \notin Purged
    BY <1>4, <1>a DEF Ownership!Charge, Ownership!Writable
  <2>2. QED BY <1>1, <1>4, <2>1, AnsweredByKeys DEF KeysAnswered, Ownership!Charge
<1>5. CASE Ownership!Land
  <2>1. \A k \in objects' \ objects : k \in allocated /\ k \in Ownership!Owned
    BY <1>5 DEF Ownership!Land, Ownership!Writable
  <2>2. QED BY <1>1, <1>5, <1>d, <2>1, AnsweredByKeys DEF KeysAnswered, Ownership!Land
<1>6. CASE Ownership!Publish
  <2>1. UNCHANGED <<objects, allocated, Duplicated, Purged>> /\ WithRow \subseteq WithRow' /\ Listed' \subseteq Listed
    BY <1>6 DEF Ownership!Publish
  <2>2. \A k \in objects : k \in Listed \ Listed' => ImageOf(k) \in WithRow'
    BY <1>6, <1>b DEF Ownership!Publish
  <2>3. \A i \in WithRow' \ WithRow : GalleryOf[i] \notin Purged
    BY <1>6, <1>c DEF Ownership!Publish
  <2>4. \A k \in Referenced' \ Referenced : k \in Keys /\ ImageOf(k) \in WithRow'
    BY <1>6, <1>b DEF Ownership!Publish
  <2>5. QED BY <1>1, <2>1, <2>2, <2>3, <2>4, AnsweredByKeys DEF KeysAnswered
<1>7. CASE Ownership!Condemn \/ Ownership!Discard
  BY <1>1, <1>7, AnsweredByKeys DEF KeysAnswered, Ownership!Condemn, Ownership!Discard
<1>8. CASE Ownership!Refund
  <2>1. allocated' \in Affordable
    BY <1>1, <1>8, AffordableFacts DEF KeysAnswered, Ownership!Refund
  <2>2. QED BY <1>1, <1>8, <2>1, AnsweredByKeys DEF KeysAnswered, Ownership!Refund
<1>9. CASE Ownership!Remove
  <2> DEFINE gone == (WithRow \ WithRow') \cup Ownership!ImagesIn(Purged' \ Purged)
  <2>1. /\ UNCHANGED <<objects, allocated, Duplicated>> /\ WithRow' \subseteq WithRow
        /\ Ownership!ImagesIn(Purged') \cap WithRow' = {}
        /\ Ownership!FilesOfAll(gone) \cap (objects \cup allocated) = {}
        /\ Referenced' = Referenced \ Ownership!FilesOfAll(gone)
        /\ Listed' = Listed \ Ownership!FilesIn(Purged' \ Purged)
    BY <1>9 DEF Ownership!Remove
  <2>2. gone \in SUBSET Images
    BY <1>c
  <2>3. \A k : k \in Ownership!FilesOfAll(gone) <=> k \in Keys /\ ImageOf(k) \in gone
    BY <1>b, <2>2
  <2>4. \A k \in Keys : ImageOf(k) \in gone <=>
          ImageOf(k) \in WithRow \ WithRow' \/ GalleryOf[ImageOf(k)] \in Purged' \ Purged
    BY <1>c, PartsFacts
  <2> HIDE DEF gone
  <2>5. \A k \in objects : k \in Listed' \/ ImageOf(k) \in WithRow' \cup Duplicated'
    BY <1>1, <1>a, <2>1, <2>3, <2>4 DEF KeysAnswered
  <2>6. \A k \in Keys : GalleryOf[ImageOf(k)] \in Purged' => k \notin allocated \cup Listed'
    BY <1>1, <1>a, <2>1, <2>3, <2>4 DEF KeysAnswered
  <2>7. \A i \in WithRow' : GalleryOf[i] \notin Purged'
    BY <1>c, <2>1
  <2>8. \A k \in Referenced' : k \in Keys /\ ImageOf(k) \in WithRow'
    BY <1>1, <2>1, <2>3, <2>4 DEF KeysAnswered
  <2>9. QED BY <1>1, <2>1, <2>5, <2>6, <2>7, <2>8, AnsweredByKeys DEF KeysAnswered
<1>10. QED
  BY <1>2, <1>3, <1>4, <1>5, <1>6, <1>7, <1>8, <1>9 DEF Ownership!Next

(* Whoever implements the ownership, keeps what it promises: every stored  *)
(* file is counted, within the quota, and answered for; of a purged        *)
(* gallery nothing is left; no row outlives its image.                     *)
THEOREM OwnershipAnswers == ImplementsStorageOwnership => []Ownership!Answered
<1>1. Ownership!Init => Ownership!Answered
  BY AffordableFacts DEF Ownership!Init, Ownership!Answered, Ownership!FilesOfAll
<1>2. Ownership!Answered /\ [Ownership!Next]_(Ownership!ownership) => Ownership!Answered'
  <2>1. Ownership!Answered /\ UNCHANGED Ownership!ownership => Ownership!Answered'
    BY DEF Ownership!Answered, Ownership!ownership, Ownership!Owned, Ownership!FilesIn,
           Ownership!ImagesIn, Ownership!FilesOfAll
  <2>2. QED BY <2>1, AnsweredStep
<1>3. QED BY <1>1, <1>2, PTL DEF ImplementsStorageOwnership, Ownership!Spec
=============================================================================
