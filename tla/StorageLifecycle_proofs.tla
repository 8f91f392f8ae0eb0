------------------------ MODULE StorageLifecycle_proofs ------------------------
(***************************************************************************)
(* Theorems about StorageLifecycle, for every set of galleries, images,    *)
(* variants and tasks.                                                     *)
(***************************************************************************)
EXTENDS StorageLifecycle, TLAPS

(* Defines what every action leaves alone or may change in one place. *)
LEMMA PartsFacts ==
  /\ \A k \in Keys : ImageOf(k) \in Images
  /\ \A i \in Images : Original(i) \in Keys /\ ImageOf(Original(i)) = i
  /\ \A i \in Images : CanonicalPreviewKeys(i) \subseteq Keys
  /\ \A i \in Images : \A k \in CanonicalPreviewKeys(i) : ImageOf(k) = i
  /\ \A i \in Images : ImagesOf(CanonicalPreviewKeys(i)) = {i}
<1>1. \A k \in Keys : ImageOf(k) \in Images
  BY DEF Keys, ImageOf
<1>2. \A i \in Images : Original(i) \in Keys /\ ImageOf(Original(i)) = i
  BY DEF Keys, Parts, ImageOf, Original
<1>3. \A i \in Images : CanonicalPreviewKeys(i) \subseteq Keys
  BY DEF Keys, Parts, CanonicalPreviewKeys
<1>4. \A i \in Images : \A k \in CanonicalPreviewKeys(i) : ImageOf(k) = i
  BY DEF CanonicalPreviewKeys, ImageOf
<1>5. ASSUME NEW i \in Images PROVE ImagesOf(CanonicalPreviewKeys(i)) = {i}
  <2>1. PICK v \in Variants : TRUE
    BY ConstantsAssumption
  <2>2. <<i, v>> \in CanonicalPreviewKeys(i)
    BY <2>1 DEF CanonicalPreviewKeys
  <2>3. QED BY <1>4, <2>2 DEF ImagesOf
<1>6. QED BY <1>1, <1>2, <1>3, <1>4, <1>5

LEMMA PlannedKeysFacts ==
  ASSUME NEW imgs \in SUBSET Images, NEW k
  PROVE  /\ PlannedKeys(k, imgs) \subseteq Keys
         /\ ImagesOf(PlannedKeys(k, imgs)) = imgs
<1>1. PlannedKeys(k, imgs) \subseteq Keys
  BY PartsFacts DEF PlannedKeys, Keys, Parts
<1>2. \A x \in imgs \X Variants : ImageOf(x) \in imgs
  BY DEF ImageOf
<1>3. \A x \in PlannedKeys(k, imgs) : ImageOf(x) \in imgs
  BY <1>2, PartsFacts DEF PlannedKeys
<1>4. \A i \in imgs : Original(i) \in PlannedKeys(k, imgs)
  BY DEF PlannedKeys
<1>5. QED BY <1>1, <1>3, <1>4, PartsFacts DEF ImagesOf

LEMMA TrackedKeysFacts ==
  ASSUME TypeOK, NEW i \in Images
  PROVE  /\ TrackedKeys(i) \subseteq Keys
         /\ ImagesOf(TrackedKeys(i)) = {i}
BY PartsFacts DEF TrackedKeys, ImagesOf, TypeOK

LEMMA PurgeKeysFacts ==
  ASSUME TypeOK, NEW g \in Galleries
  PROVE  PurgeKeys(g) \subseteq KeysIn(g)
BY PartsFacts DEF PurgeKeys, IntentsOf, KeysIn, Committed, TypeOK

(* What ending a task and rolling its transaction back do to the types.    *)
LEMMA EndType ==
  ASSUME TypeOK, NEW t \in Tasks, End(t)
  PROVE  /\ shared' \in [Galleries -> SUBSET Tasks]
         /\ exclusive' \in [Galleries -> SUBSET Tasks]
         /\ imageLock' \in [Images -> SUBSET Tasks]
         /\ pc' \in [Tasks -> PCs]
         /\ kind' \in [Tasks -> Kinds]
         /\ gal' \in [Tasks -> Galleries \cup {None}]
         /\ plan' \in [Tasks -> SUBSET Keys]
         /\ attempted' \in [Tasks -> SUBSET Keys]
         /\ writing' \in [Tasks -> SUBSET Keys]
         /\ added' \in [Tasks -> SUBSET Keys]
         /\ todo' \in [Tasks -> SUBSET Keys]
         /\ \A s \in Tasks : pc'[s] = "idle" <=> gal'[s] = None
<1>1. /\ shared' \in [Galleries -> SUBSET Tasks]
      /\ exclusive' \in [Galleries -> SUBSET Tasks]
      /\ imageLock' \in [Images -> SUBSET Tasks]
  BY DEF TypeOK, End, ReleaseFences
<1>2. /\ pc' \in [Tasks -> PCs]
      /\ kind' \in [Tasks -> Kinds]
      /\ gal' \in [Tasks -> Galleries \cup {None}]
      /\ \A s \in Tasks : pc'[s] = "idle" <=> gal'[s] = None
  BY DEF TypeOK, End, PCs, Kinds
<1>3. /\ plan' \in [Tasks -> SUBSET Keys]
      /\ attempted' \in [Tasks -> SUBSET Keys]
      /\ writing' \in [Tasks -> SUBSET Keys]
      /\ added' \in [Tasks -> SUBSET Keys]
      /\ todo' \in [Tasks -> SUBSET Keys]
  BY DEF TypeOK, End
<1>4. QED BY <1>1, <1>2, <1>3

LEMMA RollBackType ==
  ASSUME TypeOK, NEW t \in Tasks, pc[t] # "idle", RollBack(t)
  PROVE  /\ shared' \in [Galleries -> SUBSET Tasks]
         /\ exclusive' \in [Galleries -> SUBSET Tasks]
         /\ imageLock' \in [Images -> SUBSET Tasks]
         /\ pc' \in [Tasks -> PCs]
         /\ kind' \in [Tasks -> Kinds]
         /\ gal' \in [Tasks -> Galleries \cup {None}]
         /\ plan' \in [Tasks -> SUBSET Keys]
         /\ attempted' \in [Tasks -> SUBSET Keys]
         /\ writing' \in [Tasks -> SUBSET Keys]
         /\ added' \in [Tasks -> SUBSET Keys]
         /\ todo' \in [Tasks -> SUBSET Keys]
         /\ \A s \in Tasks : pc'[s] = "idle" <=> gal'[s] = None
<1>1. /\ shared' \in [Galleries -> SUBSET Tasks]
      /\ exclusive' \in [Galleries -> SUBSET Tasks]
      /\ imageLock' \in [Images -> SUBSET Tasks]
  BY DEF TypeOK, RollBack, ReleaseFences
<1>2. QED BY <1>1 DEF TypeOK, RollBack, PCs

(* Every action keeps every variable in its type.                          *)
LEMMA TypeStep == TypeOK /\ [Next]_vars => TypeOK'
<1>a. SUFFICES ASSUME TypeOK, [Next]_vars PROVE TypeOK'
  OBVIOUS
<1>b. TypeOK
  BY <1>a
<1> USE <1>b, PartsFacts, ConstantsAssumption DEF TypeOK, PCs, Kinds, BatchKinds, DeleteKinds,
      vars, database, store, fences, local
<1>1. ASSUME NEW g \in Galleries, CreateGallery(g) PROVE TypeOK'
  BY <1>1 DEF CreateGallery
<1>2. ASSUME NEW t \in Tasks, NEW k \in {"api", "web"}, NEW g \in Galleries, NEW imgs \in SUBSET Images, BeginUpload(t, k, g, imgs) PROVE TypeOK'
  BY <1>2, PlannedKeysFacts DEF BeginUpload, Start, Fresh, Generate
<1>3. ASSUME NEW t \in Tasks, ReenterBatch(t) PROVE TypeOK'
  <2>1. pc[t] = "gap" /\ UNCHANGED <<database, store, queued>>
    BY <1>3 DEF ReenterBatch
  <2>2. CASE RollBack(t)
    BY <2>1, <2>2, RollBackType
  <2>3. CASE ShareGallery(t, {gal[t]}) /\ pc' = [pc EXCEPT ![t] = "write"]
               /\ UNCHANGED <<exclusive, imageLock, local>>
    BY <2>1, <2>3 DEF ShareGallery
  <2>4. QED BY <1>3, <2>2, <2>3 DEF ReenterBatch
<1>4. ASSUME NEW t \in Tasks, NEW src \in Galleries, NEW g \in Galleries, NEW imgs \in SUBSET Images, BeginCopy(t, src, g, imgs) PROVE TypeOK'
  <2>1. PICK from \in [imgs -> Committed(src)] :
          Start(t, "copy", g,
                {Original(i) : i \in imgs} \cup
                {k \in imgs \X Variants : <<from[ImageOf(k)], k[2]>> \in previews})
    BY <1>4 DEF BeginCopy
  <2>2. {Original(i) : i \in imgs} \subseteq Keys /\ imgs \X Variants \subseteq Keys
    BY DEF Keys, Parts
  <2>3. /\ plan' \in [Tasks -> SUBSET Keys]
        /\ kind' \in [Tasks -> Kinds]
        /\ gal' = [gal EXCEPT ![t] = g]
    BY <2>1, <2>2 DEF Start
  <2>4. shared' \in [Galleries -> SUBSET Tasks]
    BY <1>4 DEF BeginCopy, ShareGallery
  <2>5. /\ gallery' \in [Galleries -> {"unused", "claimed", "live", "gone"}]
        /\ origin' \in [Images -> {"fresh", "upload", "copy"}]
        /\ pc' = [pc EXCEPT ![t] = "write"]
        /\ UNCHANGED <<row, previews, intents, store, queued, exclusive, imageLock,
                       attempted, writing, added, todo>>
    BY <1>4 DEF BeginCopy, Generate
  <2>6. QED BY <2>3, <2>4, <2>5
<1>5. ASSUME NEW t \in Tasks, NEW k \in Keys, Reserve(t, k) PROVE TypeOK'
  BY <1>5 DEF Reserve, Remaining
<1>6. ASSUME NEW t \in Tasks, NEW k \in Keys, ReserveFails(t, k) PROVE TypeOK'
  <2>1. pc[t] = "write" /\ UNCHANGED <<database, store, queued, kind, gal, plan, writing, todo>>
    BY <1>6 DEF ReserveFails
  <2>2. attempted' \in [Tasks -> SUBSET Keys]
    BY <1>6 DEF ReserveFails
  <2>3. CASE UNCHANGED <<pc, fences, added>>
    BY <2>1, <2>2, <2>3
  <2>4. CASE ReleaseFences(t) /\ pc' = [pc EXCEPT ![t] = "abort"]
               /\ added' = [added EXCEPT ![t] = {}]
    BY <2>1, <2>2, <2>4 DEF ReleaseFences
  <2>5. QED BY <1>6, <2>3, <2>4 DEF ReserveFails
<1>7. ASSUME NEW t \in Tasks, PutDone(t) PROVE TypeOK'
  BY <1>7 DEF PutDone
<1>8. ASSUME NEW t \in Tasks, PutFails(t) PROVE TypeOK'
  <2>1. pc[t] = "put" /\ UNCHANGED <<database, allocated, queued>>
    BY <1>8 DEF PutFails
  <2>2. objects' \subseteq Keys
    BY <1>8 DEF PutFails
  <2>3. CASE RollBack(t)
    BY <2>1, <2>2, <2>3, RollBackType
  <2>4. CASE writing' = [writing EXCEPT ![t] = {}] /\ pc' = [pc EXCEPT ![t] = "write"]
               /\ UNCHANGED <<fences, kind, gal, plan, attempted, added, todo>>
    BY <2>1, <2>2, <2>4
  <2>5. QED BY <1>8, <2>3, <2>4 DEF PutFails
<1>9. ASSUME NEW t \in Tasks, Abort(t) PROVE TypeOK'
  BY <1>9 DEF Abort, RollBack, ReleaseFences
<1>10. ASSUME NEW t \in Tasks, CommitAcked(t) PROVE TypeOK'
  BY <1>10 DEF CommitAcked, CommitRows, StoredImages, End, ReleaseFences
<1>11. ASSUME NEW t \in Tasks, CommitAckLost(t) PROVE TypeOK'
  BY <1>11 DEF CommitAckLost, CommitRows, StoredImages, RollBack, ReleaseFences
<1>12. ASSUME NEW t \in Tasks, NEW i \in Images, WorkerEnter(t, i) PROVE TypeOK'
  <2>1. queued' \subseteq Images /\ UNCHANGED <<database, store>>
    BY <1>12 DEF WorkerEnter
  <2>2. CASE UNCHANGED <<fences, pc, local>>
    BY <2>1, <2>2
  <2>3. CASE /\ Start(t, "worker", GalleryOf[i], CanonicalPreviewKeys(i))
             /\ UNCHANGED <<attempted, writing, added, todo, exclusive>>
             /\ \/ /\ ShareGallery(t, {GalleryOf[i]}) /\ LockImage(t, i)
                   /\ pc' = [pc EXCEPT ![t] = "write"]
                \/ /\ pc' = [pc EXCEPT ![t] = "abort"]
                   /\ UNCHANGED <<shared, imageLock>>
    <3>1. /\ plan' \in [Tasks -> SUBSET Keys]
          /\ kind' \in [Tasks -> Kinds]
          /\ gal' = [gal EXCEPT ![t] = GalleryOf[i]] /\ GalleryOf[i] \in Galleries
      BY <2>3 DEF Start
    <3>2. CASE ShareGallery(t, {GalleryOf[i]}) /\ LockImage(t, i)
                 /\ pc' = [pc EXCEPT ![t] = "write"]
      BY <2>1, <2>3, <3>1, <3>2 DEF ShareGallery, LockImage
    <3>3. CASE pc' = [pc EXCEPT ![t] = "abort"] /\ UNCHANGED <<shared, imageLock>>
      BY <2>1, <2>3, <3>1, <3>3
    <3>4. QED BY <2>3, <3>2, <3>3
  <2>4. QED BY <1>12, <2>2, <2>3 DEF WorkerEnter
<1>13. ASSUME NEW t \in Tasks, NEW i \in Images, WorkerNotAdmitted(t, i) PROVE TypeOK'
  BY <1>13 DEF WorkerNotAdmitted, Start
<1>14. ASSUME NEW i \in Images, QueueLost(i) PROVE TypeOK'
  BY <1>14 DEF QueueLost
<1>15. ASSUME NEW t \in Tasks, EnterRecovery(t) PROVE TypeOK'
  BY <1>15 DEF EnterRecovery, ExcludeGallery
<1>16. ASSUME NEW t \in Tasks, EnterMarkFailed(t) PROVE TypeOK'
  <2>1. pc[t] = "abort" /\ UNCHANGED <<database, store, queued>>
    BY <1>16 DEF EnterMarkFailed
  <2>2. CASE End(t)
    BY <2>1, <2>2, EndType
  <2>3. ASSUME NEW i \in Images,
               ShareGallery(t, {gal[t]}), LockImage(t, i),
               todo' = [todo EXCEPT ![t] = attempted[t]],
               pc' = [pc EXCEPT ![t] = "erase"],
               UNCHANGED <<exclusive, kind, gal, plan, attempted, writing, added>>
        PROVE  TypeOK'
    BY <2>1, <2>3 DEF ShareGallery, LockImage
  <2>4. ImagesOf(plan[t]) \subseteq Images
    BY DEF ImagesOf
  <2>5. QED BY <1>16, <2>2, <2>3, <2>4 DEF EnterMarkFailed
<1>17. ASSUME NEW t \in Tasks, NEW i \in Images, DeleteImage(t, i) PROVE TypeOK'
  BY <1>17, TrackedKeysFacts DEF DeleteImage, Start, ShareGallery, LockImage
<1>18. ASSUME NEW t \in Tasks, NEW g \in Galleries, NEW imgs \in SUBSET Images, BulkDelete(t, g, imgs) PROVE TypeOK'
  BY <1>18, TrackedKeysFacts DEF BulkDelete, Start, ExcludeGallery
<1>19. ASSUME NEW t \in Tasks, NEW g \in Galleries, PurgeGallery(t, g) PROVE TypeOK'
  <2>1. PurgeKeys(g) \subseteq Keys
    BY PurgeKeysFacts DEF KeysIn
  <2>2. QED BY <1>19, <2>1 DEF PurgeGallery, Start, ExcludeGallery
<1>20. ASSUME NEW t \in Tasks, Erase(t) PROVE TypeOK'
  <2>1. pc[t] = "erase" /\ UNCHANGED <<database, allocated, queued>> /\ objects' \subseteq Keys
    BY <1>20 DEF Erase
  <2>2. CASE End(t)
    BY <2>1, <2>2, EndType
  <2>3. CASE /\ pc' = [pc EXCEPT ![t] = "refund"] \/ pc' = [pc EXCEPT ![t] = "finish"]
             /\ UNCHANGED <<fences, local>>
    BY <2>1, <2>3
  <2>4. QED BY <1>20, <2>2, <2>3 DEF Erase
<1>21. ASSUME NEW t \in Tasks, Refund(t) PROVE TypeOK'
  <2>1. /\ pc[t] = "refund"
        /\ allocated' \subseteq Keys
        /\ UNCHANGED <<database, objects, queued, fences, kind, gal, plan, attempted, writing>>
    BY <1>21 DEF Refund
  <2>2. added' \in [Tasks -> SUBSET Keys]
    BY <1>21 DEF Refund
  <2>3. ImagesLeft(t) \subseteq Images
    BY DEF ImagesOf, ImagesLeft
  <2>4. \A i \in Images : TrackedKeys(i) \subseteq Keys
    BY TrackedKeysFacts
  <2>5. todo' \in [Tasks -> SUBSET Keys]
    BY <1>21, <2>3, <2>4 DEF Refund
  <2>6. pc' = [pc EXCEPT ![t] = "finish"] \/ pc' = [pc EXCEPT ![t] = "erase"]
    BY <1>21 DEF Refund
  <2>7. pc' \in [Tasks -> PCs] /\ \A s \in Tasks : pc'[s] = "idle" <=> gal'[s] = None
    BY <2>1, <2>6
  <2>8. QED BY <2>1, <2>2, <2>5, <2>7
<1>22. ASSUME NEW t \in Tasks, Finish(t) PROVE TypeOK'
  <2>1. pc[t] = "finish" /\ End(t) /\ UNCHANGED <<origin, store, queued>>
    BY <1>22 DEF Finish
  <2>2. row' \in [Images -> {"none", "pending", "ready", "failed"}]
    BY <1>22 DEF Finish
  <2>3. /\ previews' \subseteq Keys /\ intents' \subseteq SUBSET Keys
        /\ gallery' \in [Galleries -> {"unused", "claimed", "live", "gone"}]
    BY <1>22 DEF Finish
  <2>4. QED BY <2>1, <2>2, <2>3, EndType
<1>23. ASSUME NEW t \in Tasks, Vanish(t) PROVE TypeOK'
  BY <1>23 DEF Vanish, End, ReleaseFences
<1>24. CASE UNCHANGED vars
  BY <1>24
<1>25. QED
  BY <1>a, <1>1, <1>2, <1>3, <1>4, <1>5, <1>6, <1>7, <1>8, <1>9, <1>10, <1>11, <1>12, <1>13, <1>14, <1>15, <1>16, <1>17, <1>18, <1>19, <1>20, <1>21, <1>22, <1>23, <1>24 DEF Next, TaskStep

(***************************************************************************)
(* The inductive invariant.                                                *)
(***************************************************************************)

LEMMA ImagesOfFacts ==
  /\ \A S \in SUBSET Keys : \A k \in S : ImageOf(k) \in ImagesOf(S)
  /\ \A S \in SUBSET Keys : ImagesOf(S) \subseteq Images
  /\ \A S, T \in SUBSET Keys : S \subseteq T => ImagesOf(S) \subseteq ImagesOf(T)
  /\ ImagesOf({}) = {}
BY PartsFacts DEF ImagesOf

(* A task that writes a key and a task that deletes or refunds it never    *)
(* stand there together: this is what the fences are for.                  *)
LEMMA NoOverlap ==
  ASSUME StorageInv, NEW p \in Tasks, NEW q \in Tasks,
         pc[p] = "put", pc[q] \in {"erase", "refund"}
  PROVE  writing[p] \cap todo[q] = {}
<1>1. SUFFICES ASSUME NEW k \in writing[p], k \in todo[q] PROVE FALSE
  OBVIOUS
<1>2. k \in Keys /\ gal[p] = GalleryOf[ImageOf(k)] /\ gal[q] = GalleryOf[ImageOf(k)]
  BY <1>1 DEF StorageInv, TypeOK, TaskScope, KeysIn
<1>3. gal[p] \in Galleries
  BY <1>2, PartsFacts, ConstantsAssumption
<1>4. p # q /\ p \in shared[gal[p]]
  BY DEF StorageInv, FencesHeld
<1>5. kind[q] \in {"worker", "image"}
  BY <1>2, <1>3, <1>4 DEF StorageInv, FencesHeld, FencesExclude
<1>6. ImageOf(k) \in ImagesOf(plan[q]) /\ ImageOf(k) \in ImagesOf(plan[p])
  <2>1. k \in plan[p]
    BY <1>1 DEF StorageInv, TaskScope
  <2>2. ImagesOf(todo[q]) \subseteq ImagesOf(plan[q])
    BY <1>5 DEF StorageInv, TaskScope
  <2>3. plan[p] \in SUBSET Keys /\ todo[q] \in SUBSET Keys
    BY DEF StorageInv, TypeOK
  <2>4. QED BY <1>1, <2>1, <2>2, <2>3, ImagesOfFacts
<1>7. CASE kind[p] = "worker"
  <2>1. p \in imageLock[ImageOf(k)] /\ q \in imageLock[ImageOf(k)]
    BY <1>5, <1>6, <1>7 DEF StorageInv, FencesHeld
  <2>2. QED BY <1>2, <1>4, <2>1, PartsFacts DEF StorageInv, FencesExclude
<1>8. CASE kind[p] # "worker"
  BY <1>4, <1>6, <1>8 DEF StorageInv, FencesHeld, BatchPrivate
<1>9. QED BY <1>7, <1>8

LEMMA IdleTask ==
  ASSUME StorageInv, NEW t \in Tasks, pc[t] = "idle"
  PROVE  /\ gal[t] = None
         /\ plan[t] = {} /\ attempted[t] = {} /\ writing[t] = {}
         /\ added[t] = {} /\ todo[t] = {}
<1>1. gal[t] = None
  BY DEF StorageInv, TypeOK
<1>2. KeysIn(None) = {}
  BY PartsFacts, ConstantsAssumption DEF KeysIn
<1>3. QED BY <1>1, <1>2 DEF StorageInv, TaskScope

LEMMA ReleaseExclusion ==
  ASSUME TypeOK, FencesExclude, NEW t \in Tasks, ReleaseFences(t)
  PROVE  FencesExclude'
<1>1. ASSUME NEW g \in Galleries, exclusive'[g] # {}
      PROVE  shared'[g] = {} /\ \A r, s \in exclusive'[g] : r = s
  <2>1. exclusive'[g] = exclusive[g] \ {t} /\ shared'[g] = shared[g] \ {t}
    BY DEF ReleaseFences
  <2>2. exclusive[g] # {}
    BY <1>1, <2>1
  <2>3. shared[g] = {} /\ \A r, s \in exclusive[g] : r = s
    BY <2>2 DEF FencesExclude
  <2>4. QED BY <2>1, <2>3
<1>2. ASSUME NEW i \in Images PROVE \A r, s \in imageLock'[i] : r = s
  <2>1. imageLock'[i] = imageLock[i] \ {t}
    BY DEF ReleaseFences
  <2>2. QED BY <2>1 DEF FencesExclude
<1>3. QED BY <1>1, <1>2 DEF FencesExclude

(* The end of a task leaves every other task as it is, and itself empty.   *)
LEMMA EndKeeps ==
  ASSUME StorageInv, NEW t \in Tasks, End(t)
  PROVE  FencesExclude' /\ TaskScope' /\ FencesHeld'
<1>1. FencesExclude'
  BY ReleaseExclusion DEF StorageInv, End
<1>2. TaskScope'
  BY ImagesOfFacts DEF StorageInv, TypeOK, TaskScope, End
<1>3. ASSUME NEW s \in Tasks, NEW i \in Images, s # t, s \in imageLock[i]
      PROVE  s \in imageLock'[i]
  BY <1>3 DEF End, ReleaseFences
<1>4. ASSUME NEW s \in Tasks, s # t, gal[s] \in Galleries
      PROVE  /\ s \in shared[gal[s]] => s \in shared'[gal[s]]
             /\ s \in exclusive[gal[s]] => s \in exclusive'[gal[s]]
  BY <1>4 DEF End, ReleaseFences
<1>5. pc'[t] = "idle" /\ kind'[t] = "none"
  BY DEF StorageInv, TypeOK, End
<1>6. \A s \in Tasks : s # t => /\ pc'[s] = pc[s] /\ kind'[s] = kind[s]
                                /\ gal'[s] = gal[s] /\ plan'[s] = plan[s]
  BY DEF StorageInv, TypeOK, End
<1>7. \A s \in Tasks : pc[s] # "idle" => gal[s] \in Galleries
  BY DEF StorageInv, TypeOK
<1>8. \A s \in Tasks : ImagesOf(plan[s]) \subseteq Images
  BY ImagesOfFacts DEF StorageInv, TypeOK
<1>9. FencesHeld'
  BY <1>3, <1>4, <1>5, <1>6, <1>7, <1>8 DEF StorageInv, FencesHeld
<1>10. QED BY <1>1, <1>2, <1>9

(* A rolled-back writer holds no fence and keeps its plan and its attempts.*)
LEMMA RollBackKeeps ==
  ASSUME StorageInv, NEW t \in Tasks, pc[t] \in {"gap", "write", "put"}, RollBack(t)
  PROVE  FencesExclude' /\ TaskScope' /\ FencesHeld'
<1>1. FencesExclude'
  BY ReleaseExclusion DEF StorageInv, RollBack
<1>2. TaskScope'
  BY ImagesOfFacts DEF StorageInv, TypeOK, TaskScope, RollBack
<1>3. ASSUME NEW s \in Tasks, NEW i \in Images, s # t, s \in imageLock[i]
      PROVE  s \in imageLock'[i]
  BY <1>3 DEF RollBack, ReleaseFences
<1>4. ASSUME NEW s \in Tasks, s # t, gal[s] \in Galleries
      PROVE  /\ s \in shared[gal[s]] => s \in shared'[gal[s]]
             /\ s \in exclusive[gal[s]] => s \in exclusive'[gal[s]]
  BY <1>4 DEF RollBack, ReleaseFences
<1>5. pc'[t] = "abort" /\ kind'[t] = kind[t]
  BY DEF StorageInv, TypeOK, RollBack
<1>6. \A s \in Tasks : s # t => pc'[s] = pc[s]
  BY DEF StorageInv, TypeOK, RollBack
<1>7. UNCHANGED <<kind, gal, plan>>
  BY DEF RollBack
<1>8. \A s \in Tasks : pc[s] # "idle" => gal[s] \in Galleries
  BY DEF StorageInv, TypeOK
<1>9. \A s \in Tasks : ImagesOf(plan[s]) \subseteq Images
  BY ImagesOfFacts DEF StorageInv, TypeOK
<1>10. kind[t] \in BatchKinds \cup {"worker"}
  BY DEF StorageInv, FencesHeld
<1>11. FencesHeld'
  BY <1>3, <1>4, <1>5, <1>6, <1>7, <1>8, <1>9, <1>10 DEF StorageInv, FencesHeld, BatchKinds
<1>12. QED BY <1>1, <1>2, <1>11

(* A task that settles: it is no writer of a batch afterwards, and nobody  *)
(* but its own images become known.                                        *)
LEMMA Settle ==
  ASSUME StorageInv, NEW t \in Tasks,
         \A s \in Tasks \ {t} : /\ pc'[s] = pc[s] /\ kind'[s] = kind[s]
                                /\ plan'[s] = plan[s],
         ImagesOf(plan'[t]) \subseteq ImagesOf(plan[t]),
         kind'[t] \in BatchKinds => pc'[t] \notin {"gap", "write", "put"},
         \A i \in Images : row'[i] # "none" \/ i \in queued' =>
                             row[i] # "none" \/ i \in queued \/ i \in ImagesOf(plan[t]),
         origin' = origin
  PROVE  BatchPrivate' /\ FreshUnknown'
<1>1. \A s \in Tasks : ImagesOf(plan[s]) \subseteq Images
  BY ImagesOfFacts DEF StorageInv, TypeOK
<1>2. BatchPrivate'
  <2>1. SUFFICES ASSUME NEW s \in Tasks, kind'[s] \in BatchKinds, pc'[s] \in {"gap", "write", "put"},
                        NEW i \in ImagesOf(plan'[s])
                 PROVE  /\ row'[i] = "none" /\ i \notin queued'
                        /\ \A r \in Tasks \ {s} : i \notin ImagesOf(plan'[r])
    BY DEF BatchPrivate
  <2>2. s # t
    BY <2>1
  <2>3. i \in Images /\ i \in ImagesOf(plan[s])
    BY <1>1, <2>1, <2>2
  <2>4. /\ row[i] = "none" /\ i \notin queued
        /\ \A r \in Tasks \ {s} : i \notin ImagesOf(plan[r])
    BY <2>1, <2>2, <2>3 DEF StorageInv, BatchPrivate
  <2>5. i \notin ImagesOf(plan[t])
    BY <2>2, <2>4
  <2>6. row'[i] = "none" /\ i \notin queued'
    BY <2>3, <2>4, <2>5
  <2>7. \A r \in Tasks \ {s} : ImagesOf(plan'[r]) \subseteq ImagesOf(plan[r])
    OBVIOUS
  <2>8. QED BY <2>4, <2>6, <2>7
<1>3. FreshUnknown'
  <2>1. SUFFICES ASSUME NEW i \in Images, origin[i] = "fresh"
                 PROVE  /\ row'[i] = "none" /\ i \notin queued'
                        /\ \A r \in Tasks : i \notin ImagesOf(plan'[r])
    BY DEF FreshUnknown
  <2>2. /\ row[i] = "none" /\ i \notin queued
        /\ \A r \in Tasks : i \notin ImagesOf(plan[r])
    BY <2>1 DEF StorageInv, FreshUnknown
  <2>3. \A r \in Tasks : ImagesOf(plan'[r]) \subseteq ImagesOf(plan[r])
    OBVIOUS
  <2>4. QED BY <2>2, <2>3
<1>4. QED BY <1>2, <1>3

(* A task starts within a gallery, with keys of that gallery.              *)
LEMMA StartScope ==
  ASSUME StorageInv, NEW t \in Tasks, NEW k, NEW g \in Galleries, NEW keys \in SUBSET KeysIn(g),
         NEW td \in SUBSET KeysIn(g), Start(t, k, g, keys),
         UNCHANGED <<attempted, writing, added>>,
         \A s \in Tasks \ {t} : pc'[s] = pc[s] /\ todo'[s] = todo[s],
         todo'[t] = td,
         k \in {"worker", "image"} => /\ ImagesOf(td) \subseteq ImagesOf(keys)
                                      /\ \A i, j \in ImagesOf(keys) : i = j
  PROVE  TaskScope'
<1>1. pc[t] = "idle"
  BY DEF Start
<1>2. attempted[t] = {} /\ writing[t] = {} /\ added[t] = {} /\ todo[t] = {}
  BY <1>1, IdleTask
<1>3. gal'[t] = g /\ plan'[t] = keys /\ kind'[t] = k
  BY DEF Start, StorageInv, TypeOK
<1>4. /\ plan'[t] \cup writing'[t] \cup todo'[t] \subseteq KeysIn(gal'[t])
      /\ attempted'[t] \cup writing'[t] \subseteq plan'[t]
      /\ added'[t] = {}
      /\ kind'[t] \in {"worker", "image"} =>
           /\ ImagesOf(todo'[t]) \subseteq ImagesOf(plan'[t])
           /\ \A i, j \in ImagesOf(plan'[t]) : i = j
  BY <1>2, <1>3
<1>5. \A s \in Tasks \ {t} :
        gal'[s] = gal[s] /\ plan'[s] = plan[s] /\ kind'[s] = kind[s]
  BY DEF Start, StorageInv, TypeOK
<1>6. QED BY <1>4, <1>5 DEF TaskScope, StorageInv

(* A batch starts with images nobody has heard of.                         *)
LEMMA StartFresh ==
  ASSUME StorageInv, NEW t \in Tasks, NEW k, NEW g \in Galleries, NEW keys \in SUBSET Keys,
         Start(t, k, g, keys), UNCHANGED <<row, queued>>,
         \A s \in Tasks \ {t} : pc'[s] = pc[s],
         \A i \in ImagesOf(keys) : origin[i] = "fresh" /\ origin'[i] # "fresh",
         \A i \in Images : origin'[i] = "fresh" => origin[i] = "fresh"
  PROVE  BatchPrivate' /\ FreshUnknown'
<1>1. plan'[t] = keys /\ pc[t] = "idle"
  BY DEF Start, StorageInv, TypeOK
<1>2. \A s \in Tasks \ {t} : plan'[s] = plan[s] /\ kind'[s] = kind[s]
  BY DEF Start, StorageInv, TypeOK
<1>3. ImagesOf(keys) \subseteq Images /\ \A s \in Tasks : ImagesOf(plan[s]) \subseteq Images
  BY ImagesOfFacts DEF StorageInv, TypeOK
<1>4. \A i \in ImagesOf(keys) : /\ row[i] = "none" /\ i \notin queued
                                /\ \A s \in Tasks : i \notin ImagesOf(plan[s])
  BY <1>3 DEF StorageInv, FreshUnknown
<1>5. ASSUME NEW s \in Tasks, kind'[s] \in BatchKinds, pc'[s] \in {"gap", "write", "put"},
             NEW i \in ImagesOf(plan'[s])
      PROVE  /\ row'[i] = "none" /\ i \notin queued'
             /\ \A r \in Tasks \ {s} : i \notin ImagesOf(plan'[r])
  <2>1. CASE s = t
    BY <1>1, <1>2, <1>4, <1>5, <2>1
  <2>2. CASE s # t
    BY <1>1, <1>2, <1>4, <1>5, <2>2 DEF StorageInv, BatchPrivate
  <2>3. QED BY <2>1, <2>2
<1>6. ASSUME NEW i \in Images, origin'[i] = "fresh"
      PROVE  /\ row'[i] = "none" /\ i \notin queued'
             /\ \A s \in Tasks : i \notin ImagesOf(plan'[s])
  BY <1>1, <1>2, <1>6 DEF StorageInv, FreshUnknown
<1>7. QED BY <1>5, <1>6 DEF BatchPrivate, FreshUnknown

(* A worker or a deletion starts with images that are known already.       *)
LEMMA StartKnown ==
  ASSUME StorageInv, NEW t \in Tasks, NEW k, NEW g \in Galleries, NEW keys \in SUBSET Keys,
         Start(t, k, g, keys), k \notin BatchKinds,
         UNCHANGED <<row, origin>>, queued' \subseteq queued,
         \A s \in Tasks \ {t} : pc'[s] = pc[s],
         \A i \in ImagesOf(keys) : row[i] # "none" \/ i \in queued
  PROVE  BatchPrivate' /\ FreshUnknown'
<1>1. plan'[t] = keys /\ kind'[t] = k
  BY DEF Start, StorageInv, TypeOK
<1>2. \A s \in Tasks \ {t} : plan'[s] = plan[s] /\ kind'[s] = kind[s]
  BY DEF Start, StorageInv, TypeOK
<1>3. ASSUME NEW s \in Tasks, kind'[s] \in BatchKinds, pc'[s] \in {"gap", "write", "put"},
             NEW i \in ImagesOf(plan'[s])
      PROVE  /\ row'[i] = "none" /\ i \notin queued'
             /\ \A r \in Tasks \ {s} : i \notin ImagesOf(plan'[r])
  <2>1. s # t
    BY <1>1, <1>3
  <2>2. /\ row[i] = "none" /\ i \notin queued
        /\ \A r \in Tasks \ {s} : i \notin ImagesOf(plan[r])
    BY <1>2, <1>3, <2>1 DEF StorageInv, BatchPrivate
  <2>3. QED BY <1>1, <1>2, <2>2
<1>4. ASSUME NEW i \in Images, origin'[i] = "fresh"
      PROVE  /\ row'[i] = "none" /\ i \notin queued'
             /\ \A s \in Tasks : i \notin ImagesOf(plan'[s])
  <2>1. /\ row[i] = "none" /\ i \notin queued
        /\ \A s \in Tasks : i \notin ImagesOf(plan[s])
    BY <1>4 DEF StorageInv, FreshUnknown
  <2>2. QED BY <1>1, <1>2, <2>1
<1>5. QED BY <1>3, <1>4 DEF BatchPrivate, FreshUnknown
(* A waiting or writing task gives up its fences for the compensation.     *)
LEMMA ReleaseHeld ==
  ASSUME StorageInv, NEW t \in Tasks, pc[t] \in {"gap", "write", "put"},
         ReleaseFences(t), pc' = [pc EXCEPT ![t] = "abort"], UNCHANGED <<kind, gal, plan>>
  PROVE  FencesHeld'
<1>1. ASSUME NEW s \in Tasks, NEW i \in Images, s # t, s \in imageLock[i]
      PROVE  s \in imageLock'[i]
  BY <1>1 DEF ReleaseFences
<1>2. ASSUME NEW s \in Tasks, s # t, gal[s] \in Galleries
      PROVE  /\ s \in shared[gal[s]] => s \in shared'[gal[s]]
             /\ s \in exclusive[gal[s]] => s \in exclusive'[gal[s]]
  BY <1>2 DEF ReleaseFences
<1>3. pc'[t] = "abort" /\ kind'[t] = kind[t]
  BY DEF StorageInv, TypeOK
<1>4. \A s \in Tasks : s # t => pc'[s] = pc[s]
  BY DEF StorageInv, TypeOK
<1>5. \A s \in Tasks : pc[s] # "idle" => gal[s] \in Galleries
  BY DEF StorageInv, TypeOK
<1>6. \A s \in Tasks : ImagesOf(plan[s]) \subseteq Images
  BY ImagesOfFacts DEF StorageInv, TypeOK
<1>7. kind[t] \in BatchKinds \cup {"worker"}
  BY DEF StorageInv, FencesHeld
<1>8. QED
  BY <1>1, <1>2, <1>3, <1>4, <1>5, <1>6, <1>7 DEF StorageInv, FencesHeld, BatchKinds

(* A worker or a single deletion that just took both of its fences.        *)
LEMMA HeldStart ==
  ASSUME StorageInv, NEW t \in Tasks, NEW i \in Images,
         kind'[t] \in {"worker", "image"}, pc'[t] \in {"write", "erase"},
         kind'[t] = "image" => pc'[t] = "erase",
         \A j \in ImagesOf(plan'[t]) : j = i,
         t \in shared'[gal'[t]], t \in imageLock'[i],
         \A g \in Galleries : shared[g] \subseteq shared'[g] /\ exclusive'[g] = exclusive[g],
         \A j \in Images : imageLock[j] \subseteq imageLock'[j],
         \A s \in Tasks \ {t} : /\ pc'[s] = pc[s] /\ kind'[s] = kind[s]
                                /\ gal'[s] = gal[s] /\ plan'[s] = plan[s]
  PROVE  FencesHeld'
<1>1. \A s \in Tasks : pc[s] # "idle" => gal[s] \in Galleries
  BY DEF StorageInv, TypeOK
<1>2. \A s \in Tasks : ImagesOf(plan[s]) \subseteq Images
  BY ImagesOfFacts DEF StorageInv, TypeOK
<1>3. ASSUME NEW s \in Tasks \ {t}
      PROVE  /\ pc[s] # "idle" /\ s \in shared[gal[s]] => s \in shared'[gal'[s]]
             /\ pc[s] # "idle" /\ s \in exclusive[gal[s]] => s \in exclusive'[gal'[s]]
             /\ \A j \in ImagesOf(plan[s]) : s \in imageLock[j] => s \in imageLock'[j]
  BY <1>1, <1>2
<1>4. QED BY <1>3 DEF StorageInv, FencesHeld, BatchKinds

(* A task ends without having changed a row.                               *)
LEMMA EndPrivate ==
  ASSUME StorageInv, NEW t \in Tasks, End(t), UNCHANGED <<database, queued>>
  PROVE  BatchPrivate' /\ FreshUnknown'
<1>1. ImagesOf(plan'[t]) \subseteq ImagesOf(plan[t]) /\ kind'[t] = "none"
  BY ImagesOfFacts DEF End, StorageInv, TypeOK
<1>2. \A s \in Tasks \ {t} : pc'[s] = pc[s] /\ kind'[s] = kind[s] /\ plan'[s] = plan[s]
  BY DEF End, StorageInv, TypeOK
<1>3. UNCHANGED <<row, origin, queued>>
  BY DEF database
<1>4. QED BY <1>1, <1>2, <1>3, Settle DEF BatchKinds

LEMMA EndInv ==
  ASSUME StorageInv, TypeOK', NEW t \in Tasks, End(t),
         UNCHANGED <<database, allocated, queued>>, objects' \subseteq objects
  PROVE  StorageInv'
<1>1. FencesExclude' /\ TaskScope' /\ FencesHeld'
  BY EndKeeps
<1>2. BatchPrivate' /\ FreshUnknown'
  BY EndPrivate
<1>3. WritesReserved' /\ RefundsErased' /\ ObjectsAccounted'
  BY DEF End, StorageInv, TypeOK, WritesReserved, RefundsErased, ObjectsAccounted
<1>4. QED BY <1>1, <1>2, <1>3 DEF StorageInv

LEMMA RollBackInv ==
  ASSUME StorageInv, TypeOK', NEW t \in Tasks, pc[t] \in {"gap", "write", "put"}, RollBack(t),
         UNCHANGED <<database, store, queued>>
  PROVE  StorageInv'
<1>1. FencesExclude' /\ TaskScope' /\ FencesHeld'
  BY RollBackKeeps
<1>2. BatchPrivate' /\ FreshUnknown'
  BY DEF RollBack, StorageInv, TypeOK, BatchPrivate, FreshUnknown, database
<1>3. WritesReserved' /\ RefundsErased' /\ ObjectsAccounted'
  BY DEF RollBack, StorageInv, TypeOK, WritesReserved, RefundsErased, ObjectsAccounted, store
<1>4. QED BY <1>1, <1>2, <1>3 DEF StorageInv

(* Bytes that land never lie in a set that is about to be refunded.        *)
LEMMA LandKeepsRefunds ==
  ASSUME StorageInv, NEW t \in Tasks, pc[t] = "put", NEW landed \in SUBSET writing[t],
         objects' = objects \cup landed, UNCHANGED todo,
         NEW next \in {"write", "abort"}, pc' = [pc EXCEPT ![t] = next]
  PROVE  RefundsErased'
<1>1. ASSUME NEW s \in Tasks, pc'[s] = "refund" PROVE todo'[s] \cap objects' = {}
  <2>1. pc[s] = "refund"
    BY <1>1 DEF StorageInv, TypeOK
  <2>2. writing[t] \cap todo[s] = {}
    BY <2>1, NoOverlap
  <2>3. QED BY <2>1, <2>2 DEF StorageInv, RefundsErased
<1>2. QED BY <1>1 DEF RefundsErased

(* A commit makes known only images of its own plan.                       *)
LEMMA CommitKnows ==
  ASSUME StorageInv, NEW t \in Tasks, pc[t] = "write", CommitRows(t),
         queued' \subseteq queued \cup StoredImages(t)
  PROVE  \A i \in Images : row'[i] # "none" \/ i \in queued' =>
           row[i] # "none" \/ i \in queued \/ i \in ImagesOf(plan[t])
<1>1. kind[t] \in BatchKinds \cup {"worker"}
  BY DEF StorageInv, FencesHeld
<1>2. added[t] \subseteq plan[t] /\ plan[t] \in SUBSET Keys
  BY <1>1 DEF StorageInv, TypeOK, TaskScope
<1>3. \A i \in StoredImages(t) : i \in ImagesOf(plan[t])
  BY <1>2, PartsFacts, ImagesOfFacts DEF StoredImages
<1>4. QED BY <1>3 DEF CommitRows

LEMMA WorkerStarts ==
  ASSUME StorageInv, NEW t \in Tasks, NEW i \in Images, i \in queued, queued' \subseteq queued,
         Start(t, "worker", GalleryOf[i], CanonicalPreviewKeys(i)),
         UNCHANGED <<row, origin, attempted, writing, added, todo>>,
         NEW next \in {"write", "abort"}, pc' = [pc EXCEPT ![t] = next]
  PROVE  TaskScope' /\ BatchPrivate' /\ FreshUnknown'
<1> DEFINE keys == CanonicalPreviewKeys(i)
<1>1. keys \subseteq Keys /\ ImagesOf(keys) = {i} /\ GalleryOf[i] \in Galleries
  BY PartsFacts, ConstantsAssumption
<1> HIDE DEF keys
<1>2. keys \subseteq KeysIn(GalleryOf[i])
  BY <1>1, ImagesOfFacts DEF KeysIn
<1>3. pc[t] = "idle" /\ Start(t, "worker", GalleryOf[i], keys)
  BY DEF Start, keys
<1>4. \A s \in Tasks \ {t} : pc'[s] = pc[s] /\ todo'[s] = todo[s]
  BY DEF StorageInv, TypeOK
<1>5. todo'[t] = {}
  BY <1>3, IdleTask
<1>6. TaskScope'
  BY <1>1, <1>2, <1>3, <1>4, <1>5, ImagesOfFacts, StartScope
<1>7. BatchPrivate' /\ FreshUnknown'
  BY <1>1, <1>3, <1>4, StartKnown DEF BatchKinds
<1>8. QED BY <1>6, <1>7

LEMMA WorkerFailsEarly ==
  ASSUME StorageInv, TypeOK', NEW t \in Tasks, NEW i \in Images, i \in queued, queued' \subseteq queued,
         Start(t, "worker", GalleryOf[i], CanonicalPreviewKeys(i)),
         UNCHANGED <<database, store, fences, attempted, writing, added, todo>>,
         pc' = [pc EXCEPT ![t] = "abort"]
  PROVE  StorageInv'
<1>1. UNCHANGED <<row, origin, attempted, writing, added, todo>>
  BY DEF database
<1>2. TaskScope' /\ BatchPrivate' /\ FreshUnknown'
  BY <1>1, WorkerStarts
<1>3. FencesExclude'
  BY DEF StorageInv, FencesExclude, fences
<1>4. FencesHeld'
  BY DEF Start, StorageInv, TypeOK, FencesHeld, fences
<1>5. pc[t] = "idle"
  BY DEF Start
<1>6. WritesReserved' /\ RefundsErased' /\ ObjectsAccounted'
  BY <1>5, IdleTask DEF StorageInv, TypeOK, WritesReserved, RefundsErased, ObjectsAccounted, store
<1>7. QED BY <1>2, <1>3, <1>4, <1>6 DEF StorageInv

(* A bulk deletion or a purge starts under the exclusive fence.            *)
LEMMA ExcluderStarts ==
  ASSUME StorageInv, TypeOK', NEW t \in Tasks, NEW k \in {"bulk", "purge"}, NEW g \in Galleries,
         NEW keys, Start(t, k, g, keys), CanExclude(g), ExcludeGallery(t, g),
         pc' = [pc EXCEPT ![t] = "erase"],
         UNCHANGED <<store, shared, imageLock, attempted, writing, added>>,
         \A s \in Tasks \ {t} : pc'[s] = pc[s] /\ todo'[s] = todo[s],
         TaskScope', BatchPrivate', FreshUnknown'
  PROVE  StorageInv'
<1>1. FencesExclude'
  BY DEF StorageInv, TypeOK, FencesExclude, ExcludeGallery, CanExclude
<1>2. FencesHeld'
  BY DEF Start, ExcludeGallery, StorageInv, TypeOK, FencesHeld
<1>3. pc[t] = "idle"
  BY DEF Start
<1>4. WritesReserved' /\ RefundsErased' /\ ObjectsAccounted'
  BY <1>3, IdleTask DEF StorageInv, TypeOK, WritesReserved, RefundsErased, ObjectsAccounted, store
<1>5. QED BY <1>1, <1>2, <1>4 DEF StorageInv

(* Every step preserves the invariant.                                     *)
LEMMA InvStep == StorageInv /\ [Next]_vars => StorageInv'
<1>a. SUFFICES ASSUME StorageInv, [Next]_vars PROVE StorageInv'
  OBVIOUS
<1>b. StorageInv
  BY <1>a
<1>c. TypeOK'
  BY <1>a, TypeStep DEF StorageInv
<1> USE <1>b, <1>c DEF database, store, fences, local
<1>1. ASSUME NEW g \in Galleries, CreateGallery(g) PROVE StorageInv'
  BY <1>1 DEF CreateGallery, StorageInv, FencesExclude, TaskScope, FencesHeld, BatchPrivate,
              FreshUnknown, WritesReserved, RefundsErased, ObjectsAccounted
<1>2. ASSUME NEW t \in Tasks, NEW k \in {"api", "web"}, NEW g \in Galleries, NEW imgs \in SUBSET Images, BeginUpload(t, k, g, imgs) PROVE StorageInv'
  <2> DEFINE keys == PlannedKeys(k, imgs)
  <2>1. /\ Start(t, k, g, keys) /\ pc' = [pc EXCEPT ![t] = "gap"]
        /\ UNCHANGED <<row, queued, fences, store, attempted, writing, added, todo>>
    BY <1>2 DEF BeginUpload
  <2>2. pc[t] = "idle"
    BY <2>1 DEF Start
  <2>3. keys \subseteq Keys /\ ImagesOf(keys) = imgs
    BY PlannedKeysFacts
  <2>4. \A i \in imgs : GalleryOf[i] = g /\ origin[i] = "fresh" /\ origin'[i] # "fresh"
    BY <1>2 DEF BeginUpload, Fresh, Generate
  <2>5. keys \subseteq KeysIn(g)
    BY <2>3, <2>4, ImagesOfFacts DEF KeysIn
  <2>6. \A s \in Tasks \ {t} : pc'[s] = pc[s] /\ todo'[s] = todo[s]
    BY <2>1 DEF StorageInv, TypeOK
  <2>7. TaskScope'
    BY <2>1, <2>2, <2>5, <2>6, IdleTask, StartScope
  <2>8. \A i \in Images : origin'[i] = "fresh" => origin[i] = "fresh"
    BY <1>2 DEF BeginUpload, Generate
  <2>9. BatchPrivate' /\ FreshUnknown'
    BY <2>1, <2>3, <2>4, <2>6, <2>8, StartFresh
  <2>10. FencesExclude'
    BY <2>1 DEF StorageInv, FencesExclude
  <2>11. FencesHeld'
    BY <2>1, <2>2 DEF Start, StorageInv, TypeOK, FencesHeld, BatchKinds
  <2>12. WritesReserved' /\ RefundsErased' /\ ObjectsAccounted'
    BY <2>1, <2>2, IdleTask DEF StorageInv, TypeOK, WritesReserved, RefundsErased, ObjectsAccounted
  <2>13. QED BY <2>7, <2>9, <2>10, <2>11, <2>12 DEF StorageInv
<1>3. ASSUME NEW t \in Tasks, ReenterBatch(t) PROVE StorageInv'
  <2>1. pc[t] = "gap" /\ CanShare(gal[t]) /\ UNCHANGED <<database, store, queued>>
    BY <1>3 DEF ReenterBatch
  <2>2. CASE RollBack(t)
    BY <2>1, <2>2, RollBackInv
  <2>3. CASE ShareGallery(t, {gal[t]}) /\ pc' = [pc EXCEPT ![t] = "write"]
               /\ UNCHANGED <<exclusive, imageLock, local>>
    <3>1. gal[t] \in Galleries /\ kind[t] \in BatchKinds
      BY <2>1 DEF StorageInv, TypeOK, FencesHeld
    <3>2. FencesExclude'
      BY <2>1, <2>3, <3>1 DEF StorageInv, FencesExclude, ShareGallery, CanShare
    <3>3. TaskScope' /\ BatchPrivate' /\ FreshUnknown'
      BY <2>1, <2>3 DEF StorageInv, TypeOK, TaskScope, BatchPrivate, FreshUnknown
    <3>4. \A s \in Tasks : pc[s] # "idle" => gal[s] \in Galleries
      BY DEF StorageInv, TypeOK
    <3>5. FencesHeld'
      BY <2>1, <2>3, <3>1, <3>4
         DEF StorageInv, TypeOK, FencesHeld, ShareGallery, BatchKinds
    <3>6. WritesReserved' /\ RefundsErased' /\ ObjectsAccounted'
      BY <2>1, <2>3 DEF StorageInv, TypeOK, WritesReserved, RefundsErased, ObjectsAccounted
    <3>7. QED BY <3>2, <3>3, <3>5, <3>6 DEF StorageInv
  <2>4. QED BY <1>3, <2>2, <2>3 DEF ReenterBatch
<1>4. ASSUME NEW t \in Tasks, NEW src \in Galleries, NEW g \in Galleries, NEW imgs \in SUBSET Images, BeginCopy(t, src, g, imgs) PROVE StorageInv'
  <2>1. PICK from \in [imgs -> Committed(src)] :
          Start(t, "copy", g,
                {Original(i) : i \in imgs} \cup
                {k \in imgs \X Variants : <<from[ImageOf(k)], k[2]>> \in previews})
    BY <1>4 DEF BeginCopy
  <2> DEFINE keys == {Original(i) : i \in imgs} \cup
                     {k \in imgs \X Variants : <<from[ImageOf(k)], k[2]>> \in previews}
  <2>2. /\ Start(t, "copy", g, keys) /\ pc' = [pc EXCEPT ![t] = "write"]
        /\ ShareGallery(t, {src, g}) /\ CanShare(src) /\ CanShare(g)
        /\ UNCHANGED <<row, queued, store, exclusive, imageLock, attempted, writing, added, todo>>
    BY <1>4, <2>1 DEF BeginCopy
  <2>3. pc[t] = "idle"
    BY <2>2 DEF Start
  <2>4. keys \subseteq Keys /\ \A k \in keys : ImageOf(k) \in imgs
    BY PartsFacts DEF Keys, Parts, ImageOf, Original
  <2>5. \A i \in imgs : GalleryOf[i] = g /\ origin[i] = "fresh" /\ origin'[i] # "fresh"
    BY <1>4 DEF BeginCopy, Fresh, Generate
  <2>6. keys \subseteq KeysIn(g) /\ ImagesOf(keys) \subseteq imgs
    BY <2>4, <2>5 DEF KeysIn, ImagesOf
  <2> HIDE DEF keys
  <2>7. \A s \in Tasks \ {t} : pc'[s] = pc[s] /\ todo'[s] = todo[s]
    BY <2>2 DEF StorageInv, TypeOK
  <2>8. TaskScope'
    BY <2>2, <2>3, <2>6, <2>7, IdleTask, StartScope
  <2>9. \A i \in Images : origin'[i] = "fresh" => origin[i] = "fresh"
    BY <1>4 DEF BeginCopy, Generate
  <2>10. BatchPrivate' /\ FreshUnknown'
    BY <2>2, <2>4, <2>5, <2>6, <2>7, <2>9, StartFresh
  <2>11. FencesExclude'
    BY <2>2 DEF StorageInv, FencesExclude, ShareGallery, CanShare
  <2>12. FencesHeld'
    BY <2>2, <2>3 DEF Start, ShareGallery, StorageInv, TypeOK, FencesHeld, BatchKinds
  <2>13. WritesReserved' /\ RefundsErased' /\ ObjectsAccounted'
    BY <2>2, <2>3, IdleTask DEF StorageInv, TypeOK, WritesReserved, RefundsErased, ObjectsAccounted
  <2>14. QED BY <2>8, <2>10, <2>11, <2>12, <2>13 DEF StorageInv
<1>5. ASSUME NEW t \in Tasks, NEW k \in Keys, Reserve(t, k) PROVE StorageInv'
  <2>1. FencesExclude' /\ FencesHeld' /\ BatchPrivate' /\ FreshUnknown'
    BY <1>5 DEF Reserve, StorageInv, TypeOK, FencesExclude, FencesHeld, BatchPrivate, FreshUnknown
  <2>2. k \in plan[t]
    BY <1>5 DEF Reserve, Remaining
  <2>3. TaskScope'
    BY <1>5, <2>2 DEF Reserve, StorageInv, TypeOK, TaskScope
  <2>4. WritesReserved' /\ RefundsErased' /\ ObjectsAccounted'
    BY <1>5 DEF Reserve, StorageInv, TypeOK, WritesReserved, RefundsErased, ObjectsAccounted
  <2>5. QED BY <2>1, <2>3, <2>4 DEF StorageInv
<1>6. ASSUME NEW t \in Tasks, NEW k \in Keys, ReserveFails(t, k) PROVE StorageInv'
  <2>1. /\ pc[t] = "write" /\ k \in plan[t]
        /\ attempted' = [attempted EXCEPT ![t] = @ \cup {k}]
        /\ UNCHANGED <<database, store, queued, kind, gal, plan, writing, todo>>
    BY <1>6 DEF ReserveFails, Remaining
  <2>2. CASE UNCHANGED <<pc, fences, added>>
    <3>1. FencesExclude' /\ FencesHeld' /\ BatchPrivate' /\ FreshUnknown'
      BY <2>1, <2>2 DEF StorageInv, TypeOK, FencesExclude, FencesHeld, BatchPrivate, FreshUnknown
    <3>2. TaskScope'
      BY <2>1, <2>2 DEF StorageInv, TypeOK, TaskScope
    <3>3. WritesReserved' /\ RefundsErased' /\ ObjectsAccounted'
      BY <2>1, <2>2 DEF StorageInv, TypeOK, WritesReserved, RefundsErased, ObjectsAccounted
    <3>4. QED BY <3>1, <3>2, <3>3 DEF StorageInv
  <2>3. CASE ReleaseFences(t) /\ pc' = [pc EXCEPT ![t] = "abort"]
               /\ added' = [added EXCEPT ![t] = {}]
    <3>1. FencesExclude'
      BY <2>3, ReleaseExclusion DEF StorageInv
    <3>2. FencesHeld'
      BY <2>1, <2>3, ReleaseHeld
    <3>3. TaskScope'
      BY <2>1, <2>3 DEF StorageInv, TypeOK, TaskScope
    <3>4. BatchPrivate' /\ FreshUnknown'
      BY <2>1, <2>3 DEF StorageInv, TypeOK, BatchPrivate, FreshUnknown
    <3>5. WritesReserved' /\ RefundsErased' /\ ObjectsAccounted'
      BY <2>1, <2>3 DEF StorageInv, TypeOK, WritesReserved, RefundsErased, ObjectsAccounted
    <3>6. QED BY <3>1, <3>2, <3>3, <3>4, <3>5 DEF StorageInv
  <2>4. QED BY <1>6, <2>2, <2>3 DEF ReserveFails
<1>7. ASSUME NEW t \in Tasks, PutDone(t) PROVE StorageInv'
  <2>1. FencesExclude' /\ FencesHeld' /\ BatchPrivate' /\ FreshUnknown'
    BY <1>7 DEF PutDone, StorageInv, TypeOK, FencesExclude, FencesHeld, BatchPrivate, FreshUnknown
  <2>2. TaskScope'
    BY <1>7 DEF PutDone, StorageInv, TypeOK, TaskScope
  <2>3. WritesReserved' /\ ObjectsAccounted'
    BY <1>7 DEF PutDone, StorageInv, TypeOK, WritesReserved, ObjectsAccounted
  <2>4. objects' = objects \cup writing[t] /\ pc[t] = "put" /\ UNCHANGED todo
        /\ pc' = [pc EXCEPT ![t] = "write"]
    BY <1>7 DEF PutDone
  <2>5. RefundsErased'
    BY <2>4, LandKeepsRefunds DEF StorageInv, TypeOK
  <2>6. QED BY <2>1, <2>2, <2>3, <2>5 DEF StorageInv
<1>8. ASSUME NEW t \in Tasks, PutFails(t) PROVE StorageInv'
  <2>1. pc[t] = "put" /\ UNCHANGED <<database, allocated, queued>>
    BY <1>8 DEF PutFails
  <2>2. PICK landed \in SUBSET writing[t] : objects' = objects \cup landed
    BY <1>8 DEF PutFails
  <2>3. ObjectsAccounted'
    BY <2>1, <2>2 DEF StorageInv, WritesReserved, ObjectsAccounted
  <2>4. CASE RollBack(t)
    <3>1. FencesExclude' /\ TaskScope' /\ FencesHeld'
      BY <2>1, <2>4, RollBackKeeps
    <3>2. BatchPrivate' /\ FreshUnknown'
      BY <2>1, <2>4 DEF RollBack, StorageInv, TypeOK, BatchPrivate, FreshUnknown
    <3>3. WritesReserved'
      BY <2>1, <2>4 DEF RollBack, StorageInv, TypeOK, WritesReserved
    <3>4. RefundsErased'
      BY <2>1, <2>2, <2>4, LandKeepsRefunds DEF RollBack, StorageInv, TypeOK
    <3>5. QED BY <2>3, <3>1, <3>2, <3>3, <3>4 DEF StorageInv
  <2>5. CASE writing' = [writing EXCEPT ![t] = {}] /\ pc' = [pc EXCEPT ![t] = "write"]
               /\ UNCHANGED <<fences, kind, gal, plan, attempted, added, todo>>
    <3>1. FencesExclude' /\ FencesHeld' /\ BatchPrivate' /\ FreshUnknown'
      BY <2>1, <2>5 DEF StorageInv, TypeOK, FencesExclude, FencesHeld, BatchPrivate, FreshUnknown
    <3>2. TaskScope' /\ WritesReserved'
      BY <2>1, <2>5 DEF StorageInv, TypeOK, TaskScope, WritesReserved
    <3>3. RefundsErased'
      BY <2>1, <2>2, <2>5, LandKeepsRefunds DEF StorageInv, TypeOK
    <3>4. QED BY <2>3, <3>1, <3>2, <3>3 DEF StorageInv
  <2>6. QED BY <1>8, <2>4, <2>5 DEF PutFails
<1>9. ASSUME NEW t \in Tasks, Abort(t) PROVE StorageInv'
  BY <1>9, RollBackInv DEF Abort
<1>10. ASSUME NEW t \in Tasks, CommitAcked(t) PROVE StorageInv'
  <2>1. /\ pc[t] = "write" /\ CommitRows(t) /\ End(t) /\ UNCHANGED store
        /\ queued' \subseteq queued \cup StoredImages(t)
    BY <1>10 DEF CommitAcked, CommitRows
  <2>2. FencesExclude' /\ TaskScope' /\ FencesHeld'
    BY <2>1, EndKeeps
  <2>3. BatchPrivate' /\ FreshUnknown'
    <3>1. ImagesOf(plan'[t]) \subseteq ImagesOf(plan[t]) /\ kind'[t] = "none"
      BY <2>1, ImagesOfFacts DEF End, StorageInv, TypeOK
    <3>2. \A s \in Tasks \ {t} : pc'[s] = pc[s] /\ kind'[s] = kind[s] /\ plan'[s] = plan[s]
      BY <2>1 DEF End, StorageInv, TypeOK
    <3>3. origin' = origin
      BY <2>1 DEF CommitRows
    <3>4. \A i \in Images : row'[i] # "none" \/ i \in queued' =>
            row[i] # "none" \/ i \in queued \/ i \in ImagesOf(plan[t])
      BY <2>1, CommitKnows
    <3>5. QED BY <3>1, <3>2, <3>3, <3>4, Settle DEF BatchKinds
  <2>4. WritesReserved' /\ RefundsErased' /\ ObjectsAccounted'
    BY <2>1 DEF End, StorageInv, TypeOK, WritesReserved, RefundsErased, ObjectsAccounted
  <2>5. QED BY <2>2, <2>3, <2>4 DEF StorageInv
<1>11. ASSUME NEW t \in Tasks, CommitAckLost(t) PROVE StorageInv'
  <2>1. pc[t] = "write" /\ CommitRows(t) /\ RollBack(t) /\ UNCHANGED <<store, queued>>
    BY <1>11 DEF CommitAckLost, CommitRows
  <2>2. FencesExclude' /\ TaskScope' /\ FencesHeld'
    BY <2>1, RollBackKeeps
  <2>3. BatchPrivate' /\ FreshUnknown'
    <3>1. ImagesOf(plan'[t]) \subseteq ImagesOf(plan[t]) /\ pc'[t] = "abort"
      BY <2>1 DEF RollBack, StorageInv, TypeOK
    <3>2. \A s \in Tasks \ {t} : pc'[s] = pc[s] /\ kind'[s] = kind[s] /\ plan'[s] = plan[s]
      BY <2>1 DEF RollBack, StorageInv, TypeOK
    <3>3. origin' = origin
      BY <2>1 DEF CommitRows
    <3>4. \A i \in Images : row'[i] # "none" \/ i \in queued' =>
            row[i] # "none" \/ i \in queued \/ i \in ImagesOf(plan[t])
      BY <2>1, CommitKnows
    <3>5. QED BY <3>1, <3>2, <3>3, <3>4, Settle
  <2>4. WritesReserved' /\ RefundsErased' /\ ObjectsAccounted'
    BY <2>1 DEF RollBack, StorageInv, TypeOK, WritesReserved, RefundsErased, ObjectsAccounted
  <2>5. QED BY <2>2, <2>3, <2>4 DEF StorageInv
<1>12. ASSUME NEW t \in Tasks, NEW i \in Images, WorkerEnter(t, i) PROVE StorageInv'
  <2>1. /\ i \in queued /\ queued' = queued \ {i} /\ pc[t] = "idle"
        /\ CanShare(GalleryOf[i]) /\ CanLockImage(i)
        /\ UNCHANGED <<database, store>>
    BY <1>12 DEF WorkerEnter
  <2>2. CASE UNCHANGED <<fences, pc, local>>
    <3>1. FencesExclude' /\ TaskScope' /\ FencesHeld'
      BY <2>1, <2>2 DEF StorageInv, FencesExclude, TaskScope, FencesHeld
    <3>2. BatchPrivate' /\ FreshUnknown'
      BY <2>1, <2>2 DEF StorageInv, BatchPrivate, FreshUnknown
    <3>3. WritesReserved' /\ RefundsErased' /\ ObjectsAccounted'
      BY <2>1, <2>2 DEF StorageInv, WritesReserved, RefundsErased, ObjectsAccounted
    <3>4. QED BY <3>1, <3>2, <3>3 DEF StorageInv
  <2>3. CASE /\ Start(t, "worker", GalleryOf[i], CanonicalPreviewKeys(i))
             /\ UNCHANGED <<attempted, writing, added, todo, exclusive>>
             /\ ShareGallery(t, {GalleryOf[i]}) /\ LockImage(t, i)
             /\ pc' = [pc EXCEPT ![t] = "write"]
    <3>1. TaskScope' /\ BatchPrivate' /\ FreshUnknown'
      BY <2>1, <2>3, WorkerStarts
    <3>2. FencesExclude'
      BY <2>1, <2>3 DEF StorageInv, FencesExclude, ShareGallery, LockImage, CanShare, CanLockImage
    <3>3. /\ GalleryOf[i] \in Galleries /\ kind'[t] = "worker" /\ gal'[t] = GalleryOf[i]
          /\ plan'[t] = CanonicalPreviewKeys(i) /\ pc'[t] = "write"
          /\ \A s \in Tasks \ {t} : pc'[s] = pc[s] /\ kind'[s] = kind[s] /\ gal'[s] = gal[s]
                                    /\ plan'[s] = plan[s]
      BY <2>3, ConstantsAssumption DEF Start, StorageInv, TypeOK
    <3>4. t \in shared'[GalleryOf[i]] /\ t \in imageLock'[i]
      BY <2>3, <3>3 DEF ShareGallery, LockImage, StorageInv, TypeOK
    <3>5. /\ \A g \in Galleries : shared[g] \subseteq shared'[g] /\ exclusive'[g] = exclusive[g]
          /\ \A j \in Images : imageLock[j] \subseteq imageLock'[j]
      BY <2>3 DEF ShareGallery, LockImage, StorageInv, TypeOK
    <3>6. FencesHeld'
      BY <3>3, <3>4, <3>5, PartsFacts, HeldStart DEF BatchKinds
    <3>7. WritesReserved' /\ RefundsErased' /\ ObjectsAccounted'
      BY <2>1, <2>3, IdleTask DEF StorageInv, TypeOK, WritesReserved, RefundsErased, ObjectsAccounted
    <3>8. QED BY <3>1, <3>2, <3>6, <3>7 DEF StorageInv
  <2>4. CASE /\ Start(t, "worker", GalleryOf[i], CanonicalPreviewKeys(i))
             /\ UNCHANGED <<attempted, writing, added, todo, exclusive>>
             /\ UNCHANGED <<shared, imageLock>>
             /\ pc' = [pc EXCEPT ![t] = "abort"]
    BY <2>1, <2>4, WorkerFailsEarly
  <2>5. QED BY <1>12, <2>2, <2>3, <2>4 DEF WorkerEnter
<1>13. ASSUME NEW t \in Tasks, NEW i \in Images, WorkerNotAdmitted(t, i) PROVE StorageInv'
  BY <1>13, WorkerFailsEarly DEF WorkerNotAdmitted
<1>14. ASSUME NEW i \in Images, QueueLost(i) PROVE StorageInv'
  <2>1. FencesExclude' /\ TaskScope' /\ FencesHeld'
    BY <1>14 DEF QueueLost, StorageInv, FencesExclude, TaskScope, FencesHeld
  <2>2. BatchPrivate' /\ FreshUnknown'
    BY <1>14 DEF QueueLost, StorageInv, BatchPrivate, FreshUnknown
  <2>3. WritesReserved' /\ RefundsErased' /\ ObjectsAccounted'
    BY <1>14 DEF QueueLost, StorageInv, WritesReserved, RefundsErased, ObjectsAccounted
  <2>4. QED BY <2>1, <2>2, <2>3 DEF StorageInv
<1>15. ASSUME NEW t \in Tasks, EnterRecovery(t) PROVE StorageInv'
  <2>1. /\ pc[t] = "abort" /\ kind[t] \in BatchKinds /\ CanExclude(gal[t])
        /\ ExcludeGallery(t, gal[t])
        /\ todo' = [todo EXCEPT ![t] = {k \in attempted[t] : row[ImageOf(k)] = "none"}]
        /\ pc' = [pc EXCEPT ![t] = "erase"]
        /\ UNCHANGED <<database, store, queued, shared, imageLock,
                       kind, gal, plan, attempted, writing, added>>
    BY <1>15 DEF EnterRecovery
  <2>2. gal[t] \in Galleries
    BY <2>1 DEF StorageInv, TypeOK
  <2>3. FencesExclude'
    BY <2>1, <2>2 DEF StorageInv, TypeOK, FencesExclude, ExcludeGallery, CanExclude
  <2>4. TaskScope'
    BY <2>1 DEF StorageInv, TypeOK, TaskScope, BatchKinds
  <2>5. FencesHeld'
    BY <2>1, <2>2 DEF StorageInv, TypeOK, FencesHeld, ExcludeGallery, BatchKinds
  <2>6. BatchPrivate' /\ FreshUnknown'
    BY <2>1 DEF StorageInv, TypeOK, BatchPrivate, FreshUnknown
  <2>7. WritesReserved' /\ RefundsErased' /\ ObjectsAccounted'
    BY <2>1 DEF StorageInv, TypeOK, WritesReserved, RefundsErased, ObjectsAccounted
  <2>8. QED BY <2>3, <2>4, <2>5, <2>6, <2>7 DEF StorageInv
<1>16. ASSUME NEW t \in Tasks, EnterMarkFailed(t) PROVE StorageInv'
  <2>1. /\ pc[t] = "abort" /\ kind[t] = "worker" /\ CanShare(gal[t])
        /\ UNCHANGED <<database, store, queued>>
    BY <1>16 DEF EnterMarkFailed
  <2>2. CASE End(t)
    BY <2>1, <2>2, EndInv
  <2>3. ASSUME NEW i \in ImagesOf(plan[t]), CanLockImage(i),
               ShareGallery(t, {gal[t]}), LockImage(t, i),
               todo' = [todo EXCEPT ![t] = attempted[t]],
               pc' = [pc EXCEPT ![t] = "erase"],
               UNCHANGED <<exclusive, kind, gal, plan, attempted, writing, added>>
        PROVE  StorageInv'
    <3>1. gal[t] \in Galleries /\ i \in Images
      BY <2>1, ImagesOfFacts DEF StorageInv, TypeOK
    <3>2. FencesExclude'
      BY <2>1, <2>3, <3>1 DEF StorageInv, FencesExclude, ShareGallery, LockImage,
                              CanShare, CanLockImage
    <3>3. attempted[t] \subseteq plan[t] /\ ImagesOf(attempted[t]) \subseteq ImagesOf(plan[t])
      BY ImagesOfFacts DEF StorageInv, TypeOK, TaskScope
    <3>4. TaskScope'
      BY <2>1, <2>3, <3>3 DEF StorageInv, TypeOK, TaskScope
    <3>5. \A j \in ImagesOf(plan[t]) : j = i
      BY <2>1 DEF StorageInv, TaskScope
    <3>6. t \in shared'[gal[t]] /\ t \in imageLock'[i]
      BY <2>3, <3>1 DEF ShareGallery, LockImage, StorageInv, TypeOK
    <3>7. /\ \A g \in Galleries : shared[g] \subseteq shared'[g] /\ exclusive'[g] = exclusive[g]
          /\ \A j \in Images : imageLock[j] \subseteq imageLock'[j]
      BY <2>3 DEF ShareGallery, LockImage, StorageInv, TypeOK
    <3>8. /\ pc'[t] = "erase" /\ kind'[t] = "worker" /\ gal'[t] = gal[t] /\ plan'[t] = plan[t]
          /\ \A s \in Tasks \ {t} : pc'[s] = pc[s] /\ kind'[s] = kind[s] /\ gal'[s] = gal[s]
                                    /\ plan'[s] = plan[s]
      BY <2>1, <2>3 DEF StorageInv, TypeOK
    <3>9. FencesHeld'
      BY <3>1, <3>5, <3>6, <3>7, <3>8, HeldStart
    <3>10. BatchPrivate' /\ FreshUnknown'
      BY <2>1, <2>3 DEF StorageInv, TypeOK, BatchPrivate, FreshUnknown, BatchKinds
    <3>11. WritesReserved' /\ RefundsErased' /\ ObjectsAccounted'
      BY <2>1, <2>3 DEF StorageInv, TypeOK, WritesReserved, RefundsErased, ObjectsAccounted
    <3>12. QED BY <3>2, <3>4, <3>9, <3>10, <3>11 DEF StorageInv
  <2>4. QED BY <1>16, <2>2, <2>3 DEF EnterMarkFailed
<1>17. ASSUME NEW t \in Tasks, NEW i \in Images, DeleteImage(t, i) PROVE StorageInv'
  <2> DEFINE keys == TrackedKeys(i)
  <2>1. /\ Start(t, "image", GalleryOf[i], keys) /\ pc' = [pc EXCEPT ![t] = "erase"]
        /\ CanShare(GalleryOf[i]) /\ CanLockImage(i) /\ row[i] # "none"
        /\ ShareGallery(t, {GalleryOf[i]}) /\ LockImage(t, i)
        /\ todo' = [todo EXCEPT ![t] = keys]
        /\ UNCHANGED <<database, store, queued, exclusive, attempted, writing, added>>
    BY <1>17 DEF DeleteImage
  <2>2. pc[t] = "idle"
    BY <2>1 DEF Start
  <2>3. keys \subseteq Keys /\ ImagesOf(keys) = {i} /\ GalleryOf[i] \in Galleries
    BY TrackedKeysFacts, ConstantsAssumption DEF StorageInv
  <2> HIDE DEF keys
  <2>4. keys \subseteq KeysIn(GalleryOf[i])
    BY <2>3, ImagesOfFacts DEF KeysIn
  <2>5. \A s \in Tasks \ {t} : pc'[s] = pc[s] /\ todo'[s] = todo[s]
    BY <2>1 DEF StorageInv, TypeOK
  <2>6. todo'[t] = keys
    BY <2>1 DEF StorageInv, TypeOK
  <2>7. TaskScope'
    BY <2>1, <2>3, <2>4, <2>5, <2>6, StartScope
  <2>8. BatchPrivate' /\ FreshUnknown'
    BY <2>1, <2>3, <2>5, StartKnown DEF BatchKinds
  <2>9. FencesExclude'
    BY <2>1, <2>3 DEF StorageInv, FencesExclude, ShareGallery, LockImage, CanShare, CanLockImage
  <2>10. t \in shared'[GalleryOf[i]] /\ t \in imageLock'[i]
    BY <2>1, <2>3 DEF ShareGallery, LockImage, StorageInv, TypeOK
  <2>11. /\ \A g \in Galleries : shared[g] \subseteq shared'[g] /\ exclusive'[g] = exclusive[g]
         /\ \A j \in Images : imageLock[j] \subseteq imageLock'[j]
    BY <2>1 DEF ShareGallery, LockImage, StorageInv, TypeOK
  <2>12. /\ pc'[t] = "erase" /\ kind'[t] = "image" /\ gal'[t] = GalleryOf[i] /\ plan'[t] = keys
         /\ \A s \in Tasks \ {t} : pc'[s] = pc[s] /\ kind'[s] = kind[s] /\ gal'[s] = gal[s]
                                   /\ plan'[s] = plan[s]
    BY <2>1 DEF Start, StorageInv, TypeOK
  <2>13. FencesHeld'
    BY <2>3, <2>10, <2>11, <2>12, HeldStart
  <2>14. WritesReserved' /\ RefundsErased' /\ ObjectsAccounted'
    BY <2>1, <2>2 DEF StorageInv, TypeOK, WritesReserved, RefundsErased, ObjectsAccounted
  <2>15. QED BY <2>7, <2>8, <2>9, <2>13, <2>14 DEF StorageInv
<1>18. ASSUME NEW t \in Tasks, NEW g \in Galleries, NEW imgs \in SUBSET Images, BulkDelete(t, g, imgs) PROVE StorageInv'
  <2> DEFINE keys == UNION {TrackedKeys(i) : i \in imgs}
  <2>1. PICK i \in imgs : todo' = [todo EXCEPT ![t] = TrackedKeys(i)]
    BY <1>18 DEF BulkDelete
  <2>2. /\ Start(t, "bulk", g, keys) /\ pc' = [pc EXCEPT ![t] = "erase"]
        /\ CanExclude(g) /\ ExcludeGallery(t, g) /\ imgs \subseteq Committed(g)
        /\ UNCHANGED <<database, store, queued, shared, imageLock, attempted, writing, added>>
    BY <1>18 DEF BulkDelete
  <2>3. \A j \in imgs : TrackedKeys(j) \subseteq Keys /\ ImagesOf(TrackedKeys(j)) = {j}
    BY TrackedKeysFacts DEF StorageInv
  <2>4. \A j \in imgs : GalleryOf[j] = g /\ row[j] # "none"
    BY <2>2 DEF Committed
  <2>5. \A j \in imgs : TrackedKeys(j) \subseteq KeysIn(g)
    BY <2>3, <2>4, ImagesOfFacts DEF KeysIn
  <2>6. keys \subseteq KeysIn(g) /\ keys \subseteq Keys
    BY <2>5 DEF KeysIn
  <2>7. ImagesOf(keys) \subseteq imgs
    <3>1. ASSUME NEW k \in keys PROVE ImageOf(k) \in imgs
      <4>1. PICK j \in imgs : k \in TrackedKeys(j)
        OBVIOUS
      <4>2. QED BY <2>3, <4>1, ImagesOfFacts
    <3>2. QED BY <3>1 DEF ImagesOf
  <2> HIDE DEF keys
  <2>8. todo'[t] = TrackedKeys(i) /\ TrackedKeys(i) \subseteq KeysIn(g)
    BY <2>1, <2>5 DEF StorageInv, TypeOK
  <2>9. \A s \in Tasks \ {t} : pc'[s] = pc[s] /\ todo'[s] = todo[s]
    BY <2>1, <2>2 DEF StorageInv, TypeOK
  <2>10. TaskScope'
    BY <2>2, <2>6, <2>8, <2>9, StartScope
  <2>11. BatchPrivate' /\ FreshUnknown'
    BY <2>2, <2>4, <2>6, <2>7, <2>9, StartKnown DEF BatchKinds
  <2>12. QED BY <2>2, <2>9, <2>10, <2>11, ExcluderStarts DEF DeleteKinds
<1>19. ASSUME NEW t \in Tasks, NEW g \in Galleries, PurgeGallery(t, g) PROVE StorageInv'
  <2>1. /\ Start(t, "purge", g, {}) /\ pc' = [pc EXCEPT ![t] = "erase"]
        /\ CanExclude(g) /\ ExcludeGallery(t, g)
        /\ todo' = [todo EXCEPT ![t] = PurgeKeys(g)]
        /\ UNCHANGED <<database, store, queued, shared, imageLock, attempted, writing, added>>
    BY <1>19 DEF PurgeGallery
  <2>2. PurgeKeys(g) \subseteq KeysIn(g)
    BY PurgeKeysFacts DEF StorageInv
  <2>3. todo'[t] = PurgeKeys(g)
    BY <2>1 DEF StorageInv, TypeOK
  <2>4. \A s \in Tasks \ {t} : pc'[s] = pc[s] /\ todo'[s] = todo[s]
    BY <2>1 DEF StorageInv, TypeOK
  <2>5. TaskScope'
    BY <2>1, <2>2, <2>3, <2>4, StartScope
  <2>6. BatchPrivate' /\ FreshUnknown'
    BY <2>1, <2>4, ImagesOfFacts, StartKnown DEF BatchKinds
  <2>7. QED BY <2>1, <2>4, <2>5, <2>6, ExcluderStarts DEF DeleteKinds
<1>20. ASSUME NEW t \in Tasks, Erase(t) PROVE StorageInv'
  <2>1. pc[t] = "erase" /\ UNCHANGED <<database, allocated, queued>>
    BY <1>20 DEF Erase
  <2>2. PICK failed \in SUBSET todo[t] :
          /\ objects' = objects \ (todo[t] \ failed)
          /\ IF failed = {} \/ kind[t] = "worker"
               THEN /\ pc' = [pc EXCEPT ![t] = IF failed = {} THEN "refund" ELSE "finish"]
                    /\ UNCHANGED <<fences, local>>
               ELSE End(t)
    BY <1>20 DEF Erase
  <2>3. objects' \subseteq objects
    BY <2>2
  <2>4. CASE End(t)
    BY <2>1, <2>3, <2>4, EndInv
  <2>5. CASE /\ failed = {} \/ kind[t] = "worker"
             /\ pc' = [pc EXCEPT ![t] = IF failed = {} THEN "refund" ELSE "finish"]
             /\ UNCHANGED <<fences, local>>
    <3>1. /\ pc'[t] \in {"refund", "finish"} /\ pc'[t] = "refund" => failed = {}
          /\ \A s \in Tasks \ {t} : pc'[s] = pc[s]
      BY <2>5 DEF StorageInv, TypeOK
    <3>2. FencesExclude' /\ TaskScope' /\ FencesHeld'
      BY <2>1, <2>5, <3>1 DEF StorageInv, FencesExclude, TaskScope, FencesHeld
    <3>3. BatchPrivate' /\ FreshUnknown'
      BY <2>1, <2>5, <3>1 DEF StorageInv, BatchPrivate, FreshUnknown
    <3>4. WritesReserved' /\ ObjectsAccounted'
      BY <2>1, <2>3, <2>5, <3>1 DEF StorageInv, WritesReserved, ObjectsAccounted
    <3>5. RefundsErased'
      BY <2>2, <2>5, <3>1 DEF StorageInv, RefundsErased
    <3>6. QED BY <3>2, <3>3, <3>4, <3>5 DEF StorageInv
  <2>6. QED BY <2>2, <2>4, <2>5
<1>21. ASSUME NEW t \in Tasks, Refund(t) PROVE StorageInv'
  <2>1. /\ pc[t] = "refund"
        /\ allocated' = allocated \ todo[t]
        /\ added' = IF kind[t] = "bulk" THEN [added EXCEPT ![t] = @ \cup todo[t]] ELSE added
        /\ UNCHANGED <<database, objects, queued, fences, kind, gal, plan, attempted, writing>>
    BY <1>21 DEF Refund
  <2>2. \/ pc' = [pc EXCEPT ![t] = "finish"] /\ UNCHANGED todo
        \/ /\ kind[t] = "bulk" /\ pc' = [pc EXCEPT ![t] = "erase"]
           /\ \E i \in ImagesLeft(t) : todo' = [todo EXCEPT ![t] = TrackedKeys(i)]
    BY <1>21 DEF Refund
  <2>3. /\ pc'[t] \in {"finish", "erase"}
        /\ \A s \in Tasks \ {t} : pc'[s] = pc[s] /\ todo'[s] = todo[s] /\ added'[s] = added[s]
        /\ kind[t] # "bulk" => todo'[t] = todo[t] /\ added' = added
    BY <2>1, <2>2 DEF StorageInv, TypeOK
  <2>4. todo'[t] \subseteq KeysIn(gal[t])
    <3>1. CASE UNCHANGED todo
      BY <3>1 DEF StorageInv, TaskScope
    <3>2. ASSUME NEW i \in ImagesLeft(t), todo' = [todo EXCEPT ![t] = TrackedKeys(i)]
          PROVE  todo'[t] \subseteq KeysIn(gal[t])
      <4>1. PICK k \in plan[t] : ImageOf(k) = i
        BY DEF ImagesLeft, ImagesOf
      <4>2. i \in Images /\ GalleryOf[i] = gal[t]
        BY <4>1, PartsFacts DEF StorageInv, TypeOK, TaskScope, KeysIn
      <4>3. TrackedKeys(i) \subseteq Keys /\ ImagesOf(TrackedKeys(i)) = {i}
        BY <4>2, TrackedKeysFacts DEF StorageInv
      <4>4. TrackedKeys(i) \subseteq KeysIn(gal[t])
        BY <4>2, <4>3, ImagesOfFacts DEF KeysIn
      <4>5. QED BY <3>2, <4>4 DEF StorageInv, TypeOK
    <3>3. QED BY <2>2, <3>1, <3>2
  <2>5. TaskScope'
    BY <2>1, <2>3, <2>4 DEF StorageInv, TaskScope, BatchKinds
  <2>6. FencesExclude' /\ FencesHeld'
    BY <2>1, <2>3 DEF StorageInv, FencesExclude, FencesHeld
  <2>7. BatchPrivate' /\ FreshUnknown'
    BY <2>1, <2>3 DEF StorageInv, BatchPrivate, FreshUnknown
  <2>8. ObjectsAccounted' /\ RefundsErased'
    BY <2>1, <2>3 DEF StorageInv, RefundsErased, ObjectsAccounted
  <2>9. WritesReserved'
    <3>1. ASSUME NEW s \in Tasks PROVE writing[s] \subseteq allocated'
      <4>1. CASE writing[s] = {}
        BY <4>1
      <4>2. CASE writing[s] # {}
        <5>1. pc[s] = "put"
          BY <4>2 DEF StorageInv, WritesReserved
        <5>2. writing[s] \cap todo[t] = {}
          BY <2>1, <5>1, NoOverlap
        <5>3. QED BY <2>1, <5>2 DEF StorageInv, WritesReserved
      <4>3. QED BY <4>1, <4>2
    <3>2. QED BY <2>1, <2>3, <3>1 DEF StorageInv, WritesReserved
  <2>10. QED BY <2>5, <2>6, <2>7, <2>8, <2>9 DEF StorageInv
<1>22. ASSUME NEW t \in Tasks, Finish(t) PROVE StorageInv'
  <2>1. pc[t] = "finish" /\ End(t) /\ UNCHANGED <<origin, store, queued>>
    BY <1>22 DEF Finish
  <2>2. \A i \in Images : row'[i] # "none" => row[i] # "none"
    BY <1>22 DEF Finish
  <2>3. FencesExclude' /\ TaskScope' /\ FencesHeld'
    BY <2>1, EndKeeps
  <2>4. BatchPrivate' /\ FreshUnknown'
    <3>1. ImagesOf(plan'[t]) \subseteq ImagesOf(plan[t]) /\ kind'[t] = "none"
      BY <2>1, ImagesOfFacts DEF End, StorageInv, TypeOK
    <3>2. \A s \in Tasks \ {t} : pc'[s] = pc[s] /\ kind'[s] = kind[s] /\ plan'[s] = plan[s]
      BY <2>1 DEF End, StorageInv, TypeOK
    <3>3. QED BY <2>1, <2>2, <3>1, <3>2, Settle DEF BatchKinds
  <2>5. WritesReserved' /\ RefundsErased' /\ ObjectsAccounted'
    BY <2>1 DEF End, StorageInv, TypeOK, WritesReserved, RefundsErased, ObjectsAccounted
  <2>6. QED BY <2>3, <2>4, <2>5 DEF StorageInv
<1>23. ASSUME NEW t \in Tasks, Vanish(t) PROVE StorageInv'
  <2>1. pc[t] # "idle" /\ End(t) /\ UNCHANGED <<database, allocated, queued>>
    BY <1>23 DEF Vanish
  <2>2. PICK landed \in SUBSET writing[t] : objects' = objects \cup landed
    BY <1>23 DEF Vanish
  <2>3. CASE landed = {}
    BY <2>1, <2>2, <2>3, EndInv
  <2>4. CASE landed # {}
    <3>1. pc[t] = "put"
      BY <2>2, <2>4 DEF StorageInv, WritesReserved
    <3>2. FencesExclude' /\ TaskScope' /\ FencesHeld'
      BY <2>1, EndKeeps
    <3>3. BatchPrivate' /\ FreshUnknown'
      BY <2>1, EndPrivate
    <3>4. RefundsErased'
      <4>1. \A s \in Tasks \ {t} : pc'[s] = pc[s] /\ todo'[s] = todo[s]
        BY <2>1 DEF End, StorageInv, TypeOK
      <4>2. pc'[t] = "idle"
        BY <2>1 DEF End, StorageInv, TypeOK
      <4>3. QED BY <2>2, <3>1, <4>1, <4>2, NoOverlap DEF StorageInv, RefundsErased
    <3>5. WritesReserved' /\ ObjectsAccounted'
      BY <2>1, <2>2 DEF End, StorageInv, TypeOK, WritesReserved, ObjectsAccounted
    <3>6. QED BY <3>2, <3>3, <3>4, <3>5 DEF StorageInv
  <2>5. QED BY <2>3, <2>4
<1>24. CASE UNCHANGED vars
  BY <1>24 DEF vars, StorageInv, FencesExclude, TaskScope, FencesHeld, BatchPrivate,
               FreshUnknown, WritesReserved, RefundsErased, ObjectsAccounted
<1>25. QED
  BY <1>a, <1>1, <1>2, <1>3, <1>4, <1>5, <1>6, <1>7, <1>8, <1>9, <1>10, <1>11, <1>12, <1>13, <1>14, <1>15, <1>16, <1>17, <1>18, <1>19, <1>20, <1>21, <1>22, <1>23, <1>24 DEF Next, TaskStep

LEMMA InvInit == Init => StorageInv
<1>1. SUFFICES ASSUME Init PROVE StorageInv
  OBVIOUS
<1>2. TypeOK
  BY <1>1 DEF Init, TypeOK, PCs, Kinds
<1>3. ImagesOf({}) = {}
  BY ImagesOfFacts
<1>4. QED
  BY <1>1, <1>2, <1>3 DEF Init, StorageInv, FencesExclude, TaskScope, FencesHeld, BatchPrivate,
       FreshUnknown, WritesReserved, RefundsErased, ObjectsAccounted, BatchKinds

-----------------------------------------------------------------------------
(* Every variable keeps its type: every handler leaves the database, the   *)
(* ledger, the fences and its own variables well-formed.                   *)
THEOREM TypeCorrect == Spec => []TypeOK
<1>1. Init => TypeOK
  BY InvInit DEF StorageInv
<1>2. QED BY <1>1, TypeStep, PTL DEF Spec

(* The invariant of the handlers together: who holds which fence, who      *)
(* knows which image, and what is reserved.                                *)
THEOREM StorageInvariant == Spec => []StorageInv
BY InvInit, InvStep, PTL DEF Spec

(* An exclusive fence is exclusive: nobody shares a gallery that a         *)
(* deletion, a bulk deletion or a recovery works in.                       *)
THEOREM FencesAreExclusive == Spec => []FencesExclude
<1>1. StorageInv => FencesExclude
  BY DEF StorageInv
<1>2. QED BY <1>1, StorageInvariant, PTL

(* reserve before write, release after delete, and never under somebody    *)
(* else's write: every stored object has its ledger entry, always.         *)
THEOREM LedgerCoversObjects == Spec => []ObjectsAccounted
<1>1. StorageInv => ObjectsAccounted
  BY DEF StorageInv
<1>2. QED BY <1>1, StorageInvariant, PTL
=============================================================================
