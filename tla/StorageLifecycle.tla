--------------------------- MODULE StorageLifecycle ---------------------------
(***************************************************************************)
(* The storage life of an image: every handler that writes or removes      *)
(* files of a gallery, the PostgreSQL advisory fences that keep them       *)
(* apart, the durable cleanup intents and the storage ledger.              *)
(*                                                                         *)
(* The backend (local directory or S3) and the database fail separately:   *)
(* a write may raise after its bytes landed, a delete may fail for some    *)
(* keys of a set, a COMMIT may be applied although its acknowledgement is  *)
(* lost, and a task may vanish at any await.                               *)
(*                                                                         *)
(* Data abstracted away.  An image is its UUID; a storage key is the image *)
(* it is derived from and the part it stores.  The ledger counts objects,  *)
(* not their bytes.  A task is one request or background task, with the    *)
(* session it works in.                                                    *)
(***************************************************************************)
EXTENDS Integers, FiniteSets

CONSTANTS
  Galleries,   \* gallery UUIDs that may ever be generated
  Images,      \* image UUIDs that may ever be generated
  Variants,    \* preview variants (PREVIEW_SIZES)
  GalleryOf,   \* the gallery an image UUID is planned for
  Tasks,       \* concurrent requests and background tasks
  MaxObjects,  \* settings.max_storage_objects_per_owner, for one owner
  None         \* no gallery

ASSUME ConstantsAssumption ==
  /\ GalleryOf \in [Images -> Galleries]
  /\ "original" \notin Variants /\ Variants # {}
  /\ None \notin Galleries
  /\ MaxObjects \in Nat

VARIABLES
  gallery,    \* committed gallery rows, and UUIDs claimed by an open duplicate
  origin,     \* which handler's UploadPlan generated an image UUID
  row,        \* committed image rows with their processing_status
  previews,   \* keys of the committed preview rows
  intents,    \* committed upload_cleanup_intents, each the set of its keys
  allocated,  \* keys of storage_allocations
  objects,    \* keys for which the backend stores bytes
  queued,     \* images whose preview worker is dispatched and not started
  shared,     \* tasks holding the shared gallery fence
  exclusive,  \* tasks holding the exclusive gallery fence
  imageLock,  \* tasks holding the image fence
  pc,         \* where a task stands
  kind,       \* which handler it runs
  gal,        \* the gallery it works on
  plan,       \* the keys it plans to write, or loaded for deletion
  attempted,  \* keys registered before a write was attempted
  writing,    \* the key whose write is in flight
  added,      \* keys of the image and preview rows of its open transaction
  todo        \* keys it is about to delete, then to refund

database == <<gallery, origin, row, previews, intents>>
store    == <<allocated, objects>>
fences   == <<shared, exclusive, imageLock>>
local    == <<kind, gal, plan, attempted, writing, added, todo>>
vars     == <<database, store, queued, fences, pc, local>>

-----------------------------------------------------------------------------
Parts      == {"original"} \cup Variants
Keys       == Images \X Parts
ImageOf(k) == k[1]
ImagesOf(S)       == {ImageOf(k) : k \in S}
KeysIn(g)         == {k \in Keys : GalleryOf[ImageOf(k)] = g}
Original(i)       == <<i, "original">>
CanonicalPreviewKeys(i) == {i} \X Variants
Committed(g)      == {i \in Images : GalleryOf[i] = g /\ row[i] # "none"}

BatchKinds  == {"api", "web", "copy"}           \* users of UploadBatch
DeleteKinds == {"image", "bulk", "purge"}
Kinds       == BatchKinds \cup DeleteKinds \cup {"worker", "none"}
PCs == {"idle", "gap", "write", "put", "abort", "erase", "refund", "finish"}

TypeOK ==
  /\ gallery \in [Galleries -> {"unused", "claimed", "live", "gone"}]
  /\ origin \in [Images -> {"fresh", "upload", "copy"}]
  /\ row \in [Images -> {"none", "pending", "ready", "failed"}]
  /\ previews \subseteq Keys
  /\ intents \subseteq SUBSET Keys
  /\ allocated \subseteq Keys
  /\ objects \subseteq Keys
  /\ queued \subseteq Images
  /\ shared \in [Galleries -> SUBSET Tasks]
  /\ exclusive \in [Galleries -> SUBSET Tasks]
  /\ imageLock \in [Images -> SUBSET Tasks]
  /\ pc \in [Tasks -> PCs]
  /\ kind \in [Tasks -> Kinds]
  /\ gal \in [Tasks -> Galleries \cup {None}]
  /\ plan \in [Tasks -> SUBSET Keys]
  /\ attempted \in [Tasks -> SUBSET Keys]
  /\ writing \in [Tasks -> SUBSET Keys]
  /\ added \in [Tasks -> SUBSET Keys]
  /\ todo \in [Tasks -> SUBSET Keys]
  /\ \A t \in Tasks : pc[t] = "idle" <=> gal[t] = None

Init ==
  /\ gallery = [g \in Galleries |-> "unused"]
  /\ origin = [i \in Images |-> "fresh"]
  /\ row = [i \in Images |-> "none"]
  /\ previews = {} /\ intents = {} /\ allocated = {} /\ objects = {}
  /\ queued = {}
  /\ shared = [g \in Galleries |-> {}]
  /\ exclusive = [g \in Galleries |-> {}]
  /\ imageLock = [i \in Images |-> {}]
  /\ pc = [t \in Tasks |-> "idle"]
  /\ kind = [t \in Tasks |-> "none"]
  /\ gal = [t \in Tasks |-> None]
  /\ plan = [t \in Tasks |-> {}]
  /\ attempted = [t \in Tasks |-> {}]
  /\ writing = [t \in Tasks |-> {}]
  /\ added = [t \in Tasks |-> {}]
  /\ todo = [t \in Tasks |-> {}]

-----------------------------------------------------------------------------
(* Advisory transaction locks: a lock is granted when no other session     *)
(* holds it in a conflicting mode; COMMIT and ROLLBACK release all.        *)

CanShare(g)   == exclusive[g] = {}
(* Defect: the exclusive fence ignores the sessions that share it. *)
CanExcludeDespiteSharers(g) == exclusive[g] = {}

CanExclude(g) == exclusive[g] = {} /\ shared[g] = {}
(* Defect: the image fence is taken shared. *)
CanShareImage(i) == i \in Images

CanLockImage(i) == imageLock[i] = {}

ShareGallery(t, gs) ==
  shared' = [g \in Galleries |-> IF g \in gs THEN shared[g] \cup {t} ELSE shared[g]]
ExcludeGallery(t, g) == exclusive' = [exclusive EXCEPT ![g] = @ \cup {t}]
LockImage(t, i)      == imageLock' = [imageLock EXCEPT ![i] = @ \cup {t}]

ReleaseFences(t) ==
  /\ shared' = [g \in Galleries |-> shared[g] \ {t}]
  /\ exclusive' = [g \in Galleries |-> exclusive[g] \ {t}]
  /\ imageLock' = [i \in Images |-> imageLock[i] \ {t}]

(* Defect: the ended task keeps its gallery. *)
EndKeepingGallery(t) ==
  /\ ReleaseFences(t)
  /\ pc' = [pc EXCEPT ![t] = "idle"]
  /\ kind' = [kind EXCEPT ![t] = "none"]
  /\ UNCHANGED gal
  /\ plan' = [plan EXCEPT ![t] = {}]
  /\ attempted' = [attempted EXCEPT ![t] = {}]
  /\ writing' = [writing EXCEPT ![t] = {}]
  /\ added' = [added EXCEPT ![t] = {}]
  /\ todo' = [todo EXCEPT ![t] = {}]

(* The task is over: its transaction ended, its memory is gone. *)
End(t) ==
  /\ ReleaseFences(t)
  /\ pc' = [pc EXCEPT ![t] = "idle"]
  /\ kind' = [kind EXCEPT ![t] = "none"]
  /\ gal' = [gal EXCEPT ![t] = None]
  /\ plan' = [plan EXCEPT ![t] = {}]
  /\ attempted' = [attempted EXCEPT ![t] = {}]
  /\ writing' = [writing EXCEPT ![t] = {}]
  /\ added' = [added EXCEPT ![t] = {}]
  /\ todo' = [todo EXCEPT ![t] = {}]

(* Defect: the broken request session keeps its fences. *)
RollBackKeepingFences(t) ==
  /\ pc' = [pc EXCEPT ![t] = "abort"]
  /\ writing' = [writing EXCEPT ![t] = {}]
  /\ added' = [added EXCEPT ![t] = {}]
  /\ UNCHANGED <<fences, kind, gal, plan, attempted, todo>>

(* An exception or cancellation leaves the transaction: it is rolled back, *)
(* its fences go, and only attempted_keys survive for the compensation.    *)
RollBack(t) ==
  /\ ReleaseFences(t)
  /\ pc' = [pc EXCEPT ![t] = "abort"]
  /\ writing' = [writing EXCEPT ![t] = {}]
  /\ added' = [added EXCEPT ![t] = {}]
  /\ UNCHANGED <<kind, gal, plan, attempted, todo>>

Start(t, k, g, keys) ==
  /\ pc[t] = "idle"
  /\ kind' = [kind EXCEPT ![t] = k]
  /\ gal' = [gal EXCEPT ![t] = g]
  /\ plan' = [plan EXCEPT ![t] = keys]

-----------------------------------------------------------------------------
(* Galleries and upload batches.                                           *)

CreateGallery(g) ==
  /\ gallery[g] = "unused"
  /\ gallery' = [gallery EXCEPT ![g] = "live"]
  /\ UNCHANGED <<origin, row, previews, intents, store, queued, fences, pc, local>>

Fresh(g) == {i \in Images : GalleryOf[i] = g /\ origin[i] = "fresh"}
Generate(imgs, by) ==
  origin' = [i \in Images |-> IF i \in imgs THEN by ELSE origin[i]]

PlannedKeys(k, imgs) ==
  {Original(i) : i \in imgs} \cup
    (IF k = "api" THEN imgs \X Variants ELSE {})

(* First transaction of an upload request: shared fence, ownership check,  *)
(* fresh UUIDs, then the intent is committed, which releases the fence.    *)
BeginUpload(t, k, g, imgs) ==
  /\ Start(t, k, g, PlannedKeys(k, imgs))
  /\ CanShare(g) /\ gallery[g] = "live"
  /\ imgs # {} /\ imgs \subseteq Fresh(g)
  /\ Generate(imgs, "upload")
  /\ intents' = intents \cup {PlannedKeys(k, imgs)}
  /\ pc' = [pc EXCEPT ![t] = "gap"]
  /\ UNCHANGED <<gallery, row, previews, store, queued, fences,
                 attempted, writing, added, todo>>

(* Defect: the gallery is not selected again after the intent commit. *)
ReenterWithoutSelect(t) ==
  /\ pc[t] = "gap" /\ CanShare(gal[t])
  /\ ShareGallery(t, {gal[t]})
  /\ pc' = [pc EXCEPT ![t] = "write"]
  /\ UNCHANGED <<exclusive, imageLock, local, database, store, queued>>

(* The fence is taken again and the gallery selected again: a deletion may *)
(* have won the gap.  The 404 leaves the batch through its recovery.       *)
ReenterBatch(t) ==
  /\ pc[t] = "gap" /\ CanShare(gal[t])
  /\ IF gallery[gal[t]] = "live"
       THEN /\ ShareGallery(t, {gal[t]})
            /\ pc' = [pc EXCEPT ![t] = "write"]
            /\ UNCHANGED <<exclusive, imageLock, local>>
       ELSE RollBack(t)
  /\ UNCHANGED <<database, store, queued>>

(* duplicate_gallery: the shared fences of the source and of the new UUID, *)
(* an uncommitted gallery row, and one plan per image of the source.       *)
BeginCopy(t, src, g, imgs) ==
  /\ src # g /\ CanShare(src) /\ gallery[src] = "live"
  /\ gallery[g] = "unused" /\ CanShare(g)
  /\ imgs \subseteq Fresh(g)
  /\ \E from \in [imgs -> Committed(src)] :
       /\ {from[i] : i \in imgs} = Committed(src)
       /\ \A i, j \in imgs : from[i] = from[j] => i = j
       /\ Start(t, "copy", g,
                {Original(i) : i \in imgs} \cup
                {k \in imgs \X Variants : <<from[ImageOf(k)], k[2]>> \in previews})
  /\ gallery' = [gallery EXCEPT ![g] = "claimed"]
  /\ Generate(imgs, "copy")
  /\ ShareGallery(t, {src, g})
  /\ pc' = [pc EXCEPT ![t] = "write"]
  /\ UNCHANGED <<row, previews, intents, store, queued, exclusive, imageLock,
                 attempted, writing, added, todo>>

(* Keys still to be written: previews only of an image whose original was  *)
(* stored (a skipped original skips its previews), or of the worker's one. *)
Remaining(t) ==
  {k \in plan[t] \ attempted[t] :
     \/ k = Original(ImageOf(k))
     \/ Original(ImageOf(k)) \in added[t]
     \/ kind[t] = "worker"}

(* attempted_keys.add, then quota.reserve in its own short transaction.    *)
Reserve(t, k) ==
  /\ pc[t] = "write" /\ k \in Remaining(t)
  /\ attempted' = [attempted EXCEPT ![t] = @ \cup {k}]
  /\ Cardinality(allocated \cup {k}) <= MaxObjects
  /\ allocated' = allocated \cup {k}
  /\ writing' = [writing EXCEPT ![t] = {k}]
  /\ pc' = [pc EXCEPT ![t] = "put"]
  /\ UNCHANGED <<database, objects, queued, fences, kind, gal, plan, added, todo>>

(* The reservation is refused or fails: the batch and the worker give up,  *)
(* a duplicate skips the file unless the quota is exhausted.               *)
ReserveFails(t, k) ==
  /\ pc[t] = "write" /\ k \in Remaining(t)
  /\ attempted' = [attempted EXCEPT ![t] = @ \cup {k}]
  /\ \/ /\ kind[t] = "copy"
        /\ UNCHANGED <<pc, fences, added>>
     \/ /\ ReleaseFences(t)
        /\ pc' = [pc EXCEPT ![t] = "abort"]
        /\ added' = [added EXCEPT ![t] = {}]
  /\ UNCHANGED <<database, store, queued, kind, gal, plan, writing, todo>>

PutDone(t) ==
  /\ pc[t] = "put"
  /\ objects' = objects \cup writing[t]
  /\ added' = [added EXCEPT ![t] = @ \cup writing[t]]
  /\ writing' = [writing EXCEPT ![t] = {}]
  /\ pc' = [pc EXCEPT ![t] = "write"]
  /\ UNCHANGED <<database, allocated, queued, fences, kind, gal, plan, attempted, todo>>

(* Defect: a failed write is taken for a stored file. *)
PutFailureIgnored(t) ==
  /\ pc[t] = "put"
  /\ \E landed \in SUBSET writing[t] : objects' = objects \cup landed
  /\ added' = [added EXCEPT ![t] = @ \cup writing[t]]
  /\ writing' = [writing EXCEPT ![t] = {}]
  /\ pc' = [pc EXCEPT ![t] = "write"]
  /\ UNCHANGED <<database, allocated, queued, fences, kind, gal, plan, attempted, todo>>

(* The write raised, with or without its bytes; or the request was         *)
(* cancelled, and the cancellation waited for the write.                   *)
PutFails(t) ==
  /\ pc[t] = "put"
  /\ \E landed \in SUBSET writing[t] : objects' = objects \cup landed
  /\ \/ /\ kind[t] = "copy"
        /\ writing' = [writing EXCEPT ![t] = {}]
        /\ pc' = [pc EXCEPT ![t] = "write"]
        /\ UNCHANGED <<fences, kind, gal, plan, attempted, added, todo>>
     \/ RollBack(t)
  /\ UNCHANGED <<database, allocated, queued>>

(* Any other error before COMMIT, and a COMMIT that is not applied. *)
Abort(t) ==
  /\ pc[t] = "write"
  /\ RollBack(t)
  /\ UNCHANGED <<database, store, queued>>

-----------------------------------------------------------------------------
(* COMMIT of a batch or of a worker.                                       *)

StoredImages(t) == {i \in Images : Original(i) \in added[t]}

(* Rows, previews and the removal of the intent become durable together.   *)
CommitRows(t) ==
  /\ pc[t] = "write" /\ Remaining(t) = {}
  /\ IF kind[t] = "worker"
       THEN /\ row' = [i \in Images |-> IF i \in ImagesOf(plan[t]) THEN "ready" ELSE row[i]]
            /\ UNCHANGED <<gallery, intents>>
       ELSE /\ row' = [i \in Images |-> IF i \in StoredImages(t) THEN "pending" ELSE row[i]]
            /\ intents' = intents \ {plan[t]}
            /\ gallery' = [gallery EXCEPT ![gal[t]] = "live"]
  /\ previews' = previews \cup (added[t] \ {Original(i) : i \in Images})
  /\ UNCHANGED origin

(* Acknowledged.  The HTML upload then dispatches one worker per image.    *)
CommitAcked(t) ==
  /\ CommitRows(t)
  /\ queued' = IF kind[t] = "web" THEN queued \cup StoredImages(t) ELSE queued
  /\ End(t)
  /\ UNCHANGED store

(* Applied, but the acknowledgement is lost: the task goes on to recovery. *)
CommitAckLost(t) ==
  /\ CommitRows(t)
  /\ RollBack(t)
  /\ UNCHANGED <<store, queued>>

-----------------------------------------------------------------------------
(* The preview worker of an image of the HTML upload.                      *)

WorkerEnter(t, i) ==
  /\ i \in queued /\ queued' = queued \ {i}
  /\ pc[t] = "idle"
  /\ CanShare(GalleryOf[i]) /\ CanLockImage(i)
  /\ IF row[i] \in {"none", "ready"}
       THEN UNCHANGED <<fences, pc, local>>
       ELSE /\ Start(t, "worker", GalleryOf[i], CanonicalPreviewKeys(i))
            /\ UNCHANGED <<attempted, writing, added, todo, exclusive>>
            /\ IF Original(i) \in objects
                 THEN /\ ShareGallery(t, {GalleryOf[i]}) /\ LockImage(t, i)
                      /\ pc' = [pc EXCEPT ![t] = "write"]
                 ELSE /\ pc' = [pc EXCEPT ![t] = "abort"]
                      /\ UNCHANGED <<shared, imageLock>>
  /\ UNCHANGED <<database, store>>

(* No image-processing slot, or cancelled before one was granted. *)
WorkerNotAdmitted(t, i) ==
  /\ i \in queued /\ queued' = queued \ {i}
  /\ Start(t, "worker", GalleryOf[i], CanonicalPreviewKeys(i))
  /\ pc' = [pc EXCEPT ![t] = "abort"]
  /\ UNCHANGED <<database, store, fences, attempted, writing, added, todo>>

(* The queue is the memory of the process that ran the upload. *)
QueueLost(i) ==
  /\ i \in queued /\ queued' = queued \ {i}
  /\ UNCHANGED <<database, store, fences, pc, local>>

-----------------------------------------------------------------------------
(* Compensation: UploadBatch._recover and preview_worker._mark_failed.     *)

(* Defect: recovery does not ask which images committed. *)
RecoverEverything(t) ==
  /\ pc[t] = "abort" /\ kind[t] \in BatchKinds /\ CanExclude(gal[t])
  /\ ExcludeGallery(t, gal[t])
  /\ todo' = [todo EXCEPT ![t] = attempted[t]]
  /\ pc' = [pc EXCEPT ![t] = "erase"]
  /\ UNCHANGED <<database, store, queued, shared, imageLock,
                 kind, gal, plan, attempted, writing, added>>

EnterRecovery(t) ==
  /\ pc[t] = "abort" /\ kind[t] \in BatchKinds /\ CanExclude(gal[t])
  /\ ExcludeGallery(t, gal[t])
  /\ todo' = [todo EXCEPT ![t] = {k \in attempted[t] : row[ImageOf(k)] = "none"}]
  /\ pc' = [pc EXCEPT ![t] = "erase"]
  /\ UNCHANGED <<database, store, queued, shared, imageLock,
                 kind, gal, plan, attempted, writing, added>>

(* Defect: the status is not read again under the fresh fence. *)
MarkFailedBlindly(t) ==
  /\ pc[t] = "abort" /\ kind[t] = "worker"
  /\ CanShare(gal[t])
  /\ \E i \in ImagesOf(plan[t]) : CanLockImage(i) /\ LockImage(t, i)
  /\ ShareGallery(t, {gal[t]})
  /\ todo' = [todo EXCEPT ![t] = attempted[t]]
  /\ pc' = [pc EXCEPT ![t] = "erase"]
  /\ UNCHANGED <<exclusive, kind, gal, plan, attempted, writing, added,
                 database, store, queued>>

EnterMarkFailed(t) ==
  /\ pc[t] = "abort" /\ kind[t] = "worker"
  /\ CanShare(gal[t])
  /\ \E i \in ImagesOf(plan[t]) :
       /\ CanLockImage(i)
       /\ IF row[i] = "ready"
            THEN End(t)
            ELSE /\ ShareGallery(t, {gal[t]}) /\ LockImage(t, i)
                 /\ todo' = [todo EXCEPT ![t] = attempted[t]]
                 /\ pc' = [pc EXCEPT ![t] = "erase"]
                 /\ UNCHANGED <<exclusive, kind, gal, plan, attempted, writing, added>>
  /\ UNCHANGED <<database, store, queued>>

-----------------------------------------------------------------------------
(* Deletion handlers.                                                      *)

TrackedKeys(i) ==
  {Original(i)} \cup CanonicalPreviewKeys(i)
    \cup {k \in previews \cup allocated : ImageOf(k) = i}

DeleteImage(t, i) ==
  /\ Start(t, "image", GalleryOf[i], TrackedKeys(i))
  /\ CanShare(GalleryOf[i]) /\ CanLockImage(i)
  /\ gallery[GalleryOf[i]] = "live" /\ row[i] # "none"
  /\ ShareGallery(t, {GalleryOf[i]}) /\ LockImage(t, i)
  /\ todo' = [todo EXCEPT ![t] = TrackedKeys(i)]
  /\ pc' = [pc EXCEPT ![t] = "erase"]
  /\ UNCHANGED <<database, store, queued, exclusive, attempted, writing, added>>

(* The loaded images are erased one after the other, in database order.    *)
BulkDelete(t, g, imgs) ==
  /\ Start(t, "bulk", g, UNION {TrackedKeys(i) : i \in imgs})
  /\ CanExclude(g) /\ gallery[g] = "live"
  /\ imgs # {} /\ imgs \subseteq Committed(g)
  /\ ExcludeGallery(t, g)
  /\ \E i \in imgs : todo' = [todo EXCEPT ![t] = TrackedKeys(i)]
  /\ pc' = [pc EXCEPT ![t] = "erase"]
  /\ UNCHANGED <<database, store, queued, shared, imageLock, attempted, writing, added>>

IntentsOf(g) == {s \in intents : s \subseteq KeysIn(g)}

PurgeKeys(g) ==
  (UNION {{Original(i)} \cup CanonicalPreviewKeys(i) : i \in Committed(g)})
    \cup (UNION IntentsOf(g))
    \cup {k \in previews \cup allocated : GalleryOf[ImageOf(k)] = g}

PurgeGallery(t, g) ==
  /\ Start(t, "purge", g, {})
  /\ CanExclude(g) /\ gallery[g] = "live"
  /\ ExcludeGallery(t, g)
  /\ todo' = [todo EXCEPT ![t] = PurgeKeys(g)]
  /\ pc' = [pc EXCEPT ![t] = "erase"]
  /\ UNCHANGED <<database, store, queued, shared, imageLock, attempted, writing, added>>

-----------------------------------------------------------------------------
(* Defect: a failed deletion neither raises nor is remembered. *)
EraseIgnoringFailures(t) ==
  /\ pc[t] = "erase"
  /\ \E failed \in SUBSET todo[t] : objects' = objects \ (todo[t] \ failed)
  /\ pc' = [pc EXCEPT ![t] = "finish"]
  /\ UNCHANGED <<fences, local, database, allocated, queued>>

(* delete_storage_keys: every key is tried; one failure raises, and then   *)
(* nothing is refunded.  The worker only logs that and marks the image.    *)

Erase(t) ==
  /\ pc[t] = "erase"
  /\ \E failed \in SUBSET todo[t] :
       /\ objects' = objects \ (todo[t] \ failed)
       /\ IF failed = {} \/ kind[t] = "worker"
            THEN /\ pc' = [pc EXCEPT ![t] = IF failed = {} THEN "refund" ELSE "finish"]
                 /\ UNCHANGED <<fences, local>>
            ELSE End(t)
  /\ UNCHANGED <<database, allocated, queued>>

(* Images of a bulk deletion not deleted and refunded once todo is. *)
ImagesLeft(t) == ImagesOf(plan[t] \ (added[t] \cup todo[t]))

(* quota.release, committed on its own; then the next image of a bulk.     *)
Refund(t) ==
  /\ pc[t] = "refund"
  /\ allocated' = allocated \ todo[t]
  /\ added' = IF kind[t] = "bulk" THEN [added EXCEPT ![t] = @ \cup todo[t]] ELSE added
  /\ IF kind[t] = "bulk" /\ ImagesLeft(t) # {}
       THEN /\ pc' = [pc EXCEPT ![t] = "erase"]
            /\ \E i \in ImagesLeft(t) : todo' = [todo EXCEPT ![t] = TrackedKeys(i)]
       ELSE /\ pc' = [pc EXCEPT ![t] = "finish"]
            /\ UNCHANGED todo
  /\ UNCHANGED <<database, objects, queued, fences, kind, gal, plan, attempted, writing>>

(* The rows a deletion handler removes with its COMMIT. *)
Doomed(t) ==
  IF kind[t] = "purge" THEN Committed(gal[t])
  ELSE IF kind[t] \in {"image", "bulk"} THEN ImagesOf(plan[t]) ELSE {}

Finish(t) ==
  /\ pc[t] = "finish"
  /\ row' = [i \in Images |->
               IF i \in Doomed(t) THEN "none"
               ELSE IF kind[t] = "worker" /\ i \in ImagesOf(plan[t]) /\ row[i] # "none"
                 THEN "failed" ELSE row[i]]
  /\ previews' = {k \in previews : ImageOf(k) \notin Doomed(t)}
  /\ intents' = IF kind[t] = "purge" THEN intents \ IntentsOf(gal[t])
                ELSE IF kind[t] \in BatchKinds THEN intents \ {plan[t]} ELSE intents
  /\ gallery' = IF kind[t] = "purge" THEN [gallery EXCEPT ![gal[t]] = "gone"] ELSE gallery
  /\ End(t)
  /\ UNCHANGED <<origin, store, queued>>

(* The task disappears: its process dies, its session breaks while it      *)
(* compensates, or __aenter__ raises (then __aexit__ never runs).  Bytes   *)
(* of a write in flight may have landed.                                   *)
Vanish(t) ==
  /\ pc[t] # "idle"
  /\ \E landed \in SUBSET writing[t] : objects' = objects \cup landed
  /\ End(t)
  /\ UNCHANGED <<database, allocated, queued>>

TaskStep(t) ==
  \/ \E k \in {"api", "web"}, g \in Galleries, imgs \in SUBSET Images : BeginUpload(t, k, g, imgs)
  \/ \E src, g \in Galleries, imgs \in SUBSET Images : BeginCopy(t, src, g, imgs)
  \/ \E k \in Keys : Reserve(t, k) \/ ReserveFails(t, k)
  \/ ReenterBatch(t) \/ PutDone(t) \/ PutFails(t) \/ Abort(t)
  \/ CommitAcked(t) \/ CommitAckLost(t)
  \/ \E i \in Images : WorkerEnter(t, i) \/ WorkerNotAdmitted(t, i) \/ DeleteImage(t, i)
  \/ EnterRecovery(t) \/ EnterMarkFailed(t)
  \/ \E g \in Galleries, imgs \in SUBSET Images : BulkDelete(t, g, imgs)
  \/ \E g \in Galleries : PurgeGallery(t, g)
  \/ Erase(t) \/ Refund(t) \/ Finish(t) \/ Vanish(t)

Next ==
  \/ \E t \in Tasks : TaskStep(t)
  \/ \E g \in Galleries : CreateGallery(g)
  \/ \E i \in Images : QueueLost(i)

Spec == Init /\ [][Next]_vars

(* Handlers run on; a waiter of the first-come lock queue is granted the   *)
(* lock if it becomes free again and again.  Nothing obliges a task to     *)
(* start, to fail or to vanish.                                            *)
Work(t) ==
  \/ \E k \in Keys : Reserve(t, k) \/ ReserveFails(t, k)
  \/ PutDone(t) \/ PutFails(t) \/ Abort(t)
  \/ CommitAcked(t) \/ CommitAckLost(t)
  \/ Erase(t) \/ Refund(t) \/ Finish(t)

Fairness ==
  \A t \in Tasks :
    /\ WF_vars(Work(t))
    /\ SF_vars(ReenterBatch(t)) /\ SF_vars(EnterRecovery(t)) /\ SF_vars(EnterMarkFailed(t))

FairSpec == Spec /\ Fairness

-----------------------------------------------------------------------------
(* Every object in the backend has a committed ledger entry: reserve       *)
(* commits before the write, release only after the deletion, and nobody   *)
(* refunds a key while somebody else may still write it.                   *)
(* images/upload_batch.py, images/storage_cleanup.py, storage/quota.py.    *)
ObjectsAccounted == objects \subseteq allocated

(* After purge_gallery committed, nothing of the gallery is left, and      *)
(* nothing appears later: no file, ledger entry, image row or intent.      *)
(* galleries/deletion.py against batches that lost the fence in the gap.   *)
PurgedGalleryEmpty ==
  \A g \in Galleries : gallery[g] = "gone" =>
    /\ (objects \cup allocated) \cap KeysIn(g) = {}
    /\ Committed(g) = {} /\ IntentsOf(g) = {}

(* Keys a committed image or preview row points to. *)
Referenced ==
  {k \in Keys : k = Original(ImageOf(k)) /\ row[ImageOf(k)] # "none"} \cup previews

(* A row is committed only when its file is stored: a skipped or failed    *)
(* copy, a failed write or a lost race never commits a row without bytes.  *)
(* images/upload_batch.py, galleries/router.py, images/preview_worker.py.  *)
CommittedRowsAreBacked ==
  [][Referenced' \ Referenced \subseteq objects']_vars

(* The only task that ever deletes a file a committed row points to is a   *)
(* deletion handler for that image: no recovery and no failed worker       *)
(* removes files of a commit whose acknowledgement was lost, of a newer    *)
(* attempt or of another batch.  UploadBatch._recover, _mark_failed.       *)
CompensationSparesCommitted ==
  [][\A k \in (objects \ objects') \cap Referenced :
       \E t \in Tasks : kind[t] \in DeleteKinds /\ k \in todo[t]]_vars

(* The strengthening that makes ObjectsAccounted inductive.                *)

FencesExclude ==
  /\ \A g \in Galleries : exclusive[g] # {} =>
       shared[g] = {} /\ \A s, t \in exclusive[g] : s = t
  /\ \A i \in Images : \A s, t \in imageLock[i] : s = t

(* A task stays within its gallery, and a handler of one image within it.  *)
TaskScope ==
  \A t \in Tasks :
    /\ plan[t] \cup writing[t] \cup todo[t] \subseteq KeysIn(gal[t])
    /\ attempted[t] \cup writing[t] \subseteq plan[t]
    /\ pc[t] = "idle" => added[t] = {}
    /\ kind[t] \in BatchKinds \cup {"worker"} => added[t] \subseteq plan[t]
    /\ kind[t] \in {"worker", "image"} =>
         /\ ImagesOf(todo[t]) \subseteq ImagesOf(plan[t])
         /\ \A i, j \in ImagesOf(plan[t]) : i = j

(* Which fences a task holds where: writers share the gallery, worker and  *)
(* single deletion hold the image as well, all others exclude the gallery. *)
FencesHeld ==
  \A t \in Tasks :
    /\ pc[t] = "gap" => kind[t] \in BatchKinds
    /\ pc[t] \in {"write", "put", "abort"} => kind[t] \in BatchKinds \cup {"worker"}
    /\ pc[t] \in {"erase", "refund", "finish"} => kind[t] # "none"
    /\ pc[t] \in {"write", "put"} => t \in shared[gal[t]]
    /\ pc[t] \in {"erase", "refund", "finish"} =>
         t \in IF kind[t] \in {"worker", "image"} THEN shared[gal[t]] ELSE exclusive[gal[t]]
    /\ pc[t] \in {"write", "put", "erase", "refund", "finish"}
         /\ kind[t] \in {"worker", "image"} =>
           \A i \in ImagesOf(plan[t]) : t \in imageLock[i]

(* Nobody else knows the images of an uncommitted batch.                   *)
BatchPrivate ==
  \A t \in Tasks : kind[t] \in BatchKinds /\ pc[t] \in {"gap", "write", "put"} =>
    \A i \in ImagesOf(plan[t]) :
      /\ row[i] = "none" /\ i \notin queued
      /\ \A s \in Tasks \ {t} : i \notin ImagesOf(plan[s])

FreshUnknown ==
  \A i \in Images : origin[i] = "fresh" =>
    /\ row[i] = "none" /\ i \notin queued
    /\ \A t \in Tasks : i \notin ImagesOf(plan[t])

WritesReserved ==
  \A t \in Tasks :
    /\ writing[t] # {} => pc[t] = "put"
    /\ writing[t] \subseteq allocated

RefundsErased == \A t \in Tasks : pc[t] = "refund" => todo[t] \cap objects = {}

StorageInv ==
  /\ TypeOK /\ FencesExclude /\ TaskScope /\ FencesHeld
  /\ BatchPrivate /\ FreshUnknown
  /\ WritesReserved /\ RefundsErased /\ ObjectsAccounted

(* What an upload leaves behind without an image row stays listed in a     *)
(* committed intent, whatever fails and in whatever order.                 *)
(* UploadBatch.__aenter__, commit and _recover.                            *)
LeftoverHasIntent ==
  \A k \in objects :
    origin[ImageOf(k)] = "upload" /\ row[ImageOf(k)] = "none" => k \in UNION intents

(* A ready image is never demoted by a worker that failed earlier and      *)
(* marks its failure late.  preview_worker._mark_failed.                   *)
ReadyIsFinal ==
  [][\A i \in Images : row[i] = "ready" => row'[i] \in {"ready", "none"}]_vars

(* No handler, worker or compensation waits for ever, whatever fails: the  *)
(* compensation's own session never waits for a fence that its failed      *)
(* predecessor still holds.  UploadBatch.__aexit__.                        *)
EveryTaskEnds == \A t \in Tasks : pc[t] # "idle" ~> pc[t] = "idle"

(* A session that has yet to take its fences holds none: the second        *)
(* transaction of a request and every compensation come to the first fence *)
(* with empty hands, so nobody waits for a fence it keeps from others.     *)
(* UploadBatch.__aenter__, UploadBatch._recover, _mark_failed.             *)
WaitersHoldNothing ==
  \A t \in Tasks : pc[t] \in {"idle", "gap", "abort"} =>
    /\ \A g \in Galleries : t \notin shared[g] \cup exclusive[g]
    /\ \A i \in Images : t \notin imageLock[i]

(* What ImageProcessingStatus says of "pending": previews not generated.   *)
(* The JSON upload, images/router.py, commits both together.               *)
PendingHasNoPreviews ==
  \A k \in previews : row[ImageOf(k)] # "pending"

-----------------------------------------------------------------------------
(* The strengthenings that make the other promises inductive, one for each *)
(* concern.  Each is a relation of the shared state, and for every task    *)
(* what holds of its own variables where it stands.                        *)

(* Rows.  A writer's gallery exists.  A preview is written after its       *)
(* original.  A worker deals with previews only, and its image has a row   *)
(* while the worker writes, is not ready while its failure is marked, and  *)
(* has no preview rows until it is ready.                                  *)
TaskRows(t) ==
  /\ pc[t] \in {"write", "put"} => gallery[gal[t]] \in {"claimed", "live"}
  /\ pc[t] = "gap" => gallery[gal[t]] \in {"live", "gone"}
  /\ kind[t] \in BatchKinds =>
       \A k \in added[t] \cup writing[t] :
         k = Original(ImageOf(k)) \/ Original(ImageOf(k)) \in added[t]
  /\ kind[t] = "web" => \A k \in plan[t] : k = Original(ImageOf(k))
  /\ kind[t] = "worker" => \A k \in plan[t] \cup todo[t] : k # Original(ImageOf(k))
  /\ kind[t] = "worker" =>
       \A i \in ImagesOf(plan[t]) :
         /\ pc[t] \in {"write", "put"} => row[i] # "none"
         /\ pc[t] \in {"erase", "refund", "finish"} => row[i] # "ready"
         /\ \A k \in previews : ImageOf(k) = i => row[i] = "ready"

RowsInv ==
  /\ \A i \in Images : row[i] # "none" => gallery[GalleryOf[i]] = "live"
  /\ \A k \in previews :
       /\ row[ImageOf(k)] # "none"
       /\ ImageOf(k) \in queued => row[ImageOf(k)] = "ready"
  /\ \A t \in Tasks : TaskRows(t)

(* The keys whose rows a deletion is about to remove, and those of them it *)
(* may not have refunded yet.                                              *)
DoomedKeys(t) ==
  IF kind[t] = "purge" THEN KeysIn(gal[t])
  ELSE {k \in Keys : ImageOf(k) \in ImagesOf(plan[t])}

Outstanding(t) ==
  IF pc[t] = "finish" THEN {}
  ELSE IF kind[t] = "bulk" THEN plan[t] \ added[t] ELSE todo[t]

(* Deletions.  What a writer takes for stored is stored, and a deletion    *)
(* leaves no ledger entry of a row it removes.                             *)
TaskFiles(t) ==
  /\ pc[t] = "gap" => added[t] = {}
  /\ pc[t] \in {"write", "put"} => added[t] \subseteq objects
  /\ kind[t] \in DeleteKinds => allocated \cap DoomedKeys(t) \subseteq Outstanding(t)

FilesInv ==
  /\ \A g \in Galleries : gallery[g] = "gone" =>
       allocated \cap KeysIn(g) = {} /\ IntentsOf(g) = {}
  /\ {} \notin intents
  /\ \A t \in Tasks : TaskFiles(t)

(* The keys of a batch that its recovery still has to delete if their      *)
(* images have no row.                                                     *)
Unrecovered(t) ==
  IF pc[t] \in {"erase", "refund"} THEN todo[t]
  ELSE IF pc[t] = "finish" THEN {} ELSE attempted[t]

(* Intents.  An upload that may still write has its committed intent, its  *)
(* stored keys are among its attempts until it has recovered, and a        *)
(* recovery deletes only keys of images without a row.                     *)
TaskIntent(t) ==
  /\ kind[t] = "copy" => \A k \in plan[t] : origin[ImageOf(k)] = "copy"
  /\ kind[t] \in BatchKinds /\ pc[t] \in {"erase", "refund", "finish"} =>
       \A k \in todo[t] : row[ImageOf(k)] = "none"
  /\ writing[t] \subseteq attempted[t]
  /\ kind[t] \in {"api", "web"} =>
       /\ plan[t] # {} /\ \A k \in plan[t] : Original(ImageOf(k)) \in plan[t]
       /\ pc[t] = "gap" /\ gallery[gal[t]] = "live" => plan[t] \in intents
       /\ pc[t] \in {"write", "put"} => plan[t] \in intents
       /\ pc[t] \in {"gap", "write", "put"} => attempted[t] \subseteq added[t] \cup writing[t]
       /\ \A k \in objects \cap plan[t] : row[ImageOf(k)] = "none" => k \in Unrecovered(t)

IntentsInv ==
  /\ \A k \in objects : origin[ImageOf(k)] # "fresh"
  /\ LeftoverHasIntent
  /\ \A t \in Tasks : TaskIntent(t)

-----------------------------------------------------------------------------
(* Claims, for the ownership below.  An intent lists planned keys of one   *)
(* gallery, the ledger counts planned keys only and within the quota, a    *)
(* worker writes previews of an image that is not ready, and a bulk        *)
(* deletion erases its images.                                             *)
TaskClaims(t) ==
  /\ kind[t] = "worker" /\ pc[t] \in {"write", "put"} =>
       \A i \in ImagesOf(plan[t]) : row[i] # "ready"
  /\ kind[t] = "bulk" => ImagesOf(todo[t]) \subseteq ImagesOf(plan[t])

Affordable == {S \in SUBSET Keys : IsFiniteSet(S) /\ Cardinality(S) <= MaxObjects}

ClaimsInv ==
  /\ \A s \in intents :
       /\ \A k \in s : origin[ImageOf(k)] = "upload"
       /\ \E g \in Galleries : s \subseteq KeysIn(g)
  /\ \A k \in allocated : origin[ImageOf(k)] # "fresh"
  /\ allocated \in Affordable
  /\ \A t \in Tasks : TaskClaims(t)

-----------------------------------------------------------------------------
(* The tasks as an exclusive owner of the files sees them.                 *)
Listed      == UNION intents
Duplicated  == {i \in Images : origin[i] = "copy"}
WithRow     == {i \in Images : row[i] # "none"}
Purged      == {g \in Galleries : gallery[g] = "gone"}
Condemned   ==
  {i \in Images : \E t \in Tasks : kind[t] \in DeleteKinds /\ Original(i) \in DoomedKeys(t)}

Ownership == INSTANCE StorageOwnership WITH
  FilesOf    <- [i \in Images |-> {i} \X Parts],
  HomeOf     <- GalleryOf,
  Quota      <- Affordable,
  stored     <- objects,
  counted    <- allocated,
  listed     <- Listed,
  duplicated <- Duplicated,
  committed  <- WithRow,
  referenced <- Referenced,
  condemned  <- Condemned,
  purged     <- Purged

(* Whatever the tasks interleave, fail at or retry, every step does to the *)
(* files, the ledger and the rows what one step of an exclusive owner      *)
(* could do, or nothing: no write meets a deletion, no file loses its      *)
(* intent before its row, no row its file but by its own deletion.         *)
(* storage/lifecycle.py with all the handlers that take its fences.        *)
ImplementsStorageOwnership == Ownership!Spec
=============================================================================
