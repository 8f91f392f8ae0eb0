------------------------------ MODULE OwnerStorage ------------------------------
(***************************************************************************)
(* The storage account of one owner: byte, object and unknown-size totals  *)
(* beside the allocations they sum up, and the deletion of the owner's     *)
(* account while uploads, copies and cleanups of other galleries go on.    *)
(*                                                                         *)
(* Totals and allocations are committed by short transactions of their     *)
(* own, serialised by the owner's usage row; files are written and erased  *)
(* between them under gallery fences.  Deleting the user locks its row,    *)
(* which a reservation needs as well: PostgreSQL breaks that deadlock.     *)
(*                                                                         *)
(* Data abstracted away.  A key names its gallery; image fences, preview   *)
(* rows and intents are in StorageLifecycle.  One key has one writer at a  *)
(* time, as its image fence ensures.                                       *)
(***************************************************************************)
EXTENDS Integers, FiniteSets, Functions

CONSTANTS
  Writers,      \* tasks that upload or copy an object
  Cleaners,     \* tasks that delete images of one gallery
  Admin,        \* the request that deletes the account
  Nobody,       \* no task
  GalleryIds,   \* the owner's galleries
  StorageKeys,  \* <<gallery, object>>
  MaxSize,      \* bound on the size of an object
  MaxBytes,     \* max_storage_bytes_per_owner
  MaxObjects    \* max_storage_objects_per_owner

ASSUME OwnerAssumption ==
  /\ StorageKeys # {} /\ IsFiniteSet(StorageKeys) /\ \A k \in StorageKeys : k[1] \in GalleryIds
  /\ Admin \notin Cleaners /\ Nobody \notin Writers \cup Cleaners \cup {Admin}
  /\ MaxSize \in Nat /\ MaxBytes \in Nat /\ MaxObjects \in Nat

VARIABLES
  user,       \* the owner's row in users
  userLocked, \* the deletion of that row is waiting to commit
  galleryRow, \* rows of galleries; "new" until a creation or copy commits
  allocation, \* storage_allocations: the size of a key, or Unknown, or None
  usage,      \* storage_usage
  usageLock,  \* who holds the usage row
  stored,     \* keys with an object in the backend
  writer,     \* the writers
  purger      \* the cleaners and the account deletion

ownerVars == <<user, userLocked, galleryRow, allocation, usage, usageLock, stored, writer, purger>>

None    == -1
Unknown == -2
Purgers == Cleaners \cup {Admin}
Sizes   == 0..MaxSize

Away   == [at |-> "idle", key |-> CHOOSE k \in StorageKeys : TRUE, size |-> 0, previous |-> None]
Absent == [at |-> "idle", held |-> {}, todo |-> {}, keys |-> {}, found |-> {}]

Allocated(keys) == {k \in keys : allocation[k] # None}
Charge          == [k \in StorageKeys |-> IF allocation[k] \in Sizes THEN allocation[k] ELSE 0]
Total(keys)     == [bytes   |-> SumFunctionOnSet(Charge, Allocated(keys)),
                    objects |-> Cardinality(Allocated(keys)),
                    unknown |-> Cardinality({k \in keys : allocation[k] = Unknown})]

OwnerTypeOK ==
  /\ user \in {"present", "gone"} /\ userLocked \in BOOLEAN
  /\ galleryRow \in [GalleryIds -> {"new", "present", "gone"}]
  /\ allocation \in [StorageKeys -> Sizes \cup {None, Unknown}]
  /\ usage \in [bytes : Nat, objects : Nat, unknown : Nat]
  /\ usageLock \in Writers \cup Purgers \cup {Nobody}
  /\ stored \subseteq StorageKeys
  /\ writer \in [Writers -> [at : {"idle", "entered", "locked", "reserved"}, key : StorageKeys,
                             size : Sizes, previous : Sizes \cup {None, Unknown}]]
  /\ purger \in [Purgers -> [at : {"idle", "fencing", "purging", "erased", "refunding", "deleting"},
                             held : SUBSET GalleryIds, todo : SUBSET GalleryIds,
                             keys : SUBSET StorageKeys, found : SUBSET StorageKeys]]

\* Migration 0013 charged every legacy object, some with an unknown size.
OwnerInit ==
  /\ user = "present" /\ userLocked = FALSE
  /\ galleryRow \in [GalleryIds -> {"new", "present"}]
  /\ \E legacy \in SUBSET {k \in StorageKeys : galleryRow[k[1]] = "present"} :
       /\ allocation = [k \in StorageKeys |-> IF k \in legacy THEN Unknown ELSE None]
       /\ usage = [bytes |-> 0, objects |-> Cardinality(legacy), unknown |-> Cardinality(legacy)]
       /\ stored = legacy
  /\ usageLock = Nobody
  /\ writer = [w \in Writers |-> Away]
  /\ purger = [p \in Purgers |-> Absent]

-----------------------------------------------------------------------------
Shared(g) == \E w \in Writers : writer[w].at # "idle" /\ writer[w].key[1] = g
Fenced(g) == \E p \in Purgers : g \in purger[p].held

\* A creation needs the owner's row; a copy may fill its gallery before that.
GalleryCommits(g) ==
  /\ galleryRow[g] = "new" /\ user = "present" /\ ~ userLocked
  /\ galleryRow' = [galleryRow EXCEPT ![g] = "present"]
  /\ UNCHANGED <<user, userLocked, allocation, usage, usageLock, stored, writer, purger>>

-----------------------------------------------------------------------------
(* reserve, then the write *)

WriterStep(w, from, record) ==
  /\ writer[w].at = from
  /\ writer' = [writer EXCEPT ![w] = record]
  /\ UNCHANGED <<user, userLocked, galleryRow, purger>>

WriterEnters(w, k, n) ==
  /\ user = "present" /\ galleryRow[k[1]] # "gone"
  /\ ~ Fenced(k[1])
  /\ \A v \in Writers : writer[v].at # "idle" => writer[v].key # k
  /\ WriterStep(w, "idle", [Away EXCEPT !.at = "entered", !.key = k, !.size = n])
  /\ UNCHANGED <<allocation, usage, usageLock, stored>>

ReserveLocks(w) ==
  /\ usageLock = Nobody
  /\ WriterStep(w, "entered", [writer[w] EXCEPT !.at = "locked", !.previous = allocation[writer[w].key]])
  /\ usageLock' = w
  /\ UNCHANGED <<allocation, usage, stored>>

\* An overwrite pays only what the object grows, and nothing comes back.
Grown(previous, size) == IF previous > size THEN previous ELSE size

(* Defect: a smaller overwrite gives bytes back. *)
ExtraBytesRefunding(previous, size) == IF previous = None THEN size ELSE size - previous

ExtraBytes(previous, size) == IF previous = None THEN size ELSE Grown(previous, size) - previous
ExtraObjects(previous)     == IF previous = None THEN 1 ELSE 0

(* Defect: the bytes of an overwrite are not counted against the limit. *)
AcceptedAsOverwrite(previous, size) ==
  /\ previous # Unknown /\ usage.unknown = 0
  /\ previous # None \/ usage.bytes + size <= MaxBytes
  /\ usage.objects + ExtraObjects(previous) <= MaxObjects

Accepted(previous, size) ==
  /\ previous # Unknown /\ usage.unknown = 0
  /\ usage.bytes + ExtraBytes(previous, size) <= MaxBytes
  /\ usage.objects + ExtraObjects(previous) <= MaxObjects

\* The new row refers to the user: it waits for a deletion and fails after it.
ReserveCommits(w) ==
  LET previous == writer[w].previous
      size     == writer[w].size
  IN  /\ user = "present" /\ ~ userLocked
      /\ Accepted(previous, size)
      /\ WriterStep(w, "locked", [writer[w] EXCEPT !.at = "reserved", !.previous = None])
      /\ usage' = [usage EXCEPT !.bytes   = @ + ExtraBytes(previous, size),
                                !.objects = @ + ExtraObjects(previous)]
      /\ allocation' = [allocation EXCEPT ![writer[w].key] = Grown(previous, size)]
      /\ usageLock' = Nobody
      /\ UNCHANGED stored

\* Over the limit, the user gone, or chosen to break the deadlock.
ReserveRefused(w) ==
  /\ ~ Accepted(writer[w].previous, writer[w].size) \/ user = "gone" \/ userLocked
  /\ WriterStep(w, "locked", Away)
  /\ usageLock' = Nobody
  /\ UNCHANGED <<allocation, usage, stored>>

ObjectWritten(w) ==
  /\ WriterStep(w, "reserved", Away)
  /\ stored' = stored \cup {writer[w].key}
  /\ UNCHANGED <<allocation, usage, usageLock>>

WriteFails(w) ==
  /\ WriterStep(w, "reserved", Away)
  /\ UNCHANGED <<allocation, usage, usageLock, stored>>

-----------------------------------------------------------------------------
(* delete_storage_keys: erase, then release *)

PurgerStep(p, from, record) ==
  /\ purger[p].at = from
  /\ purger' = [purger EXCEPT ![p] = record]
  /\ UNCHANGED <<user, userLocked, galleryRow, writer>>

CleanerEnters(c, g, keys) ==
  /\ galleryRow[g] # "gone" /\ ~ Shared(g) /\ ~ Fenced(g)
  /\ PurgerStep(c, "idle", [Absent EXCEPT !.at = "purging", !.held = {g}, !.keys = keys])
  /\ UNCHANGED <<allocation, usage, usageLock, stored>>

CleanerErases(c) ==
  /\ PurgerStep(c, "purging", [purger[c] EXCEPT !.at = "erased"])
  /\ stored' = stored \ purger[c].keys
  /\ UNCHANGED <<allocation, usage, usageLock>>

\* One key that cannot be removed keeps every charge of the call.
EraseFails(p, from, keys) ==
  /\ purger[p].at = from
  /\ \E gone \in SUBSET keys : stored' = stored \ gone
  /\ PurgerStep(p, from, Absent)
  /\ UNCHANGED <<allocation, usage, usageLock>>

\* What follows a call of delete_storage_keys.
Purged(p) ==
  IF p = Admin THEN [purger[p] EXCEPT !.at = "purging", !.keys = {}, !.found = {}] ELSE Absent

\* The allocations are read again behind the lock.
RefundLocks(p) ==
  /\ usageLock = Nobody /\ Allocated(purger[p].keys) # {}
  /\ PurgerStep(p, "erased", [purger[p] EXCEPT !.at = "refunding", !.found = Allocated(purger[p].keys)])
  /\ usageLock' = p
  /\ UNCHANGED <<allocation, usage, stored>>

NothingToRefund(p) ==
  /\ Allocated(purger[p].keys) = {}
  /\ PurgerStep(p, "erased", Purged(p))
  /\ UNCHANGED <<allocation, usage, usageLock, stored>>

RefundCommits(p) ==
  LET refund == Total(purger[p].found)
  IN  /\ PurgerStep(p, "refunding", Purged(p))
      /\ usage' = [bytes   |-> usage.bytes - refund.bytes,
                   objects |-> usage.objects - refund.objects,
                   unknown |-> usage.unknown - refund.unknown]
      /\ allocation' = [k \in StorageKeys |-> IF k \in purger[p].found THEN None ELSE allocation[k]]
      /\ usageLock' = Nobody
      /\ UNCHANGED stored

-----------------------------------------------------------------------------
(* delete_user *)

AdminLists ==
  LET listed == {g \in GalleryIds : galleryRow[g] = "present"} \cup {k[1] : k \in Allocated(StorageKeys)}
  IN  /\ user = "present"
      /\ PurgerStep(Admin, "idle", [Absent EXCEPT !.at = "fencing", !.todo = listed])
      /\ UNCHANGED <<allocation, usage, usageLock, stored>>

AdminFences(g) ==
  /\ g \in purger[Admin].todo \ purger[Admin].held
  /\ ~ Shared(g) /\ ~ Fenced(g)
  /\ PurgerStep(Admin, "fencing", [purger[Admin] EXCEPT !.held = @ \cup {g}])
  /\ UNCHANGED <<allocation, usage, usageLock, stored>>

AdminFenced ==
  /\ purger[Admin].held = purger[Admin].todo
  /\ PurgerStep(Admin, "fencing", [purger[Admin] EXCEPT !.at = "purging"])
  /\ UNCHANGED <<allocation, usage, usageLock, stored>>

AdminErases(g) ==
  LET keys == {k \in Allocated(StorageKeys) : k[1] = g}
  IN  /\ g \in purger[Admin].todo
      /\ PurgerStep(Admin, "purging", [purger[Admin] EXCEPT !.at = "erased", !.todo = @ \ {g}, !.keys = keys])
      /\ stored' = stored \ keys
      /\ UNCHANGED <<allocation, usage, usageLock>>

AdminDeletes ==
  /\ purger[Admin].todo = {} /\ purger[Admin].at = "purging"
  /\ userLocked' = TRUE
  /\ purger' = [purger EXCEPT ![Admin].at = "deleting"]
  /\ UNCHANGED <<user, galleryRow, allocation, usage, usageLock, stored, writer>>

(* Defect: allocations do not keep the account from being deleted. *)
AdminCommitsRegardless ==
  /\ purger[Admin].at = "deleting" /\ usageLock = Nobody
  /\ user' = "gone" /\ userLocked' = FALSE
  /\ galleryRow' = [g \in GalleryIds |-> "gone"]
  /\ usage' = [bytes |-> 0, objects |-> 0, unknown |-> 0]
  /\ purger' = [purger EXCEPT ![Admin] = Absent]
  /\ UNCHANGED <<allocation, usageLock, stored, writer>>

\* Galleries and the usage row go with the user; an allocation refuses.
AdminCommits ==
  /\ purger[Admin].at = "deleting" /\ usageLock = Nobody
  /\ Allocated(StorageKeys) = {}
  /\ user' = "gone" /\ userLocked' = FALSE
  /\ galleryRow' = [g \in GalleryIds |-> "gone"]
  /\ usage' = [bytes |-> 0, objects |-> 0, unknown |-> 0]
  /\ purger' = [purger EXCEPT ![Admin] = Absent]
  /\ UNCHANGED <<allocation, usageLock, stored, writer>>

\* Refused by an allocation, or chosen to break the deadlock.
AdminRollsBack ==
  /\ purger[Admin].at = "deleting"
  /\ Allocated(StorageKeys) # {} \/ usageLock # Nobody
  /\ userLocked' = FALSE
  /\ purger' = [purger EXCEPT ![Admin] = Absent]
  /\ UNCHANGED <<user, galleryRow, allocation, usage, usageLock, stored, writer>>

-----------------------------------------------------------------------------
WriterRuns(w) ==
  \/ \E k \in StorageKeys, n \in Sizes : WriterEnters(w, k, n)
  \/ ReserveLocks(w) \/ ReserveCommits(w) \/ ReserveRefused(w) \/ ObjectWritten(w) \/ WriteFails(w)

CleanerRuns(c) ==
  \/ \E g \in GalleryIds : \E keys \in SUBSET {k \in StorageKeys : k[1] = g} : CleanerEnters(c, g, keys)
  \/ CleanerErases(c) \/ EraseFails(c, "purging", purger[c].keys)

AdminRuns ==
  \/ AdminLists \/ AdminFenced \/ AdminDeletes \/ AdminCommits \/ AdminRollsBack
  \/ \E g \in GalleryIds : AdminFences(g) \/ AdminErases(g)
  \/ EraseFails(Admin, "purging", {k \in Allocated(StorageKeys) : k[1] \in purger[Admin].todo})

OwnerNext ==
  \/ \E g \in GalleryIds : GalleryCommits(g)
  \/ \E w \in Writers : WriterRuns(w)
  \/ \E c \in Cleaners : CleanerRuns(c)
  \/ AdminRuns
  \/ \E p \in Purgers : RefundLocks(p) \/ NothingToRefund(p) \/ RefundCommits(p)

OwnerSpec == OwnerInit /\ [][OwnerNext]_ownerVars

-----------------------------------------------------------------------------
(* The totals are the sum of the allocations at every moment, through      *)
(* reservations, overwrites that shrink or grow an object, refunds of any  *)
(* part of a gallery and refused deletions (reserve, release).             *)
UsageIsSum == usage = Total(StorageKeys)

(* A deleted account leaves nothing behind: no allocation, and no object   *)
(* of an upload or copy that began while the account was being deleted,    *)
(* in a gallery the deletion never listed (delete_user).                   *)
DeletedLeavesNothing ==
  user = "gone" => stored = {} /\ Allocated(StorageKeys) = {} /\ \A g \in GalleryIds : galleryRow[g] = "gone"

(* No reservation takes the owner past a limit, and none succeeds while    *)
(* the size of any object is unknown.                                      *)
GrowthWithinQuota ==
  [][/\ usage'.bytes > usage.bytes => usage'.bytes <= MaxBytes
     /\ usage'.objects > usage.objects => usage'.objects <= MaxObjects /\ usage.unknown = 0]_ownerVars
===============================================================================
