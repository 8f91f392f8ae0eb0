--------------------------- MODULE StorageOwnership ---------------------------
(***************************************************************************)
(* What the fences, the intents and the ledger of StorageLifecycle promise *)
(* together, without tasks, locks and retries: at every moment somebody    *)
(* answers for each stored file, nobody writes where somebody deletes, and *)
(* every decision about a file is taken on what is true at that moment.    *)
(***************************************************************************)
CONSTANTS
  Images,
  FilesOf, \* the keys under which files of an image may be stored
  HomeOf,  \* the gallery of an image
  Quota    \* the sets of keys that the owner may store

VARIABLES
  stored,     \* keys with bytes
  counted,    \* keys the ledger counts
  listed,     \* keys a committed intent lists
  duplicated, \* images that a duplication planned
  committed,  \* images with a row
  referenced, \* keys that image and preview rows point to
  condemned,  \* images that a handler is deleting
  purged      \* galleries that were deleted

ownership == <<stored, counted, listed, duplicated, committed, referenced, condemned, purged>>

FilesOfAll(I) == UNION {FilesOf[i] : i \in I}
ImagesIn(G)   == {i \in Images : HomeOf[i] \in G}
FilesIn(G)    == FilesOfAll(ImagesIn(G))

Init ==
  /\ stored = {} /\ counted = {} /\ listed = {} /\ duplicated = {}
  /\ committed = {} /\ referenced = {} /\ condemned = {} /\ purged = {}

-----------------------------------------------------------------------------
(* Each action says what it may change and how far.                        *)

(* Images nobody has heard of.                                             *)
Unheard ==
  {i \in Images \ (duplicated \cup committed \cup condemned \cup ImagesIn(purged)) :
     FilesOf[i] \cap (stored \cup counted \cup listed) = {}}

(* An upload lists its files before it writes any.                         *)
Announce ==
  /\ listed \subseteq listed' /\ listed' \ listed \subseteq FilesOfAll(Unheard)
  /\ UNCHANGED <<stored, counted, duplicated, committed, referenced, condemned, purged>>

(* A duplication plans images; it lists nothing.                           *)
Duplicate ==
  /\ duplicated \subseteq duplicated' /\ duplicated' \ duplicated \subseteq Unheard
  /\ UNCHANGED <<stored, counted, listed, committed, referenced, condemned, purged>>

(* Keys that somebody answers for.                                         *)
Owned == listed \cup FilesOfAll(committed \cup duplicated)

(* Keys that may be written: no row points to them, nobody deletes them.   *)
Writable ==
  Owned \ (referenced \cup FilesOfAll(condemned) \cup FilesIn(purged))

Charge ==
  /\ counted \subseteq counted' /\ counted' \ counted \subseteq Writable
  /\ counted' \in Quota
  /\ UNCHANGED <<stored, listed, duplicated, committed, referenced, condemned, purged>>

Land ==
  /\ stored \subseteq stored' /\ stored' \ stored \subseteq Writable \cap counted
  /\ UNCHANGED <<counted, listed, duplicated, committed, referenced, condemned, purged>>

(* Images or previews become known, with the files they point to, or a     *)
(* failed upload has cleaned up.  An intent that ends leaves no file that  *)
(* it alone answered for.                                                  *)
Publish ==
  /\ committed \subseteq committed' /\ referenced \subseteq referenced'
  /\ (committed' \ committed) \cap (condemned \cup ImagesIn(purged)) = {}
  /\ referenced' \ referenced \subseteq
       (stored \cap FilesOfAll(committed')) \ FilesOfAll(condemned)
  /\ listed' \subseteq listed
  /\ stored \cap (listed \ listed') \subseteq FilesOfAll(committed')
  /\ UNCHANGED <<stored, counted, duplicated, condemned, purged>>

Condemn ==
  /\ condemned \subseteq condemned'
  /\ UNCHANGED <<stored, counted, listed, duplicated, committed, referenced, purged>>

(* Files go.  A file that a row points to goes only with its image; a      *)
(* handler that fails spares what it had condemned.                        *)
Discard ==
  /\ stored' \subseteq stored /\ condemned' \subseteq condemned
  /\ (stored \ stored') \cap referenced \subseteq FilesOfAll(condemned)
  /\ UNCHANGED <<counted, listed, duplicated, committed, referenced, purged>>

Refund ==
  /\ counted' \subseteq counted /\ (counted \ counted') \cap stored = {}
  /\ UNCHANGED <<stored, listed, duplicated, committed, referenced, condemned, purged>>

(* Rows go after all they stand for, and a gallery with all it has.        *)
Remove ==
  LET gone == (committed \ committed') \cup ImagesIn(purged' \ purged) IN
  /\ committed' \subseteq committed /\ purged \subseteq purged'
  /\ ImagesIn(purged') \cap committed' = {}
  /\ gone \subseteq condemned /\ FilesOfAll(gone) \cap (stored \cup counted) = {}
  /\ referenced' = referenced \ FilesOfAll(gone)
  /\ listed' = listed \ FilesIn(purged' \ purged)
  /\ condemned' \subseteq condemned
  /\ UNCHANGED <<stored, counted, duplicated>>

Next ==
  \/ Announce \/ Duplicate \/ Charge \/ Land \/ Publish
  \/ Condemn \/ Discard \/ Refund \/ Remove

Spec == Init /\ [][Next]_ownership

-----------------------------------------------------------------------------
(* Every file is counted, within the quota, and somebody answers for it;   *)
(* nothing is left of a deleted gallery, and no row outlives its image.    *)
Answered ==
  /\ stored \subseteq counted /\ stored \subseteq Owned
  /\ counted \in Quota
  /\ FilesIn(purged) \cap (counted \cup listed) = {} /\ ImagesIn(purged) \cap committed = {}
  /\ referenced \subseteq FilesOfAll(committed)
=============================================================================
