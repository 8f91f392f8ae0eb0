------------------------------ MODULE GuestPages ------------------------------
(***************************************************************************)
(* One guest who reads the images of a gallery page by page with a signed  *)
(* keyset cursor, while images come, go, are rated and get their capture   *)
(* date.  The guest may start over, turn the direction round, or send a    *)
(* cursor with a direction it was not signed for.                          *)
(*                                                                         *)
(* Data abstracted away.  An image is the rank of its id and all sort      *)
(* columns in front of the id are one key, shared by several images.  A    *)
(* page is atomic: deletions and ratings wait for the guest's read fence,  *)
(* and an image uploaded behind its key query is not on it.                *)
(***************************************************************************)
EXTENDS Integers, FiniteSets

CONSTANTS
  LastImage, \* bound on the images
  SortKeys,  \* values of the sort columns in front of the id
  PageLimit, \* GALLERY_PAGE_SIZE
  NoCursor   \* a first page

ASSUME PagesAssumption ==
  LastImage \in Nat /\ SortKeys \subseteq Nat /\ PageLimit \in Nat \ {0}

Pictures   == 1..LastImage
Directions == {"asc", "desc"}

VARIABLES
  picture,  \* per image: whether it exists, its key, whether it passes the filter
  reading,  \* the guest: direction, cursor, and whether a traversal is under way
  shown,    \* how often the traversal has shown an image
  steady    \* images that were there, with one key, and passed the filter all along

pagesVars == <<picture, reading, shown, steady>>

Cursors == [direction : Directions, key : SortKeys, id : Pictures]

ASSUME CursorAssumption == NoCursor \notin Cursors

PagesTypeOK ==
  /\ picture \in [Pictures -> [at : {"new", "present", "gone"}, key : SortKeys, matches : BOOLEAN]]
  /\ reading \in [at : {"none", "open", "done", "refused"}, cursor : Cursors \cup {NoCursor}]
  /\ shown \in [Pictures -> 0..2]
  /\ steady \subseteq Pictures

PagesInit ==
  /\ picture \in [Pictures -> [at : {"new", "present"}, key : SortKeys, matches : {TRUE}]]
  /\ reading = [at |-> "none", cursor |-> NoCursor]
  /\ shown = [i \in Pictures |-> 0]
  /\ steady = {}

-----------------------------------------------------------------------------
(* What changes a gallery between two pages *)

PictureStep(i, record) ==
  /\ picture' = [picture EXCEPT ![i] = record]
  /\ steady' = steady \ {i}
  /\ UNCHANGED <<reading, shown>>

PictureUploaded(i) ==
  /\ picture[i].at = "new"
  /\ PictureStep(i, [picture[i] EXCEPT !.at = "present"])

PictureDeleted(i) ==
  /\ picture[i].at = "present"
  /\ PictureStep(i, [picture[i] EXCEPT !.at = "gone"])

PictureRated(i) ==
  /\ picture[i].at = "present"
  /\ PictureStep(i, [picture[i] EXCEPT !.matches = ~ @])

\* The preview worker stores the EXIF data, which sets capture_sort_key.
PictureDated(i, key) ==
  /\ picture[i].at = "present" /\ picture[i].key # key
  /\ PictureStep(i, [picture[i] EXCEPT !.key = key])

-----------------------------------------------------------------------------
(* load_guest_image_page *)

Passing == {i \in Pictures : picture[i].at = "present" /\ picture[i].matches}

\* Row comparison of (key, id), as ORDER BY and the cursor use it.
Precedes(k, i, l, j, direction) ==
  IF direction = "asc" THEN k < l \/ (k = l /\ i < j) ELSE k > l \/ (k = l /\ i > j)

\* Cursor: the first page has no lower bound.
Behind(cursor, direction) ==
  IF cursor = NoCursor THEN Passing
  ELSE {i \in Passing : Precedes(cursor.key, cursor.id, picture[i].key, i, direction)}

Place(i, rows, direction) ==
  Cardinality({j \in rows : Precedes(picture[j].key, j, picture[i].key, i, direction)})

PageOf(rows, direction) == {i \in rows : Place(i, rows, direction) < PageLimit}

(* Defect: the cursor is made of the first row beyond the page. *)
NextCursorBeyond(rows, direction) ==
  IF rows = PageOf(rows, direction) THEN NoCursor
  ELSE LET last == CHOOSE i \in rows : Place(i, rows, direction) = PageLimit
       IN  [direction |-> direction, key |-> picture[last].key, id |-> last]

\* The cursor is made of the last row on the page, when more rows follow.
NextCursor(rows, direction) ==
  IF rows = PageOf(rows, direction) THEN NoCursor
  ELSE LET last == CHOOSE i \in rows : Place(i, rows, direction) = PageLimit - 1
       IN  [direction |-> direction, key |-> picture[last].key, id |-> last]

ShowPage(rows, direction, before) ==
  /\ shown' = [i \in Pictures |-> IF i \in PageOf(rows, direction) /\ before[i] < 2 THEN before[i] + 1 ELSE before[i]]
  /\ reading' = [at |-> IF NextCursor(rows, direction) = NoCursor THEN "done" ELSE "open",
                 cursor |-> NextCursor(rows, direction)]
  /\ UNCHANGED picture

FirstPage(direction) ==
  /\ ShowPage(Behind(NoCursor, direction), direction, [i \in Pictures |-> 0])
  /\ steady' = Passing

NextPage(direction) ==
  /\ reading.at = "open" /\ reading.cursor.direction = direction
  /\ ShowPage(Behind(reading.cursor, direction), direction, shown)
  /\ UNCHANGED steady

\* _decode_page_cursor: the cursor was signed for another listing.
PageRefused(direction) ==
  /\ reading.at = "open" /\ reading.cursor.direction # direction
  /\ reading' = [at |-> "refused", cursor |-> NoCursor]
  /\ UNCHANGED <<picture, shown, steady>>

-----------------------------------------------------------------------------
PagesNext ==
  \/ \E i \in Pictures :
       \/ PictureUploaded(i) \/ PictureDeleted(i) \/ PictureRated(i)
       \/ \E key \in SortKeys : PictureDated(i, key)
  \/ \E direction \in Directions : FirstPage(direction) \/ NextPage(direction) \/ PageRefused(direction)

PagesSpec == PagesInit /\ [][PagesNext]_pagesVars

-----------------------------------------------------------------------------
(* A guest who reads to the last page has seen every image that was there  *)
(* and passed the filter all along, and has seen it once, although sort    *)
(* keys are shared and images in front of the cursor come and go           *)
(* (the keyset of load_guest_image_page).                                  *)
SteadyShownOnce ==
  \A i \in steady : shown[i] <= 1 /\ (reading.at = "done" => shown[i] = 1)
===============================================================================
