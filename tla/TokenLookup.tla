------------------------------ MODULE TokenLookup ------------------------------
(***************************************************************************)
(* Finding the row of a bearer link.  New links have an indexed locator;   *)
(* legacy ones are found by comparing a window of rows per request, in     *)
(* the order of their keys, with a signed cookie that says where the next  *)
(* request goes on.  Rows come and go between the windows, cookies expire, *)
(* scanning slots are few, and the tabs of a browser share the cookie.     *)
(*                                                                         *)
(* Data abstracted away.  One link is looked up, of a gallery or of an     *)
(* email verification; its row may be live (its hash matches, gallery and  *)
(* owner admit guests) or not.  Other rows never match it.  A steady flag  *)
(* rides on cookie and tab as history: the link was live ever since the    *)
(* traversal began.                                                        *)
(***************************************************************************)
EXTENDS Integers, FiniteSets

CONSTANTS
  Tabs,         \* tabs of the browser that opened the link
  Keys,         \* keys a row can have; their order is the order of the scan
  LookupWindow, \* LOOKUP_WINDOW
  MaxScans,     \* _MAX_LEGACY_SCANS
  MaxMishaps    \* bound on expired cookies and abandoned requests

ASSUME LookupAssumption ==
  /\ Keys \subseteq Nat \ {0} /\ IsFiniteSet(Keys) /\ IsFiniteSet(Tabs)
  /\ LookupWindow \in Nat /\ LookupWindow >= 2
  /\ MaxScans \in Nat \ {0} /\ MaxMishaps \in Nat

VARIABLES
  kind,    \* which resolver
  rows,    \* rows with a locator equal to the link's, and legacy rows
  target,  \* key of the link's row
  linked,    \* the link's row is live
  cookie,  \* the progress cookie of the browser
  running, \* the counter of legacy scans
  tab,     \* the requests of the tabs
  mishaps  \* expired cookies and abandoned requests so far

lookupVars == <<kind, rows, target, linked, cookie, running, tab, mishaps>>

Answers  == {"idle", "found", "missing", "again"}
Scanning == {"scanning", "legacy"}

NoCookie == [phase |-> "none", key |-> 0, steady |-> FALSE]
Asking(at, cursor) ==
  [at |-> at, key |-> cursor.key, steady |-> cursor.steady, room |-> LookupWindow, ids |-> {}, more |-> FALSE]

LookupTypeOK ==
  /\ kind \in {"gallery", "verification"}
  /\ rows \in [Keys -> {"none", "indexed", "legacy"}]
  /\ target \in Keys
  /\ linked \in BOOLEAN
  /\ cookie \in [phase : {"none", "h", "i", "l"}, key : Keys \cup {0}, steady : BOOLEAN]
  /\ running \in 0..MaxScans
  /\ tab \in [Tabs -> [at : Answers \cup Scanning \cup {"seeking", "indexed", "waiting"},
                       key : Keys \cup {0}, steady : BOOLEAN, room : 1..LookupWindow,
                       ids : SUBSET Keys, more : BOOLEAN]]
  /\ mishaps \in 0..MaxMishaps

LookupInit ==
  /\ kind \in {"gallery", "verification"}
  /\ target \in Keys
  /\ \E class \in {"indexed", "legacy"} : rows = [k \in Keys |-> IF k = target THEN class ELSE "none"]
  /\ linked \in BOOLEAN
  /\ cookie = NoCookie
  /\ running = 0
  /\ tab = [v \in Tabs |-> Asking("idle", NoCookie)]
  /\ mishaps = 0

-----------------------------------------------------------------------------
(* The rows, the cookie's age, and clients that go away. *)

\* A verification locator is unique.
Churn(k, class) ==
  /\ k # target /\ rows[k] # class
  /\ kind = "verification" /\ class = "indexed" => \A j \in Keys \ {k} : rows[j] # "indexed"
  /\ rows' = [rows EXCEPT ![k] = class]
  /\ UNCHANGED <<kind, target, linked, cookie, running, tab, mishaps>>

\* A gallery is withdrawn; a verification is consumed and loses its locator.
LinkDies ==
  /\ linked
  /\ linked' = FALSE
  /\ rows' = IF kind = "verification" THEN [rows EXCEPT ![target] = "legacy"] ELSE rows
  /\ cookie' = [cookie EXCEPT !.steady = FALSE]
  /\ tab' = [v \in Tabs |-> [tab[v] EXCEPT !.steady = FALSE]]
  /\ UNCHANGED <<kind, target, running, mishaps>>

LinkRevived ==
  /\ kind = "gallery" /\ ~ linked
  /\ linked' = TRUE
  /\ UNCHANGED <<kind, rows, target, cookie, running, tab, mishaps>>

CookieExpires ==
  /\ cookie # NoCookie /\ mishaps < MaxMishaps
  /\ cookie' = NoCookie
  /\ mishaps' = mishaps + 1
  /\ UNCHANGED <<kind, rows, target, linked, running, tab>>

-----------------------------------------------------------------------------
TabStep(v, record) ==
  /\ tab' = [tab EXCEPT ![v] = record]
  /\ UNCHANGED <<kind, rows, target, linked, mishaps>>

Answered(v, answer) == Asking(answer, [key |-> 0, steady |-> tab[v].steady])

Matches(ids) == target \in ids /\ linked

(* Defect: the cursor is the key behind the window. *)
KeyBehind(ids) == 1 + CHOOSE k \in ids : \A j \in ids : j <= k

\* The first keys of a class beyond a cursor, and whether more follow.
Candidates(class, key) == {k \in Keys : rows[k] = class /\ k > key}
FirstOf(candidates, n) == {k \in candidates : Cardinality({j \in candidates : j <= k}) <= n}
LastOf(ids) == CHOOSE k \in ids : \A j \in ids : j <= k

Listed(v, at, class) ==
  LET candidates == Candidates(class, tab[v].key)
      ids        == FirstOf(candidates, tab[v].room)
  IN  [tab[v] EXCEPT !.at = at, !.ids = ids, !.more = (candidates # ids)]

(* Defect: the cursor of the finished window is not saved. *)
SavedAtStart(v, phase, key) == [phase |-> phase, key |-> IF phase = "h" THEN key ELSE 0, steady |-> tab[v].steady]

\* LookupProgress.save, with the next cursor or a hint.
Saved(v, phase, key) == [phase |-> phase, key |-> key, steady |-> tab[v].steady]

\* A request starts with the cookie; a hint is only where to look first.
TabAsks(v) ==
  /\ tab[v].at \in Answers
  /\ LET fresh == [phase |-> "none", key |-> 0, steady |-> linked]
     IN  CASE cookie.phase = "h" /\ Matches({cookie.key}) -> TabStep(v, Asking("found", fresh))
           [] cookie.phase = "l"                          -> TabStep(v, Asking("waiting", cookie))
           [] cookie.phase = "i"                          -> TabStep(v, Asking("seeking", cookie))
           [] OTHER                                       -> TabStep(v, Asking("seeking", fresh))
  /\ UNCHANGED <<cookie, running>>

\* resolve_gallery_by_token: a window of the rows with the link's locator.
ListIndexed(v) ==
  /\ kind = "gallery" /\ tab[v].at = "seeking"
  /\ TabStep(v, Listed(v, "indexed", "indexed"))
  /\ UNCHANGED <<cookie, running>>

CheckIndexed(v) ==
  /\ tab[v].at = "indexed"
  /\ \/ Matches(tab[v].ids) /\ TabStep(v, Answered(v, "found")) /\ cookie' = Saved(v, "h", target)
     \/ /\ ~ Matches(tab[v].ids) /\ tab[v].more
        /\ TabStep(v, Answered(v, "again")) /\ cookie' = Saved(v, "i", LastOf(tab[v].ids))
     \/ /\ ~ Matches(tab[v].ids) /\ ~ tab[v].more
        /\ TabStep(v, Asking("waiting", [key |-> 0, steady |-> tab[v].steady])) /\ UNCHANGED cookie
  /\ UNCHANGED running

\* resolve_pending_signup: the row with the locator, if it still has a hash,
\* takes one of the window's comparisons.
CheckLocator(v) ==
  LET located == {k \in Keys : rows[k] = "indexed"}
  IN  /\ kind = "verification" /\ tab[v].at = "seeking"
      /\ \/ Matches(located) /\ TabStep(v, Answered(v, "found")) /\ cookie' = NoCookie
         \/ /\ ~ Matches(located)
            /\ \E room \in {LookupWindow} \cup {LookupWindow - Cardinality(located)} :
                 TabStep(v, [tab[v] EXCEPT !.at = "waiting", !.room = room])
            /\ UNCHANGED cookie
      /\ UNCHANGED running

\* legacy_token_scan: a free slot, or 503 with the browser's cookie as it was.
ScanAdmitted(v) ==
  /\ tab[v].at = "waiting" /\ running < MaxScans
  /\ TabStep(v, [tab[v] EXCEPT !.at = "scanning"])
  /\ running' = running + 1
  /\ UNCHANGED cookie

ScanRefused(v) ==
  /\ tab[v].at = "waiting" /\ running >= MaxScans
  /\ TabStep(v, Answered(v, "again"))
  /\ UNCHANGED <<cookie, running>>

ListLegacy(v) ==
  /\ tab[v].at = "scanning"
  /\ TabStep(v, Listed(v, "legacy", "legacy"))
  /\ UNCHANGED <<cookie, running>>

\* However the scan ends, the slot is given back.
CheckLegacy(v) ==
  /\ tab[v].at = "legacy"
  /\ \/ /\ Matches(tab[v].ids) /\ TabStep(v, Answered(v, "found"))
        /\ cookie' = IF kind = "gallery" THEN Saved(v, "h", target) ELSE NoCookie
     \/ /\ ~ Matches(tab[v].ids) /\ tab[v].more
        /\ TabStep(v, Answered(v, "again")) /\ cookie' = Saved(v, "l", LastOf(tab[v].ids))
     \/ /\ ~ Matches(tab[v].ids) /\ ~ tab[v].more
        /\ TabStep(v, Answered(v, "missing")) /\ cookie' = NoCookie
  /\ running' = running - 1

ScanAbandoned(v) ==
  /\ tab[v].at \in Scanning /\ mishaps < MaxMishaps
  /\ tab' = [tab EXCEPT ![v] = Answered(v, "idle")]
  /\ running' = running - 1
  /\ mishaps' = mishaps + 1
  /\ UNCHANGED <<kind, rows, target, linked, cookie>>

-----------------------------------------------------------------------------
TabContinues(v) ==
  \/ TabAsks(v) \/ ListIndexed(v) \/ CheckIndexed(v) \/ CheckLocator(v)
  \/ ScanAdmitted(v) \/ ScanRefused(v) \/ ListLegacy(v) \/ CheckLegacy(v)

LookupNext ==
  \/ \E k \in Keys, class \in {"none", "indexed", "legacy"} : Churn(k, class)
  \/ LinkDies \/ LinkRevived \/ CookieExpires
  \/ \E v \in Tabs : TabContinues(v) \/ ScanAbandoned(v)

\* The server answers every request, and a tab asks again.
LookupFairness == \A v \in Tabs : WF_lookupVars(TabContinues(v))

LookupSpec == LookupInit /\ [][LookupNext]_lookupVars /\ LookupFairness

-----------------------------------------------------------------------------
(* A link that was live since its traversal began is never answered "not   *)
(* found", whatever rows came or went between the windows and whichever    *)
(* tab wrote the cookie last (both resolvers' windows and cursors).        *)
NoFalseMissing == \A v \in Tabs : tab[v].at = "missing" => ~ tab[v].steady

(* "They traverse any backlog": once a link stays live, the browser whose  *)
(* tabs keep retrying finds it again and again, although rows keep coming  *)
(* and going.  (One tab of several may be refused for ever.)               *)
StableLinkFound == <>[]linked => []<>(\E v \in Tabs : tab[v].at = "found")
===============================================================================
