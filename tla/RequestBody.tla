------------------------------ MODULE RequestBody ------------------------------
(***************************************************************************)
(* One request under the body size limit: the middleware between the       *)
(* server's receive and send and an application that may answer before,    *)
(* while or after it reads the body, and that may turn a disconnect into   *)
(* an error answer of its own.                                             *)
(*                                                                         *)
(* Data abstracted away.  Bodies and limits are counted in small units; a  *)
(* declared length is what the client says and need not be true.           *)
(***************************************************************************)
EXTENDS Integers, Sequences

CONSTANTS
  UploadLimit,    \* max_request_body_mb, 0 for none
  OrdinaryLimit,  \* max_non_upload_request_body_kb, 0 for none
  SelectionLimit, \* the budget of a selection write
  MaxChunk,       \* bound on a chunk
  MaxBody         \* bound on what a client sends

ASSUME BodyAssumption ==
  /\ {UploadLimit, OrdinaryLimit, MaxBody} \subseteq Nat
  /\ SelectionLimit \in Nat \ {0} /\ MaxChunk \in Nat \ {0}

VARIABLES
  route,     \* what kind of request it is
  declared,  \* its Content-Length, or -1
  chunks,    \* bytes the client sent
  received,  \* bytes the middleware counted
  delivered, \* bytes the application was given
  limitHit,  \* limit_hit
  rejected,  \* rejected
  started,   \* response_started
  rejecting, \* how much of the 413 is still to be sent
  answering, \* an application message passed the guard but is not sent yet
  wire,      \* the messages sent to the client
  app        \* where the application is

bodyVars == <<route, declared, chunks, received, delivered, limitHit, rejected, started,
              rejecting, answering, wire, app>>

Routes == {"upload", "selection", "other"}

Limits ==
  (IF UploadLimit > 0 THEN {UploadLimit} ELSE {})
    \cup (IF OrdinaryLimit > 0 /\ route # "upload" THEN {OrdinaryLimit} ELSE {})
    \cup (IF route = "selection" THEN {SelectionLimit} ELSE {})

Unlimited == Limits = {}
BodyLimit  == CHOOSE n \in Limits : \A m \in Limits : n <= m

BodyTypeOK ==
  /\ route \in Routes /\ declared \in -1..MaxBody
  /\ {chunks, received, delivered} \subseteq 0..MaxBody
  /\ {limitHit, rejected, started} \subseteq BOOLEAN
  /\ rejecting \in 0..2
  /\ answering \in {"none", "start", "body"}
  /\ wire \in Seq({"413_start", "413_body", "app_start", "app_body"})
  /\ app \in {"waiting", "running", "told", "returned", "raised", "skipped"}

BodyInit ==
  /\ route \in Routes /\ declared \in -1..MaxBody
  /\ chunks = 0 /\ received = 0 /\ delivered = 0
  /\ limitHit = FALSE /\ rejected = FALSE /\ started = FALSE
  /\ rejecting = 0 /\ answering = "none" /\ wire = <<>>
  /\ app = "waiting"

-----------------------------------------------------------------------------
\* The declared length is checked before a byte is read.
BodyArrives ==
  /\ app = "waiting"
  /\ IF ~ Unlimited /\ declared > BodyLimit
       THEN app' = "skipped" /\ rejecting' = 2
       ELSE app' = "running" /\ UNCHANGED rejecting
  /\ UNCHANGED <<route, declared, chunks, received, delivered, limitHit, rejected, started, answering, wire>>

\* limited_receive.  Once the limit was hit the application only hears of a
\* disconnect; the 413 is sent before it does, unless it had begun to answer.
ChunkWithin(n) ==
  /\ app = "running" /\ ~ limitHit /\ rejecting = 0
  /\ chunks + n <= MaxBody
  /\ Unlimited \/ received + n <= BodyLimit
  /\ chunks' = chunks + n /\ received' = received + n /\ delivered' = delivered + n
  /\ UNCHANGED <<route, declared, limitHit, rejected, started, rejecting, answering, wire, app>>

ChunkBeyond(n) ==
  /\ app = "running" /\ ~ limitHit /\ rejecting = 0
  /\ chunks + n <= MaxBody
  /\ ~ Unlimited /\ received + n > BodyLimit
  /\ chunks' = chunks + n /\ received' = received + n
  /\ limitHit' = TRUE
  /\ IF started THEN UNCHANGED <<rejected, rejecting>> ELSE rejected' = TRUE /\ rejecting' = 2
  /\ UNCHANGED <<route, declared, delivered, started, answering, wire, app>>

\* A message of the 413 goes out; other tasks of the request run in between.
RejectionSent ==
  /\ rejecting > 0
  /\ wire' = Append(wire, IF rejecting = 2 THEN "413_start" ELSE "413_body")
  /\ rejecting' = rejecting - 1
  /\ UNCHANGED <<route, declared, chunks, received, delivered, limitHit, rejected, started, answering, app>>

DisconnectTold ==
  /\ app = "running" /\ limitHit /\ rejecting = 0
  /\ app' = "told"
  /\ UNCHANGED <<route, declared, chunks, received, delivered, limitHit, rejected, started, rejecting, answering, wire>>

(* Defect: the application's answer goes out although a 413 does. *)
AppAnswersAnyway ==
  /\ app \in {"running", "told"} /\ answering = "none"
  /\ \A i \in 1..Len(wire) : wire[i] # "app_body"
  /\ started' = TRUE /\ answering' = (IF started THEN "body" ELSE "start")
  /\ UNCHANGED <<route, declared, chunks, received, delivered, limitHit, rejected, rejecting, wire, app>>

\* guarded_send: nothing of the application after a rejection.
AppAnswers ==
  /\ app \in {"running", "told"} /\ answering = "none"
  /\ \A i \in 1..Len(wire) : wire[i] # "app_body"
  /\ IF rejected
       THEN UNCHANGED <<started, answering>>
       ELSE started' = TRUE /\ answering' = IF started THEN "body" ELSE "start"
  /\ UNCHANGED <<route, declared, chunks, received, delivered, limitHit, rejected, rejecting, wire, app>>

AnswerSent ==
  /\ answering # "none"
  /\ wire' = Append(wire, IF answering = "start" THEN "app_start" ELSE "app_body")
  /\ answering' = "none"
  /\ UNCHANGED <<route, declared, chunks, received, delivered, limitHit, rejected, started, rejecting, app>>

\* The application ends, or lets ClientDisconnect through: swallowed after a
\* rejection, raised to the server otherwise.
AppReturns ==
  /\ app \in {"running", "told"} /\ answering = "none" /\ rejecting = 0
  /\ rejected \/ \E i \in 1..Len(wire) : wire[i] = "app_body"
  /\ app' = "returned"
  /\ UNCHANGED <<route, declared, chunks, received, delivered, limitHit, rejected, started, rejecting, answering, wire>>

DisconnectRaised ==
  /\ app = "told" /\ answering = "none"
  /\ app' = IF rejected THEN "returned" ELSE "raised"
  /\ UNCHANGED <<route, declared, chunks, received, delivered, limitHit, rejected, started, rejecting, answering, wire>>

-----------------------------------------------------------------------------
BodyNext ==
  \/ BodyArrives \/ RejectionSent \/ DisconnectTold \/ AppAnswers \/ AnswerSent
  \/ AppReturns \/ DisconnectRaised
  \/ \E n \in 1..MaxChunk : ChunkWithin(n) \/ ChunkBeyond(n)

BodySpec == BodyInit /\ [][BodyNext]_bodyVars

-----------------------------------------------------------------------------
(* "Never send a second response": the client sees one response, whole and *)
(* of one author, however the body, the application's answer and the 413   *)
(* interleave; a request that ends without an error was answered, so a     *)
(* swallowed disconnect means that the 413 is complete; and the            *)
(* application gets no more than the limit, whatever length was declared.  *)
OneResponse ==
  /\ \E whole \in {<<"413_start", "413_body">>, <<"app_start", "app_body">>} :
       Len(wire) <= 2 /\ \A i \in 1..Len(wire) : wire[i] = whole[i]
  /\ app = "returned" => Len(wire) = 2
  /\ Unlimited \/ delivered <= BodyLimit
===============================================================================
