----------------------------- MODULE Notifications -----------------------------
(***************************************************************************)
(* The webhooks of one gallery owner: the configuration that concurrent    *)
(* requests save, and the deliveries of a completed review, one POST and   *)
(* one committed row per configuration.                                    *)
(*                                                                         *)
(* Data abstracted away.  Every configuration subscribes to the event; a   *)
(* host is a number of addresses, tried in order.  The e-mail channel, and *)
(* the rules that tell a public address, are left out.                     *)
(***************************************************************************)
EXTENDS Integers, FiniteSets

CONSTANTS
  Savers,     \* concurrent requests that save the configuration
  Configs,    \* ids of notification_configs
  NoConfig,   \* no configuration
  Addresses   \* addresses the webhook's host resolves to

ASSUME NotificationAssumption ==
  NoConfig \notin Configs /\ Addresses \in Nat \ {0}

VARIABLES
  configs,   \* notification_configs of the owner that have a webhook
  owner,     \* whether the owner's account exists
  saver,     \* the saving requests
  sender,    \* send_notification
  posts,     \* POSTs that reached the receiver, per configuration
  accepted,  \* configurations whose receiver answered with success
  deliveries \* committed notification_deliveries, by configuration

notificationVars == <<configs, owner, saver, sender, posts, accepted, deliveries>>

Unsent == [at |-> "idle", todo |-> {}, config |-> NoConfig, address |-> 0, outcome |-> "pending"]

NotificationTypeOK ==
  /\ configs \subseteq Configs /\ owner \in BOOLEAN
  /\ saver \in [Savers -> [at : {"idle", "found", "done", "error"}, found : Configs \cup {NoConfig}]]
  /\ sender \in [at : {"idle", "next", "connecting", "asked", "ended", "done", "error"},
                 todo : SUBSET Configs, config : Configs \cup {NoConfig},
                 address : 0..Addresses, outcome : {"pending", "sent", "failed"}]
  /\ posts \in [Configs -> Nat] /\ accepted \subseteq Configs
  /\ deliveries \in [Configs -> {"none", "pending", "sent", "failed"}]

NotificationInit ==
  /\ configs = {} /\ owner = TRUE
  /\ saver = [s \in Savers |-> [at |-> "idle", found |-> NoConfig]]
  /\ sender = Unsent
  /\ posts = [c \in Configs |-> 0] /\ accepted = {}
  /\ deliveries = [c \in Configs |-> "none"]

-----------------------------------------------------------------------------
(* upsert_notification_config *)

SaverStep(s, from, record) ==
  /\ saver[s].at = from
  /\ saver' = [saver EXCEPT ![s] = record]
  /\ UNCHANGED <<owner, sender, posts, accepted, deliveries>>

\* scalar_one_or_none raises when two requests have each added a row.
ConfigLookedUp(s) ==
  /\ owner
  /\ IF Cardinality(configs) > 1
       THEN SaverStep(s, "idle", [at |-> "error", found |-> NoConfig])
       ELSE \E c \in IF configs = {} THEN {NoConfig} ELSE configs : SaverStep(s, "idle", [at |-> "found", found |-> c])
  /\ UNCHANGED configs

\* A row was found and is rewritten, or one is added; nothing is saved for an
\* account that has been deleted since.
ConfigSaved(s) ==
  /\ owner
  /\ IF saver[s].found # NoConfig
       THEN UNCHANGED configs
       ELSE \E c \in Configs \ configs : configs' = configs \cup {c}
  /\ SaverStep(s, "found", [saver[s] EXCEPT !.at = "done"])

SaveFails(s) ==
  /\ ~ owner
  /\ SaverStep(s, "found", [saver[s] EXCEPT !.at = "error"])
  /\ UNCHANGED configs

\* delete_user cascades to the configurations and their deliveries.
OwnerDeleted ==
  /\ owner
  /\ owner' = FALSE /\ configs' = {}
  /\ deliveries' = [c \in Configs |-> "none"]
  /\ UNCHANGED <<saver, sender, posts, accepted>>

-----------------------------------------------------------------------------
(* send_notification, _send_webhook and post_webhook *)

SenderStep(from, record) ==
  /\ sender.at = from
  /\ sender' = record
  /\ UNCHANGED <<configs, owner, saver>>

NotificationStarts ==
  /\ owner
  /\ SenderStep("idle", [Unsent EXCEPT !.at = "next", !.todo = configs])
  /\ UNCHANGED <<posts, accepted, deliveries>>

DeliveryStarts(c) ==
  /\ c \in sender.todo
  /\ SenderStep("next", [Unsent EXCEPT !.at = "connecting", !.todo = sender.todo \ {c}, !.config = c, !.address = 1])
  /\ UNCHANGED <<posts, accepted, deliveries>>

Outcome(status) == [sender EXCEPT !.at = "ended", !.outcome = status]

\* Only an address that could not be connected to is followed by the next one.
ConnectFails ==
  /\ SenderStep("connecting", IF sender.address < Addresses THEN [sender EXCEPT !.address = @ + 1] ELSE Outcome("failed"))
  /\ UNCHANGED <<posts, accepted, deliveries>>

PostArrives ==
  /\ SenderStep("connecting", [sender EXCEPT !.at = "asked"])
  /\ posts' = [posts EXCEPT ![sender.config] = @ + 1]
  /\ UNCHANGED <<accepted, deliveries>>

PostAccepted ==
  /\ SenderStep("asked", Outcome("sent"))
  /\ accepted' = accepted \cup {sender.config}
  /\ UNCHANGED <<posts, deliveries>>

PostRejected ==
  /\ SenderStep("asked", Outcome("failed"))
  /\ UNCHANGED <<posts, accepted, deliveries>>

(* Defect: every failure of the request, not only of the connection, goes on
   to the next address. *)
AnswerLostRetried ==
  /\ SenderStep("asked", IF sender.address < Addresses
                           THEN [sender EXCEPT !.at = "connecting", !.address = @ + 1] ELSE Outcome("failed"))
  /\ accepted' = accepted \cup {sender.config}
  /\ UNCHANGED <<posts, deliveries>>

\* The answer is lost, or late: the receiver may have accepted the POST.
AnswerLost ==
  /\ SenderStep("asked", Outcome("failed"))
  /\ accepted' = accepted \cup {sender.config}
  /\ UNCHANGED <<posts, deliveries>>

\* Resolution fails, an address is not public, or ten seconds have passed.
DeliveryTimesOut ==
  /\ SenderStep("connecting", Outcome("failed"))
  /\ UNCHANGED <<posts, accepted, deliveries>>

Recorded == [deliveries EXCEPT ![sender.config] = sender.outcome]

DeliveryRecorded ==
  /\ sender.config \in configs
  /\ SenderStep("ended", [Unsent EXCEPT !.at = "next", !.todo = sender.todo])
  /\ deliveries' = Recorded
  /\ UNCHANGED <<posts, accepted>>

\* The configuration is gone: the commit fails and ends the notification.
DeliveryLost ==
  /\ sender.config \notin configs
  /\ SenderStep("ended", [Unsent EXCEPT !.at = "error"])
  /\ UNCHANGED <<posts, accepted, deliveries>>

NotificationEnds ==
  /\ sender.todo = {}
  /\ SenderStep("next", [Unsent EXCEPT !.at = "done"])
  /\ UNCHANGED <<posts, accepted, deliveries>>

\* The request is cancelled or its process dies: the open transaction with the
\* pending row is rolled back.
SenderDies ==
  /\ sender.at \notin {"idle", "done", "error"}
  /\ SenderStep(sender.at, [Unsent EXCEPT !.at = "error"])
  /\ UNCHANGED <<posts, accepted, deliveries>>

-----------------------------------------------------------------------------
NotificationNext ==
  \/ \E s \in Savers : ConfigLookedUp(s) \/ ConfigSaved(s) \/ SaveFails(s)
  \/ OwnerDeleted \/ NotificationStarts
  \/ \E c \in Configs : DeliveryStarts(c)
  \/ ConnectFails \/ PostArrives \/ PostAccepted \/ PostRejected \/ AnswerLost \/ DeliveryTimesOut
  \/ DeliveryRecorded \/ DeliveryLost \/ NotificationEnds \/ SenderDies

NotificationSpec == NotificationInit /\ [][NotificationNext]_notificationVars

-----------------------------------------------------------------------------
(* A receiver is asked at most once per delivery, whichever addresses fail *)
(* and whatever becomes of the answer, and no row claims a success that    *)
(* the receiver did not give (post_webhook, _send_webhook).                *)
DeliveredAtMostOnce ==
  \A c \in Configs :
    /\ posts[c] <= 1
    /\ deliveries[c] = "sent" => c \in accepted
    /\ deliveries[c] # "none" => c \in configs
===============================================================================
