------------------------------- MODULE ReviewLog -------------------------------
(***************************************************************************)
(* What readers of a review are promised: an append-only log of events,    *)
(* and a view that shows for each dimension of an image its latest event,  *)
(* in the order (created_at, id), as soon as that event is in the log.     *)
(***************************************************************************)
EXTENDS ReviewEvents

VARIABLES
  log, \* the events so far, by id
  view \* what is shown for each dimension

logVars == <<log, view>>

Of(d) == {i \in 1..MaxEvents : DimensionOf(log[i].action) = d}

ShowsLatest(d) ==
  \/ Of(d) = {} /\ view[d] = Unrated
  \/ \E i \in Of(d) : /\ view[d] = Version(i, log[i])
                      /\ \A j \in Of(d) \ {i} : Newer(view[d], Version(j, log[j]))

LogInit ==
  /\ log \in [1..MaxEvents -> Event \cup {NoEvent}]
  /\ \A d \in Dimensions : ShowsLatest(d)

\* Nobody ever sees an event without its view, or an event taken back.
Append(i, event) ==
  /\ log[i] = NoEvent
  /\ log' = [log EXCEPT ![i] = event]
  /\ \A d \in Dimensions : ShowsLatest(d)'
  /\ \A d \in Dimensions \ {DimensionOf(event.action)} : view'[d] = view[d]

LogNext == \E i \in 1..MaxEvents, event \in Event : Append(i, event)

LogSpec == LogInit /\ [][LogNext]_logVars
===============================================================================
