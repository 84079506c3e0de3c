----------------------------- MODULE LiveUpdates -----------------------------
(***************************************************************************)
(* The live view of a browser: handlers of the API server publish events   *)
(* on the bus (events/bus.py), a task per WebSocket sends what is in its   *)
(* subscription (routers/ws.py), the hook useWebSocket of the web          *)
(* interface keeps a connection and reconnects, and AppStateContext keeps  *)
(* what the last event of each topic said: the number of pending           *)
(* proposals, or the status of a chat task.                                *)
(*                                                                         *)
(* Each login gives the hook a new URL, and with it a new closure          *)
(* `connect'. A closure has a socket, or a timer that will make it one, or *)
(* neither; it is identified with its login here. The refs of the hook are *)
(* shared by all closures. A handler saves and publishes in one piece on   *)
(* the event loop, and put never waits, as queues are unbounded.           *)
(***************************************************************************)
EXTENDS Naturals, Sequences

CONSTANTS
  Topics,      \* what events are about
  None,        \* no URL: nobody is logged in
  MaxLogins,   \* bound: logins
  MaxChanges,  \* bound: events published of each topic
  MaxBreaks    \* bound: connections that fail or break

ASSUME LiveBoundsAssumption == MaxLogins \in Nat \ {0} /\ MaxChanges \in Nat /\ MaxBreaks \in Nat

Logins == 1..MaxLogins
ASSUME LiveNoneAssumption == None \notin Logins

VARIABLES
  version,    \* the state of each topic at the server, as the number of its changes
  hook,       \* the url, and the closures that socketRef and reconnectTimerRef point to
  closure,    \* the socket, or the timer, of each closure
  logins,     \* logins so far
  expired,    \* the logins whose token is no longer accepted
  view,       \* the version of each topic on the page, 0 before any event
  connected,  \* isWsConnected
  breaks,     \* connections that failed or broke so far
  source      \* (history) the closure whose socket delivered the version in view

liveVars == <<version, hook, closure, logins, expired, view, connected, breaks, source>>
page == <<view, connected, source>>

\* A closure whose socket has no session at the server. wire is the subscription's
\* queue and what is on its way; told (history) is what the session has had events of.
Alone(at) == [at |-> at, session |-> "none", wire |-> <<>>, told |-> {}]

LiveInit ==
  /\ version = [topic \in Topics |-> 0]
  /\ hook = [url |-> None, socket |-> None, timer |-> None]
  /\ closure = [u \in Logins |-> Alone("unused")]
  /\ logins = 0
  /\ expired = {}
  /\ view = [topic \in Topics |-> 0]
  /\ connected = FALSE
  /\ breaks = 0
  /\ source = [topic \in Topics |-> None]

-----------------------------------------------------------------------------
(* The server.                                                             *)

\* Mutant: the count is taken before the change is saved.
PublishOld(topic) ==
  /\ version[topic] < MaxChanges
  /\ version' = [version EXCEPT ![topic] = @ + 1]
  /\ closure' = [u \in Logins |->
       IF closure[u].session = "subscribed"
       THEN [closure[u] EXCEPT !.told = @ \union {topic},
                               !.wire = Append(@, [topic |-> topic, version |-> version[topic]])]
       ELSE closure[u]]
  /\ UNCHANGED <<hook, logins, expired, page, breaks>>

(* A handler changes the state and publishes it to all subscriptions. *)
Publish(topic) ==
  /\ version[topic] < MaxChanges
  /\ version' = [version EXCEPT ![topic] = @ + 1]
  /\ closure' = [u \in Logins |->
       IF closure[u].session = "subscribed"
       THEN [closure[u] EXCEPT !.told = @ \union {topic},
                               !.wire = Append(@, [topic |-> topic, version |-> version'[topic]])]
       ELSE closure[u]]
  /\ UNCHANGED <<hook, logins, expired, page, breaks>>

(* ws_events up to accept: the token is good. *)
Accept(u) ==
  /\ closure[u].at = "connecting" /\ closure[u].session = "none" /\ u \notin expired
  /\ closure' = [closure EXCEPT ![u].session = "accepted"]
  /\ UNCHANGED <<version, hook, logins, expired, page, breaks>>

(* bus.subscribe, after the accept: events in between are not seen. *)
Subscribe(u) ==
  /\ closure[u].session = "accepted"
  /\ closure' = [closure EXCEPT ![u].session = "subscribed"]
  /\ UNCHANGED <<version, hook, logins, expired, page, breaks>>

(* The lifetime of a token ends. Only new connections are checked. *)
ExpireToken(u) ==
  /\ u \in 1..logins /\ u \notin expired
  /\ expired' = expired \union {u}
  /\ UNCHANGED <<version, hook, closure, logins, page, breaks>>

-----------------------------------------------------------------------------
(* The effect of useWebSocket. React runs the cleanup of the old effect and *)
(* the new effect in one commit: isUnmountedRef is false again before any   *)
(* other callback can read it, even if the new URL is null.                 *)

\* The closures after the cleanup of the effect for hook.url.
Cleaned ==
  [u \in Logins |->
     IF hook.url = None THEN closure[u]
     ELSE IF u = hook.socket /\ closure[u].at \in {"connecting", "open"} THEN Alone("closing")
     ELSE IF u = hook.timer /\ closure[u].at = "waiting" THEN Alone("ended")
     ELSE closure[u]]

(* setToken(token): an effect for a new URL, which connects. *)
Login ==
  /\ logins < MaxLogins
  /\ LET u == logins + 1
     IN  /\ logins' = u
         /\ hook' = [hook EXCEPT !.url = u, !.socket = u]
         /\ closure' = [Cleaned EXCEPT ![u] = Alone("connecting")]
  /\ UNCHANGED <<version, expired, page, breaks>>

(* setToken(null): an effect that does nothing. *)
Logout ==
  /\ hook.url # None
  /\ hook' = [hook EXCEPT !.url = None]
  /\ closure' = Cleaned
  /\ UNCHANGED <<version, logins, expired, page, breaks>>

-----------------------------------------------------------------------------
(* The callbacks of a closure.                                             *)

(* onopen *)
Opened(u) ==
  /\ closure[u].at = "connecting" /\ closure[u].session # "none"
  /\ closure' = [closure EXCEPT ![u].at = "open"]
  /\ connected' = TRUE
  /\ UNCHANGED <<version, hook, logins, expired, view, source, breaks>>

(* onmessage: the view of a topic is what its last event says. *)
Deliver(u) ==
  /\ closure[u].at = "open" /\ closure[u].wire # <<>>
  /\ LET event == Head(closure[u].wire)
     IN  /\ view' = [view EXCEPT ![event.topic] = event.version]
         /\ source' = [source EXCEPT ![event.topic] = u]
  /\ closure' = [closure EXCEPT ![u].wire = Tail(@)]
  /\ UNCHANGED <<version, hook, logins, expired, connected, breaks>>

\* Mutants: the closure does not retry before it was open once; the page is not told.
CloseWithoutRetry(u) ==
  /\ connected' = FALSE
  /\ closure' = [closure EXCEPT ![u] = Alone(IF @.at = "connecting" THEN "ended" ELSE "waiting")]
  /\ hook' = [hook EXCEPT !.timer = u]
  /\ UNCHANGED <<version, logins, expired, view, source>>
CloseSilently(u) ==
  /\ closure' = [closure EXCEPT ![u] = Alone("waiting")]
  /\ hook' = [hook EXCEPT !.timer = u]
  /\ UNCHANGED <<version, logins, expired, page>>

(* onclose: the page is told, and a timer is set to connect again. *)
Close(u) ==
  /\ connected' = FALSE
  /\ closure' = [closure EXCEPT ![u] = Alone("waiting")]
  /\ hook' = [hook EXCEPT !.timer = u]
  /\ UNCHANGED <<version, logins, expired, view, source>>

(* The close that the cleanup has begun comes to its end. *)
Closed(u) ==
  /\ closure[u].at = "closing"
  /\ Close(u)
  /\ UNCHANGED breaks

(* The server closes the connection with code 1008. *)
Rejected(u) ==
  /\ closure[u].at = "connecting" /\ closure[u].session = "none" /\ u \in expired
  /\ Close(u)
  /\ UNCHANGED breaks

(* The server is down, or the connection breaks. *)
Broken(u) ==
  /\ closure[u].at \in {"connecting", "open"} /\ breaks < MaxBreaks
  /\ Close(u)
  /\ breaks' = breaks + 1

(* The timer calls connect. *)
Retry(u) ==
  /\ closure[u].at = "waiting"
  /\ closure' = [closure EXCEPT ![u] = Alone("connecting")]
  /\ hook' = [hook EXCEPT !.socket = u]
  /\ UNCHANGED <<version, logins, expired, page, breaks>>

-----------------------------------------------------------------------------
\* What the server and the browser do without being asked.
Proceed(u) ==
  \/ Accept(u)
  \/ Subscribe(u)
  \/ Opened(u)
  \/ Deliver(u)
  \/ Closed(u)
  \/ Rejected(u)
  \/ Retry(u)

LiveNext ==
  \/ \E topic \in Topics : Publish(topic)
  \/ Login
  \/ Logout
  \/ \E u \in Logins : ExpireToken(u) \/ Broken(u) \/ Proceed(u)

LiveSpec == LiveInit /\ [][LiveNext]_liveVars
LiveFairSpec == LiveSpec /\ \A u \in Logins : WF_liveVars(Proceed(u))
-----------------------------------------------------------------------------
(* Properties.                                                             *)

Event == [topic : Topics, version : 1..MaxChanges]

(* The types of all variables, and no session outlives its socket. *)
LiveTypeOK ==
  /\ version \in [Topics -> 0..MaxChanges]
  /\ hook \in [url : Logins \union {None}, socket : Logins \union {None},
               timer : Logins \union {None}]
  /\ closure \in [Logins ->
       [at : {"unused", "connecting", "open", "closing", "waiting", "ended"},
        session : {"none", "accepted", "subscribed"}, wire : Seq(Event), told : SUBSET Topics]]
  /\ \A u \in Logins :
       /\ closure[u].session # "none" => closure[u].at \in {"connecting", "open"}
       /\ closure[u].session # "subscribed" => closure[u].told = {} /\ closure[u].wire = <<>>
  /\ logins \in 0..MaxLogins
  /\ expired \subseteq Logins
  /\ view \in [Topics -> 0..MaxChanges]
  /\ connected \in BOOLEAN
  /\ breaks \in 0..MaxBreaks
  /\ source \in [Topics -> Logins \union {None}]

\* The positions of the events of a topic that are on their way.
News(u, topic) == {i \in DOMAIN closure[u].wire : closure[u].wire[i].topic = topic}

(* A socket that has been told of a topic leaves the page, once it has
   delivered everything, with the state of the server; what the page showed
   before it was told may be older, and so may what another socket delivers
   (ws.py, ws_events; AppStateContext.tsx, onMessage). *)
LastWordIsCurrent ==
  \A u \in Logins, topic \in Topics :
    topic \in closure[u].told =>
      /\ \A i \in News(u, topic) :
           (\A j \in News(u, topic) : j =< i) => closure[u].wire[i].version = version[topic]
      /\ News(u, topic) = {} /\ source[topic] = u => view[topic] = version[topic]

(* The page says `connected' only while a socket is open or being closed
   (useWebSocket.ts, onopen and onclose). *)
ConnectedIsOpen == connected => \E u \in Logins : closure[u].at \in {"open", "closing"}

(* While somebody is logged in and the token is good, the connection comes
   back whatever has happened before (useWebSocket.ts, onclose). *)
Reconnects ==
  \A u \in Logins :
    <>[](hook.url = u /\ u \notin expired) => <>[](closure[u].at = "open")
=============================================================================
