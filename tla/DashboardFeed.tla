--------------------------- MODULE DashboardFeed ---------------------------
(***************************************************************************)
(* The live feed of the police dashboard: the server's list of sockets,    *)
(* the broadcasts that iterate over it, and the client that keeps one      *)
(* socket open (lib/ws.ts under the WsManager component of App.tsx).       *)
(*                                                                         *)
(* A broadcast is a coroutine that awaits every send, so between two sends *)
(* sockets join and leave and other broadcasts run; its iterator is an     *)
(* index into the live list.  The client's callbacks do not know whether   *)
(* their socket is still the current one, and its token lives in a module  *)
(* variable that a failed refresh clears without telling the component.    *)
(* A socket is cut at any time, and the two ends notice it independently.  *)
(***************************************************************************)
EXTENDS Naturals, Sequences, FiniteSets

CONSTANTS
    Sockets,      \* sockets of this dashboard and of others, each opened once
    Events,       \* broadcasts: new sightings and hotlist changes
    None,         \* no socket
    MaxCuts,      \* bound on network failures
    MaxLogins,    \* bound on logins on this dashboard
    MaxRefreshes  \* bound on token refreshes of this dashboard

ASSUME SocketAssumption == None \notin Sockets
ASSUME BoundAssumption == MaxCuts \in Nat /\ MaxLogins \in Nat /\ MaxRefreshes \in Nat

VARIABLES
    mounted,      \* the effect of WsManager is active: police is logged in
    token,        \* _accessToken and _refreshToken: whose they are
    refreshing,   \* whose refresh is under way
    refreshFailed,\* a refresh has failed since the last login (history)
    socket,       \* _socket
    intentional,  \* _intentionalClose
    retryTimer,   \* _retryTimer, named by the socket whose onclose set it
    pending,      \* reconnect timers that will still fire
    phase,        \* readyState of every socket at its client
    own,          \* sockets opened by this dashboard
    broken,       \* sockets that carry nothing any more, or were refused
    handler,      \* the dashboard_websocket of every socket
    connections,  \* manager._connections
    broadcast,    \* every event's broadcast
    cuts, logins, refreshes

authVars == <<mounted, token, refreshing, refreshFailed, logins, refreshes>>
clientVars == <<socket, intentional, retryTimer, pending, own>>
serverVars == <<handler, connections, broadcast>>
vars == <<authVars, clientVars, phase, broken, serverVars, cuts>>

-----------------------------------------------------------------------------
Phases == {"none", "connecting", "open", "closing", "closed"}

Holders == {"nobody", "police", "citizen"}

\* Not reached, accepted but not yet listed, listed, returned.
HandlerStages == {"none", "accepted", "listed", "returned"}

\* "sent" are the sends so far in order, "dead" those that raised; "from" are the
\* sockets that were there at the start and have not left, "left" whether any has.
Broadcast == [stage : {"none", "scheduled", "running", "done"}, pos : Nat,
              sent : Seq(Sockets), dead : SUBSET Sockets,
              from : SUBSET Sockets, left : BOOLEAN]

Idle == [stage |-> "none", pos |-> 0, sent |-> <<>>, dead |-> {}, from |-> {}, left |-> FALSE]

Members(seq) == {seq[i] : i \in DOMAIN seq}

Init ==
    /\ mounted = FALSE
    /\ token = "nobody"
    /\ refreshing = "nobody"
    /\ refreshFailed = FALSE
    /\ socket = None
    /\ intentional = TRUE        \* the effect of the first render disconnects
    /\ retryTimer = None
    /\ pending = {}
    /\ phase = [s \in Sockets |-> "none"]
    /\ own = {}
    /\ broken = {}
    /\ handler = [s \in Sockets |-> "none"]
    /\ connections = <<>>
    /\ broadcast = [e \in Events |-> Idle]
    /\ cuts = 0
    /\ logins = 0
    /\ refreshes = 0

-----------------------------------------------------------------------------
(* The client.                                                             *)

Live == {s \in Sockets : phase[s] \in {"connecting", "open"}}

\* socket.close(): a no-op on one that is closing or closed.
Closed(s) == [phase EXCEPT ![s] = IF s \in Live THEN "closing" ELSE @]

\* Mutant: any socket, even a closed one, makes connect a no-op.
connect_once(sock, p, who) ==
    IF sock # None \/ who = "nobody"
    THEN socket' = sock /\ phase' = p /\ UNCHANGED <<intentional, own, broken>>
    ELSE \E s \in Sockets :
        /\ p[s] = "none"
        /\ phase' = [p EXCEPT ![s] = "connecting"]
        /\ socket' = s
        /\ own' = own \cup {s}
        /\ intentional' = FALSE
        /\ broken' = IF who = "police" THEN broken ELSE broken \cup {s}

\* connect, when sock is the current socket, p the phases and who holds the token.
\* The server refuses a token without the role.
connect(sock, p, who) ==
    IF (sock # None /\ p[sock] = "open") \/ who = "nobody"
    THEN socket' = sock /\ phase' = p /\ UNCHANGED <<intentional, own, broken>>
    ELSE \E s \in Sockets :
        /\ p[s] = "none"
        /\ phase' = [p EXCEPT ![s] = "connecting"]
        /\ socket' = s
        /\ own' = own \cup {s}
        /\ intentional' = FALSE
        /\ broken' = IF who = "police" THEN broken ELSE broken \cup {s}

\* disconnect: the timer that is held and the current socket.
Released == IF socket = None THEN phase ELSE Closed(socket)

ClearTimer ==
    /\ pending' = pending \ {retryTimer}
    /\ retryTimer' = None

Login(who) ==
    /\ logins < MaxLogins
    /\ logins' = logins + 1
    /\ token' = who
    /\ refreshFailed' = FALSE
    /\ UNCHANGED <<refreshing, refreshes>>

\* Police logs in: the effect connects.
mount ==
    /\ ~mounted
    /\ Login("police")
    /\ mounted' = TRUE
    /\ connect(socket, phase, "police")
    /\ UNCHANGED <<retryTimer, pending, serverVars, cuts>>

\* Police logs in again, a new user object: the clean-up disconnects, the effect connects.
remount ==
    /\ mounted
    /\ Login("police")
    /\ connect(None, Released, "police")
    /\ ClearTimer
    /\ UNCHANGED <<mounted, serverVars, cuts>>

\* Somebody else logs in: the clean-up and the effect disconnect.
unmount ==
    /\ Login("citizen")
    /\ mounted' = FALSE
    /\ intentional' = TRUE
    /\ socket' = None
    /\ phase' = Released
    /\ ClearTimer
    /\ UNCHANGED <<own, broken, serverVars, cuts>>

\* A request meets a 401 and refreshes the tokens; the user of the effect stays the same.
attemptRefresh ==
    /\ token # "nobody"
    /\ refreshing = "nobody"
    /\ refreshes < MaxRefreshes
    /\ refreshes' = refreshes + 1
    /\ refreshing' = token
    /\ UNCHANGED <<mounted, token, refreshFailed, logins, clientVars, phase, broken, serverVars, cuts>>

\* The answer, or any failure, whoever is logged in by then.
refreshed ==
    /\ refreshing # "nobody"
    /\ refreshing' = "nobody"
    /\ \/ token' = refreshing /\ UNCHANGED refreshFailed
       \/ token' = "nobody" /\ refreshFailed' = TRUE
    /\ UNCHANGED <<mounted, logins, refreshes, clientVars, phase, broken, serverVars, cuts>>

\* Mutant: the timer stays set.
fire_held(t) ==
    /\ t \in pending
    /\ pending' = pending \ {t}
    /\ connect(socket, phase, token)
    /\ UNCHANGED <<authVars, retryTimer, serverVars, cuts>>

\* A reconnect timer fires.
fire(t) ==
    /\ t \in pending
    /\ pending' = pending \ {t}
    /\ retryTimer' = None
    /\ connect(socket, phase, token)
    /\ UNCHANGED <<authVars, serverVars, cuts>>

onopen(s) ==
    /\ phase[s] = "connecting"
    /\ handler[s] # "none" /\ s \notin broken
    /\ phase' = [phase EXCEPT ![s] = "open"]
    /\ UNCHANGED <<authVars, clientVars, broken, serverVars, cuts>>

\* A closed socket, current or not, schedules a reconnect unless the close was meant.
onclose(s) ==
    /\ phase[s] = "closing"
    /\ phase' = [phase EXCEPT ![s] = "closed"]
    /\ IF s \in own /\ ~intentional
       THEN pending' = pending \cup {s} /\ retryTimer' = s
       ELSE UNCHANGED <<pending, retryTimer>>
    /\ UNCHANGED <<authVars, socket, intentional, own, broken, serverVars, cuts>>

\* The browser notices that s is broken; onerror closes the current socket.
onerror(s) ==
    /\ s \in broken \cap Live
    /\ phase' = IF s \in own /\ socket \in Live
                THEN [phase EXCEPT ![s] = "closing", ![socket] = "closing"]
                ELSE [phase EXCEPT ![s] = "closing"]
    /\ UNCHANGED <<authVars, clientVars, broken, serverVars, cuts>>

-----------------------------------------------------------------------------
(* The network and the other dashboards.                                   *)

\* The connection is lost, refused because the access token has expired, or ended by
\* the server: its handler failed, or the process shuts down.
cut(s) ==
    /\ cuts < MaxCuts
    /\ cuts' = cuts + 1
    /\ s \in Live \ broken
    /\ broken' = broken \cup {s}
    /\ UNCHANGED <<authVars, clientVars, phase, serverVars>>

\* The server's close frame arrives: the socket closes without an onerror.
closed_by_server(s) ==
    /\ s \in broken \cap Live
    /\ phase' = Closed(s)
    /\ UNCHANGED <<authVars, clientVars, broken, serverVars, cuts>>

other_opens(s) ==
    /\ phase[s] = "none"
    /\ phase' = [phase EXCEPT ![s] = "connecting"]
    /\ UNCHANGED <<authVars, clientVars, broken, serverVars, cuts>>

other_closes(s) ==
    /\ s \in Live \ own
    /\ phase' = Closed(s)
    /\ UNCHANGED <<authVars, clientVars, broken, serverVars, cuts>>

-----------------------------------------------------------------------------
(* The server.                                                             *)

\* The token is valid; accept is awaited, and other coroutines run before the append.
accept(s) ==
    /\ phase[s] \in {"connecting", "closing"}
    /\ s \notin broken
    /\ handler[s] = "none"
    /\ handler' = [handler EXCEPT ![s] = "accepted"]
    /\ UNCHANGED <<authVars, clientVars, phase, broken, connections, broadcast, cuts>>

\* Mutant: a new socket goes to the head of the list.
list_first(s) ==
    /\ handler[s] = "accepted"
    /\ handler' = [handler EXCEPT ![s] = "listed"]
    /\ connections' = <<s>> \o connections
    /\ UNCHANGED <<authVars, clientVars, phase, broken, broadcast, cuts>>

\* The append of manager.connect, even if the client has left in the meantime.
list(s) ==
    /\ handler[s] = "accepted"
    /\ handler' = [handler EXCEPT ![s] = "listed"]
    /\ connections' = Append(connections, s)
    /\ UNCHANGED <<authVars, clientVars, phase, broken, broadcast, cuts>>

\* The list once the sockets in gone are removed: what is kept keeps its order.
Without(gone) ==
    LET kept == {i \in DOMAIN connections : connections[i] \notin gone}
        orders == {at \in [1..Cardinality(kept) -> kept] :
                      /\ \A i, j \in DOMAIN at : i < j => at[i] < at[j]
                      /\ \A k \in kept : \E i \in DOMAIN at : at[i] = k}
    IN  {[i \in DOMAIN at |-> connections[at[i]]] : at \in orders}

\* The broadcasts that run while the sockets in gone leave.
Leave(gone) ==
    [e \in Events |-> IF broadcast[e].stage = "running"
                      THEN [broadcast[e] EXCEPT !.from = @ \ gone, !.left = TRUE]
                      ELSE broadcast[e]]

\* Mutant: no finally.
stay_listed(s) ==
    /\ handler[s] = "listed"
    /\ phase[s] \in {"closing", "closed"} \/ s \in broken
    /\ handler' = [handler EXCEPT ![s] = "returned"]
    /\ UNCHANGED <<authVars, clientVars, phase, broken, connections, broadcast, cuts>>

\* The receive loop ends and the finally of dashboard_websocket runs.
disconnect(s) ==
    /\ handler[s] = "listed"
    /\ phase[s] \in {"closing", "closed"} \/ s \in broken
    /\ handler' = [handler EXCEPT ![s] = "returned"]
    /\ connections' \in Without({s})
    /\ broadcast' = Leave({s})
    /\ UNCHANGED <<authVars, clientVars, phase, broken, cuts>>

\* schedule, from a worker thread, or the ingest endpoint itself.
push(e) ==
    /\ broadcast[e].stage = "none"
    /\ broadcast' = [broadcast EXCEPT ![e].stage = "scheduled"]
    /\ UNCHANGED <<authVars, clientVars, phase, broken, handler, connections, cuts>>

begin(e) ==
    /\ broadcast[e].stage = "scheduled"
    /\ broadcast' = [broadcast EXCEPT ![e].stage = "running", ![e].from = Members(connections)]
    /\ UNCHANGED <<authVars, clientVars, phase, broken, handler, connections, cuts>>

\* Mutant: a socket whose send raised is removed at once.
send_and_drop(e) ==
    /\ broadcast[e].stage = "running"
    /\ broadcast[e].pos < Len(connections)
    /\ LET s == connections[broadcast[e].pos + 1] IN
       \/ /\ broadcast' = [broadcast EXCEPT ![e].pos = @ + 1, ![e].sent = Append(@, s)]
          /\ UNCHANGED connections
       \/ /\ s \in broken \/ s \notin Live
          /\ broadcast' = [broadcast EXCEPT ![e].pos = @ + 1, ![e].dead = @ \cup {s},
                                            ![e].from = @ \ {s}]
          /\ connections' \in Without({s})
    /\ UNCHANGED <<authVars, clientVars, phase, broken, handler, cuts>>

\* The iterator's next socket; the send raises only if the connection is gone.
send(e) ==
    /\ broadcast[e].stage = "running"
    /\ broadcast[e].pos < Len(connections)
    /\ LET s == connections[broadcast[e].pos + 1] IN
       \/ broadcast' = [broadcast EXCEPT ![e].pos = @ + 1, ![e].sent = Append(@, s)]
       \/ /\ s \in broken \/ s \notin Live
          /\ broadcast' = [broadcast EXCEPT ![e].pos = @ + 1, ![e].dead = @ \cup {s}]
    /\ UNCHANGED <<authVars, clientVars, phase, broken, handler, connections, cuts>>

\* The iterator is exhausted; the sockets whose send raised are removed.
end(e) ==
    /\ broadcast[e].stage = "running"
    /\ broadcast[e].pos >= Len(connections)
    /\ LET gone == broadcast[e].dead \cap Members(connections)
           ended == [broadcast[e] EXCEPT !.stage = "done"] IN
       \/ /\ gone = {}
          /\ broadcast' = [broadcast EXCEPT ![e] = ended]
          /\ UNCHANGED connections
       \/ /\ gone # {}
          /\ broadcast' = [Leave(gone) EXCEPT ![e] = ended]
          /\ connections' \in Without(gone)
    /\ UNCHANGED <<authVars, clientVars, phase, broken, handler, cuts>>

-----------------------------------------------------------------------------
Client ==
    \/ mount \/ remount \/ unmount \/ attemptRefresh \/ refreshed
    \/ \E s \in Sockets : fire(s) \/ onopen(s) \/ onclose(s) \/ onerror(s)

Surroundings == \E s \in Sockets : cut(s) \/ closed_by_server(s) \/ other_opens(s) \/ other_closes(s)

Server ==
    \/ \E s \in Sockets : accept(s) \/ list(s) \/ disconnect(s)
    \/ \E e \in Events : push(e) \/ begin(e) \/ send(e) \/ end(e)

Next == Client \/ Surroundings \/ Server

Spec == Init /\ [][Next]_vars

-----------------------------------------------------------------------------
(* Types.                                                                  *)

TypeOK ==
    /\ mounted \in BOOLEAN /\ intentional \in BOOLEAN /\ refreshFailed \in BOOLEAN
    /\ token \in Holders /\ refreshing \in Holders
    /\ socket \in Sockets \cup {None}
    /\ retryTimer \in pending \cup {None}
    /\ pending \subseteq Sockets
    /\ phase \in [Sockets -> Phases]
    /\ own \subseteq Sockets /\ broken \subseteq Sockets
    /\ handler \in [Sockets -> HandlerStages]
    /\ connections \in Seq(Sockets)
    /\ broadcast \in [Events -> Broadcast]
    /\ cuts \in 0..MaxCuts /\ logins \in 0..MaxLogins /\ refreshes \in 0..MaxRefreshes

(* Safety.                                                                 *)

\* A broadcast never sends to a socket twice, whoever joins and leaves meanwhile.
SentOnce ==
    \A e \in Events : \A i, j \in DOMAIN broadcast[e].sent :
        broadcast[e].sent[i] = broadcast[e].sent[j] => i = j

\* A socket that stays listed from the start to the end of a broadcast misses it
\* only if another one leaves in between (the list shifts under the iterator).
MissedOnlyWhenSomeoneLeft ==
    \A e \in Events :
        (broadcast[e].stage = "done" /\ ~broadcast[e].left)
        => broadcast[e].from \subseteq Members(broadcast[e].sent) \cup broadcast[e].dead

\* The list holds every socket once, only sockets whose handler runs, and every open
\* one that works, from the moment its handler goes on after accept.
ListMatchesSockets ==
    /\ \A i, j \in DOMAIN connections : connections[i] = connections[j] => i = j
    /\ \A s \in Members(connections) : handler[s] = "listed"
    /\ \A s \in Sockets \ broken :
          phase[s] = "open" => s \in Members(connections) \/ handler[s] = "accepted"

\* It has a socket on its way up or down, or a timer that will open one.
Reconnects ==
    \/ pending # {}
    \/ \E s \in own : phase[s] \in {"connecting", "open", "closing"}

\* A dashboard with police logged in stops trying only after a refresh has failed.
StrandedOnlyByRefresh == mounted => refreshFailed \/ Reconnects

-----------------------------------------------------------------------------
(* What the documents say and the client does not keep.                    *)

\* lib/ws.ts: "automatically reconnects on disconnect with exponential backoff".
AlwaysReconnects == mounted => Reconnects
=============================================================================
