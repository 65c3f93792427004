------------------------ MODULE DashboardFeedProofs ------------------------
(***************************************************************************)
(* Theorems about DashboardFeed for any number of sockets, events, logins,  *)
(* refreshes and network failures.                                         *)
(*                                                                         *)
(* A broadcast is judged by what is in front of its iterator and what is    *)
(* behind it: removals only move sockets towards the front of the list, so   *)
(* a socket that was sent to is never met again (SendInv).  The list is      *)
(* judged by the handlers and the ends of the connections (HandlerInv), the  *)
(* client by the socket it holds (ClientInv).                              *)
(***************************************************************************)
EXTENDS DashboardFeed, FiniteSetTheorems, NaturalsInduction, WellFoundedInduction, TLAPS

-----------------------------------------------------------------------------
(* The inductive invariant.                                                *)

\* The list holds every socket once, and only those whose handler runs.
Distinct(seq) == \A i, j \in DOMAIN seq : seq[i] = seq[j] => i = j

ListInv == Distinct(connections) /\ \A s \in Members(connections) : handler[s] = "listed"

\* One of the two ends knows that the connection is over, or nothing passes any more.
Gone(s) == s \in broken \/ phase[s] \in {"closing", "closed"}

\* A socket leaves the list, or a send to it raises, only when it is gone.
HandlerInv ==
    /\ \A s \in Sockets :
          /\ handler[s] # "none" => phase[s] # "none"
          /\ phase[s] = "open" => handler[s] # "none"
          /\ handler[s] = "listed" => s \in Members(connections) \/ Gone(s)
          /\ handler[s] = "returned" => Gone(s)
    /\ \A e \in Events : \A s \in broadcast[e].dead : Gone(s)

\* What the iterator of e has not reached.
ToCome(e) == {connections[i] : i \in {k \in DOMAIN connections : k > broadcast[e].pos}}

\* What was sent is behind the iterator, and what was there at the start is behind it or
\* in front of it unless a socket has left.
SendInv ==
    \A e \in Events :
        /\ broadcast[e].stage \in {"none", "scheduled"} =>
              broadcast[e].pos = 0 /\ broadcast[e].sent = <<>> /\ ~broadcast[e].left
        /\ Distinct(broadcast[e].sent)
        /\ \A s \in Members(broadcast[e].sent) : handler[s] \in {"listed", "returned"}
        /\ broadcast[e].stage = "running" => Members(broadcast[e].sent) \cap ToCome(e) = {}
        /\ broadcast[e].stage = "running" /\ ~broadcast[e].left =>
              broadcast[e].from \subseteq Members(broadcast[e].sent) \cup broadcast[e].dead \cup ToCome(e)

\* The client that holds a socket opened it and does not mean to close it; the effect of
\* police always leaves one, and the token unless a refresh has failed.
ClientInv ==
    /\ socket # None => ~intentional /\ socket \in own
    /\ mounted => socket # None
    /\ mounted /\ token = "nobody" => refreshFailed

FeedIInv ==
    /\ TypeOK
    /\ ListInv
    /\ HandlerInv
    /\ SendInv
    /\ MissedOnlyWhenSomeoneLeft
    /\ ClientInv
    /\ StrandedOnlyByRefresh

-----------------------------------------------------------------------------
(* What the steps rest on.                                                 *)

\* An enumeration in increasing order runs ahead of its index.
LEMMA IncreasingRunsAhead ==
    ASSUME NEW n \in Nat, NEW at, \A i \in 1..n : at[i] \in Nat \ {0},
           \A i, j \in 1..n : i < j => at[i] < at[j]
    PROVE  \A i \in 1..n : at[i] >= i
  <1> DEFINE more == {pair \in Nat \X Nat : pair[1] < pair[2]}
             behind == {i \in 1..n : at[i] < i}
  <1> SUFFICES ASSUME behind # {} PROVE FALSE
    OBVIOUS
  <1>1. IsWellFoundedOn(more, Nat)
    BY NatLessThanWellFounded DEF OpToRel
  <1>2. PICK i \in behind : \A j \in behind : ~(<<j, i>> \in more)
    <2>1. behind \subseteq Nat
      OBVIOUS
    <2> HIDE DEF behind, more
    <2> QED
      BY <1>1, <2>1, WFMin
  <1>3. i # 1 /\ i \in 1..n /\ at[i] < i
    OBVIOUS
  <1>4. i - 1 \in 1..n /\ at[i - 1] < at[i]
    BY <1>3
  <1>5. i - 1 \in behind
    BY <1>3, <1>4
  <1>6. <<i - 1, i>> \in Nat \X Nat /\ <<i - 1, i>>[1] < <<i - 1, i>>[2]
    BY <1>3
  <1>7. <<i - 1, i>> \in more
    BY <1>6, Zenon
  <1> QED
    BY <1>2, <1>5, <1>7

\* What is left of a list after removals: the rest of its sockets, each once, and none
\* further back than it was.
LEMMA RemovalMovesForward ==
    ASSUME TypeOK, NEW gone, NEW rest \in Without(gone)
    PROVE  /\ rest \in Seq(Sockets)
           /\ Members(rest) = Members(connections) \ gone
           /\ Distinct(connections) => Distinct(rest)
           /\ \A i \in DOMAIN rest : \E k \in DOMAIN connections :
                 k >= i /\ rest[i] = connections[k]
  <1> DEFINE kept == {i \in DOMAIN connections : connections[i] \notin gone}
             n == Cardinality(kept)
  <1>1. connections \in Seq(Sockets) /\ DOMAIN connections = 1..Len(connections) /\ Len(connections) \in Nat
    BY DEF TypeOK
  <1>2. n \in Nat
    <2>1. IsFiniteSet(1..Len(connections))
      BY <1>1, FS_Interval
    <2>2. kept \in SUBSET (1..Len(connections))
      BY <1>1
    <2> HIDE DEF kept
    <2> QED
      BY <2>1, <2>2, FS_Subset, FS_CardinalityType
  <1>3. PICK at \in [1..n -> kept] :
            /\ rest = [i \in DOMAIN at |-> connections[at[i]]]
            /\ \A i, j \in DOMAIN at : i < j => at[i] < at[j]
            /\ \A k \in kept : \E i \in DOMAIN at : at[i] = k
    BY DEF Without
  <1> HIDE DEF n
  <1>4. DOMAIN at = 1..n /\ DOMAIN rest = 1..n /\ \A i \in 1..n : at[i] \in kept /\ rest[i] = connections[at[i]]
    BY <1>3
  <1>5. \A i \in 1..n : at[i] >= i
    <2>1. \A i \in 1..n : at[i] \in Nat \ {0}
      BY <1>1, <1>4
    <2>2. \A i, j \in 1..n : i < j => at[i] < at[j]
      BY <1>3, <1>4
    <2> QED
      BY <1>2, <2>1, <2>2, IncreasingRunsAhead
  <1>6. rest \in Seq(Sockets)
    <2>1. \A i \in 1..n : rest[i] \in Sockets
      BY <1>1, <1>4
    <2>2. rest \in [1..n -> Sockets]
      BY <1>3, <1>4, <2>1
    <2> QED
      BY <1>2, <2>2
  <1>7. Members(rest) = Members(connections) \ gone
    BY <1>3, <1>4 DEF Members
  <1>8. Distinct(connections) => Distinct(rest)
    BY <1>1, <1>2, <1>3, <1>4 DEF Distinct
  <1>9. \A i \in DOMAIN rest : \E k \in DOMAIN connections : k >= i /\ rest[i] = connections[k]
    BY <1>4, <1>5
  <1> QED
    BY <1>6, <1>7, <1>8, <1>9

\* What is appended joins the members, and a newcomer appears once.
LEMMA AppendedJoins ==
    ASSUME NEW seq \in Seq(Sockets), NEW s \in Sockets
    PROVE  /\ Append(seq, s) \in Seq(Sockets)
           /\ Members(Append(seq, s)) = Members(seq) \cup {s}
           /\ Distinct(seq) /\ s \notin Members(seq) => Distinct(Append(seq, s))
  <1>1. /\ Append(seq, s) \in Seq(Sockets) /\ Len(seq) \in Nat
        /\ DOMAIN seq = 1..Len(seq) /\ DOMAIN Append(seq, s) = 1..(Len(seq) + 1)
        /\ \A i \in 1..Len(seq) : Append(seq, s)[i] = seq[i]
        /\ Append(seq, s)[Len(seq) + 1] = s
    OBVIOUS
  <1> DEFINE longer == Append(seq, s)
  <1> HIDE DEF longer
  <1>2. Members(longer) = Members(seq) \cup {s}
    BY <1>1 DEF Members, longer
  <1>3. Distinct(seq) /\ s \notin Members(seq) => Distinct(longer)
    BY <1>1 DEF Members, Distinct, longer
  <1> QED
    BY <1>1, <1>2, <1>3 DEF longer

\* What a step of a client or of the network does to the sockets: they age, and one opens
\* only after the server has accepted it.
Ages(p, q) ==
    /\ q \in [Sockets -> Phases]
    /\ \A s \in Sockets :
          \/ q[s] = p[s]
          \/ q[s] = "connecting" /\ p[s] = "none"
          \/ q[s] = "open" /\ p[s] = "connecting" /\ handler[s] # "none"
          \/ q[s] \in {"closing", "closed"} /\ p[s] # "none"

\* Such a step keeps everything that is said of the server.
LEMMA ClientsOnlyAge ==
    ASSUME FeedIInv, UNCHANGED serverVars, Ages(phase, phase'), broken \subseteq broken'
    PROVE  ListInv' /\ HandlerInv' /\ SendInv' /\ MissedOnlyWhenSomeoneLeft'
  <1>1. ListInv'
    BY DEF FeedIInv, ListInv, Distinct, Members, serverVars
  <1>2. SendInv'
    BY DEF FeedIInv, SendInv, Distinct, Members, ToCome, serverVars
  <1>3. MissedOnlyWhenSomeoneLeft'
    BY DEF FeedIInv, MissedOnlyWhenSomeoneLeft, Members, serverVars
  <1>4. HandlerInv'
    <2>1. \A s \in Sockets : phase[s] # "none" /\ Gone(s) => Gone(s)'
      BY DEF Ages, Gone
    <2>2. \A s \in Sockets : phase[s] # "none" => phase'[s] # "none"
      BY DEF Ages
    <2>3. \A s \in Sockets : phase'[s] = "open" => phase[s] = "open" \/ handler[s] # "none"
      BY DEF Ages
    <2>4. \A s \in Sockets : Gone(s) => Gone(s)'
      BY DEF Ages, Gone
    <2>5. \A e \in Events : broadcast[e].dead \subseteq Sockets
      BY DEF FeedIInv, TypeOK, Broadcast
    <2>6. handler' = handler /\ connections' = connections /\ broadcast' = broadcast
      BY DEF serverVars
    <2> QED
      BY <2>2, <2>3, <2>4, <2>5, <2>6 DEF FeedIInv, HandlerInv, Members
  <1> QED
    BY <1>1, <1>2, <1>3, <1>4

\* A socket that is live when it is told to close is closing, and the others stay.
LEMMA ClosingAges ==
    ASSUME TypeOK, NEW s \in Sockets
    PROVE  Ages(phase, Closed(s))
  BY DEF TypeOK, Ages, Closed, Live, Phases

\* What connect leaves: the socket it found open, a new one that the client means to keep,
\* or, without a token, what it found.
LEMMA ConnectOpens ==
    ASSUME TypeOK, NEW sock \in Sockets \cup {None}, NEW p, Ages(phase, p), NEW who \in Holders,
           connect(sock, p, who), ClientInv, sock \in {socket, None}
    PROVE  /\ Ages(phase, phase') /\ broken \subseteq broken'
           /\ socket' \in Sockets \cup {None} /\ intentional' \in BOOLEAN
           /\ own \subseteq own' /\ own' \subseteq Sockets /\ broken' \subseteq Sockets
           /\ socket' # None => ~intentional' /\ socket' \in own'
           /\ sock # None => socket' # None
           /\ who = "nobody" => phase' = p
           /\ who # "nobody" => /\ socket' # None /\ socket' \in own'
                               /\ phase'[socket'] \in {"connecting", "open"}
  <1> USE SocketAssumption
  <1>1. CASE (sock # None /\ p[sock] = "open") \/ who = "nobody"
    BY <1>1 DEF connect, TypeOK, ClientInv
  <1>2. CASE ~((sock # None /\ p[sock] = "open") \/ who = "nobody")
    <2>1. PICK s \in Sockets :
              /\ p[s] = "none"
              /\ phase' = [p EXCEPT ![s] = "connecting"]
              /\ socket' = s
              /\ own' = own \cup {s}
              /\ intentional' = FALSE
              /\ broken' = IF who = "police" THEN broken ELSE broken \cup {s}
      BY <1>2 DEF connect
    <2>2. phase[s] = "none"
      BY <2>1 DEF Ages, TypeOK
    <2>3. Ages(phase, phase') /\ phase'[s] = "connecting"
      BY <2>1, <2>2 DEF Ages, Phases
    <2> QED
      BY <1>2, <2>1, <2>3 DEF TypeOK
  <1> QED
    BY <1>1, <1>2

-----------------------------------------------------------------------------
(* One lemma per action, in the order of the module: first the client.     *)

\* Police logs in: the effect finds its socket open or opens one.
LEMMA Step_mount ==
    ASSUME FeedIInv, mount
    PROVE  FeedIInv'
  <1>1. TypeOK /\ ClientInv /\ connect(socket, phase, "police") /\ Ages(phase, phase)
    BY DEF FeedIInv, mount, Ages, TypeOK
  <1>2. socket \in Sockets \cup {None} /\ "police" \in Holders
    BY <1>1 DEF TypeOK, Holders
  <1>3. /\ Ages(phase, phase') /\ broken \subseteq broken'
        /\ socket' \in Sockets \cup {None} /\ intentional' \in BOOLEAN
        /\ own' \subseteq Sockets /\ broken' \subseteq Sockets
        /\ socket' # None /\ ~intentional' /\ socket' \in own'
        /\ phase'[socket'] \in {"connecting", "open"}
    BY <1>1, <1>2, ConnectOpens
  <1>4. TypeOK'
    <2>1. phase' \in [Sockets -> Phases]
      BY <1>3 DEF Ages
    <2>2. logins' \in 0..MaxLogins /\ refreshes' \in 0..MaxRefreshes /\ cuts' \in 0..MaxCuts
      BY <1>1, BoundAssumption DEF TypeOK, mount, Login
    <2>3. /\ mounted' \in BOOLEAN /\ refreshFailed' \in BOOLEAN
          /\ token' \in Holders /\ refreshing' \in Holders
      BY <1>1 DEF TypeOK, mount, Login, Holders
    <2>4. /\ pending' \subseteq Sockets /\ retryTimer' \in pending' \cup {None}
          /\ UNCHANGED <<handler, connections, broadcast>>
      BY <1>1 DEF TypeOK, mount, serverVars
    <2> QED
      BY <1>1, <1>3, <2>1, <2>2, <2>3, <2>4 DEF TypeOK
  <1>5. ListInv' /\ HandlerInv' /\ SendInv' /\ MissedOnlyWhenSomeoneLeft'
    BY <1>3, ClientsOnlyAge DEF mount
  <1>6. ClientInv' /\ StrandedOnlyByRefresh'
    BY <1>3 DEF mount, Login, ClientInv, StrandedOnlyByRefresh, Reconnects
  <1> QED
    BY <1>4, <1>5, <1>6 DEF FeedIInv

\* Police logs in again: the socket that it had is released, and a new one opens.
LEMMA Step_remount ==
    ASSUME FeedIInv, remount
    PROVE  FeedIInv'
  <1>1. TypeOK /\ ClientInv /\ connect(None, Released, "police")
    BY DEF FeedIInv, remount
  <1>2. Ages(phase, Released) /\ "police" \in Holders
    BY <1>1, ClosingAges DEF Released, TypeOK, Ages, Holders
  <1>3. /\ Ages(phase, phase') /\ broken \subseteq broken'
        /\ socket' \in Sockets \cup {None} /\ intentional' \in BOOLEAN
        /\ own' \subseteq Sockets /\ broken' \subseteq Sockets
        /\ socket' # None /\ ~intentional' /\ socket' \in own'
        /\ phase'[socket'] \in {"connecting", "open"}
    BY <1>1, <1>2, ConnectOpens
  <1>4. TypeOK'
    <2>1. phase' \in [Sockets -> Phases]
      BY <1>3 DEF Ages
    <2>2. logins' \in 0..MaxLogins /\ refreshes' \in 0..MaxRefreshes /\ cuts' \in 0..MaxCuts
      BY <1>1, BoundAssumption DEF TypeOK, remount, Login
    <2>3. /\ mounted' \in BOOLEAN /\ refreshFailed' \in BOOLEAN
          /\ token' \in Holders /\ refreshing' \in Holders
      BY <1>1 DEF TypeOK, remount, Login, Holders
    <2>4. /\ pending' \subseteq Sockets /\ retryTimer' \in pending' \cup {None}
          /\ UNCHANGED <<handler, connections, broadcast>>
      BY <1>1 DEF TypeOK, remount, ClearTimer, serverVars
    <2> QED
      BY <1>1, <1>3, <2>1, <2>2, <2>3, <2>4 DEF TypeOK
  <1>5. ListInv' /\ HandlerInv' /\ SendInv' /\ MissedOnlyWhenSomeoneLeft'
    BY <1>3, ClientsOnlyAge DEF remount
  <1>6. ClientInv' /\ StrandedOnlyByRefresh'
    BY <1>3 DEF remount, Login, ClientInv, StrandedOnlyByRefresh, Reconnects
  <1> QED
    BY <1>4, <1>5, <1>6 DEF FeedIInv

\* Somebody else logs in: the client lets go of its socket.
LEMMA Step_unmount ==
    ASSUME FeedIInv, unmount
    PROVE  FeedIInv'
  <1>1. TypeOK
    BY DEF FeedIInv
  <1>2. Ages(phase, phase')
    BY <1>1, ClosingAges DEF unmount, Released, TypeOK, Ages
  <1>3. TypeOK'
    <2>1. phase' \in [Sockets -> Phases]
      BY <1>2 DEF Ages
    <2>2. logins' \in 0..MaxLogins /\ refreshes' \in 0..MaxRefreshes /\ cuts' \in 0..MaxCuts
      BY <1>1, BoundAssumption DEF TypeOK, unmount, Login
    <2>3. /\ mounted' \in BOOLEAN /\ refreshFailed' \in BOOLEAN
          /\ token' \in Holders /\ refreshing' \in Holders
      BY <1>1 DEF TypeOK, unmount, Login, Holders
    <2>4. /\ pending' \subseteq Sockets /\ retryTimer' \in pending' \cup {None}
          /\ UNCHANGED <<handler, connections, broadcast>>
      BY <1>1 DEF TypeOK, unmount, ClearTimer, serverVars
    <2> QED
      BY <1>1, <1>2, <2>1, <2>2, <2>3, <2>4 DEF TypeOK, unmount
  <1>4. ListInv' /\ HandlerInv' /\ SendInv' /\ MissedOnlyWhenSomeoneLeft'
    BY <1>2, ClientsOnlyAge DEF unmount
  <1>5. ClientInv' /\ StrandedOnlyByRefresh'
    BY DEF unmount, ClientInv, StrandedOnlyByRefresh
  <1> QED
    BY <1>3, <1>4, <1>5 DEF FeedIInv

\* A refresh begins: the token stays.
LEMMA Step_attemptRefresh ==
    ASSUME FeedIInv, attemptRefresh
    PROVE  FeedIInv'
  <1>1. TypeOK' /\ Ages(phase, phase')
    BY BoundAssumption DEF FeedIInv, attemptRefresh, TypeOK, Holders, clientVars, serverVars, Ages
  <1>2. ListInv' /\ HandlerInv' /\ SendInv' /\ MissedOnlyWhenSomeoneLeft'
    BY <1>1, ClientsOnlyAge DEF attemptRefresh
  <1>3. ClientInv' /\ StrandedOnlyByRefresh'
    BY DEF FeedIInv, attemptRefresh, clientVars, ClientInv, StrandedOnlyByRefresh, Reconnects
  <1> QED
    BY <1>1, <1>2, <1>3 DEF FeedIInv

\* A refresh ends: without a token it has failed.
LEMMA Step_refreshed ==
    ASSUME FeedIInv, refreshed
    PROVE  FeedIInv'
  <1>1. TypeOK' /\ Ages(phase, phase')
    BY DEF FeedIInv, refreshed, TypeOK, Holders, clientVars, serverVars, Ages
  <1>2. ListInv' /\ HandlerInv' /\ SendInv' /\ MissedOnlyWhenSomeoneLeft'
    BY <1>1, ClientsOnlyAge DEF refreshed
  <1>3. ClientInv' /\ StrandedOnlyByRefresh'
    BY DEF FeedIInv, refreshed, clientVars, ClientInv, StrandedOnlyByRefresh, Reconnects
  <1> QED
    BY <1>1, <1>2, <1>3 DEF FeedIInv

\* A timer fires: with a token it leaves a socket, and without one a refresh has failed.
LEMMA Step_fire ==
    ASSUME FeedIInv, NEW t \in Sockets, fire(t)
    PROVE  FeedIInv'
  <1>1. TypeOK /\ ClientInv /\ connect(socket, phase, token) /\ Ages(phase, phase)
    BY DEF FeedIInv, fire, Ages, TypeOK
  <1>2. socket \in Sockets \cup {None} /\ token \in Holders
    BY <1>1 DEF TypeOK
  <1>3. /\ Ages(phase, phase') /\ broken \subseteq broken'
        /\ socket' \in Sockets \cup {None} /\ intentional' \in BOOLEAN
        /\ own' \subseteq Sockets /\ broken' \subseteq Sockets
        /\ socket' # None => ~intentional' /\ socket' \in own'
        /\ socket # None => socket' # None
        /\ token # "nobody" => /\ socket' # None /\ socket' \in own'
                               /\ phase'[socket'] \in {"connecting", "open"}
    BY <1>1, <1>2, ConnectOpens
  <1>4. TypeOK'
    BY <1>1, <1>3 DEF fire, authVars, TypeOK, Ages, serverVars
  <1>5. ListInv' /\ HandlerInv' /\ SendInv' /\ MissedOnlyWhenSomeoneLeft'
    BY <1>3, ClientsOnlyAge DEF fire
  <1>6. ClientInv' /\ StrandedOnlyByRefresh'
    BY <1>1, <1>3 DEF fire, authVars, ClientInv, StrandedOnlyByRefresh, Reconnects
  <1> QED
    BY <1>4, <1>5, <1>6 DEF FeedIInv

\* A socket opens once the server has accepted it.
LEMMA Step_onopen ==
    ASSUME FeedIInv, NEW s \in Sockets, onopen(s)
    PROVE  FeedIInv'
  <1>1. TypeOK' /\ Ages(phase, phase')
    BY DEF FeedIInv, onopen, TypeOK, Phases, Ages, authVars, clientVars, serverVars
  <1>2. ListInv' /\ HandlerInv' /\ SendInv' /\ MissedOnlyWhenSomeoneLeft'
    BY <1>1, ClientsOnlyAge DEF onopen
  <1>3. ClientInv' /\ StrandedOnlyByRefresh'
    BY DEF FeedIInv, TypeOK, onopen, authVars, clientVars, ClientInv, StrandedOnlyByRefresh, Reconnects
  <1> QED
    BY <1>1, <1>2, <1>3 DEF FeedIInv

\* A socket has closed: one of the client's own leaves a timer behind.
LEMMA Step_onclose ==
    ASSUME FeedIInv, NEW s \in Sockets, onclose(s)
    PROVE  FeedIInv'
  <1>1. TypeOK' /\ Ages(phase, phase')
    BY DEF FeedIInv, onclose, TypeOK, Phases, Ages, authVars, serverVars
  <1>2. ListInv' /\ HandlerInv' /\ SendInv' /\ MissedOnlyWhenSomeoneLeft'
    BY <1>1, ClientsOnlyAge DEF onclose
  <1>3. ClientInv'
    BY DEF FeedIInv, onclose, authVars, ClientInv
  <1>4. StrandedOnlyByRefresh'
    BY DEF FeedIInv, TypeOK, ClientInv, onclose, authVars, StrandedOnlyByRefresh, Reconnects
  <1> QED
    BY <1>1, <1>2, <1>3, <1>4 DEF FeedIInv

\* The browser gives a broken socket up, and the current one with it.
LEMMA Step_onerror ==
    ASSUME FeedIInv, NEW s \in Sockets, onerror(s)
    PROVE  FeedIInv'
  <1>1. TypeOK' /\ Ages(phase, phase')
    BY DEF FeedIInv, onerror, Live, TypeOK, Phases, Ages, authVars, clientVars, serverVars
  <1>2. ListInv' /\ HandlerInv' /\ SendInv' /\ MissedOnlyWhenSomeoneLeft'
    BY <1>1, ClientsOnlyAge DEF onerror
  <1>3. ClientInv'
    BY DEF FeedIInv, onerror, authVars, clientVars, ClientInv
  <1>4. StrandedOnlyByRefresh'
    BY DEF FeedIInv, TypeOK, onerror, Live, authVars, clientVars, StrandedOnlyByRefresh, Reconnects
  <1> QED
    BY <1>1, <1>2, <1>3, <1>4 DEF FeedIInv

-----------------------------------------------------------------------------
(* The network and the other dashboards.                                   *)

\* A connection breaks.
LEMMA Step_cut ==
    ASSUME FeedIInv, NEW s \in Sockets, cut(s)
    PROVE  FeedIInv'
  <1>1. TypeOK' /\ Ages(phase, phase')
    BY BoundAssumption DEF FeedIInv, cut, TypeOK, Ages, authVars, clientVars, serverVars
  <1>2. ListInv' /\ HandlerInv' /\ SendInv' /\ MissedOnlyWhenSomeoneLeft'
    BY <1>1, ClientsOnlyAge DEF cut
  <1>3. ClientInv' /\ StrandedOnlyByRefresh'
    BY DEF FeedIInv, cut, authVars, clientVars, ClientInv, StrandedOnlyByRefresh, Reconnects
  <1> QED
    BY <1>1, <1>2, <1>3 DEF FeedIInv

\* Another dashboard opens a socket.
LEMMA Step_other_opens ==
    ASSUME FeedIInv, NEW s \in Sockets, other_opens(s)
    PROVE  FeedIInv'
  <1>1. TypeOK' /\ Ages(phase, phase')
    BY DEF FeedIInv, other_opens, TypeOK, Phases, Ages, authVars, clientVars, serverVars
  <1>2. ListInv' /\ HandlerInv' /\ SendInv' /\ MissedOnlyWhenSomeoneLeft'
    BY <1>1, ClientsOnlyAge DEF other_opens
  <1>3. ClientInv' /\ StrandedOnlyByRefresh'
    BY DEF FeedIInv, TypeOK, other_opens, authVars, clientVars, ClientInv, StrandedOnlyByRefresh, Reconnects
  <1> QED
    BY <1>1, <1>2, <1>3 DEF FeedIInv

\* The server or another dashboard closes one.
LEMMA Step_closes ==
    ASSUME FeedIInv, NEW s \in Sockets, closed_by_server(s) \/ other_closes(s)
    PROVE  FeedIInv'
  <1>1. TypeOK' /\ Ages(phase, phase')
    BY DEF FeedIInv, closed_by_server, other_closes, Closed, Live, TypeOK, Phases, Ages, authVars, clientVars, serverVars
  <1>2. ListInv' /\ HandlerInv' /\ SendInv' /\ MissedOnlyWhenSomeoneLeft'
    BY <1>1, ClientsOnlyAge DEF closed_by_server, other_closes
  <1>3. ClientInv' /\ StrandedOnlyByRefresh'
    BY DEF FeedIInv, TypeOK, closed_by_server, other_closes, Closed, Live, authVars, clientVars,
           ClientInv, StrandedOnlyByRefresh, Reconnects
  <1> QED
    BY <1>1, <1>2, <1>3 DEF FeedIInv

-----------------------------------------------------------------------------
(* The server.                                                             *)

\* A step of the server leaves the client alone.
LEMMA ServerLeavesClient ==
    ASSUME FeedIInv, UNCHANGED <<authVars, clientVars, phase>>
    PROVE  ClientInv' /\ StrandedOnlyByRefresh'
  BY DEF FeedIInv, authVars, clientVars, ClientInv, StrandedOnlyByRefresh, Reconnects

\* A handler accepts its socket.
LEMMA Step_accept ==
    ASSUME FeedIInv, NEW s \in Sockets, accept(s)
    PROVE  FeedIInv'
  <1>1. TypeOK'
    BY DEF FeedIInv, accept, TypeOK, HandlerStages, authVars, clientVars
  <1>2. ListInv'
    BY DEF FeedIInv, accept, TypeOK, ListInv, Members
  <1>3. HandlerInv'
    BY DEF FeedIInv, accept, TypeOK, HandlerInv, Gone, Members
  <1>4. SendInv'
    <2>1. \A e \in Events : Members(broadcast[e].sent) \subseteq Sockets
      BY DEF FeedIInv, TypeOK, Broadcast, Members
    <2>2. \A r \in Sockets : handler[r] \in {"listed", "returned"} => handler'[r] = handler[r]
      BY DEF FeedIInv, TypeOK, accept
    <2>3. broadcast' = broadcast /\ \A e \in Events : ToCome(e)' = ToCome(e)
      BY DEF ToCome, accept
    <2> QED
      BY <2>1, <2>2, <2>3 DEF FeedIInv, SendInv
  <1>5. MissedOnlyWhenSomeoneLeft'
    BY DEF FeedIInv, accept, MissedOnlyWhenSomeoneLeft, Members
  <1>6. ClientInv' /\ StrandedOnlyByRefresh'
    BY ServerLeavesClient DEF accept
  <1> QED
    BY <1>1, <1>2, <1>3, <1>4, <1>5, <1>6 DEF FeedIInv

\* It appends the socket to the list, in front of every iterator and sent to by none.
LEMMA Step_list ==
    ASSUME FeedIInv, NEW s \in Sockets, list(s)
    PROVE  FeedIInv'
  <1>1. /\ connections \in Seq(Sockets) /\ connections' = Append(connections, s)
        /\ Len(connections) \in Nat
        /\ DOMAIN connections = 1..Len(connections) /\ DOMAIN connections' = 1..(Len(connections) + 1)
        /\ \A i \in DOMAIN connections : connections'[i] = connections[i]
        /\ connections'[Len(connections) + 1] = s
    BY DEF FeedIInv, TypeOK, list
  <1>2. Members(connections)' = Members(connections) \cup {s}
    BY <1>1 DEF Members
  <1>3. s \notin Members(connections)
    BY DEF FeedIInv, ListInv, list
  <1>4. TypeOK'
    BY DEF FeedIInv, list, TypeOK, HandlerStages, authVars, clientVars
  <1>5. ListInv'
    <2>1. Distinct(connections)'
      BY <1>1, <1>3 DEF FeedIInv, ListInv, Distinct, Members
    <2> QED
      BY <1>2, <2>1 DEF FeedIInv, TypeOK, ListInv, list
  <1>6. HandlerInv'
    BY <1>2 DEF FeedIInv, list, TypeOK, HandlerInv, Gone
  <1>7. SendInv'
    <2>1. \A e \in Events : broadcast[e].pos \in Nat /\ Members(broadcast[e].sent) \subseteq Sockets
      BY DEF FeedIInv, TypeOK, Broadcast, Members
    <2>2. \A e \in Events : /\ ToCome(e) \subseteq ToCome(e)'
                            /\ ToCome(e)' \subseteq ToCome(e) \cup {s}
      BY <1>1, <2>1 DEF ToCome, list
    <2>3. \A e \in Events : s \notin Members(broadcast[e].sent)
      BY DEF FeedIInv, SendInv, list
    <2>4. \A r \in Sockets : handler[r] \in {"listed", "returned"} => handler'[r] = handler[r]
      BY DEF FeedIInv, TypeOK, list
    <2>5. broadcast' = broadcast
      BY DEF list
    <2> QED
      BY <2>1, <2>2, <2>3, <2>4, <2>5 DEF FeedIInv, SendInv, Distinct, Members
  <1>8. MissedOnlyWhenSomeoneLeft'
    BY DEF FeedIInv, list, MissedOnlyWhenSomeoneLeft, Members
  <1>9. ClientInv' /\ StrandedOnlyByRefresh'
    BY ServerLeavesClient DEF list
  <1> QED
    BY <1>4, <1>5, <1>6, <1>7, <1>8, <1>9 DEF FeedIInv

\* What is in front of an iterator after a removal was in front of it before.
LEMMA RemovalKeepsToCome ==
    ASSUME TypeOK, NEW gone, connections' \in Without(gone), NEW e \in Events,
           broadcast'[e].pos = broadcast[e].pos
    PROVE  ToCome(e)' \subseteq ToCome(e)
  <1>1. \A i \in DOMAIN connections' : \E k \in DOMAIN connections : k >= i /\ connections'[i] = connections[k]
    BY RemovalMovesForward
  <1>2. connections' \in Seq(Sockets)
    BY RemovalMovesForward
  <1>3. broadcast[e].pos \in Nat /\ connections \in Seq(Sockets)
    BY DEF TypeOK, Broadcast
  <1>4. ASSUME NEW i \in DOMAIN connections', i > broadcast[e].pos
        PROVE  connections'[i] \in ToCome(e)
    <2>1. PICK k \in DOMAIN connections : k >= i /\ connections'[i] = connections[k]
      BY <1>1
    <2>2. k > broadcast[e].pos
      BY <1>2, <1>3, <1>4, <2>1
    <2> QED
      BY <2>1, <2>2 DEF ToCome
  <1> QED
    BY <1>4 DEF ToCome

\* A socket leaves, and the broadcasts that run take note of it.
LEMMA Step_disconnect ==
    ASSUME FeedIInv, NEW s \in Sockets, disconnect(s)
    PROVE  FeedIInv'
  <1>1. /\ TypeOK /\ connections' \in Without({s})
        /\ connections' \in Seq(Sockets)
        /\ Members(connections') = Members(connections) \ {s}
        /\ Distinct(connections) => Distinct(connections')
    BY RemovalMovesForward DEF FeedIInv, disconnect
  <1>2. /\ broadcast' \in [Events -> Broadcast]
        /\ \A e \in Events :
              /\ \A f \in {"stage", "pos", "sent", "dead"} : broadcast'[e][f] = broadcast[e][f]
              /\ broadcast[e].stage = "running" => broadcast'[e].left
              /\ broadcast[e].stage # "running" => broadcast'[e] = broadcast[e]
    BY <1>1 DEF disconnect, Leave, TypeOK, Broadcast
  <1>3. TypeOK'
    BY <1>1, <1>2 DEF disconnect, TypeOK, HandlerStages, authVars, clientVars
  <1>4. ListInv'
    <2>1. Members(connections)' = Members(connections) \ {s} /\ Members(connections) \subseteq Sockets
      <3>1. Members(connections)' = Members(connections')
        BY DEF Members
      <3>2. Members(connections) \subseteq Sockets
        BY <1>1 DEF Members, TypeOK
      <3> QED
        BY <1>1, <3>1, <3>2
    <2>2. \A r \in Members(connections) : r # s => handler'[r] = "listed"
      BY <1>1, <2>1 DEF FeedIInv, ListInv, TypeOK, disconnect
    <2> QED
      BY <1>1, <2>1, <2>2 DEF FeedIInv, ListInv
  <1>5. HandlerInv'
    BY <1>1, <1>2 DEF FeedIInv, HandlerInv, Gone, TypeOK, disconnect
  <1>6. SendInv'
    <2>1. \A e \in Events : ToCome(e)' \subseteq ToCome(e)
      BY <1>1, <1>2, RemovalKeepsToCome
    <2>2. \A r \in Sockets : handler[r] \in {"listed", "returned"} => handler'[r] \in {"listed", "returned"}
      BY <1>1 DEF TypeOK, disconnect
    <2>3. \A e \in Events : Members(broadcast[e].sent) \subseteq Sockets
      BY <1>1 DEF TypeOK, Broadcast, Members
    <2> QED
      BY <1>2, <2>1, <2>2, <2>3 DEF FeedIInv, SendInv
  <1>7. MissedOnlyWhenSomeoneLeft'
    BY <1>2 DEF FeedIInv, MissedOnlyWhenSomeoneLeft
  <1>8. ClientInv' /\ StrandedOnlyByRefresh'
    BY ServerLeavesClient DEF disconnect
  <1> QED
    BY <1>3, <1>4, <1>5, <1>6, <1>7, <1>8 DEF FeedIInv

\* A broadcast is asked for.
LEMMA Step_push ==
    ASSUME FeedIInv, NEW e \in Events, push(e)
    PROVE  FeedIInv'
  <1>1. TypeOK'
    BY DEF FeedIInv, push, TypeOK, Broadcast, authVars, clientVars
  <1>2. /\ connections' = connections /\ handler' = handler /\ broken' = broken /\ phase' = phase
        /\ \A d \in Events :
              /\ \A f \in {"pos", "sent", "dead", "from", "left"} : broadcast'[d][f] = broadcast[d][f]
              /\ broadcast'[d].stage = IF d = e THEN "scheduled" ELSE broadcast[d].stage
        /\ broadcast[e].stage = "none"
    BY DEF FeedIInv, push, TypeOK, Broadcast
  <1>3. ListInv'
    BY <1>2 DEF FeedIInv, ListInv, Distinct, Members
  <1>4. HandlerInv'
    BY <1>2 DEF FeedIInv, HandlerInv, Gone, Members
  <1>5. SendInv'
    BY <1>2 DEF FeedIInv, SendInv, ToCome
  <1>6. MissedOnlyWhenSomeoneLeft'
    BY <1>2 DEF FeedIInv, MissedOnlyWhenSomeoneLeft
  <1>7. ClientInv' /\ StrandedOnlyByRefresh'
    BY ServerLeavesClient DEF push
  <1> QED
    BY <1>1, <1>3, <1>4, <1>5, <1>6, <1>7 DEF FeedIInv

\* It begins with the whole list in front of it.
LEMMA Step_begin ==
    ASSUME FeedIInv, NEW e \in Events, begin(e)
    PROVE  FeedIInv'
  <1>1. connections \in Seq(Sockets) /\ Members(connections) \subseteq Sockets
    BY DEF FeedIInv, TypeOK, Members
  <1>2. TypeOK'
    BY <1>1 DEF FeedIInv, begin, TypeOK, Broadcast, authVars, clientVars
  <1>3. /\ connections' = connections /\ handler' = handler /\ broken' = broken /\ phase' = phase
        /\ \A d \in Events :
              /\ \A f \in {"pos", "sent", "dead", "left"} : broadcast'[d][f] = broadcast[d][f]
              /\ d # e => broadcast'[d] = broadcast[d]
        /\ broadcast[e].stage = "scheduled"
        /\ broadcast'[e].stage = "running" /\ broadcast'[e].from = Members(connections)
    BY DEF FeedIInv, begin, TypeOK, Broadcast
  <1>4. ListInv'
    BY <1>3 DEF FeedIInv, ListInv, Distinct, Members
  <1>5. HandlerInv'
    BY <1>3 DEF FeedIInv, HandlerInv, Gone, Members
  <1>6. SendInv'
    <2>1. broadcast[e].pos = 0 /\ broadcast[e].sent = <<>> /\ ~broadcast[e].left
      BY <1>3 DEF FeedIInv, SendInv
    <2>2. ToCome(e)' = Members(connections)
      BY <1>1, <1>3, <2>1 DEF ToCome, Members
    <2>3. Members(broadcast[e].sent) = {}
      BY <2>1 DEF Members
    <2>4. \A d \in Events : d # e => ToCome(d)' = ToCome(d)
      BY <1>3 DEF ToCome
    <2> QED
      BY <1>3, <2>1, <2>2, <2>3, <2>4 DEF FeedIInv, SendInv
  <1>7. MissedOnlyWhenSomeoneLeft'
    BY <1>3 DEF FeedIInv, MissedOnlyWhenSomeoneLeft
  <1>8. ClientInv' /\ StrandedOnlyByRefresh'
    BY ServerLeavesClient DEF begin
  <1> QED
    BY <1>2, <1>4, <1>5, <1>6, <1>7, <1>8 DEF FeedIInv

\* The next socket passes from the front of the iterator behind it.
LEMMA Step_send ==
    ASSUME FeedIInv, NEW e \in Events, send(e)
    PROVE  FeedIInv'
  <1> DEFINE n == broadcast[e].pos + 1
             s == connections[n]
  <1>1. /\ connections \in Seq(Sockets) /\ DOMAIN connections = 1..Len(connections)
        /\ Len(connections) \in Nat /\ broadcast[e].pos \in Nat /\ broadcast \in [Events -> Broadcast]
        /\ n \in DOMAIN connections /\ s \in Sockets
        /\ broadcast[e].sent \in Seq(Sockets) /\ broadcast[e].dead \subseteq Sockets
    BY DEF FeedIInv, send, TypeOK, Broadcast
  <1>2. /\ connections' = connections /\ handler' = handler /\ broken' = broken /\ phase' = phase
        /\ UNCHANGED <<authVars, clientVars, cuts>>
        /\ broadcast[e].stage = "running"
    BY DEF send
  <1>3. s \in ToCome(e) /\ s \in Members(connections)
    BY <1>1 DEF ToCome, Members
  <1>4. \/ broadcast' = [broadcast EXCEPT ![e].pos = @ + 1, ![e].sent = Append(@, s)]
        \/ /\ s \in broken \/ s \notin Live
           /\ broadcast' = [broadcast EXCEPT ![e].pos = @ + 1, ![e].dead = @ \cup {s}]
    BY DEF send
  <1> HIDE DEF s
  <1>5. /\ \A d \in Events : d # e => broadcast'[d] = broadcast[d]
        /\ broadcast'[e].stage = "running" /\ broadcast'[e].pos = n
        /\ broadcast'[e].left = broadcast[e].left /\ broadcast'[e].from = broadcast[e].from
        /\ \/ broadcast'[e].sent = Append(broadcast[e].sent, s) /\ broadcast'[e].dead = broadcast[e].dead
           \/ /\ s \in broken \/ s \notin Live
              /\ broadcast'[e].sent = broadcast[e].sent /\ broadcast'[e].dead = broadcast[e].dead \cup {s}
    BY <1>1, <1>2, <1>4 DEF Broadcast
  <1>6. TypeOK'
    <2>1. n \in Nat /\ Append(broadcast[e].sent, s) \in Seq(Sockets) /\ broadcast[e].dead \cup {s} \subseteq Sockets
      BY <1>1, AppendedJoins
    <2>2. broadcast' \in [Events -> Broadcast]
      <3> DEFINE b == broadcast[e]
      <3>1. b \in Broadcast
        BY <1>1
      <3>2. [b EXCEPT !.pos = n, !.sent = Append(b.sent, s)] \in Broadcast
        BY <2>1, <3>1 DEF Broadcast
      <3>3. [b EXCEPT !.pos = n, !.dead = b.dead \cup {s}] \in Broadcast
        BY <2>1, <3>1 DEF Broadcast
      <3>4. \/ broadcast' = [broadcast EXCEPT ![e] = [b EXCEPT !.pos = n, !.sent = Append(b.sent, s)]]
            \/ broadcast' = [broadcast EXCEPT ![e] = [b EXCEPT !.pos = n, !.dead = b.dead \cup {s}]]
        BY <1>4
      <3> QED
        BY <1>1, <3>2, <3>3, <3>4
    <2> QED
      BY <1>2, <2>2 DEF FeedIInv, TypeOK, authVars, clientVars
  <1>7. ListInv'
    BY <1>2 DEF FeedIInv, ListInv, Distinct, Members
  <1>8. HandlerInv'
    <2>1. s \notin Live => Gone(s)
      BY <1>1, <1>3 DEF FeedIInv, ListInv, HandlerInv, TypeOK, Live, Gone, Phases
    <2> QED
      BY <1>2, <1>5, <2>1 DEF FeedIInv, HandlerInv, Gone, Members
  <1>9. SendInv'
    <2>1. ToCome(e)' = ToCome(e) \ {s}
      <3>1. Distinct(connections)
        BY DEF FeedIInv, ListInv
      <3> QED
        BY <1>1, <1>2, <1>5, <3>1 DEF ToCome, Distinct, s
    <2>2. s \notin Members(broadcast[e].sent)
      BY <1>2, <1>3 DEF FeedIInv, SendInv
    <2>3. \A d \in Events : d # e => ToCome(d)' = ToCome(d)
      BY <1>2, <1>5 DEF ToCome
    <2>4. Members(Append(broadcast[e].sent, s)) = Members(broadcast[e].sent) \cup {s}
      BY <1>1, AppendedJoins
    <2>5. Distinct(Append(broadcast[e].sent, s))
      BY <1>1, <2>2, AppendedJoins DEF FeedIInv, SendInv
    <2>6. handler[s] = "listed"
      BY <1>3 DEF FeedIInv, ListInv
    <2> QED
      BY <1>2, <1>5, <2>1, <2>2, <2>3, <2>4, <2>5, <2>6 DEF FeedIInv, SendInv
  <1>10. MissedOnlyWhenSomeoneLeft'
    BY <1>5 DEF FeedIInv, MissedOnlyWhenSomeoneLeft
  <1>11. ClientInv' /\ StrandedOnlyByRefresh'
    BY <1>2, ServerLeavesClient
  <1> QED
    BY <1>6, <1>7, <1>8, <1>9, <1>10, <1>11 DEF FeedIInv

\* The iterator has passed the list: the dead sockets are removed from it.
LEMMA Step_end ==
    ASSUME FeedIInv, NEW e \in Events, end(e)
    PROVE  FeedIInv'
  <1> DEFINE gone == broadcast[e].dead \cap Members(connections)
             ended == [broadcast[e] EXCEPT !.stage = "done"]
  <1>1. /\ TypeOK /\ broadcast \in [Events -> Broadcast] /\ connections \in Seq(Sockets)
        /\ ended \in Broadcast /\ gone \subseteq broadcast[e].dead
        /\ broadcast[e].stage = "running" /\ broadcast[e].pos >= Len(connections)
    BY DEF FeedIInv, end, TypeOK, Broadcast
  <1>2. /\ handler' = handler /\ broken' = broken /\ phase' = phase
        /\ UNCHANGED <<authVars, clientVars, cuts>>
    BY DEF end
  <1>3. \/ /\ broadcast' = [broadcast EXCEPT ![e] = ended]
           /\ connections' = connections
        \/ /\ broadcast' = [Leave(gone) EXCEPT ![e] = ended]
           /\ connections' \in Without(gone)
    BY DEF end
  <1> HIDE DEF gone
  <1>4. /\ broadcast' \in [Events -> Broadcast] /\ broadcast'[e].stage = "done"
        /\ \A f \in {"pos", "sent", "dead", "from", "left"} : broadcast'[e][f] = broadcast[e][f]
        /\ \A d \in Events :
              /\ \A f \in {"pos", "sent", "dead"} : broadcast'[d][f] = broadcast[d][f]
              /\ d # e => broadcast'[d].stage = broadcast[d].stage
              /\ d # e /\ broadcast'[d] # broadcast[d] =>
                    broadcast[d].stage = "running" /\ broadcast'[d].left
              /\ d # e /\ connections' # connections /\ broadcast[d].stage = "running" =>
                    broadcast'[d].left
    <2>1. CASE broadcast' = [broadcast EXCEPT ![e] = ended] /\ connections' = connections
      BY <1>1, <2>1 DEF Broadcast
    <2>2. CASE broadcast' = [Leave(gone) EXCEPT ![e] = ended]
      <3>1. broadcast'[e] = ended /\ broadcast' = [d \in Events |-> IF d = e THEN ended ELSE Leave(gone)[d]]
        BY <1>1, <2>2 DEF Leave
      <3>2. \A d \in Events : d # e => broadcast'[d] = IF broadcast[d].stage = "running"
                  THEN [broadcast[d] EXCEPT !.from = @ \ gone, !.left = TRUE]
                  ELSE broadcast[d]
        BY <3>1 DEF Leave
      <3> HIDE DEF ended
      <3>3. \A d \in Events : d # e => broadcast'[d] \in Broadcast
        <4> TAKE d \in Events
        <4>1. broadcast[d] \in Broadcast
          BY <1>1
        <4>2. [broadcast[d] EXCEPT !.from = @ \ gone, !.left = TRUE] \in Broadcast
          BY <4>1 DEF Broadcast
        <4> QED
          BY <3>2, <4>1, <4>2
      <3>4. broadcast' \in [Events -> Broadcast]
        BY <1>1, <3>1, <3>3
      <3>5. /\ ended.stage = "done"
            /\ \A f \in {"pos", "sent", "dead", "from", "left"} : ended[f] = broadcast[e][f]
        BY <1>1 DEF Broadcast, ended
      <3>6. \A d \in Events : d # e =>
              /\ \A f \in {"pos", "sent", "dead", "stage"} : broadcast'[d][f] = broadcast[d][f]
              /\ broadcast[d].stage = "running" => broadcast'[d].left
              /\ broadcast[d].stage # "running" => broadcast'[d] = broadcast[d]
        BY <1>1, <3>2 DEF Broadcast
      <3> QED
        BY <3>1, <3>4, <3>5, <3>6
    <2> QED
      BY <1>3, <2>1, <2>2
  <1>5. /\ connections' \in Seq(Sockets)
        /\ Members(connections)' \subseteq Members(connections)
        /\ Members(connections) \subseteq Members(connections)' \cup broadcast[e].dead
        /\ Distinct(connections) => Distinct(connections)'
    <2>1. CASE connections' = connections
      BY <1>1, <2>1 DEF Members, Distinct
    <2>2. CASE connections' \in Without(gone)
      <3>1. /\ connections' \in Seq(Sockets)
            /\ Members(connections') = Members(connections) \ gone
            /\ Distinct(connections) => Distinct(connections')
        BY <1>1, <2>2, RemovalMovesForward
      <3>2. Members(connections)' = Members(connections')
        BY DEF Members
      <3> QED
        BY <1>1, <3>1, <3>2
    <2> QED
      BY <1>3, <2>1, <2>2
  <1>6. TypeOK'
    BY <1>1, <1>2, <1>4, <1>5 DEF TypeOK, authVars, clientVars
  <1>7. ListInv'
    BY <1>2, <1>5 DEF FeedIInv, ListInv
  <1>8. HandlerInv'
    BY <1>2, <1>4, <1>5 DEF FeedIInv, HandlerInv, Gone
  <1>9. \A d \in Events : ToCome(d)' \subseteq ToCome(d)
    <2>1. CASE connections' = connections
      BY <1>4, <2>1 DEF ToCome
    <2>2. CASE connections' \in Without(gone)
      BY <1>1, <1>4, <2>2, RemovalKeepsToCome
    <2> QED
      BY <1>3, <2>1, <2>2
  <1>10. SendInv'
    <2>1. ASSUME NEW d \in Events, d # e, broadcast'[d].stage = "running", ~broadcast'[d].left
          PROVE  broadcast'[d] = broadcast[d] /\ ToCome(d)' = ToCome(d)
      BY <1>4, <2>1 DEF ToCome
    <2> QED
      BY <1>2, <1>4, <1>9, <2>1 DEF FeedIInv, SendInv
  <1>11. MissedOnlyWhenSomeoneLeft'
    <2>1. ToCome(e) = {}
      BY <1>1 DEF ToCome, Broadcast
    <2>2. ~broadcast[e].left => broadcast[e].from \subseteq Members(broadcast[e].sent) \cup broadcast[e].dead
      BY <1>1, <2>1 DEF FeedIInv, SendInv
    <2>3. \A d \in Events : d # e /\ broadcast'[d].stage = "done" => broadcast'[d] = broadcast[d]
      BY <1>4
    <2> QED
      BY <1>4, <2>2, <2>3 DEF FeedIInv, MissedOnlyWhenSomeoneLeft
  <1>12. ClientInv' /\ StrandedOnlyByRefresh'
    BY <1>2, ServerLeavesClient
  <1> QED
    BY <1>6, <1>7, <1>8, <1>10, <1>11, <1>12 DEF FeedIInv

-----------------------------------------------------------------------------
(* The theorems.                                                           *)

\* It holds at the start.
LEMMA FeedInitIInv ==
    Init => FeedIInv
  <1> SUFFICES ASSUME Init PROVE FeedIInv
    OBVIOUS
  <1>1. Idle \in Broadcast /\ Idle.stage = "none" /\ Idle.pos = 0 /\ Idle.sent = <<>> /\ Idle.dead = {} /\ ~Idle.left
    BY DEF Idle, Broadcast
  <1>2. connections = <<>> /\ Members(connections) = {} /\ \A e \in Events : broadcast[e] = Idle
    BY DEF Init, Members
  <1>3. TypeOK
    <2>1. /\ 0 \in 0..MaxCuts /\ 0 \in 0..MaxLogins /\ 0 \in 0..MaxRefreshes
          /\ broadcast \in [Events -> Broadcast]
      BY <1>1, BoundAssumption DEF Init
    <2>2. connections \in Seq(Sockets)
      BY <1>2
    <2> QED
      BY <2>1, <2>2 DEF Init, TypeOK, Holders, Phases, HandlerStages
  <1>4. ListInv
    BY <1>2 DEF ListInv, Distinct
  <1>5. HandlerInv
    BY <1>1, <1>2 DEF Init, HandlerInv
  <1>6. SendInv
    BY <1>1, <1>2 DEF SendInv, Distinct, Members
  <1>7. MissedOnlyWhenSomeoneLeft /\ ClientInv /\ StrandedOnlyByRefresh
    BY <1>1, <1>2 DEF Init, MissedOnlyWhenSomeoneLeft, ClientInv, StrandedOnlyByRefresh
  <1> QED
    BY <1>3, <1>4, <1>5, <1>6, <1>7 DEF FeedIInv

\* Every step keeps it.
LEMMA FeedNextIInv ==
    FeedIInv /\ [Next]_vars => FeedIInv'
  <1> SUFFICES ASSUME FeedIInv, [Next]_vars PROVE FeedIInv'
    OBVIOUS
  <1>1. CASE Client
    BY <1>1, Step_mount, Step_remount, Step_unmount, Step_attemptRefresh, Step_refreshed,
       Step_fire, Step_onopen, Step_onclose, Step_onerror DEF Client
  <1>2. CASE Surroundings
    BY <1>2, Step_cut, Step_closes, Step_other_opens DEF Surroundings
  <1>3. CASE Server
    BY <1>3, Step_accept, Step_list, Step_disconnect, Step_push, Step_begin, Step_send, Step_end DEF Server
  <1>4. CASE UNCHANGED vars
    <2>1. Ages(phase, phase') /\ UNCHANGED serverVars /\ broken' = broken
      BY <1>4 DEF FeedIInv, TypeOK, Ages, vars
    <2>2. TypeOK'
      BY <1>4 DEF FeedIInv, TypeOK, vars, authVars, clientVars, serverVars
    <2>3. ListInv' /\ HandlerInv' /\ SendInv' /\ MissedOnlyWhenSomeoneLeft'
      BY <2>1, ClientsOnlyAge
    <2>4. ClientInv' /\ StrandedOnlyByRefresh'
      BY <1>4, ServerLeavesClient DEF vars
    <2> QED
      BY <2>2, <2>3, <2>4 DEF FeedIInv
  <1> QED
    BY <1>1, <1>2, <1>3, <1>4 DEF Next

\* The invariant holds in every reachable state.
LEMMA FeedInvariance ==
    Spec => []FeedIInv
  BY FeedInitIInv, FeedNextIInv, PTL DEF Spec

\* Every variable keeps its type; in particular the timer that the client holds will fire.
THEOREM FeedTypeCorrect ==
    Spec => []TypeOK
  <1>1. FeedIInv => TypeOK
    BY DEF FeedIInv
  <1> QED
    BY <1>1, FeedInvariance, PTL

\* However many sockets join and leave while the sends are awaited, and however many
\* broadcasts run at once, none reaches a socket twice.
THEOREM NobodyIsSentTwice ==
    Spec => []SentOnce
  <1>1. FeedIInv => SentOnce
    BY DEF FeedIInv, SendInv, Distinct, SentOnce
  <1> QED
    BY <1>1, FeedInvariance, PTL

\* A broadcast passes over a socket that is listed throughout only if another one left.
THEOREM OnlyDeparturesSkip ==
    Spec => []MissedOnlyWhenSomeoneLeft
  <1>1. FeedIInv => MissedOnlyWhenSomeoneLeft
    BY DEF FeedIInv
  <1> QED
    BY <1>1, FeedInvariance, PTL

\* The list of the server and the sockets of the clients agree.
THEOREM ListIsRight ==
    Spec => []ListMatchesSockets
  <1>1. FeedIInv => ListMatchesSockets
    <2> SUFFICES ASSUME FeedIInv PROVE ListMatchesSockets
      OBVIOUS
    <2>1. \A s \in Sockets : handler[s] \in HandlerStages
      BY DEF FeedIInv, TypeOK
    <2>2. ASSUME NEW s \in Sockets \ broken, phase[s] = "open"
          PROVE  s \in Members(connections) \/ handler[s] = "accepted"
      BY <2>1, <2>2 DEF FeedIInv, HandlerInv, Gone, HandlerStages
    <2> QED
      BY <2>2 DEF FeedIInv, ListInv, Distinct, ListMatchesSockets
  <1> QED
    BY <1>1, FeedInvariance, PTL

\* While police is logged in, the client holds a socket, or a timer that opens one, unless
\* a refresh has failed.
THEOREM OnlyRefreshStrands ==
    Spec => []StrandedOnlyByRefresh
  <1>1. FeedIInv => StrandedOnlyByRefresh
    BY DEF FeedIInv
  <1> QED
    BY <1>1, FeedInvariance, PTL
=============================================================================
