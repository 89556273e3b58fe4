------------------------------ MODULE HttpPool ------------------------------
(***************************************************************************)
(* The connections to one host that embedder/http.ts keeps open between    *)
(* requests.  A request takes the connection last put back, or opens one;  *)
(* when its answer is complete the connection is put back with an idle     *)
(* timer, unless the server said it closes it, and a request that timed    *)
(* out or was aborted destroys it.  The answer to it may still come.       *)
(***************************************************************************)
EXTENDS Naturals, Sequences, SequencesExt

CONSTANTS Requests, Sockets, MaxPool, NoSocket

ASSUME HttpPoolAssumption == MaxPool \in Nat

VARIABLES
    request,    \* each request: its state, its connection, whose answer it got
    pool,       \* the connections put back, the last one last
    timer,      \* the connections whose idle timer runs
    usable,     \* the connections neither destroyed nor closed by the server
    asked       \* the server's side: what each connection still owes an answer to

http == <<request, pool, timer, usable, asked>>

NoAnswer == "none"
PoolTypeOK ==
    /\ request \in [Requests -> [state : {"new", "sent", "answered", "failed", "expired"},
                                 socket : Sockets \cup {NoSocket},
                                 answer : Requests \cup {NoAnswer}, destroyed : BOOLEAN]]
    /\ pool \in Seq(Sockets) /\ timer \subseteq Sockets
    /\ usable \subseteq Sockets /\ asked \in [Sockets -> Seq(Requests)]

PoolInit ==
    /\ request = [r \in Requests |-> [state |-> "new", socket |-> NoSocket,
                                      answer |-> NoAnswer, destroyed |-> FALSE]]
    /\ pool = <<>> /\ timer = {}
    /\ usable = Sockets /\ asked = [s \in Sockets |-> <<>>]

InUse == {request[r].socket : r \in {r \in Requests : request[r].state = "sent"}}
Unopened == {s \in usable : s \notin InUse /\ s \notin ToSet(pool)
                            /\ \A r \in Requests : request[r].socket # s}

\* Whoever is waiting on a connection when it is destroyed hears of it.
Destroyed(s) ==
    [r \in Requests |->
        IF request[r].state = "sent" /\ request[r].socket = s
        THEN [request[r] EXCEPT !.state = "failed", !.destroyed = TRUE]
        ELSE request[r]]

\* acquireConnection: the last usable one; unusable ones are dropped on the way.
IsLastUsable(n) ==
    /\ n \in {0} \cup {i \in DOMAIN pool : pool[i] \in usable}
    /\ \A i \in n + 1 .. Len(pool) : pool[i] \notin usable

LeftAfterTaking(n) == SubSeq(pool, 1, n - 1)

TimersAfterTaking(n) == timer \ {pool[i] : i \in {i \in DOMAIN pool : i >= n}}

Send(r) ==
    /\ request[r].state = "new"
    /\ \E n \in 0..Len(pool) :
         /\ IsLastUsable(n)
         /\ \E s \in IF n # 0 THEN {pool[n]} ELSE Unopened :
               /\ request' = [request EXCEPT ![r].state = "sent", ![r].socket = s]
               /\ asked' = [asked EXCEPT ![s] = Append(@, r)]
         /\ pool' = LeftAfterTaking(n)
         /\ timer' = TimersAfterTaking(n)
         /\ UNCHANGED usable

\* releaseConnection
PutBack(s) ==
    IF s \notin usable \/ Len(pool) >= MaxPool
    THEN usable' = usable \ {s} /\ UNCHANGED <<pool, timer>>
    ELSE pool' = Append(pool, s) /\ timer' = timer \cup {s} /\ UNCHANGED usable

Drop(s) == usable' = usable \ {s} /\ UNCHANGED <<pool, timer>>

\* The answer to the oldest request on the connection is complete: it goes to
\* whoever listens there now.
Answer(s, closes) ==
    /\ s \in usable /\ asked[s] # <<>>
    /\ asked' = [asked EXCEPT ![s] = Tail(@)]
    /\ \/ \E r \in Requests :
             /\ request[r].state = "sent" /\ request[r].socket = s
             /\ request' = [request EXCEPT ![r].state = "answered", ![r].answer = Head(asked[s])]
             /\ IF closes THEN Drop(s) ELSE PutBack(s)
       \/ /\ s \notin InUse
          /\ UNCHANGED <<request, pool, timer, usable>>

\* (mutant) a request that timed out puts its connection back
ExpireAndPutBack(r) ==
    /\ request[r].state = "sent"
    /\ request' = [request EXCEPT ![r].state = "expired"]
    /\ PutBack(request[r].socket)
    /\ UNCHANGED asked

\* The timeout of a request, or the signal of its caller.
Expire(r) ==
    /\ request[r].state = "sent"
    /\ request' = [request EXCEPT ![r].state = "expired"]
    /\ Drop(request[r].socket)
    /\ UNCHANGED asked

\* The server closes: an idle connection is found unusable later, a request
\* on one in use gets half an answer or an error.
ServerCloses(s) ==
    /\ s \in usable /\ s \notin Unopened
    /\ usable' = usable \ {s}
    /\ request' = [r \in Requests |->
                      IF request[r].state = "sent" /\ request[r].socket = s
                      THEN [request[r] EXCEPT !.state = "failed"] ELSE request[r]]
    /\ UNCHANGED <<pool, timer, asked>>

\* The idle timer: the connection leaves the pool and is destroyed.
IdleTimeout(s) ==
    /\ s \in timer
    /\ timer' = timer \ {s} /\ usable' = usable \ {s}
    /\ IF s \in ToSet(pool)
       THEN \E i \in DOMAIN pool : /\ pool[i] = s /\ \A j \in 1 .. i - 1 : pool[j] # s
                                   /\ pool' = RemoveAt(pool, i)
       ELSE UNCHANGED pool
    /\ request' = Destroyed(s)
    /\ UNCHANGED asked

\* destroyAllPooledConnections, when the plugin is unloaded
DestroyAll ==
    /\ pool # <<>>
    /\ usable' = usable \ ToSet(pool) /\ pool' = <<>> /\ timer' = timer \ ToSet(pool)
    /\ UNCHANGED <<request, asked>>

PoolNext ==
    \/ \E r \in Requests : Send(r) \/ Expire(r)
    \/ \E s \in Sockets : (\E c \in BOOLEAN : Answer(s, c)) \/ ServerCloses(s) \/ IdleTimeout(s)
    \/ DestroyAll

PoolSpec == PoolInit /\ [][PoolNext]_http

-----------------------------------------------------------------------------
\* A connection serves one request at a time: it is in the pool once and not
\* while it is used, no timer of the pool ends a request under way, and an
\* answer goes to the request it answers, whatever comes late on a connection
\* that was used before.
OneRequestPerSocket ==
    /\ \A r, q \in Requests :
          request[r].state = "sent" /\ request[q].state = "sent"
          /\ request[r].socket = request[q].socket => r = q
    /\ InUse \cap ToSet(pool) = {} /\ IsInjective(pool) /\ Len(pool) <= MaxPool
ConnectionsServeOne ==
    /\ OneRequestPerSocket
    /\ \A r \in Requests : request[r].state = "answered" => request[r].answer = r
    /\ \A r \in Requests : ~ request[r].destroyed
=============================================================================
