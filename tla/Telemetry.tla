------------------------------ MODULE Telemetry ------------------------------
(***************************************************************************)
(* The API (Backend/api/main.py) together with the listener it shares the  *)
(* database with.  The handlers are coroutines that never await, so the    *)
(* API serves one request at a time; its statements interleave with those  *)
(* of the listener.  live_all_cars reads one table per statement inside    *)
(* one transaction, which sees the database as it was at its first SELECT  *)
(* (InnoDB's repeatable read, the default the code does not change).       *)
(***************************************************************************)
EXTENDS Listener, SequencesExt, FiniteSetsExt

CONSTANT Cars   \* the clients whose tables SHOW TABLES LIKE 'car_id_%' lists

ASSUME TelemetryAssumption == Cars \subseteq Clients

VARIABLES
    areq,   \* "idle", or "live" while live_all_cars runs
    listed, \* the tables SHOW TABLES returned to the running or last request
    todo,   \* those of them not read yet
    snap,   \* the rows as the open transaction sees them, or NoSnapshot
    answer, \* ret: car -> its latest row
    since,  \* number of commits when the running request began
    reply,  \* the last successful reply, of any route
    seen    \* history: per car, the newest row any reply has shown

apiVars == <<areq, listed, todo, snap, answer, since, reply, seen>>
vars == <<listenerVars, apiVars>>

NoSnapshot == <<>>
NoReply == [route |-> "none", body |-> <<>>, since |-> 0]

Init ==
    /\ ListenerInit
    /\ areq = "idle"
    /\ listed = {} /\ todo = {}
    /\ snap = NoSnapshot
    /\ answer = <<>>
    /\ since = 0
    /\ reply = NoReply
    /\ seen = [c \in Cars |-> 0]

Existing == {c \in Cars : tables[c].exists}
Committed == [c \in Cars |-> tables[c].rows]
Newest(rows) == IF rows = <<>> THEN 0 ELSE Last(rows).stamp

\* A reply reaches the browser.
Send(route, body, start) ==
    /\ reply' = [route |-> route, body |-> body, since |-> start]
    /\ seen' = [c \in Cars |-> IF c \in DOMAIN body
                               THEN Max({seen[c], Newest(body[c])}) ELSE seen[c]]

-----------------------------------------------------------------------------
(* GET /live_all_cars *)

\* Mutant: the list of tables is read once and kept.
ListTablesOnce ==
    /\ areq = "idle"
    /\ areq' = "live"
    /\ listed' = IF listed = {} THEN Existing ELSE listed
    /\ todo' = listed'
    /\ snap' = NoSnapshot
    /\ answer' = <<>>
    /\ since' = commits
    /\ UNCHANGED <<listenerVars, reply, seen>>

\* Mutant: the connection, and with it the transaction, is kept between requests.
ListTablesReuses ==
    /\ areq = "idle"
    /\ areq' = "live"
    /\ listed' = Existing
    /\ todo' = Existing
    /\ answer' = <<>>
    /\ since' = commits
    /\ UNCHANGED <<listenerVars, snap, reply, seen>>

\* Mutant: the list of rows outlives the request.
ListTablesAppends ==
    /\ areq = "idle"
    /\ areq' = "live"
    /\ listed' = Existing
    /\ todo' = Existing
    /\ snap' = NoSnapshot
    /\ since' = commits
    /\ UNCHANGED <<listenerVars, answer, reply, seen>>

\* A new connection, and SHOW TABLES, which does not open the snapshot.
ListTables ==
    /\ areq = "idle"
    /\ areq' = "live"
    /\ listed' = Existing
    /\ todo' = Existing
    /\ snap' = NoSnapshot
    /\ answer' = <<>>
    /\ since' = commits
    /\ UNCHANGED <<listenerVars, reply, seen>>

\* Mutant: every SELECT sees the rows committed by then.
ViewCommitted == Committed

\* What a SELECT sees: the first one of a transaction takes the snapshot.
View == IF snap = NoSnapshot THEN Committed ELSE snap

SelectLatest(c) ==
    /\ areq = "live"
    /\ c \in todo
    /\ View[c] # <<>>
    /\ snap' = View
    /\ todo' = todo \ {c}
    /\ answer' = [d \in {c} \union DOMAIN answer |->
                    IF d = c THEN <<Last(View[c])>> ELSE answer[d]]
    /\ UNCHANGED <<listenerVars, areq, listed, since, reply, seen>>

\* No row: row["latitude"] raises, the whole request fails.
SelectEmpty(c) ==
    /\ areq = "live"
    /\ c \in todo
    /\ View[c] = <<>>
    /\ areq' = "idle"
    /\ snap' = View
    /\ UNCHANGED <<listenerVars, listed, todo, answer, since, reply, seen>>

DbError ==
    /\ areq = "live"
    /\ DbFaults
    /\ areq' = "idle"
    /\ UNCHANGED <<listenerVars, listed, todo, snap, answer, since, reply, seen>>

ReplyLive ==
    /\ areq = "live"
    /\ todo = {}
    /\ areq' = "idle"
    /\ Send("live_all_cars", answer, since)
    /\ UNCHANGED <<listenerVars, listed, todo, snap, answer, since>>

-----------------------------------------------------------------------------
(* The routes of one SELECT: nothing of the API runs between their statements. *)

\* GET /live/{car_id}; an empty table fails the request, which changes nothing.
LiveCar(c) ==
    /\ areq = "idle"
    /\ tables[c].rows # <<>>
    /\ Send("live", [d \in {c} |-> <<Last(tables[c].rows)>>], commits)
    /\ UNCHANGED <<listenerVars, areq, listed, todo, snap, answer, since>>

\* GET /fetch_all/{car_id}
FetchAll(c) ==
    /\ areq = "idle"
    /\ tables[c].exists
    /\ Send("fetch_all", [d \in {c} |-> tables[c].rows], commits)
    /\ UNCHANGED <<listenerVars, areq, listed, todo, snap, answer, since>>

LiveAllCars ==
    \/ ListTables \/ DbError \/ ReplyLive
    \/ \E c \in Cars : SelectLatest(c) \/ SelectEmpty(c)

Next ==
    \/ ListenerNext /\ UNCHANGED apiVars
    \/ LiveAllCars
    \/ \E c \in Cars : LiveCar(c) \/ FetchAll(c)

Spec == Init /\ [][Next]_vars

\* The two server processes run, and the map screen keeps polling live_all_cars.
FairSpec == Spec /\ WF_vars(Loop /\ UNCHANGED apiVars) /\ WF_vars(LiveAllCars)

-----------------------------------------------------------------------------
(* What the API promises. *)

\* The rows of the table of c, as a set.
RowsOf(c) == Range(tables[c].rows)

\* What the API works on are rows its tables hold, of the tables it listed (main.py 98-136).
TypeOK ==
    /\ ListenerType
    /\ areq \in {"idle", "live"}
    /\ todo \subseteq listed /\ listed \subseteq Existing
    /\ snap # NoSnapshot => \A c \in Cars : IsPrefix(snap[c], tables[c].rows)
    /\ DOMAIN answer \subseteq listed \ todo
    /\ DOMAIN reply.body \subseteq Existing
    /\ \A c \in DOMAIN reply.body : Range(reply.body[c]) \subseteq RowsOf(c)
    /\ seen \in [Cars -> 0..commits]

\* The newest row of c at the moment of the t-th commit.
NewestAt(c, t) == Max({0} \union {r.stamp : r \in {q \in RowsOf(c) : q.stamp <= t}})

\* The rows of a live_all_cars reply, read one table after the other while the listener
\* commits in between, are those of one moment of the request: a reply never shows one
\* car after and another before some commit (main.py 110-114).
AnswerIsCut ==
    reply.route = "live_all_cars" =>
        \E t \in reply.since..commits :
            \A c \in DOMAIN reply.body : Newest(reply.body[c]) = NewestAt(c, t)

\* Whatever the route, a reply never shows an older newest row of a car than an earlier
\* reply did (main.py 77, 92, 111-114, 146-155, 181-192).
NeverOlder ==
    [][reply' # reply =>
        \A c \in DOMAIN reply'.body : Newest(reply'.body[c]) >= seen[c]]_vars

\* When every stored value can be written, each committed row of a car is shown, or a newer
\* one, by some reply: a request that finds a table without a row fails, but the next ones
\* do not fail for ever (main.py 89-140 polled by map_screen.dart 428-432).
ShownEventually ==
    \A c \in Cars : \A n \in 1..MaxSent :
        Newest(tables[c].rows) >= n ~> seen[c] >= n

\* "Iterate through each car data table and fetch latest data point" (main.py 109): a
\* request that ends answers for every listed car that has a row.
EachTableFetched ==
    [][areq = "live" /\ areq' = "idle" =>
        \A c \in listed : tables[c].rows # <<>> => c \in DOMAIN reply'.body]_vars
=============================================================================
