------------------------------- MODULE Listener -------------------------------
(***************************************************************************)
(* The UDP listener (Backend/UDP-Listener/server.py): a single-threaded    *)
(* loop that receives a datagram, decodes it and stores it as one row of   *)
(* the client's own MySQL table, which it creates when it is not there.    *)
(*                                                                         *)
(* The trackers and the network are the environment: datagrams may be      *)
(* lost, duplicated and reordered.  The database is shared with the API    *)
(* (module Telemetry), so the listener's statements are separate steps:    *)
(* CREATE TABLE commits by itself, INSERT becomes visible at the commit.   *)
(* Every exception of the decoding or of the database ends in the one      *)
(* handler at the end of the loop, which drops the datagram.               *)
(***************************************************************************)
EXTENDS Integers, Sequences, FiniteSets

CONSTANTS
    Clients,    \* client IDs, i.e. table names: car_id_<hash> or device_id_<hash>
    Columns,    \* columns beyond the fixed ones: the OBD parameters
    Kinds,      \* what decoding makes of a datagram: "good", "short", "nan"
    NetFaults,  \* which of "lose", "duplicate", "reorder" the network does
    DbFaults,   \* TRUE when a statement may fail
    MaxSent,    \* bound: datagrams sent, by all clients together
    MaxNet,     \* bound: datagrams in flight
    MaxRows     \* bound: rows that duplicated datagrams may fill up to

Datagrams == [client : Clients, seq : 1..MaxSent, cols : SUBSET Columns, kind : Kinds]

ASSUME ListenerAssumption ==
    /\ Kinds \subseteq {"good", "short", "nan"}
    /\ NetFaults \subseteq {"lose", "duplicate", "reorder"}
    /\ DbFaults \in BOOLEAN
    /\ MaxSent \in Nat
    /\ MaxNet \in Nat \ {0}
    /\ MaxRows \in Nat

VARIABLES
    sent,    \* datagrams sent so far
    net,     \* datagrams in flight, oldest first, the socket buffer included
    lpc,     \* where the listener is
    cur,     \* the datagram it works on, or NoDatagram
    tables,  \* per client: does the table exist, its columns and committed rows
    commits  \* rows committed so far, over all tables

envVars == <<sent, net>>
dbVars == <<tables, commits>>
listenerVars == <<sent, net, lpc, cur, tables, commits>>

NoDatagram == [kind |-> "none"]
NoTable == [exists |-> FALSE, cols |-> {}, rows |-> <<>>]

ListenerInit ==
    /\ sent = {}
    /\ net = <<>>
    /\ lpc = "recv"
    /\ cur = NoDatagram
    /\ tables = [c \in Clients |-> NoTable]
    /\ commits = 0

-----------------------------------------------------------------------------
(* Trackers and network. *)

LastSeq(c) == Cardinality({d \in sent : d.client = c})

\* A tracker sends its next datagram; which parameters the car answered to differs
\* from sweep to sweep.
TrackerSends(c) ==
    /\ Cardinality(sent) < MaxSent
    /\ Len(net) < MaxNet
    /\ \E cols \in SUBSET Columns, kind \in Kinds :
          LET d == [client |-> c, seq |-> LastSeq(c) + 1, cols |-> cols, kind |-> kind] IN
          sent' = sent \union {d} /\ net' = Append(net, d)
    /\ UNCHANGED <<lpc, cur, dbVars>>

Without(s, i) == SubSeq(s, 1, i - 1) \o SubSeq(s, i + 1, Len(s))

Lose ==
    /\ "lose" \in NetFaults
    /\ net # <<>>
    /\ net' = Tail(net)
    /\ UNCHANGED <<sent, lpc, cur, dbVars>>

Duplicate ==
    /\ "duplicate" \in NetFaults
    /\ Len(net) < MaxNet
    /\ commits + Len(net) < MaxRows
    /\ \E i \in DOMAIN net : net' = Append(net, net[i])
    /\ UNCHANGED <<sent, lpc, cur, dbVars>>

-----------------------------------------------------------------------------
(* The loop of the listener. *)

\* recvfrom, and the decoding: not five parts, fewer than the 56 bytes of GNSS and
\* IMU data, or an OBD entry too short for its PID, and the datagram is dropped before
\* the database is touched.
Receive(i) ==
    /\ lpc = "recv"
    /\ i \in DOMAIN net
    /\ "reorder" \in NetFaults \/ i = 1
    /\ net' = Without(net, i)
    /\ IF net[i].kind = "short"
       THEN UNCHANGED <<lpc, cur>>
       ELSE lpc' = "create" /\ cur' = net[i]
    /\ UNCHANGED <<sent, dbVars>>

\* Back to recvfrom.
Done == lpc' = "recv" /\ cur' = NoDatagram

\* Mutant: an exception leaves the datagram current.
ExceptionKeeps ==
    /\ lpc \in {"create", "insert", "commit"}
    /\ DbFaults
    /\ lpc' = "recv"
    /\ UNCHANGED <<envVars, cur, dbVars>>

\* except Exception: connect, CREATE or INSERT failed, nothing is stored, and the
\* datagram is gone.
Exception ==
    /\ lpc \in {"create", "insert", "commit"}
    /\ DbFaults
    /\ Done
    /\ UNCHANGED <<envVars, dbVars>>

\* Mutant: the table gets the columns it misses.
CreateTableAlters ==
    /\ lpc = "create"
    /\ tables' = [tables EXCEPT ![cur.client] =
                    [exists |-> TRUE, cols |-> @.cols \union cur.cols, rows |-> @.rows]]
    /\ lpc' = "insert"
    /\ UNCHANGED <<envVars, cur, commits>>

\* CREATE TABLE IF NOT EXISTS with the columns of this datagram; DDL commits at once.
CreateTable ==
    /\ lpc = "create"
    /\ tables' = IF tables[cur.client].exists THEN tables
                 ELSE [tables EXCEPT ![cur.client] =
                          [exists |-> TRUE, cols |-> cur.cols, rows |-> <<>>]]
    /\ lpc' = "insert"
    /\ UNCHANGED <<envVars, cur, commits>>

\* The server accepts the INSERT only when the table has every column it names and
\* every value is one SQL can write (a NaN is not).
Insertable(d) == d.cols \subseteq tables[d.client].cols /\ d.kind # "nan"

\* Mutant: a rejected column is left out of the row instead of rejecting the row.
InsertDropsColumns ==
    /\ lpc = "insert"
    /\ cur' = [cur EXCEPT !.cols = @ \intersect tables[cur.client].cols]
    /\ lpc' = "commit"
    /\ UNCHANGED <<envVars, dbVars>>

\* The row is in the open transaction, invisible to others.
Insert ==
    /\ lpc = "insert"
    /\ Insertable(cur)
    /\ lpc' = "commit"
    /\ UNCHANGED <<envVars, cur, dbVars>>

\* Mutant: the loop waits for a rejected INSERT to succeed.
InsertRejectedWaits == FALSE /\ UNCHANGED listenerVars

\* The handler runs: the datagram is gone, the table it created stays.
InsertRejected ==
    /\ lpc = "insert"
    /\ ~Insertable(cur)
    /\ Done
    /\ UNCHANGED <<envVars, dbVars>>

Row(d, stamp) == [datagram |-> d, stamp |-> stamp]

\* Mutant: the datagram stays current after the commit and is stored again.
CommitRetries ==
    /\ lpc = "commit"
    /\ commits < MaxSent
    /\ commits' = commits + 1
    /\ tables' = [tables EXCEPT ![cur.client].rows = Append(@, Row(cur, commits + 1))]
    /\ lpc' = "insert"
    /\ UNCHANGED <<envVars, cur>>

\* commit and close.  AUTO_INCREMENT ids follow the order of the commits because
\* there is one listener.  When the connection is lost during the commit the handler
\* runs, whether or not the server did it: the effect is this step or Exception.
Commit ==
    /\ lpc = "commit"
    /\ commits' = commits + 1
    /\ tables' = [tables EXCEPT ![cur.client].rows = Append(@, Row(cur, commits + 1))]
    /\ Done
    /\ UNCHANGED envVars

-----------------------------------------------------------------------------
Environment == (\E c \in Clients : TrackerSends(c)) \/ Lose \/ Duplicate

Loop ==
    \/ \E i \in 1..MaxNet : Receive(i)
    \/ Exception \/ CreateTable \/ Insert \/ InsertRejected \/ Commit

ListenerNext == Environment \/ Loop

ListenerSpec == ListenerInit /\ [][ListenerNext]_listenerVars

-----------------------------------------------------------------------------
(* What the listener promises. *)

RowSet == [datagram : Datagrams, stamp : Nat]

\* Rows and columns of a table that does not exist do not exist either; everything the
\* listener handles is a datagram (server.py 237-353).
ListenerType ==
    /\ sent \subseteq Datagrams
    /\ net \in Seq(Datagrams) /\ Len(net) <= MaxNet
    /\ lpc \in {"recv", "create", "insert", "commit"}
    /\ IF lpc = "recv" THEN cur = NoDatagram ELSE cur \in Datagrams
    /\ tables \in [Clients -> [exists : BOOLEAN, cols : SUBSET Columns, rows : Seq(RowSet)]]
    /\ \A c \in Clients : ~tables[c].exists => tables[c] = NoTable
    /\ commits \in Nat

\* The first datagram of a client fixes the columns of its table for good, whatever the
\* later ones carry (server.py 291, 335-341).
SchemaFrozen ==
    [][\A c \in Clients : tables[c].exists =>
          /\ tables'[c].exists
          /\ tables'[c].cols = tables[c].cols]_listenerVars

\* The log of each table as the abstract specification sees it.
DatagramsOf(rows) == [i \in DOMAIN rows |-> rows[i].datagram]
StoredLog == [c \in Clients |-> DatagramsOf(tables[c].rows)]

Log == INSTANCE CarLog WITH log <- StoredLog

\* The listener implements the append-only log of whole, sent datagrams: nothing is
\* stored in part, under another client or from nowhere (server.py 257-259, 335-349).
ImplementsLog == Log!Spec

\* On a network that does not duplicate or reorder, a table holds its client's datagrams
\* in the order they were sent, each at most once (server.py 237-240, 347-351).
InOrder ==
    \A c \in Clients : \A i, j \in DOMAIN tables[c].rows :
        i < j => tables[c].rows[i].datagram.seq < tables[c].rows[j].datagram.seq

Stored(d) == \E i \in DOMAIN tables[d.client].rows : tables[d.client].rows[i].datagram = d

\* The table is there and refuses the datagram, now and (SchemaFrozen) for ever.
Refused(d) == tables[d.client].exists /\ ~Insertable(d)

\* On a network that loses nothing and with a healthy database, every datagram that can be
\* decoded is stored sooner or later, unless its table lacks one of its columns or a value
\* of it cannot be written: no datagram blocks the ones behind it (server.py 237-353).
EachStored ==
    \A d \in Datagrams :
        d \in sent /\ d.kind # "short" ~> Stored(d) \/ Refused(d)
=============================================================================
