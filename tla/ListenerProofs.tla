---------------------------- MODULE ListenerProofs ----------------------------
(***************************************************************************)
(* Proofs about Listener for every set of clients, columns, kinds of       *)
(* datagrams and faults, and for every bound.                              *)
(***************************************************************************)
EXTENDS Listener, TLAPS, FiniteSetTheorems, SequenceTheorems

\* What is in flight, and what the listener works on, was sent.
Genuine ==
    /\ \A i \in DOMAIN net : net[i] \in sent
    /\ lpc # "recv" => cur \in sent

\* An INSERT, and its commit, follow the CREATE TABLE of the same datagram.
TableThere == lpc \in {"insert", "commit"} => tables[cur.client].exists

IInv == ListenerType /\ IsFiniteSet(sent) /\ Genuine /\ TableThere

\* A sequence without its i-th element is a sequence of some of its elements.
LEMMA WithoutType ==
    ASSUME NEW S, NEW s \in Seq(S), NEW i \in DOMAIN s
    PROVE  /\ Without(s, i) \in Seq(S)
           /\ Len(Without(s, i)) = Len(s) - 1
           /\ \A j \in DOMAIN Without(s, i) : \E k \in DOMAIN s : Without(s, i)[j] = s[k]
<1> DEFINE a == SubSeq(s, 1, i - 1)
           b == SubSeq(s, i + 1, Len(s))
<1>1. i \in 1..Len(s) /\ Len(s) \in Nat
  OBVIOUS
<1>2. /\ a \in Seq(S)
      /\ Len(a) = i - 1
      /\ \A j \in 1..(i - 1) : a[j] = s[j]
  BY <1>1
<1>3. /\ b \in Seq(S)
      /\ Len(b) = Len(s) - i
      /\ \A j \in 1..(Len(s) - i) : b[j] = s[i + j]
  BY <1>1
<1> HIDE DEF a, b
<1>4. /\ a \o b \in Seq(S)
      /\ Len(a \o b) = Len(s) - 1
  BY <1>1, <1>2, <1>3
<1>5. ASSUME NEW j \in DOMAIN (a \o b) PROVE \E k \in DOMAIN s : (a \o b)[j] = s[k]
  <2>1. j \in 1..(Len(s) - 1)
    BY <1>4
  <2>2. CASE j < i
    <3>1. (a \o b)[j] = s[j] /\ j \in DOMAIN s
      BY <2>1, <2>2, <1>1, <1>2, <1>3
    <3> QED
      BY <3>1
  <2>3. CASE j >= i
    <3>1. (a \o b)[j] = s[j + 1] /\ j + 1 \in DOMAIN s
      BY <2>1, <2>3, <1>1, <1>2, <1>3
    <3> QED
      BY <3>1
  <2> QED
    BY <2>1, <2>2, <2>3, <1>1
<1> QED
  BY <1>4, <1>5 DEF Without, a, b

-----------------------------------------------------------------------------
(* Invariance. *)

LEMMA InitIInv == ListenerInit => IInv
<1> SUFFICES ASSUME ListenerInit PROVE IInv
  OBVIOUS
<1>1. ListenerType
  BY ListenerAssumption DEF ListenerInit, ListenerType, NoTable
<1>2. IsFiniteSet(sent)
  BY FS_EmptySet DEF ListenerInit
<1> QED
  BY <1>1, <1>2 DEF ListenerInit, IInv, Genuine, TableThere

\* A tracker's next datagram is numbered within the bound.
LEMMA NextSeq ==
    ASSUME IInv, NEW c \in Clients, Cardinality(sent) < MaxSent
    PROVE  LastSeq(c) \in Nat /\ LastSeq(c) + 1 \in 1..MaxSent
<1> DEFINE own == {d \in sent : d.client = c}
<1>1. /\ Cardinality(own) \in Nat
      /\ Cardinality(sent) \in Nat
      /\ Cardinality(own) <= Cardinality(sent)
  <2>1. own \subseteq sent /\ IsFiniteSet(sent)
    BY DEF IInv
  <2> QED
    BY <2>1, FS_Subset, FS_CardinalityType
<1> QED
  BY <1>1, ListenerAssumption DEF LastSeq

LEMMA SendsStep ==
    ASSUME IInv, NEW c \in Clients, TrackerSends(c)
    PROVE  IInv' /\ \E d \in Datagrams : sent' = sent \union {d} /\ UNCHANGED tables
<1>1. PICK d \in Datagrams : sent' = sent \union {d} /\ net' = Append(net, d)
  <2>1. PICK cols \in SUBSET Columns, kind \in Kinds :
           LET d == [client |-> c, seq |-> LastSeq(c) + 1, cols |-> cols, kind |-> kind] IN
           sent' = sent \union {d} /\ net' = Append(net, d)
    BY DEF TrackerSends
  <2>2. LastSeq(c) + 1 \in 1..MaxSent
    BY NextSeq DEF TrackerSends
  <2> QED
    BY <2>1, <2>2 DEF Datagrams
<1>2. /\ net \in Seq(Datagrams) /\ Len(net) < MaxNet /\ MaxNet \in Nat
      /\ UNCHANGED <<lpc, cur, tables, commits>>
  BY ListenerAssumption DEF TrackerSends, IInv, ListenerType, dbVars
<1>3. /\ net' \in Seq(Datagrams) /\ Len(net') = Len(net) + 1
      /\ \A i \in DOMAIN net' : net'[i] = d \/ \E k \in DOMAIN net : net'[i] = net[k]
  <2>1. \A i \in 1..Len(net) : net'[i] = net[i]
    BY <1>1, <1>2
  <2>2. net'[Len(net) + 1] = d /\ net' \in Seq(Datagrams) /\ Len(net') = Len(net) + 1
    BY <1>1, <1>2
  <2> QED
    BY <2>1, <2>2, <1>2
<1>4. IsFiniteSet(sent')
  BY <1>1, FS_AddElement DEF IInv
<1>5. Genuine'
  BY <1>1, <1>2, <1>3 DEF IInv, Genuine
<1>6. ListenerType'
  BY <1>1, <1>2, <1>3 DEF IInv, ListenerType
<1> QED
  BY <1>1, <1>2, <1>4, <1>5, <1>6 DEF IInv, TableThere

LEMMA LoseStep ==
    ASSUME IInv, Lose
    PROVE  IInv' /\ UNCHANGED <<sent, tables>>
<1>1. /\ net \in Seq(Datagrams) /\ net # <<>> /\ net' = Tail(net)
      /\ Len(net) <= MaxNet /\ MaxNet \in Nat
      /\ UNCHANGED <<sent, lpc, cur, tables, commits>>
  BY ListenerAssumption DEF Lose, IInv, ListenerType, dbVars
<1>2. /\ net' \in Seq(Datagrams) /\ Len(net') = Len(net) - 1
      /\ \A i \in 1..Len(net') : net'[i] = net[i + 1] /\ i + 1 \in DOMAIN net
  BY <1>1
<1>3. Genuine'
  BY <1>1, <1>2 DEF IInv, Genuine
<1>4. ListenerType'
  BY <1>1, <1>2 DEF IInv, ListenerType
<1> QED
  BY <1>1, <1>3, <1>4 DEF IInv, TableThere

LEMMA DuplicateStep ==
    ASSUME IInv, Duplicate
    PROVE  IInv' /\ UNCHANGED <<sent, tables>>
<1>1. /\ net \in Seq(Datagrams) /\ Len(net) < MaxNet /\ MaxNet \in Nat
      /\ UNCHANGED <<sent, lpc, cur, tables, commits>>
  BY ListenerAssumption DEF Duplicate, IInv, ListenerType, dbVars
<1>2. PICK k \in DOMAIN net : net' = Append(net, net[k])
  BY DEF Duplicate
<1>3. net[k] \in Datagrams /\ net[k] \in sent
  BY <1>1 DEF IInv, Genuine
<1>4. /\ net' \in Seq(Datagrams) /\ Len(net') = Len(net) + 1
      /\ \A i \in 1..Len(net) : net'[i] = net[i]
      /\ net'[Len(net) + 1] = net[k]
  BY <1>1, <1>2, <1>3
<1>5. Genuine'
  <2>1. ASSUME NEW i \in DOMAIN net' PROVE net'[i] \in sent
    BY <1>1, <1>3, <1>4 DEF IInv, Genuine
  <2> QED
    BY <2>1, <1>1 DEF IInv, Genuine
<1>6. ListenerType'
  BY <1>1, <1>4 DEF IInv, ListenerType
<1> QED
  BY <1>1, <1>5, <1>6 DEF IInv, TableThere

LEMMA ReceiveStep ==
    ASSUME IInv, NEW i \in 1..MaxNet, Receive(i)
    PROVE  IInv' /\ UNCHANGED <<sent, tables>>
<1>1. /\ net \in Seq(Datagrams) /\ i \in DOMAIN net /\ net' = Without(net, i)
      /\ Len(net) <= MaxNet /\ MaxNet \in Nat
      /\ UNCHANGED <<sent, tables, commits>>
      /\ lpc = "recv" /\ cur = NoDatagram
  BY ListenerAssumption DEF Receive, IInv, ListenerType, dbVars
<1>2. /\ net' \in Seq(Datagrams) /\ Len(net') = Len(net) - 1
      /\ \A j \in DOMAIN net' : \E k \in DOMAIN net : net'[j] = net[k]
  BY <1>1, WithoutType
<1>3. net[i] \in Datagrams /\ net[i] \in sent
  BY <1>1 DEF IInv, Genuine
<1>4. \/ lpc' = "recv" /\ cur' = NoDatagram
      \/ lpc' = "create" /\ cur' = net[i]
  BY <1>1 DEF Receive
<1>5. Genuine'
  BY <1>1, <1>2, <1>3, <1>4 DEF IInv, Genuine
<1>6. ListenerType'
  BY <1>1, <1>2, <1>3, <1>4 DEF IInv, ListenerType
<1> QED
  BY <1>1, <1>4, <1>5, <1>6 DEF IInv, TableThere

LEMMA DropStep ==
    ASSUME IInv, Exception \/ InsertRejected
    PROVE  IInv' /\ UNCHANGED <<sent, tables>>
BY DEF Exception, InsertRejected, Done, IInv, Genuine, TableThere, ListenerType, envVars, dbVars

LEMMA InsertStep ==
    ASSUME IInv, Insert
    PROVE  IInv' /\ UNCHANGED <<sent, tables>>
BY DEF Insert, IInv, Genuine, TableThere, ListenerType, envVars, dbVars

\* What is known of the datagram the listener works on.
LEMMA CurrentType ==
    ASSUME IInv, lpc # "recv"
    PROVE  /\ cur \in Datagrams /\ cur \in sent
           /\ cur.client \in Clients /\ cur.cols \in SUBSET Columns
BY DEF IInv, Genuine, ListenerType, Datagrams

LEMMA CreateStep ==
    ASSUME IInv, CreateTable
    PROVE  /\ IInv' /\ UNCHANGED sent
           /\ \A c \in Clients : /\ tables'[c].rows = tables[c].rows
                                 /\ tables[c].exists => tables'[c] = tables[c]
<1>1. /\ lpc = "create" /\ lpc' = "insert"
      /\ UNCHANGED <<sent, net, cur, commits>>
      /\ tables' = IF tables[cur.client].exists THEN tables
                   ELSE [tables EXCEPT ![cur.client] =
                            [exists |-> TRUE, cols |-> cur.cols, rows |-> <<>>]]
  BY DEF CreateTable, envVars
<1>2. cur.client \in Clients /\ cur.cols \in SUBSET Columns /\ cur \in Datagrams /\ cur \in sent
  BY <1>1, CurrentType
<1>3. /\ tables \in [Clients -> [exists : BOOLEAN, cols : SUBSET Columns, rows : Seq(RowSet)]]
      /\ \A c \in Clients : ~tables[c].exists => tables[c] = NoTable
  BY DEF IInv, ListenerType
<1>4. [exists |-> TRUE, cols |-> cur.cols, rows |-> <<>>]
        \in [exists : BOOLEAN, cols : SUBSET Columns, rows : Seq(RowSet)]
  BY <1>2
<1>5. tables' \in [Clients -> [exists : BOOLEAN, cols : SUBSET Columns, rows : Seq(RowSet)]]
  BY <1>1, <1>2, <1>3, <1>4
<1>6. ASSUME NEW c \in Clients
      PROVE  /\ tables'[c].rows = tables[c].rows
             /\ tables[c].exists => tables'[c] = tables[c]
             /\ c = cur.client => tables'[c].exists
             /\ ~tables'[c].exists => tables'[c] = NoTable
  <2>1. CASE tables[cur.client].exists \/ c # cur.client
    BY <2>1, <1>1, <1>2, <1>3
  <2>2. CASE ~tables[cur.client].exists /\ c = cur.client
    <3>1. tables'[c] = [exists |-> TRUE, cols |-> cur.cols, rows |-> <<>>]
      BY <2>2, <1>1, <1>2, <1>3
    <3>2. tables[c].rows = <<>>
      BY <2>2, <1>3 DEF NoTable
    <3> QED
      BY <2>2, <3>1, <3>2
  <2> QED
    BY <2>1, <2>2
<1>7. Genuine'
  BY <1>1, <1>2 DEF IInv, Genuine
<1>8. ListenerType'
  BY <1>1, <1>2, <1>5, <1>6 DEF IInv, ListenerType
<1>9. TableThere'
  BY <1>1, <1>2, <1>6 DEF TableThere
<1> QED
  BY <1>1, <1>6, <1>7, <1>8, <1>9 DEF IInv

LEMMA CommitStep ==
    ASSUME IInv, Commit
    PROVE  /\ IInv' /\ UNCHANGED sent
           /\ cur \in Datagrams /\ cur \in sent /\ commits \in Nat
           /\ tables' = [tables EXCEPT ![cur.client].rows = Append(@, Row(cur, commits + 1))]
           /\ \A c \in Clients : /\ tables'[c].exists = tables[c].exists
                                 /\ tables'[c].cols = tables[c].cols
<1>1. /\ lpc = "commit" /\ lpc' = "recv" /\ cur' = NoDatagram
      /\ UNCHANGED <<sent, net>>
      /\ commits' = commits + 1
      /\ tables' = [tables EXCEPT ![cur.client].rows = Append(@, Row(cur, commits + 1))]
  BY DEF Commit, Done, envVars
<1>2. cur.client \in Clients /\ cur \in Datagrams /\ cur \in sent
  BY <1>1, CurrentType
<1>3. /\ tables \in [Clients -> [exists : BOOLEAN, cols : SUBSET Columns, rows : Seq(RowSet)]]
      /\ \A c \in Clients : ~tables[c].exists => tables[c] = NoTable
      /\ commits \in Nat
  BY DEF IInv, ListenerType
<1>4. tables[cur.client].exists
  BY <1>1 DEF IInv, TableThere
<1>5. Append(tables[cur.client].rows, Row(cur, commits + 1)) \in Seq(RowSet)
  <2>1. Row(cur, commits + 1) \in RowSet
    BY <1>2, <1>3 DEF Row, RowSet
  <2>2. tables[cur.client].rows \in Seq(RowSet)
    BY <1>2, <1>3
  <2> QED
    BY <2>1, <2>2
<1>6. ASSUME NEW c \in Clients
      PROVE  /\ tables'[c] \in [exists : BOOLEAN, cols : SUBSET Columns, rows : Seq(RowSet)]
             /\ tables'[c].exists = tables[c].exists
             /\ tables'[c].cols = tables[c].cols
             /\ ~tables'[c].exists => tables'[c] = NoTable
  <2>1. CASE c = cur.client
    BY <2>1, <1>1, <1>2, <1>3, <1>4, <1>5
  <2>2. CASE c # cur.client
    BY <2>2, <1>1, <1>2, <1>3
  <2> QED
    BY <2>1, <2>2
<1>7. tables' \in [Clients -> [exists : BOOLEAN, cols : SUBSET Columns, rows : Seq(RowSet)]]
  BY <1>1, <1>3, <1>6
<1>8. ListenerType'
  <2>1. sent \subseteq Datagrams /\ net \in Seq(Datagrams) /\ Len(net) <= MaxNet
    BY DEF IInv, ListenerType
  <2>2. \A c \in Clients : ~tables'[c].exists => tables'[c] = NoTable
    BY <1>6
  <2>3. commits' \in Nat
    BY <1>1, <1>3
  <2> QED
    BY <2>1, <2>2, <2>3, <1>1, <1>7 DEF ListenerType
<1>9. Genuine' /\ TableThere'
  BY <1>1 DEF IInv, Genuine, TableThere
<1> QED
  BY <1>1, <1>2, <1>3, <1>6, <1>8, <1>9 DEF IInv

LEMMA Inductive == IInv /\ [ListenerNext]_listenerVars => IInv'
<1> SUFFICES ASSUME IInv, [ListenerNext]_listenerVars PROVE IInv'
  OBVIOUS
<1>1. CASE UNCHANGED listenerVars
  BY <1>1 DEF listenerVars, IInv, ListenerType, Genuine, TableThere
<1>2. CASE Environment
  BY <1>2, SendsStep, LoseStep, DuplicateStep DEF Environment
<1>3. CASE Loop
  BY <1>3, ReceiveStep, DropStep, InsertStep, CreateStep, CommitStep DEF Loop
<1> QED
  BY <1>1, <1>2, <1>3 DEF ListenerNext

LEMMA Invariance == ListenerSpec => []IInv
<1>1. ListenerInit => IInv
  BY InitIInv
<1>2. IInv /\ [ListenerNext]_listenerVars => IInv'
  BY Inductive
<1> QED
  BY <1>1, <1>2, PTL DEF ListenerSpec

\* Whatever is sent, lost, duplicated, reordered or fails, the listener only works on
\* datagrams, and its tables hold rows of datagrams (server.py 237-353).
THEOREM ListenerTypeCorrect == ListenerSpec => []ListenerType
<1>1. IInv => ListenerType
  BY DEF IInv
<1> QED
  BY <1>1, Invariance, PTL

-----------------------------------------------------------------------------
\* No datagram changes the columns of a table that is there, or removes it
\* (server.py 291, 335-341).
THEOREM Frozen == ListenerSpec => SchemaFrozen
<1> DEFINE Kept == \A c \in Clients : tables[c].exists =>
                      /\ tables'[c].exists
                      /\ tables'[c].cols = tables[c].cols
<1>1. IInv /\ [ListenerNext]_listenerVars => [Kept]_listenerVars
  <2> SUFFICES ASSUME IInv, ListenerNext PROVE Kept
    OBVIOUS
  <2>1. CASE Environment
    BY <2>1, SendsStep, LoseStep, DuplicateStep DEF Environment
  <2>2. CASE CreateTable
    BY <2>2, CreateStep
  <2>3. CASE Commit
    BY <2>3, CommitStep
  <2>4. CASE Loop /\ ~CreateTable /\ ~Commit
    BY <2>4, ReceiveStep, DropStep, InsertStep DEF Loop
  <2> QED
    BY <2>1, <2>2, <2>3, <2>4 DEF ListenerNext
<1> QED
  BY <1>1, Invariance, PTL DEF ListenerSpec, SchemaFrozen

-----------------------------------------------------------------------------
(* Refinement: the listener implements CarLog. *)

\* The logs depend on the rows only.
LEMMA SameLog ==
    ASSUME \A c \in Clients : tables'[c].rows = tables[c].rows
    PROVE  UNCHANGED StoredLog
BY DEF StoredLog

\* Appending a row appends its datagram to the log.
LEMMA AppendToLog ==
    ASSUME NEW rows \in Seq(RowSet), NEW d \in Datagrams, NEW stamp \in Nat
    PROVE  DatagramsOf(Append(rows, Row(d, stamp))) = Append(DatagramsOf(rows), d)
<1> DEFINE more == Append(rows, Row(d, stamp))
           old == DatagramsOf(rows)
           new == DatagramsOf(more)
<1>1. Row(d, stamp) \in RowSet /\ Row(d, stamp).datagram = d
  BY DEF Row, RowSet
<1>2. /\ more \in Seq(RowSet) /\ Len(more) = Len(rows) + 1 /\ Len(rows) \in Nat
      /\ \A i \in 1..Len(rows) : more[i] = rows[i]
      /\ more[Len(rows) + 1] = Row(d, stamp)
  BY <1>1
<1>3. old \in Seq(Datagrams) /\ Len(old) = Len(rows)
  <2>1. ASSUME NEW i \in 1..Len(rows) PROVE rows[i].datagram \in Datagrams
    <3>1. rows[i] \in RowSet
      BY ElementOfSeq
    <3> QED
      BY <3>1 DEF RowSet
  <2> QED
    BY <2>1, <1>2, IsASeq DEF DatagramsOf
<1>4. new \in Seq(Datagrams) /\ Len(new) = Len(rows) + 1
  <2>1. ASSUME NEW i \in 1..Len(more) PROVE more[i].datagram \in Datagrams
    <3>1. more[i] \in RowSet
      BY <1>2, ElementOfSeq
    <3> QED
      BY <3>1 DEF RowSet
  <2> QED
    BY <2>1, <1>2, IsASeq DEF DatagramsOf
<1>5. \A i \in 1..Len(rows) : old[i] = rows[i].datagram /\ new[i] = rows[i].datagram
  BY <1>2 DEF DatagramsOf
<1>6. new[Len(rows) + 1] = d
  BY <1>1, <1>2 DEF DatagramsOf
<1> HIDE DEF old, new, more
<1>7. /\ Append(old, d) \in Seq(Datagrams) /\ Len(Append(old, d)) = Len(rows) + 1
      /\ \A i \in 1..Len(rows) : Append(old, d)[i] = old[i]
      /\ Append(old, d)[Len(rows) + 1] = d
  BY <1>3
<1>8. \A i \in 1..Len(new) : new[i] = Append(old, d)[i]
  BY <1>2, <1>4, <1>5, <1>6, <1>7
<1>9. new = Append(old, d)
  BY <1>4, <1>7, <1>8, SeqEqual
<1> QED
  BY <1>9 DEF old, new, more

LEMMA LogInit == ListenerInit => Log!Init
<1> SUFFICES ASSUME ListenerInit PROVE Log!Init
  OBVIOUS
<1>1. ASSUME NEW c \in Clients PROVE DatagramsOf(tables[c].rows) = <<>>
  <2>1. tables[c].rows = <<>>
    BY DEF ListenerInit, NoTable
  <2> QED
    BY <2>1 DEF DatagramsOf
<1> QED
  BY <1>1 DEF ListenerInit, Log!Init, StoredLog

LEMMA CommitStores == IInv /\ Commit => Log!Store(cur)
<1> SUFFICES ASSUME IInv, Commit PROVE Log!Store(cur)
  OBVIOUS
<1>1. /\ UNCHANGED sent
      /\ cur \in Datagrams /\ cur \in sent /\ commits \in Nat
      /\ tables' = [tables EXCEPT ![cur.client].rows = Append(@, Row(cur, commits + 1))]
  BY CommitStep
<1>2. cur.client \in Clients
  BY <1>1 DEF Datagrams
<1>3. tables \in [Clients -> [exists : BOOLEAN, cols : SUBSET Columns, rows : Seq(RowSet)]]
  BY DEF IInv, ListenerType
<1>4. ASSUME NEW c \in Clients
      PROVE  StoredLog'[c] = IF c = cur.client THEN Append(StoredLog[c], cur) ELSE StoredLog[c]
  <2>1. tables[c].rows \in Seq(RowSet)
    BY <1>3
  <2>2. CASE c = cur.client
    <3>1. tables'[c].rows = Append(tables[c].rows, Row(cur, commits + 1))
      BY <2>2, <1>1, <1>2, <1>3
    <3>2. commits + 1 \in Nat
      BY <1>1
    <3>3. DatagramsOf(tables'[c].rows) = Append(DatagramsOf(tables[c].rows), cur)
      BY <3>1, <3>2, <2>1, <1>1, AppendToLog
    <3> QED
      BY <2>2, <3>3 DEF StoredLog
  <2>3. CASE c # cur.client
    <3>1. tables'[c].rows = tables[c].rows
      BY <2>3, <1>1, <1>2, <1>3
    <3> QED
      BY <2>3, <3>1 DEF StoredLog
  <2> QED
    BY <2>2, <2>3
<1>5. StoredLog' = [StoredLog EXCEPT ![cur.client] = Append(@, cur)]
  BY <1>2, <1>4 DEF StoredLog
<1> QED
  BY <1>1, <1>5 DEF Log!Store

LEMMA LogStep == IInv /\ [ListenerNext]_listenerVars => [Log!Next]_<<sent, StoredLog>>
<1> SUFFICES ASSUME IInv, [ListenerNext]_listenerVars
             PROVE  Log!Next \/ UNCHANGED <<sent, StoredLog>>
  OBVIOUS
<1>1. CASE UNCHANGED listenerVars
  BY <1>1, SameLog DEF listenerVars
<1>2. ASSUME NEW c \in Clients, TrackerSends(c) PROVE Log!Next
  <2>1. PICK d \in Datagrams : sent' = sent \union {d} /\ UNCHANGED tables
    BY <1>2, SendsStep
  <2>2. UNCHANGED StoredLog
    BY <2>1, SameLog
  <2> QED
    BY <2>1, <2>2 DEF Log!Next, Log!Emit
<1>3. CASE Lose \/ Duplicate
  BY <1>3, LoseStep, DuplicateStep, SameLog
<1>4. CASE Commit
  <2>1. cur \in Datagrams
    BY <1>4, CommitStep
  <2> QED
    BY <1>4, <2>1, CommitStores DEF Log!Next
<1>5. CASE CreateTable
  BY <1>5, CreateStep, SameLog
<1>6. CASE Loop /\ ~CreateTable /\ ~Commit
  BY <1>6, ReceiveStep, DropStep, InsertStep, SameLog DEF Loop
<1> QED
  BY <1>1, <1>2, <1>3, <1>4, <1>5, <1>6 DEF ListenerNext, Environment

\* The listener's tables are append-only logs of whole datagrams that their clients sent:
\* every step of the listener, of a tracker or of the network is a step of CarLog or leaves
\* the logs alone (server.py 257-259, 335-349).
THEOREM Implements == ListenerSpec => ImplementsLog
<1>1. ListenerInit => Log!Init
  BY LogInit
<1>2. IInv /\ [ListenerNext]_listenerVars => [Log!Next]_<<sent, StoredLog>>
  BY LogStep
<1> QED
  BY <1>1, <1>2, Invariance, PTL DEF ListenerSpec, ImplementsLog, Log!Spec

-----------------------------------------------------------------------------
(* Order: on a network that at most loses datagrams, the tables are in the  *)
(* order of sending.                                                        *)

\* Of one client, d was sent before e.
Before(d, e) == d.client = e.client => d.seq < e.seq

\* The numbers given out so far, and the order of a client's datagrams in flight.
NetOrdered ==
    /\ \A d \in sent : d.seq <= LastSeq(d.client)
    /\ \A i, j \in DOMAIN net : i < j => Before(net[i], net[j])

\* What the listener works on was sent before everything in flight.
CurrentFirst == lpc # "recv" => \A j \in DOMAIN net : Before(cur, net[j])

\* What is stored in the table of c was sent by c, and before what is still to come.
StoredBefore(c) == \A i \in DOMAIN tables[c].rows :
    LET d == tables[c].rows[i].datagram IN
    /\ d.client = c /\ d \in sent
    /\ \A j \in DOMAIN net : Before(d, net[j])
    /\ lpc # "recv" => Before(d, cur)

OrderInv == NetOrdered /\ CurrentFirst /\ (\A c \in Clients : StoredBefore(c)) /\ InOrder

LEMMA InitOrder == ListenerInit => OrderInv
BY DEF ListenerInit, OrderInv, NetOrdered, CurrentFirst, StoredBefore, InOrder, NoTable

\* Another datagram sent leaves the numbers of the others' datagrams alone.
LEMMA SeqGrows ==
    ASSUME IInv, NEW d \in Datagrams, d.seq = LastSeq(d.client) + 1, NetOrdered,
           sent' = sent \union {d}
    PROVE  \A e \in sent' : e.seq <= LastSeq(e.client)'
<1>1. ASSUME NEW e \in sent'
      PROVE  e.seq <= LastSeq(e.client)'
  <2> DEFINE own == {x \in sent : x.client = e.client}
             more == {x \in sent' : x.client = e.client}
  <2>1. IsFiniteSet(own) /\ IsFiniteSet(more) /\ own \subseteq more
    BY FS_Subset, FS_AddElement DEF IInv
  <2>2. /\ Cardinality(own) \in Nat /\ Cardinality(more) \in Nat
        /\ Cardinality(own) <= Cardinality(more)
    BY <2>1, FS_Subset, FS_CardinalityType
  <2>3. d.seq \in Nat /\ (e \in Datagrams => e.seq \in Nat)
    BY ListenerAssumption DEF Datagrams
  <2>4. CASE e \in sent
    <3>1. e.seq <= Cardinality(own) /\ e \in Datagrams
      BY <2>4 DEF NetOrdered, LastSeq, IInv, ListenerType
    <3> QED
      BY <3>1, <2>2, <2>3 DEF LastSeq
  <2>5. CASE e = d /\ e \notin sent
    <3>1. more = own \union {d} /\ d \notin own
      BY <2>5
    <3>2. Cardinality(more) = Cardinality(own) + 1
      BY <3>1, <2>1, FS_AddElement
    <3>3. e.seq = Cardinality(own) + 1
      BY <2>5 DEF LastSeq
    <3> QED
      BY <3>2, <3>3, <2>2 DEF LastSeq
  <2> QED
    BY <2>4, <2>5
<1> QED
  BY <1>1

LEMMA SendsOrdered ==
    ASSUME IInv, OrderInv, NEW c \in Clients, TrackerSends(c)
    PROVE  OrderInv'
<1>1. PICK d \in Datagrams : /\ sent' = sent \union {d} /\ net' = Append(net, d)
                             /\ d.client = c /\ d.seq = LastSeq(c) + 1
  <2>1. PICK cols \in SUBSET Columns, kind \in Kinds :
           LET d == [client |-> c, seq |-> LastSeq(c) + 1, cols |-> cols, kind |-> kind] IN
           sent' = sent \union {d} /\ net' = Append(net, d)
    BY DEF TrackerSends
  <2>2. LastSeq(c) + 1 \in 1..MaxSent
    BY NextSeq DEF TrackerSends
  <2> QED
    BY <2>1, <2>2 DEF Datagrams
<1>2. net \in Seq(Datagrams) /\ sent \subseteq Datagrams /\ UNCHANGED <<lpc, cur, tables>>
  BY DEF TrackerSends, IInv, ListenerType, dbVars
<1>3. /\ Len(net') = Len(net) + 1 /\ Len(net) \in Nat
      /\ net'[Len(net) + 1] = d
      /\ \A i \in DOMAIN net : net'[i] = net[i] /\ net[i] \in sent
      /\ DOMAIN net' = 1..(Len(net) + 1) /\ DOMAIN net = 1..Len(net)
  BY <1>1, <1>2 DEF IInv, Genuine
<1>4. ASSUME NEW e \in sent PROVE Before(e, d)
  <2>1. e \in Datagrams /\ e.seq <= LastSeq(e.client)
    BY <1>2 DEF OrderInv, NetOrdered
  <2> QED
    BY <2>1, <1>1, NextSeq, ListenerAssumption DEF Before, Datagrams, TrackerSends
<1>5. \A e \in sent' : e.seq <= LastSeq(e.client)'
  BY <1>1, SeqGrows DEF OrderInv
<1>6. NetOrdered'
  <2>1. ASSUME NEW i \in DOMAIN net', NEW j \in DOMAIN net', i < j
        PROVE  Before(net'[i], net'[j])
    <3>1. i \in DOMAIN net /\ (j \in DOMAIN net \/ j = Len(net) + 1)
      BY <2>1, <1>3
    <3> QED
      BY <3>1, <2>1, <1>3, <1>4 DEF OrderInv, NetOrdered
  <2> QED
    BY <2>1, <1>5 DEF NetOrdered
<1>7. ASSUME NEW e \in sent, \A j \in DOMAIN net : Before(e, net[j])
      PROVE  \A j \in DOMAIN net' : Before(e, net'[j])
  BY <1>3, <1>4, <1>7
<1>8. CurrentFirst'
  BY <1>2, <1>7 DEF OrderInv, CurrentFirst, IInv, Genuine
<1>9. \A k \in Clients : StoredBefore(k)'
  BY <1>1, <1>2, <1>7 DEF OrderInv, StoredBefore
<1>10. InOrder'
  BY <1>2 DEF OrderInv, InOrder
<1> QED
  BY <1>6, <1>8, <1>9, <1>10 DEF OrderInv

\* The oldest datagram leaves the network, lost or taken by the listener.
LEMMA TailOrdered ==
    ASSUME IInv, OrderInv, net # <<>>, net' = Tail(net), UNCHANGED <<sent, tables>>,
           \/ UNCHANGED <<lpc, cur>>
           \/ lpc' = "create" /\ cur' = Head(net)
    PROVE  OrderInv'
<1>1. net \in Seq(Datagrams)
  BY DEF IInv, ListenerType
<1>2. /\ Len(net') = Len(net) - 1 /\ Len(net) \in Nat /\ Head(net) = net[1]
      /\ DOMAIN net' = 1..(Len(net) - 1) /\ DOMAIN net = 1..Len(net)
      /\ \A i \in DOMAIN net' : net'[i] = net[i + 1] /\ i + 1 \in DOMAIN net /\ 1 < i + 1
  BY <1>1
<1>3. NetOrdered'
  BY <1>2 DEF OrderInv, NetOrdered, LastSeq
<1>4. CurrentFirst'
  BY <1>2 DEF OrderInv, NetOrdered, CurrentFirst
<1>5. \A c \in Clients : StoredBefore(c)'
  BY <1>2 DEF OrderInv, StoredBefore
<1> QED
  BY <1>3, <1>4, <1>5 DEF OrderInv, InOrder

LEMMA ReceiveOrdered ==
    ASSUME IInv, OrderInv, "reorder" \notin NetFaults, NEW i \in 1..MaxNet, Receive(i)
    PROVE  OrderInv'
<1>1. /\ i = 1 /\ i \in DOMAIN net /\ net' = Without(net, 1) /\ net \in Seq(Datagrams)
      /\ UNCHANGED <<sent, tables>>
  BY DEF Receive, IInv, ListenerType, dbVars
<1>2. net # <<>> /\ net' = Tail(net) /\ net[1] = Head(net)
  <2>1. SubSeq(net, 1, 0) = <<>> /\ SubSeq(net, 2, Len(net)) = Tail(net)
    BY <1>1, SubSeqEmpty, TailIsSubSeq
  <2>2. Tail(net) \in Seq(Datagrams)
    BY <1>1
  <2> QED
    BY <1>1, <2>1, <2>2, ConcatEmptySeq DEF Without
<1>3. \/ UNCHANGED <<lpc, cur>>
      \/ lpc' = "create" /\ cur' = Head(net)
  BY <1>1, <1>2 DEF Receive
<1> QED
  BY <1>1, <1>2, <1>3, TailOrdered

\* The steps between recvfrom and the commit store nothing.
LEMMA WorkOrdered ==
    ASSUME IInv, OrderInv, UNCHANGED <<sent, net>>,
           \A c \in Clients : tables'[c].rows = tables[c].rows,
           lpc' = "recv" \/ (lpc # "recv" /\ UNCHANGED cur)
    PROVE  OrderInv'
BY DEF OrderInv, NetOrdered, LastSeq, CurrentFirst, StoredBefore, InOrder

LEMMA CommitOrdered ==
    ASSUME IInv, OrderInv, Commit
    PROVE  OrderInv'
<1>1. /\ lpc = "commit" /\ lpc' = "recv" /\ UNCHANGED <<sent, net>>
      /\ cur \in Datagrams /\ cur \in sent /\ commits \in Nat
      /\ tables' = [tables EXCEPT ![cur.client].rows = Append(@, Row(cur, commits + 1))]
  BY CommitStep DEF Commit, Done, envVars
<1>2. /\ cur.client \in Clients
      /\ tables \in [Clients -> [exists : BOOLEAN, cols : SUBSET Columns, rows : Seq(RowSet)]]
  BY <1>1 DEF Datagrams, IInv, ListenerType
<1>3. ASSUME NEW c \in Clients
      PROVE  /\ StoredBefore(c)'
             /\ \A i, j \in DOMAIN tables'[c].rows :
                   i < j => tables'[c].rows[i].datagram.seq < tables'[c].rows[j].datagram.seq
  <2>1. CASE c # cur.client
    <3>1. tables'[c] = tables[c]
      BY <2>1, <1>1, <1>2
    <3> QED
      BY <3>1, <1>1 DEF OrderInv, StoredBefore, InOrder
  <2>2. CASE c = cur.client
    <3> DEFINE old == tables[c].rows
               new == tables'[c].rows
    <3>1. old \in Seq(RowSet) /\ Row(cur, commits + 1) \in RowSet
      <4>1. old \in Seq(RowSet)
        BY <1>2
      <4>2. Row(cur, commits + 1) \in RowSet
        BY <1>1 DEF Row, RowSet
      <4> QED
        BY <4>1, <4>2
    <3>2. new = Append(old, Row(cur, commits + 1))
      BY <2>2, <1>1, <1>2
    <3>3. /\ Len(old) \in Nat /\ DOMAIN old = 1..Len(old) /\ DOMAIN new = 1..(Len(old) + 1)
          /\ \A i \in DOMAIN old : new[i].datagram = old[i].datagram
          /\ new[Len(old) + 1].datagram = cur
      BY <3>1, <3>2 DEF Row
    <3>4. \A i \in DOMAIN old : /\ old[i].datagram.client = c /\ old[i].datagram \in sent
                                /\ old[i].datagram.seq < cur.seq
                                /\ \A j \in DOMAIN net : Before(old[i].datagram, net[j])
      BY <2>2, <1>1 DEF OrderInv, StoredBefore, Before
    <3>5. \A j \in DOMAIN net : Before(cur, net[j])
      BY <1>1 DEF OrderInv, CurrentFirst
    <3>6. \A i, j \in DOMAIN old : i < j => old[i].datagram.seq < old[j].datagram.seq
      BY DEF OrderInv, InOrder
    <3>7. ASSUME NEW i \in DOMAIN new
          PROVE  /\ new[i].datagram.client = c /\ new[i].datagram \in sent
                 /\ \A j \in DOMAIN net : Before(new[i].datagram, net[j])
      <4>1. i \in DOMAIN old \/ i = Len(old) + 1
        BY <3>3
      <4> QED
        BY <4>1, <3>3, <3>4, <3>5, <2>2, <1>1
    <3>8. ASSUME NEW i \in DOMAIN new, NEW j \in DOMAIN new, i < j
          PROVE  new[i].datagram.seq < new[j].datagram.seq
      <4>1. i \in DOMAIN old /\ (j \in DOMAIN old \/ j = Len(old) + 1)
        BY <3>3, <3>8
      <4> QED
        BY <4>1, <3>3, <3>4, <3>6, <3>8
    <3> QED
      BY <3>7, <3>8, <1>1 DEF StoredBefore
  <2> QED
    BY <2>1, <2>2
<1>4. NetOrdered' /\ CurrentFirst'
  BY <1>1 DEF OrderInv, NetOrdered, LastSeq, CurrentFirst
<1> QED
  BY <1>3, <1>4 DEF OrderInv, InOrder

LEMMA StepOrdered ==
    ASSUME NetFaults \subseteq {"lose"}, IInv, OrderInv, [ListenerNext]_listenerVars
    PROVE  OrderInv'
<1>1. CASE UNCHANGED listenerVars
  BY <1>1 DEF listenerVars, OrderInv, NetOrdered, LastSeq, CurrentFirst, StoredBefore, InOrder
<1>2. ASSUME NEW c \in Clients, TrackerSends(c) PROVE OrderInv'
  BY <1>2, SendsOrdered
<1>3. CASE Lose
  BY <1>3, TailOrdered DEF Lose, dbVars
<1>4. CASE Duplicate
  BY <1>4 DEF Duplicate
<1>5. ASSUME NEW i \in 1..MaxNet, Receive(i) PROVE OrderInv'
  BY <1>5, ReceiveOrdered
<1>6. CASE Exception \/ InsertRejected
  BY <1>6, WorkOrdered DEF Exception, InsertRejected, Done, envVars, dbVars
<1>7. CASE Insert
  BY <1>7, WorkOrdered DEF Insert, envVars, dbVars
<1>8. CASE CreateTable
  <2>1. /\ UNCHANGED <<sent, net, cur>> /\ lpc # "recv"
        /\ \A c \in Clients : tables'[c].rows = tables[c].rows
    BY <1>8, CreateStep DEF CreateTable, envVars
  <2> QED
    BY <2>1, WorkOrdered
<1>9. CASE Commit
  BY <1>9, CommitOrdered
<1> QED
  BY <1>1, <1>2, <1>3, <1>4, <1>5, <1>6, <1>7, <1>8, <1>9 DEF ListenerNext, Environment, Loop

\* When the network at most loses datagrams, every table holds its client's datagrams in
\* the order they were sent and each at most once, whatever the database does: a datagram
\* whose statements failed is gone and is never stored behind a later one
\* (server.py 237-240, 347-352).
THEOREM Ordered ==
    ASSUME NetFaults \subseteq {"lose"}
    PROVE  ListenerSpec => []InOrder
<1>1. ListenerInit => OrderInv
  BY InitOrder
<1>2. IInv /\ OrderInv /\ [ListenerNext]_listenerVars => OrderInv'
  BY StepOrdered
<1>3. OrderInv => InOrder
  BY DEF OrderInv
<1> QED
  BY <1>1, <1>2, <1>3, Invariance, PTL DEF ListenerSpec
=============================================================================
