--------------------------- MODULE TelemetryProofs ---------------------------
(***************************************************************************)
(* Proofs about the API on top of the listener, for every set of cars and  *)
(* clients, every fault of the network and the database, and every bound.  *)
(***************************************************************************)
EXTENDS Telemetry, ListenerProofs

\* Commits are numbered, and a table's rows carry increasing numbers.
Stamped == \A c \in Clients : \A i \in DOMAIN tables[c].rows :
    /\ tables[c].rows[i].stamp \in 1..commits
    /\ \A j \in DOMAIN tables[c].rows :
          j < i => tables[c].rows[j].stamp < tables[c].rows[i].stamp

\* The snapshot holds the first rows of each table ...
SnapIsPrefix == \A c \in Cars :
    /\ Len(snap[c]) <= Len(tables[c].rows)
    /\ \A i \in 1..Len(snap[c]) : snap[c][i] = tables[c].rows[i]

\* ... and exactly those committed up to t.
TakenAt(t) == \A c \in Cars : \A i \in DOMAIN tables[c].rows :
    tables[c].rows[i].stamp <= t <=> i <= Len(snap[c])

SnapInv ==
    snap # NoSnapshot =>
        /\ snap \in [Cars -> Seq(RowSet)]
        /\ SnapIsPrefix
        /\ areq = "live" => /\ \E t \in since..commits : TakenAt(t)
                            /\ \A c \in Cars : seen[c] <= Newest(snap[c])

\* While a request runs, its answer is read from its snapshot.
RequestInv ==
    /\ areq \in {"idle", "live"} /\ since \in 0..commits
    /\ todo \subseteq listed /\ listed \subseteq Existing
    /\ DOMAIN answer \subseteq listed \ todo
    /\ areq = "live" => \A c \in DOMAIN answer :
          /\ snap # NoSnapshot /\ snap[c] # <<>>
          /\ answer[c] = <<Last(snap[c])>>

ReplyInv ==
    /\ reply.since \in 0..commits
    /\ DOMAIN reply.body \subseteq Existing
    /\ \A c \in DOMAIN reply.body : Range(reply.body[c]) \subseteq RowsOf(c)

\* No reply has shown a row that is not in its table.
SeenInv ==
    /\ seen \in [Cars -> 0..commits]
    /\ \A c \in Cars : seen[c] <= Newest(tables[c].rows)

ApiInv == Stamped /\ SnapInv /\ RequestInv /\ ReplyInv /\ SeenInv /\ AnswerIsCut

-----------------------------------------------------------------------------
(* The operators the model is built from. *)

LEMMA MaxIs ==
    ASSUME NEW S \in SUBSET Int, NEW m \in S, \A y \in S : m >= y
    PROVE  Max(S) = m
<1>1. Max(S) \in S /\ \A y \in S : Max(S) >= y
  BY DEF Max
<1>2. Max(S) \in Int /\ m \in Int /\ Max(S) >= m /\ m >= Max(S)
  BY <1>1
<1> QED
  BY <1>2

LEMMA MaxOfTwo ==
    ASSUME NEW a \in Int, NEW b \in Int, a <= b
    PROVE  Max({a, b}) = b
BY MaxIs

LEMMA PrefixDef ==
    ASSUME NEW S, NEW s \in Seq(S), NEW t \in Seq(S), Len(s) <= Len(t),
           \A i \in 1..Len(s) : s[i] = t[i]
    PROVE  IsPrefix(s, t)
<1>1. Len(s) \in Nat /\ Len(t) \in Nat
  OBVIOUS
<1>2. \A i \in 1..Len(s) : s[i] \in S /\ t[i] \in S
  BY <1>1, ElementOfSeq
<1>3. /\ SubSeq(s, 1, Len(s)) \in Seq(S) /\ SubSeq(t, 1, Len(s)) \in Seq(S)
      /\ Len(SubSeq(s, 1, Len(s))) = Len(s) /\ Len(SubSeq(t, 1, Len(s))) = Len(s)
      /\ \A i \in 1..Len(s) : SubSeq(s, 1, Len(s))[i] = s[i] /\ SubSeq(t, 1, Len(s))[i] = t[i]
  BY <1>1, <1>2, SubSeqProperties
<1>4. SubSeq(s, 1, Len(s)) = SubSeq(t, 1, Len(s))
  BY <1>3, SeqEqual
<1> QED
  BY <1>4 DEF IsPrefix

LEMMA NewestDef ==
    ASSUME NEW rows \in Seq(RowSet)
    PROVE  /\ Newest(rows) \in Nat
           /\ rows # <<>> => /\ Newest(rows) = rows[Len(rows)].stamp
                             /\ Last(rows) = rows[Len(rows)] /\ Last(rows) \in RowSet
                             /\ Len(rows) \in DOMAIN rows
<1>1. CASE rows = <<>>
  BY <1>1 DEF Newest
<1>2. CASE rows # <<>>
  <2>1. Len(rows) \in 1..Len(rows) /\ DOMAIN rows = 1..Len(rows)
    BY <1>2, EmptySeq, LenProperties
  <2>2. rows[Len(rows)] \in RowSet
    BY <2>1, ElementOfSeq
  <2> QED
    BY <1>2, <2>1, <2>2 DEF Newest, Last, RowSet
<1> QED
  BY <1>1, <1>2

LEMMA NewestOfOne == ASSUME NEW r PROVE Newest(<<r>>) = r.stamp
BY DEF Newest, Last

\* What is known of the tables.
LEMMA TablesType ==
    ASSUME IInv, NEW c \in Clients
    PROVE  /\ tables[c].rows \in Seq(RowSet) /\ commits \in Nat
           /\ DOMAIN tables[c].rows = 1..Len(tables[c].rows) /\ Len(tables[c].rows) \in Nat
           /\ ~tables[c].exists => tables[c].rows = <<>>
BY DEF IInv, ListenerType, NoTable

-----------------------------------------------------------------------------
(* What the listener does to the tables while the API looks at them. *)

\* The table of c is only appended to, with rows numbered above the commits so far.
Grows(c) ==
    /\ tables[c].exists => tables'[c].exists
    /\ Len(tables[c].rows) <= Len(tables'[c].rows)
    /\ \A i \in DOMAIN tables[c].rows :
          i \in DOMAIN tables'[c].rows /\ tables'[c].rows[i] = tables[c].rows[i]
    /\ \A i \in DOMAIN tables'[c].rows :
          i \in DOMAIN tables[c].rows \/ tables'[c].rows[i].stamp \in (commits + 1)..commits'

LEMMA SameGrows ==
    ASSUME IInv, NEW c \in Clients,
           tables'[c].rows = tables[c].rows, tables[c].exists => tables'[c].exists
    PROVE  Grows(c)
BY TablesType DEF Grows

LEMMA CommitGrows ==
    ASSUME IInv, Stamped, Commit
    PROVE  commits' = commits + 1 /\ Stamped' /\ \A c \in Clients : Grows(c)
<1>1. /\ cur \in Datagrams /\ commits \in Nat /\ commits' = commits + 1
      /\ tables' = [tables EXCEPT ![cur.client].rows = Append(@, Row(cur, commits + 1))]
  BY CommitStep DEF Commit
<1>2. /\ cur.client \in Clients
      /\ tables \in [Clients -> [exists : BOOLEAN, cols : SUBSET Columns, rows : Seq(RowSet)]]
  BY <1>1 DEF Datagrams, IInv, ListenerType
<1>3. ASSUME NEW c \in Clients
      PROVE  /\ Grows(c)
             /\ \A i \in DOMAIN tables'[c].rows :
                  /\ tables'[c].rows[i].stamp \in 1..commits'
                  /\ \A j \in DOMAIN tables'[c].rows :
                        j < i => tables'[c].rows[j].stamp < tables'[c].rows[i].stamp
  <2>1. CASE c # cur.client
    <3>1. tables'[c] = tables[c]
      BY <2>1, <1>1, <1>2
    <3>2. Grows(c)
      BY <3>1, SameGrows
    <3>3. 1..commits \subseteq 1..commits'
      BY <1>1
    <3> QED
      BY <3>1, <3>2, <3>3 DEF Stamped
  <2>2. CASE c = cur.client
    <3> DEFINE old == tables[c].rows
               new == tables'[c].rows
    <3>1. old \in Seq(RowSet) /\ Row(cur, commits + 1) \in RowSet
      <4>1. old \in Seq(RowSet)
        BY <1>2
      <4>2. Row(cur, commits + 1) \in RowSet
        BY <1>1 DEF Row, RowSet
      <4> QED
        BY <4>1, <4>2
    <3>2. new = Append(old, Row(cur, commits + 1)) /\ tables'[c].exists = tables[c].exists
      BY <2>2, <1>1, <1>2
    <3>3. /\ Len(old) \in Nat /\ DOMAIN old = 1..Len(old) /\ DOMAIN new = 1..(Len(old) + 1)
          /\ Len(new) = Len(old) + 1
          /\ \A i \in DOMAIN old : new[i] = old[i]
          /\ new[Len(old) + 1].stamp = commits + 1
      BY <3>1, <3>2 DEF Row
    <3>4. \A i \in DOMAIN old : /\ old[i].stamp \in 1..commits
                                /\ \A j \in DOMAIN old : j < i => old[j].stamp < old[i].stamp
      BY DEF Stamped
    <3>5. Grows(c)
      BY <3>2, <3>3, <1>1 DEF Grows
    <3>6. ASSUME NEW i \in DOMAIN new
          PROVE  /\ new[i].stamp \in 1..commits'
                 /\ \A j \in DOMAIN new : j < i => new[j].stamp < new[i].stamp
      <4>1. CASE i \in DOMAIN old
        BY <4>1, <3>3, <3>4, <1>1, SMTT(30)
      <4>2. CASE i = Len(old) + 1
        BY <4>2, <3>3, <3>4, <1>1, SMTT(30)
      <4> QED
        BY <4>1, <4>2, <3>3
    <3> QED
      BY <3>5, <3>6
  <2> QED
    BY <2>1, <2>2
<1> QED
  BY <1>1, <1>3 DEF Stamped

LEMMA ListenerGrows ==
    ASSUME IInv, Stamped, ListenerNext
    PROVE  commits' \in Nat /\ commits <= commits' /\ Stamped' /\ \A c \in Clients : Grows(c)
<1>1. CASE Commit
  BY <1>1, CommitGrows DEF IInv, ListenerType
<1>2. CASE ~Commit
  <2>1. /\ commits' = commits
        /\ \A c \in Clients : /\ tables'[c].rows = tables[c].rows
                              /\ tables[c].exists => tables'[c].exists
    <3>1. CASE CreateTable
      BY <3>1, CreateStep DEF CreateTable
    <3>2. CASE Environment
      BY <3>2 DEF Environment, TrackerSends, Lose, Duplicate, dbVars
    <3>3. CASE Loop /\ ~CreateTable
      BY <3>3, <1>2 DEF Loop, Receive, Exception, Insert, InsertRejected, dbVars
    <3> QED
      BY <3>1, <3>2, <3>3 DEF ListenerNext
  <2> QED
    BY <2>1, SameGrows DEF Stamped, IInv, ListenerType
<1> QED
  BY <1>1, <1>2

\* The newest row of a table that grows does not get older.
LEMMA NewestGrows ==
    ASSUME IInv, IInv', Stamped, Stamped', NEW c \in Clients, Grows(c)
    PROVE  Newest(tables[c].rows) <= Newest(tables'[c].rows)
<1> DEFINE old == tables[c].rows
           new == tables'[c].rows
<1>1. /\ old \in Seq(RowSet) /\ new \in Seq(RowSet)
      /\ Len(old) \in Nat /\ Len(new) \in Nat /\ Len(old) <= Len(new)
      /\ DOMAIN old = 1..Len(old) /\ DOMAIN new = 1..Len(new)
  BY TablesType DEF IInv, ListenerType, Grows
<1>2. CASE old = <<>>
  BY <1>1, <1>2, NewestDef DEF Newest
<1>3. CASE old # <<>>
  <2>1. Len(old) \in DOMAIN old /\ Newest(old) = old[Len(old)].stamp /\ Newest(old) \in Nat
    BY <1>1, <1>3, NewestDef
  <2>2. Len(new) \in DOMAIN new /\ Newest(new) = new[Len(new)].stamp /\ Newest(new) \in Nat
    BY <1>1, <2>1, NewestDef
  <2>3. Len(old) \in DOMAIN new /\ new[Len(old)] = old[Len(old)]
    BY <2>1 DEF Grows
  <2>4. Len(old) < Len(new) => new[Len(old)].stamp < new[Len(new)].stamp
    BY <2>2, <2>3 DEF Stamped
  <2> QED
    BY <1>1, <2>1, <2>2, <2>3, <2>4
<1> QED
  BY <1>2, <1>3

\* At the time of an earlier commit a table that grows holds what it held.
LEMMA CutStays ==
    ASSUME IInv, NEW c \in Clients, Grows(c), NEW t \in 0..commits
    PROVE  NewestAt(c, t)' = NewestAt(c, t)
<1>1. commits \in Nat
  BY TablesType
<1>2. {q \in RowsOf(c)' : q.stamp <= t} = {q \in RowsOf(c) : q.stamp <= t}
  <2>1. RowsOf(c) \subseteq RowsOf(c)'
    BY DEF RowsOf, Range, Grows
  <2>2. ASSUME NEW q \in RowsOf(c)', q.stamp <= t PROVE q \in RowsOf(c)
    <3>1. PICK i \in DOMAIN tables'[c].rows : q = tables'[c].rows[i]
      BY DEF RowsOf, Range
    <3>2. i \in DOMAIN tables[c].rows /\ tables'[c].rows[i] = tables[c].rows[i]
      BY <3>1, <2>2, <1>1 DEF Grows
    <3> QED
      BY <3>1, <3>2 DEF RowsOf, Range
  <2> QED
    BY <2>1, <2>2
<1> QED
  BY <1>2 DEF NewestAt

LEMMA ListenerStep ==
    ASSUME IInv, IInv', ApiInv, ListenerNext, UNCHANGED apiVars
    PROVE  ApiInv'
<1>1. /\ commits \in Nat /\ commits' \in Nat /\ commits <= commits' /\ Stamped'
      /\ \A c \in Clients : Grows(c)
  BY ListenerGrows, TablesType DEF ApiInv, IInv, ListenerType
<1>2. UNCHANGED <<areq, listed, todo, snap, answer, since, reply, seen>>
  BY DEF apiVars
<1>3. Cars \subseteq Clients /\ Existing \subseteq Existing'
  BY <1>1, TelemetryAssumption DEF Existing, Grows
<1>4. SnapInv'
  <2>1. CASE snap = NoSnapshot
    BY <2>1, <1>2 DEF SnapInv
  <2>2. CASE snap # NoSnapshot
    <3>1. snap \in [Cars -> Seq(RowSet)] /\ SnapIsPrefix
      BY <2>2 DEF ApiInv, SnapInv
    <3>2. ASSUME NEW c \in Cars
          PROVE  /\ Len(snap[c]) <= Len(tables'[c].rows)
                 /\ \A i \in 1..Len(snap[c]) : snap[c][i] = tables'[c].rows[i]
      <4>1. /\ Len(snap[c]) \in Nat /\ Len(tables[c].rows) \in Nat /\ Len(tables'[c].rows) \in Nat
            /\ Len(snap[c]) <= Len(tables[c].rows) /\ Len(tables[c].rows) <= Len(tables'[c].rows)
            /\ DOMAIN tables[c].rows = 1..Len(tables[c].rows)
        BY <3>1, <1>1, <1>3, TablesType DEF SnapIsPrefix, Grows, IInv, ListenerType
      <4>2. \A i \in 1..Len(snap[c]) : i \in DOMAIN tables[c].rows
        BY <4>1
      <4> QED
        BY <4>1, <4>2, <3>1, <1>1, <1>3 DEF SnapIsPrefix, Grows
    <3>3. ASSUME NEW t \in since..commits, TakenAt(t) PROVE TakenAt(t)'
      <4>1. ASSUME NEW c \in Cars, NEW i \in DOMAIN tables'[c].rows
            PROVE  tables'[c].rows[i].stamp <= t <=> i <= Len(snap[c])
        <5>1. CASE i \in DOMAIN tables[c].rows
          BY <5>1, <3>3, <1>1, <1>3 DEF TakenAt, Grows
        <5>2. CASE i \notin DOMAIN tables[c].rows
          <6>1. tables'[c].rows[i].stamp \in (commits + 1)..commits'
            BY <5>2, <1>1, <1>3 DEF Grows
          <6>2. i > Len(tables[c].rows) /\ Len(tables[c].rows) >= Len(snap[c])
            <7>1. /\ i \in Nat \ {0} /\ Len(tables[c].rows) \in Nat
                  /\ DOMAIN tables[c].rows = 1..Len(tables[c].rows)
              BY <1>3, TablesType DEF IInv, ListenerType
            <7> QED
              BY <7>1, <5>2, <3>1 DEF SnapIsPrefix
          <6>3. i \in Nat /\ Len(tables[c].rows) \in Nat /\ Len(snap[c]) \in Nat /\ since \in Nat
            BY <3>1, <1>3, TablesType DEF IInv, ListenerType, ApiInv, RequestInv
          <6> QED
            BY <6>1, <6>2, <6>3, <1>1
        <5> QED
          BY <5>1, <5>2
      <4> QED
        BY <4>1, <1>2 DEF TakenAt
    <3>4. since..commits \subseteq since'..commits'
      BY <1>1, <1>2 DEF ApiInv, RequestInv
    <3>5. areq = "live" => /\ \E t \in since'..commits' : TakenAt(t)'
                           /\ \A c \in Cars : seen'[c] <= Newest(snap'[c])
      BY <2>2, <3>3, <3>4, <1>2 DEF ApiInv, SnapInv
    <3> QED
      BY <3>1, <3>2, <3>5, <1>2 DEF SnapInv, SnapIsPrefix
  <2> QED
    BY <2>1, <2>2
<1>5. RequestInv'
  BY <1>1, <1>2, <1>3 DEF ApiInv, RequestInv
<1>6. ReplyInv'
  <2>1. \A c \in Cars : RowsOf(c) \subseteq RowsOf(c)'
    BY <1>1, <1>3 DEF RowsOf, Range, Grows
  <2>2. DOMAIN reply.body \subseteq Cars
    BY DEF ApiInv, ReplyInv, Existing
  <2> QED
    BY <2>1, <2>2, <1>1, <1>2, <1>3 DEF ApiInv, ReplyInv
<1>7. SeenInv'
  <2>1. ASSUME NEW c \in Cars
        PROVE  seen[c] \in 0..commits' /\ seen[c] <= Newest(tables'[c].rows)
    <3>1. Newest(tables[c].rows) <= Newest(tables'[c].rows)
      BY <1>1, <1>3, NewestGrows DEF ApiInv
    <3>2. /\ tables[c].rows \in Seq(RowSet) /\ tables'[c].rows \in Seq(RowSet)
      BY <1>3, TablesType DEF IInv, ListenerType
    <3>3. Newest(tables[c].rows) \in Nat /\ Newest(tables'[c].rows) \in Nat
      BY <3>2, NewestDef
    <3> QED
      BY <3>1, <3>3, <1>1 DEF ApiInv, SeenInv
  <2> QED
    BY <2>1, <1>2 DEF ApiInv, SeenInv
<1>8. AnswerIsCut'
  <2>1. CASE reply.route = "live_all_cars"
    <3>1. PICK t \in reply.since..commits :
             \A c \in DOMAIN reply.body : Newest(reply.body[c]) = NewestAt(c, t)
      BY <2>1 DEF ApiInv, AnswerIsCut
    <3>2. t \in 0..commits /\ t \in reply'.since..commits'
      BY <1>1, <1>2 DEF ApiInv, ReplyInv
    <3>3. ASSUME NEW c \in DOMAIN reply.body
          PROVE  Newest(reply.body[c]) = NewestAt(c, t)'
      <4>1. c \in Clients
        BY <1>3 DEF ApiInv, ReplyInv, Existing
      <4> QED
        BY <4>1, <3>1, <3>2, <1>1, CutStays
    <3> QED
      BY <3>2, <3>3, <1>2 DEF AnswerIsCut, NewestAt
  <2> QED
    BY <2>1, <1>2 DEF AnswerIsCut
<1> QED
  BY <1>1, <1>4, <1>5, <1>6, <1>7, <1>8 DEF ApiInv

-----------------------------------------------------------------------------
(* The steps of the API leave the tables alone. *)

\* What a SELECT sees.
LEMMA ViewType ==
    ASSUME IInv, ApiInv, NEW c \in Cars
    PROVE  /\ View \in [Cars -> Seq(RowSet)]
           /\ Len(View[c]) <= Len(tables[c].rows)
           /\ \A i \in 1..Len(View[c]) : View[c][i] = tables[c].rows[i]
<1>1. tables[c].rows \in Seq(RowSet) /\ Len(tables[c].rows) \in Nat
      /\ Committed \in [Cars -> Seq(RowSet)]
  BY TelemetryAssumption, TablesType DEF Committed
<1>2. CASE snap = NoSnapshot
  BY <1>1, <1>2 DEF View, Committed
<1>3. CASE snap # NoSnapshot
  BY <1>3 DEF View, ApiInv, SnapInv, SnapIsPrefix
<1> QED
  BY <1>2, <1>3

\* A SELECT leaves the transaction with a snapshot of one moment since the request began,
\* which is no older than what replies have shown.
LEMMA SelectSnap ==
    ASSUME IInv, ApiInv, areq = "live", snap' = View,
           UNCHANGED <<listenerVars, since, seen>>
    PROVE  SnapInv'
<1>1. UNCHANGED <<tables, commits>> /\ Cars \subseteq Clients
  BY TelemetryAssumption DEF listenerVars
<1>2. CASE snap # NoSnapshot
  <2>1. snap' = snap
    BY <1>2 DEF View
  <2> QED
    BY <1>1, <1>2, <2>1 DEF ApiInv, SnapInv, SnapIsPrefix, TakenAt
<1>3. CASE snap = NoSnapshot
  <2>1. snap' = [c \in Cars |-> tables[c].rows]
    BY <1>3 DEF View, Committed
  <2>2. \A c \in Cars : /\ tables[c].rows \in Seq(RowSet) /\ Len(tables[c].rows) \in Nat
                        /\ DOMAIN tables[c].rows = 1..Len(tables[c].rows)
    BY <1>1, TablesType
  <2>3. commits \in since..commits
    BY DEF ApiInv, RequestInv, IInv, ListenerType
  <2>4. \A c \in Cars : \A i \in DOMAIN tables[c].rows :
           tables[c].rows[i].stamp <= commits <=> i <= Len(tables[c].rows)
    BY <1>1, <2>2 DEF ApiInv, Stamped
  <2>5. TakenAt(commits)'
    BY <2>1, <2>4, <1>1 DEF TakenAt
  <2>6. SnapIsPrefix'
    BY <2>1, <2>2, <1>1 DEF SnapIsPrefix
  <2>7. \A c \in Cars : seen'[c] <= Newest(snap'[c])
    BY <2>1 DEF ApiInv, SeenInv
  <2> QED
    BY <2>1, <2>2, <2>3, <2>5, <2>6, <2>7, <1>1 DEF SnapInv
<1> QED
  BY <1>2, <1>3

\* The parts of the invariant that only a reply can disturb.
LEMMA NoReplyStep ==
    ASSUME ApiInv, UNCHANGED <<listenerVars, reply, seen>>
    PROVE  /\ Stamped' /\ ReplyInv' /\ SeenInv' /\ AnswerIsCut'
           /\ Existing' = Existing /\ commits' = commits
BY DEF ApiInv, Stamped, ReplyInv, SeenInv, AnswerIsCut, NewestAt, RowsOf, Existing, listenerVars

LEMMA ListStep ==
    ASSUME IInv, ApiInv, ListTables
    PROVE  ApiInv'
<1>1. /\ UNCHANGED <<listenerVars, reply, seen>>
      /\ areq' = "live" /\ listed' = Existing /\ todo' = Existing
      /\ snap' = NoSnapshot /\ answer' = <<>> /\ since' = commits
  BY DEF ListTables
<1>2. commits \in Nat
  BY DEF IInv, ListenerType
<1> QED
  BY <1>1, <1>2, NoReplyStep DEF ApiInv, SnapInv, RequestInv

LEMMA SelectStep ==
    ASSUME IInv, ApiInv, NEW c \in Cars, SelectLatest(c) \/ SelectEmpty(c)
    PROVE  ApiInv'
<1>1. /\ UNCHANGED <<listenerVars, listed, since, reply, seen>>
      /\ areq = "live" /\ c \in todo /\ snap' = View
  BY DEF SelectLatest, SelectEmpty
<1>2. SnapInv'
  BY <1>1, SelectSnap
<1>3. RequestInv'
  <2>1. CASE SelectEmpty(c)
    BY <2>1, <1>1, NoReplyStep DEF SelectEmpty, ApiInv, RequestInv
  <2>2. CASE SelectLatest(c)
    <3>1. /\ areq' = "live" /\ View[c] # <<>> /\ todo' = todo \ {c}
          /\ answer' = [d \in {c} \union DOMAIN answer |->
                          IF d = c THEN <<Last(View[c])>> ELSE answer[d]]
      BY <2>2, <1>1 DEF SelectLatest
    <3>2. View # NoSnapshot
      BY ViewType DEF NoSnapshot
    <3>3. ASSUME NEW d \in DOMAIN answer'
          PROVE  /\ snap' # NoSnapshot /\ snap'[d] # <<>>
                 /\ answer'[d] = <<Last(snap'[d])>>
      <4>1. CASE d = c
        BY <4>1, <3>1, <3>2, <1>1
      <4>2. CASE d # c
        <5>1. /\ d \in DOMAIN answer /\ answer'[d] = answer[d]
          BY <4>2, <3>1
        <5>2. snap # NoSnapshot /\ snap' = snap
          BY <5>1, <1>1 DEF ApiInv, RequestInv, View
        <5> QED
          BY <5>1, <5>2, <1>1 DEF ApiInv, RequestInv
      <4> QED
        BY <4>1, <4>2
    <3>4. DOMAIN answer' \subseteq listed \ todo'
      BY <3>1, <1>1 DEF ApiInv, RequestInv
    <3> QED
      BY <3>1, <3>3, <3>4, <1>1, NoReplyStep DEF ApiInv, RequestInv
  <2> QED
    BY <2>1, <2>2
<1> QED
  BY <1>1, <1>2, <1>3, NoReplyStep DEF ApiInv

LEMMA ErrorStep ==
    ASSUME IInv, ApiInv, DbError
    PROVE  ApiInv'
<1>1. /\ UNCHANGED <<listenerVars, listed, todo, snap, answer, since, reply, seen>>
      /\ areq' = "idle"
  BY DEF DbError
<1>2. SnapInv'
  BY <1>1 DEF ApiInv, SnapInv, SnapIsPrefix, listenerVars
<1> QED
  BY <1>1, <1>2, NoReplyStep DEF ApiInv, RequestInv

-----------------------------------------------------------------------------
(* Replies. *)

\* A reply whose rows are rows of the tables, no older than what was shown before, keeps
\* the record of what has been shown and shows nothing older.
LEMMA SendStep ==
    ASSUME IInv, ApiInv, NEW route, NEW body, NEW start \in 0..commits,
           UNCHANGED listenerVars, Send(route, body, start),
           DOMAIN body \subseteq Existing,
           \A c \in DOMAIN body : /\ Range(body[c]) \subseteq RowsOf(c)
                                  /\ Newest(body[c]) \in Nat
                                  /\ seen[c] <= Newest(body[c])
                                  /\ Newest(body[c]) <= Newest(tables[c].rows)
    PROVE  /\ ReplyInv' /\ SeenInv'
           /\ \A c \in DOMAIN reply'.body : Newest(reply'.body[c]) >= seen[c]
<1>1. /\ reply' = [route |-> route, body |-> body, since |-> start]
      /\ seen' = [c \in Cars |-> IF c \in DOMAIN body
                                 THEN Max({seen[c], Newest(body[c])}) ELSE seen[c]]
      /\ UNCHANGED <<tables, commits>> /\ commits \in Nat
      /\ Cars \subseteq Clients
  BY TelemetryAssumption DEF Send, listenerVars, IInv, ListenerType
<1>2. ReplyInv'
  BY <1>1 DEF ReplyInv, Existing, RowsOf
<1>3. ASSUME NEW c \in Cars
      PROVE  seen'[c] \in 0..commits /\ seen'[c] <= Newest(tables[c].rows)
  <2>1. Newest(tables[c].rows) \in 0..commits
    <3>1. tables[c].rows \in Seq(RowSet)
      BY <1>1, TablesType
    <3>2. CASE tables[c].rows = <<>>
      BY <3>2, <1>1 DEF Newest
    <3>3. CASE tables[c].rows # <<>>
      BY <3>1, <3>3, <1>1, NewestDef DEF ApiInv, Stamped
    <3> QED
      BY <3>2, <3>3
  <2>2. seen[c] \in 0..commits /\ seen[c] <= Newest(tables[c].rows)
    BY DEF ApiInv, SeenInv
  <2>3. CASE c \in DOMAIN body
    <3>1. Max({seen[c], Newest(body[c])}) = Newest(body[c])
      BY <2>2, <2>3, MaxOfTwo
    <3> QED
      BY <3>1, <2>1, <2>3, <1>1
  <2>4. CASE c \notin DOMAIN body
    BY <2>2, <2>4, <1>1
  <2> QED
    BY <2>3, <2>4
<1>4. SeenInv'
  BY <1>1, <1>3 DEF SeenInv
<1> QED
  BY <1>1, <1>2, <1>4

\* The routes of one SELECT.
LEMMA SingleStep ==
    ASSUME IInv, ApiInv, NEW c \in Cars, LiveCar(c) \/ FetchAll(c)
    PROVE  ApiInv' /\ \A d \in DOMAIN reply'.body : Newest(reply'.body[d]) >= seen[d]
<1>1. /\ UNCHANGED <<listenerVars, areq, listed, todo, snap, answer, since>>
      /\ areq = "idle" /\ c \in Clients
  BY TelemetryAssumption DEF LiveCar, FetchAll
<1> DEFINE rows == tables[c].rows
<1>2. /\ rows \in Seq(RowSet) /\ Newest(rows) \in Nat /\ commits \in Nat
      /\ rows # <<>> => tables[c].exists
      /\ seen[c] <= Newest(rows)
  BY <1>1, TablesType, NewestDef DEF ApiInv, SeenInv
<1>3. PICK route \in {"live", "fetch_all"}, body \in {<<Last(rows)>>, rows} :
         /\ Send(route, [d \in {c} |-> body], commits)
         /\ tables[c].exists
         /\ body = <<Last(rows)>> => rows # <<>> \/ body = rows
  BY <1>2 DEF LiveCar, FetchAll
<1>4. Range(body) \subseteq RowsOf(c) /\ Newest(body) = Newest(rows)
  <2>1. CASE body = rows
    BY <2>1 DEF RowsOf
  <2>2. CASE body # rows
    <3>1. body = <<Last(rows)>> /\ rows # <<>>
      BY <1>3, <2>2
    <3>2. Last(rows) = rows[Len(rows)] /\ Len(rows) \in DOMAIN rows
          /\ Newest(rows) = rows[Len(rows)].stamp
      BY <3>1, <1>2, NewestDef
    <3>3. Newest(body) = Last(rows).stamp
      BY <3>1, NewestOfOne
    <3>4. Range(body) = {Last(rows)}
      BY <3>1 DEF Range
    <3> QED
      BY <3>2, <3>3, <3>4 DEF RowsOf, Range
  <2> QED
    BY <2>1, <2>2
<1> DEFINE reply1 == [d \in {c} |-> body]
<1>5. c \in Existing /\ DOMAIN reply1 = {c} /\ reply1[c] = body
  BY <1>3 DEF Existing
<1>6. commits \in 0..commits /\ Send(route, reply1, commits)
  BY <1>2, <1>3
<1> HIDE DEF reply1, rows
<1>7. \A d \in DOMAIN reply1 : /\ Range(reply1[d]) \subseteq RowsOf(d)
                               /\ Newest(reply1[d]) \in Nat
                               /\ seen[d] <= Newest(reply1[d])
                               /\ Newest(reply1[d]) <= Newest(tables[d].rows)
  BY <1>2, <1>4, <1>5 DEF rows
<1>8. /\ ReplyInv' /\ SeenInv'
      /\ \A d \in DOMAIN reply'.body : Newest(reply'.body[d]) >= seen[d]
  BY <1>1, <1>5, <1>6, <1>7, SendStep
<1>9. AnswerIsCut'
  <2>1. reply'.route # "live_all_cars"
    BY <1>6 DEF Send
  <2> QED
    BY <2>1 DEF AnswerIsCut
<1>10. Stamped' /\ SnapInv' /\ RequestInv'
  BY <1>1 DEF ApiInv, Stamped, SnapInv, SnapIsPrefix, RequestInv, Existing, listenerVars
<1> QED
  BY <1>8, <1>9, <1>10 DEF ApiInv

\* The newest row of a snapshot is the newest one at the moment it was taken.
LEMMA SnapNewest ==
    ASSUME IInv, ApiInv, snap # NoSnapshot, NEW t \in 0..commits, TakenAt(t),
           NEW c \in Cars, snap[c] # <<>>
    PROVE  /\ Last(snap[c]) \in RowsOf(c)
           /\ Last(snap[c]).stamp = NewestAt(c, t)
           /\ Last(snap[c]).stamp = Newest(snap[c])
           /\ Last(snap[c]).stamp <= Newest(tables[c].rows)
           /\ Last(snap[c]).stamp \in Nat
<1> DEFINE rows == tables[c].rows
           k == Len(snap[c])
<1>1. c \in Clients /\ commits \in Nat
  BY TelemetryAssumption, TablesType
<1>2. /\ rows \in Seq(RowSet) /\ snap[c] \in Seq(RowSet)
      /\ Len(rows) \in Nat /\ DOMAIN rows = 1..Len(rows)
      /\ k <= Len(rows) /\ \A i \in 1..k : snap[c][i] = rows[i]
  BY <1>1, TablesType DEF ApiInv, SnapInv, SnapIsPrefix
<1>3. /\ k \in DOMAIN rows /\ Last(snap[c]) = rows[k]
      /\ Newest(snap[c]) = rows[k].stamp
  <2>1. /\ Newest(snap[c]) = snap[c][k].stamp /\ Last(snap[c]) = snap[c][k]
        /\ k \in DOMAIN snap[c]
    BY <1>2, NewestDef
  <2>2. k \in 1..k
    BY <2>1, <1>2
  <2> QED
    BY <2>1, <2>2, <1>2
<1>4. \A i \in DOMAIN rows : /\ rows[i].stamp \in 1..commits
                             /\ \A j \in DOMAIN rows : j < i => rows[j].stamp < rows[i].stamp
                             /\ rows[i].stamp <= t <=> i <= k
  BY <1>1 DEF ApiInv, Stamped, TakenAt
<1> HIDE DEF k, rows
<1>5. NewestAt(c, t) = rows[k].stamp
  <2> DEFINE S == {0} \union {r.stamp : r \in {q \in RowsOf(c) : q.stamp <= t}}
  <2>1. rows[k] \in RowsOf(c) /\ rows[k].stamp <= t
    BY <1>2, <1>3, <1>4 DEF RowsOf, Range, rows
  <2>2. ASSUME NEW y \in S PROVE y \in Int /\ rows[k].stamp >= y
    <3>1. CASE y = 0
      BY <3>1, <1>3, <1>4
    <3>2. CASE y # 0
      <4>1. PICK i \in DOMAIN rows : y = rows[i].stamp /\ rows[i].stamp <= t
        BY <3>2 DEF RowsOf, Range, rows
      <4>2. i <= k /\ i \in Nat /\ k \in Nat
        BY <4>1, <1>2, <1>3, <1>4
      <4> QED
        BY <4>1, <4>2, <1>3, <1>4
    <3> QED
      BY <3>1, <3>2
  <2>3. rows[k].stamp \in S
    BY <2>1
  <2> HIDE DEF S
  <2>4. Max(S) = rows[k].stamp
    BY <2>2, <2>3, MaxIs
  <2> QED
    BY <2>4 DEF NewestAt, S
<1>6. rows[k].stamp <= Newest(rows)
  <2>1. rows # <<>>
    BY <1>2, <1>3
  <2>2. Len(rows) \in DOMAIN rows /\ Newest(rows) = rows[Len(rows)].stamp
    BY <2>1, <1>2, NewestDef
  <2>3. CASE k = Len(rows)
    BY <2>2, <2>3, <1>3, <1>4
  <2>4. CASE k # Len(rows)
    <3>1. k < Len(rows)
      BY <2>4, <1>2, <1>3
    <3> QED
      BY <3>1, <2>2, <1>3, <1>4
  <2> QED
    BY <2>3, <2>4
<1> QED
  BY <1>2, <1>3, <1>4, <1>5, <1>6 DEF RowsOf, Range, rows, k

LEMMA ReplyStep ==
    ASSUME IInv, ApiInv, ReplyLive
    PROVE  ApiInv' /\ \A d \in DOMAIN reply'.body : Newest(reply'.body[d]) >= seen[d]
<1>1. /\ UNCHANGED <<listenerVars, listed, todo, snap, answer, since>>
      /\ areq = "live" /\ areq' = "idle"
      /\ Send("live_all_cars", answer, since)
      /\ since \in 0..commits /\ commits \in Nat
      /\ DOMAIN answer \subseteq Existing
  BY DEF ReplyLive, ApiInv, RequestInv, IInv, ListenerType
<1>2. PICK t \in since..commits :
         \A c \in DOMAIN answer : /\ Range(answer[c]) \subseteq RowsOf(c)
                                  /\ Newest(answer[c]) = NewestAt(c, t)
                                  /\ Newest(answer[c]) \in Nat
                                  /\ seen[c] <= Newest(answer[c])
                                  /\ Newest(answer[c]) <= Newest(tables[c].rows)
  <2>1. CASE snap = NoSnapshot
    <3>1. DOMAIN answer = {}
      BY <2>1, <1>1 DEF ApiInv, RequestInv
    <3>2. commits \in since..commits
      BY <1>1
    <3> QED
      BY <3>1, <3>2
  <2>2. CASE snap # NoSnapshot
    <3>1. PICK t \in since..commits : TakenAt(t)
      BY <2>2, <1>1 DEF ApiInv, SnapInv
    <3>2. ASSUME NEW c \in DOMAIN answer
          PROVE  /\ Range(answer[c]) \subseteq RowsOf(c)
                 /\ Newest(answer[c]) = NewestAt(c, t)
                 /\ Newest(answer[c]) \in Nat
                 /\ seen[c] <= Newest(answer[c])
                 /\ Newest(answer[c]) <= Newest(tables[c].rows)
      <4>1. c \in Cars /\ snap[c] # <<>> /\ answer[c] = <<Last(snap[c])>>
        BY <1>1 DEF Existing, ApiInv, RequestInv
      <4>2. t \in 0..commits
        BY <1>1
      <4>3. /\ Last(snap[c]) \in RowsOf(c)
            /\ Last(snap[c]).stamp = NewestAt(c, t)
            /\ Last(snap[c]).stamp = Newest(snap[c])
            /\ Last(snap[c]).stamp <= Newest(tables[c].rows)
            /\ Last(snap[c]).stamp \in Nat
        BY <2>2, <3>1, <4>1, <4>2, SnapNewest
      <4>4. Newest(answer[c]) = Last(snap[c]).stamp /\ Range(answer[c]) = {Last(snap[c])}
        BY <4>1, NewestOfOne DEF Range
      <4>5. seen[c] <= Newest(snap[c])
        BY <4>1, <2>2, <1>1 DEF ApiInv, SnapInv
      <4> QED
        BY <4>3, <4>4, <4>5
    <3> QED
      BY <3>2
  <2> QED
    BY <2>1, <2>2
<1>3. /\ ReplyInv' /\ SeenInv'
      /\ \A d \in DOMAIN reply'.body : Newest(reply'.body[d]) >= seen[d]
  BY <1>1, <1>2, SendStep
<1>4. AnswerIsCut'
  <2>1. reply'.body = answer /\ reply'.since = since
    BY <1>1 DEF Send
  <2>2. \A c \in DOMAIN answer : NewestAt(c, t)' = NewestAt(c, t)
    BY <1>1 DEF NewestAt, RowsOf, listenerVars
  <2>3. commits' = commits
    BY <1>1 DEF listenerVars
  <2> QED
    BY <2>1, <2>2, <2>3, <1>2 DEF AnswerIsCut
<1>5. Stamped' /\ SnapInv' /\ RequestInv'
  BY <1>1 DEF ApiInv, Stamped, SnapInv, SnapIsPrefix, RequestInv, Existing, listenerVars
<1> QED
  BY <1>3, <1>4, <1>5 DEF ApiInv

-----------------------------------------------------------------------------
(* Invariance, and the theorems. *)

LEMMA InitApi == Init => IInv /\ ApiInv
<1> SUFFICES ASSUME Init PROVE IInv /\ ApiInv
  OBVIOUS
<1>1. IInv
  BY InitIInv DEF Init
<1>2. /\ \A c \in Clients : tables[c] = NoTable
      /\ commits = 0 /\ areq = "idle" /\ listed = {} /\ todo = {} /\ snap = NoSnapshot
      /\ answer = <<>> /\ since = 0 /\ reply = NoReply /\ seen = [c \in Cars |-> 0]
      /\ Cars \subseteq Clients
  BY TelemetryAssumption DEF Init, ListenerInit
<1>3. Stamped
  BY <1>2 DEF Stamped, NoTable
<1>4. SnapInv /\ RequestInv /\ ReplyInv /\ AnswerIsCut
  BY <1>2 DEF SnapInv, RequestInv, ReplyInv, AnswerIsCut, NoReply
<1>5. SeenInv
  BY <1>2 DEF SeenInv, Newest, NoTable
<1> QED
  BY <1>1, <1>3, <1>4, <1>5 DEF ApiInv

LEMMA NextListens == [Next]_vars => [ListenerNext]_listenerVars
BY DEF Next, vars, LiveAllCars, ListTables, DbError, ReplyLive, SelectLatest, SelectEmpty,
       LiveCar, FetchAll

LEMMA NextApi ==
    ASSUME IInv, ApiInv, [Next]_vars
    PROVE  /\ IInv' /\ ApiInv'
           /\ reply' # reply => \A c \in DOMAIN reply'.body : Newest(reply'.body[c]) >= seen[c]
<1>1. IInv'
  BY NextListens, Inductive
<1>2. CASE UNCHANGED vars
  <2>1. ApiInv'
    BY <1>2 DEF vars, apiVars, listenerVars, ApiInv, Stamped, SnapInv, SnapIsPrefix, TakenAt,
                RequestInv, ReplyInv, SeenInv, AnswerIsCut, NewestAt, RowsOf, Existing
  <2> QED
    BY <2>1, <1>1, <1>2 DEF vars, apiVars
<1>3. CASE ListenerNext /\ UNCHANGED apiVars
  BY <1>1, <1>3, ListenerStep DEF apiVars
<1>4. CASE ListTables
  BY <1>1, <1>4, ListStep DEF ListTables
<1>5. CASE DbError
  BY <1>1, <1>5, ErrorStep DEF DbError
<1>6. CASE ReplyLive
  BY <1>1, <1>6, ReplyStep
<1>7. ASSUME NEW c \in Cars, SelectLatest(c) \/ SelectEmpty(c)
      PROVE  ApiInv' /\ reply' = reply
  BY <1>7, SelectStep DEF SelectLatest, SelectEmpty
<1>8. ASSUME NEW c \in Cars, LiveCar(c) \/ FetchAll(c)
      PROVE  ApiInv' /\ \A d \in DOMAIN reply'.body : Newest(reply'.body[d]) >= seen[d]
  BY <1>8, SingleStep
<1> QED
  BY <1>1, <1>2, <1>3, <1>4, <1>5, <1>6, <1>7, <1>8 DEF Next, LiveAllCars

LEMMA ApiInvariance == Spec => [](IInv /\ ApiInv)
<1>1. IInv /\ ApiInv /\ [Next]_vars => (IInv /\ ApiInv)'
  BY NextApi
<1> QED
  BY <1>1, InitApi, PTL DEF Spec

\* The composition of listener and API is a behaviour of the listener: all that is proved
\* of the listener alone holds of it too.
THEOREM StillListens == Spec => ListenerSpec
<1>1. Init => ListenerInit
  BY DEF Init
<1> QED
  BY <1>1, NextListens, PTL DEF Spec, ListenerSpec

\* Whatever the listener and the database do in between, the API works on rows its tables
\* hold, of tables it listed, and its snapshot is a prefix of every table (main.py 98-136).
THEOREM TelemetryTypeCorrect == Spec => []TypeOK
<1>1. IInv /\ ApiInv => TypeOK
  <2> SUFFICES ASSUME IInv, ApiInv PROVE TypeOK
    OBVIOUS
  <2>1. ASSUME snap # NoSnapshot, NEW c \in Cars PROVE IsPrefix(snap[c], tables[c].rows)
    <3>1. /\ snap[c] \in Seq(RowSet) /\ tables[c].rows \in Seq(RowSet)
          /\ Len(snap[c]) <= Len(tables[c].rows)
          /\ \A i \in 1..Len(snap[c]) : snap[c][i] = tables[c].rows[i]
      BY <2>1, TelemetryAssumption, TablesType DEF ApiInv, SnapInv, SnapIsPrefix
    <3> QED
      BY <3>1, PrefixDef
  <2> QED
    BY <2>1 DEF TypeOK, IInv, ApiInv, RequestInv, ReplyInv, SeenInv
<1> QED
  BY <1>1, ApiInvariance, PTL

\* A reply of live_all_cars, read one table after the other while rows are committed in
\* between, shows all cars as of one moment of the request (main.py 110-114).
THEOREM OneMoment == Spec => []AnswerIsCut
<1>1. IInv /\ ApiInv => AnswerIsCut
  BY DEF ApiInv
<1> QED
  BY <1>1, ApiInvariance, PTL

\* No reply of any route shows an older newest row of a car than an earlier reply did
\* (main.py 77, 92, 111-114, 146-155, 181-192).
THEOREM NoReplyOlder == Spec => NeverOlder
<1>1. IInv /\ ApiInv /\ [Next]_vars =>
        [reply' # reply =>
            \A c \in DOMAIN reply'.body : Newest(reply'.body[c]) >= seen[c]]_vars
  BY NextApi
<1> QED
  BY <1>1, ApiInvariance, PTL DEF Spec, NeverOlder
=============================================================================
