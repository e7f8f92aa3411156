-------------------------------- MODULE CarLog --------------------------------
(***************************************************************************)
(* What the ingestion path promises: one append-only log per client table, *)
(* holding whole datagrams that the client did send.  A log may miss       *)
(* datagrams, repeat them and hold them in another order than they were    *)
(* sent, because they travel over UDP; it never holds a part of one, one   *)
(* of another client, or one nobody sent, and it never forgets.            *)
(***************************************************************************)
EXTENDS Sequences

CONSTANTS Clients, Datagrams

VARIABLES sent,  \* the datagrams sent so far
          log    \* per client, the datagrams stored

Init ==
    /\ sent = {}
    /\ log = [c \in Clients |-> <<>>]

Emit(d) ==
    /\ sent' = sent \union {d}
    /\ UNCHANGED log

Store(d) ==
    /\ d \in sent
    /\ log' = [log EXCEPT ![d.client] = Append(@, d)]
    /\ UNCHANGED sent

Next == \E d \in Datagrams : Emit(d) \/ Store(d)

Spec == Init /\ [][Next]_<<sent, log>>
=============================================================================
