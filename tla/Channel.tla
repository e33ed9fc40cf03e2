------------------------------- MODULE Channel -------------------------------
(* What the middleware promises the applications: a message reaches the    *)
(* subscribers of its service only, all of a connector alike, in the order *)
(* of publication, at most once, and possibly not at all.                  *)
EXTENDS Naturals, Sequences

CONSTANTS
    Publishers, Subscribers, Connectors,
    Wants(_, _)   \* does a connector's service and QoS fit a publisher's

VARIABLES
    applications,  \* applications of each connector
    published,     \* number of messages each publisher sent
    received       \* messages each subscriber got

vars == <<applications, published, received>>

Elements(seq) == {seq[i] : i \in DOMAIN seq}

Init ==
    /\ applications = [c \in Connectors |-> <<>>]
    /\ published = [p \in Publishers |-> 0]
    /\ received = [s \in Subscribers |-> <<>>]

Join(s, c) ==
    /\ \A d \in Connectors : s \notin Elements(applications[d])
    /\ applications' = [applications EXCEPT ![c] = Append(@, s)]
    /\ UNCHANGED <<published, received>>

Publish(p) ==
    /\ published' = [published EXCEPT ![p] = @ + 1]
    /\ UNCHANGED <<applications, received>>

\* Message n of publisher p reaches the connectors in D: it is later than all
\* they got from p before.
Deliver(p, n, D) ==
    LET takers == UNION {Elements(applications[c]) : c \in D}
    IN  /\ \A c \in D : Wants(c, p)
        /\ \A s \in takers : \A m \in Elements(received[s]) : m.from = p => m.n < n
        /\ received' = [s \in Subscribers |->
              IF s \in takers THEN Append(received[s], [from |-> p, n |-> n])
              ELSE received[s]]
        /\ UNCHANGED <<applications, published>>

Next ==
    \/ \E s \in Subscribers, c \in Connectors : Join(s, c)
    \/ \E p \in Publishers : Publish(p)
    \/ \E p \in Publishers, D \in SUBSET Connectors :
          \E n \in 1..published[p] : Deliver(p, n, D)

Spec == Init /\ [][Next]_vars
=============================================================================
