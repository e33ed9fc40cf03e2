------------------------- MODULE OrderedProcessing -------------------------
(* What a module with a processing time promises its peers: messages are   *)
(* processed once each, in the order of their arrival.                     *)
EXTENDS Sequences

CONSTANT Messages

VARIABLES
    accepted,   \* messages that arrived and are not processed, oldest first
    processed   \* messages processed, oldest first

vars == <<accepted, processed>>

Elements(seq) == {seq[i] : i \in DOMAIN seq}

Init == accepted = <<>> /\ processed = <<>>

Arrive(m) ==
    /\ m \notin Elements(accepted) \cup Elements(processed)
    /\ accepted' = Append(accepted, m)
    /\ UNCHANGED processed

Process ==
    /\ accepted # <<>>
    /\ processed' = Append(processed, Head(accepted))
    /\ accepted' = Tail(accepted)

Next == (\E m \in Messages : Arrive(m)) \/ Process

Spec == Init /\ [][Next]_vars
=============================================================================
