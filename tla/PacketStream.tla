---------------------------- MODULE PacketStream ----------------------------
(***************************************************************************)
(* What a connection promises to the code that uses it: packets accepted   *)
(* for sending reach the peer in the order in which they were accepted,    *)
(* none twice and none skipped, until the connection goes away; its user   *)
(* is told at most once that it went, and never when the connection was    *)
(* handed over to somebody else.                                           *)
(***************************************************************************)
EXTENDS Naturals, Sequences

CONSTANT Item    \* what can be sent

VARIABLES
    accepted,    \* items taken for sending, in order
    delivered,   \* items the peer was given, in order
    phase,       \* "open", "closing", "closed", "stolen"
    told         \* the user was told that the connection is lost

vars == <<accepted, delivered, phase, told>>

Init ==
    /\ accepted = <<>>
    /\ delivered = <<>>
    /\ phase = "open"
    /\ told = FALSE

Accept ==
    /\ \E item \in Item : accepted' = Append(accepted, item)
    /\ UNCHANGED <<delivered, phase, told>>

\* Only the oldest item not delivered yet, and never on a closed connection.
Deliver ==
    /\ phase # "closed"
    /\ Len(delivered) < Len(accepted)
    /\ delivered' = Append(delivered, accepted[Len(delivered) + 1])
    /\ UNCHANGED <<accepted, phase, told>>

\* The connection is given up, then gone; or it is taken away in one step.
GiveUp ==
    /\ \/ phase = "open" /\ phase' \in {"closing", "stolen"}
       \/ phase = "closing" /\ phase' = "closed"
    /\ UNCHANGED <<accepted, delivered, told>>

Tell ==
    /\ phase \in {"closing", "closed"}
    /\ ~told
    /\ told' = TRUE
    /\ UNCHANGED <<accepted, delivered, phase>>

Next == Accept \/ Deliver \/ GiveUp \/ Tell

Spec == Init /\ [][Next]_vars
=============================================================================
