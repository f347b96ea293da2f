---------------------------- MODULE KeyAgreement ----------------------------
(***************************************************************************)
(* What a DTLS handshake promises: the server opens sessions only with a   *)
(* client that knows its secret, one in each accept, and a client opens    *)
(* its session only as one that the server has already opened, with the    *)
(* same keys and the same transcript.                                      *)
(***************************************************************************)
CONSTANT NoSession

VARIABLES
    matching,   \* both sides were given the same secret
    opened,     \* the sessions the server has opened: their keys and transcripts
    session     \* the client's session

Init ==
    /\ matching \in BOOLEAN
    /\ opened = {}
    /\ session = NoSession

ServerOpens ==
    /\ matching
    /\ \E new \in opened' \ opened : opened' = opened \cup {new}
    /\ UNCHANGED <<matching, session>>

ClientOpens ==
    /\ session = NoSession
    /\ session' \in opened
    /\ UNCHANGED <<matching, opened>>

Next == ServerOpens \/ ClientOpens

Spec == Init /\ [][Next]_<<matching, opened, session>>
=============================================================================
