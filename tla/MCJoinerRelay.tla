---------------------------- MODULE MCJoinerRelay ----------------------------
(* JoinerRelay with a handler that accepts the joiner, one that rejects it,  *)
(* one that gives it another PSKd and one that does not know it.             *)
EXTENDS JoinerRelay

CONSTANTS pskd, other

MCHandlers ==
    {[own |-> pskd, wildcard |-> None, accepts |-> TRUE],
     [own |-> None, wildcard |-> pskd, accepts |-> FALSE],
     [own |-> other, wildcard |-> pskd, accepts |-> TRUE],
     [own |-> None, wildcard |-> None, accepts |-> TRUE]}
=============================================================================
