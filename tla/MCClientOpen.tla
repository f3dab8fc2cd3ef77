---------------------------- MODULE MCClientOpen ----------------------------
(* A small instance of ClientOpen: values on both sides of every bound. *)
EXTENDS ClientOpen, TLC

MCVectors == {<<>>, <<1>>, <<3, 2, 1, 9>>, <<0, 4, 2>>,
              <<4>>, <<7>>, <<-1>>, <<0, 1>>, <<0, 5>>, <<0, 0, 3>>}

MCPolicies ==
    {[kind |-> "unset", min |-> 0, max |-> 0, millis |-> 0]}
    \cup [kind : {"count"}, min : {0}, max : {0, 2, 4}, millis : {0}]
    \cup [kind : {"dynamic"}, min : {0, 1, 2}, max : {2, 4}, millis : {0, 9}]

Symmetry == Permutations(Threads) \cup Permutations(Collections)
=============================================================================
