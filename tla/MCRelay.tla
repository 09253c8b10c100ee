------------------------------- MODULE MCRelay -------------------------------
(* Instances of Relay for TLC. *)
EXTENDS Relay, TLC

CONSTANTS f1, f2, big, junk

MCUsers == {"ann", "bob"}
MCContainers == {f1, f2, big}
MCFiles == MCContainers \cup {junk}

\* Two small containers fill an inbox by number, a small and a big one by bytes.
MCSize == [f \in MCFiles |-> IF f = big THEN 2 ELSE 1]

\* bob sends to ann, who may be one connection, two that compete for the name, or
\* one after the other.  The first may send to itself: two coroutines are then past
\* the test of the recipient when their containers arrive.
MCConns == {"ann1", "ann2", "bob1"}
MCUserOf == ("ann1" :> "ann") @@ ("ann2" :> "ann") @@ ("bob1" :> "bob")
MCCalls == ("ann1" :> 2) @@ ("ann2" :> 0) @@ ("bob1" :> 2)
MCSends == ("ann1" :> {<<"ann", big>>}) @@ ("ann2" :> {}) @@ ("bob1" :> {"ann"} \X MCContainers)

MCPair == {"ann1", "bob1"}
MCPairUserOf == ("ann1" :> "ann") @@ ("bob1" :> "bob")

\* The two of them alone, for liveness.
MCTwoCalls == [c \in MCPair |-> 2]
MCTwoSends == [c \in MCPair |-> {"ann", "bob"} \X {f1, junk}]

FileSymmetry == Permutations({f1, f2})
=============================================================================
