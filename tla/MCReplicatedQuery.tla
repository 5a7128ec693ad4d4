-------------------------- MODULE MCReplicatedQuery --------------------------
EXTENDS ReplicatedQuery, TLC
CONSTANTS s1, s2
MCSessions == {s1, s2}
MCWrites == {"update", "insert"}
MCMixed == (s1 :> AllStatements \ {"select", "insert"}) @@ (s2 :> MCWrites)
MCAutocommit == (s1 :> MCWrites \cup {"select"}) @@ (s2 :> MCWrites)
MCExplicit == (s1 :> {"begin", "update", "commit"}) @@ (s2 :> {})
MCPairFaults == {"crash", "local", "drift", "deadlock"}
MCVoteFaults == {"local", "drift", "kill", "frontend"}
MCKill == {"kill"}
MCDeadlock == {"deadlock"}
MCThreeAndOne == (s1 :> 3) @@ (s2 :> 1)
MCTwoAndOne == (s1 :> 2) @@ (s2 :> 1)
=============================================================================
