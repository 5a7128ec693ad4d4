-------------------------- MODULE MCConnectionPool --------------------------
(* ConnectionPool with up to three users and two kinds of startup packet.  *)
EXTENDS ConnectionPool

CONSTANTS k1, k2, k3
MCKeys == {k1, k2}
MCKeys3 == {k1, k2, k3}
MCPackets1 == {1}
MCPackets == {1, 2}
MCNode1Down == {1}
MCAllButLast == {0, 1, 2}
MCNone == {}
MCAll == AllOps
=============================================================================
