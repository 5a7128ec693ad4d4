----------------------------- MODULE MCFailover -----------------------------
(* Failover with one child process; see the .cfg files for the modes. *)
EXTENDS Failover

CONSTANT c1
MCChildren == {c1}
MCNone == {}
MCNode2 == {2}
MCAttach == {"detach", "attach"}
MCDetachConnect == {"detach", "connect", "close_idle"}
MCAll == AllOps
=============================================================================
