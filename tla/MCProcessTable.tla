--------------------------- MODULE MCProcessTable ---------------------------
(* ProcessTable with one child slot, the PCP process and the worker.       *)
EXTENDS ProcessTable, TLC

CONSTANTS p1, p2, p3, p4, p5, s1
MCPids5 == {p1, p2, p3, p4, p5}
MCPids4 == {p1, p2, p3, p4}
\* Free pids are interchangeable, also for SomeFork.
MCSymmetry == Permutations(MCPids5)
MCSlots == {s1}
MCSpecials == {"pcp", "worker"}
MCPcp == {"pcp"}
MCAll == AllOps
MCBoth == {"SIGTERM", "SIGINT"}
MCNoSpecials == AllOps \ {"special_exits"}
=============================================================================
