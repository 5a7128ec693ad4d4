--------------------------- MODULE MCExtendedQuery ---------------------------
(* A primary and a standby that takes the reads.                            *)
EXTENDS ExtendedQuery

MCStmts == {"select", "insert", "begin", "discard"}
MCQueries == {"begin", "commit", "prepare", "execute", "deallocate",
              "set", "function", "show", "select"}
MCPortals == {""}
MCReset == <<"commit", "set">>
=============================================================================
