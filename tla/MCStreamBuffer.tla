--------------------------- MODULE MCStreamBuffer ---------------------------
(* Seven bytes in three messages, the second longer than both buffers.     *)
EXTENDS StreamBuffer

MCNul == {2, 5, 7}
MCNewline == {4}
=============================================================================
