----------------------------- MODULE MCPqRekey -----------------------------
(* Seven messages are the fewest in which the responder activates two epochs.  *)
EXTENDS PqRekey
=============================================================================
