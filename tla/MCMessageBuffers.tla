-------------------------- MODULE MCMessageBuffers --------------------------
(* Keep-alives, one-byte messages and longer ones, cut in all ways. *)
EXTENDS MessageBuffers
Payloads == {0, 1, 3}
Garbage == {0, 9}
==============================================================================
