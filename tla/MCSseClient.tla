---------------------------- MODULE MCSseClient ----------------------------
(* SseClient on small instances.                                           *)
EXTENDS SseClient
=============================================================================
