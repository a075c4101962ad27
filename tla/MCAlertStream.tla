--------------------------- MODULE MCAlertStream ---------------------------
(* AlertStream on small instances, with the promise of module AlertFeed.   *)
EXTENDS AlertStream
=============================================================================
