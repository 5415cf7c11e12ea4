----------------------------- MODULE MCLifecycle -----------------------------
(* One server and one stop command are enough for a container left behind.   *)
EXTENDS Lifecycle
=============================================================================
