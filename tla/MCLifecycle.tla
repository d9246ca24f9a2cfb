----------------------------- MODULE MCLifecycle -----------------------------
(***************************************************************************)
(* One request of either transport, and all three servers may fail.        *)
(***************************************************************************)
EXTENDS Lifecycle

CONSTANTS g, h
=============================================================================
