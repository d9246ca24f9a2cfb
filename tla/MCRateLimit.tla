----------------------------- MODULE MCRateLimit -----------------------------
(***************************************************************************)
(* A tick gains three quarters of a token, so buckets hold fractions, or   *)
(* the rate is zero and there is no bucket.                                *)
(***************************************************************************)
EXTENDS RateLimit

CONSTANTS http, grpc
=============================================================================
