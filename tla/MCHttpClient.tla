---------------------------- MODULE MCHttpClient ----------------------------
(* Instances of HttpClient for TLC. *)
EXTENDS HttpClient

CONSTANTS c1, c2

MCCallers == {c1, c2}
=============================================================================
