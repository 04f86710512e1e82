-------------------------- MODULE MCHTTPConnection --------------------------
(* Instances of HTTPConnection for TLC. *)
EXTENDS HTTPConnection
=============================================================================
