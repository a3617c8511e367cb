---------------------------- MODULE MCSearchIndex ----------------------------
(* A content and two services, one of which the fixtures store. *)
EXTENDS SearchIndex

CONSTANTS s1, s2, c1, e1, e2, x1
=============================================================================
