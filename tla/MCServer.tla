------------------------------- MODULE MCServer -------------------------------
(* A small server.  The parts share no state, so a behaviour in which several of them *)
(* move has nothing that one with the steps of a single part, the subject, has not.   *)
EXTENDS Server, TLC

CONSTANTS v1, v2, r1, r2, u1, u2, o0, o1, customer, staff

VARIABLE subject

\* The seeded order o0 is for the bundle, the other one for a service.
Lines == o0 :> Bundle @@ o1 :> v1
Roles2 == u1 :> {customer} @@ u2 :> {staff}
Compared == {<<v2, v1>>, <<v1, v2, v1>>}

SubjectInit == subject \in {"limiter", "accounts", "reviews", "inbox", "lists"} /\ ServerInit

OneMoves ==
    \/ subject = "limiter" /\ LimiterMoves
    \/ subject = "accounts" /\ AccountsMove
    \/ subject = "reviews" /\ ReviewsMove
    \/ subject = "inbox" /\ InboxMoves
    \/ subject = "lists" /\ ListsMove

SubjectSpec == SubjectInit /\ [][OneMoves /\ UNCHANGED subject]_<<subject, serverVars>>

Interchangeable == Permutations({r1, r2})
=============================================================================
