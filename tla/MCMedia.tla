------------------------------- MODULE MCMedia -------------------------------
(* Media on small instances: tickets, a review, and a content that shows a       *)
(* picture in its body.                                                          *)
EXTENDS Media, TLC

CONSTANTS m1, m2, b1, k1, k2, e1, r1, u1, u2, d1, d2, x1, x2

HolderKinds == [h \in Holders |-> CASE h \in {k1, k2} -> "ticket"
                                    [] h = e1 -> "embedded"
                                    [] OTHER -> "review"]

\* Ids, requests and runs are interchangeable.
Interchangeable ==
    UNION {Permutations(S) : S \in {MediaIds, Uploaders, Deleters, Cleaners, {k1, k2}}}

AtWork ==
    {u \in Uploaders : uploader[u] # IdleUploader}
        \cup {d \in Deleters : deleter[d] # IdleDeleter}
        \cup {x \in Cleaners : cleaner[x] # IdleCleaner}
\* Bound: no more than two requests or runs overlap, of any kinds, and two of the
\* holders come to refer to media; the last upload only meets uploads and deletes.
FewAtWork ==
    /\ Cardinality(AtWork) <= 2
    /\ Cardinality({h \in Holders : holder[h].media # NoMedia}) <= 2
    /\ uploads = MaxUploads =>
         /\ \A x \in Cleaners : cleaner[x] = IdleCleaner
         /\ \A h \in Holders : holder[h].media = NoMedia
=============================================================================
