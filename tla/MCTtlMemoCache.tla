-------------------------- MODULE MCTtlMemoCache --------------------------
(* Two router tasks sharing the two memo caches, one key each.            *)
EXTENDS TtlMemoCache

CONSTANTS c1, c2, o1, r1

MCCallers == {c1, c2}
MCObjects == {o1}
MCReviews == {r1}

=============================================================================
