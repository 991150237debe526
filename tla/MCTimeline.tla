----------------------------- MODULE MCTimeline -----------------------------
(* Timeline on a small instance: a recording as wide as Limit, with a loss in  *)
(* it and one at its end; one that is narrower than a zoom may get; and one of *)
(* no length. The losses at an end reach past the rounded duration.            *)
EXTENDS Timeline

CONSTANTS a, b, c, t1, t2

MCDur == [f \in Folders |-> CASE f = a -> 3 [] f = b -> 1 [] f = c -> 0]
Loss(t, at, len) == [topic |-> t, at |-> at, len |-> len]
MCLosses ==
  [f \in Folders |-> CASE f = a -> {Loss(t1, 1, 1), Loss(t1, 3, 1)}
                      [] f = b -> {Loss(t2, 0, 2)}
                      [] f = c -> {}]
=============================================================================
