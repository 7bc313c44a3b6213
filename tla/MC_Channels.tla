---------------------------- MODULE MC_Channels -----------------------------
(* A page with its Instagram account, which may also be connected directly. *)
EXTENDS Channels, TLC

MCLinked == [a \in Assets |-> IF a = "page" THEN "gram" ELSE NoAsset]

MCOffers == {<<"page">>, <<"gram">>}

MCSymmetry == Permutations(Requests) \cup Permutations(Tenants)

\* Bound: requests overlap on the first day, run one at a time beside the cron
\* on the following ones, and leave the last day to the cron.
OverlapAtFirst ==
    LET busy == {h \in Requests : pc[h] # "idle"}
    IN  /\ today > 0 => Cardinality(busy) <= 1
        /\ today = MaxDay => busy = {}
=============================================================================
