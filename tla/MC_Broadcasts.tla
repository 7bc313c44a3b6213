--------------------------- MODULE MC_Broadcasts ---------------------------
(* Instances of Broadcasts for TLC.                                         *)
EXTENDS Broadcasts, TLC

\* "all" is for everybody, any other broadcast for those tagged.
Tagged == {"ann"}
MCSegment == [b \in Broadcasts |-> IF b = "all" THEN Contacts ELSE Tagged]

\* Runs of the cron are interchangeable in every safety property, and so are
\* requests.
MCSymmetry == Permutations(Crons) \cup Permutations(Requests)
=============================================================================
