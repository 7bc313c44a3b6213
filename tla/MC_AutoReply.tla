---------------------------- MODULE MC_AutoReply ----------------------------
(* Instances of AutoReply for TLC: events, customers and rules by name.      *)
EXTENDS AutoReply, TLC

MCUnlimited == -1

\* Handlers are interchangeable in every safety property.
MCSymmetry == Permutations(Handlers)

Info(kind, user, origin, hasId) ==
    [kind |-> kind, user |-> user, origin |-> origin, hasId |-> hasId]

\* c1, c2: comments of alice; d1, s1: a direct message and a story reply of
\* hers; bd: a message of bob; x1: a message of carol without an id; o1: the
\* page's own comment.
MCEventInfo ==
    LET all == [c1 |-> Info("comment", "alice", "customer", TRUE),
                c2 |-> Info("comment", "alice", "customer", TRUE),
                d1 |-> Info("dm", "alice", "customer", TRUE),
                s1 |-> Info("story", "alice", "customer", TRUE),
                bd |-> Info("dm", "bob", "customer", TRUE),
                x1 |-> Info("dm", "carol", "customer", FALSE),
                o1 |-> Info("comment", "alice", "own", TRUE)]
    IN  [e \in Events |-> all[e]]

\* seq: a replyMessages rule, a public reply and two private messages; quiet:
\* one private message only; text: a legacy rule with its one private text.
MCRuleShape ==
    LET all == [seq   |-> [sequence |-> TRUE, public |-> TRUE, private |-> 2],
                quiet |-> [sequence |-> TRUE, public |-> FALSE, private |-> 1],
                text  |-> [sequence |-> FALSE, public |-> FALSE, private |-> 1]]
    IN  [r \in Rules |-> all[r]]

\* Each event delivered once, or the message d1 delivered again.
MCOnce == [e \in Events |-> 1]
MCAgain == [e \in Events |-> IF e = "d1" THEN 2 ELSE 1]
=============================================================================
