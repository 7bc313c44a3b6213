--------------------------- MODULE MC_FlowEngine ---------------------------
(* Instances of FlowEngine for TLC: flows by name.                          *)
EXTENDS FlowEngine, TLC

CONSTANT Flows    \* the names of the flows the owner may save

Step(type, tag, next) ==
    [type |-> type, tag |-> tag, next |-> next, yes |-> NoStep, no |-> NoStep]
Choice(type, tag, yes, no) ==
    [type |-> type, tag |-> tag, next |-> NoStep, yes |-> yes, no |-> no]
Flow(first, node) == [first |-> first, node |-> node]

\* twice: two waits; reply: two messages, a wait and another; tagged: a tag decides; loop: a cycle; fresh: saved with
\* other step ids, the tag of its first forgotten; empty: a trigger that leads nowhere.
MCGraphs ==
    LET all == [twice  |-> Flow("a", ("a" :> Step("wait", NoTag, "b")
                                   @@ "b" :> Step("send", NoTag, "c")
                                   @@ "c" :> Step("wait", NoTag, "d")
                                   @@ "d" :> Step("send", NoTag, NoStep))),
                reply  |-> Flow("a", ("a" :> Step("send", NoTag, "b")
                                   @@ "b" :> Step("send", NoTag, "c")
                                   @@ "c" :> Step("wait", NoTag, "d")
                                   @@ "d" :> Step("send", NoTag, NoStep))),
                tagged |-> Flow("a", ("a" :> Step("addtag", "vip", "b")
                                   @@ "b" :> Choice("tagbranch", "vip", "c", "d")
                                   @@ "c" :> Step("removetag", "vip", "d")
                                   @@ "d" :> Step("wait", NoTag, NoStep))),
                loop   |-> Flow("a", ("a" :> Step("notify", NoTag, "b")
                                   @@ "b" :> Choice("branch", NoTag, "a", "c")
                                   @@ "c" :> Step("wait", NoTag, "d")
                                   @@ "d" :> Step("send", NoTag, NoStep))),
                fresh  |-> Flow("d", ("d" :> Step("addtag", NoTag, "c")
                                   @@ "c" :> Step("removetag", "vip", NoStep))),
                empty  |-> Flow(NoStep, << >>)]
    IN  {all[f] : f \in Flows}

MCCustomer == [x \in Executions |-> "ann"]
MCFromComment == [x \in Executions |-> x = "cmt"]
MCSymmetry == Permutations(Crons) \cup Permutations(Hooks)
=============================================================================
