------------------------------ MODULE FlowEditor ------------------------------
(* The flow editor (flows/page.tsx) and the service that stores what it draws *)
(* (flows.service.ts).  A drawing is a set of nodes and of connections, each  *)
(* from a branch of a node; a stored flow is its triggers with their          *)
(* nextStepId and its steps with their branches.  Editors are browser tabs.   *)
EXTENDS Naturals, Sequences, FiniteSets

CONSTANTS Editors,
          Flows, NoFlow,      \* Flow rows that may be made
          Nodes, NoNode,      \* ids of nodes; no two are the same, in any tab
          Triggers,           \* those that are triggers ...
          Conditions,         \* ... and conditions; the others are actions
          MaxEdits,           \* bound: changes of a drawing, flows begun or opened
          MaxLost             \* bound: answers that get lost

ASSUME EditorAssumption ==
    /\ NoFlow \notin Flows /\ NoNode \notin Nodes
    /\ Triggers \cup Conditions \subseteq Nodes /\ Triggers \cap Conditions = {}
    /\ MaxEdits \in Nat /\ MaxLost \in Nat

VARIABLES
    flow,        \* Flow rows with their triggers, steps and branches
    tab,         \* the state of each page
    saving,      \* handleSaveFlow: the one request isSaving allows in a tab
    opening,     \* handleEditFlow: the request for a flow, while a spinner hides the list
    \* history
    begun,       \* drawings begun so far: each has a number, which is kept in the rows
    crossed,     \* flows whose id was given to a tab that showed another drawing by then
    lost, edits
editorVars == <<flow, tab, saving, opening, begun, crossed, lost, edits>>

Steps == Nodes \ Triggers
BranchesOf(n) == IF n \in Conditions THEN {"yes", "no"} ELSE {"next"}
Conn(n, branch, to) == [from |-> n, branch |-> branch, to |-> to]
Handles == {h \in Nodes \X {"yes", "no", "next"} : h[2] \in BranchesOf(h[1])}
NoHandle == <<NoNode, "next">>

NoGraph == [nodes |-> {}, conns |-> {}]
NoRow == [state |-> "none", graph |-> NoGraph, drawing |-> 0]
NoRequestTo == [pc |-> "idle", id |-> NoFlow, graph |-> NoGraph, drawing |-> 0, latest |-> FALSE]
\* "clean", "waits" and "latest" are history: nothing was drawn since the flow was opened or saved, its save is
\* not answered yet, and nobody wrote the row since it was.
List == [shown |-> "list", id |-> NoFlow, graph |-> NoGraph, from |-> NoHandle, drawing |-> 0,
         clean |-> FALSE, waits |-> FALSE, latest |-> FALSE]

EditorInit ==
    /\ flow = [f \in Flows |-> NoRow]
    /\ tab = [e \in Editors |-> List]
    /\ saving = [e \in Editors |-> NoRequestTo]
    /\ opening = [e \in Editors |-> NoRequestTo]
    /\ begun = 0 /\ crossed = {} /\ lost = 0 /\ edits = 0

Kept == {f \in Flows : flow[f].state = "kept"}
Drawing(e) == tab[e].shown = "canvas"
Used == UNION ({flow[f].graph.nodes : f \in Flows} \cup {tab[e].graph.nodes : e \in Editors}
               \cup {saving[e].graph.nodes : e \in Editors} \cup {opening[e].graph.nodes : e \in Editors})

----------------------------------------------------------------------------
(* Drawing.                                                                  *)

Count == edits < MaxEdits /\ edits' = edits + 1
Draw(e, graph) ==
    /\ Count
    /\ tab' = [tab EXCEPT ![e].graph = graph, ![e].clean = FALSE]
    /\ UNCHANGED <<flow, saving, opening, begun, crossed, lost>>

\* handleDropCanvas
DropNode(e, n) ==
    /\ Drawing(e) /\ n \notin Used
    /\ Draw(e, [tab[e].graph EXCEPT !.nodes = @ \cup {n}])

\* handleDeleteNode: with its connections, but not with the handle a connection was begun from.
DeleteNode(e, n) ==
    /\ Drawing(e) /\ n \in tab[e].graph.nodes
    /\ Draw(e, [nodes |-> tab[e].graph.nodes \ {n},
                conns |-> {c \in tab[e].graph.conns : c.from # n /\ c.to # n}])

DeleteConnection(e, c) ==
    /\ Drawing(e) /\ c \in tab[e].graph.conns
    /\ c.from \in tab[e].graph.nodes    \* the others are not rendered
    /\ Draw(e, [tab[e].graph EXCEPT !.conns = @ \ {c}])

ClickOutput(e, h) ==
    /\ Drawing(e) /\ h[1] \in tab[e].graph.nodes
    /\ tab' = [tab EXCEPT ![e].from = h]
    /\ UNCHANGED <<flow, saving, opening, begun, crossed, lost, edits>>

\* handleInputHandleClick: the new connection replaces the one of the branch; none leads from a node to itself.
ClickInput(e, to) ==
    LET h == tab[e].from
        others == {c \in tab[e].graph.conns : ~(c.from = h[1] /\ c.branch = h[2])}
    IN  /\ Drawing(e) /\ to \in tab[e].graph.nodes \cap Steps /\ h # NoHandle
        /\ Count
        /\ tab' = [tab EXCEPT ![e].from = NoHandle,
                              ![e].graph.conns = IF h[1] = to THEN @ ELSE others \cup {Conn(h[1], h[2], to)},
                              ![e].clean = @ /\ h[1] = to]
        /\ UNCHANGED <<flow, saving, opening, begun, crossed, lost>>

----------------------------------------------------------------------------
(* Beginning, opening and leaving.                                           *)

BeginFlow(e, t, n, id) ==
    /\ ~Drawing(e)
    /\ {t, n} \cap Used = {} /\ t \in Triggers /\ n \in Steps \ Conditions
    /\ Count
    /\ begun' = begun + 1
    /\ tab' = [tab EXCEPT ![e] = [List EXCEPT !.shown = "canvas", !.id = id, !.from = tab[e].from,
                                             !.graph = [nodes |-> {t, n}, conns |-> {Conn(t, "next", n)}],
                                             !.drawing = begun + 1]]
    /\ UNCHANGED <<flow, saving, opening, crossed, lost>>

\* Seeded fault: the id of what was drawn before stays.
CreateNewFlowThere(e, t, n) == BeginFlow(e, t, n, tab[e].id)

\* handleCreateNewFlow: a trigger that leads to a message.  Its button stays while a flow is being opened.
CreateNewFlow(e, t, n) == BeginFlow(e, t, n, NoFlow)

EditFlow(e, f) ==
    /\ ~Drawing(e) /\ opening[e].pc = "idle" /\ f \in Kept
    /\ Count
    /\ opening' = [opening EXCEPT ![e] = [NoRequestTo EXCEPT !.pc = "asked", !.id = f]]
    /\ UNCHANGED <<flow, tab, saving, begun, crossed, lost>>

GetFlow(e) ==
    LET row == flow[opening[e].id] IN
    /\ opening[e].pc = "asked"
    /\ opening' = [opening EXCEPT ![e] =
          IF row.state # "kept" THEN NoRequestTo
          ELSE [pc |-> "answered", id |-> opening[e].id, graph |-> row.graph,
                drawing |-> row.drawing, latest |-> TRUE]]
    /\ UNCHANGED <<flow, tab, saving, begun, crossed, lost, edits>>

\* What the tab shows by then is replaced, a drawing begun meanwhile too.
ShowFlow(e) ==
    /\ opening[e].pc = "answered"
    /\ tab' = [tab EXCEPT ![e] = [shown |-> "canvas", id |-> opening[e].id, graph |-> opening[e].graph,
                                  from |-> tab[e].from, drawing |-> opening[e].drawing,
                                  clean |-> TRUE, waits |-> FALSE, latest |-> opening[e].latest]]
    /\ opening' = [opening EXCEPT ![e] = NoRequestTo]
    /\ UNCHANGED <<flow, saving, begun, crossed, lost, edits>>

GoBack(e) ==
    /\ Drawing(e)
    /\ tab' = [tab EXCEPT ![e].shown = "list"]
    /\ UNCHANGED <<flow, saving, opening, begun, crossed, lost, edits>>

----------------------------------------------------------------------------
(* Saving.                                                                   *)

\* A branch is stored with the first connection found for it; what leads from no node is left out.
First(g, n, branch) == LET found == {c \in g.conns : c.from = n /\ c.branch = branch}
                       IN  IF found = {} THEN {} ELSE {CHOOSE c \in found : TRUE}
Payload(g) == [nodes |-> g.nodes, conns |-> UNION {First(g, h[1], h[2]) : h \in {x \in Handles : x[1] \in g.nodes}}]

SaveFlow(e) ==
    /\ Drawing(e) /\ saving[e].pc = "idle"
    /\ saving' = [saving EXCEPT ![e] = [NoRequestTo EXCEPT !.pc = IF tab[e].id = NoFlow THEN "post" ELSE "put",
                                         !.id = tab[e].id, !.graph = Payload(tab[e].graph),
                                         !.drawing = tab[e].drawing]]
    /\ tab' = [tab EXCEPT ![e].clean = TRUE, ![e].waits = TRUE]
    /\ UNCHANGED <<flow, opening, begun, crossed, lost, edits>>

\* A step's id is a primary key: no other flow has it.
StepsTaken(g, f) == \E x \in Kept \ {f} : flow[x].graph.nodes \cap g.nodes \cap Steps # {}

Outdated(r, f) == [r EXCEPT !.latest = @ /\ r.id # f]

\* saveFlow: one transaction; the update of the flow's row makes the next one wait for its end.
Write(e, f, pc) ==
    /\ flow' = [flow EXCEPT ![f] = [state |-> "kept", graph |-> saving[e].graph, drawing |-> saving[e].drawing]]
    /\ saving' = [x \in Editors |-> IF x = e THEN [saving[e] EXCEPT !.pc = pc, !.id = f, !.latest = TRUE]
                                             ELSE Outdated(saving[x], f)]
    /\ tab' = [x \in Editors |-> Outdated(tab[x], f)]
    /\ opening' = [x \in Editors |-> Outdated(opening[x], f)]

RefuseSave(e) == saving' = [saving EXCEPT ![e].pc = "failed"] /\ UNCHANGED <<flow, tab, opening>>

PostFlow(e, f) ==
    /\ saving[e].pc = "post" /\ flow[f].state = "none"
    /\ IF StepsTaken(saving[e].graph, f) THEN RefuseSave(e) ELSE Write(e, f, "posted")
    /\ UNCHANGED <<begun, crossed, lost, edits>>

PutFlow(e) ==
    LET f == saving[e].id IN
    /\ saving[e].pc = "put"
    /\ IF f \notin Kept \/ StepsTaken(saving[e].graph, f) THEN RefuseSave(e) ELSE Write(e, f, "stored")
    /\ UNCHANGED <<begun, crossed, lost, edits>>

\* The answer to a POST gives the tab its id, whatever it shows by then.
Posted(e) ==
    /\ saving[e].pc = "posted"
    /\ tab' = [tab EXCEPT ![e].id = saving[e].id, ![e].waits = FALSE,
                          ![e].latest = IF tab[e].waits THEN saving[e].latest ELSE @]
    /\ crossed' = IF tab[e].waits THEN crossed ELSE crossed \cup {saving[e].id}
    /\ saving' = [saving EXCEPT ![e] = NoRequestTo]
    /\ UNCHANGED <<flow, opening, begun, lost, edits>>

Stored(e) ==
    /\ saving[e].pc = "stored"
    /\ tab' = [tab EXCEPT ![e].waits = FALSE, ![e].latest = IF tab[e].waits THEN saving[e].latest ELSE @]
    /\ saving' = [saving EXCEPT ![e] = NoRequestTo]
    /\ UNCHANGED <<flow, opening, begun, crossed, lost, edits>>

\* A refusal, or an answer that got lost, after which the same is posted again.
SaveFailed(e) ==
    /\ \/ saving[e].pc = "failed" /\ UNCHANGED lost
       \/ saving[e].pc \in {"posted", "stored"} /\ lost < MaxLost /\ lost' = lost + 1
    /\ tab' = [tab EXCEPT ![e].clean = @ /\ ~tab[e].waits, ![e].waits = FALSE]
    /\ saving' = [saving EXCEPT ![e] = NoRequestTo]
    /\ UNCHANGED <<flow, opening, begun, crossed, edits>>

\* handleDeleteFlow, deleteFlow
DeleteFlow(e, f) ==
    /\ ~Drawing(e) /\ f \in Kept
    /\ Count
    /\ flow' = [flow EXCEPT ![f].state = "deleted"]
    /\ UNCHANGED <<tab, saving, opening, begun, crossed, lost>>

\* saveDrip: a message, or a message, a wait and a message, each leading to the next.
SaveDrip(e, f, t, steps) ==
    /\ ~Drawing(e) /\ flow[f].state = "none"
    /\ ({t} \cup {steps[i] : i \in DOMAIN steps}) \cap Used = {}
    /\ Count
    /\ begun' = begun + 1
    /\ flow' = [flow EXCEPT ![f] =
          [state |-> "kept", drawing |-> begun + 1,
           graph |-> [nodes |-> {t} \cup {steps[i] : i \in DOMAIN steps},
                      conns |-> {Conn(steps[i], "next", steps[i + 1]) : i \in DOMAIN steps \ {Len(steps)}}]]]
    /\ UNCHANGED <<tab, saving, opening, crossed, lost>>

----------------------------------------------------------------------------
DripSteps == {s \in [1..3 -> Steps \ Conditions] : \A i, j \in 1..3 : s[i] = s[j] => i = j}
             \cup [1..1 -> Steps \ Conditions]

DrawOn(e) ==
    \/ \E n \in Nodes : DropNode(e, n) \/ DeleteNode(e, n) \/ ClickInput(e, n)
    \/ \E c \in tab[e].graph.conns : DeleteConnection(e, c)
    \/ \E h \in Handles : ClickOutput(e, h)

EditorNext == \E e \in Editors :
    \/ DrawOn(e)
    \/ \E t, n \in Nodes : CreateNewFlow(e, t, n)
    \/ \E f \in Flows : EditFlow(e, f) \/ PostFlow(e, f) \/ DeleteFlow(e, f)
    \/ GetFlow(e) \/ ShowFlow(e) \/ GoBack(e)
    \/ SaveFlow(e) \/ PutFlow(e) \/ Posted(e) \/ Stored(e) \/ SaveFailed(e)
    \/ \E f \in Flows, t \in Triggers, s \in DripSteps : SaveDrip(e, f, t, s)

EditorSpec == EditorInit /\ [][EditorNext]_editorVars

----------------------------------------------------------------------------
Graphs == [nodes : SUBSET Nodes, conns : SUBSET [from : Nodes, branch : {"yes", "no", "next"}, to : Steps]]

EditorTypeOK ==
    /\ \A f \in Flows : /\ flow[f].state \in {"none", "kept", "deleted"}
                        /\ flow[f].graph \in Graphs /\ flow[f].drawing \in 0..begun
    /\ \A e \in Editors : /\ tab[e].graph \in Graphs /\ tab[e].id \in Flows \cup {NoFlow}
                          /\ tab[e].from \in Handles \cup {NoHandle}
                          /\ saving[e].graph \in Graphs /\ opening[e].graph \in Graphs
                          /\ saving[e].pc \in {"idle", "post", "put", "posted", "stored", "failed"}
                          /\ opening[e].pc \in {"idle", "asked", "answered"}
    /\ crossed \subseteq Flows /\ lost \in 0..MaxLost /\ edits \in 0..MaxEdits

\* What a tab shows, when nothing was drawn since it was saved or opened and nobody saved the flow since, is
\* what is stored, node by node and branch by branch: saving and opening a flow lose and add nothing, whatever
\* was deleted while a connection was being drawn (handleSaveFlow, handleEditFlow, saveFlow).
Rendered(g) == {c \in g.conns : c.from \in g.nodes /\ c.to \in g.nodes}
DrawnIsStored ==
    \A e \in Editors :
        LET row == flow[tab[e].id] IN
        /\ Drawing(e) /\ tab[e].id \in Kept \ crossed
        /\ tab[e].clean /\ ~tab[e].waits /\ tab[e].latest
        => tab[e].graph.nodes = row.graph.nodes /\ Rendered(tab[e].graph) = Rendered(row.graph)

\* A flow is never overwritten with another drawing, nor stored twice when a save is repeated, however the tabs
\* open, begin and save; but a tab that began or opened another one while its POST was on the way is given the
\* id of the first (handleSaveFlow, handleCreateNewFlow).
FlowKeepsDrawing ==
    [][\A f \in Flows \ crossed' : f \in Kept /\ f \in Kept' => flow'[f].drawing = flow[f].drawing]_editorVars
=============================================================================
