----------------------------- MODULE Preferences -----------------------------
(* The settings page of the dashboard: the form of the automatic replies,     *)
(* which is one PUT of all its fields, and those of the two names, which are  *)
(* filled from the user the browser keeps.  A value is the number of the edit *)
(* it is from: 0 is what the form begins with, 1 what was stored before.      *)
EXTENDS Naturals

CONSTANTS Panes, Knobs,          \* pages open in one browser; columns of the tenant
          Captions,              \* User.name and Tenant.name
          MaxStrokes,            \* bound: pages opened, edits and saves
          MaxPreferenceFaults    \* bound: requests that fail, answers that are lost

ASSUME PreferencesAssumption == MaxStrokes \in Nat /\ MaxPreferenceFaults \in Nat

VARIABLES
    knob, caption,   \* what is stored
    kept,            \* names of the user in localStorage
    pane,            \* each page: the form of the replies, the user of its context, and the fields of the names
    load,            \* GET ai-settings of each page
    put,             \* PUT ai-settings of each page
    naming,          \* saves of the names
    \* history
    read, chosen,    \* the page shows an answer; the fields edited since
    overtaken,       \* a page has stored settings after they were read for this one
    unaware,         \* a name was saved by another page, or was on its way when this page was opened
    aside,           \* a page unaware of a name wrote the user, or did not hear of its save
    strokes, preferenceFaults
formState == <<load, put, naming>>
preferenceStory == <<read, chosen, overtaken, unaware, aside>>
preferenceVars == <<knob, caption, kept, pane, formState, preferenceStory, strokes, preferenceFaults>>

Unanswered == [k \in Knobs |-> 0]
Before == [c \in Captions |-> 1]
NoPane == [open |-> FALSE, opts |-> Unanswered, known |-> Before, field |-> Before]
NoKnobLoad == [pc |-> "idle", rows |-> Unanswered]
NoPut == [pc |-> "idle", opts |-> Unanswered, chosen |-> {}, blind |-> FALSE]
NoNaming == [pc |-> "idle", value |-> 0]

PreferencesInit ==
    /\ knob = [k \in Knobs |-> 1] /\ caption = Before /\ kept = Before
    /\ pane = [t \in Panes |-> NoPane] /\ load = [t \in Panes |-> NoKnobLoad] /\ put = [t \in Panes |-> NoPut]
    /\ naming = [t \in Panes |-> [c \in Captions |-> NoNaming]]
    /\ read = {} /\ chosen = [t \in Panes |-> {}] /\ overtaken = {} /\ unaware = {} /\ aside = FALSE
    /\ strokes = 0 /\ preferenceFaults = 0

Stroke == strokes < MaxStrokes /\ strokes' = strokes + 1
PreferenceFault == preferenceFaults < MaxPreferenceFaults /\ preferenceFaults' = preferenceFaults + 1
NewValue == strokes + 2

\* A page is loaded when its browser has nothing on its way: requests that die with a page are among the lost.
OpenPane(t) ==
    /\ put[t] = NoPut /\ naming[t] = [c \in Captions |-> NoNaming] /\ Stroke
    /\ pane' = [pane EXCEPT ![t] = [open |-> TRUE, opts |-> Unanswered, known |-> kept, field |-> kept]]
    /\ load' = [load EXCEPT ![t] = [NoKnobLoad EXCEPT !.pc = "asked"]]
    /\ read' = read \ {t} /\ chosen' = [chosen EXCEPT ![t] = {}] /\ overtaken' = overtaken \ {t}
    /\ unaware' = IF \E u \in Panes, c \in Captions : naming[u][c].pc = "served" THEN unaware \cup {t}
                   ELSE unaware \ {t}
    /\ UNCHANGED <<knob, caption, kept, put, naming, aside, preferenceFaults>>

----------------------------------------------------------------------------
(* The automatic replies.                                                    *)

ReadKnobs(t) ==
    /\ load[t].pc = "asked"
    /\ load' = [load EXCEPT ![t] = [pc |-> "read", rows |-> knob]]
    /\ overtaken' = overtaken \ {t}
    /\ UNCHANGED <<knob, caption, kept, pane, put, naming, read, chosen, unaware, aside, strokes, preferenceFaults>>

\* The answer replaces what was edited while it was on its way.
ShowKnobs(t) ==
    /\ load[t].pc = "read"
    /\ pane' = [pane EXCEPT ![t].opts = load[t].rows]
    /\ load' = [load EXCEPT ![t] = NoKnobLoad]
    /\ read' = read \cup {t} /\ chosen' = [chosen EXCEPT ![t] = {}]
    /\ UNCHANGED <<knob, caption, kept, put, naming, overtaken, unaware, aside, strokes, preferenceFaults>>

\* Nothing is said: the form stays as it began, and can be saved.
KnobLoadFails(t) ==
    /\ load[t] # NoKnobLoad /\ PreferenceFault
    /\ load' = [load EXCEPT ![t] = NoKnobLoad]
    /\ UNCHANGED <<knob, caption, kept, pane, put, naming, preferenceStory, strokes>>

Choose(t, k) ==
    /\ pane[t].open /\ Stroke
    /\ pane' = [pane EXCEPT ![t].opts[k] = NewValue]
    /\ chosen' = [chosen EXCEPT ![t] = @ \cup {k}]
    /\ UNCHANGED <<knob, caption, kept, formState, read, overtaken, unaware, aside, preferenceFaults>>

SaveAi(t) ==
    /\ pane[t].open /\ put[t] = NoPut /\ Stroke
    /\ put' = [put EXCEPT ![t] = [pc |-> "sent", opts |-> pane[t].opts, chosen |-> chosen[t],
                                  blind |-> t \notin read]]
    /\ UNCHANGED <<knob, caption, kept, pane, load, naming, preferenceStory, preferenceFaults>>

ServeAi(t) ==
    /\ put[t].pc = "sent"
    /\ knob' = put[t].opts
    /\ put' = [put EXCEPT ![t].pc = "served"]
    /\ overtaken' = IF knob' = knob THEN overtaken
                    ELSE overtaken \cup {u \in Panes : u # t \/ load[u].pc = "read" \/ put[u].blind}
    /\ UNCHANGED <<caption, kept, pane, load, naming, read, chosen, unaware, aside, strokes, preferenceFaults>>

AiSaved(t) ==
    /\ put[t].pc = "served"
    /\ put' = [put EXCEPT ![t] = NoPut]
    /\ chosen' = [chosen EXCEPT ![t] = {k \in Knobs : pane[t].opts[k] # put[t].opts[k]}]
    /\ UNCHANGED <<knob, caption, kept, pane, load, naming, read, overtaken, unaware, aside, strokes,
                   preferenceFaults>>

AiFails(t) ==
    /\ put[t] # NoPut /\ PreferenceFault
    /\ put' = [put EXCEPT ![t] = NoPut]
    /\ UNCHANGED <<knob, caption, kept, pane, load, naming, preferenceStory, strokes>>

----------------------------------------------------------------------------
(* The names of the person and of the workspace.                             *)

TypeName(t, c) ==
    /\ pane[t].open /\ Stroke
    /\ pane' = [pane EXCEPT ![t].field[c] = NewValue]
    /\ UNCHANGED <<knob, caption, kept, formState, preferenceStory, preferenceFaults>>

SaveName(t, c) ==
    /\ pane[t].open /\ naming[t][c] = NoNaming /\ Stroke
    /\ naming' = [naming EXCEPT ![t][c] = [pc |-> "sent", value |-> pane[t].field[c]]]
    /\ UNCHANGED <<knob, caption, kept, pane, load, put, preferenceStory, preferenceFaults>>

ServeName(t, c) ==
    /\ naming[t][c].pc = "sent"
    /\ caption' = [caption EXCEPT ![c] = naming[t][c].value]
    /\ naming' = [naming EXCEPT ![t][c].pc = "served"]
    /\ unaware' = unaware \cup (Panes \ {t})
    /\ UNCHANGED <<knob, kept, pane, load, put, read, chosen, overtaken, aside, strokes, preferenceFaults>>

\* updateUser; the new user then fills both fields, whatever was typed in them since.
NameSaved(t, c) ==
    LET user == [pane[t].known EXCEPT ![c] = naming[t][c].value] IN
    /\ naming[t][c].pc = "served"
    /\ pane' = [pane EXCEPT ![t].known = user, ![t].field = user]
    /\ kept' = user
    /\ naming' = [naming EXCEPT ![t][c] = NoNaming]
    /\ aside' = (aside \/ t \in unaware)
    /\ UNCHANGED <<knob, caption, load, put, read, chosen, overtaken, unaware, strokes, preferenceFaults>>

NameFails(t, c) ==
    /\ naming[t][c] # NoNaming /\ PreferenceFault
    /\ naming' = [naming EXCEPT ![t][c] = NoNaming]
    /\ aside' = (aside \/ naming[t][c].pc = "served")
    /\ UNCHANGED <<knob, caption, kept, pane, load, put, read, chosen, overtaken, unaware, strokes>>

PreferencesNext ==
    \E t \in Panes :
       \/ OpenPane(t) \/ ReadKnobs(t) \/ ShowKnobs(t) \/ KnobLoadFails(t)
       \/ (\E k \in Knobs : Choose(t, k)) \/ SaveAi(t) \/ ServeAi(t) \/ AiSaved(t) \/ AiFails(t)
       \/ \E c \in Captions : \/ TypeName(t, c) \/ SaveName(t, c) \/ ServeName(t, c)
                             \/ NameSaved(t, c) \/ NameFails(t, c)

PreferencesSpec == PreferencesInit /\ [][PreferencesNext]_preferenceVars

----------------------------------------------------------------------------
Edits == 0..(MaxStrokes + 1)
PreferencesTypeOK ==
    /\ knob \in [Knobs -> Edits] /\ caption \in [Captions -> Edits] /\ kept \in [Captions -> Edits]
    /\ \A t \in Panes : /\ pane[t].opts \in [Knobs -> Edits]
                        /\ pane[t].known \in [Captions -> Edits] /\ pane[t].field \in [Captions -> Edits]
                        /\ chosen[t] \subseteq Knobs
    /\ read \cup overtaken \cup unaware \subseteq Panes
    /\ strokes \in 0..MaxStrokes /\ preferenceFaults \in 0..MaxPreferenceFaults

\* Saving the form changes the settings that were edited in it, unless it was saved before or without the answer to
\* what is stored, or settings were saved since they were read for it (handleSaveAi of the page, updateAiSettings).
SettingsKept ==
    [][\A t \in Panes, k \in Knobs :
          put[t].pc = "sent" /\ put'[t].pc = "served" /\ knob'[k] # knob[k] =>
             k \in put[t].chosen \/ put[t].blind \/ t \in overtaken]_preferenceVars

\* A form that was filled and saved shows what is stored, unless settings were saved since they were read for it.
SettingsShown ==
    \A t \in read \ overtaken :
       put[t] = NoPut /\ load[t] = NoKnobLoad /\ chosen[t] = {} => pane[t].opts = knob

\* When nothing is on its way, the browser keeps the names that are stored, and so does a page that was opened since
\* others saved them, unless one that was not wrote its user, or the answer to a save was lost (handleSaveProfile,
\* handleSaveCompany, updateUser of auth-context.tsx).
NamesShown ==
    (\A t \in Panes, c \in Captions : naming[t][c] = NoNaming) =>
       \/ aside
       \/ kept = caption /\ \A t \in Panes : pane[t].open /\ t \notin unaware => pane[t].known = caption
=============================================================================
