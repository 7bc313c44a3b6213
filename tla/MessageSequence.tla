--------------------------- MODULE MessageSequence ---------------------------
(* The sequence of private messages in the dialog of the rules page           *)
(* (rules/page.tsx), with the objects it is made of: the dialog works on the  *)
(* very objects of the row that is listed, copies some before it changes them *)
(* and changes others in place.  An object is known by when, and as what, it  *)
(* was made; IMAGE and VIDEO messages behave as TEXT does, the buttons of a   *)
(* card as the card.  Requests are served at once here: RuleEditor has their  *)
(* interleavings.                                                             *)
EXTENDS Naturals, Sequences

CONSTANTS SeqRules, NoSeqRule,    \* rules with a sequence that may be made
          MostMessages,           \* 5 in the code
          MostEntries,            \* 5 cards, 10 quick replies
          MaxTouches              \* bound: changes of the dialog, dialogs opened, lists read

LeastMessages == 2

ASSUME SequenceAssumption ==
    /\ NoSeqRule \notin SeqRules
    /\ MostMessages \in Nat /\ MostMessages >= LeastMessages /\ MostEntries \in Nat \ {0}
    /\ MaxTouches \in Nat

VARIABLES
    cells,      \* the page's objects: messages, their lists of cards or replies, and each of those
    batches,    \* how many times some were made
    storedMessages,       \* replyMessages of the rows; empty when there is none
    rowCells,   \* rules: the messages of each row as listed
    builder,      \* the dialog: replyMessages and editingRuleId
    readAs,     \* history: what a row said when the list was read
    rowsOpened,     \* history: the rows the dialog was opened for since
    touches
sequenceVars == <<cells, batches, storedMessages, rowCells, builder, readAs, rowsOpened, touches>>

Plain == "TEXT"
Rich == {"CAROUSEL", "QUICK_REPLIES"}
Text(n) == [kind |-> Plain, says |-> n, entries |-> <<>>]
TwoTexts == <<Text(0), Text(0)>>
\* The templates with a sequence end in quick replies; a row somebody wrote before has a card.
TemplateSays == <<Text(0), [kind |-> "QUICK_REPLIES", says |-> 0, entries |-> <<0>>]>>
RowSays == <<Text(0), [kind |-> "CAROUSEL", says |-> 0, entries |-> <<0>>]>>

\* An object is named by when it is made, the row it is made for or none, which message of that, and what of the
\* message: 0 the message, 1 its list of entries, 2 and on the entries.
Cell(kind, says, refs) == [kind |-> kind, says |-> says, refs |-> refs]
Part(a, p) == <<a[1], a[2], a[3], p>>
Made(a, m) ==
    CASE a[4] = 0 -> Cell(m.kind, m.says, IF m.kind = Plain THEN <<>> ELSE <<Part(a, 1)>>)
      [] a[4] = 1 -> Cell("list", 0, [j \in DOMAIN m.entries |-> Part(a, j + 1)])
      [] OTHER -> Cell("entry", m.entries[a[4] - 1], <<>>)
\* New objects for whole sequences, as a JSON answer or a deep copy makes them.
Names(n, r, ms) == UNION {{<<n, r, i, p>> : p \in IF ms[i].kind = Plain THEN {0} ELSE 0..(Len(ms[i].entries) + 1)} :
                          i \in DOMAIN ms}
Objects(n, said) == [a \in UNION {Names(n, r, said[r]) : r \in DOMAIN said} |-> Made(a, said[a[2]][a[3]])]
Lines(n, r, ms) == [i \in DOMAIN ms |-> <<n, r, i, 0>>]
OfDialog(ms) == [r \in {NoSeqRule} |-> ms]
Together(cs, ds) == [a \in DOMAIN cs \cup DOMAIN ds |-> IF a \in DOMAIN cs THEN cs[a] ELSE ds[a]]

ListOf(cs, m) == IF cs[m].refs = <<>> THEN <<>> ELSE cs[cs[m].refs[1]].refs
Reading(cs, lines) ==
    [i \in DOMAIN lines |-> [kind |-> cs[lines[i]].kind, says |-> cs[lines[i]].says,
                             entries |-> [j \in DOMAIN ListOf(cs, lines[i]) |-> cs[ListOf(cs, lines[i])[j]].says]]]

\* PREDEFINED_TEMPLATES come first among the objects, then what the dialog begins with.
TemplateLines == Lines(0, NoSeqRule, TemplateSays)

SequenceInit ==
    /\ storedMessages \in [SeqRules -> {<<>>, RowSays}]
    /\ \A r, s \in SeqRules : storedMessages[r] # <<>> /\ storedMessages[s] # <<>> => r = s
    /\ cells = Together(Together(Objects(0, OfDialog(TemplateSays)), Objects(1, OfDialog(TwoTexts))),
                        Objects(1, storedMessages))
    /\ batches = 1
    /\ rowCells = [r \in SeqRules |-> Lines(1, r, storedMessages[r])]
    /\ builder = [shown |-> FALSE, id |-> NoSeqRule, lines |-> Lines(1, NoSeqRule, TwoTexts)]
    /\ readAs = storedMessages /\ rowsOpened = {} /\ touches = 0

Touch == touches < MaxTouches /\ touches' = touches + 1
Add(objects) == cells' = Together(cells, objects) /\ batches' = batches + 1
New(p) == <<batches + 1, NoSeqRule, 1, p>>
NewLines(ms) == Lines(batches + 1, NoSeqRule, ms)

----------------------------------------------------------------------------
(* The dialog is opened and left.                                            *)

\* handleEditRule: the list holds parsed JSON, and the dialog takes it as it is.
EditRow(r) ==
    /\ ~builder.shown /\ rowCells[r] # <<>> /\ Touch
    /\ builder' = [shown |-> TRUE, id |-> r, lines |-> rowCells[r]]
    /\ rowsOpened' = rowsOpened \cup {r}
    /\ UNCHANGED <<cells, batches, storedMessages, rowCells, readAs>>

\* applyTemplate: a deep copy of it.
UseTemplate ==
    /\ ~builder.shown /\ Touch
    /\ Add(Objects(batches + 1, OfDialog(TemplateSays)))
    /\ builder' = [shown |-> TRUE, id |-> NoSeqRule, lines |-> NewLines(TemplateSays)]
    /\ UNCHANGED <<storedMessages, rowCells, readAs, rowsOpened>>

\* The "add" button shows the dialog as it was left.
AddRule ==
    /\ ~builder.shown /\ Touch
    /\ builder' = [builder EXCEPT !.shown = TRUE]
    /\ UNCHANGED <<cells, batches, storedMessages, rowCells, readAs, rowsOpened>>

Reset == /\ Add(Objects(batches + 1, OfDialog(TwoTexts)))
         /\ builder' = [shown |-> FALSE, id |-> NoSeqRule, lines |-> NewLines(TwoTexts)]

\* It is closed, which resets it, or cancelled, which does not.
LeaveDialog ==
    /\ builder.shown
    /\ \/ Reset
       \/ builder' = [builder EXCEPT !.shown = FALSE] /\ UNCHANGED <<cells, batches>>
    /\ UNCHANGED <<storedMessages, rowCells, readAs, rowsOpened, touches>>

\* A rule with an id is written over, another is made.
SaveSequence(r) ==
    /\ builder.shown
    /\ r = builder.id \/ (builder.id = NoSeqRule /\ storedMessages[r] = <<>>)
    /\ storedMessages' = [storedMessages EXCEPT ![r] = Reading(cells, builder.lines)]
    /\ Reset
    /\ UNCHANGED <<rowCells, readAs, rowsOpened, touches>>

----------------------------------------------------------------------------
(* The sequence is written.                                                  *)

Change(lines) == builder' = [builder EXCEPT !.lines = lines]
Writing == builder.shown /\ Touch /\ UNCHANGED <<storedMessages, rowCells, readAs, rowsOpened>>
Index == DOMAIN builder.lines

AddMessage ==
    /\ Writing /\ Len(builder.lines) < MostMessages
    /\ Add(Objects(batches + 1, OfDialog(<<Text(0)>>)))
    /\ Change(builder.lines \o NewLines(<<Text(0)>>))

RemoveMessage(i) ==
    /\ Writing /\ Len(builder.lines) > LeastMessages
    /\ Change([j \in 1..(Len(builder.lines) - 1) |-> builder.lines[IF j < i THEN j ELSE j + 1]])
    /\ UNCHANGED <<cells, batches>>

\* moveMessageUp of the one below is moveMessageDown of the one above.
MoveDown(i) ==
    /\ Writing /\ i + 1 \in Index
    /\ Change([builder.lines EXCEPT ![i] = builder.lines[i + 1], ![i + 1] = builder.lines[i]])
    /\ UNCHANGED <<cells, batches>>

\* handleUpdateMessageField: in a copy of the message, which shares its list.
UpdateField(i) ==
    /\ Writing
    /\ Add([a \in {New(0)} |-> [cells[builder.lines[i]] EXCEPT !.says = touches + 1]])
    /\ Change([builder.lines EXCEPT ![i] = New(0)])

\* The text, address or caption of a message, and the delay before any but the first.
WriteText(i) == UpdateField(i)
WriteDelay(i) == i > 1 /\ UpdateField(i)

\* Another type begins a new message, but for the delay; a list begins with one entry.
SetType(i, kind) ==
    /\ Writing
    /\ LET m == [kind |-> kind, says |-> 0, entries |-> IF kind = Plain THEN <<>> ELSE <<0>>] IN
         Add(Objects(batches + 1, OfDialog(<<m>>)))
    /\ Change([builder.lines EXCEPT ![i] = New(0)])

EntriesAt(i) == ListOf(cells, builder.lines[i])
IsRich(i, kind) == cells[builder.lines[i]].kind = kind

\* A new list with the old entries, set in the message where it is.
AddEntry(i) ==
    /\ Writing /\ Len(EntriesAt(i)) < MostEntries
    /\ cells' = Together([cells EXCEPT ![builder.lines[i]].refs = <<New(1)>>],
                         [a \in {New(1), New(2)} |-> IF a = New(1) THEN Cell("list", 0, Append(EntriesAt(i), New(2)))
                                                     ELSE Cell("entry", 0, <<>>)])
    /\ batches' = batches + 1
    /\ UNCHANGED builder

\* splice, on the list where it is.
RemoveEntry(i, j) ==
    /\ Writing /\ Len(EntriesAt(i)) > 1
    /\ cells' = [cells EXCEPT ![cells[builder.lines[i]].refs[1]].refs =
                   [k \in 1..(Len(@) - 1) |-> @[IF k < j THEN k ELSE k + 1]]]
    /\ UNCHANGED <<builder, batches>>

\* A title, a link, a button or a payload, in the entry where it is.
WriteEntry(i, j) ==
    /\ Writing
    /\ cells' = [cells EXCEPT ![EntriesAt(i)[j]].says = touches + 1]
    /\ UNCHANGED <<builder, batches>>

AddCard(i) == IsRich(i, "CAROUSEL") /\ AddEntry(i)
RemoveCard(i, j) == IsRich(i, "CAROUSEL") /\ RemoveEntry(i, j)
WriteCard(i, j) == IsRich(i, "CAROUSEL") /\ WriteEntry(i, j)
AddReply(i) == IsRich(i, "QUICK_REPLIES") /\ AddEntry(i)
RemoveReply(i, j) == IsRich(i, "QUICK_REPLIES") /\ RemoveEntry(i, j)
WriteReply(i, j) == IsRich(i, "QUICK_REPLIES") /\ WriteEntry(i, j)

----------------------------------------------------------------------------
(* The list.                                                                 *)

\* fetchRules, for whatever reason: new objects, while the dialog keeps those it has.
ReadRules ==
    /\ Touch
    /\ Add(Objects(batches + 1, storedMessages))
    /\ rowCells' = [r \in SeqRules |-> Lines(batches + 1, r, storedMessages[r])]
    /\ readAs' = storedMessages /\ rowsOpened' = {}
    /\ UNCHANGED <<storedMessages, builder>>

\* handleCloneRule: the copy is made of what the list holds by now.
CloneRow(r, s) ==
    /\ ~builder.shown /\ rowCells[r] # <<>> /\ storedMessages[s] = <<>> /\ Touch
    /\ storedMessages' = [storedMessages EXCEPT ![s] = Reading(cells, rowCells[r])]
    /\ UNCHANGED <<cells, batches, rowCells, builder, readAs, rowsOpened>>

----------------------------------------------------------------------------
SequenceNext ==
    \/ \E r \in SeqRules : EditRow(r) \/ SaveSequence(r) \/ \E s \in SeqRules : CloneRow(r, s)
    \/ UseTemplate \/ AddRule \/ LeaveDialog \/ AddMessage \/ ReadRules
    \/ \E i \in Index :
         \/ RemoveMessage(i) \/ MoveDown(i) \/ WriteText(i) \/ WriteDelay(i)
         \/ \E kind \in Rich \cup {Plain} : SetType(i, kind)
         \/ AddCard(i) \/ AddReply(i)
         \/ \E j \in DOMAIN EntriesAt(i) : \/ RemoveCard(i, j) \/ WriteCard(i, j)
                                         \/ RemoveReply(i, j) \/ WriteReply(i, j)

SequenceSpec == SequenceInit /\ [][SequenceNext]_sequenceVars

----------------------------------------------------------------------------
Whole(ms) ==
    /\ Len(ms) \in LeastMessages..MostMessages
    /\ \A i \in DOMAIN ms : /\ ms[i].kind \in Rich \cup {Plain}
                            /\ Len(ms[i].entries) \in IF ms[i].kind = Plain THEN {0} ELSE 1..MostEntries

\* The dialog and what is stored: two to five messages, and in each list one entry at least (handleAddMessage,
\* handleRemoveMessage).
SequenceTypeOK ==
    /\ \A r \in SeqRules : storedMessages[r] # <<>> => Whole(storedMessages[r])
    /\ builder.id \in SeqRules \cup {NoSeqRule} /\ Whole(Reading(cells, builder.lines))
    /\ rowsOpened \subseteq SeqRules /\ touches \in 0..MaxTouches

\* Whatever is done in the dialog, saved or not, a row goes on listing the messages it was read with: their number,
\* order, types and texts.  What is inside a card or among the quick replies is changed in the row as well while its
\* dialog is open, and "clone" or the next edit takes it from there (handleEditRule, handleUpdateMessageField,
\* moveMessageUp, handleRemoveMessage); a template is never changed (applyTemplate).
Skeleton(ms) == [i \in DOMAIN ms |-> [kind |-> ms[i].kind, says |-> ms[i].says]]
RowsKeptAsRead ==
    \A r \in SeqRules :
        /\ Skeleton(Reading(cells, rowCells[r])) = Skeleton(readAs[r])
        /\ r \notin rowsOpened => Reading(cells, rowCells[r]) = readAs[r]
TemplatesKept == Reading(cells, TemplateLines) = TemplateSays
=============================================================================
