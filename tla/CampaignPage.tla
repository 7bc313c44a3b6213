---------------------------- MODULE CampaignPage ----------------------------
(* The broadcasts page of one user (broadcasts/page.tsx) over the status of  *)
(* each campaign: a form, cards and a drawer whose buttons ask once more     *)
(* before they send or cancel, and the cron that sends what is due.  What a  *)
(* sending does to its contacts is the subject of Broadcasts.                *)
EXTENDS Naturals, FiniteSets

CONSTANTS Bulletins, NoBulletin,     \* Broadcast rows
          Presses, Cron,             \* requests of the page under way; the cron's own
          MaxPresses, MaxBulletinFaults    \* bounds: what the user does and what fails, together; failures alone

ASSUME CampaignPageAssumption ==
    /\ NoBulletin \notin Bulletins /\ Cron \notin Presses
    /\ MaxPresses \in Nat /\ MaxBulletinFaults \in Nat

Senders == Presses \cup {Cron}
Sendable == {"DRAFT", "SCHEDULED"}
Statuses == Sendable \cup {"none", "SENDING", "SENT", "CANCELLED"}

VARIABLES
    bstatus,            \* Broadcast.status
    deed,               \* requests to send or cancel, and what the cron is at
    campaigns, shading, \* campaigns, isLoading
    roll,               \* fetchCampaigns: requests under way
    details, box,       \* selectedCampaign with isDetailsOpen, and the question asked
    draft, submit,      \* the form: open, filled; isSubmitting
    \* history
    sendings,           \* how often a campaign was sent
    doubled,            \* found sendable by two before either marked it, or parked while it was sent
    quiet,              \* cancelled while nobody was sending it
    made, dropped,      \* campaigns made from what the form holds, and answers lost
    single, moved,      \* the last request for the list was alone; statuses written since it was read
    presses, bulletinFaults
campaignShown == <<campaigns, shading, roll, single, moved>>
formVars == <<draft, submit, made, dropped>>
sentVars == <<sendings, doubled, quiet>>
campaignPageVars == <<bstatus, deed, campaignShown, details, box, formVars, sentVars, presses, bulletinFaults>>

NoDeed == [pc |-> "idle", kind |-> "none", id |-> NoBulletin]
NoRoll == [pc |-> "idle", list |-> [b \in Bulletins |-> "none"], moved |-> {}]
NoDetails == [open |-> FALSE, id |-> NoBulletin, status |-> "none"]
NoBox == [kind |-> "none", id |-> NoBulletin]

CampaignPageInit ==
    /\ bstatus \in [Bulletins -> {"none", "DRAFT", "SCHEDULED"}]
    /\ deed = [s \in Senders |-> NoDeed]
    /\ campaigns = NoRoll.list /\ shading = TRUE /\ roll = [k \in Presses |-> NoRoll]
    /\ details = NoDetails /\ box = NoBox
    /\ draft = [open |-> FALSE, filled |-> FALSE] /\ submit = "idle"
    /\ sendings = [b \in Bulletins |-> 0] /\ doubled = {} /\ quiet = {}
    /\ made = 0 /\ dropped = 0 /\ single = TRUE /\ moved = {} /\ presses = 0 /\ bulletinFaults = 0

Press == presses + bulletinFaults < MaxPresses /\ presses' = presses + 1
Mishap ==
    /\ bulletinFaults < MaxBulletinFaults /\ presses + bulletinFaults < MaxPresses
    /\ bulletinFaults' = bulletinFaults + 1
AtWork(b) == {s \in Senders : deed[s].id = b /\ deed[s].kind = "execute"}
InHand(b) == {s \in AtWork(b) : deed[s].pc \in {"checked", "running"}}
TurnedDown(s) ==
    /\ deed[s].pc = "sent"
    /\ bstatus[deed[s].id] \in {"SENT", "CANCELLED"} \/ (deed[s].kind = "execute" /\ bstatus[deed[s].id] = "SENDING")
Uncovered == ~details.open /\ ~draft.open /\ box.kind = "none"

----------------------------------------------------------------------------
(* The list.                                                                 *)

FetchCampaigns(k) ==
    /\ roll[k].pc = "idle"
    /\ roll' = [roll EXCEPT ![k].pc = "asked"]
    /\ shading' = TRUE /\ single' = \A j \in Presses : roll[j].pc = "idle"
    /\ UNCHANGED <<campaigns, moved>>

\* The page asks when it is first drawn.
FirstRoll(k) ==
    /\ shading /\ \A j \in Presses : roll[j].pc = "idle"
    /\ FetchCampaigns(k)
    /\ UNCHANGED <<bstatus, deed, details, box, formVars, sentVars, presses, bulletinFaults>>

FindCampaigns(k) ==
    /\ roll[k].pc = "asked"
    /\ roll' = [roll EXCEPT ![k] = [pc |-> "answered", list |-> bstatus, moved |-> {}]]
    /\ UNCHANGED <<bstatus, deed, campaigns, shading, single, moved, details, box, formVars, sentVars, presses,
                   bulletinFaults>>

SetCampaigns(k) ==
    /\ roll[k].pc = "answered"
    /\ campaigns' = roll[k].list /\ moved' = roll[k].moved
    /\ shading' = FALSE
    /\ roll' = [roll EXCEPT ![k] = NoRoll]
    /\ UNCHANGED <<bstatus, deed, single, details, box, formVars, sentVars, presses, bulletinFaults>>

FetchCampaignsFails(k) ==
    /\ roll[k].pc # "idle" /\ Mishap
    /\ shading' = FALSE /\ single' = FALSE
    /\ roll' = [roll EXCEPT ![k] = NoRoll]
    /\ UNCHANGED <<bstatus, deed, campaigns, moved, details, box, formVars, sentVars, presses>>

\* A status is written; the list shown, and one on its way, do not know.
Become(b, status) ==
    /\ bstatus' = [bstatus EXCEPT ![b] = status]
    /\ moved' = moved \cup {b}
    /\ roll' = [k \in Presses |->
                   IF roll[k].pc = "answered" THEN [roll[k] EXCEPT !.moved = @ \cup {b}] ELSE roll[k]]
    /\ UNCHANGED <<campaigns, shading, single>>

----------------------------------------------------------------------------
(* The cards, the drawer and the question.                                   *)

\* A card or the drawer offers to send a draft and to cancel what is scheduled.
Offered(status) == CASE status = "DRAFT" -> "execute" [] status = "SCHEDULED" -> "cancel" [] OTHER -> "none"

ViewDetails(b) ==
    /\ Press /\ Uncovered /\ ~shading /\ campaigns[b] # "none"
    /\ details' = [open |-> TRUE, id |-> b, status |-> campaigns[b]]
    /\ UNCHANGED <<bstatus, deed, campaignShown, box, formVars, sentVars, bulletinFaults>>

CloseDetails ==
    /\ details.open
    /\ details' = [details EXCEPT !.open = FALSE]
    /\ UNCHANGED <<bstatus, deed, campaignShown, box, formVars, sentVars, presses, bulletinFaults>>

\* From a card.
AskOnCard(b) ==
    /\ Press /\ Uncovered /\ ~shading /\ Offered(campaigns[b]) # "none"
    /\ box' = [kind |-> Offered(campaigns[b]), id |-> b]
    /\ UNCHANGED <<bstatus, deed, campaignShown, details, formVars, sentVars, bulletinFaults>>

\* From the drawer, which shows the campaign as it was when it was opened.
AskInDrawer ==
    /\ details.open /\ Offered(details.status) # "none"
    /\ box' = [kind |-> Offered(details.status), id |-> details.id]
    /\ details' = [details EXCEPT !.open = FALSE]
    /\ UNCHANGED <<bstatus, deed, campaignShown, formVars, sentVars, presses, bulletinFaults>>

\* The answer to the question: a request, or nothing.
Decide(k) ==
    /\ box.kind # "none" /\ deed[k] = NoDeed
    /\ box' = NoBox
    /\ deed' \in {deed, [deed EXCEPT ![k] = [pc |-> "sent", kind |-> box.kind, id |-> box.id]]}
    /\ UNCHANGED <<bstatus, campaignShown, details, formVars, sentVars, presses, bulletinFaults>>

----------------------------------------------------------------------------
(* The service.                                                              *)

\* execute reads the status,
CheckSendable(s) ==
    /\ deed[s].pc = "sent" /\ deed[s].kind = "execute" /\ ~TurnedDown(s)
    /\ deed' = [deed EXCEPT ![s].pc = "checked"]
    /\ doubled' = IF InHand(deed[s].id) = {} THEN doubled ELSE doubled \cup {deed[s].id}
    /\ UNCHANGED <<bstatus, campaignShown, details, box, formVars, sendings, quiet, presses, bulletinFaults>>

\* marks the campaign, and sends,
MarkSending(s) ==
    /\ deed[s].pc = "checked" /\ deed[s].kind = "execute"
    /\ Become(deed[s].id, "SENDING")
    /\ sendings' = [sendings EXCEPT ![deed[s].id] = @ + 1]
    /\ deed' = [deed EXCEPT ![s].pc = "running"]
    /\ UNCHANGED <<details, box, formVars, doubled, quiet, presses, bulletinFaults>>

\* and marks it SENT, whatever it was marked meanwhile.
MarkSent(s) ==
    /\ deed[s].pc = "running"
    /\ Become(deed[s].id, "SENT")
    /\ deed' = [deed EXCEPT ![s] = IF s = Cron THEN NoDeed ELSE [@ EXCEPT !.pc = "done"]]
    /\ UNCHANGED <<details, box, formVars, sentVars, presses, bulletinFaults>>

\* cancel reads the status, and writes.
CheckCancellable(k) ==
    /\ deed[k].pc = "sent" /\ deed[k].kind = "cancel" /\ ~TurnedDown(k)
    /\ deed' = [deed EXCEPT ![k].pc = "checked"]
    /\ UNCHANGED <<bstatus, campaignShown, details, box, formVars, sentVars, presses, bulletinFaults>>

CancelCampaign(k) ==
    /\ deed[k].pc = "checked" /\ deed[k].kind = "cancel"
    /\ Become(deed[k].id, "CANCELLED")
    /\ quiet' = IF InHand(deed[k].id) = {} /\ deed[Cron].id # deed[k].id THEN quiet \cup {deed[k].id}
                ELSE quiet
    /\ deed' = [deed EXCEPT ![k].pc = "done"]
    /\ UNCHANGED <<details, box, formVars, sendings, doubled, presses, bulletinFaults>>

\* The cron finds a campaign that is due, and parks one that it could not send.
CronFinds(b) ==
    /\ deed[Cron] = NoDeed /\ bstatus[b] = "SCHEDULED"
    /\ deed' = [deed EXCEPT ![Cron] = [pc |-> "sent", kind |-> "execute", id |-> b]]
    /\ UNCHANGED <<bstatus, campaignShown, details, box, formVars, sentVars, presses, bulletinFaults>>

CronParks ==
    /\ deed[Cron].pc # "idle"
    /\ IF TurnedDown(Cron) THEN UNCHANGED bulletinFaults ELSE Mishap
    /\ Become(deed[Cron].id, "DRAFT")
    /\ doubled' = IF sendings[deed[Cron].id] = 0 /\ AtWork(deed[Cron].id) = {Cron} THEN doubled
                  ELSE doubled \cup {deed[Cron].id}
    /\ deed' = [deed EXCEPT ![Cron] = NoDeed]
    /\ UNCHANGED <<details, box, formVars, sendings, quiet, presses>>

----------------------------------------------------------------------------
(* The answers.                                                              *)

\* A send that is done and a cancel that was stored ask for the list anew.
DeedDone(k, j) ==
    /\ deed[k].pc = "done"
    /\ deed' = [deed EXCEPT ![k] = NoDeed]
    /\ FetchCampaigns(j)
    /\ UNCHANGED <<bstatus, details, box, formVars, sentVars, presses, bulletinFaults>>

\* A refusal, or a failure: the page keeps its list, and a campaign half sent stays SENDING.
DeedFails(k) ==
    /\ deed[k].pc # "idle"
    /\ IF TurnedDown(k) THEN UNCHANGED bulletinFaults ELSE Mishap
    /\ deed' = [deed EXCEPT ![k] = NoDeed]
    /\ UNCHANGED <<bstatus, campaignShown, details, box, formVars, sentVars, presses>>

----------------------------------------------------------------------------
(* The form.  Closing it keeps what it holds.                                *)

FillForm ==
    /\ Press /\ Uncovered
    /\ draft' = [open |-> TRUE, filled |-> TRUE]
    /\ IF draft.filled THEN UNCHANGED <<made, dropped>> ELSE made' = 0 /\ dropped' = 0
    /\ UNCHANGED <<bstatus, deed, campaignShown, details, box, submit, sentVars, bulletinFaults>>

CloseDraft ==
    /\ draft.open
    /\ draft' = [draft EXCEPT !.open = FALSE]
    /\ UNCHANGED <<bstatus, deed, campaignShown, details, box, submit, made, dropped, sentVars, presses,
                   bulletinFaults>>

\* Seeded fault: The form can be submitted while it is.
CreateCampaignAgain ==
    /\ draft.open /\ draft.filled
    /\ submit' = "sent"
    /\ UNCHANGED <<bstatus, deed, campaignShown, details, box, draft, made, dropped, sentVars, presses,
                   bulletinFaults>>

CreateCampaign ==
    /\ draft.open /\ draft.filled /\ submit = "idle"
    /\ submit' = "sent"
    /\ UNCHANGED <<bstatus, deed, campaignShown, details, box, draft, made, dropped, sentVars, presses,
                   bulletinFaults>>

StoreCampaign(b, status) ==
    /\ submit = "sent" /\ bstatus[b] = "none"
    /\ Become(b, status) /\ submit' = "stored" /\ made' = made + 1
    /\ UNCHANGED <<deed, details, box, draft, dropped, sentVars, presses, bulletinFaults>>

Created(k) ==
    /\ submit = "stored" /\ submit' = "idle"
    /\ draft' = [open |-> FALSE, filled |-> FALSE] /\ made' = 0 /\ dropped' = 0
    /\ FetchCampaigns(k)
    /\ UNCHANGED <<bstatus, deed, details, box, sentVars, presses, bulletinFaults>>

CreateFails ==
    /\ submit # "idle" /\ Mishap
    /\ submit' = "idle" /\ dropped' = dropped + 1
    /\ UNCHANGED <<bstatus, deed, campaignShown, details, box, draft, made, sentVars, presses>>

----------------------------------------------------------------------------
CampaignPageNext ==
    \/ \E k \in Presses :
          \/ FirstRoll(k) \/ FindCampaigns(k) \/ SetCampaigns(k) \/ FetchCampaignsFails(k)
          \/ Decide(k) \/ CheckCancellable(k) \/ CancelCampaign(k) \/ DeedFails(k) \/ Created(k)
          \/ \E j \in Presses : DeedDone(k, j)
    \/ \E s \in Senders : CheckSendable(s) \/ MarkSending(s) \/ MarkSent(s)
    \/ \E b \in Bulletins : ViewDetails(b) \/ AskOnCard(b) \/ CronFinds(b)
    \/ \E b \in Bulletins, status \in Sendable : StoreCampaign(b, status)
    \/ CloseDetails \/ AskInDrawer \/ CronParks \/ FillForm \/ CloseDraft \/ CreateCampaign \/ CreateFails

CampaignPageSpec == CampaignPageInit /\ [][CampaignPageNext]_campaignPageVars

----------------------------------------------------------------------------
CampaignPageTypeOK ==
    /\ {bstatus, campaigns} \subseteq [Bulletins -> Statuses]
    /\ \A s \in Senders : deed[s].kind \in {"none", "execute", "cancel"} /\ deed[s].id \in Bulletins \cup {NoBulletin}
    /\ {details.id, box.id} \subseteq Bulletins \cup {NoBulletin} /\ submit \in {"idle", "sent", "stored"}
    /\ UNION {moved, doubled, quiet} \subseteq Bulletins
    /\ presses \in 0..MaxPresses /\ bulletinFaults \in 0..MaxBulletinFaults

\* Once no answer is awaited, the page shows each campaign as it is stored, unless requests for the list may have
\* crossed, the last one failed, or the status was written since it was read.
CampaignsShown ==
    (\A k \in Presses : roll[k].pc = "idle") /\ ~shading /\ single =>
        \A b \in Bulletins \ moved : campaigns[b] = bstatus[b]

\* However often the page, its drawer and the cron ask, a campaign is sent once, unless two found it sendable before
\* either marked it, or the cron parked what another was sending.
SentOnce == \A b \in Bulletins \ doubled : sendings[b] <= 1

\* What was cancelled while nobody was sending it is not sent.
CancelHolds == \A b \in quiet : bstatus[b] = "CANCELLED" /\ InHand(b) = {}

\* One filling of the form makes one campaign more only for each answer that was lost.
FormMakesOne == made <= 1 + dropped
=============================================================================
