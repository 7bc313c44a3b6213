----------------------------- MODULE Parts_proofs -----------------------------
(* What the other parts keep: the platform's settings and the calls it makes, *)
(* keys and limits, administrators, members, accounts and sessions - and what *)
(* the pages outside the dashboard, the channels page and the inbox show.     *)
EXTENDS PlatformSettings, GraphClient, PublicApi, Administration, Team, Accounts, Sessions, ChannelPage, LiveInbox,
        ConversationList, FunctionTheorems, FiniteSetTheorems, TLAPS

-----------------------------------------------------------------------------
(* PlatformSettings: the copy that readers are given.                         *)

\* A reader that nobody's save has overtaken holds what is stored, but for a
\* save that is under way or broke off.
CopyInv ==
    /\ CopyIsStored
    /\ \A r \in Readers : reader[r].pc = "read" /\ ~reader[r].old => reader[r].rows = setting \/ Saving \/ torn

SettingsInv == SettingsTypeOK /\ CopyInv

LEMMA SettingsInvInit == SettingsInit => SettingsInv
<1> SUFFICES ASSUME SettingsInit PROVE SettingsInv
  OBVIOUS
<1>1. Unset \in [Keys -> Values] /\ 0 \in Values
  BY SettingsAssumption DEF Unset, Values
<1>2. NoReader \in [pc : {"idle", "find", "read"}, rows : [Keys -> Values], old : BOOLEAN]
  BY <1>1 DEF NoReader
<1>3. NoSave \in [pc : {"idle", "write"}, keys : SUBSET Keys, value : Values]
  BY <1>1 DEF NoSave
<1>4. setting \in [Keys -> Values] /\ copy \in [Keys -> Values]
  BY <1>1 DEF SettingsInit
<1>5. SettingsTypeOK
  <2>1. reader \in [Readers -> [pc : {"idle", "find", "read"}, rows : [Keys -> Values], old : BOOLEAN]]
    BY <1>2 DEF SettingsInit
  <2>2. save \in [Admins -> [pc : {"idle", "write"}, keys : SUBSET Keys, value : Values]]
    BY <1>3 DEF SettingsInit
  <2>3. saves \in Values /\ settingsFaults \in 0..MaxSettingsFaults
    BY <1>1, SettingsAssumption DEF SettingsInit
  <2>4. cached \in BOOLEAN /\ late \in BOOLEAN /\ torn \in BOOLEAN
    BY DEF SettingsInit
  <2>5. QED
    BY <1>4, <2>1, <2>2, <2>3, <2>4 DEF SettingsTypeOK
<1>6. CopyInv
  BY DEF SettingsInit, CopyInv, CopyIsStored, NoReader
<1>7. QED
  BY <1>5, <1>6 DEF SettingsInv

LEMMA SettingsInvStep ==
  ASSUME SettingsInv, [SettingsNext]_settingVars
  PROVE  SettingsInv'
<1> USE SettingsAssumption DEF SettingsInv, SettingsTypeOK
<1>1. ASSUME NEW r \in Readers, FindSettings(r) PROVE SettingsInv'
  <2>1. SettingsTypeOK'
    BY <1>1 DEF FindSettings
  <2>2. CopyInv'
    BY <1>1 DEF FindSettings, CopyInv, CopyIsStored, Saving
  <2>3. QED
    BY <2>1, <2>2
<1>2. ASSUME NEW r \in Readers, ReadSettings(r) PROVE SettingsInv'
  <2>1. SettingsTypeOK'
    BY <1>2 DEF ReadSettings
  <2>2. CopyInv'
    BY <1>2 DEF ReadSettings, CopyInv, CopyIsStored, Saving
  <2>3. QED
    BY <2>1, <2>2
<1>3. ASSUME NEW r \in Readers, StoreCopy(r) PROVE SettingsInv'
  <2>1. SettingsTypeOK'
    BY <1>3, SettingsInvInit DEF StoreCopy, NoReader, Unset, Values
  <2>2. CopyInv'
    BY <1>3 DEF StoreCopy, CopyInv, CopyIsStored, Saving, NoReader
  <2>3. QED
    BY <2>1, <2>2
<1>4. ASSUME NEW a \in Admins, NEW keys \in SUBSET Keys, NEW clear \in BOOLEAN, StartSave(a, keys, clear)
      PROVE  SettingsInv'
  <2>1. SettingsTypeOK'
    BY <1>4 DEF StartSave, Values
  <2>2. Saving'
    BY <1>4 DEF StartSave, Saving
  <2>3. QED
    BY <2>1, <2>2 DEF CopyInv, CopyIsStored
<1>5. ASSUME NEW a \in Admins, NEW k \in Keys, WriteSetting(a, k) PROVE SettingsInv'
  <2>1. SettingsTypeOK'
    BY <1>5 DEF WriteSetting, Values
  <2>2. Saving'
    BY <1>5 DEF WriteSetting, Saving
  <2>3. QED
    BY <2>1, <2>2 DEF CopyInv, CopyIsStored
<1>6. ASSUME NEW a \in Admins, Invalidate(a) PROVE SettingsInv'
  <2>1. SettingsTypeOK'
    <3>1. Unset \in [Keys -> Values] /\ NoSave \in [pc : {"idle", "write"}, keys : SUBSET Keys, value : Values]
      BY DEF Unset, NoSave, Values
    <3>2. QED
      BY <1>6, <3>1 DEF Invalidate, EndSave
  <2>2. cached' = FALSE /\ \A r \in Readers : reader'[r].pc = "read" => reader'[r].old
    BY <1>6 DEF Invalidate, EndSave
  <2>3. QED
    BY <2>1, <2>2 DEF CopyInv, CopyIsStored
<1>7. ASSUME NEW a \in Admins, SaveBreaks(a) PROVE SettingsInv'
  <2>1. SettingsTypeOK'
    BY <1>7 DEF SaveBreaks, NoSave, Values
  <2>2. torn' = TRUE
    BY <1>7 DEF SaveBreaks
  <2>3. QED
    BY <2>1, <2>2 DEF CopyInv, CopyIsStored
<1>8. CASE UNCHANGED settingVars
  BY <1>8 DEF settingVars, CopyInv, CopyIsStored, Saving
<1> HIDE DEF SettingsInv, SettingsTypeOK
<1>9. CASE \E r \in Readers : FindSettings(r) \/ ReadSettings(r) \/ StoreCopy(r)
  BY <1>1, <1>2, <1>3, <1>9
<1>10. CASE \E a \in Admins : \/ \E keys \in SUBSET Keys, clear \in BOOLEAN : StartSave(a, keys, clear)
                              \/ \E k \in Keys : WriteSetting(a, k)
                              \/ Invalidate(a) \/ SaveBreaks(a)
  BY <1>4, <1>5, <1>6, <1>7, <1>10
<1>11. QED
  BY <1>8, <1>9, <1>10 DEF SettingsNext

-----------------------------------------------------------------------------
(* GraphClient: what an attempt may repeat, and how long it takes.            *)

Locals == [pc : {"idle", "fetch"} \cup Ended, kind : Kinds, stage : Stages, attempt : 0..MaxRetries, spent : Nat]
Counts == [Stages -> Nat]

\* A stage takes three attempts and the two waits between them.
StageTime == (MaxRetries + 1) * Timeout + MaxRetries * WaitCap

\* The locals of a call against what Meta did at each of its stages: every attempt before this one that Meta
\* carried out is one the client did not hear of, a stage before the publication has not published, and the time
\* is that of the stages and attempts so far.
CallInv(l, done, silent) ==
    /\ l.kind = "request" => l.stage = "request"
    /\ l.pc = "idle" => l.spent = 0 /\ \A s \in Stages : done[s] = 0 /\ silent[s] = 0
    /\ l.stage = "container" => done["request"] = 0 /\ silent["request"] = 0 /\ l.pc # "ok"
    /\ l.pc = "fetch" => done[l.stage] <= silent[l.stage] /\ silent[l.stage] <= l.attempt
    /\ l.pc = "ok" => done["request"] > 0
    /\ \A s \in Stages : done[s] <= silent[s] + 1 /\ done[s] <= MaxCopies
    /\ l.spent <= (IF l.kind = "publish" /\ l.stage = "request" THEN StageTime ELSE 0)
                    + (IF l.pc = "fetch" THEN l.attempt * (Timeout + WaitCap) ELSE StageTime)

GraphInv ==
    /\ call \in [Calls -> Locals] /\ acted \in [Calls -> Counts] /\ unheard \in [Calls -> Counts]
    /\ \A c \in Calls : CallInv(call[c], acted[c], unheard[c])

LEMMA GraphInvInit == GraphInit => GraphInv
<1> SUFFICES ASSUME GraphInit PROVE GraphInv
  OBVIOUS
<1>1. Idle \in Locals
  BY DEF Idle, Locals, Kinds, Stages, Ended, MaxRetries
<1>2. call \in [Calls -> Locals] /\ acted \in [Calls -> Counts] /\ unheard \in [Calls -> Counts]
  BY <1>1 DEF GraphInit, Counts
<1>3. ASSUME NEW c \in Calls PROVE CallInv(call[c], acted[c], unheard[c])
  BY <1>3 DEF GraphInit, CallInv, Idle, Stages, MaxCopies, MaxRetries, StageTime, Timeout, WaitCap
<1>4. QED
  BY <1>2, <1>3 DEF GraphInv

\* One more of a stage of a call.
More(f, c, s) == [f EXCEPT ![c][s] = @ + 1]

LEMMA OneMore ==
  ASSUME NEW f \in [Calls -> Counts], NEW c \in Calls, NEW s \in Stages
  PROVE  /\ More(f, c, s) \in [Calls -> Counts]
         /\ More(f, c, s)[c][s] = f[c][s] + 1
         /\ \A t \in Stages \ {s} : More(f, c, s)[c][t] = f[c][t]
         /\ \A d \in Calls \ {c} : More(f, c, s)[d] = f[d]
<1>1. f[c] \in [Stages -> Nat]
  BY DEF Counts
<1>2. PICK new : new = [f[c] EXCEPT ![s] = @ + 1]
  OBVIOUS
<1>3. new \in Counts /\ new[s] = f[c][s] + 1 /\ \A t \in Stages \ {s} : new[t] = f[c][t]
  BY <1>1, <1>2 DEF Counts
<1>4. More(f, c, s) = [f EXCEPT ![c] = new]
  BY <1>2 DEF More
<1>5. More(f, c, s) \in [Calls -> Counts]
  BY <1>3, <1>4
<1>6. More(f, c, s)[c] = new /\ \A d \in Calls \ {c} : More(f, c, s)[d] = f[d]
  BY <1>4
<1>7. More(f, c, s)[c][s] = f[c][s] + 1 /\ \A t \in Stages \ {s} : More(f, c, s)[c][t] = f[c][t]
  BY <1>3, <1>6
<1>8. QED
  BY <1>5, <1>6, <1>7

\* A step of one call keeps the invariant when it keeps that call's.
LEMMA CallStep ==
  ASSUME GraphInv, NEW c \in Calls, NEW l \in Locals, call' = [call EXCEPT ![c] = l],
         acted' \in [Calls -> Counts], unheard' \in [Calls -> Counts],
         \A d \in Calls \ {c} : acted'[d] = acted[d] /\ unheard'[d] = unheard[d],
         CallInv(l, acted'[c], unheard'[c])
  PROVE  GraphInv'
<1>1. call' \in [Calls -> Locals] /\ call'[c] = l /\ \A d \in Calls \ {c} : call'[d] = call[d]
  BY DEF GraphInv
<1>2. ASSUME NEW d \in Calls PROVE CallInv(call'[d], acted'[d], unheard'[d])
  BY <1>1 DEF GraphInv
<1>3. QED
  BY <1>1, <1>2 DEF GraphInv

\* What an attempt that the client goes on from, or ends with, changes of one call: e times Meta carried the stage
\* out, and l times the client did not hear of it.
Attempted(c, e, l) ==
    LET s == call[c].stage IN
    /\ acted' \in [Calls -> Counts] /\ unheard' \in [Calls -> Counts]
    /\ acted'[c][s] = acted[c][s] + e /\ unheard'[c][s] = unheard[c][s] + l
    /\ \A t \in Stages \ {s} : acted'[c][t] = acted[c][t] /\ unheard'[c][t] = unheard[c][t]
    /\ \A d \in Calls \ {c} : acted'[d] = acted[d] /\ unheard'[d] = unheard[d]

LEMMA AttemptedAs ==
  ASSUME GraphInv, NEW c \in Calls
  PROVE  /\ Executed(c) /\ UNCHANGED unheard => Attempted(c, 1, 0)
         /\ Executed(c) /\ Lost(c) => Attempted(c, 1, 1)
         /\ UNCHANGED acted /\ Lost(c) => Attempted(c, 0, 1)
         /\ UNCHANGED <<acted, unheard>> => Attempted(c, 0, 0)
<1> DEFINE s == call[c].stage
<1>1. s \in Stages /\ acted \in [Calls -> Counts] /\ unheard \in [Calls -> Counts]
  BY DEF GraphInv, Locals
<1>2. acted[c][s] \in Nat /\ unheard[c][s] \in Nat
  BY <1>1 DEF Counts
<1>3. Executed(c) => acted' = More(acted, c, s)
  BY DEF Executed, More
<1>4. Lost(c) => unheard' = More(unheard, c, s)
  BY DEF Lost, More
<1>5. Executed(c) => /\ acted' \in [Calls -> Counts] /\ acted'[c][s] = acted[c][s] + 1
                     /\ \A t \in Stages \ {s} : acted'[c][t] = acted[c][t]
                     /\ \A d \in Calls \ {c} : acted'[d] = acted[d]
  BY <1>1, <1>3, OneMore
<1>6. Lost(c) => /\ unheard' \in [Calls -> Counts] /\ unheard'[c][s] = unheard[c][s] + 1
                 /\ \A t \in Stages \ {s} : unheard'[c][t] = unheard[c][t]
                 /\ \A d \in Calls \ {c} : unheard'[d] = unheard[d]
  BY <1>1, <1>4, OneMore
<1>7. QED
  BY <1>1, <1>2, <1>5, <1>6 DEF Attempted

LEMMA CallFacts ==
  ASSUME GraphInv, NEW c \in Calls
  PROVE  /\ call[c] \in Locals /\ call[c].stage \in Stages /\ call[c].kind \in Kinds
         /\ call[c].attempt \in 0..MaxRetries /\ call[c].spent \in Nat
         /\ \A s \in Stages : acted[c][s] \in Nat /\ unheard[c][s] \in Nat
         /\ CallInv(call[c], acted[c], unheard[c])
BY DEF GraphInv, Locals, Counts

Tooks == {0, Timeout}
Waits == 0..WaitCap

LEMMA GoesOn ==
  ASSUME GraphInv, NEW c \in Calls, call[c].pc = "fetch", NEW e \in {0, 1}, NEW l \in {0, 1}, e <= l,
         Attempted(c, e, l), NEW took \in Tooks, NEW wait \in Waits,
         call[c].attempt < MaxRetries, Again(c, took, wait)
  PROVE  GraphInv'
<1> DEFINE s == call[c].stage
           new == [call[c] EXCEPT !.attempt = @ + 1, !.spent = @ + took + wait]
<1>1. call[c] \in Locals /\ s \in Stages /\ call[c].attempt \in 0..MaxRetries /\ call[c].spent \in Nat
  BY CallFacts
<1>2. took \in Nat /\ wait \in Nat /\ took <= Timeout /\ wait <= WaitCap
  BY DEF Tooks, Waits, Timeout, WaitCap
<1>3. /\ new \in Locals /\ new.pc = "fetch" /\ new.kind = call[c].kind /\ new.stage = s
      /\ new.attempt = call[c].attempt + 1 /\ new.spent = call[c].spent + took + wait
  <2>1. call[c].attempt + 1 \in 0..MaxRetries /\ call[c].spent + took + wait \in Nat
    BY <1>1, <1>2 DEF MaxRetries
  <2>2. QED
    BY <1>1, <2>1 DEF Locals
<1>4. call' = [call EXCEPT ![c] = new]
  BY DEF Again
<1> HIDE DEF new
<1>5. CallInv(call[c], acted[c], unheard[c])
  BY DEF GraphInv
<1>6. \A t \in Stages : acted[c][t] \in Nat /\ unheard[c][t] \in Nat
  BY CallFacts
<1>7. /\ acted'[c][s] = acted[c][s] + e /\ unheard'[c][s] = unheard[c][s] + l
      /\ \A t \in Stages \ {s} : acted'[c][t] = acted[c][t] /\ unheard'[c][t] = unheard[c][t]
  BY DEF Attempted
<1>8. acted'[c][s] <= unheard'[c][s] /\ unheard'[c][s] <= new.attempt
  BY <1>1, <1>3, <1>5, <1>6, <1>7 DEF CallInv, MaxRetries
<1>9. \A t \in Stages : acted'[c][t] <= unheard'[c][t] + 1 /\ acted'[c][t] <= MaxCopies
  BY <1>1, <1>3, <1>5, <1>6, <1>7, <1>8 DEF CallInv, MaxRetries, MaxCopies
<1>10. new.spent <= (IF new.kind = "publish" /\ new.stage = "request" THEN StageTime ELSE 0)
                      + new.attempt * (Timeout + WaitCap)
  BY <1>1, <1>2, <1>3, <1>5 DEF CallInv, StageTime, MaxRetries, Timeout, WaitCap
<1>11. new.stage = "container" => acted'[c]["request"] = 0 /\ unheard'[c]["request"] = 0
  BY <1>1, <1>3, <1>5, <1>7 DEF CallInv, Stages
<1>12. CallInv(new, acted'[c], unheard'[c])
  BY <1>1, <1>3, <1>5, <1>8, <1>9, <1>10, <1>11 DEF CallInv
<1>13. QED
  BY <1>3, <1>4, <1>12, CallStep DEF Attempted

LEMMA EndsWith ==
  ASSUME GraphInv, NEW c \in Calls, call[c].pc = "fetch", NEW e \in {0, 1}, NEW l \in {0, 1},
         Attempted(c, e, l), NEW took \in Tooks, NEW how \in Ended,
         how = "ok" => e = 1 /\ call[c].stage = "request", Return(c, how, took)
  PROVE  GraphInv'
<1> DEFINE s == call[c].stage
           new == [call[c] EXCEPT !.pc = how, !.spent = @ + took]
<1>1. call[c] \in Locals /\ s \in Stages /\ call[c].attempt \in 0..MaxRetries /\ call[c].spent \in Nat
  BY CallFacts
<1>2. took \in Nat /\ took <= Timeout
  BY DEF Tooks, Timeout
<1>3. /\ new \in Locals /\ new.pc = how /\ new.kind = call[c].kind /\ new.stage = s
      /\ new.spent = call[c].spent + took
  <2>1. call[c].spent + took \in Nat
    BY <1>1, <1>2
  <2>2. QED
    BY <1>1, <2>1 DEF Locals
<1>4. call' = [call EXCEPT ![c] = new]
  BY DEF Return
<1> HIDE DEF new
<1>5. CallInv(call[c], acted[c], unheard[c])
  BY DEF GraphInv
<1>6. \A t \in Stages : acted[c][t] \in Nat /\ unheard[c][t] \in Nat
  BY CallFacts
<1>7. /\ acted'[c][s] = acted[c][s] + e /\ unheard'[c][s] = unheard[c][s] + l
      /\ \A t \in Stages \ {s} : acted'[c][t] = acted[c][t] /\ unheard'[c][t] = unheard[c][t]
  BY DEF Attempted
<1>8. \A t \in Stages : acted'[c][t] <= unheard'[c][t] + 1 /\ acted'[c][t] <= MaxCopies
  BY <1>1, <1>5, <1>6, <1>7 DEF CallInv, MaxRetries, MaxCopies
<1>9. new.spent <= (IF new.kind = "publish" /\ new.stage = "request" THEN StageTime ELSE 0) + StageTime
  BY <1>1, <1>2, <1>3, <1>5 DEF CallInv, StageTime, MaxRetries, Timeout, WaitCap
<1>10. new.stage = "container" => acted'[c]["request"] = 0 /\ unheard'[c]["request"] = 0 /\ new.pc # "ok"
  BY <1>1, <1>3, <1>5, <1>7 DEF CallInv, Stages
<1>11. how = "ok" => acted'[c]["request"] > 0
  BY <1>1, <1>6, <1>7
<1>12. how # "idle" /\ how # "fetch"
  BY DEF Ended
<1>13. CallInv(new, acted'[c], unheard'[c])
  BY <1>1, <1>3, <1>5, <1>8, <1>9, <1>10, <1>11, <1>12 DEF CallInv
<1>14. QED
  BY <1>3, <1>4, <1>13, CallStep DEF Attempted

LEMMA Publishes ==
  ASSUME GraphInv, NEW c \in Calls, call[c].pc = "fetch", call[c].stage = "container", Attempted(c, 1, 0),
         NEW took \in Tooks,
         call' = [call EXCEPT ![c].stage = "request", ![c].attempt = 0, ![c].spent = @ + took]
  PROVE  GraphInv'
<1> DEFINE new == [call[c] EXCEPT !.stage = "request", !.attempt = 0, !.spent = @ + took]
<1>1. /\ call[c] \in Locals /\ call[c].stage \in Stages /\ call[c].attempt \in 0..MaxRetries
      /\ call[c].spent \in Nat /\ call[c].kind \in Kinds
  BY CallFacts
<1>2. took \in Nat /\ took <= Timeout
  BY DEF Tooks, Timeout
<1>3. new \in Locals /\ new.pc = "fetch" /\ new.kind = call[c].kind /\ new.stage = "request"
      /\ new.attempt = 0 /\ new.spent = call[c].spent + took
  <2>1. call[c].spent + took \in Nat /\ 0 \in 0..MaxRetries /\ "request" \in Stages
    BY <1>1, <1>2 DEF MaxRetries, Stages
  <2>2. QED
    BY <1>1, <2>1 DEF Locals
<1>4. call' = [call EXCEPT ![c] = new]
  OBVIOUS
<1> HIDE DEF new
<1>5. CallInv(call[c], acted[c], unheard[c])
  BY DEF GraphInv
<1>6. \A t \in Stages : acted[c][t] \in Nat /\ unheard[c][t] \in Nat
  BY CallFacts
<1>7. /\ acted'[c]["container"] = acted[c]["container"] + 1 /\ unheard'[c]["container"] = unheard[c]["container"] + 0
      /\ \A t \in Stages \ {"container"} : acted'[c][t] = acted[c][t] /\ unheard'[c][t] = unheard[c][t]
  BY DEF Attempted
<1>8. acted'[c]["request"] = 0 /\ unheard'[c]["request"] = 0
  BY <1>5, <1>7 DEF CallInv, Stages
<1>9. \A t \in Stages : acted'[c][t] <= unheard'[c][t] + 1 /\ acted'[c][t] <= MaxCopies
  BY <1>1, <1>5, <1>6, <1>7 DEF CallInv, MaxRetries, MaxCopies
<1>10. call[c].kind = "publish"
  BY <1>1, <1>5 DEF CallInv, Kinds
<1>11. new.spent <= StageTime
  BY <1>1, <1>2, <1>3, <1>5, <1>10 DEF CallInv, StageTime, MaxRetries, Timeout, WaitCap
<1>12. new.spent <= (IF new.kind = "publish" /\ new.stage = "request" THEN StageTime ELSE 0)
                      + (IF new.pc = "fetch" THEN new.attempt * (Timeout + WaitCap) ELSE StageTime)
  BY <1>3, <1>10, <1>11 DEF StageTime, MaxRetries, Timeout, WaitCap
<1>13. CallInv(new, acted'[c], unheard'[c])
  BY <1>3, <1>8, <1>9, <1>10, <1>12 DEF CallInv
<1>14. QED
  BY <1>3, <1>4, <1>13, CallStep DEF Attempted

LEMMA WaitsBounded ==
  /\ \A code \in Codes : Retryable(code) => WaitAfter(code) \in Waits
  /\ Backoff(0) \in Waits /\ Backoff(1) \in Waits
<1>1. ASSUME NEW code \in Codes, Retryable(code) PROVE WaitAfter(code) \in Waits
  <2>1. code \in Nat
    BY CodesAssumption
  <2>2. CASE classifyError(code) = "RETRY"
    <3>1. code = 1
      BY <2>2 DEF classifyError, RetryCodes, DelayCodes, ReauthCodes, FixCodes, SkipCodes
    <3>2. QED
      BY <2>2, <3>1 DEF WaitAfter, delaySeconds, Waits, WaitCap
  <2>3. CASE classifyError(code) # "RETRY"
    <3>1. delaySeconds(code) \in Nat
      BY <2>1 DEF delaySeconds
    <3>2. QED
      BY <2>3, <3>1 DEF WaitAfter, Capped, Waits, WaitCap
  <2>4. QED
    BY <2>2, <2>3
<1>2. Backoff(0) \in Waits /\ Backoff(1) \in Waits
  BY DEF Backoff, Waits, WaitCap
<1>3. QED
  BY <1>1, <1>2

\* An attempt that another may follow: e times Meta carried it out, l times that was not heard.
LEMMA GoesOnOr ==
  ASSUME GraphInv, NEW c \in Calls, call[c].pc = "fetch", NEW e \in {0, 1}, NEW l \in {0, 1}, e <= l,
         Attempted(c, e, l), NEW took \in Tooks, NEW wait,
         call[c].attempt < MaxRetries => wait \in Waits, GoOnOr(c, took, wait)
  PROVE  GraphInv'
<1>1. CASE call[c].attempt < MaxRetries
  BY <1>1, GoesOn DEF GoOnOr
<1>2. CASE ~(call[c].attempt < MaxRetries)
  <2>1. Return(c, "failed", took) /\ "failed" \in Ended
    BY <1>2 DEF GoOnOr, Ended
  <2>2. QED
    BY <2>1, EndsWith
<1>3. QED
  BY <1>1, <1>2

LEMMA GraphInvStep ==
  ASSUME GraphInv, [GraphNext]_gvars
  PROVE  GraphInv'
<1>1. ASSUME NEW c \in Calls, NEW kind \in Kinds, StartCall(c, kind) PROVE GraphInv'
  <2> DEFINE stage == IF kind = "publish" THEN "container" ELSE "request"
             new == [Idle EXCEPT !.pc = "fetch", !.kind = kind, !.stage = stage]
  <2>1. call' = [call EXCEPT ![c] = new] /\ UNCHANGED <<acted, unheard>> /\ call[c].pc = "idle"
    BY <1>1 DEF StartCall
  <2>2. /\ new \in Locals /\ new.pc = "fetch" /\ new.kind = kind /\ new.stage = stage /\ new.attempt = 0
        /\ new.spent = 0 /\ stage \in Stages
    <3>1. stage \in Stages
      BY DEF Stages
    <3>2. Idle \in Locals /\ Idle.attempt = 0 /\ Idle.spent = 0
      BY DEF Idle, Locals, Kinds, Stages, Ended, MaxRetries
    <3> HIDE DEF stage
    <3>3. QED
      BY <3>1, <3>2 DEF Locals
  <2> HIDE DEF new
  <2>3. CallInv(call[c], acted[c], unheard[c]) /\ acted \in [Calls -> Counts] /\ unheard \in [Calls -> Counts]
    BY DEF GraphInv
  <2>4. acted[c]["container"] = 0 /\ unheard[c]["container"] = 0
        /\ acted[c]["request"] = 0 /\ unheard[c]["request"] = 0
    BY <2>1, <2>3 DEF CallInv, Stages
  <2>5. CallInv(new, acted[c], unheard[c])
    BY <2>2, <2>4 DEF CallInv, MaxCopies, MaxRetries, StageTime, Timeout, WaitCap, Stages, Kinds
  <2>6. QED
    BY <2>1, <2>2, <2>3, <2>5, CallStep
<1>2. ASSUME NEW c \in Calls, NEW took \in Tooks, Answered(c, took) PROVE GraphInv'
  <2>1. call[c].pc = "fetch" /\ Attempted(c, 1, 0)
    BY <1>2, AttemptedAs DEF Answered
  <2>2. CASE call[c].stage = "container"
    BY <1>2, <2>1, <2>2, Publishes DEF Answered
  <2>3. CASE call[c].stage # "container"
    <3>1. Return(c, "ok", took) /\ "ok" \in Ended /\ call[c].stage = "request"
      BY <1>2, <2>3, CallFacts DEF Answered, Ended, Stages
    <3>2. QED
      BY <2>1, <3>1, EndsWith
  <2>4. QED
    BY <2>2, <2>3
<1>3. ASSUME NEW c \in Calls, NEW took \in Tooks, AnsweredBlank(c, took) PROVE GraphInv'
  <2>1. call[c].pc = "fetch" /\ Attempted(c, 1, 0)
    BY <1>3, AttemptedAs DEF AnsweredBlank
  <2>2. PICK how \in Ended : Return(c, how, took) /\ (how = "ok" => call[c].stage = "request")
    BY <1>3, CallFacts DEF AnsweredBlank, Ended, Stages
  <2>3. QED
    BY <2>1, <2>2, EndsWith
<1>4. ASSUME NEW c \in Calls, NEW took \in Tooks, NEW code \in Codes, Refused(c, code, took) PROVE GraphInv'
  <2>1. call[c].pc = "fetch" /\ (Attempted(c, 1, 1) \/ Attempted(c, 0, 0))
    BY <1>4, AttemptedAs DEF Refused
  <2>2. CASE Retryable(code)
    <3>1. GoOnOr(c, took, WaitAfter(code)) /\ WaitAfter(code) \in Waits
      BY <1>4, <2>2, WaitsBounded DEF Refused
    <3>2. QED
      BY <2>1, <3>1, GoesOnOr
  <2>3. CASE ~Retryable(code)
    <3>1. Return(c, "failed", took) /\ "failed" \in Ended
      BY <1>4, <2>3 DEF Refused, Ended
    <3>2. QED
      BY <2>1, <3>1, EndsWith
  <2>4. QED
    BY <2>2, <2>3
<1>5. ASSUME NEW c \in Calls, NEW took \in Tooks, NotHeard(c, took) PROVE GraphInv'
  <2>1. call[c].pc = "fetch" /\ (Attempted(c, 1, 1) \/ Attempted(c, 0, 1))
    BY <1>5, AttemptedAs DEF NotHeard
  <2>2. GoOnOr(c, took, Backoff(call[c].attempt))
    BY <1>5 DEF NotHeard
  <2>3. call[c].attempt < MaxRetries => Backoff(call[c].attempt) \in Waits
    <3>1. call[c].attempt < MaxRetries => call[c].attempt = 0 \/ call[c].attempt = 1
      BY CallFacts DEF MaxRetries
    <3>2. QED
      BY <3>1, WaitsBounded
  <2>4. QED
    BY <2>1, <2>2, <2>3, GoesOnOr
<1>6. CASE UNCHANGED gvars
  BY <1>6 DEF gvars, GraphInv
<1>7. QED
  BY <1>1, <1>2, <1>3, <1>4, <1>5, <1>6 DEF GraphNext, Attempt, Tooks

\* What one attempt may do, as its caller sees it.
Outcome(c) ==
    /\ call[c].pc = "fetch" /\ call'[c].pc \in {"fetch"} \cup Ended
    /\ \A d \in Calls \ {c} : call'[d] = call[d] /\ acted'[d] = acted[d]
    /\ \E e \in {0, 1} : acted'[c]["request"] = acted[c]["request"] + e

LEMMA AttemptOutcome ==
  ASSUME GraphInv, NEW c \in Calls, Attempt(c)
  PROVE  Outcome(c)
<1> DEFINE Moved == /\ call[c].pc = "fetch" /\ call'[c].pc \in {"fetch"} \cup Ended
                    /\ \A d \in Calls \ {c} : call'[d] = call[d]
<1>1. \E e \in {0, 1}, l \in {0, 1} : Attempted(c, e, l)
  BY AttemptedAs DEF Attempt, Answered, AnsweredBlank, Refused, NotHeard
<1>2. ASSUME NEW how \in Ended, NEW took, Return(c, how, took), call[c].pc = "fetch" PROVE Moved
  BY <1>2, CallFacts DEF Return, GraphInv, Locals
<1>3. ASSUME NEW took, NEW wait, GoOnOr(c, took, wait), call[c].pc = "fetch" PROVE Moved
  <2>1. CASE Again(c, took, wait)
    BY <1>3, <2>1, CallFacts DEF Again, GraphInv, Locals
  <2>2. CASE Return(c, "failed", took)
    BY <1>2, <1>3, <2>2 DEF Ended
  <2>3. QED
    BY <1>3, <2>1, <2>2 DEF GoOnOr
<1>4. Moved
  <2>1. PICK took \in Tooks : \/ Answered(c, took) \/ AnsweredBlank(c, took)
                              \/ \E code \in Codes : Refused(c, code, took)
                              \/ NotHeard(c, took)
    BY DEF Attempt, Tooks
  <2>2. CASE Answered(c, took)
    <3>1. CASE call[c].stage = "container"
      BY <2>2, <3>1, CallFacts DEF Answered, GraphInv, Locals
    <3>2. CASE call[c].stage # "container"
      BY <1>2, <2>2, <3>2 DEF Answered, Ended
    <3>3. QED
      BY <3>1, <3>2
  <2>3. CASE AnsweredBlank(c, took)
    BY <1>2, <2>3 DEF AnsweredBlank, Ended
  <2>4. ASSUME NEW code \in Codes, Refused(c, code, took) PROVE Moved
    BY <1>2, <1>3, <2>4 DEF Refused, Ended
  <2>5. CASE NotHeard(c, took)
    BY <1>3, <2>5 DEF NotHeard
  <2>6. QED
    BY <2>1, <2>2, <2>3, <2>4, <2>5
<1>5. \A d \in Calls \ {c} : acted'[d] = acted[d]
  BY <1>1 DEF Attempted
<1>6. \E e \in {0, 1} : acted'[c]["request"] = acted[c]["request"] + e
  <2>1. PICK e \in {0, 1}, l \in {0, 1} : Attempted(c, e, l)
    BY <1>1
  <2>2. call[c].stage \in Stages /\ acted[c]["request"] \in Nat
    BY CallFacts DEF Stages
  <2>3. CASE call[c].stage = "request"
    BY <2>1, <2>3 DEF Attempted
  <2>4. CASE call[c].stage # "request"
    <3>1. acted'[c]["request"] = acted[c]["request"]
      BY <2>1, <2>4 DEF Attempted, Stages
    <3>2. QED
      BY <2>2, <3>1
  <2>5. QED
    BY <2>3, <2>4
<1>7. QED
  BY <1>4, <1>5, <1>6 DEF Outcome

LEMMA OutcomeTried ==
  ASSUME GraphInv, GraphInv', NEW c \in Calls, Outcome(c)
  PROVE  Remote!Try(c)
<1> DEFINE told == [d \in Calls |-> Report(d)]
           done == [d \in Calls |-> acted[d]["request"]]
<1>1. PICK e \in {0, 1} : acted'[c]["request"] = acted[c]["request"] + e
  BY DEF Outcome
<1>2. /\ call[c].pc = "fetch" /\ call'[c].pc \in {"fetch"} \cup Ended
      /\ \A d \in Calls \ {c} : call'[d] = call[d] /\ acted'[d] = acted[d]
  BY DEF Outcome
<1>3. Report(c) = "pending" /\ Report(c)' \in {"pending", "done", "failed"}
  BY <1>2 DEF Report, Ended
<1>4. acted'[c]["request"] <= MaxCopies /\ (Report(c)' = "done" => acted'[c]["request"] > 0)
  <2>1. CallInv(call'[c], acted'[c], unheard'[c])
    BY DEF GraphInv
  <2>2. QED
    BY <1>2, <2>1 DEF CallInv, Report, Ended, Stages
<1>5. told' = [told EXCEPT ![c] = Report(c)']
  <2>1. \A d \in Calls \ {c} : Report(d)' = Report(d)
    BY <1>2 DEF Report
  <2>2. QED
    BY <2>1
<1>6. done' = [done EXCEPT ![c] = @ + e]
  BY <1>1, <1>2
<1>7. told[c] = "pending" /\ done[c] = acted[c]["request"]
  BY <1>3
<1>8. PICK r \in {"pending", "done", "failed"} : r = Report(c)'
  BY <1>3
<1>9. done[c] + e <= MaxCopies /\ (r = "done" => done[c] + e > 0)
  BY <1>1, <1>4, <1>7, <1>8
<1>10. QED
  BY <1>5, <1>6, <1>7, <1>8, <1>9 DEF Remote!Try

LEMMA RemoteStep ==
  ASSUME GraphInv, GraphInv', [GraphNext]_gvars
  PROVE  [Remote!RemoteNext]_(Remote!rvars)
<1>1. ASSUME NEW c \in Calls, NEW kind \in Kinds, StartCall(c, kind) PROVE Remote!Begin(c)
  <2>1. call[c].pc = "idle" /\ call'[c].pc = "fetch" /\ \A d \in Calls \ {c} : call'[d] = call[d]
    BY <1>1, CallFacts DEF StartCall, Idle, GraphInv
  <2>2. Report(c) = "none" /\ Report(c)' = "pending" /\ \A d \in Calls \ {c} : Report(d)' = Report(d)
    BY <2>1 DEF Report
  <2>3. acted' = acted
    BY <1>1 DEF StartCall
  <2>4. QED
    BY <2>2, <2>3 DEF Remote!Begin
<1>2. ASSUME NEW c \in Calls, Attempt(c) PROVE Remote!Try(c)
  BY <1>2, AttemptOutcome, OutcomeTried
<1>3. CASE UNCHANGED gvars
  <2>1. \A c \in Calls : Report(c)' = Report(c)
    BY <1>3 DEF gvars, Report
  <2>2. QED
    BY <1>3, <2>1 DEF gvars, Remote!rvars
<1>4. QED
  BY <1>1, <1>2, <1>3 DEF GraphNext, Remote!RemoteNext

-----------------------------------------------------------------------------
(* PublicApi: the limits of keys and of requests.                             *)

\* The requests a key has been granted from time t on.
GrantedSince(k, t) == {a \in admitted : a.key = k /\ a.at >= t}

\* What so many windows may grant.
Grants(n) == n * Budget

\* In a window's length from now back, a key has been granted what its count says and a budget more, less the request
\* that opened that window, and a budget for each restart, which forgets the count; and after the request that its
\* count began with, the rest of the count.
WindowInv ==
    \A k \in ApiKeys, t \in Nat :
       /\ t + Window > clock => Cardinality(GrantedSince(k, t)) <= Grants(1 + reboots) + bucket[k].count - 1
       /\ bucket[k].count > 0 /\ t > bucket[k].start => Cardinality(GrantedSince(k, t)) <= bucket[k].count - 1

ApiTyped ==
    /\ ApiTypeOK /\ IsFiniteSet(admitted)
    /\ \A r \in KeyRequests : kreq[r].pc \in {"delete", "admit"} => kreq[r].key \in ApiKeys

ApiInv == ApiTyped /\ KeysBounded /\ WindowInv /\ WindowBounded

LEMMA ApiNumbers ==
  /\ KeyLimit \in Nat /\ KeyLimit >= 1 /\ Budget \in Nat /\ Budget >= 1 /\ Window \in Nat /\ Window >= 1
  /\ MaxTime \in Nat /\ MaxReboots \in Nat
BY PublicApiAssumption

LEMMA GrantsMore ==
  \A n \in Nat : Grants(n) \in Nat /\ Grants(n + 1) = Grants(n) + Budget
BY ApiNumbers DEF Grants

LEMMA MakingBounded ==
  ASSUME NEW S \in SUBSET KeyRequests
  PROVE  IsFiniteSet(S) /\ Cardinality(S) \in Nat /\ Cardinality(S) <= Cardinality(KeyRequests)
         /\ Cardinality(KeyRequests) \in Nat
BY FS_Subset, FS_CardinalityType, PublicApiAssumption

LEMMA ApiInvInit == ApiInit => ApiInv
<1> SUFFICES ASSUME ApiInit PROVE ApiInv
  OBVIOUS
<1> USE ApiNumbers
<1>1. NoBucket \in [count : 0..Budget, start : 0..MaxTime]
  BY DEF NoBucket
<1>2. NoKeyRequest \in [pc : {"idle", "create", "delete", "admit"}, key : ApiKeys \cup {NoKey}]
  BY DEF NoKeyRequest
<1>3. ApiTyped
  <2>1. bucket \in [ApiKeys -> [count : 0..Budget, start : 0..MaxTime]]
    BY <1>1 DEF ApiInit
  <2>2. kreq \in [KeyRequests -> [pc : {"idle", "create", "delete", "admit"}, key : ApiKeys \cup {NoKey}]]
    BY <1>2 DEF ApiInit
  <2>3. \A r \in KeyRequests : kreq[r].pc = "idle"
    BY DEF ApiInit, NoKeyRequest
  <2>4. clock \in 0..MaxTime /\ reboots \in 0..MaxReboots
    BY DEF ApiInit
  <2>5. issued = {} /\ retired = {} /\ admitted = {} /\ barred \in BOOLEAN
    BY DEF ApiInit
  <2>6. ApiTypeOK
    BY <2>1, <2>2, <2>4, <2>5 DEF ApiTypeOK
  <2>7. QED
    BY <2>3, <2>5, <2>6, FS_EmptySet DEF ApiTyped
<1>4. KeysBounded
  <2>1. Making = {}
    BY DEF ApiInit, Making, NoKeyRequest
  <2>2. Cardinality(issued) = 0 /\ Cardinality(Making) = 0 /\ Cardinality(KeyRequests) \in Nat
    BY <2>1, FS_EmptySet, MakingBounded DEF ApiInit
  <2>3. QED
    BY <2>2 DEF KeysBounded
<1>5. WindowInv
  <2>1. \A k \in ApiKeys, t \in Nat : GrantedSince(k, t) = {}
    BY DEF ApiInit, GrantedSince
  <2>2. \A k \in ApiKeys, t \in Nat : Cardinality(GrantedSince(k, t)) = 0
    BY <2>1, FS_EmptySet
  <2>3. \A k \in ApiKeys : bucket[k].count = 0
    BY DEF ApiInit, NoBucket
  <2>4. Grants(1 + reboots) \in Nat /\ Grants(1 + reboots) >= 1
    BY DEF ApiInit, Grants
  <2>5. QED
    BY <2>2, <2>3, <2>4 DEF WindowInv
<1>6. WindowBounded
  <2>1. \A k \in ApiKeys, t \in 0..MaxTime : Stretch(k, t) = {}
    BY DEF ApiInit, Stretch
  <2>2. (2 + reboots) * Budget - 1 >= 0
    BY DEF ApiInit
  <2>3. Cardinality({}) = 0
    BY FS_EmptySet
  <2>4. QED
    BY <2>1, <2>2, <2>3 DEF WindowBounded
<1>7. QED
  BY <1>3, <1>4, <1>5, <1>6 DEF ApiInv

\* The limits of requests are those of the log, the counts and the clock.
Metered == <<bucket, clock, reboots, admitted>>

LEMMA MeteredHolds ==
  ASSUME WindowInv, WindowBounded, UNCHANGED Metered
  PROVE  WindowInv' /\ WindowBounded'
BY DEF Metered, WindowInv, WindowBounded, GrantedSince, Stretch

\* A key is made by a request that counted fewer than the limit.
LEMMA KeysHeld ==
  ASSUME ApiTyped, KeysBounded, ApiTyped',
         \/ issued' \subseteq issued /\ Making' \subseteq Making
         \/ issued' = issued /\ Cardinality(issued) < KeyLimit
         \/ \E k \in ApiKeys, r \in Making : issued' = issued \cup {k} /\ Making' = Making \ {r}
  PROVE  KeysBounded'
<1> USE ApiNumbers
<1>1. IsFiniteSet(issued) /\ Cardinality(issued) \in Nat
  BY FS_Subset, FS_CardinalityType, PublicApiAssumption DEF ApiTyped, ApiTypeOK
<1>2. /\ IsFiniteSet(Making) /\ Cardinality(Making) \in Nat /\ Cardinality(KeyRequests) \in Nat
  BY MakingBounded DEF Making
<1>3. Cardinality(Making') \in Nat /\ Cardinality(Making') <= Cardinality(KeyRequests)
  BY MakingBounded DEF Making
<1>4. CASE issued' \subseteq issued /\ Making' \subseteq Making
  <2>1. Cardinality(issued') <= Cardinality(issued) /\ Cardinality(Making') <= Cardinality(Making)
    BY <1>1, <1>2, <1>4, FS_Subset
  <2>2. Cardinality(issued') \in Nat
    BY <1>1, <1>4, FS_Subset, FS_CardinalityType
  <2>3. QED
    BY <1>1, <1>2, <1>3, <2>1, <2>2 DEF KeysBounded
<1>5. CASE issued' = issued /\ Cardinality(issued) < KeyLimit
  BY <1>1, <1>2, <1>3, <1>5 DEF KeysBounded
<1>6. ASSUME NEW k \in ApiKeys, NEW r \in Making, issued' = issued \cup {k}, Making' = Making \ {r}
      PROVE  KeysBounded'
  <2>1. Cardinality(issued') <= Cardinality(issued) + 1 /\ Cardinality(issued') \in Nat
    <3>1. Cardinality(issued') = IF k \in issued THEN Cardinality(issued) ELSE Cardinality(issued) + 1
      BY <1>1, <1>6, FS_AddElement
    <3>2. QED
      BY <1>1, <3>1
  <2>2. Cardinality(Making') = Cardinality(Making) - 1
    BY <1>2, <1>6, FS_RemoveElement
  <2>3. QED
    BY <1>1, <1>2, <2>1, <2>2 DEF KeysBounded
<1>7. QED
  BY <1>4, <1>5, <1>6

LEMMA ApiTypes ==
  ASSUME ApiTyped
  PROVE  /\ clock \in Nat /\ reboots \in Nat
         /\ \A k \in ApiKeys : /\ bucket[k].count \in Nat /\ bucket[k].count <= Budget
                               /\ bucket[k].start \in Nat
         /\ \A a \in admitted : a.key \in ApiKeys /\ a.at \in Nat /\ a.at <= clock
         /\ \A k \in ApiKeys, t \in Nat : /\ IsFiniteSet(GrantedSince(k, t))
                                          /\ Cardinality(GrantedSince(k, t)) \in Nat
<1> USE ApiNumbers
<1>1. ASSUME NEW k \in ApiKeys, NEW t \in Nat
      PROVE  IsFiniteSet(GrantedSince(k, t)) /\ Cardinality(GrantedSince(k, t)) \in Nat
  <2>1. GrantedSince(k, t) \in SUBSET admitted
    BY DEF GrantedSince
  <2>2. QED
    BY <2>1, FS_Subset, FS_CardinalityType DEF ApiTyped
<1>2. \A k \in ApiKeys : /\ bucket[k].count \in Nat /\ bucket[k].count <= Budget
                         /\ bucket[k].start \in Nat
  BY DEF ApiTyped, ApiTypeOK
<1>3. clock \in Nat /\ reboots \in Nat /\ \A a \in admitted : a.key \in ApiKeys /\ a.at \in Nat /\ a.at <= clock
  BY DEF ApiTyped, ApiTypeOK
<1>4. QED
  BY <1>1, <1>2, <1>3

\* What WindowInv says of now, WindowBounded says of every window that lasts.
LEMMA WindowKept ==
  ASSUME ApiTyped, ApiTyped', WindowInv', WindowBounded, reboots' = reboots \/ reboots' = reboots + 1,
         \A k \in ApiKeys, t \in Nat : t + Window > clock' \/ Stretch(k, t)' = Stretch(k, t)
  PROVE  WindowBounded'
<1> USE ApiNumbers
<1>1. reboots \in Nat /\ reboots' \in Nat
  BY ApiTypes DEF ApiTyped, ApiTypeOK
<1>2. /\ Grants(2 + reboots) \in Nat /\ Grants(1 + reboots') \in Nat
      /\ Grants(2 + reboots') = Grants(1 + reboots') + Budget
      /\ Grants(2 + reboots) <= Grants(2 + reboots')
  <2>1. Grants((1 + reboots') + 1) = Grants(1 + reboots') + Budget /\ Grants(1 + reboots') \in Nat
    BY <1>1, GrantsMore
  <2>2. Grants((2 + reboots) + 1) = Grants(2 + reboots) + Budget /\ Grants(2 + reboots) \in Nat
    BY <1>1, GrantsMore
  <2>3. \A m, n \in Nat : (1 + n) + 1 = 2 + n /\ (n = m + 1 => (2 + m) + 1 = 2 + n)
    OBVIOUS
  <2>4. (1 + reboots') + 1 = 2 + reboots' /\ (reboots' = reboots + 1 => (2 + reboots) + 1 = 2 + reboots')
    BY <1>1, <2>3
  <2>5. QED
    BY <2>1, <2>2, <2>4
<1>3. ASSUME NEW k \in ApiKeys, NEW t \in 0..MaxTime PROVE Cardinality(Stretch(k, t)') <= Grants(2 + reboots') - 1
  <2>1. CASE t + Window > clock'
    <3>1. /\ Cardinality(GrantedSince(k, t)') <= Grants(1 + reboots') + bucket'[k].count - 1
          /\ Cardinality(GrantedSince(k, t)') \in Nat /\ IsFiniteSet(GrantedSince(k, t)')
          /\ bucket'[k].count \in Nat /\ bucket'[k].count <= Budget
      <4>1. Cardinality(GrantedSince(k, t)') <= Grants(1 + reboots') + bucket'[k].count - 1
        BY <2>1 DEF WindowInv, Grants
      <4>2. GrantedSince(k, t)' \in SUBSET admitted'
        BY DEF GrantedSince
      <4>3. Cardinality(GrantedSince(k, t)') \in Nat /\ IsFiniteSet(GrantedSince(k, t)')
        BY <4>2, FS_Subset, FS_CardinalityType DEF ApiTyped
      <4>4. bucket'[k].count \in Nat /\ bucket'[k].count <= Budget
        BY DEF ApiTyped, ApiTypeOK
      <4>5. QED
        BY <4>1, <4>3, <4>4
    <3>2. \A a \in admitted' : a.at \in Nat
      BY DEF ApiTyped, ApiTypeOK
    <3>3. Stretch(k, t)' \subseteq GrantedSince(k, t)'
      BY <3>2 DEF Stretch, GrantedSince
    <3>4. Cardinality(Stretch(k, t)') <= Cardinality(GrantedSince(k, t)') /\ Cardinality(Stretch(k, t)') \in Nat
      BY <3>1, <3>3, FS_Subset, FS_CardinalityType
    <3>5. QED
      BY <1>2, <3>1, <3>4
  <2>2. CASE Stretch(k, t)' = Stretch(k, t)
    <3>1. Cardinality(Stretch(k, t)) <= Grants(2 + reboots) - 1
      BY DEF WindowBounded, Grants
    <3>2. IsFiniteSet(Stretch(k, t))
      BY FS_Subset DEF ApiTyped, Stretch
    <3>3. Cardinality(Stretch(k, t)) \in Nat
      BY <3>2, FS_CardinalityType
    <3>4. QED
      BY <1>2, <2>2, <3>1, <3>3
  <2>3. QED
    BY <2>1, <2>2
<1>4. QED
  BY <1>3 DEF WindowBounded, Grants

\* A request is let through, at the count of a bucket that counts it.
LEMMA AdmitCounted ==
  ASSUME ApiTyped, WindowInv, NEW k \in ApiKeys, NEW x, x.key = k, x.at = clock, UNCHANGED <<clock, reboots>>,
         admitted' = admitted \cup {x}, bucket' = [bucket EXCEPT ![k] = Counted(bucket[k])]
  PROVE  WindowInv'
<1> USE ApiNumbers
<1> DEFINE b == bucket[k]
<1>1. reboots \in Nat /\ clock \in Nat /\ b.count \in Nat /\ b.start \in Nat /\ b.count <= Budget
  BY ApiTypes
<1>2. Grants(1 + reboots) \in Nat /\ Budget <= Grants(1 + reboots)
  <2>1. Grants(reboots + 1) = Grants(reboots) + Budget /\ Grants(reboots) \in Nat
    BY <1>1, GrantsMore
  <2>2. 1 + reboots = reboots + 1
    BY <1>1
  <2>3. QED
    BY <2>1, <2>2
<1>3. bucket'[k] = Counted(b) /\ \A j \in ApiKeys \ {k} : bucket'[j] = bucket[j]
  BY DEF ApiTyped, ApiTypeOK
<1>4. ASSUME NEW j \in ApiKeys \ {k}, NEW t \in Nat PROVE GrantedSince(j, t)' = GrantedSince(j, t)
  BY DEF GrantedSince
<1>5. ASSUME NEW t \in Nat
      PROVE  /\ Cardinality(GrantedSince(k, t)') <= Cardinality(GrantedSince(k, t)) + 1
             /\ t > clock => Cardinality(GrantedSince(k, t)') = 0
  <2>1. IsFiniteSet(GrantedSince(k, t)) /\ Cardinality(GrantedSince(k, t)) \in Nat
    BY ApiTypes
  <2>2. CASE t > clock
    <3>1. GrantedSince(k, t)' = {}
      BY <1>1, <2>2, ApiTypes DEF GrantedSince
    <3>2. QED
      BY <2>1, <3>1, FS_EmptySet
  <2>3. CASE ~(t > clock)
    <3>1. GrantedSince(k, t)' = GrantedSince(k, t) \cup {x}
      BY <1>1, <2>3 DEF GrantedSince
    <3>2. Cardinality(GrantedSince(k, t)') = IF x \in GrantedSince(k, t) THEN Cardinality(GrantedSince(k, t))
                                                                      ELSE Cardinality(GrantedSince(k, t)) + 1
      BY <2>1, <3>1, FS_AddElement
    <3>3. QED
      BY <2>1, <2>3, <3>2
  <2>4. QED
    BY <2>2, <2>3
<1>6. ASSUME NEW t \in Nat
      PROVE  /\ t + Window > clock => Cardinality(GrantedSince(k, t)') <= Grants(1 + reboots) + bucket'[k].count - 1
             /\ t > bucket'[k].start => Cardinality(GrantedSince(k, t)') <= bucket'[k].count - 1
  <2>1. Cardinality(GrantedSince(k, t)) \in Nat
    BY ApiTypes
  <2>2. /\ t + Window > clock => Cardinality(GrantedSince(k, t)) <= Grants(1 + reboots) + b.count - 1
        /\ b.count > 0 /\ t > b.start => Cardinality(GrantedSince(k, t)) <= b.count - 1
    BY DEF WindowInv
  <2>3. CASE Closed(b)
    <3>1. bucket'[k].count = 1 /\ bucket'[k].start = clock
      BY <1>3, <2>3 DEF Counted
    <3>2. t + Window > clock => Cardinality(GrantedSince(k, t)) <= Grants(1 + reboots) - 1
      <4>1. CASE b.count = 0
        BY <1>2, <2>2, <4>1
      <4>2. CASE b.count > 0 /\ clock - b.start >= Window
        <5>1. t + Window > clock => t > b.start
          BY <1>1, <4>2
        <5>2. QED
          BY <1>1, <1>2, <2>1, <2>2, <4>2, <5>1
      <4>3. QED
        BY <1>1, <2>3, <4>1, <4>2 DEF Closed
    <3>3. /\ Cardinality(GrantedSince(k, t)') <= Cardinality(GrantedSince(k, t)) + 1
          /\ t > clock => Cardinality(GrantedSince(k, t)') = 0
      BY <1>5
    <3>4. Cardinality(GrantedSince(k, t)') \in Nat
      <4>1. IsFiniteSet(GrantedSince(k, t)')
        BY FS_AddElement, FS_Subset DEF ApiTyped, GrantedSince
      <4>2. QED
        BY <4>1, FS_CardinalityType
    <3>5. QED
      BY <1>2, <2>1, <3>1, <3>2, <3>3, <3>4
  <2>4. CASE ~Closed(b)
    <3>1. bucket'[k].count = b.count + 1 /\ bucket'[k].start = b.start /\ b.count > 0
      <4>1. bucket'[k] = [b EXCEPT !.count = @ + 1]
        BY <1>3, <2>4 DEF Counted
      <4>2. b \in [count : 0..Budget, start : 0..MaxTime]
        BY DEF ApiTyped, ApiTypeOK
      <4>3. QED
        BY <1>1, <2>4, <4>1, <4>2 DEF Closed
    <3>2. Cardinality(GrantedSince(k, t)') <= Cardinality(GrantedSince(k, t)) + 1
      BY <1>5
    <3>3. Cardinality(GrantedSince(k, t)') \in Nat
      <4>1. IsFiniteSet(GrantedSince(k, t)')
        BY FS_AddElement, FS_Subset DEF ApiTyped, GrantedSince
      <4>2. QED
        BY <4>1, FS_CardinalityType
    <3>4. QED
      BY <1>1, <1>2, <2>1, <2>2, <3>1, <3>2, <3>3
  <2>5. QED
    BY <2>3, <2>4
<1>7. ASSUME NEW j \in ApiKeys \ {k}, NEW t \in Nat
      PROVE  /\ t + Window > clock => Cardinality(GrantedSince(j, t)') <= Grants(1 + reboots) + bucket'[j].count - 1
             /\ bucket'[j].count > 0 /\ t > bucket'[j].start
                  => Cardinality(GrantedSince(j, t)') <= bucket'[j].count - 1
  BY <1>3, <1>4 DEF WindowInv
<1>8. Grants(1 + reboots)' = Grants(1 + reboots) /\ clock' = clock
  BY DEF Grants
<1>9. QED
  BY <1>6, <1>7, <1>8 DEF WindowInv

\* A step that touches neither the log nor what counts requests.
LEMMA KeysStep ==
  ASSUME ApiInv, ApiTyped', UNCHANGED Metered,
         \/ issued' \subseteq issued /\ Making' \subseteq Making
         \/ issued' = issued /\ Cardinality(issued) < KeyLimit
         \/ \E k \in ApiKeys, r \in Making : issued' = issued \cup {k} /\ Making' = Making \ {r}
  PROVE  ApiInv'
BY KeysHeld, MeteredHolds DEF ApiInv

LEMMA ApiInvStep ==
  ASSUME ApiInv, [ApiNext]_apiVars
  PROVE  ApiInv'
<1> USE ApiNumbers
<1>1. ApiTyped /\ KeysBounded /\ WindowInv /\ WindowBounded
  BY DEF ApiInv
<1>2. NoKeyRequest \in [pc : {"idle", "create", "delete", "admit"}, key : ApiKeys \cup {NoKey}]
      /\ NoKeyRequest.pc = "idle"
  BY DEF NoKeyRequest
<1>3. ASSUME NEW r \in KeyRequests, CountKeys(r) PROVE ApiInv'
  <2>1. ApiTyped'
    BY <1>1, <1>3 DEF CountKeys, CountUpTo, Proceed, ApiTyped, ApiTypeOK
  <2>2. UNCHANGED Metered /\ issued' = issued /\ Cardinality(issued) < KeyLimit
    BY <1>3 DEF CountKeys, CountUpTo, Metered
  <2>3. QED
    BY <2>1, <2>2, KeysStep
<1>4. ASSUME NEW r \in KeyRequests, DeleteKey(r) PROVE ApiInv'
  <2>1. kreq[r].pc = "delete" /\ kreq[r].key \in ApiKeys
    BY <1>1, <1>4 DEF DeleteKey, ApiTyped
  <2>2. ApiTyped'
    BY <1>1, <1>2, <1>4, <2>1 DEF DeleteKey, Over, ApiTyped, ApiTypeOK
  <2>3. UNCHANGED Metered /\ issued' \subseteq issued /\ Making' \subseteq Making
    BY <1>1, <1>2, <1>4 DEF DeleteKey, Over, Metered, Making, ApiTyped, ApiTypeOK
  <2>4. QED
    BY <2>2, <2>3, KeysStep
<1>5. ASSUME NEW r \in KeyRequests, NEW k \in ApiKeys, CreateKey(r, k) PROVE ApiInv'
  <2>1. ApiTyped'
    BY <1>1, <1>2, <1>5 DEF CreateKey, Over, ApiTyped, ApiTypeOK
  <2>2. UNCHANGED Metered /\ r \in Making /\ issued' = issued \cup {k} /\ Making' = Making \ {r}
    BY <1>1, <1>2, <1>5 DEF CreateKey, Over, Metered, Making, ApiTyped, ApiTypeOK
  <2>3. QED
    BY <2>1, <2>2, KeysStep
<1>6. ASSUME NEW r \in KeyRequests, NEW k \in ApiKeys, FindKey(r, k) \/ LookUp(r, k) PROVE ApiInv'
  <2>1. PICK pc \in {"delete", "admit"} : /\ kreq[r].pc = "idle" /\ Proceed(r, pc, k)
                                          /\ UNCHANGED <<issued, retired, barred, bucket, clock, reboots, admitted>>
    BY <1>6 DEF FindKey, LookUp
  <2>2. ApiTyped'
    BY <1>1, <2>1 DEF Proceed, ApiTyped, ApiTypeOK
  <2>3. UNCHANGED Metered /\ issued' \subseteq issued /\ Making' \subseteq Making
    BY <1>1, <2>1 DEF Proceed, Metered, Making, ApiTyped, ApiTypeOK
  <2>4. QED
    BY <2>2, <2>3, KeysStep
<1>7. ASSUME NEW r \in KeyRequests, Admit(r) PROVE ApiInv'
  <2> DEFINE k == kreq[r].key
             x == [key |-> k, at |-> clock, nth |-> Cardinality({a \in admitted : a.key = k})]
  <2>1. k \in ApiKeys /\ kreq[r].pc = "admit" /\ Over(r) /\ UNCHANGED <<issued, retired, barred, clock, reboots>>
    BY <1>1, <1>7 DEF Admit, ApiTyped
  <2>2. Making' \subseteq Making
    BY <1>1, <1>2, <2>1 DEF Over, Making, ApiTyped, ApiTypeOK
  <2>3. /\ kreq' \in [KeyRequests -> [pc : {"idle", "create", "delete", "admit"}, key : ApiKeys \cup {NoKey}]]
        /\ \A q \in KeyRequests : kreq'[q].pc \in {"delete", "admit"} => kreq'[q].key \in ApiKeys
    BY <1>1, <1>2, <2>1 DEF Over, ApiTyped, ApiTypeOK
  <2>4. CASE Passes(bucket[k])
    <3>1. bucket' = [bucket EXCEPT ![k] = Counted(bucket[k])] /\ admitted' = admitted \cup {x}
      BY <1>7, <2>4 DEF Admit
    <3>2. Counted(bucket[k]) \in [count : 0..Budget, start : 0..MaxTime]
      <4>1. bucket[k] \in [count : 0..Budget, start : 0..MaxTime] /\ clock \in 0..MaxTime
        BY <1>1, <2>1 DEF ApiTyped, ApiTypeOK
      <4>2. CASE Closed(bucket[k])
        BY <4>1, <4>2 DEF Counted
      <4>3. CASE ~Closed(bucket[k])
        <5>1. Counted(bucket[k]) = [bucket[k] EXCEPT !.count = @ + 1]
          BY <4>3 DEF Counted
        <5>2. bucket[k].count + 1 \in 0..Budget
          BY <2>4, <4>1, <5>1 DEF Passes
        <5>3. QED
          BY <4>1, <5>1, <5>2
      <4>4. QED
        BY <4>2, <4>3
    <3>3. x.key = k /\ x.at = clock /\ clock \in 0..clock
      BY <1>1, ApiTypes
    <3> HIDE DEF x
    <3>4. ApiTyped'
      <4>1. bucket' \in [ApiKeys -> [count : 0..Budget, start : 0..MaxTime]]
        BY <1>1, <2>1, <3>1, <3>2 DEF ApiTyped, ApiTypeOK
      <4>2. \A a \in admitted' : a.key \in ApiKeys /\ a.at \in 0..clock'
        BY <1>1, <2>1, <3>1, <3>3 DEF ApiTyped, ApiTypeOK
      <4>3. IsFiniteSet(admitted')
        BY <1>1, <3>1, FS_AddElement DEF ApiTyped
      <4>4. QED
        BY <1>1, <2>1, <2>3, <4>1, <4>2, <4>3 DEF ApiTyped, ApiTypeOK
    <3>5. WindowInv'
      BY <1>1, <2>1, <3>1, <3>3, AdmitCounted
    <3>6. ASSUME NEW j \in ApiKeys, NEW t \in Nat PROVE t + Window > clock' \/ Stretch(j, t)' = Stretch(j, t)
      <4>1. clock \in Nat
        BY <1>1, ApiTypes
      <4>2. x.at \notin t..(t + Window - 1) \/ t + Window > clock'
        BY <2>1, <3>3, <4>1
      <4>3. QED
        BY <3>1, <4>2 DEF Stretch
    <3>7. WindowBounded'
      BY <1>1, <2>1, <3>4, <3>5, <3>6, WindowKept
    <3>8. QED
      BY <1>1, <2>1, <2>2, <3>4, <3>5, <3>7, KeysHeld DEF ApiInv
  <2>5. CASE ~Passes(bucket[k])
    <3>1. bucket' = bucket /\ admitted' = admitted
      BY <1>1, <1>7, <2>1, <2>5 DEF Admit, ApiTyped, ApiTypeOK
    <3>2. ApiTyped'
      BY <1>1, <2>1, <2>3, <3>1 DEF ApiTyped, ApiTypeOK
    <3>3. QED
      BY <2>1, <2>2, <3>1, <3>2, KeysStep DEF Metered
  <2>6. QED
    BY <2>4, <2>5
<1>8. CASE Tick
  <2>1. clock \in Nat /\ clock' = clock + 1 /\ clock' \in 0..MaxTime
        /\ UNCHANGED <<issued, retired, barred, bucket, kreq, reboots, admitted>>
    BY <1>1, <1>8, ApiTypes DEF Tick
  <2>2. ApiTyped'
    BY <1>1, <2>1, ApiTypes DEF ApiTyped, ApiTypeOK
  <2>3. WindowInv'
    <3>1. ASSUME NEW k \in ApiKeys, NEW t \in Nat
          PROVE  /\ t + Window > clock' => t + Window > clock
                 /\ GrantedSince(k, t)' = GrantedSince(k, t)
      BY <2>1 DEF GrantedSince
    <3>2. QED
      BY <1>1, <2>1, <3>1 DEF WindowInv, Grants
  <2>4. \A k \in ApiKeys, t \in Nat : Stretch(k, t)' = Stretch(k, t)
    BY <2>1 DEF Stretch
  <2>5. WindowBounded'
    BY <1>1, <2>1, <2>2, <2>3, <2>4, WindowKept
  <2>6. KeysBounded'
    BY <1>1, <2>1, <2>2, KeysHeld DEF Making
  <2>7. QED
    BY <2>2, <2>3, <2>5, <2>6 DEF ApiInv
<1>9. CASE Bar
  <2>1. ApiTyped' /\ UNCHANGED Metered /\ issued' \subseteq issued /\ Making' \subseteq Making
    BY <1>1, <1>9 DEF Bar, ApiTyped, ApiTypeOK, Metered, Making
  <2>2. QED
    BY <2>1, KeysStep
<1>10. CASE Reboot
  <2>1. /\ reboots < MaxReboots /\ reboots' = reboots + 1 /\ UNCHANGED <<issued, retired, barred, clock, admitted>>
        /\ bucket' = [k \in ApiKeys |-> NoBucket] /\ kreq' = [r \in KeyRequests |-> NoKeyRequest]
        /\ reboots \in Nat
    BY <1>1, <1>10, ApiTypes DEF Reboot
  <2>2. ApiTyped'
    <3>1. NoBucket \in [count : 0..Budget, start : 0..MaxTime]
      BY DEF NoBucket
    <3>2. bucket' \in [ApiKeys -> [count : 0..Budget, start : 0..MaxTime]]
      BY <2>1, <3>1
    <3>3. /\ kreq' \in [KeyRequests -> [pc : {"idle", "create", "delete", "admit"}, key : ApiKeys \cup {NoKey}]]
          /\ \A r \in KeyRequests : kreq'[r].pc = "idle"
      BY <1>2, <2>1
    <3>4. reboots' \in 0..MaxReboots
      BY <2>1
    <3>5. QED
      BY <1>1, <2>1, <3>2, <3>3, <3>4 DEF ApiTyped, ApiTypeOK
  <2>3. Making' \subseteq Making /\ issued' \subseteq issued
    BY <1>2, <2>1 DEF Making
  <2>4. WindowInv'
    <3>1. Grants((1 + reboots) + 1) = Grants(1 + reboots) + Budget /\ Grants(1 + reboots) \in Nat
      BY <2>1, GrantsMore
    <3>2. (1 + reboots) + 1 = 1 + reboots'
      BY <2>1
    <3>3. Grants(1 + reboots') = Grants(1 + reboots) + Budget
      BY <3>1, <3>2
    <3>4. ASSUME NEW k \in ApiKeys, NEW t \in Nat
          PROVE  /\ t + Window > clock' => Cardinality(GrantedSince(k, t)') <= Grants(1 + reboots') + bucket'[k].count - 1
                 /\ bucket'[k].count = 0
      <4>1. bucket[k].count \in Nat /\ bucket[k].count <= Budget /\ Cardinality(GrantedSince(k, t)) \in Nat
        BY <1>1, ApiTypes
      <4>2. bucket'[k].count = 0 /\ GrantedSince(k, t)' = GrantedSince(k, t) /\ clock' = clock
        BY <2>1 DEF NoBucket, GrantedSince
      <4>3. t + Window > clock => Cardinality(GrantedSince(k, t)) <= Grants(1 + reboots) + bucket[k].count - 1
        BY <1>1 DEF WindowInv
      <4>4. QED
        BY <3>1, <3>3, <4>1, <4>2, <4>3
    <3>5. Grants(1 + reboots)' = Grants(1 + reboots')
      BY DEF Grants
    <3>6. QED
      BY <3>4, <3>5 DEF WindowInv
  <2>5. \A k \in ApiKeys, t \in Nat : Stretch(k, t)' = Stretch(k, t)
    BY <2>1 DEF Stretch
  <2>6. WindowBounded'
    BY <1>1, <2>1, <2>2, <2>4, <2>5, WindowKept
  <2>7. QED
    BY <1>1, <2>2, <2>3, <2>4, <2>6, KeysHeld DEF ApiInv
<1>11. CASE UNCHANGED apiVars
  <2>1. ApiTyped' /\ UNCHANGED Metered /\ issued' \subseteq issued /\ Making' \subseteq Making
    BY <1>1, <1>11 DEF apiVars, ApiTyped, ApiTypeOK, Metered, Making
  <2>2. QED
    BY <2>1, KeysStep
<1>12. QED
  BY <1>3, <1>4, <1>5, <1>6, <1>7, <1>8, <1>9, <1>10, <1>11 DEF ApiNext

-----------------------------------------------------------------------------
(* Administration: who is dismissed and deleted, and in which order.          *)

AdminRequest == [pc : {"idle", "promote", "suspend", "deleteTenant", "deleteOwned", "deleteUser"},
                 by : Users \cup {NoUser}, user : Users \cup {NoUser}, space : Workspaces \cup {NoWorkspace},
                 flag : BOOLEAN, owned : SUBSET Workspaces]

\* Nobody dismisses or deletes himself, a deletion has read all that its user owns, and once it comes to the user
\* himself none of it is left.
Considerate(q) ==
    /\ q.pc = "promote" /\ ~q.flag => q.user # q.by
    /\ q.pc \in {"deleteOwned", "deleteUser"} => q.user # q.by
    /\ q.pc = "deleteOwned" => {w \in workspaces : OwnerOf[w] = q.user} \subseteq q.owned
    /\ q.pc = "deleteUser" => \A w \in workspaces : OwnerOf[w] # q.user

AdminInv ==
    /\ areq \in [AdminRequests -> AdminRequest]
    /\ workspaces \subseteq Workspaces /\ outdated \in BOOLEAN
    /\ SomeAdminStays /\ WorkspaceHasOwner
    /\ \A r \in AdminRequests : Considerate(areq[r])

LEMMA NoAdminFits == NoAdminRequest \in AdminRequest /\ NoAdminRequest.pc = "idle"
  BY DEF NoAdminRequest, AdminRequest

LEMMA AdminInvInit == AdminInit => AdminInv
<1> SUFFICES ASSUME AdminInit PROVE AdminInv
  OBVIOUS
<1>1. areq \in [AdminRequests -> AdminRequest] /\ \A r \in AdminRequests : Considerate(areq[r])
  BY NoAdminFits DEF AdminInit, Considerate
<1>2. SomeAdminStays /\ WorkspaceHasOwner
  BY AdministrationAssumption DEF AdminInit, SomeAdminStays, WorkspaceHasOwner
<1>3. QED
  BY <1>1, <1>2 DEF AdminInit, AdminInv

\* A request that is received.
LEMMA Receives ==
  ASSUME AdminInv, NEW r \in AdminRequests, NEW q \in AdminRequest, Receive(r, q), Considerate(q)
  PROVE  AdminInv'
<1>1. /\ UNCHANGED <<alive, admins, workspaces, members, outdated>>
      /\ areq' = [areq EXCEPT ![r] = q]
  BY DEF Receive
<1>2. areq' \in [AdminRequests -> AdminRequest]
  BY <1>1 DEF AdminInv
<1>3. ASSUME NEW s \in AdminRequests PROVE Considerate(areq[s])'
  <2>1. areq'[s] = q \/ areq'[s] = areq[s]
    BY <1>1 DEF AdminInv
  <2>2. Considerate(areq[s])
    BY DEF AdminInv
  <2>3. QED
    BY <1>1, <2>1, <2>2 DEF Considerate
<1>4. QED
  BY <1>1, <1>2, <1>3 DEF AdminInv, SomeAdminStays, WorkspaceHasOwner

LEMMA AskStep ==
  ASSUME AdminInv, NEW r \in AdminRequests, NEW u \in Users, AskAdmin(r, u)
  PROVE  AdminInv'
<1>1. ASSUME NEW v \in Users, AskDeleteUser(r, u, v) PROVE AdminInv'
  <2> DEFINE q == [NoAdminRequest EXCEPT !.pc = "deleteOwned", !.by = u, !.user = v, !.owned = OwnedBy(v)]
  <2>1. OwnedBy(v) \subseteq Workspaces /\ {w \in workspaces : OwnerOf[w] = v} \subseteq OwnedBy(v)
    BY DEF OwnedBy, AdminInv, WorkspaceHasOwner
  <2>2. /\ q \in AdminRequest /\ q.pc = "deleteOwned" /\ q.by = u /\ q.user = v
        /\ q.owned = OwnedBy(v)
    BY <2>1 DEF NoAdminRequest, AdminRequest
  <2>3. Receive(r, q) /\ u # v
    BY <1>1 DEF AskDeleteUser
  <2>4. Considerate(q)
    BY <2>1, <2>2, <2>3 DEF Considerate
  <2> HIDE DEF q
  <2>5. QED
    BY <2>2, <2>3, <2>4, Receives
<1>2. ASSUME NEW v \in Users, NEW flag \in BOOLEAN, AskUpdateUser(r, u, v, flag) PROVE AdminInv'
  <2> DEFINE q == [NoAdminRequest EXCEPT !.pc = "promote", !.by = u, !.user = v, !.flag = flag]
  <2>1. q \in AdminRequest /\ q.pc = "promote" /\ q.by = u /\ q.user = v /\ q.flag = flag
    BY DEF NoAdminRequest, AdminRequest
  <2>2. Receive(r, q) /\ ~(u = v /\ ~flag)
    BY <1>2 DEF AskUpdateUser
  <2>3. Considerate(q)
    BY <2>1, <2>2 DEF Considerate
  <2> HIDE DEF q
  <2>4. QED
    BY <2>1, <2>2, <2>3, Receives
<1>3. ASSUME NEW w \in Workspaces, AskDeleteTenant(r, u, w) PROVE AdminInv'
  <2> DEFINE q == [NoAdminRequest EXCEPT !.pc = "deleteTenant", !.by = u, !.space = w]
  <2>1. q \in AdminRequest /\ q.pc = "deleteTenant" /\ Receive(r, q)
    BY <1>3 DEF AskDeleteTenant, NoAdminRequest, AdminRequest
  <2> HIDE DEF q
  <2>2. QED
    BY <2>1, Receives DEF Considerate
<1>4. ASSUME NEW w \in Workspaces, NEW flag \in BOOLEAN, AskUpdateTenant(r, u, w, flag) PROVE AdminInv'
  <2> DEFINE q == [NoAdminRequest EXCEPT !.pc = "suspend", !.by = u, !.space = w, !.flag = flag]
  <2>1. q \in AdminRequest /\ q.pc = "suspend" /\ Receive(r, q)
    BY <1>4 DEF AskUpdateTenant, NoAdminRequest, AdminRequest
  <2> HIDE DEF q
  <2>2. QED
    BY <2>1, Receives DEF Considerate
<1>5. QED
  BY <1>1, <1>2, <1>3, <1>4 DEF AskAdmin

\* What an action leaves to the other requests: workspaces only go.
LEMMA OthersConsiderate ==
  ASSUME AdminInv, NEW r \in AdminRequests, workspaces' \subseteq workspaces,
         areq' \in [AdminRequests -> AdminRequest], Considerate(areq[r])',
         \A s \in AdminRequests \ {r} : areq'[s] = areq[s]
  PROVE  \A s \in AdminRequests : Considerate(areq[s])'
<1> SUFFICES ASSUME NEW s \in AdminRequests, s # r PROVE Considerate(areq[s])'
  OBVIOUS
<1>1. Considerate(areq[s]) /\ areq'[s] = areq[s]
  BY DEF AdminInv
<1>2. QED
  BY <1>1 DEF Considerate

LEMMA EndsAdmin ==
  ASSUME AdminInv, NEW r \in AdminRequests, EndAdmin(r), workspaces' \subseteq workspaces
  PROVE  areq' \in [AdminRequests -> AdminRequest] /\ \A s \in AdminRequests : Considerate(areq[s])'
<1>1. /\ areq' \in [AdminRequests -> AdminRequest] /\ areq'[r] = NoAdminRequest
      /\ \A s \in AdminRequests \ {r} : areq'[s] = areq[s]
  BY NoAdminFits DEF EndAdmin, AdminInv
<1>2. Considerate(areq[r])'
  BY <1>1, NoAdminFits DEF Considerate
<1>3. QED
  BY <1>1, <1>2, OthersConsiderate

LEMMA UpdateStep ==
  ASSUME AdminInv, NEW r \in AdminRequests, UpdateUser(r) \/ UpdateTenant(r) \/ AdminFails(r)
  PROVE  AdminInv'
<1>1. /\ UNCHANGED <<alive, workspaces, members>> /\ EndAdmin(r)
  BY DEF UpdateUser, UpdateTenant, AdminFails
<1>2. areq' \in [AdminRequests -> AdminRequest] /\ \A s \in AdminRequests : Considerate(areq[s])'
  BY <1>1, EndsAdmin
<1>3. outdated' \in BOOLEAN /\ SomeAdminStays'
  <2>1. CASE UpdateUser(r)
    <3>1. outdated' = (outdated \/ areq[r].by \notin alive \cap admins) /\ Considerate(areq[r])
      BY <2>1 DEF UpdateUser, Finish, AdminInv
    <3>2. CASE areq[r].by \in admins
      <4>1. areq[r].pc = "promote" /\ (~areq[r].flag => areq[r].user # areq[r].by)
        BY <2>1, <3>1 DEF UpdateUser, Considerate
      <4>2. areq[r].by \in admins'
        BY <2>1, <3>2, <4>1 DEF UpdateUser
      <4>3. QED
        BY <3>1, <4>2 DEF SomeAdminStays, AdminInv
    <3>3. CASE areq[r].by \notin admins
      BY <3>1, <3>3 DEF SomeAdminStays
    <3>4. QED
      BY <3>2, <3>3
  <2>2. CASE UpdateTenant(r) \/ AdminFails(r)
    BY <2>2 DEF UpdateTenant, AdminFails, Finish, AdminInv, SomeAdminStays
  <2>3. QED
    BY <2>1, <2>2
<1>4. workspaces' \subseteq Workspaces /\ WorkspaceHasOwner'
  BY <1>1 DEF AdminInv, WorkspaceHasOwner
<1>5. QED
  BY <1>2, <1>3, <1>4 DEF AdminInv

LEMMA DeleteStep ==
  ASSUME AdminInv, NEW r \in AdminRequests, DeleteTenant(r) \/ DeleteOwned(r)
  PROVE  AdminInv'
<1>1. PICK spaces : Remove(spaces, {}) /\ (DeleteOwned(r) => spaces = areq[r].owned)
  BY DEF DeleteTenant, DeleteOwned
<1>2. /\ workspaces' = workspaces \ spaces /\ UNCHANGED <<alive, admins>>
      /\ members' = {m \in members : m[2] \notin spaces}
  BY <1>1 DEF Remove
<1>3. areq' \in [AdminRequests -> AdminRequest] /\ \A s \in AdminRequests : Considerate(areq[s])'
  <2>1. CASE DeleteTenant(r)
    BY <1>2, <2>1, EndsAdmin DEF DeleteTenant
  <2>2. CASE DeleteOwned(r)
    <3>1. areq[r].pc = "deleteOwned" /\ areq' = [areq EXCEPT ![r].pc = "deleteUser"]
      BY <2>2 DEF DeleteOwned, StepAdmin
    <3>2. /\ areq' \in [AdminRequests -> AdminRequest]
          /\ \A s \in AdminRequests \ {r} : areq'[s] = areq[s]
          /\ areq'[r].pc = "deleteUser" /\ areq'[r].user = areq[r].user /\ areq'[r].by = areq[r].by
      BY <3>1 DEF AdminInv, AdminRequest
    <3>3. Considerate(areq[r])
      BY DEF AdminInv
    <3>4. Considerate(areq[r])'
      BY <1>1, <1>2, <2>2, <3>1, <3>2, <3>3 DEF Considerate
    <3>5. QED
      BY <1>2, <3>2, <3>4, OthersConsiderate
  <2>3. QED
    BY <2>1, <2>2
<1>4. outdated' \in BOOLEAN /\ (outdated => outdated')
  BY DEF DeleteTenant, DeleteOwned, Finish, AdminInv
<1>5. SomeAdminStays' /\ WorkspaceHasOwner' /\ workspaces' \subseteq Workspaces
  BY <1>2, <1>4 DEF AdminInv, SomeAdminStays, WorkspaceHasOwner
<1>6. QED
  BY <1>3, <1>4, <1>5 DEF AdminInv

LEMMA DeleteUserStep ==
  ASSUME AdminInv, NEW r \in AdminRequests, DeleteUser(r)
  PROVE  AdminInv'
<1> DEFINE v == areq[r].user
<1>1. /\ workspaces' = workspaces /\ alive' = alive \ {v} /\ admins' = admins \ {v}
      /\ members' = {m \in members : m[1] # v}
      /\ outdated' = (outdated \/ areq[r].by \notin alive \cap admins)
  BY DEF DeleteUser, Remove, Finish
<1>2. areq[r].pc = "deleteUser" /\ Considerate(areq[r]) /\ EndAdmin(r)
  BY DEF DeleteUser, AdminInv
<1>3. v # areq[r].by /\ \A w \in workspaces : OwnerOf[w] # v
  BY <1>2 DEF Considerate
<1>4. SomeAdminStays' /\ outdated' \in BOOLEAN
  BY <1>1, <1>3 DEF SomeAdminStays, AdminInv
<1>5. WorkspaceHasOwner'
  BY <1>1, <1>3 DEF WorkspaceHasOwner, AdminInv
<1>6. areq' \in [AdminRequests -> AdminRequest] /\ \A s \in AdminRequests : Considerate(areq[s])'
  BY <1>1, <1>2, EndsAdmin
<1>7. QED
  BY <1>1, <1>4, <1>5, <1>6 DEF AdminInv

LEMMA AdminStep ==
  ASSUME AdminInv, [AdminNext]_adminVars
  PROVE  AdminInv'
<1>1. CASE UNCHANGED adminVars
  BY <1>1 DEF adminVars, AdminInv, SomeAdminStays, WorkspaceHasOwner, Considerate
<1>2. QED
  BY <1>1, AskStep, UpdateStep, DeleteStep, DeleteUserStep DEF AdminNext

-----------------------------------------------------------------------------
(* Team: one owner, and what invitations make.                                *)

Admitting == {"find user", "create user", "find seat", "join"}
TeamRequest == [pc : TeamLabels, by : People, email : People, role : Grantable \cup {"none"},
                invitation : Invitations \cup {NoInvitation}, seat : Nat]
InvitationRow == [state : {"unused", "open", "accepted", "gone"}, email : People, role : Grantable,
                  expired : BOOLEAN]

\* A request that is about to make a member makes no owner, and one that is about to change a member has another
\* in hand than the owner.
WritesLawfully(q) ==
    /\ q.pc \in {"invite", "find open", "create"} \cup Admitting => q.role \in Grantable
    /\ q.pc = "write" => q.email # Owner

\* An acceptance keeps the address of its invitation; it has an account, and then a membership, before it goes on.
AcceptsInOrder(q) ==
    /\ q.pc = "cancel" => q.invitation \in Invitations
    /\ q.pc \in {"mail", "accept", "close"} \cup Admitting =>
          q.invitation \in Invitations /\ invitation[q.invitation].state # "unused"
    /\ q.pc \in Admitting \cup {"close"} => invitation[q.invitation].email = q.email
    /\ q.pc \in {"find seat", "join", "close"} => q.email \in users
    /\ q.pc = "close" => seat[q.email] > 0

TeamTyped ==
    /\ member \in [People -> Roles \cup {"none"}] /\ seat \in [People -> Nat]
    /\ invitation \in [Invitations -> InvitationRow]
    /\ request \in [TeamRequests -> TeamRequest]
    /\ mailed \subseteq {i \in Invitations : invitation[i].state # "unused"}
    /\ joins \in [Invitations -> Nat] /\ teamFaults \in Nat
    /\ \A p \in People : member[p] # "none" => seat[p] > 0

\* Every member an open invitation has made is one whose acceptance is about to close it, or failed.
Closing(i) == {r \in TeamRequests : request[r].pc = "close" /\ request[r].invitation = i}
OpenCount ==
    \A i \in Invitations : invitation[i].state \in {"unused", "open"} =>
        joins[i] <= Cardinality(Closing(i)) + teamFaults

TeamInv ==
    /\ TeamTyped /\ OneOwner /\ ClosedLast
    /\ \A r \in TeamRequests : WritesLawfully(request[r]) /\ AcceptsInOrder(request[r])
    /\ OpenCount /\ InvitationServesOnce

LEMMA NoRequestFits == NoRequest \in TeamRequest /\ NoRequest.pc = "idle"
  BY TeamAssumption DEF NoRequest, TeamRequest, TeamLabels, Grantable, Roles

LEMMA SomeRequests ==
  ASSUME NEW S \in SUBSET TeamRequests
  PROVE  IsFiniteSet(S) /\ Cardinality(S) \in Nat /\ Cardinality(S) <= Cardinality(TeamRequests)
BY FS_Subset, FS_CardinalityType, TeamAssumption

LEMMA DisjointUnion ==
  ASSUME NEW S, NEW T, IsFiniteSet(S), IsFiniteSet(T), S \cap T = {}
  PROVE  Cardinality(S \cup T) = Cardinality(S) + Cardinality(T)
<1>1. Cardinality(S \cup T) = Cardinality(S) + Cardinality(T) - Cardinality(S \cap T)
  BY FS_Union
<1>2. Cardinality(S \cap T) = 0
  BY FS_EmptySet
<1>3. QED
  BY <1>1, <1>2, FS_CardinalityType

LEMMA TeamInvInit == TeamInit => TeamInv
<1> SUFFICES ASSUME TeamInit PROVE TeamInv
  OBVIOUS
<1>1. Nobody \in InvitationRow /\ Nobody.state = "unused"
  BY TeamAssumption DEF Nobody, InvitationRow, Grantable, Roles
<1>2. TeamTyped
  BY <1>1, NoRequestFits DEF TeamInit, TeamTyped, Roles
<1>3. OneOwner /\ ClosedLast
  BY <1>1 DEF TeamInit, OneOwner, ClosedLast
<1>4. \A r \in TeamRequests : WritesLawfully(request[r]) /\ AcceptsInOrder(request[r])
  BY NoRequestFits DEF TeamInit, WritesLawfully, AcceptsInOrder, Admitting
<1>5. \A i \in Invitations : joins[i] = 0 /\ Accepting(i) = {} /\ Closing(i) = {}
  BY NoRequestFits DEF TeamInit, Accepting, Closing
<1>6. OpenCount /\ InvitationServesOnce
  BY <1>2, <1>5, FS_EmptySet, SomeRequests DEF OpenCount, InvitationServesOnce, TeamTyped
<1>7. QED
  BY <1>2, <1>3, <1>4, <1>6 DEF TeamInv

\* A request goes on: the others keep what they have, and rows of people and invitations only get on.
Rises ==
    /\ users \subseteq users' /\ \A p \in People : seat[p] > 0 => seat'[p] > 0
    /\ \A i \in Invitations : invitation[i].state # "unused" =>
          invitation'[i].state # "unused" /\ invitation'[i].email = invitation[i].email
RequestsTo(r) == request' \in [TeamRequests -> TeamRequest] /\ \A s \in TeamRequests \ {r} : request'[s] = request[s]

LEMMA OthersInOrder ==
  ASSUME TeamInv, TeamTyped', NEW r \in TeamRequests, RequestsTo(r), Rises,
         WritesLawfully(request[r])', AcceptsInOrder(request[r])'
  PROVE  \A s \in TeamRequests : WritesLawfully(request[s])' /\ AcceptsInOrder(request[s])'
<1> SUFFICES ASSUME NEW s \in TeamRequests, s # r
             PROVE  WritesLawfully(request[s])' /\ AcceptsInOrder(request[s])'
  OBVIOUS
<1>1. WritesLawfully(request[s]) /\ AcceptsInOrder(request[s]) /\ request'[s] = request[s]
  BY DEF TeamInv, RequestsTo
<1>2. request[s] \in TeamRequest
  BY DEF TeamInv, TeamTyped
<1>3. request[s].email \in People
  BY <1>2 DEF TeamRequest
<1>4. QED
  BY <1>1, <1>3 DEF WritesLawfully, AcceptsInOrder, Rises, Admitting

\* What counts acceptances, while only r moves and nobody joins: r begins to accept an open invitation, goes on, or
\* leaves, which it does as a failure unless its invitation is closed.
Leaves(r) ==
    \A i \in Invitations :
        /\ r \in Closing(i) /\ invitation'[i].state \in {"unused", "open"} =>
              r \in Closing(i)' \/ teamFaults' = teamFaults + 1
        /\ r \in Accepting(i)' => r \in Accepting(i) \/ (invitation[i].state = "open" /\ request[r].pc # "close")

LEMMA CountsKept ==
  ASSUME TeamInv, TeamTyped', NEW r \in TeamRequests, RequestsTo(r),
         \A i \in Invitations : invitation'[i].state \in {"unused", "open"} =>
             invitation[i].state \in {"unused", "open"},
         teamFaults' = teamFaults \/ teamFaults' = teamFaults + 1, joins' = joins, Leaves(r)
  PROVE  OpenCount' /\ InvitationServesOnce'
<1>1. ASSUME NEW i \in Invitations
      PROVE  /\ Closing(i) \in SUBSET TeamRequests /\ Closing(i)' \in SUBSET TeamRequests
             /\ Accepting(i) \in SUBSET TeamRequests /\ Accepting(i)' \in SUBSET TeamRequests
             /\ Closing(i) \cap Accepting(i) = {}
             /\ Closing(i) \ {r} \subseteq Closing(i)' /\ Accepting(i)' \subseteq Accepting(i) \cup {r}
  BY DEF Closing, Accepting, RequestsTo
<1>2. /\ joins \in [Invitations -> Nat] /\ teamFaults \in Nat /\ teamFaults' \in Nat
      /\ Cardinality(TeamRequests) \in Nat /\ teamFaults' >= teamFaults
  <2>1. \A m, n \in Nat : n = m \/ n = m + 1 => n >= m
    OBVIOUS
  <2>2. QED
    BY <2>1, SomeRequests DEF TeamInv, TeamTyped
<1>3. ASSUME NEW i \in Invitations, invitation'[i].state \in {"unused", "open"}
      PROVE  joins'[i] <= Cardinality(Closing(i)') + teamFaults'
  <2>1. joins[i] <= Cardinality(Closing(i)) + teamFaults
    BY <1>3 DEF TeamInv, OpenCount
  <2>2. /\ IsFiniteSet(Closing(i)) /\ IsFiniteSet(Closing(i)')
        /\ Cardinality(Closing(i)) \in Nat /\ Cardinality(Closing(i)') \in Nat
    BY <1>1, SomeRequests
  <2>3. CASE r \in Closing(i) /\ r \notin Closing(i)'
    <3>1. Cardinality(Closing(i) \ {r}) = Cardinality(Closing(i)) - 1
      BY <2>2, <2>3, FS_RemoveElement
    <3>2. Cardinality(Closing(i) \ {r}) <= Cardinality(Closing(i)')
      BY <1>1, <2>2, FS_Subset
    <3>3. teamFaults' = teamFaults + 1
      BY <1>3, <2>3 DEF Leaves
    <3>4. QED
      BY <1>2, <2>1, <2>2, <3>1, <3>2, <3>3
  <2>4. CASE r \notin Closing(i) \/ r \in Closing(i)'
    <3>1. Closing(i) \subseteq Closing(i)'
      BY <1>1, <2>4
    <3>2. Cardinality(Closing(i)) <= Cardinality(Closing(i)')
      BY <2>2, <3>1, FS_Subset
    <3>3. QED
      BY <1>2, <2>1, <2>2, <3>2
  <2>5. QED
    BY <2>3, <2>4
<1>4. ASSUME NEW i \in Invitations
      PROVE  joins'[i] + Cardinality(Accepting(i)') <= Cardinality(TeamRequests) + teamFaults'
  <2>1. /\ IsFiniteSet(Accepting(i)) /\ IsFiniteSet(Accepting(i)') /\ IsFiniteSet(Closing(i))
        /\ Cardinality(Accepting(i)) \in Nat /\ Cardinality(Accepting(i)') \in Nat
        /\ Cardinality(Closing(i)) \in Nat
    BY <1>1, SomeRequests
  <2>2. CASE Accepting(i)' \subseteq Accepting(i)
    <3>1. Cardinality(Accepting(i)') <= Cardinality(Accepting(i))
      BY <2>1, <2>2, FS_Subset
    <3>2. joins[i] + Cardinality(Accepting(i)) <= Cardinality(TeamRequests) + teamFaults
      BY DEF TeamInv, InvitationServesOnce
    <3>3. QED
      BY <1>2, <2>1, <3>1, <3>2
  <2>3. CASE ~(Accepting(i)' \subseteq Accepting(i))
    <3>1. r \in Accepting(i)' /\ r \notin Accepting(i)
      BY <1>1, <2>3
    <3>2. invitation[i].state = "open" /\ request[r].pc # "close"
      BY <3>1 DEF Leaves
    <3>3. joins[i] <= Cardinality(Closing(i)) + teamFaults
      BY <3>2 DEF TeamInv, OpenCount
    <3>4. Closing(i) \cap Accepting(i)' = {}
      BY <1>1, <3>2 DEF Closing
    <3>5. Cardinality(Closing(i) \cup Accepting(i)') = Cardinality(Closing(i)) + Cardinality(Accepting(i)')
      BY <2>1, <3>4, DisjointUnion
    <3>6. Cardinality(Closing(i) \cup Accepting(i)') <= Cardinality(TeamRequests)
      BY <1>1, SomeRequests
    <3>7. QED
      BY <1>2, <2>1, <3>3, <3>5, <3>6
  <2>4. QED
    BY <2>2, <2>3
<1>5. QED
  BY <1>3, <1>4 DEF OpenCount, InvitationServesOnce

\* How a request goes on, and how it ends.
LEMMA StepsTo ==
  ASSUME TeamInv, NEW r \in TeamRequests, NEW l \in TeamLabels, Step(r, l)
  PROVE  /\ RequestsTo(r) /\ request'[r].pc = l /\ request'[r].email = request[r].email
         /\ request'[r].role = request[r].role /\ request'[r].invitation = request[r].invitation
<1>1. request[r] \in TeamRequest /\ request \in [TeamRequests -> TeamRequest]
  BY DEF TeamInv, TeamTyped
<1>2. request' = [request EXCEPT ![r] = [request[r] EXCEPT !.pc = l]]
  BY <1>1 DEF Step
<1>3. [request[r] EXCEPT !.pc = l] \in TeamRequest
  BY <1>1 DEF TeamRequest
<1>4. RequestsTo(r) /\ request'[r] = [request[r] EXCEPT !.pc = l]
  BY <1>1, <1>2, <1>3 DEF RequestsTo
<1>5. QED
  BY <1>1, <1>4 DEF TeamRequest

LEMMA RequestEnds ==
  ASSUME TeamInv, NEW r \in TeamRequests, EndRequest(r)
  PROVE  RequestsTo(r) /\ request'[r] = NoRequest /\ WritesLawfully(request[r])' /\ AcceptsInOrder(request[r])'
<1>1. request \in [TeamRequests -> TeamRequest]
  BY DEF TeamInv, TeamTyped
<1>2. RequestsTo(r) /\ request'[r] = NoRequest
  BY <1>1, NoRequestFits DEF EndRequest, RequestsTo
<1>3. WritesLawfully(request[r])' /\ AcceptsInOrder(request[r])'
  BY <1>2, NoRequestFits DEF WritesLawfully, AcceptsInOrder, Admitting
<1>4. QED
  BY <1>2, <1>3

TeamRows == <<users, member, seat, invitation, mailed, joins>>

\* Actions that touch neither people nor invitations, of which r leaves no acceptance unfinished.
LEMMA OnlyRequest ==
  ASSUME TeamInv, NEW r \in TeamRequests, RequestsTo(r), UNCHANGED TeamRows,
         WritesLawfully(request[r])', AcceptsInOrder(request[r])',
         teamFaults' \in Nat, teamFaults' = teamFaults \/ teamFaults' = teamFaults + 1, Leaves(r)
  PROVE  TeamInv'
<1>1. TeamTyped'
  BY DEF TeamRows, TeamInv, TeamTyped, RequestsTo
<1>2. OneOwner' /\ ClosedLast'
  BY DEF TeamRows, TeamInv, OneOwner, ClosedLast
<1>3. Rises
  BY DEF TeamRows, Rises
<1>4. \A s \in TeamRequests : WritesLawfully(request[s])' /\ AcceptsInOrder(request[s])'
  BY <1>1, <1>3, OthersInOrder
<1>5. OpenCount' /\ InvitationServesOnce'
  BY <1>1, CountsKept DEF TeamRows
<1>6. QED
  BY <1>1, <1>2, <1>4, <1>5 DEF TeamInv

\* A request that is neither closing nor about to be accepting, and stays so.
LEMMA Uninvolved ==
  ASSUME NEW r \in TeamRequests, request[r].pc # "close", request'[r].pc \notin Admitting
  PROVE  Leaves(r)
BY DEF Leaves, Closing, Accepting, Admitting

LEMMA StartTeamStep ==
  ASSUME TeamInv, NEW r \in TeamRequests, StartTeam(r)
  PROVE  TeamInv'
<1>1. TeamTyped /\ request \in [TeamRequests -> TeamRequest] /\ teamFaults \in Nat
  BY DEF TeamInv, TeamTyped
<1>2. ASSUME NEW q \in TeamRequest, BeginRequest(r, q), q.pc \notin Admitting \cup {"write", "close"},
             q.pc \in {"invite", "find open", "create"} => q.role \in Grantable,
             q.pc = "cancel" => q.invitation \in Invitations, q.pc # "mail",
             q.pc = "accept" => q.invitation \in Invitations /\ invitation[q.invitation].state # "unused",
             UNCHANGED TeamRows, teamFaults' = teamFaults
      PROVE  TeamInv'
  <2>1. RequestsTo(r) /\ request'[r] = q /\ request[r].pc = "idle"
    BY <1>1, <1>2 DEF BeginRequest, AtStep, RequestsTo
  <2>2. WritesLawfully(request[r])' /\ AcceptsInOrder(request[r])'
    BY <1>2, <2>1 DEF TeamRows, WritesLawfully, AcceptsInOrder, Admitting
  <2>3. Leaves(r)
    BY <1>2, <2>1, Uninvolved
  <2>4. QED
    BY <1>1, <1>2, <2>1, <2>2, <2>3, OnlyRequest
<1>3. ASSUME NEW by \in People, NEW p \in People, NEW role \in Grantable, StartInvite(r, by, p, role) PROVE TeamInv'
  <2> DEFINE q == [NoRequest EXCEPT !.pc = "invite", !.email = p, !.role = role]
  <2>1. q \in TeamRequest /\ q.pc = "invite" /\ q.role = role
    BY NoRequestFits DEF TeamRequest, TeamLabels
  <2>2. BeginRequest(r, q) /\ UNCHANGED TeamRows /\ teamFaults' = teamFaults
    BY <1>3 DEF StartInvite, TeamRows
  <2> HIDE DEF q
  <2>3. QED
    BY <1>2, <2>1, <2>2 DEF Admitting
<1>4. ASSUME NEW by \in People, NEW i \in Invitations, StartCancel(r, by, i) PROVE TeamInv'
  <2> DEFINE q == [NoRequest EXCEPT !.pc = "cancel", !.invitation = i]
  <2>1. q \in TeamRequest /\ q.pc = "cancel" /\ q.invitation = i
    BY NoRequestFits DEF TeamRequest, TeamLabels
  <2>2. BeginRequest(r, q) /\ UNCHANGED TeamRows /\ teamFaults' = teamFaults
    BY <1>4 DEF StartCancel, TeamRows
  <2> HIDE DEF q
  <2>3. QED
    BY <1>2, <2>1, <2>2 DEF Admitting
<1>5. ASSUME NEW by \in People, NEW p \in People, NEW role \in Grantable \cup {"none"}, StartManage(r, by, p, role)
      PROVE  TeamInv'
  <2> DEFINE q == [NoRequest EXCEPT !.pc = "manage", !.by = by, !.email = p, !.role = role, !.seat = seat[p]]
  <2>1. q \in TeamRequest /\ q.pc = "manage"
    BY <1>1, NoRequestFits DEF TeamRequest, TeamLabels, TeamTyped
  <2>2. BeginRequest(r, q) /\ UNCHANGED TeamRows /\ teamFaults' = teamFaults
    BY <1>5 DEF StartManage, TeamRows
  <2> HIDE DEF q
  <2>3. QED
    BY <1>2, <2>1, <2>2 DEF Admitting
<1>6. ASSUME NEW i \in Invitations, StartAccept(r, i) PROVE TeamInv'
  <2> DEFINE q == [NoRequest EXCEPT !.pc = "accept", !.invitation = i]
  <2>1. q \in TeamRequest /\ q.pc = "accept" /\ q.invitation = i /\ invitation[i].state # "unused"
    BY <1>1, <1>6, NoRequestFits DEF TeamRequest, TeamLabels, TeamTyped, StartAccept
  <2>2. BeginRequest(r, q) /\ UNCHANGED TeamRows /\ teamFaults' = teamFaults
    BY <1>6 DEF StartAccept, TeamRows
  <2> HIDE DEF q
  <2>3. QED
    BY <1>2, <2>1, <2>2 DEF Admitting
<1>7. QED
  BY <1>3, <1>4, <1>5, <1>6 DEF StartTeam

\* The reads of inviteMember, updateMemberRole and removeMember.
LEMMA ReadStep ==
  ASSUME TeamInv, NEW r \in TeamRequests,
         FindMember(r) \/ FindOpen(r) \/ FindRequester(r) \/ FindRow(r)
  PROVE  TeamInv'
<1>1. /\ UNCHANGED TeamRows /\ teamFaults' = teamFaults /\ teamFaults \in Nat
      /\ request[r].pc \in {"invite", "find open", "manage", "find row"}
      /\ WritesLawfully(request[r])
  BY DEF TeamRows, FindMember, FindOpen, FindRequester, FindRow, AtStep, TeamInv, TeamTyped
<1>2. CASE EndRequest(r)
  <2>1. Leaves(r)
    BY <1>1, <1>2, RequestEnds, NoRequestFits, Uninvolved DEF Admitting
  <2>2. QED
    BY <1>1, <1>2, <2>1, RequestEnds, OnlyRequest
<1>3. ASSUME NEW l \in TeamLabels, Step(r, l), l \in {"find open", "create", "find row", "write"},
             l \in {"find open", "create"} => request[r].pc \in {"invite", "find open"},
             l = "write" => request[r].email # Owner
      PROVE  TeamInv'
  <2>1. /\ RequestsTo(r) /\ request'[r].pc = l /\ request'[r].email = request[r].email
        /\ request'[r].role = request[r].role
    BY <1>3, StepsTo
  <2>2. WritesLawfully(request[r])' /\ AcceptsInOrder(request[r])'
    BY <1>1, <1>3, <2>1 DEF TeamRows, WritesLawfully, AcceptsInOrder, Admitting
  <2>3. Leaves(r)
    BY <1>1, <1>3, <2>1, Uninvolved DEF Admitting
  <2>4. QED
    BY <1>1, <2>1, <2>2, <2>3, OnlyRequest
<1>4. {"find open", "create", "find row", "write"} \subseteq TeamLabels
  BY DEF TeamLabels
<1>5. CASE FindMember(r)
  BY <1>2, <1>3, <1>4, <1>5 DEF FindMember, AtStep
<1>6. CASE FindOpen(r)
  BY <1>2, <1>3, <1>4, <1>6 DEF FindOpen, AtStep
<1>7. CASE FindRequester(r)
  BY <1>2, <1>3, <1>4, <1>7 DEF FindRequester, AtStep
<1>8. CASE FindRow(r)
  <2>1. request[r].email \in People
    BY DEF TeamInv, TeamTyped, TeamRequest
  <2>2. member[request[r].email] # "OWNER" => request[r].email # Owner
    BY <2>1 DEF TeamInv, OneOwner
  <2>3. QED
    BY <1>2, <1>3, <1>4, <1>8, <2>2 DEF FindRow, AtStep
<1>9. QED
  BY <1>5, <1>6, <1>7, <1>8

\* The reads of acceptInvitation.
LEMMA AcceptReads ==
  ASSUME TeamInv, NEW r \in TeamRequests, FindInvitation(r) \/ FindUser(r) \/ FindSeat(r)
  PROVE  TeamInv'
<1> DEFINE i == request[r].invitation
<1>1. /\ UNCHANGED TeamRows /\ teamFaults' = teamFaults /\ teamFaults \in Nat
      /\ request[r].pc \in {"accept", "find user", "find seat"}
      /\ WritesLawfully(request[r]) /\ AcceptsInOrder(request[r])
      /\ request[r] \in TeamRequest /\ request \in [TeamRequests -> TeamRequest]
  BY DEF TeamRows, FindInvitation, FindUser, FindSeat, AtStep, TeamInv, TeamTyped
<1>2. i \in Invitations /\ invitation[i] \in InvitationRow
  BY <1>1 DEF AcceptsInOrder, Admitting, TeamInv, TeamTyped
<1>3. CASE EndRequest(r)
  <2>1. Leaves(r)
    BY <1>1, <1>3, RequestEnds, NoRequestFits, Uninvolved DEF Admitting
  <2>2. QED
    BY <1>1, <1>3, <2>1, RequestEnds, OnlyRequest
<1>4. CASE FindInvitation(r) /\ ~EndRequest(r)
  <2> DEFINE q == [request[r] EXCEPT !.pc = "find user", !.email = invitation[i].email, !.role = invitation[i].role]
  <2>1. /\ q \in TeamRequest /\ q.pc = "find user" /\ q.email = invitation[i].email /\ q.role = invitation[i].role
        /\ q.invitation = i /\ invitation[i].role \in Grantable
    BY <1>1, <1>2 DEF TeamRequest, InvitationRow, TeamLabels
  <2>2. invitation[i].state = "open" /\ request' = [request EXCEPT ![r] = q]
    BY <1>1, <1>4 DEF FindInvitation, IsOpen, Row
  <2> HIDE DEF q
  <2>3. RequestsTo(r) /\ request'[r] = q
    BY <1>1, <2>1, <2>2 DEF RequestsTo
  <2>4. WritesLawfully(request[r])' /\ AcceptsInOrder(request[r])'
    BY <1>1, <1>2, <2>1, <2>2, <2>3 DEF TeamRows, WritesLawfully, AcceptsInOrder, Admitting
  <2>5. Leaves(r)
    BY <1>1, <1>4, <2>1, <2>2, <2>3 DEF Leaves, Closing, Accepting, FindInvitation, AtStep
  <2> HIDE DEF i
  <2>6. QED
    BY <1>1, <2>3, <2>4, <2>5, OnlyRequest
<1>5. ASSUME NEW l \in {"find seat", "create user", "close", "join"}, Step(r, l),
             request[r].pc \in {"find user", "find seat"},
             l \in {"find seat", "join", "close"} => request[r].email \in users,
             l = "close" => seat[request[r].email] > 0
      PROVE  TeamInv'
  <2>0. l \in TeamLabels
    BY DEF TeamLabels
  <2>1. /\ RequestsTo(r) /\ request'[r].pc = l /\ request'[r].email = request[r].email
        /\ request'[r].role = request[r].role /\ request'[r].invitation = request[r].invitation
    BY <1>5, <2>0, StepsTo
  <2>2. WritesLawfully(request[r])' /\ AcceptsInOrder(request[r])'
    BY <1>1, <1>5, <2>1 DEF TeamRows, WritesLawfully, AcceptsInOrder, Admitting
  <2>3. Leaves(r)
    BY <1>1, <1>5, <2>1 DEF Leaves, Closing, Accepting
  <2>4. QED
    BY <1>1, <2>1, <2>2, <2>3, OnlyRequest
<1>6. CASE FindUser(r)
  BY <1>5, <1>6 DEF FindUser, AtStep
<1>7. CASE FindSeat(r)
  <2>1. /\ request[r].email \in users /\ request[r].email \in People
        /\ (member[request[r].email] # "none" => seat[request[r].email] > 0)
    BY <1>1, <1>7 DEF FindSeat, AtStep, AcceptsInOrder, TeamRequest, TeamInv, TeamTyped
  <2>2. QED
    BY <1>5, <1>7, <2>1 DEF FindSeat, AtStep
<1>8. QED
  BY <1>3, <1>4, <1>6, <1>7

\* The writes that touch no membership: a row of an invitation, its mail, an account.
LEMMA PaperStep ==
  ASSUME TeamInv, NEW r \in TeamRequests,
         \/ \E i \in Invitations : CreateInvitation(r, i)
         \/ MailInvitation(r) \/ CreateUser(r) \/ CloseInvitation(r) \/ CancelInvitation(r)
  PROVE  TeamInv'
<1>1. /\ UNCHANGED <<member, seat, joins, teamFaults>>
      /\ TeamTyped /\ OneOwner /\ ClosedLast
      /\ WritesLawfully(request[r]) /\ AcceptsInOrder(request[r])
      /\ request[r] \in TeamRequest /\ request \in [TeamRequests -> TeamRequest]
      /\ invitation \in [Invitations -> InvitationRow] /\ teamFaults \in Nat
  BY DEF CreateInvitation, MailInvitation, CreateUser, CloseInvitation, CancelInvitation, TeamInv, TeamTyped
<1>2. ASSUME TeamTyped', ClosedLast', RequestsTo(r), Rises, WritesLawfully(request[r])', AcceptsInOrder(request[r])',
             \A i \in Invitations : invitation'[i].state \in {"unused", "open"} =>
                 invitation[i].state \in {"unused", "open"},
             Leaves(r)
      PROVE  TeamInv'
  <2>1. OneOwner'
    BY <1>1 DEF OneOwner
  <2>2. \A s \in TeamRequests : WritesLawfully(request[s])' /\ AcceptsInOrder(request[s])'
    BY <1>2, OthersInOrder
  <2>3. OpenCount' /\ InvitationServesOnce'
    BY <1>1, <1>2, CountsKept
  <2>4. QED
    BY <1>2, <2>1, <2>2, <2>3 DEF TeamInv
<1>3. ASSUME NEW i \in Invitations, CreateInvitation(r, i) PROVE TeamInv'
  <2> DEFINE q == [request[r] EXCEPT !.pc = "mail", !.invitation = i]
  <2> DEFINE row == [state |-> "open", email |-> request[r].email, role |-> request[r].role, expired |-> FALSE]
  <2>1. /\ request[r].pc = "create" /\ invitation[i].state = "unused"
        /\ invitation' = [invitation EXCEPT ![i] = row] /\ UNCHANGED <<users, mailed>>
        /\ request' = [request EXCEPT ![r].pc = "mail", ![r].invitation = i]
    BY <1>3 DEF CreateInvitation, AtStep
  <2>2. request' = [request EXCEPT ![r] = q]
    BY <1>1, <2>1
  <2>3. q \in TeamRequest /\ q.pc = "mail" /\ q.invitation = i
    BY <1>1 DEF TeamRequest, TeamLabels
  <2>4. request[r].role \in Grantable /\ request[r].email \in People
    BY <1>1, <2>1 DEF WritesLawfully, TeamRequest
  <2>5. row \in InvitationRow /\ row.state = "open"
    BY <2>4 DEF InvitationRow
  <2> HIDE DEF q, row
  <2>6. RequestsTo(r) /\ request'[r] = q
    BY <1>1, <2>2, <2>3 DEF RequestsTo
  <2>7. /\ invitation' \in [Invitations -> InvitationRow] /\ invitation'[i] = row
        /\ \A j \in Invitations \ {i} : invitation'[j] = invitation[j]
    BY <1>1, <2>1, <2>5
  <2>8. TeamTyped'
    BY <1>1, <2>1, <2>5, <2>6, <2>7 DEF TeamTyped, RequestsTo
  <2>9. ClosedLast' /\ Rises
    BY <1>1, <2>1, <2>5, <2>7 DEF ClosedLast, Rises
  <2>10. WritesLawfully(request[r])' /\ AcceptsInOrder(request[r])'
    BY <2>3, <2>5, <2>6, <2>7 DEF WritesLawfully, AcceptsInOrder, Admitting
  <2>11. Leaves(r)
    BY <2>1, <2>3, <2>6, Uninvolved DEF Admitting
  <2>12. QED
    BY <1>2, <2>1, <2>6, <2>7, <2>8, <2>9, <2>10, <2>11
<1>4. CASE MailInvitation(r)
  <2>1. /\ request[r].pc = "mail" /\ EndRequest(r) /\ UNCHANGED <<users, invitation>>
        /\ mailed' = mailed \cup {request[r].invitation}
    BY <1>4 DEF MailInvitation, AtStep
  <2>2. RequestsTo(r) /\ request'[r] = NoRequest /\ WritesLawfully(request[r])' /\ AcceptsInOrder(request[r])'
    BY <2>1, RequestEnds
  <2>3. TeamTyped'
    BY <1>1, <2>1, <2>2 DEF TeamTyped, RequestsTo, AcceptsInOrder
  <2>4. ClosedLast' /\ Rises
    BY <1>1, <2>1 DEF ClosedLast, Rises
  <2>5. Leaves(r)
    BY <2>1, <2>2, NoRequestFits, Uninvolved DEF Admitting
  <2>6. QED
    BY <1>2, <2>1, <2>2, <2>3, <2>4, <2>5
<1>5. CASE CreateUser(r)
  <2>1. /\ request[r].pc = "create user" /\ UNCHANGED <<invitation, mailed>>
        /\ users' = users \cup {request[r].email}
        /\ EndRequest(r) \/ Step(r, "find seat")
    BY <1>5 DEF CreateUser, AtStep
  <2>2. RequestsTo(r) /\ WritesLawfully(request[r])' /\ AcceptsInOrder(request[r])' /\ Leaves(r)
    <3>1. CASE EndRequest(r)
      <4>1. Leaves(r)
        BY <2>1, <3>1, RequestEnds, NoRequestFits, Uninvolved DEF Admitting
      <4>2. QED
        BY <3>1, <4>1, RequestEnds
    <3>2. CASE Step(r, "find seat")
      <4>1. /\ RequestsTo(r) /\ request'[r].pc = "find seat" /\ request'[r].email = request[r].email
            /\ request'[r].role = request[r].role /\ request'[r].invitation = request[r].invitation
        BY <3>2, StepsTo DEF TeamLabels
      <4>2. WritesLawfully(request[r])' /\ AcceptsInOrder(request[r])'
        BY <1>1, <2>1, <4>1 DEF WritesLawfully, AcceptsInOrder, Admitting
      <4>3. Leaves(r)
        BY <2>1, <4>1 DEF Leaves, Closing, Accepting
      <4>4. QED
        BY <4>1, <4>2, <4>3
    <3>3. QED
      BY <2>1, <3>1, <3>2
  <2>3. TeamTyped'
    BY <1>1, <2>1, <2>2 DEF TeamTyped, RequestsTo
  <2>4. ClosedLast' /\ Rises
    BY <1>1, <2>1 DEF ClosedLast, Rises
  <2>5. QED
    BY <1>2, <2>1, <2>2, <2>3, <2>4
<1>6. CASE CloseInvitation(r) \/ CancelInvitation(r)
  <2> DEFINE i == request[r].invitation
  <2>1. PICK st \in {"accepted", "gone"} :
            /\ invitation' = [invitation EXCEPT ![i].state = st]
            /\ st = "accepted" => request[r].pc = "close"
    BY <1>6 DEF CloseInvitation, CancelInvitation, AtStep
  <2>2. /\ request[r].pc \in {"close", "cancel"} /\ EndRequest(r) /\ UNCHANGED <<users, mailed>>
        /\ i \in Invitations /\ invitation[i] \in InvitationRow
    BY <1>1, <1>6 DEF CloseInvitation, CancelInvitation, AtStep, AcceptsInOrder
  <2>3. [invitation[i] EXCEPT !.state = st] \in InvitationRow
    BY <2>2 DEF InvitationRow
  <2>4. /\ invitation' \in [Invitations -> InvitationRow]
        /\ invitation'[i].state = st /\ invitation'[i].email = invitation[i].email
        /\ \A j \in Invitations \ {i} : invitation'[j] = invitation[j]
    BY <1>1, <2>1, <2>2, <2>3 DEF InvitationRow
  <2>5. RequestsTo(r) /\ request'[r] = NoRequest /\ WritesLawfully(request[r])' /\ AcceptsInOrder(request[r])'
    BY <2>2, RequestEnds
  <2>6. TeamTyped'
    <3>1. mailed' \subseteq {j \in Invitations : invitation'[j].state # "unused"}
      BY <1>1, <2>2, <2>4 DEF TeamTyped
    <3>2. QED
      BY <1>1, <2>4, <2>5, <3>1 DEF TeamTyped, RequestsTo
  <2>7. st = "accepted" => invitation[i].email \in users /\ seat[invitation[i].email] > 0
    BY <1>1, <2>1 DEF AcceptsInOrder
  <2>8. ClosedLast' /\ Rises
    BY <1>1, <2>2, <2>4, <2>7 DEF ClosedLast, Rises
  <2>9. Leaves(r)
    BY <2>2, <2>4, <2>5, NoRequestFits DEF Leaves, Closing, Accepting
  <2>10. \A j \in Invitations : invitation'[j].state \in {"unused", "open"} =>
                                    invitation[j].state \in {"unused", "open"}
    BY <2>4
  <2> HIDE DEF i
  <2>11. QED
    BY <1>2, <2>5, <2>6, <2>8, <2>9, <2>10
<1>7. QED
  BY <1>3, <1>4, <1>5, <1>6

\* The acceptance that makes a member.
LEMMA JoinStep ==
  ASSUME TeamInv, NEW r \in TeamRequests, Join(r)
  PROVE  TeamInv'
<1> DEFINE p == request[r].email
<1> DEFINE i == request[r].invitation
<1>1. /\ request[r].pc = "join" /\ UNCHANGED <<users, invitation, mailed, teamFaults>>
      /\ TeamTyped /\ OneOwner /\ ClosedLast /\ teamFaults \in Nat
      /\ WritesLawfully(request[r]) /\ AcceptsInOrder(request[r])
      /\ request[r] \in TeamRequest /\ request \in [TeamRequests -> TeamRequest]
  BY DEF Join, AtStep, TeamInv, TeamTyped
<1>2. p \in People /\ i \in Invitations /\ request[r].role \in Grantable /\ p \in users
  BY <1>1 DEF TeamRequest, WritesLawfully, AcceptsInOrder, Admitting
<1>3. CASE member[p] # "none"
  <2>1. UNCHANGED TeamRows /\ EndRequest(r)
    BY <1>1, <1>3 DEF Join, TeamRows
  <2>2. RequestsTo(r) /\ request'[r] = NoRequest /\ WritesLawfully(request[r])' /\ AcceptsInOrder(request[r])'
    BY <2>1, RequestEnds
  <2>3. Leaves(r)
    BY <1>1, <2>2, NoRequestFits, Uninvolved DEF Admitting
  <2>4. QED
    BY <1>1, <2>1, <2>2, <2>3, OnlyRequest
<1>4. CASE member[p] = "none"
  <2>1. /\ member' = [member EXCEPT ![p] = request[r].role]
        /\ seat' = [seat EXCEPT ![p] = @ + 1]
        /\ joins' = [joins EXCEPT ![i] = @ + 1]
        /\ Step(r, "close")
    BY <1>1, <1>4 DEF Join
  <2>2. /\ RequestsTo(r) /\ request'[r].pc = "close" /\ request'[r].email = p
        /\ request'[r].role = request[r].role /\ request'[r].invitation = i
    BY <2>1, StepsTo DEF TeamLabels
  <2>3. /\ member' \in [People -> Roles \cup {"none"}] /\ seat' \in [People -> Nat] /\ joins' \in [Invitations -> Nat]
        /\ \A x \in People : seat[x] > 0 => seat'[x] > 0
        /\ seat'[p] > 0 /\ joins'[i] = joins[i] + 1 /\ \A j \in Invitations \ {i} : joins'[j] = joins[j]
        /\ \A x \in People \ {p} : member'[x] = member[x] /\ seat'[x] = seat[x]
        /\ member'[p] = request[r].role
    BY <1>1, <1>2, <2>1 DEF TeamTyped, Grantable
  <2>4. TeamTyped'
    BY <1>1, <1>2, <2>2, <2>3 DEF TeamTyped, RequestsTo
  <2>5. OneOwner'
    BY <1>1, <1>2, <1>4, <2>3 DEF OneOwner, Grantable
  <2>6. ClosedLast' /\ Rises
    BY <1>1, <2>3 DEF ClosedLast, Rises, TeamTyped, InvitationRow
  <2>7. WritesLawfully(request[r])' /\ AcceptsInOrder(request[r])'
    BY <1>1, <1>2, <2>2, <2>3 DEF WritesLawfully, AcceptsInOrder, Admitting
  <2>8. \A s \in TeamRequests : WritesLawfully(request[s])' /\ AcceptsInOrder(request[s])'
    BY <2>2, <2>4, <2>6, <2>7, OthersInOrder
  <2>9. ASSUME NEW j \in Invitations
        PROVE  /\ Closing(j) \in SUBSET TeamRequests /\ Closing(j)' \in SUBSET TeamRequests
               /\ Accepting(j) \in SUBSET TeamRequests /\ Accepting(j)' \in SUBSET TeamRequests
               /\ j = i => Accepting(j)' = Accepting(j) \ {r} /\ Closing(j)' = Closing(j) \cup {r}
                           /\ r \in Accepting(j) /\ r \notin Closing(j)
               /\ j # i => Accepting(j)' = Accepting(j) /\ Closing(j)' = Closing(j)
    BY <1>1, <2>2 DEF Closing, Accepting, RequestsTo
  <2>10. ASSUME NEW j \in Invitations
         PROVE  /\ j = i => /\ Cardinality(Accepting(j)') = Cardinality(Accepting(j)) - 1
                            /\ Cardinality(Closing(j)') = Cardinality(Closing(j)) + 1
                /\ j # i => /\ Cardinality(Accepting(j)') = Cardinality(Accepting(j))
                            /\ Cardinality(Closing(j)') = Cardinality(Closing(j))
                /\ Cardinality(Accepting(j)) \in Nat /\ Cardinality(Closing(j)) \in Nat
    <3>1. /\ IsFiniteSet(Accepting(j)) /\ IsFiniteSet(Closing(j))
          /\ Cardinality(Accepting(j)) \in Nat /\ Cardinality(Closing(j)) \in Nat
      BY <2>9, SomeRequests
    <3>2. CASE j = i
      <4>1. Cardinality(Accepting(j) \ {r}) = Cardinality(Accepting(j)) - 1
        BY <2>9, <3>1, <3>2, FS_RemoveElement
      <4>2. Cardinality(Closing(j) \cup {r}) = Cardinality(Closing(j)) + 1
        BY <2>9, <3>1, <3>2, FS_AddElement
      <4>3. QED
        BY <2>9, <3>1, <3>2, <4>1, <4>2
    <3>3. CASE j # i
      BY <2>9, <3>1, <3>3
    <3>4. QED
      BY <3>2, <3>3
  <2>11. OpenCount'
    <3> SUFFICES ASSUME NEW j \in Invitations, invitation[j].state \in {"unused", "open"}
                 PROVE  joins'[j] <= Cardinality(Closing(j)') + teamFaults
      BY <1>1 DEF OpenCount
    <3>1. joins[j] <= Cardinality(Closing(j)) + teamFaults /\ joins[j] \in Nat
      BY <1>1 DEF TeamInv, OpenCount, TeamTyped
    <3>2. QED
      BY <1>1, <2>3, <2>10, <3>1
  <2>12. InvitationServesOnce'
    <3> SUFFICES ASSUME NEW j \in Invitations
                 PROVE  joins'[j] + Cardinality(Accepting(j)') <= Cardinality(TeamRequests) + teamFaults
      BY <1>1 DEF InvitationServesOnce
    <3>1. /\ joins[j] + Cardinality(Accepting(j)) <= Cardinality(TeamRequests) + teamFaults
          /\ joins[j] \in Nat /\ Cardinality(TeamRequests) \in Nat
      BY <1>1, SomeRequests DEF TeamInv, InvitationServesOnce, TeamTyped
    <3>2. QED
      BY <1>1, <2>3, <2>10, <3>1
  <2>13. QED
    BY <2>4, <2>5, <2>6, <2>8, <2>11, <2>12 DEF TeamInv
<1>5. QED
  BY <1>3, <1>4

\* A role is changed, or a member removed.
LEMMA WriteMemberStep ==
  ASSUME TeamInv, NEW r \in TeamRequests, WriteMember(r)
  PROVE  TeamInv'
<1> DEFINE p == request[r].email
<1>1. /\ request[r].pc = "write" /\ EndRequest(r)
      /\ UNCHANGED <<users, seat, invitation, mailed, joins, teamFaults>>
      /\ TeamTyped /\ OneOwner /\ ClosedLast /\ teamFaults \in Nat
      /\ WritesLawfully(request[r]) /\ request[r] \in TeamRequest
  BY DEF WriteMember, AtStep, TeamInv, TeamTyped
<1>2. p \in People /\ p # Owner /\ request[r].role \in Grantable \cup {"none"}
  BY <1>1 DEF WritesLawfully, TeamRequest
<1>3. RequestsTo(r) /\ request'[r] = NoRequest /\ WritesLawfully(request[r])' /\ AcceptsInOrder(request[r])'
  BY <1>1, RequestEnds
<1>4. /\ member' \in [People -> Roles \cup {"none"}] /\ \A x \in People \ {p} : member'[x] = member[x]
      /\ member'[p] = member[p] \/ (member[p] # "none" /\ member'[p] = request[r].role)
  BY <1>1, <1>2 DEF WriteMember, Present, TeamTyped, Grantable
<1>5. TeamTyped'
  BY <1>1, <1>3, <1>4 DEF TeamTyped, RequestsTo
<1>6. OneOwner'
  BY <1>1, <1>2, <1>4 DEF OneOwner, Grantable
<1>7. ClosedLast' /\ Rises
  BY <1>1 DEF ClosedLast, Rises
<1>8. Leaves(r)
  BY <1>1, <1>3, NoRequestFits, Uninvolved DEF Admitting
<1>9. \A s \in TeamRequests : WritesLawfully(request[s])' /\ AcceptsInOrder(request[s])'
  BY <1>3, <1>5, <1>7, OthersInOrder
<1>10. OpenCount' /\ InvitationServesOnce'
  BY <1>1, <1>3, <1>5, <1>8, CountsKept
<1>11. QED
  BY <1>5, <1>6, <1>7, <1>9, <1>10 DEF TeamInv

LEMMA FailStep ==
  ASSUME TeamInv, NEW r \in TeamRequests, TeamFail(r)
  PROVE  TeamInv'
<1>1. UNCHANGED TeamRows /\ EndRequest(r) /\ teamFaults' = teamFaults + 1 /\ teamFaults \in Nat
  BY DEF TeamFail, TeamRows, TeamInv, TeamTyped
<1>2. RequestsTo(r) /\ request'[r] = NoRequest /\ WritesLawfully(request[r])' /\ AcceptsInOrder(request[r])'
  BY <1>1, RequestEnds
<1>3. Leaves(r)
  BY <1>1, <1>2, NoRequestFits DEF Leaves, Closing, Accepting
<1>4. teamFaults' \in Nat
  BY <1>1
<1>5. QED
  BY <1>1, <1>2, <1>3, <1>4, OnlyRequest

\* Time passes, people come: no request moves.
LEMMA AroundStep ==
  ASSUME TeamInv, (\E p \in People : SignUp(p)) \/ (\E i \in Invitations : Expire(i)) \/ UNCHANGED teamVars
  PROVE  TeamInv'
<1>1. /\ UNCHANGED <<member, seat, mailed, request, joins, teamFaults>> /\ users \subseteq users'
      /\ TeamTyped /\ OneOwner /\ ClosedLast /\ invitation \in [Invitations -> InvitationRow]
  BY DEF SignUp, Expire, teamVars, TeamInv, TeamTyped
<1>2. /\ invitation' \in [Invitations -> InvitationRow]
      /\ \A j \in Invitations : /\ invitation'[j].state = invitation[j].state
                                /\ invitation'[j].email = invitation[j].email
  <2>1. ASSUME NEW i \in Invitations, Expire(i)
        PROVE  /\ invitation' \in [Invitations -> InvitationRow]
               /\ \A j \in Invitations : /\ invitation'[j].state = invitation[j].state
                                         /\ invitation'[j].email = invitation[j].email
    <3>1. invitation' = [invitation EXCEPT ![i] = [invitation[i] EXCEPT !.expired = TRUE]]
      BY <1>1, <2>1 DEF Expire
    <3>2. [invitation[i] EXCEPT !.expired = TRUE] \in InvitationRow
      BY <1>1 DEF InvitationRow
    <3>3. QED
      BY <1>1, <3>1, <3>2 DEF InvitationRow
  <2>2. CASE UNCHANGED invitation
    BY <1>1, <2>2
  <2>3. QED
    BY <2>1, <2>2 DEF SignUp, teamVars
<1>3. TeamTyped'
  BY <1>1, <1>2 DEF TeamTyped
<1>4. OneOwner' /\ ClosedLast'
  BY <1>1, <1>2 DEF OneOwner, ClosedLast
<1>5. ASSUME NEW r \in TeamRequests PROVE WritesLawfully(request[r])' /\ AcceptsInOrder(request[r])'
  <2>1. WritesLawfully(request[r]) /\ AcceptsInOrder(request[r])
    BY DEF TeamInv
  <2>2. QED
    BY <1>1, <1>2, <2>1 DEF WritesLawfully, AcceptsInOrder, Admitting
<1>6. OpenCount' /\ InvitationServesOnce'
  BY <1>1, <1>2 DEF TeamInv, OpenCount, InvitationServesOnce, Closing, Accepting
<1>7. QED
  BY <1>3, <1>4, <1>5, <1>6 DEF TeamInv

LEMMA TeamStep ==
  ASSUME TeamInv, [TeamNext]_teamVars
  PROVE  TeamInv'
<1>1. ASSUME NEW r \in TeamRequests, HandleTeam(r) PROVE TeamInv'
  BY <1>1, ReadStep, AcceptReads, PaperStep, JoinStep, WriteMemberStep DEF HandleTeam
<1>2. QED
  BY <1>1, StartTeamStep, FailStep, AroundStep DEF TeamNext

-----------------------------------------------------------------------------
(* Accounts: codes that are mailed, links that serve.                         *)

Visit == [pc : VisitLabels, who : Addresses \cup {NoAddress}, link : Links \cup {NoLink}, code : Nat, seen : Nat]
AccountRow == [password : Nat, code : Nat, stale : BOOLEAN, verified : BOOLEAN]
LinkRow == [state : {"unused", "open", "used"}, of : Addresses \cup {NoAddress}, expired : BOOLEAN]

\* A code that is in the row, or a newer one is, or none is needed any more.
Serves(a, code) == account[a].verified \/ account[a].code >= code

\* The locals of a request: whose account it is about, which link it uses, and which code it mails.
VisitInOrder(q) ==
    /\ q.pc # "idle" => q.who \in Addresses
    /\ q.pc \in {"mail link", "reset", "set password"} => q.link \in Links
    /\ q.pc = "mail code" => Serves(q.who, q.code)

AccountsTyped ==
    /\ account \in [Addresses -> AccountRow] /\ link \in [Links -> LinkRow]
    /\ visit \in [Visitors -> Visit] /\ secret \in Nat /\ uses \in [Links -> Nat]
    /\ inMail \subseteq Addresses \X (Nat \cup Links)

SecretInv ==
    /\ AccountsTyped
    /\ \A v \in Visitors : VisitInOrder(visit[v])
    /\ \A a \in Addresses : account[a].code <= secret
    /\ \A m \in inMail : m[2] \in Nat => Serves(m[1], m[2])
    /\ \A l \in Links : link[l].state # "used" => uses[l] = 0
    /\ LinkServesOnce

LEMMA NoVisitFits == NoVisit \in Visit /\ NoVisit.pc = "idle"
  BY DEF NoVisit, Visit, VisitLabels

LEMMA SomeVisitors ==
  ASSUME NEW S \in SUBSET Visitors
  PROVE  IsFiniteSet(S) /\ Cardinality(S) \in Nat /\ Cardinality(S) <= Cardinality(Visitors)
BY FS_Subset, FS_CardinalityType, AccountsAssumption

LEMMA SecretInvInit == AccountsInit => SecretInv
<1> SUFFICES ASSUME AccountsInit PROVE SecretInv
  OBVIOUS
<1>1. NoAccount \in AccountRow /\ NoAccount.code = 0
  BY DEF NoAccount, AccountRow
<1>2. AccountsTyped
  BY <1>1, NoVisitFits DEF AccountsInit, AccountsTyped, LinkRow
<1>3. \A v \in Visitors : VisitInOrder(visit[v])
  BY NoVisitFits DEF AccountsInit, VisitInOrder
<1>4. LinkServesOnce
  <2>1. \A l \in Links : Resetting(l) = {} /\ uses[l] = 0
    BY NoVisitFits DEF AccountsInit, Resetting, On
  <2>2. QED
    BY <2>1, FS_EmptySet, SomeVisitors DEF LinkServesOnce
<1>5. QED
  BY <1>1, <1>2, <1>3, <1>4 DEF AccountsInit, SecretInv

\* A request goes on while the others stay.
VisitsTo(v) == visit' \in [Visitors -> Visit] /\ \A x \in Visitors \ {v} : visit'[x] = visit[x]
\* No code that served stops to serve.
StillServe == \A a \in Addresses : \A code \in Nat : Serves(a, code) => Serves(a, code)'

LEMMA OthersVisit ==
  ASSUME SecretInv, NEW v \in Visitors, VisitsTo(v), StillServe, VisitInOrder(visit[v])'
  PROVE  \A x \in Visitors : VisitInOrder(visit[x])'
<1> SUFFICES ASSUME NEW x \in Visitors, x # v PROVE VisitInOrder(visit[x])'
  OBVIOUS
<1>1. VisitInOrder(visit[x]) /\ visit'[x] = visit[x] /\ visit[x] \in Visit
  BY DEF SecretInv, VisitsTo, AccountsTyped
<1>2. visit[x].code \in Nat
  BY <1>1 DEF Visit
<1>3. visit[x].pc = "mail code" => Serves(visit[x].who, visit[x].code)'
  BY <1>1, <1>2, NoVisitFits DEF VisitInOrder, StillServe
<1>4. QED
  BY <1>1, <1>3 DEF VisitInOrder, Serves

\* Links while v goes on: it begins with an open link only, and leaves freely.
LEMMA LinksKept ==
  ASSUME SecretInv, NEW v \in Visitors, VisitsTo(v), uses' = uses,
         \A l \in Links : link'[l].state # "used" => link[l].state # "used",
         \A l \in Links : v \in Resetting(l)' => v \in Resetting(l) \/ link[l].state = "open"
  PROVE  LinkServesOnce' /\ \A l \in Links : link'[l].state # "used" => uses'[l] = 0
<1>1. \A l \in Links : link'[l].state # "used" => uses'[l] = 0
  BY DEF SecretInv
<1>2. ASSUME NEW l \in Links PROVE uses'[l] + Cardinality(Resetting(l)') <= Cardinality(Visitors)
  <2>1. /\ Resetting(l) \in SUBSET Visitors /\ Resetting(l)' \in SUBSET Visitors
        /\ Resetting(l)' \subseteq Resetting(l) \cup {v}
    BY DEF Resetting, On, VisitsTo
  <2>2. /\ IsFiniteSet(Resetting(l)) /\ Cardinality(Resetting(l)) \in Nat /\ Cardinality(Resetting(l)') \in Nat
        /\ Cardinality(Resetting(l)') <= Cardinality(Visitors) /\ Cardinality(Visitors) \in Nat
    BY <2>1, SomeVisitors
  <2>3. CASE v \in Resetting(l)' /\ v \notin Resetting(l)
    <3>1. uses[l] = 0
      BY <2>3 DEF SecretInv
    <3>2. QED
      BY <2>2, <3>1
  <2>4. CASE v \notin Resetting(l)' \/ v \in Resetting(l)
    <3>1. Resetting(l)' \subseteq Resetting(l)
      BY <2>1, <2>4
    <3>2. Cardinality(Resetting(l)') <= Cardinality(Resetting(l))
      BY <2>2, <3>1, FS_Subset
    <3>3. uses[l] + Cardinality(Resetting(l)) <= Cardinality(Visitors) /\ uses[l] \in Nat
      BY DEF SecretInv, LinkServesOnce, AccountsTyped
    <3>4. QED
      BY <2>2, <3>2, <3>3
  <2>5. QED
    BY <2>3, <2>4
<1>3. QED
  BY <1>1, <1>2 DEF LinkServesOnce

\* What is left to show of an action of a request, unless it sets a password.
LEMMA VisitStep ==
  ASSUME SecretInv, NEW v \in Visitors, VisitsTo(v), AccountsTyped', StillServe,
         \A a \in Addresses : account'[a].code <= secret',
         \A m \in inMail' : m \in inMail \/ (m[2] \in Nat => Serves(m[1], m[2])'),
         VisitInOrder(visit[v])', uses' = uses,
         \A l \in Links : link'[l].state # "used" => link[l].state # "used",
         \A l \in Links : v \in Resetting(l)' => v \in Resetting(l) \/ link[l].state = "open"
  PROVE  SecretInv'
<1>1. \A x \in Visitors : VisitInOrder(visit[x])'
  BY OthersVisit
<1>2. LinkServesOnce' /\ \A l \in Links : link'[l].state # "used" => uses'[l] = 0
  BY LinksKept
<1>3. \A m \in inMail' : m[2] \in Nat => Serves(m[1], m[2])'
  <2> SUFFICES ASSUME NEW m \in inMail', m[2] \in Nat PROVE Serves(m[1], m[2])'
    OBVIOUS
  <2>1. CASE m \in inMail
    <3>1. m[1] \in Addresses /\ Serves(m[1], m[2])
      BY <2>1 DEF SecretInv, AccountsTyped
    <3>2. QED
      BY <3>1 DEF StillServe
  <2>2. QED
    BY <2>1
<1>4. QED
  BY <1>1, <1>2, <1>3 DEF SecretInv

\* Most actions touch neither codes nor links.
LEMMA OnlyVisit ==
  ASSUME SecretInv, NEW v \in Visitors, VisitsTo(v), UNCHANGED <<account, link, inMail, secret, uses>>,
         VisitInOrder(visit[v])', \A l \in Links : v \in Resetting(l)' => v \in Resetting(l) \/ link[l].state = "open"
  PROVE  SecretInv'
<1>1. UNCHANGED <<account, link, inMail, secret, uses>>
  OBVIOUS
<1>2. AccountsTyped'
  BY <1>1 DEF SecretInv, AccountsTyped, VisitsTo
<1>3. StillServe
  BY <1>1 DEF StillServe, Serves
<1>4. \A a \in Addresses : account'[a].code <= secret'
  BY <1>1 DEF SecretInv
<1>5. QED
  BY <1>1, <1>2, <1>3, <1>4, VisitStep

LEMMA Moves ==
  ASSUME SecretInv, NEW v \in Visitors, NEW l \in VisitLabels, Move(v, l)
  PROVE  /\ VisitsTo(v) /\ visit'[v].pc = l /\ visit'[v].who = visit[v].who /\ visit'[v].link = visit[v].link
         /\ visit'[v].code = visit[v].code
<1>1. visit[v] \in Visit /\ visit \in [Visitors -> Visit]
  BY DEF SecretInv, AccountsTyped
<1>2. visit' = [visit EXCEPT ![v] = [visit[v] EXCEPT !.pc = l]] /\ [visit[v] EXCEPT !.pc = l] \in Visit
  BY <1>1 DEF Move, Visit
<1>3. VisitsTo(v) /\ visit'[v] = [visit[v] EXCEPT !.pc = l]
  BY <1>1, <1>2 DEF VisitsTo
<1>4. QED
  BY <1>1, <1>3 DEF Visit

LEMMA LeavesVisit ==
  ASSUME SecretInv, NEW v \in Visitors, Leave(v)
  PROVE  VisitsTo(v) /\ VisitInOrder(visit[v])' /\ visit'[v] = NoVisit /\ \A l \in Links : v \notin Resetting(l)'
<1>1. visit \in [Visitors -> Visit]
  BY DEF SecretInv, AccountsTyped
<1>2. VisitsTo(v) /\ visit'[v] = NoVisit
  BY <1>1, NoVisitFits DEF Leave, VisitsTo
<1>3. VisitInOrder(visit[v])' /\ \A l \in Links : v \notin Resetting(l)'
  BY <1>2, NoVisitFits DEF VisitInOrder, Resetting, On
<1>4. QED
  BY <1>2, <1>3

LEMMA StartVisitStep ==
  ASSUME SecretInv, NEW v \in Visitors, StartVisit(v)
  PROVE  SecretInv'
<1>1. ASSUME NEW q \in Visit, Come(v, q), q.pc \notin {"mail code", "mail link", "set password"}, q.who \in Addresses,
             q.pc = "reset" => q.link \in Links, UNCHANGED <<account, link, inMail, secret, uses>>
      PROVE  SecretInv'
  <2>1. VisitsTo(v) /\ visit'[v] = q
    BY <1>1 DEF Come, VisitsTo, SecretInv, AccountsTyped
  <2>2. VisitInOrder(visit[v])' /\ \A l \in Links : v \notin Resetting(l)'
    BY <1>1, <2>1 DEF VisitInOrder, Resetting, On
  <2>3. QED
    BY <1>1, <2>1, <2>2, OnlyVisit
<1>2. ASSUME NEW a \in Addresses, NEW pc \in {"register", "resend", "request"},
             Come(v, [NoVisit EXCEPT !.pc = pc, !.who = a]), UNCHANGED <<account, link, inMail, secret, uses>>
      PROVE  SecretInv'
  <2> DEFINE q == [NoVisit EXCEPT !.pc = pc, !.who = a]
  <2>1. q \in Visit /\ q.pc = pc /\ q.who = a
    BY NoVisitFits DEF Visit, VisitLabels
  <2>2. Come(v, q)
    BY <1>2
  <2> HIDE DEF q
  <2>3. QED
    BY <1>1, <1>2, <2>1, <2>2
<1>3. ASSUME NEW a \in Addresses, StartRegister(v, a) \/ StartResend(v, a) \/ StartRequestReset(v, a) PROVE SecretInv'
  BY <1>2, <1>3 DEF StartRegister, StartResend, StartRequestReset
<1>4. ASSUME NEW a \in Addresses, NEW code \in 0..MaxSecrets, StartVerify(v, a, code) PROVE SecretInv'
  <2> DEFINE q == [NoVisit EXCEPT !.pc = "verify", !.who = a, !.code = code]
  <2>1. q \in Visit /\ q.pc = "verify" /\ q.who = a
    <3>1. code \in Nat
      BY AccountsAssumption
    <3>2. QED
      BY <3>1, NoVisitFits DEF Visit, VisitLabels
  <2>2. Come(v, q) /\ UNCHANGED <<account, link, inMail, secret, uses>>
    BY <1>4 DEF StartVerify
  <2> HIDE DEF q
  <2>3. QED
    BY <1>1, <2>1, <2>2
<1>5. ASSUME NEW a \in Addresses, NEW l \in Links, StartReset(v, a, l) PROVE SecretInv'
  <2> DEFINE q == [NoVisit EXCEPT !.pc = "reset", !.who = a, !.link = l]
  <2>1. q \in Visit /\ q.pc = "reset" /\ q.who = a /\ q.link = l
    BY NoVisitFits DEF Visit, VisitLabels
  <2>2. Come(v, q) /\ UNCHANGED <<account, link, inMail, secret, uses>>
    BY <1>5 DEF StartReset
  <2> HIDE DEF q
  <2>3. QED
    BY <1>1, <2>1, <2>2
<1>6. ASSUME NEW a \in Addresses, NEW given \in {0, account[a].password}, StartChange(v, a, given) PROVE SecretInv'
  <2> DEFINE q == [NoVisit EXCEPT !.pc = "compare", !.who = a, !.seen = given]
  <2>1. given \in Nat
    BY DEF SecretInv, AccountsTyped, AccountRow
  <2>2. q \in Visit /\ q.pc = "compare" /\ q.who = a
    BY <2>1, NoVisitFits DEF Visit, VisitLabels
  <2>3. Come(v, q) /\ UNCHANGED <<account, link, inMail, secret, uses>>
    BY <1>6 DEF StartChange
  <2> HIDE DEF q
  <2>4. QED
    BY <1>1, <2>2, <2>3
<1>7. QED
  BY <1>3, <1>4, <1>5, <1>6 DEF StartVisit

\* What a request only reads.
LEMMA VisitReads ==
  ASSUME SecretInv, NEW v \in Visitors,
         \/ FindEmail(v) \/ Resend(v) \/ CheckCode(v) \/ FindAccount(v) \/ FindLink(v) \/ ComparePassword(v)
  PROVE  SecretInv'
<1>1. /\ UNCHANGED <<account, link, inMail, secret, uses>>
      /\ VisitInOrder(visit[v]) /\ visit[v] \in Visit /\ visit[v].pc # "idle"
  BY DEF FindEmail, Resend, CheckCode, FindAccount, FindLink, ComparePassword, On, SecretInv, AccountsTyped
<1>2. CASE Leave(v)
  BY <1>1, <1>2, LeavesVisit, OnlyVisit
<1>3. ASSUME NEW l \in {"create", "issue", "verified", "link", "change", "set password"}, Move(v, l),
             l = "set password" => visit[v].link \in Links /\ link[visit[v].link].state = "open"
      PROVE  SecretInv'
  <2>1. VisitsTo(v) /\ visit'[v].pc = l /\ visit'[v].who = visit[v].who /\ visit'[v].link = visit[v].link
    BY <1>3, Moves DEF VisitLabels
  <2>2. VisitInOrder(visit[v])'
    BY <1>1, <1>3, <2>1 DEF VisitInOrder
  <2>3. \A k \in Links : v \in Resetting(k)' => link[k].state = "open"
    BY <1>3, <2>1 DEF Resetting, On
  <2>4. QED
    BY <1>1, <2>1, <2>2, <2>3, OnlyVisit
<1>4. CASE FindLink(v)
  <2>1. visit[v].link \in Links
    BY <1>1, <1>4 DEF FindLink, On, VisitInOrder
  <2>2. QED
    BY <1>2, <1>3, <1>4, <2>1 DEF FindLink
<1>5. CASE FindEmail(v) \/ Resend(v) \/ CheckCode(v) \/ FindAccount(v) \/ ComparePassword(v)
  BY <1>2, <1>3, <1>5 DEF FindEmail, Resend, CheckCode, FindAccount, ComparePassword
<1>6. QED
  BY <1>4, <1>5

\* A write of an account's row by v, which then goes on to q.
LEMMA AccountWritten ==
  ASSUME SecretInv, NEW v \in Visitors, NEW row \in AccountRow, VisitsTo(v),
         account' = [account EXCEPT ![Who(v)] = row], visit[v].pc # "idle",
         secret' = secret \/ secret' = secret + 1, row.code <= secret',
         \A code \in Nat : Serves(Who(v), code) => row.verified \/ row.code >= code,
         UNCHANGED <<link, inMail, uses>>, VisitInOrder(visit[v])', \A l \in Links : v \notin Resetting(l)'
  PROVE  SecretInv'
<1>1. AccountsTyped /\ Who(v) \in Addresses
  BY DEF SecretInv, VisitInOrder, Who
<1>2. \A m, n, k \in Nat : (n = m \/ n = m + 1) /\ k <= m => n \in Nat /\ k <= n
  OBVIOUS
<1>3. account' \in [Addresses -> AccountRow] /\ secret' \in Nat
  BY <1>1, <1>2 DEF AccountsTyped
<1>4. /\ account'[Who(v)] = row /\ \A a \in Addresses \ {Who(v)} : account'[a] = account[a]
  BY <1>1 DEF AccountsTyped
<1>5. AccountsTyped'
  BY <1>1, <1>3 DEF AccountsTyped, VisitsTo
<1>6. StillServe
  BY <1>1, <1>4 DEF StillServe, Serves
<1>7. ASSUME NEW a \in Addresses PROVE account'[a].code <= secret'
  <2>1. account[a].code \in Nat /\ account[a].code <= secret /\ secret \in Nat
    BY <1>1 DEF SecretInv, AccountsTyped, AccountRow
  <2>2. account[a].code <= secret'
    BY <1>2, <1>3, <2>1
  <2>3. QED
    BY <1>4, <2>2
<1>8. QED
  BY <1>5, <1>6, <1>7, VisitStep

LEMMA AccountWrites ==
  ASSUME SecretInv, NEW v \in Visitors, CreateAccount(v) \/ IssueCode(v) \/ WriteVerified(v) \/ ChangePassword(v)
  PROVE  SecretInv'
<1> DEFINE a == visit[v].who
<1>1. /\ AccountsTyped /\ VisitInOrder(visit[v]) /\ visit[v] \in Visit /\ visit[v].pc # "idle" /\ Who(v) = a
      /\ visit \in [Visitors -> Visit] /\ UNCHANGED <<link, inMail, uses>>
  BY DEF CreateAccount, IssueCode, WriteVerified, ChangePassword, On, SecretInv, AccountsTyped, Who
<1>2. a \in Addresses /\ account[a] \in AccountRow /\ account[a].code <= secret /\ secret \in Nat
  BY <1>1 DEF VisitInOrder, AccountsTyped, SecretInv
<1>3. account[a].code \in Nat /\ secret + 1 \in Nat
  BY <1>2 DEF AccountRow
<1>4. \A m, n \in Nat : m <= n => m <= n + 1
  OBVIOUS
<1>5. CASE CreateAccount(v) /\ Leave(v) /\ UNCHANGED <<account, secret>>
  BY <1>1, <1>5, LeavesVisit, OnlyVisit
<1>6. CASE (CreateAccount(v) \/ ChangePassword(v)) /\ account' = [account EXCEPT ![Who(v)].password = secret + 1]
           /\ secret' = secret + 1 /\ (Leave(v) \/ Move(v, "issue"))
  <2> DEFINE row == [account[a] EXCEPT !.password = secret + 1]
  <2>1. row \in AccountRow /\ row.code = account[a].code /\ row.verified = account[a].verified
    BY <1>2, <1>3 DEF AccountRow
  <2>2. account' = [account EXCEPT ![Who(v)] = row]
    BY <1>1, <1>2, <1>6 DEF AccountsTyped
  <2> HIDE DEF row
  <2>3. VisitsTo(v) /\ VisitInOrder(visit[v])' /\ \A l \in Links : v \notin Resetting(l)'
    <3>1. CASE Leave(v)
      BY <3>1, LeavesVisit
    <3>2. CASE Move(v, "issue")
      <4>1. VisitsTo(v) /\ visit'[v].pc = "issue" /\ visit'[v].who = a
        BY <1>1, <3>2, Moves DEF VisitLabels
      <4>2. QED
        BY <1>2, <4>1 DEF VisitInOrder, Resetting, On
    <3>3. QED
      BY <1>6, <3>1, <3>2
  <2>4. row.code <= secret'
    BY <1>2, <1>3, <1>4, <1>6, <2>1
  <2>5. \A code \in Nat : Serves(Who(v), code) => row.verified \/ row.code >= code
    BY <1>1, <2>1 DEF Serves
  <2>6. QED
    BY <1>1, <1>6, <2>1, <2>2, <2>3, <2>4, <2>5, AccountWritten
<1>7. CASE IssueCode(v)
  <2> DEFINE row == [account[a] EXCEPT !.code = secret + 1, !.stale = FALSE]
  <2> DEFINE q == [visit[v] EXCEPT !.pc = "mail code", !.code = secret + 1]
  <2>1. row \in AccountRow /\ row.code = secret + 1 /\ row.verified = account[a].verified
    BY <1>2, <1>3 DEF AccountRow
  <2>2. q \in Visit /\ q.pc = "mail code" /\ q.code = secret + 1 /\ q.who = a
    BY <1>1, <1>3 DEF Visit, VisitLabels
  <2>3. account' = [account EXCEPT ![Who(v)] = row] /\ visit' = [visit EXCEPT ![v] = q] /\ secret' = secret + 1
    BY <1>1, <1>2, <1>7 DEF IssueCode, Fresh, AccountsTyped
  <2> HIDE DEF row, q
  <2>4. VisitsTo(v) /\ visit'[v] = q
    BY <1>1, <2>2, <2>3 DEF VisitsTo
  <2>5. account'[a] = row
    BY <1>1, <1>2, <2>3 DEF AccountsTyped
  <2>6. account'[a].code >= q.code
    <3>1. \A m \in Nat : m >= m
      OBVIOUS
    <3>2. account'[a].code = q.code /\ q.code \in Nat
      BY <1>3, <2>1, <2>2, <2>5
    <3>3. QED
      BY <3>1, <3>2
  <2>7. VisitInOrder(visit[v])' /\ \A l \in Links : v \notin Resetting(l)'
    BY <1>2, <2>2, <2>3, <2>4, <2>6 DEF VisitInOrder, Resetting, On, Serves
  <2>8. row.code <= secret'
    BY <1>3, <2>1, <2>3
  <2>9. \A code \in Nat : Serves(Who(v), code) => row.verified \/ row.code >= code
    BY <1>1, <1>2, <1>3, <2>1 DEF Serves
  <2>10. QED
    BY <1>1, <2>1, <2>3, <2>4, <2>7, <2>8, <2>9, AccountWritten
<1>8. CASE WriteVerified(v)
  <2> DEFINE row == [account[a] EXCEPT !.verified = TRUE, !.code = 0, !.stale = FALSE]
  <2>1. row \in AccountRow /\ row.code = 0 /\ row.verified
    BY <1>2 DEF AccountRow
  <2>2. account' = [account EXCEPT ![Who(v)] = row] /\ secret' = secret /\ Leave(v)
    BY <1>1, <1>2, <1>8 DEF WriteVerified, AccountsTyped
  <2> HIDE DEF row
  <2>3. VisitsTo(v) /\ VisitInOrder(visit[v])' /\ \A l \in Links : v \notin Resetting(l)'
    BY <2>2, LeavesVisit
  <2>4. row.code <= secret'
    BY <1>2, <2>1, <2>2
  <2>5. QED
    BY <1>1, <2>1, <2>2, <2>3, <2>4, AccountWritten
<1>9. QED
  BY <1>5, <1>6, <1>7, <1>8 DEF CreateAccount, ChangePassword, Fresh

\* What is mailed.
LEMMA MailWrites ==
  ASSUME SecretInv, NEW v \in Visitors, MailCode(v) \/ MailLink(v)
  PROVE  SecretInv'
<1>1. /\ AccountsTyped /\ VisitInOrder(visit[v]) /\ visit[v] \in Visit /\ Leave(v)
      /\ UNCHANGED <<account, link, secret, uses>> /\ visit[v].pc \in {"mail code", "mail link"}
  BY DEF MailCode, MailLink, On, SecretInv, AccountsTyped
<1>2. visit[v].who \in Addresses /\ visit[v].code \in Nat
  BY <1>1 DEF VisitInOrder, Visit
<1>3. VisitsTo(v) /\ VisitInOrder(visit[v])' /\ \A l \in Links : v \notin Resetting(l)'
  BY <1>1, LeavesVisit
<1>4. StillServe
  BY <1>1 DEF StillServe, Serves
<1>5. \A a \in Addresses : account'[a].code <= secret'
  BY <1>1 DEF SecretInv
<1>6. ASSUME NEW m, inMail' = inMail \cup {m}, m \in Addresses \X (Nat \cup Links), m[2] \in Nat => Serves(m[1], m[2])
      PROVE  SecretInv'
  <2>1. AccountsTyped'
    BY <1>1, <1>3, <1>6 DEF AccountsTyped, VisitsTo
  <2>2. m[2] \in Nat => Serves(m[1], m[2])'
    BY <1>4, <1>6 DEF StillServe
  <2>3. QED
    BY <1>1, <1>3, <1>4, <1>5, <1>6, <2>1, <2>2, VisitStep
<1>7. CASE inMail' = inMail
  BY <1>1, <1>3, <1>7, OnlyVisit
<1>8. CASE MailCode(v) /\ inMail' # inMail
  <2>1. inMail' = inMail \cup {<<visit[v].who, visit[v].code>>} /\ visit[v].pc = "mail code"
    BY <1>8 DEF MailCode, Who, On
  <2>2. Serves(visit[v].who, visit[v].code)
    BY <1>1, <2>1 DEF VisitInOrder
  <2>3. QED
    BY <1>2, <1>6, <2>1, <2>2
<1>9. CASE MailLink(v) /\ inMail' # inMail
  <2>1. inMail' = inMail \cup {<<visit[v].who, visit[v].link>>} /\ visit[v].pc = "mail link"
    BY <1>9 DEF MailLink, Who, On
  <2>2. visit[v].link \in Links /\ visit[v].link \notin Nat
    BY <1>1, <2>1, AccountsAssumption DEF VisitInOrder
  <2>3. QED
    BY <1>2, <1>6, <2>1, <2>2
<1>10. QED
  BY <1>7, <1>8, <1>9

LEMMA CreateLinkStep ==
  ASSUME SecretInv, NEW v \in Visitors, NEW l \in Links, CreateLink(v, l)
  PROVE  SecretInv'
<1> DEFINE row == [state |-> "open", of |-> visit[v].who, expired |-> FALSE]
<1> DEFINE q == [visit[v] EXCEPT !.pc = "mail link", !.link = l]
<1>1. /\ AccountsTyped /\ VisitInOrder(visit[v]) /\ visit[v] \in Visit /\ visit \in [Visitors -> Visit]
      /\ visit[v].pc = "link" /\ link[l].state = "unused" /\ link \in [Links -> LinkRow]
      /\ UNCHANGED <<account, inMail, secret, uses>>
  BY DEF CreateLink, On, SecretInv, AccountsTyped
<1>2. visit[v].who \in Addresses
  BY <1>1 DEF VisitInOrder
<1>3. row \in LinkRow
  BY <1>2 DEF LinkRow
<1>4. q \in Visit /\ q.pc = "mail link" /\ q.who = visit[v].who /\ q.link = l
  BY <1>1 DEF Visit, VisitLabels
<1>5. link' = [link EXCEPT ![l] = row] /\ visit' = [visit EXCEPT ![v] = q]
  BY <1>1 DEF CreateLink, Who
<1> HIDE DEF row, q
<1>6. VisitsTo(v) /\ visit'[v] = q
  BY <1>1, <1>4, <1>5 DEF VisitsTo
<1>7. AccountsTyped'
  BY <1>1, <1>3, <1>5, <1>6 DEF AccountsTyped, VisitsTo
<1>8. StillServe /\ \A a \in Addresses : account'[a].code <= secret'
  BY <1>1 DEF StillServe, Serves, SecretInv
<1>9. VisitInOrder(visit[v])' /\ \A k \in Links : v \notin Resetting(k)'
  BY <1>2, <1>4, <1>6 DEF VisitInOrder, Resetting, On
<1>10. \A k \in Links : link'[k].state # "used" => link[k].state # "used"
  BY <1>1, <1>5
<1>11. QED
  BY <1>1, <1>6, <1>7, <1>8, <1>9, <1>10, VisitStep

\* The password of a link is set, and the link marked.
LEMMA SetPasswordStep ==
  ASSUME SecretInv, NEW v \in Visitors, SetPassword(v)
  PROVE  SecretInv'
<1> DEFINE a == visit[v].who
<1> DEFINE l == visit[v].link
<1>1. /\ AccountsTyped /\ VisitInOrder(visit[v]) /\ visit[v] \in Visit /\ visit \in [Visitors -> Visit]
      /\ visit[v].pc = "set password" /\ Leave(v) /\ secret' = secret + 1
      /\ account' = [account EXCEPT ![a].password = secret + 1]
      /\ link' = [link EXCEPT ![l].state = "used"] /\ uses' = [uses EXCEPT ![l] = @ + 1] /\ inMail' = inMail
  BY DEF SetPassword, On, Who, Fresh, SecretInv, AccountsTyped
<1>2. a \in Addresses /\ l \in Links /\ account[a] \in AccountRow /\ link[l] \in LinkRow /\ secret \in Nat
  BY <1>1 DEF VisitInOrder, AccountsTyped
<1>3. [account[a] EXCEPT !.password = secret + 1] \in AccountRow /\ [link[l] EXCEPT !.state = "used"] \in LinkRow
  BY <1>2 DEF AccountRow, LinkRow
<1>4. VisitsTo(v) /\ VisitInOrder(visit[v])' /\ visit'[v] = NoVisit
  BY <1>1, LeavesVisit
<1>5. /\ account' \in [Addresses -> AccountRow]
      /\ \A b \in Addresses : account'[b].code = account[b].code /\ account'[b].verified = account[b].verified
  BY <1>1, <1>2, <1>3 DEF AccountsTyped, AccountRow
<1>6. /\ link' \in [Links -> LinkRow] /\ link'[l].state = "used"
      /\ \A k \in Links \ {l} : link'[k] = link[k]
  BY <1>1, <1>2, <1>3 DEF AccountsTyped, LinkRow
<1>7. /\ uses' \in [Links -> Nat] /\ uses'[l] = uses[l] + 1 /\ uses[l] \in Nat
      /\ \A k \in Links \ {l} : uses'[k] = uses[k]
  <2>1. uses \in [Links -> Nat] /\ uses' = [uses EXCEPT ![l] = @ + 1]
    BY <1>1 DEF AccountsTyped
  <2>2. QED
    BY <1>2, <2>1
<1>8. AccountsTyped'
  <2>1. secret' \in Nat
    <3>1. \A n \in Nat : n + 1 \in Nat
      OBVIOUS
    <3>2. QED
      BY <1>1, <1>2, <3>1
  <2>2. QED
    BY <1>1, <1>4, <1>5, <1>6, <1>7, <2>1 DEF AccountsTyped, VisitsTo
<1>9. StillServe
  BY <1>5 DEF StillServe, Serves
<1>10. \A x \in Visitors : VisitInOrder(visit[x])'
  BY <1>4, <1>9, OthersVisit
<1>11. ASSUME NEW b \in Addresses PROVE account'[b].code <= secret'
  <2>1. account[b].code \in Nat /\ account[b].code <= secret
    BY <1>1 DEF SecretInv, AccountsTyped, AccountRow
  <2>2. \A m, n \in Nat : m <= n => m <= n + 1
    OBVIOUS
  <2>3. secret' = secret + 1 /\ secret \in Nat /\ account'[b].code = account[b].code
    BY <1>1, <1>2, <1>5
  <2>4. QED
    BY <2>1, <2>2, <2>3
<1>12. \A m \in inMail' : m[2] \in Nat => Serves(m[1], m[2])'
  <2> SUFFICES ASSUME NEW m \in inMail, m[2] \in Nat PROVE Serves(m[1], m[2])'
    BY <1>1
  <2>1. AccountsTyped /\ \A n \in inMail : n[2] \in Nat => Serves(n[1], n[2])
    BY DEF SecretInv
  <2>2. m[1] \in Addresses /\ Serves(m[1], m[2])
    BY <2>1 DEF AccountsTyped
  <2>3. QED
    BY <1>9, <2>2 DEF StillServe
<1>13. \A k \in Links : link'[k].state # "used" => uses'[k] = 0
  BY <1>6, <1>7 DEF SecretInv
<1>14. ASSUME NEW k \in Links PROVE uses'[k] + Cardinality(Resetting(k)') <= Cardinality(Visitors)
  <2>1. /\ Resetting(k) \in SUBSET Visitors
        /\ k = l => v \in Resetting(k) /\ Resetting(k)' = Resetting(k) \ {v}
        /\ k # l => Resetting(k)' = Resetting(k)
    BY <1>1, <1>4, NoVisitFits DEF Resetting, On, VisitsTo
  <2>2. IsFiniteSet(Resetting(k)) /\ Cardinality(Resetting(k)) \in Nat /\ Cardinality(Visitors) \in Nat
    BY <2>1, SomeVisitors
  <2>3. uses[k] + Cardinality(Resetting(k)) <= Cardinality(Visitors) /\ uses[k] \in Nat
    BY <1>1 DEF SecretInv, LinkServesOnce, AccountsTyped
  <2>4. CASE k = l
    <3>1. Cardinality(Resetting(k) \ {v}) = Cardinality(Resetting(k)) - 1
      BY <2>1, <2>2, <2>4, FS_RemoveElement
    <3>2. Cardinality(Resetting(k)') = Cardinality(Resetting(k)) - 1
      BY <2>1, <2>4, <3>1
    <3>3. QED
      BY <1>7, <2>2, <2>3, <2>4, <3>2
  <2>5. CASE k # l
    BY <1>7, <2>1, <2>3, <2>5
  <2>6. QED
    BY <2>4, <2>5
<1>15. QED
  BY <1>8, <1>10, <1>11, <1>12, <1>13, <1>14 DEF SecretInv, LinkServesOnce

\* Time passes, sessions begin and end, the process restarts: nobody reads or writes codes.
LEMMA PassingStep ==
  ASSUME SecretInv,
         \/ \E a \in Addresses : CodeExpires(a) \/ MinutePasses(a) \/ Login(a) \/ Logout(a)
         \/ \E l \in Links : LinkExpires(l)
         \/ Restart \/ UNCHANGED accountVars
  PROVE  SecretInv'
<1>1. /\ UNCHANGED <<inMail, secret, uses>> /\ AccountsTyped
      /\ account \in [Addresses -> AccountRow] /\ link \in [Links -> LinkRow]
  BY DEF CodeExpires, MinutePasses, Login, Logout, LinkExpires, Restart, accountVars, SecretInv, AccountsTyped
<1>2. /\ account' \in [Addresses -> AccountRow]
      /\ \A a \in Addresses : account'[a].code = account[a].code /\ account'[a].verified = account[a].verified
  <2>1. ASSUME NEW b \in Addresses, CodeExpires(b)
        PROVE  /\ account' \in [Addresses -> AccountRow]
               /\ \A a \in Addresses : /\ account'[a].code = account[a].code
                                       /\ account'[a].verified = account[a].verified
    <3>1. account' = [account EXCEPT ![b] = [account[b] EXCEPT !.stale = TRUE]]
      BY <1>1, <2>1 DEF CodeExpires
    <3>2. [account[b] EXCEPT !.stale = TRUE] \in AccountRow
      BY <1>1 DEF AccountRow
    <3>3. QED
      BY <1>1, <3>1, <3>2 DEF AccountRow
  <2>2. CASE account' = account
    BY <1>1, <2>2
  <2>3. QED
    BY <2>1, <2>2 DEF MinutePasses, Login, Logout, LinkExpires, Restart, accountVars
<1>3. link' \in [Links -> LinkRow] /\ \A l \in Links : link'[l].state = link[l].state
  <2>1. ASSUME NEW k \in Links, LinkExpires(k)
        PROVE  link' \in [Links -> LinkRow] /\ \A l \in Links : link'[l].state = link[l].state
    <3>1. link' = [link EXCEPT ![k] = [link[k] EXCEPT !.expired = TRUE]]
      BY <1>1, <2>1 DEF LinkExpires
    <3>2. [link[k] EXCEPT !.expired = TRUE] \in LinkRow
      BY <1>1 DEF LinkRow
    <3>3. QED
      BY <1>1, <3>1, <3>2 DEF LinkRow
  <2>2. CASE link' = link
    BY <1>1, <2>2
  <2>3. QED
    BY <2>1, <2>2 DEF CodeExpires, MinutePasses, Login, Logout, Restart, accountVars
<1>4. visit' \in [Visitors -> Visit] /\ \A v \in Visitors : visit'[v] = visit[v] \/ visit'[v] = NoVisit
  <2>1. CASE visit' = visit
    BY <1>1, <2>1 DEF AccountsTyped
  <2>2. CASE Restart
    BY <2>2, NoVisitFits DEF Restart
  <2>3. QED
    BY <2>1, <2>2 DEF CodeExpires, MinutePasses, Login, Logout, LinkExpires, accountVars
<1>5. AccountsTyped'
  BY <1>1, <1>2, <1>3, <1>4 DEF AccountsTyped
<1>6. StillServe
  BY <1>2 DEF StillServe, Serves
<1>7. ASSUME NEW v \in Visitors PROVE VisitInOrder(visit[v])'
  <2>1. VisitInOrder(visit[v]) /\ visit[v] \in Visit
    BY <1>1 DEF SecretInv, AccountsTyped
  <2>2. CASE visit'[v] = NoVisit
    BY <2>2, NoVisitFits DEF VisitInOrder
  <2>3. CASE visit'[v] = visit[v]
    <3>1. visit[v].code \in Nat /\ (visit[v].pc = "mail code" => visit[v].who \in Addresses)
      BY <2>1 DEF VisitInOrder, Visit
    <3>2. QED
      BY <1>2, <2>1, <2>3, <3>1 DEF VisitInOrder, Serves
  <2>4. QED
    BY <1>4, <2>2, <2>3
<1>8. (\A a \in Addresses : account[a].code <= secret)' /\ (\A l \in Links : link[l].state # "used" => uses[l] = 0)'
  BY <1>1, <1>2, <1>3 DEF SecretInv
<1>9. \A m \in inMail' : m[2] \in Nat => Serves(m[1], m[2])'
  <2> SUFFICES ASSUME NEW m \in inMail, m[2] \in Nat PROVE Serves(m[1], m[2])'
    BY <1>1
  <2>1. m[1] \in Addresses /\ Serves(m[1], m[2])
    BY DEF SecretInv, AccountsTyped
  <2>2. QED
    BY <1>6, <2>1 DEF StillServe
<1>10. ASSUME NEW l \in Links PROVE uses'[l] + Cardinality(Resetting(l)') <= Cardinality(Visitors)
  <2>1. Resetting(l)' \subseteq Resetting(l) /\ Resetting(l) \in SUBSET Visitors /\ Resetting(l)' \in SUBSET Visitors
    BY <1>4, NoVisitFits DEF Resetting, On
  <2>2. IsFiniteSet(Resetting(l)) /\ Cardinality(Resetting(l)) \in Nat /\ Cardinality(Resetting(l)') \in Nat
        /\ Cardinality(Visitors) \in Nat
    BY <2>1, SomeVisitors
  <2>3. Cardinality(Resetting(l)') <= Cardinality(Resetting(l))
    BY <2>1, <2>2, FS_Subset
  <2>4. uses[l] + Cardinality(Resetting(l)) <= Cardinality(Visitors) /\ uses[l] \in Nat
    BY <1>1 DEF SecretInv, LinkServesOnce, AccountsTyped
  <2>5. QED
    BY <1>1, <2>2, <2>3, <2>4
<1>11. QED
  BY <1>5, <1>7, <1>8, <1>9, <1>10 DEF SecretInv, LinkServesOnce

LEMMA SecretStep ==
  ASSUME SecretInv, [AccountsNext]_accountVars
  PROVE  SecretInv'
<1>1. ASSUME NEW v \in Visitors, HandleVisit(v) PROVE SecretInv'
  BY <1>1, VisitReads, AccountWrites, MailWrites, CreateLinkStep, SetPasswordStep DEF HandleVisit
<1>2. QED
  BY <1>1, StartVisitStep, PassingStep DEF AccountsNext

-----------------------------------------------------------------------------
(* Sessions: for whom a tab acts, and when its session ends.                  *)

SignIns == {"login", "register"}
Sheet == [kind : {"none", "login", "register", "link", "profile"},
          pc : {"idle", "sent", "granted", "refused", "unauthorized"}, as : Nat, who : Persons \cup {NoPerson},
          odd : BOOLEAN]
SideCall == [pc : {"idle", "sent", "unauthorized"}, as : Nat]
Pane == [page : Outside \cup {"closed", "dashboard"}, token : Nat, user : Persons \cup {NoPerson},
         says : {"nothing", "waiting", "done", "error"}]

\* A tab that has seen every sign-in shows the session of the store.
InTouch(t) ==
    ~patched /\ t \notin apart /\ window[t].page # "closed" =>
        window[t].token = store.token /\ window[t].user = store.user

\* The request of a tab's form: it signs in the person of its token, saves for whom the tab shows, and is turned down
\* for want of a session only when its session has ended, or when it came from the page to sign in.
FormTrue(t) ==
    LET f == sheet[t] IN
    /\ f.as \in 0..Len(tokens)
    /\ f.kind \in SignIns => f.who \in Persons
    /\ f.kind \in SignIns /\ f.pc = "granted" => f.as # 0 /\ tokens[f.as] = f.who
    /\ f.kind = "profile" /\ f.as # 0 => tokens[f.as] = f.who \/ f.odd
    /\ f.kind \in SignIns /\ window[t].page \notin SignIns => wandered
    /\ f.pc = "unauthorized" => f.kind = "login" \/ (f.kind = "profile" /\ ~Accepted(f.as))

CallTrue(t) == sideCall[t].pc = "unauthorized" => ~Accepted(sideCall[t].as)

\* Unless the session of the browser began while others were on their way, every request is made in it.
OfSession(t) ==
    ~burdened /\ store.token # 0 =>
        /\ sideCall[t].pc # "idle" => sideCall[t].as = store.token
        /\ sheet[t].kind = "profile" => sheet[t].as = store.token

PanesTyped ==
    /\ window \in [Tabs -> Pane]
    /\ \A t \in Tabs : /\ window[t].page = "closed" \/ window[t].token = 0 => window[t].user = NoPerson
                       /\ window[t].page = "closed" => window[t].says = "nothing"
StoreTyped ==
    /\ tokens \in Seq(Persons) /\ store \in [token : Nat, user : Persons \cup {NoPerson}]
    /\ store.token \in 0..Len(tokens)
    /\ patched \in BOOLEAN /\ (store.token = 0 => store.user = NoPerson \/ patched)

SessionInv ==
    /\ PanesTyped /\ StoreTyped /\ sheet \in [Tabs -> Sheet] /\ sideCall \in [Tabs -> SideCall]
    /\ StoreAgrees /\ SessionStands
    /\ \A t \in Tabs : InTouch(t) /\ FormTrue(t) /\ CallTrue(t) /\ OfSession(t)

LEMMA Blanks ==
  /\ NoForm \in Sheet /\ NoForm.kind = "none" /\ NoForm.pc = "idle" /\ NoForm.as = 0
  /\ NoAsk \in SideCall /\ NoAsk.pc = "idle"
  /\ NoSession \in [token : Nat, user : Persons \cup {NoPerson}] /\ NoSession.token = 0 /\ NoSession.user = NoPerson
  /\ \A page \in Outside \cup {"closed", "dashboard"} :
        /\ AtPage(page) \in Pane /\ AtPage(page).page = page /\ AtPage(page).token = 0 /\ AtPage(page).user = NoPerson
        /\ AtPage(page).says = "nothing"
BY DEF NoForm, Sheet, NoAsk, SideCall, NoSession, AtPage, Pane

LEMMA SessionInvInit == SessionsInit => SessionInv
<1> SUFFICES ASSUME SessionsInit PROVE SessionInv
  OBVIOUS
<1>1. tokens = <<>> /\ Len(tokens) = 0 /\ tokens \in Seq(Persons)
  BY DEF SessionsInit
<1>2. PanesTyped /\ sheet \in [Tabs -> Sheet] /\ sideCall \in [Tabs -> SideCall]
  BY Blanks DEF SessionsInit, PanesTyped
<1>3. StoreTyped /\ StoreAgrees /\ SessionStands
  <2>1. store = NoSession /\ patched = FALSE /\ ousted = FALSE
    BY DEF SessionsInit
  <2>2. patched \in BOOLEAN
    BY <2>1
  <2>3. StoreTyped
    BY <1>1, <2>1, <2>2, Blanks DEF StoreTyped
  <2>4. StoreAgrees /\ SessionStands
    BY <2>1, Blanks DEF StoreAgrees, SessionStands
  <2>5. QED
    BY <2>3, <2>4
<1>4. ASSUME NEW t \in Tabs PROVE InTouch(t) /\ FormTrue(t) /\ CallTrue(t) /\ OfSession(t)
  BY <1>1, Blanks DEF SessionsInit, InTouch, FormTrue, CallTrue, OfSession, SignIns
<1>5. QED
  BY <1>2, <1>3, <1>4 DEF SessionInv

\* Tokens are issued and ended, and never change hands.
Issues ==
    /\ tokens' \in Seq(Persons) /\ Len(tokens) <= Len(tokens')
    /\ \A n \in 1..Len(tokens) : tokens'[n] = tokens[n]
    /\ ended \subseteq ended' /\ (wandered => wandered')
\* The other tabs stay as they are.
OnlyTab(t) ==
    /\ window' \in [Tabs -> Pane] /\ sheet' \in [Tabs -> Sheet] /\ sideCall' \in [Tabs -> SideCall]
    /\ window'[t].page = "closed" \/ window'[t].token = 0 => window'[t].user = NoPerson
    /\ window'[t].page = "closed" => window'[t].says = "nothing"
    /\ \A x \in Tabs \ {t} : window'[x] = window[x] /\ sheet'[x] = sheet[x] /\ sideCall'[x] = sideCall[x]

LEMMA Reissued ==
  ASSUME SessionInv, Issues
  PROVE  \A n \in Nat : n \in 0..Len(tokens) =>
            n \in 0..Len(tokens') /\ (n # 0 => tokens'[n] = tokens[n]) /\ (Accepted(n)' => Accepted(n))
<1> SUFFICES ASSUME NEW n \in Nat, n \in 0..Len(tokens)
             PROVE  n \in 0..Len(tokens') /\ (n # 0 => tokens'[n] = tokens[n]) /\ (Accepted(n)' => Accepted(n))
  OBVIOUS
<1>1. Len(tokens) \in Nat /\ Len(tokens') \in Nat
  BY DEF SessionInv, StoreTyped, Issues
<1>2. QED
  BY <1>1 DEF Issues, Accepted

LEMMA OthersTrue ==
  ASSUME SessionInv, NEW t \in Tabs, Issues, OnlyTab(t)
  PROVE  /\ PanesTyped' /\ \A x \in Tabs \ {t} : FormTrue(x)' /\ CallTrue(x)'
<1>1. PanesTyped'
  BY DEF SessionInv, PanesTyped, OnlyTab
<1>2. ASSUME NEW x \in Tabs \ {t} PROVE FormTrue(x)' /\ CallTrue(x)'
  <2>1. window'[x] = window[x] /\ sheet'[x] = sheet[x] /\ sideCall'[x] = sideCall[x] /\ FormTrue(x) /\ CallTrue(x)
    BY DEF OnlyTab, SessionInv
  <2>2. sheet[x].as \in 0..Len(tokens) /\ sheet[x].as \in Nat
    BY <2>1 DEF FormTrue
  <2>3. /\ sheet[x].as \in 0..Len(tokens') /\ (sheet[x].as # 0 => tokens'[sheet[x].as] = tokens[sheet[x].as])
        /\ (sheet[x].as \notin ended' => sheet[x].as \notin ended) /\ (wandered => wandered')
    BY <2>2, Reissued DEF Issues
  <2>4. FormTrue(x)'
    BY <2>1, <2>2, <2>3 DEF FormTrue, Accepted
  <2>5. CallTrue(x)'
    BY <2>1 DEF CallTrue, Accepted, Issues
  <2>6. QED
    BY <2>4, <2>5
<1>3. QED
  BY <1>1, <1>2

\* What leaves the store alone.
LEMMA QuietStep ==
  ASSUME SessionInv, NEW t \in Tabs, Issues, OnlyTab(t), UNCHANGED <<store, patched, burdened, ousted>>,
         apart' = apart \/ apart' = apart \ {t},
         InTouch(t)', FormTrue(t)', CallTrue(t)', OfSession(t)'
  PROVE  SessionInv'
<1>1. UNCHANGED <<store, patched, burdened, ousted>> /\ (wandered => wandered')
  BY DEF Issues
<1>2. PanesTyped' /\ \A x \in Tabs : FormTrue(x)' /\ CallTrue(x)'
  BY OthersTrue
<1>3. ASSUME NEW x \in Tabs PROVE InTouch(x)' /\ OfSession(x)'
  <2>1. InTouch(x) /\ OfSession(x)
    BY DEF SessionInv
  <2>2. CASE x = t
    BY <2>2
  <2>3. CASE x # t
    <3>1. window'[x] = window[x] /\ sheet'[x] = sheet[x] /\ sideCall'[x] = sideCall[x]
      BY <2>3 DEF OnlyTab
    <3>2. x \in apart' <=> x \in apart
      BY <2>3
    <3>3. QED
      BY <1>1, <2>1, <3>1, <3>2 DEF InTouch, OfSession
  <2>4. QED
    BY <2>2, <2>3
<1>4. /\ store.token \in 0..Len(tokens) /\ store.token \in Nat
      /\ store.token \in 0..Len(tokens') /\ (store.token # 0 => tokens'[store.token] = tokens[store.token])
  BY Reissued DEF SessionInv, StoreTyped
<1>5. StoreTyped' /\ StoreAgrees' /\ SessionStands'
  BY <1>1, <1>4 DEF SessionInv, StoreTyped, StoreAgrees, SessionStands, Issues
<1>6. QED
  BY <1>2, <1>3, <1>5 DEF SessionInv, OnlyTab

\* The history of requests that were on their way, and the session that began meanwhile.
LEMMA PaneKept ==
  ASSUME SessionInv, NEW t \in Tabs, NEW page \in Outside \cup {"closed", "dashboard"},
         NEW says \in {"nothing", "waiting", "done", "error"},
         window' = [window EXCEPT ![t].page = page, ![t].says = says]
  PROVE  /\ window' \in [Tabs -> Pane] /\ \A x \in Tabs \ {t} : window'[x] = window[x]
         /\ window'[t].page = page /\ window'[t].token = window[t].token /\ window'[t].user = window[t].user
<1>1. window \in [Tabs -> Pane] /\ window[t] \in Pane
  BY DEF SessionInv, PanesTyped
<1>2. window' = [window EXCEPT ![t] = [window[t] EXCEPT !.page = page, !.says = says]]
  BY <1>1
<1>3. [window[t] EXCEPT !.page = page, !.says = says] \in Pane
  BY <1>1 DEF Pane
<1>4. QED
  BY <1>1, <1>2, <1>3 DEF Pane

LEMMA SaysKept ==
  ASSUME SessionInv, NEW t \in Tabs, NEW says \in {"nothing", "waiting", "done", "error"},
         window' = [window EXCEPT ![t].says = says]
  PROVE  /\ window' \in [Tabs -> Pane] /\ \A x \in Tabs \ {t} : window'[x] = window[x]
         /\ window'[t].page = window[t].page /\ window'[t].token = window[t].token
         /\ window'[t].user = window[t].user
<1>1. window \in [Tabs -> Pane] /\ window[t] \in Pane
  BY DEF SessionInv, PanesTyped
<1>2. window' = [window EXCEPT ![t] = [window[t] EXCEPT !.says = says]]
  BY <1>1
<1>3. [window[t] EXCEPT !.says = says] \in Pane
  BY <1>1 DEF Pane
<1>4. QED
  BY <1>1, <1>2, <1>3 DEF Pane

\* What is known where an action begins.
LEMMA Standing ==
  ASSUME SessionInv, NEW t \in Tabs
  PROVE  /\ window \in [Tabs -> Pane] /\ sheet \in [Tabs -> Sheet] /\ sideCall \in [Tabs -> SideCall]
         /\ window[t] \in Pane /\ sheet[t] \in Sheet /\ sideCall[t] \in SideCall
         /\ (window[t].page = "closed" \/ window[t].token = 0 => window[t].user = NoPerson)
         /\ (window[t].page = "closed" => window[t].says = "nothing")
         /\ InTouch(t) /\ FormTrue(t) /\ CallTrue(t) /\ OfSession(t)
         /\ tokens \in Seq(Persons) /\ Len(tokens) \in Nat /\ store \in [token : Nat, user : Persons \cup {NoPerson}]
         /\ store.token \in Nat /\ store.token \in 0..Len(tokens)
<1>1. PanesTyped /\ StoreTyped /\ sheet \in [Tabs -> Sheet] /\ sideCall \in [Tabs -> SideCall]
      /\ InTouch(t) /\ FormTrue(t) /\ CallTrue(t) /\ OfSession(t)
  BY DEF SessionInv
<1>2. /\ window \in [Tabs -> Pane] /\ window[t] \in Pane
      /\ (window[t].page = "closed" \/ window[t].token = 0 => window[t].user = NoPerson)
      /\ (window[t].page = "closed" => window[t].says = "nothing")
  <2>1. /\ window \in [Tabs -> Pane]
        /\ (window[t].page = "closed" \/ window[t].token = 0) => window[t].user = NoPerson
        /\ window[t].page = "closed" => window[t].says = "nothing"
    BY <1>1 DEF PanesTyped
  <2>2. QED
    BY <2>1
<1>3. tokens \in Seq(Persons) /\ Len(tokens) \in Nat /\ store \in [token : Nat, user : Persons \cup {NoPerson}]
      /\ store.token \in Nat /\ store.token \in 0..Len(tokens)
  BY <1>1 DEF StoreTyped
<1>4. sheet[t] \in Sheet /\ sideCall[t] \in SideCall
  BY <1>1
<1>5. QED
  BY <1>1, <1>2, <1>3, <1>4

LEMMA NoIssue ==
  ASSUME SessionInv, UNCHANGED <<tokens, ended>>, wandered => wandered'
  PROVE  Issues
BY DEF Issues, SessionInv, StoreTyped

LEMMA WalkStep ==
  ASSUME SessionInv, NEW t \in Tabs, (\E page \in Outside : FollowLink(t, page)) \/ GoToLogin(t)
  PROVE  SessionInv'
<1>1. PICK page \in Outside : /\ window' = [window EXCEPT ![t].page = page, ![t].says = "nothing"]
                              /\ FollowLink(t, page) \/ (GoToLogin(t) /\ page = "login")
  BY DEF FollowLink, GoToLogin, Outside
<1>2. page # "closed" /\ page \in Outside \cup {"closed", "dashboard"}
  BY DEF Outside
<1>3. /\ UNCHANGED <<tokens, ended, store, sheet, sideCall, apart, patched, burdened, ousted>>
  BY <1>1 DEF FollowLink, GoToLogin, serverSide
<1>12. wandered => wandered'
  BY <1>1 DEF FollowLink, GoToLogin
<1>4. sheet[t].kind \in SignIns /\ page \notin SignIns => wandered'
  BY <1>1 DEF FollowLink, SignIns
<1>5. /\ window' \in [Tabs -> Pane] /\ \A x \in Tabs \ {t} : window'[x] = window[x]
      /\ window'[t].page = page /\ window'[t].token = window[t].token /\ window'[t].user = window[t].user
  BY <1>1, <1>2, PaneKept
<1>6. window[t].page # "closed"
  BY <1>1, Standing DEF FollowLink, GoToLogin, Outside
<1>7. Issues
  BY <1>3, <1>12, NoIssue
<1>8. OnlyTab(t)
  BY <1>2, <1>3, <1>5, <1>6, Standing DEF OnlyTab
<1>9. InTouch(t)' /\ FormTrue(t)'
  BY <1>3, <1>4, <1>12, <1>5, <1>6, Standing DEF InTouch, FormTrue, Accepted
<1>10. CallTrue(t)' /\ OfSession(t)'
  BY <1>3, Standing DEF CallTrue, OfSession, Accepted
<1>11. QED
  BY <1>3, <1>7, <1>8, <1>9, <1>10, QuietStep

LEMMA OpenStep ==
  ASSUME SessionInv, NEW t \in Tabs, NEW page \in Outside \cup {"dashboard"}, OpenPage(t, page)
  PROVE  SessionInv'
<1> DEFINE there == IF page \in Outside THEN page ELSE "login"
           fresh == [AtPage(page) EXCEPT !.token = store.token, !.user = store.user]
<1>1. /\ UNCHANGED <<tokens, ended, store, patched, burdened, wandered, ousted>> /\ apart' = apart \ {t}
      /\ sheet' = [sheet EXCEPT ![t] = NoForm] /\ sideCall' = [sideCall EXCEPT ![t] = NoAsk]
      /\ window' = [window EXCEPT ![t] = IF store.token # 0 THEN fresh ELSE AtPage(there)]
  BY DEF OpenPage, serverSide
<1>2. /\ page \in Outside \cup {"closed", "dashboard"} /\ page # "closed"
      /\ there \in Outside \cup {"closed", "dashboard"} /\ there # "closed"
  BY DEF Outside
<1> HIDE DEF there
<1>3. /\ fresh \in Pane /\ fresh.page = page /\ fresh.token = store.token /\ fresh.user = store.user
      /\ fresh.says = "nothing"
  BY <1>2, Standing DEF AtPage, Pane
<1>4. /\ AtPage(there) \in Pane /\ AtPage(there).page # "closed" /\ AtPage(there).token = 0
      /\ AtPage(there).user = NoPerson
  BY <1>2, Blanks
<1> HIDE DEF fresh
<1>5. /\ window' \in [Tabs -> Pane] /\ \A x \in Tabs \ {t} : window'[x] = window[x]
      /\ window'[t] = IF store.token # 0 THEN fresh ELSE AtPage(there)
  BY <1>1, <1>3, <1>4, Standing
<1>6. /\ sheet' \in [Tabs -> Sheet] /\ sideCall' \in [Tabs -> SideCall] /\ sheet'[t] = NoForm /\ sideCall'[t] = NoAsk
      /\ \A x \in Tabs \ {t} : sheet'[x] = sheet[x] /\ sideCall'[x] = sideCall[x]
  BY <1>1, Blanks, Standing
<1>7. Issues
  BY <1>1, NoIssue
<1>8. OnlyTab(t)
  BY <1>2, <1>3, <1>4, <1>5, <1>6 DEF OnlyTab
<1>9. InTouch(t)'
  <2>1. store.token = 0 => store.user = NoPerson \/ patched
    BY DEF SessionInv, StoreTyped
  <2>2. QED
    BY <1>1, <1>3, <1>4, <1>5, <2>1 DEF InTouch
<1>10. FormTrue(t)' /\ CallTrue(t)' /\ OfSession(t)'
  BY <1>1, <1>6, Blanks, Standing DEF FormTrue, CallTrue, OfSession, SignIns
<1>11. QED
  BY <1>1, <1>7, <1>8, <1>9, <1>10, QuietStep

\* A form is sent: what its request says of the person, and of the session.
LEMMA SubmitStep ==
  ASSUME SessionInv, NEW t \in Tabs, NEW kind \in {"login", "register", "link", "profile"},
         NEW who \in Persons \cup {NoPerson}, NEW tok \in 0..Len(tokens), Submit(t, kind, who, tok),
         window[t].page # "closed", kind \in SignIns => who \in Persons /\ window[t].page \in SignIns,
         kind = "profile" => who = window[t].user /\ tok = store.token
  PROVE  SessionInv'
<1> DEFINE new == [kind |-> kind, pc |-> "sent", as |-> tok, who |-> who, odd |-> t \in apart \/ patched]
<1>1. /\ UNCHANGED <<tokens, ended, store, sideCall, apart, patched, burdened, wandered, ousted>>
      /\ window' = [window EXCEPT ![t].says = "waiting"] /\ sheet' = [sheet EXCEPT ![t] = new]
  BY DEF Submit, serverSide, story
<1>2. tok \in Nat /\ (t \in apart \/ patched) \in BOOLEAN
  <2>1. tok \in Nat
    <3>1. Len(tokens) \in Nat
      BY Standing
    <3>2. \A n \in Nat : \A m \in 0..n : m \in Nat
      OBVIOUS
    <3>3. QED
      BY <3>1, <3>2
  <2>2. CASE t \in apart \/ patched
    BY <2>1, <2>2
  <2>3. CASE ~(t \in apart \/ patched)
    BY <2>1, <2>3
  <2>4. QED
    BY <2>2, <2>3
<1>3. /\ new \in Sheet /\ new.kind = kind /\ new.pc = "sent" /\ new.as = tok /\ new.who = who
      /\ new.odd = (t \in apart \/ patched)
  BY <1>2 DEF Sheet
<1> HIDE DEF new
<1>4. /\ window' \in [Tabs -> Pane] /\ \A x \in Tabs \ {t} : window'[x] = window[x]
      /\ window'[t].page = window[t].page /\ window'[t].token = window[t].token /\ window'[t].user = window[t].user
  BY <1>1, SaysKept
<1>5. sheet' \in [Tabs -> Sheet] /\ sheet'[t] = new /\ \A x \in Tabs \ {t} : sheet'[x] = sheet[x]
  BY <1>1, <1>3, Standing
<1>6. Issues
  BY <1>1, NoIssue
<1>7. OnlyTab(t)
  BY <1>1, <1>4, <1>5, Standing DEF OnlyTab
<1>8. InTouch(t)'
  BY <1>1, <1>4, Standing DEF InTouch
<1>9. kind = "profile" /\ tok # 0 => tokens[tok] = who \/ new.odd
  <2>1. StoreAgrees
    BY DEF SessionInv
  <2>2. QED
    BY <1>3, <2>1, Standing DEF StoreAgrees, InTouch
<1>10. FormTrue(t)'
  BY <1>1, <1>3, <1>4, <1>5, <1>9 DEF FormTrue, SignIns
<1>11. CallTrue(t)' /\ OfSession(t)'
  BY <1>1, <1>3, <1>5, Standing DEF CallTrue, OfSession, Accepted
<1>12. QED
  BY <1>1, <1>6, <1>7, <1>8, <1>10, <1>11, QuietStep

\* An answer in its form's way, and a form that is put away.
LEMMA ReplyStep ==
  ASSUME SessionInv, NEW t \in Tabs, NEW pc \in {"idle", "sent", "granted", "refused", "unauthorized"}, Reply(t, pc),
         UNCHANGED <<tokens, ended, store, window, sideCall, apart, patched, burdened, wandered, ousted>>,
         sheet[t].kind \in SignIns => pc # "granted",
         pc = "unauthorized" => sheet[t].kind = "login" \/ (sheet[t].kind = "profile" /\ ~Accepted(sheet[t].as))
  PROVE  SessionInv'
<1>1. /\ sheet' = [sheet EXCEPT ![t] = [sheet[t] EXCEPT !.pc = pc]] /\ sheet' \in [Tabs -> Sheet]
      /\ \A x \in Tabs \ {t} : sheet'[x] = sheet[x]
      /\ sheet'[t].kind = sheet[t].kind /\ sheet'[t].pc = pc /\ sheet'[t].as = sheet[t].as
      /\ sheet'[t].who = sheet[t].who /\ sheet'[t].odd = sheet[t].odd
  <2>1. [sheet[t] EXCEPT !.pc = pc] \in Sheet
    BY Standing DEF Sheet
  <2>2. sheet' = [sheet EXCEPT ![t] = [sheet[t] EXCEPT !.pc = pc]]
    BY Standing DEF Reply
  <2>3. sheet'[t] = [sheet[t] EXCEPT !.pc = pc] /\ sheet' \in [Tabs -> Sheet]
        /\ \A x \in Tabs \ {t} : sheet'[x] = sheet[x]
    BY <2>1, <2>2, Standing
  <2>4. QED
    BY <2>2, <2>3, Standing DEF Sheet
<1>2. Issues
  BY NoIssue
<1>3. OnlyTab(t)
  BY <1>1, Standing DEF OnlyTab
<1>4. InTouch(t)' /\ CallTrue(t)'
  BY Standing DEF InTouch, CallTrue, Accepted
<1>5. FormTrue(t)'
  BY <1>1, Standing DEF FormTrue, Accepted, SignIns
<1>6. OfSession(t)'
  BY <1>1, Standing DEF OfSession
<1>7. QED
  BY <1>2, <1>3, <1>4, <1>5, <1>6, QuietStep

LEMMA ServeSignInStep ==
  ASSUME SessionInv, NEW t \in Tabs, ServeSignIn(t)
  PROVE  SessionInv'
<1>1. /\ UNCHANGED <<ended, store, window, sideCall, apart, patched, burdened, wandered, ousted>>
      /\ sheet[t].kind \in SignIns /\ sheet[t].pc = "sent"
  BY DEF ServeSignIn, AtServer, SignIns, story
<1>2. CASE (sheet[t].kind = "login") = (sheet[t].who \in enrolled)
  <2> DEFINE n == Len(tokens) + 1
             new == [sheet[t] EXCEPT !.pc = "granted", !.as = n]
  <2>1. tokens' = Append(tokens, sheet[t].who) /\ sheet' = [sheet EXCEPT ![t].pc = "granted", ![t].as = n]
    BY <1>2 DEF ServeSignIn
  <2>2. sheet' = [sheet EXCEPT ![t] = new]
    BY <2>1, Standing
  <2>3. Len(tokens) \in Nat /\ n \in Nat /\ n # 0 /\ n \in 0..n /\ sheet[t].who \in Persons /\ tokens \in Seq(Persons)
    <3>1. Len(tokens) \in Nat /\ sheet[t].who \in Persons /\ tokens \in Seq(Persons)
      BY <1>1, Standing DEF FormTrue
    <3>2. QED
      BY <3>1
  <2>4. /\ tokens' \in Seq(Persons) /\ Len(tokens') = n /\ tokens'[n] = sheet[t].who
        /\ \A m \in 1..Len(tokens) : tokens'[m] = tokens[m]
    BY <2>1, <2>3
  <2>5. Len(tokens) <= Len(tokens')
    BY <2>3, <2>4
  <2> HIDE DEF n
  <2>6. /\ new \in Sheet /\ new.kind = sheet[t].kind /\ new.pc = "granted" /\ new.as = n /\ new.who = sheet[t].who
        /\ new.odd = sheet[t].odd
    BY <2>3, Standing DEF Sheet
  <2> HIDE DEF new
  <2>7. sheet' \in [Tabs -> Sheet] /\ sheet'[t] = new /\ \A x \in Tabs \ {t} : sheet'[x] = sheet[x]
    BY <2>2, <2>6, Standing
  <2>8. Issues
    BY <1>1, <2>4, <2>5 DEF Issues
  <2>9. OnlyTab(t)
    BY <1>1, <2>7, Standing DEF OnlyTab
  <2>10. InTouch(t)' /\ CallTrue(t)'
    BY <1>1, Standing DEF InTouch, CallTrue, Accepted
  <2>11. FormTrue(t)'
    BY <1>1, <2>3, <2>4, <2>6, <2>7, Standing DEF FormTrue, SignIns
  <2>12. OfSession(t)'
    BY <1>1, <2>6, <2>7, Standing DEF OfSession, SignIns
  <2>13. QED
    BY <1>1, <2>8, <2>9, <2>10, <2>11, <2>12, QuietStep
<1>3. CASE ~((sheet[t].kind = "login") = (sheet[t].who \in enrolled))
  <2>1. UNCHANGED tokens /\ (Reply(t, "unauthorized") \/ Reply(t, "refused"))
        /\ (Reply(t, "refused") \/ sheet[t].kind = "login")
    BY <1>3 DEF ServeSignIn
  <2>2. QED
    BY <1>1, <2>1, ReplyStep
<1>4. QED
  BY <1>2, <1>3

LEMMA ServeOtherStep ==
  ASSUME SessionInv, NEW t \in Tabs, ServeLink(t) \/ ServeProfile(t)
  PROVE  SessionInv'
<1>1. CASE ServeLink(t)
  <2>1. UNCHANGED <<tokens, ended, store, window, sideCall, apart, patched, burdened, wandered, ousted>>
    BY <1>1 DEF ServeLink, story
  <2>2. sheet[t].kind \notin SignIns /\ (Reply(t, "granted") \/ Reply(t, "refused"))
    BY <1>1 DEF ServeLink, AtServer, SignIns
  <2>3. QED
    BY <2>1, <2>2, ReplyStep
<1>2. CASE ServeProfile(t)
  <2>1. UNCHANGED <<tokens, ended, store, window, sideCall, apart, patched, burdened, wandered, ousted>>
    BY <1>2 DEF ServeProfile, story, serverSide
  <2>2. sheet[t].kind = "profile" /\ sheet[t].kind \notin SignIns
    BY <1>2 DEF ServeProfile, AtServer, SignIns
  <2>3. Reply(t, "granted") \/ (Reply(t, "unauthorized") /\ ~Accepted(sheet[t].as))
    BY <1>2 DEF ServeProfile
  <2>4. QED
    BY <2>1, <2>2, <2>3, ReplyStep
<1>3. QED
  BY <1>1, <1>2

\* A form is put away, and its page says something.
LEMMA PutAway ==
  ASSUME SessionInv, NEW t \in Tabs, NEW says \in {"nothing", "waiting", "done", "error"},
         window' = [window EXCEPT ![t].says = says], window[t].page = "closed" => says = "nothing",
         sheet' = [sheet EXCEPT ![t] = NoForm],
         UNCHANGED <<tokens, ended, store, sideCall, apart, patched, burdened, wandered, ousted>>
  PROVE  SessionInv'
<1>1. /\ window' \in [Tabs -> Pane] /\ \A x \in Tabs \ {t} : window'[x] = window[x]
      /\ window'[t].page = window[t].page /\ window'[t].token = window[t].token /\ window'[t].user = window[t].user
  BY SaysKept
<1>2. window'[t].says = says
  BY Standing DEF Pane
<1>3. sheet' \in [Tabs -> Sheet] /\ sheet'[t] = NoForm /\ \A x \in Tabs \ {t} : sheet'[x] = sheet[x]
  BY Blanks, Standing
<1>4. Issues
  BY NoIssue
<1>5. OnlyTab(t)
  BY <1>1, <1>2, <1>3, Standing DEF OnlyTab
<1>6. InTouch(t)'
  BY <1>1, Standing DEF InTouch
<1>7. FormTrue(t)' /\ CallTrue(t)' /\ OfSession(t)'
  BY <1>3, Blanks, Standing DEF FormTrue, CallTrue, OfSession, SignIns, Accepted
<1>8. QED
  BY <1>4, <1>5, <1>6, <1>7, QuietStep

LEMMA AwayStep ==
  ASSUME SessionInv, NEW t \in Tabs, LinkDone(t) \/ FormFails(t)
  PROVE  SessionInv'
<1>1. PICK says \in {"done", "error"} :
         window' = [window EXCEPT ![t].says = IF @ = "waiting" THEN says ELSE @]
  BY DEF LinkDone, FormFails
<1>2. /\ UNCHANGED <<tokens, ended, store, sideCall, apart, patched, burdened, wandered, ousted>>
      /\ sheet' = [sheet EXCEPT ![t] = NoForm]
  BY DEF LinkDone, FormFails, serverSide
<1> DEFINE said == IF window[t].says = "waiting" THEN says ELSE window[t].says
<1>3. window' = [window EXCEPT ![t].says = said]
  BY <1>1, Standing
<1>4. said \in {"nothing", "waiting", "done", "error"} /\ (window[t].page = "closed" => said = "nothing")
  BY Standing DEF Pane
<1> HIDE DEF said
<1>5. QED
  BY <1>2, <1>3, <1>4, PutAway

\* What changes the store: the other open tabs do not see it.
LEMMA StoreStep ==
  ASSUME SessionInv, NEW t \in Tabs, UNCHANGED <<tokens, ended, wandered>>, OnlyTab(t), apart' = Unnoticed(t),
         StoreTyped', StoreAgrees', SessionStands', InTouch(t)', FormTrue(t)', CallTrue(t)',
         \A x \in Tabs : OfSession(x)'
  PROVE  SessionInv'
<1>1. Issues
  BY NoIssue
<1>2. PanesTyped' /\ \A x \in Tabs : FormTrue(x)' /\ CallTrue(x)'
  BY <1>1, OthersTrue
<1>3. ASSUME NEW x \in Tabs PROVE InTouch(x)'
  <2>1. CASE x = t
    BY <2>1
  <2>2. CASE x # t
    <3>1. window'[x] = window[x]
      BY <2>2 DEF OnlyTab
    <3>2. window[x].page = "closed" \/ x \in apart'
      BY <2>2 DEF Unnoticed
    <3>3. QED
      BY <3>1, <3>2 DEF InTouch
  <2>3. QED
    BY <2>1, <2>2
<1>4. QED
  BY <1>2, <1>3 DEF SessionInv, OnlyTab

LEMMA SignedUpStep ==
  ASSUME SessionInv, NEW t \in Tabs, SignedUp(t)
  PROVE  SessionInv'
<1> DEFINE f == sheet[t]
           shown == [AtPage("dashboard") EXCEPT !.token = f.as, !.user = f.who]
<1>1. /\ UNCHANGED <<tokens, ended, sideCall, wandered, ousted>> /\ apart' = Unnoticed(t)
      /\ store' = [token |-> f.as, user |-> f.who]
      /\ window' = [window EXCEPT ![t] = shown] /\ sheet' = [sheet EXCEPT ![t] = NoForm]
  BY DEF SignedUp, serverSide
<1>16. patched' = FALSE
  BY DEF SignedUp
<1>2. burdened' = \E x \in Tabs : sideCall[x] # NoAsk \/ (x # t /\ sheet[x] # NoForm)
  BY DEF SignedUp
<1>3. f.kind \in SignIns /\ f.pc = "granted"
  BY DEF SignedUp, SignIns
<1>4. /\ f.as \in 0..Len(tokens) /\ f.as \in Nat /\ f.as # 0 /\ f.who \in Persons /\ tokens[f.as] = f.who
      /\ tokens \in Seq(Persons)
  BY <1>3, Standing DEF FormTrue
<1> HIDE DEF f
<1>5. /\ shown \in Pane /\ shown.page = "dashboard" /\ shown.token = f.as /\ shown.user = f.who
      /\ shown.says = "nothing"
  BY <1>4 DEF AtPage, Pane
<1> HIDE DEF shown
<1>6. window' \in [Tabs -> Pane] /\ window'[t] = shown /\ \A x \in Tabs \ {t} : window'[x] = window[x]
  BY <1>1, <1>5, Standing
<1>7. sheet' \in [Tabs -> Sheet] /\ sheet'[t] = NoForm /\ \A x \in Tabs \ {t} : sheet'[x] = sheet[x]
  BY <1>1, Blanks, Standing
<1>8. OnlyTab(t)
  BY <1>1, <1>4, <1>5, <1>6, <1>7, Standing DEF OnlyTab
<1>9. store'.token = f.as /\ store'.user = f.who /\ store' \in [token : Nat, user : Persons \cup {NoPerson}]
  BY <1>1, <1>4
<1>10. StoreTyped'
  BY <1>1, <1>16, <1>4, <1>9 DEF StoreTyped
<1>11. StoreAgrees' /\ SessionStands'
  BY <1>1, <1>4, <1>9 DEF StoreAgrees, SessionStands, SessionInv
<1>12. InTouch(t)'
  BY <1>5, <1>6, <1>9 DEF InTouch
<1>13. FormTrue(t)' /\ CallTrue(t)'
  BY <1>1, <1>7, Blanks, Standing DEF FormTrue, CallTrue, SignIns, Accepted
<1>14. ASSUME NEW x \in Tabs PROVE OfSession(x)'
  <2>1. CASE burdened'
    BY <2>1 DEF OfSession
  <2>2. CASE ~burdened'
    <3>1. sideCall[x] = NoAsk /\ (x = t \/ sheet[x] = NoForm)
      BY <1>2, <2>2
    <3>2. sideCall'[x] = NoAsk /\ sheet'[x] = NoForm
      BY <1>1, <1>7, <3>1
    <3>3. QED
      BY <3>2, Blanks DEF OfSession
  <2>3. QED
    BY <2>1, <2>2
<1>15. QED
  BY <1>1, <1>8, <1>10, <1>11, <1>12, <1>13, <1>14, StoreStep

\* The store is emptied, and this tab sent to sign in.
LEMMA ForgetStep ==
  ASSUME SessionInv, NEW t \in Tabs, UNCHANGED <<tokens, ended, wandered, burdened>>, apart' = Unnoticed(t),
         store' = NoSession, patched' = FALSE, window' = [window EXCEPT ![t] = AtPage("login")], SessionStands',
         sheet' = sheet \/ sheet' = [sheet EXCEPT ![t] = NoForm],
         sideCall' = sideCall \/ sideCall' = [sideCall EXCEPT ![t] = NoAsk]
  PROVE  SessionInv'
<1>1. /\ AtPage("login") \in Pane /\ AtPage("login").page = "login" /\ AtPage("login").token = 0
      /\ AtPage("login").user = NoPerson
  BY Blanks DEF Outside
<1>2. window' \in [Tabs -> Pane] /\ window'[t] = AtPage("login") /\ \A x \in Tabs \ {t} : window'[x] = window[x]
  BY <1>1, Standing
<1>3. /\ sheet' \in [Tabs -> Sheet] /\ (sheet'[t] = sheet[t] \/ sheet'[t] = NoForm)
      /\ \A x \in Tabs \ {t} : sheet'[x] = sheet[x]
  BY Blanks, Standing
<1>4. /\ sideCall' \in [Tabs -> SideCall] /\ (sideCall'[t] = sideCall[t] \/ sideCall'[t] = NoAsk)
      /\ \A x \in Tabs \ {t} : sideCall'[x] = sideCall[x]
  BY Blanks, Standing
<1>5. OnlyTab(t)
  BY <1>1, <1>2, <1>3, <1>4 DEF OnlyTab
<1>6. store'.token = 0 /\ store'.user = NoPerson /\ store' \in [token : Nat, user : Persons \cup {NoPerson}]
  BY Blanks
<1>7. StoreTyped' /\ StoreAgrees'
  <2>1. patched' \in BOOLEAN
    OBVIOUS
  <2>2. QED
    BY <1>6, <2>1, Standing DEF StoreTyped, StoreAgrees
<1>8. InTouch(t)'
  BY <1>1, <1>2, <1>6 DEF InTouch
<1>9. FormTrue(t)' /\ CallTrue(t)'
  BY <1>1, <1>2, <1>3, <1>4, Blanks, Standing DEF FormTrue, CallTrue, SignIns, Accepted
<1>10. \A x \in Tabs : OfSession(x)'
  BY <1>6 DEF OfSession
<1>11. QED
  BY <1>5, <1>7, <1>8, <1>9, <1>10, StoreStep

LEMMA LogOutStep ==
  ASSUME SessionInv, NEW t \in Tabs, LogOut(t)
  PROVE  SessionInv'
<1>1. /\ UNCHANGED <<tokens, ended, wandered, burdened, ousted>> /\ apart' = Unnoticed(t) /\ sheet' = sheet
      /\ store' = NoSession /\ window' = [window EXCEPT ![t] = AtPage("login")] /\ sideCall' = sideCall
  BY DEF LogOut, serverSide
<1>4. patched' = FALSE
  BY DEF LogOut
<1>2. SessionStands'
  BY <1>1 DEF SessionInv, SessionStands
<1>3. QED
  BY <1>1, <1>2, <1>4, ForgetStep

LEMMA UnauthorizedStep ==
  ASSUME SessionInv, NEW t \in Tabs, Unauthorized(t)
  PROVE  SessionInv'
<1>1. /\ UNCHANGED <<tokens, ended, burdened, wandered>>
      /\ sheet[t].pc = "unauthorized" \/ sideCall[t].pc = "unauthorized"
  BY DEF Unauthorized, serverSide
<1>2. CASE window[t].page \in SignIns
  <2>1. /\ UNCHANGED <<store, window, apart, patched, ousted>>
        /\ sheet' = [sheet EXCEPT ![t] = IF sheet[t].pc = "unauthorized" THEN NoForm ELSE sheet[t]]
        /\ sideCall' = [sideCall EXCEPT ![t] = IF sideCall[t].pc = "unauthorized" THEN NoAsk ELSE sideCall[t]]
    <3>1. /\ UNCHANGED <<store, window, apart, patched, ousted>>
          /\ sheet' = [sheet EXCEPT ![t] = IF @.pc = "unauthorized" THEN NoForm ELSE @]
          /\ sideCall' = [sideCall EXCEPT ![t] = IF @.pc = "unauthorized" THEN NoAsk ELSE @]
      BY <1>2 DEF Unauthorized, SignIns
    <3>2. QED
      BY <3>1, Standing
  <2>2. /\ sheet' \in [Tabs -> Sheet] /\ (sheet'[t] = NoForm \/ sheet'[t] = sheet[t])
        /\ \A x \in Tabs \ {t} : sheet'[x] = sheet[x]
    BY <2>1, Blanks, Standing
  <2>3. /\ sideCall' \in [Tabs -> SideCall] /\ (sideCall'[t] = NoAsk \/ sideCall'[t] = sideCall[t])
        /\ \A x \in Tabs \ {t} : sideCall'[x] = sideCall[x]
    BY <2>1, Blanks, Standing
  <2>4. Issues
    BY <1>1, NoIssue
  <2>5. OnlyTab(t)
    BY <2>1, <2>2, <2>3, Standing DEF OnlyTab
  <2>6. InTouch(t)'
    BY <2>1, Standing DEF InTouch
  <2>7. FormTrue(t)'
    BY <1>1, <2>1, <2>2, Blanks, Standing DEF FormTrue, SignIns, Accepted
  <2>8. CallTrue(t)' /\ OfSession(t)'
    BY <1>1, <2>1, <2>2, <2>3, Blanks, Standing DEF CallTrue, OfSession, Accepted
  <2>9. QED
    BY <1>1, <2>1, <2>4, <2>5, <2>6, <2>7, <2>8, QuietStep
<1>3. CASE window[t].page \notin SignIns
  <2>1. /\ store' = NoSession /\ window' = [window EXCEPT ![t] = AtPage("login")]
        /\ sheet' = [sheet EXCEPT ![t] = NoForm] /\ sideCall' = [sideCall EXCEPT ![t] = NoAsk]
        /\ apart' = Unnoticed(t) /\ patched' = FALSE
    BY <1>3 DEF Unauthorized, SignIns
  <2>2. ousted' = (ousted \/ (Accepted(store.token) /\ ~burdened))
    BY <1>3 DEF Unauthorized, SignIns
  <2>3. Accepted(store.token) /\ ~burdened => wandered
    <3>1. SUFFICES ASSUME Accepted(store.token), ~burdened PROVE wandered
      OBVIOUS
    <3>2. /\ sideCall[t].pc # "idle" => sideCall[t].as = store.token
          /\ sheet[t].kind = "profile" => sheet[t].as = store.token
      BY <3>1, Standing DEF OfSession, Accepted
    <3>3. sideCall[t].pc # "unauthorized"
      BY <3>1, <3>2, Standing DEF CallTrue
    <3>4. sheet[t].kind = "login"
      BY <1>1, <3>1, <3>2, <3>3, Standing DEF FormTrue
    <3>5. QED
      BY <1>3, <3>4, Standing DEF FormTrue, SignIns
  <2>4. SessionStands'
    BY <1>1, <2>2, <2>3 DEF SessionInv, SessionStands
  <2>5. QED
    BY <1>1, <2>1, <2>4, ForgetStep
<1>4. QED
  BY <1>2, <1>3

LEMMA ProfileDoneStep ==
  ASSUME SessionInv, NEW t \in Tabs, ProfileDone(t)
  PROVE  SessionInv'
<1>1. /\ UNCHANGED <<tokens, ended, sideCall, apart, burdened, wandered, ousted>>
      /\ sheet' = [sheet EXCEPT ![t] = NoForm] /\ window' = [window EXCEPT ![t].says = "nothing"]
      /\ store' = IF window[t].user = NoPerson THEN store ELSE [store EXCEPT !.user = window[t].user]
  BY DEF ProfileDone, serverSide
<1>2. patched' = (patched \/ (window[t].user # NoPerson /\ t \in apart))
  BY DEF ProfileDone
<1>3. patched \in BOOLEAN
  BY DEF SessionInv, StoreTyped
<1>4. CASE window[t].user = NoPerson
  <2>1. store' = store
    BY <1>1, <1>4
  <2>2. patched' = patched
    BY <1>2, <1>3, <1>4
  <2>3. QED
    BY <1>1, <2>1, <2>2, PutAway
\* A tab in touch writes what is there already.
<1>5. CASE window[t].user # NoPerson /\ ~patched /\ t \notin apart
  <2>1. window[t].user = store.user
    BY <1>5, Standing DEF InTouch
  <2>2. store' = store
    BY <1>1, <1>5, <2>1, Standing
  <2>3. patched' = patched
    BY <1>2, <1>3, <1>5
  <2>4. QED
    BY <1>1, <2>2, <2>3, PutAway
<1>8. CASE window[t].user # NoPerson /\ (patched \/ t \in apart)
  <2>1. window[t].user \in Persons
    BY <1>8, Standing DEF Pane
  <2>2. store'.token = store.token /\ store' \in [token : Nat, user : Persons \cup {NoPerson}]
    BY <1>1, <1>8, <2>1, Standing
  <2>11. patched' = TRUE
    BY <1>2, <1>3, <1>8
  <2>21. /\ window' \in [Tabs -> Pane] /\ \A x \in Tabs \ {t} : window'[x] = window[x]
        /\ window'[t].page = window[t].page /\ window'[t].token = window[t].token
        /\ window'[t].user = window[t].user
    BY <1>1, SaysKept
  <2>22. window'[t].says = "nothing"
    BY <1>1, Standing DEF Pane
  <2>23. sheet' \in [Tabs -> Sheet] /\ sheet'[t] = NoForm /\ \A x \in Tabs \ {t} : sheet'[x] = sheet[x]
    BY <1>1, Blanks, Standing
  <2>24. Issues
    BY <1>1, NoIssue
  <2>25. OnlyTab(t)
    BY <1>1, <2>21, <2>22, <2>23, Standing DEF OnlyTab
  <2>26. PanesTyped' /\ \A x \in Tabs \ {t} : FormTrue(x)' /\ CallTrue(x)'
    BY <2>24, <2>25, OthersTrue
  <2>27. FormTrue(t)' /\ CallTrue(t)'
    BY <1>1, <2>23, Blanks, Standing DEF FormTrue, CallTrue, SignIns, Accepted
  <2>28. ASSUME NEW x \in Tabs PROVE InTouch(x)' /\ OfSession(x)'
    <3>1. sideCall'[x] = sideCall[x] /\ (sheet'[x] = sheet[x] \/ sheet'[x] = NoForm)
      BY <1>1, <2>23
    <3>2. OfSession(x)'
      BY <1>1, <2>2, <3>1, Blanks, Standing DEF OfSession
    <3>3. InTouch(x)'
      BY <2>11 DEF InTouch
    <3>4. QED
      BY <3>2, <3>3
  <2>29. StoreTyped' /\ StoreAgrees' /\ SessionStands'
    <3>1. StoreTyped'
      BY <1>1, <2>2, <2>11, Standing DEF StoreTyped
    <3>2. StoreAgrees'
      BY <2>11 DEF StoreAgrees
    <3>3. SessionStands'
      BY <1>1 DEF SessionInv, SessionStands
    <3>4. QED
      BY <3>1, <3>2, <3>3
  <2>30. QED
    BY <1>1, <2>23, <2>26, <2>27, <2>28, <2>29, Standing DEF SessionInv
<1>9. QED
  BY <1>4, <1>5, <1>8

LEMMA SideStep ==
  ASSUME SessionInv, NEW t \in Tabs, SendAsk(t) \/ ServeAsk(t)
  PROVE  SessionInv'
<1>1. UNCHANGED <<tokens, ended, store, window, sheet, apart, patched, burdened, wandered, ousted>>
  BY DEF SendAsk, ServeAsk, serverSide, story
<1>2. PICK nxt \in SideCall : /\ sideCall' = [sideCall EXCEPT ![t] = nxt]
                              /\ nxt.pc # "idle" => nxt.as = store.token \/ nxt.as = sideCall[t].as
                              /\ nxt.pc # "idle" => sideCall[t].pc # "idle" \/ nxt.as = store.token
                              /\ nxt.pc = "unauthorized" => ~Accepted(nxt.as)
  <2>1. CASE SendAsk(t)
    <3> DEFINE new == [pc |-> "sent", as |-> store.token]
    <3>1. new \in SideCall /\ new.pc = "sent" /\ new.as = store.token
      BY Standing DEF SideCall
    <3>2. sideCall' = [sideCall EXCEPT ![t] = new]
      BY <2>1 DEF SendAsk
    <3> HIDE DEF new
    <3>3. QED
      BY <3>1, <3>2
  <2>2. CASE ServeAsk(t) /\ Accepted(sideCall[t].as)
    <3>1. sideCall' = [sideCall EXCEPT ![t] = NoAsk]
      BY <2>2 DEF ServeAsk
    <3>2. QED
      BY <3>1, Blanks
  <2>3. CASE ServeAsk(t) /\ ~Accepted(sideCall[t].as)
    <3> DEFINE new == [sideCall[t] EXCEPT !.pc = "unauthorized"]
    <3>1. sideCall' = [sideCall EXCEPT ![t] = new] /\ sideCall[t].pc = "sent"
      BY <2>3, Standing DEF ServeAsk
    <3>2. new \in SideCall /\ new.pc = "unauthorized" /\ new.as = sideCall[t].as
      BY Standing DEF SideCall
    <3> HIDE DEF new
    <3>3. QED
      BY <2>3, <3>1, <3>2
  <2>4. QED
    BY <2>1, <2>2, <2>3
<1>3. sideCall' \in [Tabs -> SideCall] /\ sideCall'[t] = nxt /\ \A x \in Tabs \ {t} : sideCall'[x] = sideCall[x]
  BY <1>2, Standing
<1>4. Issues
  BY <1>1, NoIssue
<1>5. OnlyTab(t)
  BY <1>1, <1>3, Standing DEF OnlyTab
<1>6. InTouch(t)' /\ FormTrue(t)'
  BY <1>1, Standing DEF InTouch, FormTrue, Accepted
<1>7. CallTrue(t)'
  BY <1>1, <1>2, <1>3 DEF CallTrue, Accepted
<1>8. OfSession(t)'
  BY <1>1, <1>2, <1>3, Standing DEF OfSession
<1>9. QED
  BY <1>1, <1>4, <1>5, <1>6, <1>7, <1>8, QuietStep

LEMMA EndTokenStep ==
  ASSUME SessionInv, NEW n \in 1..MaxSessions, EndToken(n)
  PROVE  SessionInv'
<1>1. /\ UNCHANGED <<tokens, store, window, sheet, sideCall, apart, patched, burdened, wandered, ousted>>
      /\ ended' = ended \cup {n}
  BY DEF EndToken, story
<1>2. ASSUME NEW t \in Tabs PROVE InTouch(t)' /\ FormTrue(t)' /\ CallTrue(t)' /\ OfSession(t)'
  <2>1. InTouch(t)' /\ OfSession(t)'
    BY <1>1, Standing DEF InTouch, OfSession
  <2>2. FormTrue(t)' /\ CallTrue(t)'
    BY <1>1, Standing DEF FormTrue, CallTrue, Accepted
  <2>3. QED
    BY <2>1, <2>2
<1>3. PanesTyped' /\ StoreTyped'
  BY <1>1 DEF SessionInv, PanesTyped, StoreTyped
<1>4. StoreAgrees' /\ SessionStands'
  BY <1>1 DEF SessionInv, StoreAgrees, SessionStands
<1>5. QED
  BY <1>1, <1>2, <1>3, <1>4 DEF SessionInv

LEMMA FormStep ==
  ASSUME SessionInv, NEW t \in Tabs,
         (\E p \in Persons : SubmitLogin(t, p) \/ SubmitRegister(t, p)) \/ SubmitLink(t) \/ SubmitProfile(t)
  PROVE  SessionInv'
<1>1. 0 \in 0..Len(tokens)
  BY Standing
<1>2. CASE \E p \in Persons : SubmitLogin(t, p) \/ SubmitRegister(t, p)
  <2>1. PICK p \in Persons, kind \in SignIns : window[t].page = kind /\ Submit(t, kind, p, 0)
    BY <1>2 DEF SubmitLogin, SubmitRegister, SignIns, At
  <2>2. QED
    BY <1>1, <2>1, SubmitStep DEF SignIns
<1>3. CASE SubmitLink(t)
  BY <1>1, <1>3, SubmitStep DEF SubmitLink, SignIns, At
<1>4. CASE SubmitProfile(t)
  <2>1. /\ window[t].page = "dashboard" /\ Submit(t, "profile", window[t].user, store.token)
        /\ window[t].user \in Persons \cup {NoPerson} /\ store.token \in 0..Len(tokens)
    BY <1>4, Standing DEF SubmitProfile, At, Pane
  <2>2. QED
    BY <2>1, SubmitStep DEF SignIns
<1>5. QED
  BY <1>2, <1>3, <1>4

LEMMA SessionStep ==
  ASSUME SessionInv, [SessionsNext]_sessionVars
  PROVE  SessionInv'
<1>1. CASE UNCHANGED sessionVars
  <2>1. /\ UNCHANGED <<tokens, ended, store, window, sheet, sideCall, apart, patched, burdened, wandered, ousted>>
    BY <1>1 DEF sessionVars, serverSide, story
  <2>2. PanesTyped' /\ StoreTyped'
    BY <2>1 DEF SessionInv, PanesTyped, StoreTyped
  <2>3. StoreAgrees' /\ SessionStands'
    BY <2>1 DEF SessionInv, StoreAgrees, SessionStands
  <2>4. ASSUME NEW t \in Tabs PROVE InTouch(t)' /\ FormTrue(t)' /\ CallTrue(t)' /\ OfSession(t)'
    BY <2>1, Standing DEF InTouch, FormTrue, CallTrue, OfSession, Accepted
  <2>5. QED
    BY <2>1, <2>2, <2>3, <2>4 DEF SessionInv
<1>2. CASE SessionsNext
  <2>1. CASE \E n \in 1..MaxSessions : EndToken(n)
    BY <2>1, EndTokenStep
  <2>2. CASE \E t \in Tabs :
               \/ \E page \in Outside \cup {"dashboard"} : OpenPage(t, page)
               \/ (\E page \in Outside : FollowLink(t, page)) \/ GoToLogin(t)
               \/ (\E p \in Persons : SubmitLogin(t, p) \/ SubmitRegister(t, p)) \/ SubmitLink(t) \/ SubmitProfile(t)
    BY <2>2, OpenStep, WalkStep, FormStep
  <2>3. CASE \E t \in Tabs :
               \/ ServeSignIn(t) \/ ServeLink(t) \/ ServeProfile(t) \/ SignedUp(t) \/ LinkDone(t)
               \/ ProfileDone(t) \/ FormFails(t) \/ SendAsk(t) \/ ServeAsk(t) \/ Unauthorized(t) \/ LogOut(t)
    BY <2>3, ServeSignInStep, ServeOtherStep, SignedUpStep, AwayStep, ProfileDoneStep, SideStep, UnauthorizedStep,
       LogOutStep
  <2>4. QED
    BY <1>2, <2>1, <2>2, <2>3 DEF SessionsNext
<1>3. QED
  BY <1>1, <1>2

LEMMA SessionsKept == SessionInv => StoreAgrees /\ SavedForShown /\ SessionStands
BY DEF SessionInv, SavedForShown, FormTrue

-----------------------------------------------------------------------------
(* Sessions: what the page of a mailed link says.                             *)

\* The form is put away where the page says how its link fared; and who used the link is told, has left the page, or
\* will be answered.
MailTrue(t) ==
    LET f == sheet[t]  says == window[t].says IN
    /\ f.kind = "link" /\ f.pc = "granted" => linkUsed = t
    /\ f.kind = "link" => says \in {"nothing", "waiting"} /\ (says = "waiting" => window[t].page = "mail")
    /\ says = "done" => linkUsed = t /\ window[t].page = "mail" /\ f.kind = "none"
    /\ says = "error" /\ linkUsed = t => untold
    /\ linkUsed = t => untold \/ says = "done" \/ (f.kind = "link" /\ f.pc = "granted")

MailInv == \A t \in Tabs : MailTrue(t)

LEMMA MailInit == SessionsInit => MailInv
<1> SUFFICES ASSUME SessionsInit, NEW t \in Tabs PROVE MailTrue(t)
  BY DEF MailInv
<1>1. sheet[t].kind = "none" /\ window[t].says = "nothing" /\ linkUsed = NoPerson /\ linkUsed # t
  BY SessionsAssumption, Blanks DEF SessionsInit
<1>2. QED
  BY <1>1 DEF MailTrue

\* One tab acts; the link is used once.
LEMMA MailOfOthers ==
  ASSUME MailInv, NEW t \in Tabs, \A x \in Tabs \ {t} : window'[x] = window[x] /\ sheet'[x] = sheet[x],
         linkUsed' = linkUsed \/ (linkUsed = NoPerson /\ linkUsed' = t), untold => untold', MailTrue(t)'
  PROVE  MailInv'
<1>1. ASSUME NEW x \in Tabs \ {t} PROVE MailTrue(x)'
  BY <1>1, SessionsAssumption DEF MailInv, MailTrue
<1>2. QED
  BY <1>1 DEF MailInv

LEMMA MailKept ==
  ASSUME MailInv, UNCHANGED <<window, sheet, linkUsed, untold>>
  PROVE  MailInv'
BY DEF MailInv, MailTrue

LEMMA MailWalks ==
  ASSUME SessionInv, MailInv, NEW t \in Tabs,
         \/ \E page \in Outside \cup {"dashboard"} : OpenPage(t, page)
         \/ \E page \in Outside : FollowLink(t, page)
         \/ GoToLogin(t) \/ LogOut(t)
  PROVE  MailInv'
<1>1. MailTrue(t)
  BY DEF MailInv
<1>2. ASSUME NEW page \in Outside \cup {"dashboard"}, OpenPage(t, page) PROVE MailInv'
  <2>1. /\ sheet' = [sheet EXCEPT ![t] = NoForm] /\ untold' = LinkLeft(t) /\ UNCHANGED linkUsed
        /\ window' = [window EXCEPT ![t] =
              IF store.token # 0 THEN [AtPage(page) EXCEPT !.token = store.token, !.user = store.user]
              ELSE AtPage(IF page \in Outside THEN page ELSE "login")]
    BY <1>2 DEF OpenPage, serverSide
  <2>2. window'[t].says = "nothing"
    BY <2>1, Standing DEF AtPage
  <2>3. sheet'[t].kind = "none"
    BY <2>1, Standing, Blanks
  <2>4. MailTrue(t)'
    BY <2>1, <2>2, <2>3 DEF MailTrue, LinkLeft
  <2>5. QED
    BY <2>1, <2>4, Standing, MailOfOthers DEF LinkLeft
<1>3. ASSUME NEW page \in Outside, FollowLink(t, page) \/ (GoToLogin(t) /\ page = "login") PROVE MailInv'
  <2>1. /\ untold' = LinkLeft(t) /\ UNCHANGED <<linkUsed, sheet>>
        /\ window' = [window EXCEPT ![t].page = page, ![t].says = "nothing"]
    BY <1>3 DEF FollowLink, GoToLogin, serverSide
  <2>2. window' = [window EXCEPT ![t] = [window[t] EXCEPT !.page = page, !.says = "nothing"]]
    BY <2>1, Standing
  <2>3. window'[t] = [window[t] EXCEPT !.page = page, !.says = "nothing"] /\ window[t] \in Pane
    BY <2>2, Standing
  <2>4. window'[t].says = "nothing"
    BY <2>3 DEF Pane
  <2>5. MailTrue(t)'
    BY <1>1, <2>1, <2>4 DEF MailTrue, LinkLeft
  <2>6. QED
    BY <2>1, <2>2, <2>5, Standing, MailOfOthers DEF LinkLeft
<1>4. CASE LogOut(t)
  <2>1. /\ window[t].page = "dashboard" /\ window' = [window EXCEPT ![t] = AtPage("login")]
        /\ UNCHANGED <<sheet, linkUsed, untold>>
    BY <1>4 DEF LogOut, At, serverSide
  <2>2. window'[t].says = "nothing" /\ window'[t].page = "login"
    BY <2>1, Standing, Blanks DEF Outside
  <2>3. MailTrue(t)'
    BY <1>1, <2>1, <2>2 DEF MailTrue
  <2>4. QED
    BY <2>1, <2>3, Standing, MailOfOthers
<1>5. QED
  BY <1>2, <1>3, <1>4 DEF Outside

LEMMA MailSubmits ==
  ASSUME SessionInv, MailInv, NEW t \in Tabs,
         \/ \E p \in Persons : SubmitLogin(t, p) \/ SubmitRegister(t, p)
         \/ SubmitLink(t) \/ SubmitProfile(t)
  PROVE  MailInv'
<1>1. MailTrue(t) /\ window[t] \in Pane
  BY Standing DEF MailInv
<1>2. PICK kind \in {"login", "register", "link", "profile"}, who \in Persons \cup {NoPerson}, as \in Nat :
         /\ Submit(t, kind, who, as)
         /\ kind = "link" => window[t].page = "mail" /\ window[t].says # "done"
         /\ kind # "link" => window[t].page # "mail"
  <2>1. window[t].user \in Persons \cup {NoPerson} /\ store.token \in Nat
    BY <1>1, Standing DEF Pane
  <2>2. QED
    BY <2>1 DEF SubmitLogin, SubmitRegister, SubmitLink, SubmitProfile, At
<1>3. /\ sheet[t] = NoForm /\ window' = [window EXCEPT ![t].says = "waiting"] /\ UNCHANGED <<linkUsed, untold>>
      /\ sheet' = [sheet EXCEPT ![t] = [kind |-> kind, pc |-> "sent", as |-> as, who |-> who,
                                        odd |-> t \in apart \/ patched]]
  BY <1>2 DEF Submit, serverSide, story
<1>4. sheet'[t].kind = kind /\ sheet'[t].pc = "sent"
  BY <1>3, Standing
<1>5. window' = [window EXCEPT ![t] = [window[t] EXCEPT !.says = "waiting"]]
  BY <1>3, Standing
<1>6. window'[t].says = "waiting" /\ window'[t].page = window[t].page
  BY <1>1, <1>5, Standing DEF Pane
<1>7. MailTrue(t)'
  BY <1>1, <1>2, <1>3, <1>4, <1>6, Blanks DEF MailTrue
<1>8. QED
  BY <1>3, <1>5, <1>7, Standing, MailOfOthers

LEMMA MailServed ==
  ASSUME SessionInv, MailInv, NEW t \in Tabs, ServeSignIn(t) \/ ServeLink(t) \/ ServeProfile(t)
  PROVE  MailInv'
<1>1. MailTrue(t) /\ sheet[t] \in Sheet /\ Len(tokens) + 1 \in Nat
  BY Standing DEF MailInv
<1>2. UNCHANGED <<window, untold>> /\ sheet[t].pc = "sent"
  BY DEF ServeSignIn, ServeLink, ServeProfile, AtServer, story
<1>3. PICK pc \in {"granted", "refused", "unauthorized"}, as \in Nat :
         sheet' = [sheet EXCEPT ![t] = [sheet[t] EXCEPT !.pc = pc, !.as = as]]
  <2>1. CASE ServeSignIn(t) /\ (sheet[t].kind = "login") = (sheet[t].who \in enrolled)
    <3>1. sheet' = [sheet EXCEPT ![t].pc = "granted", ![t].as = Len(tokens) + 1]
      BY <2>1 DEF ServeSignIn
    <3>2. sheet' = [sheet EXCEPT ![t] = [sheet[t] EXCEPT !.pc = "granted", !.as = Len(tokens) + 1]]
      BY <3>1, Standing
    <3>3. QED
      BY <1>1, <3>2
  <2>2. CASE ~(ServeSignIn(t) /\ (sheet[t].kind = "login") = (sheet[t].who \in enrolled))
    <3>1. PICK pc \in {"granted", "refused", "unauthorized"} : Reply(t, pc)
      BY <2>2 DEF ServeSignIn, ServeLink, ServeProfile
    <3>2. sheet' = [sheet EXCEPT ![t] = [sheet[t] EXCEPT !.pc = pc]]
      BY <3>1, Standing DEF Reply
    <3>3. [sheet[t] EXCEPT !.pc = pc] = [sheet[t] EXCEPT !.pc = pc, !.as = sheet[t].as] /\ sheet[t].as \in Nat
      BY <1>1 DEF Sheet
    <3>4. QED
      BY <3>2, <3>3
  <2>3. QED
    BY <2>1, <2>2
<1>4. sheet'[t].kind = sheet[t].kind /\ sheet'[t].pc = pc
  BY <1>1, <1>3, Standing DEF Sheet
<1>5. \/ linkUsed' = t /\ linkUsed = NoPerson /\ sheet[t].kind = "link" /\ sheet'[t].pc = "granted"
      \/ UNCHANGED linkUsed /\ ~(sheet[t].kind = "link" /\ sheet'[t].pc = "granted")
  <2>1. CASE ServeLink(t)
    <3>1. sheet[t].kind = "link"
      BY <2>1 DEF ServeLink, AtServer
    <3>2. CASE linkUsed = NoPerson
      <4>1. linkUsed' = t /\ Reply(t, "granted")
        BY <2>1, <3>2 DEF ServeLink
      <4>2. sheet'[t].pc = "granted"
        BY <1>1, <4>1, Standing DEF Reply, Sheet
      <4>3. QED
        BY <3>1, <3>2, <4>1, <4>2
    <3>3. CASE linkUsed # NoPerson
      <4>1. UNCHANGED linkUsed /\ Reply(t, "refused")
        BY <2>1, <3>3 DEF ServeLink
      <4>2. sheet'[t].pc = "refused"
        BY <1>1, <4>1, Standing DEF Reply, Sheet
      <4>3. QED
        BY <4>1, <4>2
    <3>4. QED
      BY <3>2, <3>3
  <2>2. CASE ServeSignIn(t) \/ ServeProfile(t)
    BY <2>2 DEF ServeSignIn, ServeProfile, AtServer, serverSide
  <2>3. QED
    BY <2>1, <2>2
<1>6. MailTrue(t)'
  BY <1>1, <1>2, <1>4, <1>5, SessionsAssumption DEF MailTrue
<1>7. QED
  BY <1>2, <1>3, <1>5, <1>6, Standing, MailOfOthers

\* A form is put away with what the page says of it.
LEMMA MailPutAway ==
  ASSUME SessionInv, MailInv, NEW t \in Tabs, LinkDone(t) \/ ProfileDone(t) \/ FormFails(t)
  PROVE  MailInv'
<1>1. MailTrue(t) /\ window[t] \in Pane
  BY Standing DEF MailInv
<1>2. /\ UNCHANGED linkUsed /\ sheet' = [sheet EXCEPT ![t] = NoForm] /\ (untold => untold')
  <2>1. LinkDone(t) => (untold => untold')
    BY DEF LinkDone
  <2>2. ProfileDone(t) => (untold => untold')
    BY DEF ProfileDone
  <2>3. FormFails(t) => (untold => untold')
    BY DEF FormFails
  <2>4. UNCHANGED linkUsed /\ sheet' = [sheet EXCEPT ![t] = NoForm]
    BY DEF LinkDone, ProfileDone, FormFails, serverSide
  <2>5. QED
    BY <2>1, <2>2, <2>3, <2>4
<1>3. sheet'[t].kind = "none"
  BY <1>2, Standing, Blanks
<1>4. ASSUME NEW says, window' = [window EXCEPT ![t].says = says]
      PROVE  /\ window'[t].says = says /\ window'[t].page = window[t].page
             /\ \A x \in Tabs \ {t} : window'[x] = window[x]
  <2>1. window' = [window EXCEPT ![t] = [window[t] EXCEPT !.says = says]]
    BY <1>4, Standing
  <2>2. QED
    BY <1>1, <2>1, Standing DEF Pane
<1>5. SUFFICES MailTrue(t)' /\ \A x \in Tabs \ {t} : window'[x] = window[x]
  BY <1>2, Standing, MailOfOthers
<1>6. CASE LinkDone(t)
  <2> DEFINE says == IF window[t].says = "waiting" THEN "done" ELSE window[t].says
  <2>1. window' = [window EXCEPT ![t].says = says]
    BY <1>6, Standing DEF LinkDone
  <2>2. sheet[t].kind = "link" /\ sheet[t].pc = "granted" /\ untold' = (untold \/ window[t].says # "waiting")
    BY <1>6 DEF LinkDone
  <2>3. /\ window'[t].says = says /\ window'[t].page = window[t].page
        /\ \A x \in Tabs \ {t} : window'[x] = window[x]
    BY <1>4, <2>1
  <2>4. MailTrue(t)'
    BY <1>1, <1>2, <1>3, <2>2, <2>3 DEF MailTrue
  <2>5. QED
    BY <2>3, <2>4
<1>7. CASE ProfileDone(t)
  <2>1. window' = [window EXCEPT ![t].says = "nothing"] /\ sheet[t].kind = "profile" /\ UNCHANGED untold
    BY <1>7 DEF ProfileDone
  <2>2. /\ window'[t].says = "nothing" /\ window'[t].page = window[t].page
        /\ \A x \in Tabs \ {t} : window'[x] = window[x]
    BY <1>4, <2>1
  <2>3. MailTrue(t)'
    BY <1>1, <1>2, <1>3, <2>1, <2>2 DEF MailTrue
  <2>4. QED
    BY <2>2, <2>3
<1>8. CASE FormFails(t)
  <2> DEFINE says == IF window[t].says = "waiting" THEN "error" ELSE window[t].says
  <2>1. window' = [window EXCEPT ![t].says = says]
    BY <1>8, Standing DEF FormFails
  <2>2. untold' = (untold \/ (sheet[t].kind = "link" /\ sheet[t].pc = "granted"))
    BY <1>8 DEF FormFails
  <2>3. /\ window'[t].says = says /\ window'[t].page = window[t].page
        /\ \A x \in Tabs \ {t} : window'[x] = window[x]
    BY <1>4, <2>1
  <2>4. MailTrue(t)'
    BY <1>1, <1>2, <1>3, <2>2, <2>3 DEF MailTrue
  <2>5. QED
    BY <2>3, <2>4
<1>9. QED
  BY <1>6, <1>7, <1>8

\* A session begins or ends.
LEMMA MailSigned ==
  ASSUME SessionInv, MailInv, NEW t \in Tabs, SignedUp(t) \/ Unauthorized(t)
  PROVE  MailInv'
<1>1. MailTrue(t) /\ sheet[t] \in Sheet
  BY Standing DEF MailInv
<1>2. CASE SignedUp(t)
  <2>1. /\ window' = [window EXCEPT ![t] = [AtPage("dashboard") EXCEPT !.token = sheet[t].as, !.user = sheet[t].who]]
        /\ sheet' = [sheet EXCEPT ![t] = NoForm] /\ UNCHANGED <<linkUsed, untold>> /\ sheet[t].kind \in {"login", "register"}
    BY <1>2 DEF SignedUp, serverSide
  <2>2. window'[t].says = "nothing" /\ window'[t].page = "dashboard" /\ sheet'[t].kind = "none"
    BY <2>1, Standing, Blanks DEF AtPage
  <2>3. MailTrue(t)'
    BY <1>1, <2>1, <2>2 DEF MailTrue
  <2>4. QED
    BY <2>1, <2>3, Standing, MailOfOthers
<1>3. CASE Unauthorized(t)
  <2>1. UNCHANGED linkUsed
    BY <1>3 DEF Unauthorized, serverSide
  <2>2. CASE window[t].page \in {"login", "register"}
    <3>1. /\ sheet' = [sheet EXCEPT ![t] = IF sheet[t].pc = "unauthorized" THEN NoForm ELSE sheet[t]]
          /\ UNCHANGED <<window, untold>>
      BY <1>3, <2>2, Standing DEF Unauthorized
    <3>2. sheet'[t] = IF sheet[t].pc = "unauthorized" THEN NoForm ELSE sheet[t]
      BY <3>1, Standing
    <3>3. MailTrue(t)'
      BY <1>1, <2>1, <2>2, <3>1, <3>2, Blanks DEF MailTrue
    <3>4. QED
      BY <2>1, <3>1, <3>3, Standing, MailOfOthers
  <2>3. CASE window[t].page \notin {"login", "register"}
    <3>1. /\ window' = [window EXCEPT ![t] = AtPage("login")] /\ sheet' = [sheet EXCEPT ![t] = NoForm]
          /\ untold' = LinkLeft(t)
      BY <1>3, <2>3 DEF Unauthorized
    <3>2. window'[t].says = "nothing" /\ window'[t].page = "login" /\ sheet'[t].kind = "none"
      BY <3>1, Standing, Blanks DEF Outside
    <3>3. MailTrue(t)'
      BY <2>1, <3>1, <3>2 DEF MailTrue, LinkLeft
    <3>4. QED
      BY <2>1, <3>1, <3>3, Standing, MailOfOthers DEF LinkLeft
  <2>4. QED
    BY <2>2, <2>3
<1>4. QED
  BY <1>2, <1>3

LEMMA MailStep ==
  ASSUME SessionInv, MailInv, [SessionsNext]_sessionVars
  PROVE  MailInv'
<1>1. ASSUME NEW t \in Tabs, SendAsk(t) \/ ServeAsk(t) PROVE MailInv'
  BY <1>1, MailKept DEF SendAsk, ServeAsk, serverSide, story
<1>2. ASSUME NEW n \in 1..MaxSessions, EndToken(n) PROVE MailInv'
  BY <1>2, MailKept DEF EndToken, story
<1>3. CASE UNCHANGED sessionVars
  BY <1>3, MailKept DEF sessionVars, serverSide, story
<1>4. QED
  BY <1>1, <1>2, <1>3, MailWalks, MailSubmits, MailServed, MailPutAway, MailSigned DEF SessionsNext

LEMMA LinkTells == MailInv => LinkPageTells
BY DEF MailInv, MailTrue, LinkPageTells

-----------------------------------------------------------------------------
(* The channels page: the list, the webhooks' health, the banner and the bot. *)

HealthRow == [loading : BOOLEAN, fixing : BOOLEAN, says : Words]
ProbeRow == [pc : {"idle", "check", "fix", "fixed", "answered"}, id : FbPages \cup {NoCard}, found : Words]
ListingRow == [pc : {"idle", "asked", "answered"}, cards : SUBSET Cards, foreign : SUBSET Cards]
DialogRow == [open : BOOLEAN, typed : BOOLEAN, pc : {"idle", "sent", "stored", "ready"}, row : Nat]
RemovalRow == [pc : {"idle", "sent", "removed"}, id : Cards \cup {NoCard}]
BannerRow == [kind : {"none", "connected", "disconnected", "error"}, about : SUBSET Cards]

ScreenTyped ==
    /\ connected \subseteq Cards /\ cards \subseteq Cards /\ target \in Cards \cup {NoCard} /\ botRow \in Nat
    /\ webhook \in [FbPages -> Words] /\ health \in [FbPages -> HealthRow] /\ probe \in [Asks -> ProbeRow]
    /\ listing \in [Asks -> ListingRow] /\ dialog \in [Dialogs -> DialogRow]
    /\ removal \in RemovalRow /\ banner \in BannerRow

\* The user leaves for Facebook while nothing is under way, and a request is of something.
AwayInv ==
    /\ away => /\ target = NoCard /\ removal.pc = "idle" /\ \A k \in Asks : probe[k].pc = "idle"
               /\ \A d \in Dialogs : ~dialog[d].open /\ dialog[d].pc = "idle"
    /\ (removal.pc = "idle" => removal.id = NoCard) /\ (removal.id = NoCard => removal.pc = "idle")
    /\ \A k \in Asks : (probe[k].pc = "idle" => probe[k].id = NoCard) /\ (probe[k].id = NoCard => probe[k].pc = "idle")

\* Whatever answer is on its way is true but for what was written since, and so is the list that came last.
Truly(shown, about) == \A c \in Cards \ about : (c \in shown => c \in connected) /\ (c \in connected => c \in shown)
CardsInv ==
    /\ sole /\ ~waiting => Truly(cards, foreign)
    /\ \A k \in Asks : listing[k].pc = "answered" => Truly(listing[k].cards, listing[k].foreign)

\* One check or repair at a time of a page that is not unsure, and its answer is what Meta holds.
ChecksOne(p) ==
    /\ \A j, k \in Asks : probe[j].id = p /\ probe[k].id = p => j = k
    /\ \A k \in Asks : probe[k].id = p /\ probe[k].pc = "answered" => probe[k].found = webhook[p]
    /\ (\A k \in Asks : probe[k].id # p) /\ health[p].says \notin {"nothing", "error"} => health[p].says = webhook[p]
CheckInv == \A p \in FbPages : p \notin unsure => ChecksOne(p)

\* What the page is about to report, and what it reports, is so, or was overtaken.
ToldInv ==
    /\ \A d \in Dialogs : dialog[d].pc \in {"stored", "ready"} => d \in connected \/ d \in touched
    /\ removal.pc = "removed" => removal.id \notin connected \/ removal.id \in touched
    /\ \A c \in banner.about :
          \/ c \in touched
          \/ /\ banner.kind = "connected" => c \in connected \/ removal.id = c
             /\ banner.kind = "disconnected" => \/ c \notin connected
                                                \/ c \in Dialogs /\ dialog[c].pc \in {"stored", "ready"}

BotInv ==
    /\ dialog[Bot].pc = "stored" => dialog[Bot].row = botRow
    /\ Bot \in connected /\ dialog[Bot].pc # "stored" /\ ~deaf => botHook = botRow

PageInv == ScreenTyped /\ AwayInv /\ CardsInv /\ CheckInv /\ ToldInv /\ BotInv

LEMMA NothingAsked ==
  /\ NoWord \in HealthRow /\ NoProbe \in ProbeRow /\ NoList \in ListingRow /\ NoTalk \in DialogRow
  /\ NoBanner \in BannerRow /\ NoLists \in [Asks -> ListingRow]
<1>1. NoWord \in HealthRow /\ NoProbe \in ProbeRow /\ NoList \in ListingRow /\ NoTalk \in DialogRow
      /\ NoBanner \in BannerRow
  BY DEF NoWord, HealthRow, Words, NoProbe, ProbeRow, NoList, ListingRow, NoTalk, DialogRow, NoBanner, BannerRow
<1>2. QED
  BY <1>1 DEF NoLists

LEMMA PageInit == ChannelPageInit => PageInv
<1> SUFFICES ASSUME ChannelPageInit PROVE PageInv
  OBVIOUS
<1>1. /\ connected \subseteq Cards /\ webhook \in [FbPages -> {"none", "full"}]
      /\ botRow = (IF Bot \in connected THEN 1 ELSE 0) /\ botHook = botRow
      /\ cards = {} /\ waiting = TRUE /\ listing = NoLists /\ health = [p \in FbPages |-> NoWord]
      /\ probe = [k \in Asks |-> NoProbe] /\ target = NoCard /\ removal = [pc |-> "idle", id |-> NoCard]
      /\ dialog = [d \in Dialogs |-> NoTalk] /\ banner = NoBanner /\ away = FALSE
  BY DEF ChannelPageInit
<1>2. webhook \in [FbPages -> Words] /\ botRow \in Nat /\ removal \in RemovalRow
  BY <1>1 DEF Words, RemovalRow
<1>3. ScreenTyped
  BY <1>1, <1>2, NothingAsked DEF ScreenTyped
<1>4. /\ \A k \in Asks : probe[k].pc = "idle" /\ probe[k].id = NoCard /\ listing[k].pc = "idle"
      /\ \A d \in Dialogs : dialog[d].pc = "idle"
      /\ \A p \in FbPages : health[p].says = "nothing" /\ p # NoCard
      /\ banner.about = {} /\ Bot \in Dialogs
  BY <1>1, ChannelPageAssumption DEF NoProbe, NoLists, NoList, NoTalk, NoWord, NoBanner, Dialogs
<1>5. AwayInv /\ CardsInv /\ ToldInv /\ BotInv
  BY <1>1, <1>4 DEF AwayInv, CardsInv, ToldInv, BotInv
<1>6. CheckInv
  BY <1>4 DEF CheckInv, ChecksOne
<1>7. QED
  BY <1>3, <1>5, <1>6 DEF PageInv

\* A row that is written is noted for the list that is shown and for those on their way.
LEMMA BehindTyped ==
  ASSUME NEW c \in Cards, Behind(c), listing \in [Asks -> ListingRow]
  PROVE  listing' \in [Asks -> ListingRow]
<1>1. ASSUME NEW k \in Asks
      PROVE  (IF listing[k].pc = "answered" THEN [listing[k] EXCEPT !.foreign = @ \cup {c}] ELSE listing[k]) \in ListingRow
  BY DEF ListingRow
<1>2. QED
  BY <1>1 DEF Behind

\* The page's variables keep their types.
LEMMA ListTyped ==
  ASSUME ScreenTyped, AwayInv, NEW k \in Asks,
         \/ FirstFetch(k) \/ GetConnections(k) \/ SetChannels(k) \/ FetchChannelsFails(k)
         \/ Deleted(k) \/ (\E d \in Dialogs : Connected(d, k))
  PROVE  ScreenTyped'
<1>1. listing[k] \in ListingRow /\ listing \in [Asks -> ListingRow] /\ removal \in RemovalRow
  BY DEF ScreenTyped
<1>2. CASE FetchChannels(k) /\ UNCHANGED <<platforms, health, probe>> /\ target' \in {target, NoCard}
           /\ removal' \in RemovalRow /\ banner' \in BannerRow /\ dialog' \in [Dialogs -> DialogRow]
  <2>1. listing' \in [Asks -> ListingRow] /\ UNCHANGED cards
    BY <1>1, <1>2 DEF FetchChannels, ListingRow
  <2>2. QED
    BY <1>2, <2>1 DEF ScreenTyped, platforms
<1>3. CASE FirstFetch(k)
  <2>1. UNCHANGED <<removal, banner, dialog, target, hookVars>>
    BY <1>3 DEF FirstFetch, dialogVars
  <2>2. QED
    BY <1>2, <1>3, <2>1 DEF FirstFetch, hookVars, ScreenTyped
<1>4. CASE GetConnections(k)
  <2>1. listing' \in [Asks -> ListingRow]
    BY <1>1, <1>4 DEF GetConnections, ListingRow, ScreenTyped
  <2>2. QED
    BY <1>4, <2>1 DEF GetConnections, ScreenTyped, platforms, hookVars, dialogVars
<1>5. CASE SetChannels(k)
  <2>1. listing' \in [Asks -> ListingRow] /\ cards' \subseteq Cards
    BY <1>1, <1>5, NothingAsked DEF SetChannels, ListingRow
  <2>2. QED
    BY <1>5, <2>1 DEF SetChannels, ScreenTyped, platforms, hookVars, dialogVars
<1>6. CASE FetchChannelsFails(k)
  <2>1. listing' \in [Asks -> ListingRow]
    BY <1>1, <1>6, NothingAsked DEF FetchChannelsFails
  <2>2. QED
    BY <1>6, <2>1 DEF FetchChannelsFails, ScreenTyped, platforms, hookVars, dialogVars
<1>7. CASE Deleted(k)
  <2>1. removal' \in RemovalRow /\ banner' \in BannerRow
    BY <1>1, <1>7 DEF Deleted, RemovalRow, BannerRow, AwayInv
  <2>2. QED
    BY <1>2, <1>7, <2>1 DEF Deleted, hookVars, ScreenTyped
<1>8. ASSUME NEW d \in Dialogs, Connected(d, k) PROVE ScreenTyped'
  <2>1. banner' \in BannerRow /\ dialog' \in [Dialogs -> DialogRow]
    BY <1>8, NothingAsked DEF Connected, BannerRow, Cards, ScreenTyped
  <2>2. QED
    BY <1>2, <1>8, <2>1 DEF Connected, hookVars, ScreenTyped
<1>9. QED
  BY <1>3, <1>4, <1>5, <1>6, <1>7, <1>8

LEMMA ElsewhereTyped ==
  ASSUME ScreenTyped, NEW c \in Cards, RemovedElsewhere(c)
  PROVE  ScreenTyped'
<1>1. listing' \in [Asks -> ListingRow]
  BY BehindTyped DEF RemovedElsewhere, ScreenTyped
<1>2. QED
  BY <1>1 DEF RemovedElsewhere, Behind, ScreenTyped, hookVars, dialogVars

LEMMA HookTyped ==
  ASSUME ScreenTyped, AwayInv, NEW k \in Asks,
         \/ (\E p \in FbPages : CheckWebhook(k, p) \/ FixWebhook(k, p))
         \/ SubscribeWebhook(k) \/ Recheck(k) \/ GetWebhookStatus(k) \/ SetWebhookStatus(k) \/ ProbeFails(k)
  PROVE  ScreenTyped'
<1>1. /\ probe[k] \in ProbeRow /\ probe \in [Asks -> ProbeRow] /\ health \in [FbPages -> HealthRow]
      /\ webhook \in [FbPages -> Words]
  BY DEF ScreenTyped
<1>2. UNCHANGED <<connected, botRow, cards, target, listing, dialog, removal, banner>>
  BY DEF CheckWebhook, FixWebhook, StartProbe, SubscribeWebhook, Recheck, GetWebhookStatus, SetWebhookStatus, ProbeFails,
     ShowHealth, platforms, listVars, dialogVars
<1>3. webhook' \in [FbPages -> Words]
  BY <1>1 DEF CheckWebhook, FixWebhook, StartProbe, SubscribeWebhook, Recheck, GetWebhookStatus, SetWebhookStatus,
     ProbeFails, ShowHealth, platforms, Words
<1>4. ASSUME NEW p, NEW w \in HealthRow, health' = [health EXCEPT ![p] = w]
      PROVE  health' \in [FbPages -> HealthRow]
  BY <1>1, <1>4
<1>5. ASSUME NEW r \in ProbeRow, probe' = [probe EXCEPT ![k] = r]
      PROVE  probe' \in [Asks -> ProbeRow]
  BY <1>1, <1>5
<1>6. /\ [NoWord EXCEPT !.loading = TRUE] \in HealthRow
      /\ \A w \in Words : [NoWord EXCEPT !.says = w] \in HealthRow
      /\ \A p \in FbPages : [health[p] EXCEPT !.fixing = TRUE] \in HealthRow
  BY <1>1 DEF NoWord, HealthRow, Words
<1>7. /\ \A r \in ProbeRow : \A pc \in {"check", "fixed"} : [r EXCEPT !.pc = pc] \in ProbeRow
      /\ \A p \in FbPages, pc \in {"check", "fix"} : [pc |-> pc, id |-> p, found |-> "nothing"] \in ProbeRow
      /\ \A w \in Words : [probe[k] EXCEPT !.pc = "answered", !.found = w] \in ProbeRow
  BY <1>1 DEF ProbeRow, Words
<1>8. ASSUME NEW p \in FbPages, CheckWebhook(k, p) PROVE health' \in [FbPages -> HealthRow] /\ probe' \in [Asks -> ProbeRow]
  BY <1>4, <1>5, <1>6, <1>7, <1>8 DEF CheckWebhook, StartProbe
<1>9. ASSUME NEW p \in FbPages, FixWebhook(k, p) PROVE health' \in [FbPages -> HealthRow] /\ probe' \in [Asks -> ProbeRow]
  <2>1. /\ health' = [health EXCEPT ![p] = [health[p] EXCEPT !.fixing = TRUE]]
        /\ probe' = [probe EXCEPT ![k] = [pc |-> "fix", id |-> p, found |-> "nothing"]]
    BY <1>1, <1>9 DEF FixWebhook, StartProbe
  <2>2. QED
    BY <1>4, <1>5, <1>6, <1>7, <2>1
<1>10. ASSUME SubscribeWebhook(k) PROVE health' \in [FbPages -> HealthRow] /\ probe' \in [Asks -> ProbeRow]
  <2>1. probe' = [probe EXCEPT ![k] = [probe[k] EXCEPT !.pc = "fixed"]] /\ UNCHANGED health
    BY <1>1, <1>10 DEF SubscribeWebhook
  <2>2. [probe[k] EXCEPT !.pc = "fixed"] \in ProbeRow
    BY <1>1 DEF ProbeRow
  <2>3. QED
    BY <1>1, <2>1, <2>2
<1>11. ASSUME Recheck(k) PROVE health' \in [FbPages -> HealthRow] /\ probe' \in [Asks -> ProbeRow]
  <2>1. /\ probe' = [probe EXCEPT ![k] = [probe[k] EXCEPT !.pc = "check"]]
        /\ health' = [health EXCEPT ![probe[k].id] = [NoWord EXCEPT !.loading = TRUE]]
    BY <1>1, <1>11 DEF Recheck
  <2>2. [probe[k] EXCEPT !.pc = "check"] \in ProbeRow
    BY <1>1 DEF ProbeRow
  <2>3. QED
    BY <1>1, <1>6, <2>1, <2>2
<1>12. ASSUME GetWebhookStatus(k) PROVE health' \in [FbPages -> HealthRow] /\ probe' \in [Asks -> ProbeRow]
  <2>1. probe[k].id \in Cards /\ probe[k].id \in FbPages \cup {NoCard}
    BY <1>1, <1>12 DEF GetWebhookStatus, ScreenTyped, ProbeRow
  <2>2. webhook[probe[k].id] \in Words
    BY <1>1, <2>1, ChannelPageAssumption DEF Cards, Dialogs
  <2>3. probe' = [probe EXCEPT ![k] = [probe[k] EXCEPT !.pc = "answered", !.found = webhook[probe[k].id]]]
    BY <1>1, <1>12 DEF GetWebhookStatus
  <2>4. [probe[k] EXCEPT !.pc = "answered", !.found = webhook[probe[k].id]] \in ProbeRow
    BY <1>7, <2>2
  <2>5. UNCHANGED health
    BY <1>12 DEF GetWebhookStatus
  <2>6. QED
    BY <1>1, <2>3, <2>4, <2>5
<1>13. ASSUME SetWebhookStatus(k) \/ ProbeFails(k)
       PROVE health' \in [FbPages -> HealthRow] /\ probe' \in [Asks -> ProbeRow]
  <2>1. PICK w \in Words : ShowHealth(k, w)
    BY <1>1, <1>13 DEF SetWebhookStatus, ProbeFails, Words, ProbeRow
  <2>2. [NoWord EXCEPT !.says = w] \in HealthRow /\ NoProbe \in ProbeRow
    BY <1>6, NothingAsked
  <2>3. /\ health' = [health EXCEPT ![probe[k].id] = [NoWord EXCEPT !.says = w]]
        /\ probe' = [probe EXCEPT ![k] = NoProbe]
    BY <2>1 DEF ShowHealth
  <2>4. QED
    BY <1>1, <2>2, <2>3
<1>14. health' \in [FbPages -> HealthRow] /\ probe' \in [Asks -> ProbeRow]
  BY <1>8, <1>9, <1>10, <1>11, <1>12, <1>13
<1>15. QED
  BY <1>2, <1>3, <1>14 DEF ScreenTyped

LEMMA DialogTyped ==
  ASSUME ScreenTyped, AwayInv,
         \/ \E c \in Cards : AskDelete(c)
         \/ CancelDelete \/ ConfirmDelete \/ RemoveConnection \/ DeleteFails
         \/ \E d \in Dialogs : OpenDialog(d) \/ CloseDialog(d) \/ TypeToken(d) \/ Connect(d)
         \/ \E d \in Dialogs : StoreConnection(d) \/ ConnectFails(d)
         \/ SetWebhook \/ ConnectFacebook
  PROVE  ScreenTyped'
<1>1. /\ dialog \in [Dialogs -> DialogRow] /\ removal \in RemovalRow /\ banner \in BannerRow
      /\ listing \in [Asks -> ListingRow] /\ target \in Cards \cup {NoCard} /\ botRow \in Nat /\ connected \subseteq Cards
  BY DEF ScreenTyped
<1>2. UNCHANGED <<webhook, health, probe, cards>>
  BY DEF AskDelete, CancelDelete, ConfirmDelete, RemoveConnection, DeleteFails, OpenDialog, CloseDialog, TypeToken,
     Connect, StoreConnection, ConnectFails, SetWebhook, ConnectFacebook, Behind, platforms, listVars, hookVars
<1>3. ASSUME NEW d, NEW r, r \in DialogRow \/ d \notin Dialogs, dialog' = [dialog EXCEPT ![d] = r]
      PROVE  dialog' \in [Dialogs -> DialogRow]
  BY <1>1, <1>3
<1>4. /\ \A d \in Dialogs : /\ \A x \in BOOLEAN : [dialog[d] EXCEPT !.open = x] \in DialogRow
                            /\ [dialog[d] EXCEPT !.typed = TRUE] \in DialogRow
                            /\ \A pc \in {"sent", "ready"} : [dialog[d] EXCEPT !.pc = pc] \in DialogRow
                            /\ \A pc \in {"idle", "stored", "ready"}, n \in Nat :
                                  [dialog[d] EXCEPT !.pc = pc, !.row = n] \in DialogRow
  BY <1>1 DEF DialogRow
<1>5. CASE \/ \E c \in Cards : AskDelete(c)
           \/ CancelDelete \/ ConnectFacebook
  <2>1. target' \in Cards \cup {NoCard} /\ UNCHANGED <<platforms, listVars, removal, dialog, banner>>
    BY <1>1, <1>5 DEF AskDelete, CancelDelete, ConnectFacebook, dialogVars
  <2>2. QED
    BY <1>2, <2>1 DEF ScreenTyped, platforms, listVars
<1>6. CASE ConfirmDelete
  <2>1. removal' \in RemovalRow /\ UNCHANGED <<platforms, listVars, target, dialog, banner>>
    BY <1>1, <1>6 DEF ConfirmDelete, RemovalRow
  <2>2. QED
    BY <1>2, <2>1 DEF ScreenTyped, platforms, listVars
<1>7. CASE DeleteFails
  <2>1. removal' \in RemovalRow /\ UNCHANGED <<platforms, listVars, target, dialog>>
    BY <1>1, <1>7 DEF DeleteFails, RemovalRow
  <2>2. banner' = [kind |-> "error", about |-> {removal.id}] /\ removal.pc # "idle"
    BY <1>7 DEF DeleteFails
  <2>3. banner' \in BannerRow
    BY <1>1, <2>2 DEF BannerRow, RemovalRow, AwayInv
  <2>4. QED
    BY <1>2, <2>1, <2>3 DEF ScreenTyped, platforms, listVars
<1>8. CASE RemoveConnection
  <2>1. removal.id \in Cards /\ connected' \subseteq Cards /\ Behind(removal.id)
    BY <1>1, <1>8 DEF RemoveConnection
  <2>2. listing' \in [Asks -> ListingRow]
    BY <1>1, <2>1, BehindTyped
  <2>3. removal' \in RemovalRow
    BY <1>1, <1>8 DEF RemoveConnection, RemovalRow
  <2>4. QED
    BY <1>2, <1>8, <2>1, <2>2, <2>3 DEF RemoveConnection, ScreenTyped
<1>9. ASSUME NEW d \in Dialogs, OpenDialog(d) \/ CloseDialog(d) \/ TypeToken(d) \/ Connect(d) PROVE ScreenTyped'
  <2>1. PICK r \in DialogRow : dialog' = [dialog EXCEPT ![d] = r]
    <3>1. CASE OpenDialog(d)
      <4>1. dialog' = [dialog EXCEPT ![d] = [dialog[d] EXCEPT !.open = TRUE]]
        BY <1>1, <3>1 DEF OpenDialog
      <4>2. QED
        BY <1>4, <4>1
    <3>2. CASE CloseDialog(d)
      <4>1. dialog' = [dialog EXCEPT ![d] = [dialog[d] EXCEPT !.open = FALSE]]
        BY <1>1, <3>2 DEF CloseDialog
      <4>2. QED
        BY <1>4, <4>1
    <3>3. CASE TypeToken(d)
      <4>1. dialog' = [dialog EXCEPT ![d] = [dialog[d] EXCEPT !.typed = TRUE]]
        BY <1>1, <3>3 DEF TypeToken
      <4>2. QED
        BY <1>4, <4>1
    <3>4. CASE Connect(d)
      <4>1. dialog' = [dialog EXCEPT ![d] = [dialog[d] EXCEPT !.pc = "sent"]]
        BY <1>1, <3>4 DEF Connect
      <4>2. QED
        BY <1>4, <4>1
    <3>5. QED
      BY <1>9, <3>1, <3>2, <3>3, <3>4
  <2>2. UNCHANGED <<platforms, listVars, target, removal, banner>>
    BY <1>9 DEF OpenDialog, CloseDialog, TypeToken, Connect
  <2>3. QED
    BY <1>2, <1>3, <2>1, <2>2 DEF ScreenTyped, platforms, listVars
<1>10. ASSUME NEW d \in Dialogs, StoreConnection(d) PROVE ScreenTyped'
  <2>1. d \in Cards /\ connected' \subseteq Cards /\ botRow' \in Nat /\ Behind(d)
    BY <1>1, <1>10 DEF StoreConnection, Cards
  <2>2. listing' \in [Asks -> ListingRow]
    BY <1>1, <2>1, BehindTyped
  <2>3. PICK pc \in {"stored", "ready"} : dialog' = [dialog EXCEPT ![d] = [dialog[d] EXCEPT !.pc = pc, !.row = botRow']]
    BY <1>1, <1>10 DEF StoreConnection
  <2>4. dialog' \in [Dialogs -> DialogRow]
    BY <1>3, <1>4, <2>1, <2>3
  <2>5. QED
    BY <1>2, <1>10, <2>1, <2>2, <2>4 DEF StoreConnection, ScreenTyped
<1>11. ASSUME NEW d \in Dialogs, ConnectFails(d) PROVE ScreenTyped'
  <2>1. dialog' = [dialog EXCEPT ![d] = [dialog[d] EXCEPT !.pc = "idle", !.row = 0]]
    BY <1>1, <1>11 DEF ConnectFails
  <2>2. dialog' \in [Dialogs -> DialogRow]
    BY <1>3, <1>4, <2>1
  <2>3. banner' \in BannerRow
    BY <1>1, <1>11 DEF ConnectFails, BannerRow, Cards
  <2>4. QED
    BY <1>2, <1>11, <2>2, <2>3 DEF ConnectFails, ScreenTyped, platforms, listVars
<1>12. CASE SetWebhook
  <2>1. Bot \in Dialogs /\ dialog' = [dialog EXCEPT ![Bot] = [dialog[Bot] EXCEPT !.pc = "ready"]]
    BY <1>1, <1>12 DEF SetWebhook, Dialogs
  <2>2. dialog' \in [Dialogs -> DialogRow]
    BY <1>3, <1>4, <2>1
  <2>3. QED
    BY <1>2, <1>12, <2>2 DEF SetWebhook, ScreenTyped, listVars
<1>13. QED
  BY <1>5, <1>6, <1>7, <1>8, <1>9, <1>10, <1>11, <1>12

\* How a check or a repair moves: one probe at most changes, and it is of the page that it was of, or done.
LEMMA ProbeMoves ==
  ASSUME ScreenTyped, AwayInv, NEW k \in Asks,
         \/ (\E p \in FbPages : CheckWebhook(k, p) \/ FixWebhook(k, p))
         \/ SubscribeWebhook(k) \/ Recheck(k) \/ GetWebhookStatus(k) \/ SetWebhookStatus(k) \/ ProbeFails(k)
  PROVE  /\ \A j \in Asks \ {k} : probe'[j] = probe[j]
         /\ ~away /\ away' = away
         /\ (probe'[k].pc = "idle" => probe'[k].id = NoCard) /\ (probe'[k].id = NoCard => probe'[k].pc = "idle")
         /\ UNCHANGED <<target, removal, dialog, banner, touched, deaf, connected, botRow, botHook>>
         /\ UNCHANGED listVars
<1>1. probe \in [Asks -> ProbeRow] /\ probe[k] \in ProbeRow
  BY DEF ScreenTyped
<1>2. UNCHANGED <<away, target, removal, dialog, banner, touched, deaf, connected, botRow, botHook>> /\ UNCHANGED listVars
  BY DEF CheckWebhook, FixWebhook, StartProbe, SubscribeWebhook, Recheck, GetWebhookStatus, SetWebhookStatus, ProbeFails,
     ShowHealth, platforms, dialogVars
<1>3. ASSUME NEW p \in FbPages, CheckWebhook(k, p) \/ FixWebhook(k, p)
      PROVE  /\ ~away /\ \A j \in Asks \ {k} : probe'[j] = probe[j]
             /\ probe'[k].pc # "idle" /\ probe'[k].id # NoCard
  <2>1. PICK pc \in {"check", "fix"} : StartProbe(k, p, pc)
    BY <1>3 DEF CheckWebhook, FixWebhook
  <2>2. QED
    BY <1>1, <2>1, ChannelPageAssumption DEF StartProbe, OnCards
<1>4. ASSUME SubscribeWebhook(k) \/ Recheck(k) \/ GetWebhookStatus(k)
      PROVE  /\ ~away /\ \A j \in Asks \ {k} : probe'[j] = probe[j]
             /\ probe[k].pc # "idle" /\ probe'[k].pc # "idle" /\ probe'[k].id = probe[k].id
  <2>1. probe[k].pc # "idle"
    BY <1>4 DEF SubscribeWebhook, Recheck, GetWebhookStatus
  <2>2. CASE SubscribeWebhook(k)
    BY <1>1, <2>1, <2>2 DEF SubscribeWebhook, AwayInv, ProbeRow
  <2>3. CASE Recheck(k)
    BY <1>1, <2>1, <2>3 DEF Recheck, AwayInv, ProbeRow
  <2>4. CASE GetWebhookStatus(k)
    BY <1>1, <2>1, <2>4 DEF GetWebhookStatus, AwayInv, ProbeRow
  <2>5. QED
    BY <1>4, <2>2, <2>3, <2>4
<1>5. ASSUME SetWebhookStatus(k) \/ ProbeFails(k)
      PROVE  ~away /\ (\A j \in Asks \ {k} : probe'[j] = probe[j]) /\ probe'[k] = NoProbe
  <2>1. probe[k].pc # "idle" /\ probe' = [probe EXCEPT ![k] = NoProbe]
    BY <1>5 DEF SetWebhookStatus, ProbeFails, ShowHealth
  <2>2. QED
    BY <1>1, <2>1 DEF AwayInv
<1>6. NoProbe.pc = "idle" /\ NoProbe.id = NoCard
  BY DEF NoProbe
<1>7. (~away /\ \A j \in Asks \ {k} : probe'[j] = probe[j])
      /\ (probe'[k].pc = "idle" => probe'[k].id = NoCard) /\ (probe'[k].id = NoCard => probe'[k].pc = "idle")
  <2>1. CASE \E p \in FbPages : CheckWebhook(k, p) \/ FixWebhook(k, p)
    BY <1>3, <2>1
  <2>2. CASE SubscribeWebhook(k) \/ Recheck(k) \/ GetWebhookStatus(k)
    BY <1>4, <2>2 DEF AwayInv
  <2>3. CASE SetWebhookStatus(k) \/ ProbeFails(k)
    BY <1>5, <1>6, <2>3
  <2>4. QED
    BY <2>1, <2>2, <2>3
<1>8. QED
  BY <1>2, <1>7

\* While the browser is at Facebook, nothing of the page goes on that a return could cross.
LEMMA AbroadStep ==
  ASSUME ScreenTyped, AwayInv, ChannelPageNext
  PROVE  AwayInv'
<1>1. /\ dialog \in [Dialogs -> DialogRow] /\ removal \in RemovalRow /\ target \in Cards \cup {NoCard}
      /\ connected \subseteq Cards /\ NoCard \notin Cards
  BY ChannelPageAssumption DEF ScreenTyped, Cards, Dialogs
<1>2. ASSUME NEW k \in Asks,
             \/ (\E p \in FbPages : CheckWebhook(k, p) \/ FixWebhook(k, p))
             \/ SubscribeWebhook(k) \/ Recheck(k) \/ GetWebhookStatus(k) \/ SetWebhookStatus(k) \/ ProbeFails(k)
      PROVE  AwayInv'
  BY <1>2, ProbeMoves DEF AwayInv
<1>3. CASE \/ \E k \in Asks : FirstFetch(k) \/ GetConnections(k) \/ SetChannels(k) \/ FetchChannelsFails(k)
           \/ \E c \in Cards : RemovedElsewhere(c)
           \/ \E p \in FbPages, w \in {"none", "bare", "full"} : HookChanges(p, w)
  <2>1. UNCHANGED <<away, target, removal, probe, dialog>>
    BY <1>3 DEF FirstFetch, GetConnections, SetChannels, FetchChannelsFails, RemovedElsewhere, HookChanges, hookVars,
       dialogVars
  <2>2. QED
    BY <2>1 DEF AwayInv
<1>4. CASE (\E c \in Cards : AskDelete(c)) \/ CancelDelete
  <2>1. UNCHANGED <<away, removal, probe, dialog>> /\ (~away \/ target' = NoCard)
    BY <1>4 DEF AskDelete, CancelDelete, OnCards, hookVars
  <2>2. QED
    BY <2>1 DEF AwayInv
<1>5. CASE ConfirmDelete \/ RemoveConnection \/ DeleteFails \/ \E k \in Asks : Deleted(k)
  <2>1. ~away /\ UNCHANGED <<away, probe, dialog>>
    BY <1>5 DEF ConfirmDelete, RemoveConnection, DeleteFails, Deleted, hookVars, AwayInv
  <2>2. CASE ConfirmDelete
    BY <1>1, <2>1, <2>2 DEF ConfirmDelete, AwayInv
  <2>3. CASE RemoveConnection
    BY <1>1, <2>1, <2>3 DEF RemoveConnection, AwayInv, RemovalRow
  <2>4. CASE DeleteFails \/ \E k \in Asks : Deleted(k)
    BY <2>1, <2>4 DEF DeleteFails, Deleted, AwayInv
  <2>5. QED
    BY <1>5, <2>2, <2>3, <2>4
<1>6. ASSUME NEW d \in Dialogs, OpenDialog(d) \/ CloseDialog(d) \/ TypeToken(d) \/ Connect(d) PROVE AwayInv'
  <2>1. ~away /\ UNCHANGED <<away, removal, probe, target>>
    BY <1>6 DEF OpenDialog, CloseDialog, TypeToken, Connect, OnCards, hookVars, AwayInv
  <2>2. QED
    BY <2>1 DEF AwayInv
<1>7. ASSUME NEW d \in Dialogs, StoreConnection(d) \/ ConnectFails(d) \/ (\E k \in Asks : Connected(d, k)) PROVE AwayInv'
  <2>1. ~away /\ UNCHANGED <<away, removal, probe, target>>
    BY <1>7 DEF StoreConnection, ConnectFails, Connected, hookVars, AwayInv
  <2>2. QED
    BY <2>1 DEF AwayInv
<1>8. CASE SetWebhook
  <2>1. ~away /\ UNCHANGED <<away, removal, probe, target>>
    BY <1>8 DEF SetWebhook, hookVars, AwayInv, Dialogs
  <2>2. QED
    BY <2>1 DEF AwayInv
<1>9. CASE ConnectFacebook
  <2>1. /\ target = NoCard /\ removal.pc = "idle" /\ \A k \in Asks : probe[k].pc = "idle"
        /\ \A d \in Dialogs : ~dialog[d].open /\ dialog[d].pc = "idle"
        /\ UNCHANGED <<removal, probe, target, dialog>>
    BY <1>9 DEF ConnectFacebook, OnCards, Covered, hookVars, dialogVars
  <2>2. QED
    BY <2>1 DEF AwayInv
<1>10. CASE \E some, subscribed \in SUBSET FbPages, failed \in BOOLEAN : FacebookCallback(some, subscribed, failed)
  <2>1. ~away' /\ UNCHANGED <<removal, probe>>
    BY <1>10 DEF FacebookCallback
  <2>2. QED
    BY <2>1 DEF AwayInv
<1>11. ASSUME NEW k \in Asks,
              \/ FirstFetch(k) \/ GetConnections(k) \/ SetChannels(k) \/ FetchChannelsFails(k)
              \/ (\E p \in FbPages : CheckWebhook(k, p) \/ FixWebhook(k, p))
              \/ SubscribeWebhook(k) \/ Recheck(k) \/ GetWebhookStatus(k) \/ SetWebhookStatus(k) \/ ProbeFails(k)
              \/ Deleted(k) \/ (\E d \in Dialogs : Connected(d, k))
       PROVE  AwayInv'
  <2>1. CASE FirstFetch(k) \/ GetConnections(k) \/ SetChannels(k) \/ FetchChannelsFails(k)
    BY <1>3, <2>1
  <2>2. CASE Deleted(k)
    BY <1>5, <2>2
  <2>3. CASE \E d \in Dialogs : Connected(d, k)
    BY <1>7, <2>3
  <2>4. QED
    BY <1>2, <1>11, <2>1, <2>2, <2>3
<1>12. ASSUME NEW d \in Dialogs,
              \/ OpenDialog(d) \/ CloseDialog(d) \/ TypeToken(d) \/ Connect(d)
              \/ StoreConnection(d) \/ ConnectFails(d)
       PROVE  AwayInv'
  BY <1>6, <1>7, <1>12
<1>13. QED
  BY <1>3, <1>4, <1>5, <1>8, <1>9, <1>10, <1>11, <1>12 DEF ChannelPageNext

\* The browser comes back to a page that begins anew.
LEMMA CallbackKeeps ==
  ASSUME PageInv, NEW some \in SUBSET FbPages, NEW subscribed \in SUBSET FbPages, NEW failed \in BOOLEAN,
         FacebookCallback(some, subscribed, failed)
  PROVE  ScreenTyped' /\ CardsInv' /\ CheckInv' /\ ToldInv' /\ BotInv'
<1>1. /\ away /\ connected' = connected \cup some /\ touched' = touched \ some /\ some \subseteq FbPages
      /\ webhook' = [p \in FbPages |-> IF p \in subscribed THEN "full" ELSE webhook[p]]
      /\ banner' = IF failed THEN [kind |-> "error", about |-> {}] ELSE [kind |-> "connected", about |-> some]
      /\ cards' = {} /\ waiting' = TRUE
      /\ health' = [p \in FbPages |-> NoWord] /\ dialog' = [d \in Dialogs |-> NoTalk]
      /\ UNCHANGED <<botRow, botHook, probe, target, removal, deaf>>
  BY DEF FacebookCallback
<1>2. PICK k \in Asks : listing' = [NoLists EXCEPT ![k].pc = "asked"]
  BY DEF FacebookCallback
<1>3. /\ NoLists \in [Asks -> ListingRow] /\ NoWord \in HealthRow /\ NoTalk \in DialogRow
      /\ NoWord.says = "nothing" /\ NoTalk.pc = "idle"
  BY NothingAsked DEF NoWord, NoTalk
<1>4. listing' \in [Asks -> ListingRow] /\ \A j \in Asks : listing'[j].pc # "answered"
  BY <1>2, <1>3 DEF ListingRow, NoLists, NoList
<1>5. some \subseteq Cards /\ banner' \in BannerRow
  BY <1>1 DEF BannerRow, Cards
<1>6. ScreenTyped'
  <2>1. ScreenTyped
    BY DEF PageInv
  <2>2. webhook' \in [FbPages -> Words]
    BY <1>1, <2>1 DEF ScreenTyped, Words
  <2>3. health' \in [FbPages -> HealthRow] /\ dialog' \in [Dialogs -> DialogRow]
    BY <1>1, <1>3
  <2>4. QED
    BY <1>1, <1>4, <1>5, <2>1, <2>2, <2>3 DEF ScreenTyped
<1>7. CardsInv'
  BY <1>1, <1>4 DEF CardsInv
<1>8. CheckInv'
  <2>1. \A j \in Asks : probe[j].id = NoCard
    BY <1>1 DEF PageInv, AwayInv
  <2>2. \A p \in FbPages : p # NoCard /\ health'[p].says = "nothing"
    BY <1>1, <1>3, ChannelPageAssumption
  <2>3. QED
    BY <1>1, <2>1, <2>2 DEF CheckInv, ChecksOne
<1>9. ToldInv'
  <2>1. removal.pc = "idle" /\ \A d \in Dialogs : dialog'[d].pc = "idle"
    BY <1>1, <1>3 DEF PageInv, AwayInv
  <2>2. \A c \in banner'.about : banner'.kind = "connected" /\ c \in connected'
    BY <1>1
  <2>3. QED
    BY <1>1, <2>1, <2>2 DEF ToldInv
<1>10. BotInv'
  <2>1. Bot \in Dialogs /\ Bot \notin FbPages
    BY ChannelPageAssumption DEF Dialogs
  <2>2. dialog'[Bot].pc = "idle" /\ dialog[Bot].pc = "idle" /\ (Bot \in connected' => Bot \in connected)
    BY <1>1, <1>3, <2>1 DEF PageInv, AwayInv
  <2>3. QED
    BY <1>1, <2>2 DEF PageInv, BotInv
<1>11. QED
  BY <1>6, <1>7, <1>8, <1>9, <1>10

LEMMA ScreenTypedStep ==
  ASSUME PageInv, ChannelPageNext
  PROVE  ScreenTyped'
<1>1. ScreenTyped /\ AwayInv
  BY DEF PageInv
<1>2. CASE \E p \in FbPages, w \in {"none", "bare", "full"} : HookChanges(p, w)
  <2>1. webhook' \in [FbPages -> Words]
    BY <1>1, <1>2 DEF HookChanges, ScreenTyped, Words
  <2>2. UNCHANGED <<connected, botRow, cards, target, listing, dialog, removal, banner, health, probe>>
    BY <1>2 DEF HookChanges, listVars, dialogVars
  <2>3. QED
    BY <1>1, <2>1, <2>2 DEF ScreenTyped
<1>3. CASE \E some, subscribed \in SUBSET FbPages, failed \in BOOLEAN : FacebookCallback(some, subscribed, failed)
  BY <1>3, CallbackKeeps
<1>4. CASE \E k \in Asks :
              \/ FirstFetch(k) \/ GetConnections(k) \/ SetChannels(k) \/ FetchChannelsFails(k)
              \/ Deleted(k) \/ (\E d \in Dialogs : Connected(d, k))
  BY <1>1, <1>4, ListTyped
<1>5. CASE \E c \in Cards : RemovedElsewhere(c)
  BY <1>1, <1>5, ElsewhereTyped
<1>6. CASE \E k \in Asks :
             \/ (\E p \in FbPages : CheckWebhook(k, p) \/ FixWebhook(k, p))
             \/ SubscribeWebhook(k) \/ Recheck(k) \/ GetWebhookStatus(k) \/ SetWebhookStatus(k) \/ ProbeFails(k)
  BY <1>1, <1>6, HookTyped
<1>7. QED
  BY <1>1, <1>2, <1>3, <1>4, <1>5, <1>6, DialogTyped DEF ChannelPageNext

LEMMA BehindCards ==
  ASSUME ScreenTyped, CardsInv, NEW c \in Cards, Behind(c), \A d \in Cards \ {c} : d \in connected' <=> d \in connected
  PROVE  CardsInv'
<1>1. /\ foreign' = foreign \cup {c} /\ UNCHANGED <<cards, waiting, sole>>
      /\ \A k \in Asks : listing'[k] = IF listing[k].pc = "answered" THEN [listing[k] EXCEPT !.foreign = @ \cup {c}]
                                       ELSE listing[k]
  BY DEF Behind
<1>2. ASSUME NEW k \in Asks, listing'[k].pc = "answered"
      PROVE  /\ listing[k].pc = "answered" /\ listing'[k].cards = listing[k].cards
             /\ listing'[k].foreign = listing[k].foreign \cup {c}
  <2>1. listing[k] \in ListingRow
    BY DEF ScreenTyped
  <2>2. listing[k].pc = "answered"
    BY <1>1, <1>2
  <2>3. listing'[k] = [listing[k] EXCEPT !.foreign = @ \cup {c}]
    BY <1>1, <2>2
  <2>4. QED
    BY <2>1, <2>2, <2>3 DEF ListingRow
<1>3. ASSUME NEW shown, NEW about, Truly(shown, about)
      PROVE  \A d \in Cards \ (about \cup {c}) : (d \in shown => d \in connected') /\ (d \in connected' => d \in shown)
  BY <1>3 DEF Truly
<1>4. sole' /\ ~waiting' => Truly(cards, foreign)
  BY <1>1 DEF CardsInv
<1>5. \A k \in Asks : listing'[k].pc = "answered" => Truly(listing[k].cards, listing[k].foreign)
  BY <1>2 DEF CardsInv
<1>6. sole' /\ ~waiting' => \A d \in Cards \ foreign' : (d \in cards' => d \in connected') /\ (d \in connected' => d \in cards')
  BY <1>1, <1>3, <1>4
<1>7. \A k \in Asks : listing'[k].pc = "answered" =>
          \A d \in Cards \ listing'[k].foreign :
              (d \in listing'[k].cards => d \in connected') /\ (d \in connected' => d \in listing'[k].cards)
  <2> SUFFICES ASSUME NEW k \in Asks, listing'[k].pc = "answered"
               PROVE  \A d \in Cards \ listing'[k].foreign :
                          (d \in listing'[k].cards => d \in connected') /\ (d \in connected' => d \in listing'[k].cards)
    OBVIOUS
  <2>1. Truly(listing[k].cards, listing[k].foreign)
    BY <1>5
  <2>2. \A d \in Cards \ (listing[k].foreign \cup {c}) :
            (d \in listing[k].cards => d \in connected') /\ (d \in connected' => d \in listing[k].cards)
    BY <1>3, <2>1
  <2>3. QED
    BY <1>2, <2>2
<1>8. QED
  BY <1>6, <1>7 DEF CardsInv, Truly

LEMMA FetchedCards ==
  ASSUME ScreenTyped, CardsInv, NEW k \in Asks, FetchChannels(k), UNCHANGED connected
  PROVE  CardsInv'
<1>1. waiting' = TRUE /\ \A j \in Asks : listing'[j].pc = "answered" => listing'[j] = listing[j]
  BY DEF FetchChannels, ScreenTyped, ListingRow
<1>2. QED
  BY <1>1 DEF CardsInv, Truly

LEMMA ListCards ==
  ASSUME ScreenTyped, CardsInv, NEW k \in Asks,
         GetConnections(k) \/ SetChannels(k) \/ FetchChannelsFails(k)
  PROVE  CardsInv'
<1>1. listing \in [Asks -> ListingRow] /\ UNCHANGED connected
  BY DEF ScreenTyped, GetConnections, SetChannels, FetchChannelsFails, platforms
<1>2. CASE GetConnections(k)
  <2>1. /\ listing'[k] = [pc |-> "answered", cards |-> connected, foreign |-> {}]
        /\ \A j \in Asks \ {k} : listing'[j] = listing[j]
        /\ UNCHANGED <<cards, foreign, waiting, sole>>
    BY <1>1, <1>2 DEF GetConnections
  <2>2. Truly(listing'[k].cards, listing'[k].foreign)
    BY <2>1 DEF Truly
  <2>3. \A j \in Asks \ {k} : listing'[j].pc = "answered" => Truly(listing'[j].cards, listing'[j].foreign)
    BY <2>1 DEF CardsInv
  <2>4. \A j \in Asks : listing'[j].pc = "answered" => Truly(listing'[j].cards, listing'[j].foreign)
    BY <2>2, <2>3
  <2>5. sole' /\ ~waiting' => Truly(cards', foreign')
    BY <2>1 DEF CardsInv
  <2>6. QED
    BY <1>1, <2>4, <2>5 DEF CardsInv, Truly
<1>3. CASE SetChannels(k)
  <2>1. /\ listing[k].pc = "answered" /\ cards' = listing[k].cards /\ foreign' = listing[k].foreign
        /\ listing' = [listing EXCEPT ![k] = NoList]
    BY <1>3 DEF SetChannels
  <2>2. \A j \in Asks : listing'[j].pc = "answered" => listing'[j] = listing[j]
    BY <1>1, <2>1 DEF NoList
  <2>3. Truly(cards', foreign')
    BY <2>1 DEF CardsInv
  <2>4. QED
    BY <1>1, <2>2, <2>3 DEF CardsInv, Truly
<1>4. CASE FetchChannelsFails(k)
  <2>1. ~sole' /\ listing' = [listing EXCEPT ![k] = NoList]
    BY <1>4 DEF FetchChannelsFails
  <2>2. \A j \in Asks : listing'[j].pc = "answered" => listing'[j] = listing[j]
    BY <1>1, <2>1 DEF NoList
  <2>3. QED
    BY <1>1, <2>1, <2>2 DEF CardsInv, Truly
<1>5. QED
  BY <1>2, <1>3, <1>4

LEMMA CardsStep ==
  ASSUME PageInv, ChannelPageNext
  PROVE  CardsInv'
<1>1. ScreenTyped /\ AwayInv /\ CardsInv /\ connected \subseteq Cards
  BY DEF PageInv, ScreenTyped
<1>2. ASSUME UNCHANGED connected, UNCHANGED listVars PROVE CardsInv'
  BY <1>1, <1>2 DEF listVars, CardsInv, Truly
<1>3. CASE \/ \E p \in FbPages, w \in {"none", "bare", "full"} : HookChanges(p, w)
           \/ \E c \in Cards : AskDelete(c)
           \/ CancelDelete \/ ConfirmDelete \/ DeleteFails \/ SetWebhook \/ ConnectFacebook
           \/ \E d \in Dialogs : OpenDialog(d) \/ CloseDialog(d) \/ TypeToken(d) \/ Connect(d) \/ ConnectFails(d)
  <2>1. UNCHANGED connected /\ UNCHANGED listVars
    BY <1>3 DEF HookChanges, AskDelete, CancelDelete, ConfirmDelete, DeleteFails, SetWebhook, ConnectFacebook,
       OpenDialog, CloseDialog, TypeToken, Connect, ConnectFails, platforms
  <2>2. QED
    BY <1>2, <2>1
<1>4. ASSUME NEW k \in Asks,
             \/ (\E p \in FbPages : CheckWebhook(k, p) \/ FixWebhook(k, p))
             \/ SubscribeWebhook(k) \/ Recheck(k) \/ GetWebhookStatus(k) \/ SetWebhookStatus(k) \/ ProbeFails(k)
      PROVE  CardsInv'
  BY <1>1, <1>2, <1>4, ProbeMoves
<1>5. ASSUME NEW k \in Asks, FirstFetch(k) \/ Deleted(k) \/ (\E d \in Dialogs : Connected(d, k)) PROVE CardsInv'
  <2>1. FetchChannels(k) /\ UNCHANGED connected
    BY <1>5 DEF FirstFetch, Deleted, Connected, platforms
  <2>2. QED
    BY <1>1, <2>1, FetchedCards
<1>6. ASSUME NEW c \in Cards, RemovedElsewhere(c) PROVE CardsInv'
  <2>1. Behind(c) /\ \A d \in Cards \ {c} : d \in connected' <=> d \in connected
    BY <1>6 DEF RemovedElsewhere
  <2>2. QED
    BY <1>1, <2>1, BehindCards
<1>7. CASE RemoveConnection
  <2>1. removal.id \in Cards /\ Behind(removal.id) /\ \A d \in Cards \ {removal.id} : d \in connected' <=> d \in connected
    BY <1>1, <1>7 DEF RemoveConnection
  <2>2. QED
    BY <1>1, <2>1, BehindCards
<1>8. ASSUME NEW d \in Dialogs, StoreConnection(d) PROVE CardsInv'
  <2>1. d \in Cards /\ Behind(d) /\ \A c \in Cards \ {d} : c \in connected' <=> c \in connected
    BY <1>8 DEF StoreConnection, Cards
  <2>2. QED
    BY <1>1, <2>1, BehindCards
<1>9. CASE \E some, subscribed \in SUBSET FbPages, failed \in BOOLEAN : FacebookCallback(some, subscribed, failed)
  BY <1>9, CallbackKeeps
<1>10. ASSUME NEW k \in Asks,
              \/ FirstFetch(k) \/ GetConnections(k) \/ SetChannels(k) \/ FetchChannelsFails(k)
              \/ (\E p \in FbPages : CheckWebhook(k, p) \/ FixWebhook(k, p))
              \/ SubscribeWebhook(k) \/ Recheck(k) \/ GetWebhookStatus(k) \/ SetWebhookStatus(k) \/ ProbeFails(k)
              \/ Deleted(k) \/ (\E d \in Dialogs : Connected(d, k))
       PROVE  CardsInv'
  <2>1. CASE GetConnections(k) \/ SetChannels(k) \/ FetchChannelsFails(k)
    BY <1>1, <2>1, ListCards
  <2>2. QED
    BY <1>4, <1>5, <1>10, <2>1
<1>11. ASSUME NEW d \in Dialogs,
              \/ OpenDialog(d) \/ CloseDialog(d) \/ TypeToken(d) \/ Connect(d)
              \/ StoreConnection(d) \/ ConnectFails(d)
       PROVE  CardsInv'
  <2>1. CASE StoreConnection(d)
    BY <1>8, <2>1
  <2>2. QED
    BY <1>3, <1>11, <2>1
<1>12. QED
  BY <1>3, <1>6, <1>7, <1>9, <1>10, <1>11 DEF ChannelPageNext

\* What happens to the probe of one page does not bear on the others.
LEMMA OthersChecked ==
  ASSUME CheckInv, NEW k \in Asks, NEW q \in FbPages, \A j \in Asks \ {k} : probe'[j] = probe[j],
         \A p \in FbPages \ {q} : /\ health'[p] = health[p] /\ webhook'[p] = webhook[p] /\ (p \in unsure' <=> p \in unsure)
                                  /\ probe[k].id # p /\ probe'[k].id # p,
         q \notin unsure' => ChecksOne(q)'
  PROVE  CheckInv'
<1>1. ASSUME NEW p \in FbPages \ {q}, p \notin unsure' PROVE ChecksOne(p)'
  <2>1. ChecksOne(p)
    BY <1>1 DEF CheckInv
  <2>2. \A j \in Asks : (probe'[j].id = p <=> probe[j].id = p) /\ (probe[j].id = p => probe'[j] = probe[j])
    BY <1>1
  <2>3. health'[p] = health[p] /\ webhook'[p] = webhook[p]
    BY <1>1
  <2>4. QED
    BY <2>1, <2>2, <2>3 DEF ChecksOne
<1>2. QED
  BY <1>1 DEF CheckInv

\* A check or a repair begins: it is the only one, or its page is unsure.
LEMMA ProbeBegins ==
  ASSUME ScreenTyped, AwayInv, CheckInv, NEW k \in Asks, NEW q \in FbPages, CheckWebhook(k, q) \/ FixWebhook(k, q)
  PROVE  CheckInv'
<1>1. /\ probe \in [Asks -> ProbeRow] /\ health \in [FbPages -> HealthRow] /\ NoCard \notin FbPages
  BY ChannelPageAssumption DEF ScreenTyped
<1>2. PICK pc \in {"check", "fix"} : StartProbe(k, q, pc)
  BY DEF CheckWebhook, FixWebhook
<1>3. /\ probe' = [probe EXCEPT ![k] = [pc |-> pc, id |-> q, found |-> "nothing"]] /\ UNCHANGED webhook
      /\ unsure' = (IF Probing(q) = {} THEN unsure \ {q} ELSE unsure \cup {q}) /\ probe[k].pc = "idle"
  BY <1>2 DEF StartProbe, platforms
<1>4. probe'[k] = [pc |-> pc, id |-> q, found |-> "nothing"] /\ \A j \in Asks \ {k} : probe'[j] = probe[j]
  BY <1>1, <1>3
<1>5. \A p \in FbPages \ {q} : health'[p] = health[p]
  BY <1>1 DEF CheckWebhook, FixWebhook
<1>6. probe[k].id = NoCard /\ probe'[k].id = q /\ probe'[k].pc # "answered"
  BY <1>3, <1>4 DEF AwayInv
<1>7. ASSUME q \notin unsure' PROVE ChecksOne(q)'
  <2>1. \A j \in Asks : probe[j].id # q
    BY <1>3, <1>7 DEF Probing
  <2>2. \A j \in Asks : probe'[j].id = q => j = k
    BY <1>4, <2>1
  <2>3. QED
    BY <1>6, <2>2 DEF ChecksOne
<1>8. \A p \in FbPages \ {q} : p \in unsure' <=> p \in unsure
  BY <1>3
<1>9. QED
  BY <1>1, <1>3, <1>4, <1>5, <1>6, <1>7, <1>8, OthersChecked

\* A check or a repair goes on.
LEMMA ProbeGoesOn ==
  ASSUME ScreenTyped, AwayInv, CheckInv, NEW k \in Asks, SubscribeWebhook(k) \/ Recheck(k) \/ GetWebhookStatus(k)
  PROVE  CheckInv'
<1>1. /\ probe \in [Asks -> ProbeRow] /\ probe[k] \in ProbeRow /\ health \in [FbPages -> HealthRow]
      /\ webhook \in [FbPages -> Words] /\ probe[k].pc # "idle"
  BY DEF ScreenTyped, SubscribeWebhook, Recheck, GetWebhookStatus
<1>2. PICK q \in FbPages : q = probe[k].id
  BY <1>1 DEF AwayInv, ProbeRow
<1>3. UNCHANGED unsure /\ \A p \in FbPages \ {q} : health'[p] = health[p] /\ webhook'[p] = webhook[p]
  BY <1>1, <1>2 DEF SubscribeWebhook, Recheck, GetWebhookStatus, platforms
<1>4. /\ \A j \in Asks \ {k} : probe'[j] = probe[j]
      /\ probe'[k].id = q /\ (probe'[k].pc = "answered" => probe'[k].found = webhook'[q])
  <2>1. CASE SubscribeWebhook(k)
    BY <1>1, <1>2, <2>1 DEF SubscribeWebhook, ProbeRow
  <2>2. CASE Recheck(k)
    BY <1>1, <1>2, <2>2 DEF Recheck, ProbeRow
  <2>3. CASE GetWebhookStatus(k)
    BY <1>1, <1>2, <2>3 DEF GetWebhookStatus, ProbeRow, platforms
  <2>4. QED
    BY <2>1, <2>2, <2>3
<1>5. ASSUME q \notin unsure' PROVE ChecksOne(q)'
  <2>1. \A j \in Asks : probe[j].id = q => j = k
    BY <1>2, <1>3, <1>5 DEF CheckInv, ChecksOne
  <2>2. \A j \in Asks : probe'[j].id = q => j = k
    BY <1>4, <2>1
  <2>3. QED
    BY <1>4, <2>2 DEF ChecksOne
<1>6. QED
  BY <1>2, <1>3, <1>4, <1>5, OthersChecked

\* A check ends, with what Meta holds or with an error.
LEMMA ProbeEnds ==
  ASSUME ScreenTyped, AwayInv, CheckInv, NEW k \in Asks, SetWebhookStatus(k) \/ ProbeFails(k)
  PROVE  CheckInv'
<1>1. /\ probe \in [Asks -> ProbeRow] /\ probe[k] \in ProbeRow /\ health \in [FbPages -> HealthRow]
      /\ probe[k].pc # "idle"
  BY DEF ScreenTyped, SetWebhookStatus, ProbeFails
<1>2. PICK q \in FbPages : q = probe[k].id
  BY <1>1 DEF AwayInv, ProbeRow
<1>3. PICK word : /\ ShowHealth(k, word)
                  /\ word = "error" \/ (probe[k].pc = "answered" /\ word = probe[k].found)
  BY DEF SetWebhookStatus, ProbeFails
<1>4. /\ health' = [health EXCEPT ![q] = [NoWord EXCEPT !.says = word]] /\ probe' = [probe EXCEPT ![k] = NoProbe]
      /\ UNCHANGED unsure /\ UNCHANGED webhook
  BY <1>2, <1>3 DEF ShowHealth, platforms
<1>5. /\ health'[q].says = word /\ \A p \in FbPages \ {q} : health'[p] = health[p]
      /\ probe'[k].id = NoCard /\ \A j \in Asks \ {k} : probe'[j] = probe[j]
  BY <1>1, <1>2, <1>4 DEF NoWord, NoProbe
<1>6. ASSUME q \notin unsure' PROVE ChecksOne(q)'
  <2>1. /\ \A j \in Asks : probe[j].id = q => j = k
        /\ probe[k].pc = "answered" => probe[k].found = webhook[q]
    BY <1>2, <1>4, <1>6 DEF CheckInv, ChecksOne
  <2>2. \A j \in Asks : probe'[j].id # q
    BY <1>2, <1>5, <2>1, ChannelPageAssumption
  <2>3. word = "error" \/ word = webhook'[q]
    BY <1>3, <1>4, <2>1
  <2>4. QED
    BY <1>5, <2>2, <2>3 DEF ChecksOne
<1>7. QED
  BY <1>2, <1>4, <1>5, <1>6, OthersChecked, ChannelPageAssumption

LEMMA ChecksStep ==
  ASSUME PageInv, ChannelPageNext
  PROVE  CheckInv'
<1>1. ScreenTyped /\ AwayInv /\ CheckInv
  BY DEF PageInv
<1>2. ASSUME UNCHANGED webhook, UNCHANGED hookVars PROVE CheckInv'
  BY <1>1, <1>2 DEF hookVars, CheckInv, ChecksOne
<1>3. CASE \/ \E c \in Cards : AskDelete(c) \/ RemovedElsewhere(c)
           \/ CancelDelete \/ ConfirmDelete \/ RemoveConnection \/ DeleteFails \/ SetWebhook \/ ConnectFacebook
           \/ \E d \in Dialogs : \/ OpenDialog(d) \/ CloseDialog(d) \/ TypeToken(d) \/ Connect(d)
                                 \/ StoreConnection(d) \/ ConnectFails(d)
           \/ \E k \in Asks : \/ FirstFetch(k) \/ GetConnections(k) \/ SetChannels(k) \/ FetchChannelsFails(k)
                              \/ Deleted(k) \/ \E d \in Dialogs : Connected(d, k)
  <2>1. UNCHANGED webhook /\ UNCHANGED hookVars
    BY <1>3 DEF AskDelete, RemovedElsewhere, CancelDelete, ConfirmDelete, RemoveConnection, DeleteFails, SetWebhook,
       ConnectFacebook, OpenDialog, CloseDialog, TypeToken, Connect, StoreConnection, ConnectFails, FirstFetch,
       GetConnections, SetChannels, FetchChannelsFails, Deleted, Connected, platforms
  <2>2. QED
    BY <1>2, <2>1
<1>4. ASSUME NEW q \in FbPages, NEW w, HookChanges(q, w) PROVE CheckInv'
  <2>1. /\ webhook' = [webhook EXCEPT ![q] = w] /\ unsure' = unsure \cup {q} /\ UNCHANGED <<health, probe>>
        /\ webhook \in [FbPages -> Words]
    BY <1>1, <1>4 DEF HookChanges, ScreenTyped
  <2>2. \A p \in FbPages \ {q} : webhook'[p] = webhook[p]
    BY <2>1
  <2>3. \A p \in FbPages : p \notin unsure' => p # q /\ ChecksOne(p)
    BY <1>1, <2>1 DEF CheckInv
  <2>4. QED
    BY <2>1, <2>2, <2>3 DEF CheckInv, ChecksOne
<1>5. CASE \E some, subscribed \in SUBSET FbPages, failed \in BOOLEAN : FacebookCallback(some, subscribed, failed)
  BY <1>5, CallbackKeeps
<1>6. ASSUME NEW k \in Asks,
             \/ (\E p \in FbPages : CheckWebhook(k, p) \/ FixWebhook(k, p))
             \/ SubscribeWebhook(k) \/ Recheck(k) \/ GetWebhookStatus(k) \/ SetWebhookStatus(k) \/ ProbeFails(k)
      PROVE  CheckInv'
  BY <1>1, <1>6, ProbeBegins, ProbeGoesOn, ProbeEnds
<1>7. ASSUME NEW k \in Asks,
             \/ FirstFetch(k) \/ GetConnections(k) \/ SetChannels(k) \/ FetchChannelsFails(k)
             \/ (\E p \in FbPages : CheckWebhook(k, p) \/ FixWebhook(k, p))
             \/ SubscribeWebhook(k) \/ Recheck(k) \/ GetWebhookStatus(k) \/ SetWebhookStatus(k) \/ ProbeFails(k)
             \/ Deleted(k) \/ (\E d \in Dialogs : Connected(d, k))
      PROVE  CheckInv'
  <2>1. CASE \/ FirstFetch(k) \/ GetConnections(k) \/ SetChannels(k) \/ FetchChannelsFails(k)
             \/ Deleted(k) \/ \E d \in Dialogs : Connected(d, k)
    BY <1>3, <2>1
  <2>2. QED
    BY <1>6, <1>7, <2>1
<1>8. QED
  BY <1>3, <1>4, <1>5, <1>7 DEF ChannelPageNext

\* What the banner is kept true by: nothing it depends on changes.
LEMMA ToldStays ==
  ASSUME ScreenTyped, ToldInv, UNCHANGED <<connected, touched, removal, banner>>,
         \A d \in Dialogs : \/ dialog'[d].pc = dialog[d].pc
                            \/ dialog[d].pc = "idle" /\ dialog'[d].pc = "sent"
                            \/ dialog[d].pc = "stored" /\ dialog'[d].pc = "ready"
  PROVE  ToldInv'
BY DEF ToldInv

\* A channel is disconnected by the page: it knows, or the banner will.
LEMMA ToldRemoval ==
  ASSUME PageInv, ConfirmDelete \/ RemoveConnection \/ DeleteFails \/ \E k \in Asks : Deleted(k)
  PROVE  ToldInv'
<1>1. ToldInv /\ AwayInv /\ removal \in RemovalRow /\ NoCard \notin Cards /\ banner \in BannerRow /\ UNCHANGED dialog
  BY ChannelPageAssumption DEF PageInv, ScreenTyped, Cards, Dialogs, ConfirmDelete, RemoveConnection, DeleteFails, Deleted
<1>2. CASE ConfirmDelete
  <2>1. /\ removal.id = NoCard /\ removal' = [pc |-> "sent", id |-> target] /\ UNCHANGED <<connected, touched, banner>>
    BY <1>1, <1>2 DEF ConfirmDelete, AwayInv, platforms
  <2>2. \A c \in banner.about : c # NoCard
    BY <1>1 DEF BannerRow
  <2>3. QED
    BY <1>1, <2>1, <2>2 DEF ToldInv
<1>3. CASE RemoveConnection
  <2>1. /\ removal' = [removal EXCEPT !.pc = "removed"] /\ connected' = connected \ {removal.id} /\ UNCHANGED banner
        /\ touched' = IF removal.id \in Dialogs /\ dialog[removal.id].pc # "idle" THEN touched \cup {removal.id}
                      ELSE touched \ {removal.id}
    BY <1>3 DEF RemoveConnection
  <2>2. removal'.id = removal.id
    BY <1>1, <2>1 DEF RemovalRow
  <2>3. \A d \in Dialogs : dialog[d].pc \in {"stored", "ready"} => d \in connected' \/ d \in touched'
    BY <1>1, <2>1 DEF ToldInv
  <2>4. \A c \in banner.about :
          \/ c \in touched'
          \/ /\ banner.kind = "connected" => c \in connected' \/ removal.id = c
             /\ banner.kind = "disconnected" => c \notin connected' \/ (c \in Dialogs /\ dialog[c].pc \in {"stored", "ready"})
    <3> SUFFICES ASSUME NEW c \in banner.about, c \notin touched'
                 PROVE  /\ banner.kind = "connected" => c \in connected' \/ removal.id = c
                        /\ banner.kind = "disconnected"
                              => c \notin connected' \/ (c \in Dialogs /\ dialog[c].pc \in {"stored", "ready"})
      OBVIOUS
    <3>1. CASE c = removal.id
      BY <2>1, <3>1
    <3>2. CASE c # removal.id
      BY <1>1, <2>1, <3>2 DEF ToldInv
    <3>3. QED
      BY <3>1, <3>2
  <2>5. QED
    BY <1>1, <2>1, <2>2, <2>3, <2>4 DEF ToldInv
<1>4. CASE DeleteFails
  <2>1. /\ banner' = [kind |-> "error", about |-> {removal.id}] /\ removal'.pc = "idle" /\ UNCHANGED <<connected, touched>>
    BY <1>4 DEF DeleteFails, platforms
  <2>2. QED
    BY <1>1, <2>1 DEF ToldInv
<1>5. CASE \E k \in Asks : Deleted(k)
  <2>1. /\ banner' = [kind |-> "disconnected", about |-> {removal.id}] /\ removal'.pc = "idle"
        /\ removal.pc = "removed" /\ UNCHANGED <<connected, touched>>
    BY <1>5 DEF Deleted, platforms
  <2>2. QED
    BY <1>1, <2>1 DEF ToldInv
<1>6. QED
  BY <1>2, <1>3, <1>4, <1>5

\* A bot or a number is connected.
LEMMA ToldDialog ==
  ASSUME PageInv, NEW d \in Dialogs, StoreConnection(d) \/ ConnectFails(d) \/ \E k \in Asks : Connected(d, k)
  PROVE  ToldInv'
<1>1. /\ ToldInv /\ dialog \in [Dialogs -> DialogRow] /\ d \in Cards /\ banner \in BannerRow /\ UNCHANGED removal
      /\ dialog[d] \in DialogRow
  BY DEF PageInv, ScreenTyped, Cards, StoreConnection, ConnectFails, Connected
<1>2. CASE StoreConnection(d)
  <2>1. /\ connected' = connected \cup {d} /\ UNCHANGED banner
        /\ touched' = IF removal.id = d THEN touched \cup {d} ELSE touched \ {d}
        /\ dialog' = [dialog EXCEPT ![d].pc = IF d = Bot THEN "stored" ELSE "ready", ![d].row = botRow']
    BY <1>2 DEF StoreConnection
  <2>2. dialog'[d].pc \in {"stored", "ready"} /\ \A x \in Dialogs \ {d} : dialog'[x] = dialog[x]
    BY <1>1, <2>1 DEF DialogRow
  <2>3. \A x \in Dialogs : dialog'[x].pc \in {"stored", "ready"} => x \in connected' \/ x \in touched'
    BY <1>1, <2>1, <2>2 DEF ToldInv
  <2>4. removal.pc = "removed" => removal.id \notin connected' \/ removal.id \in touched'
    BY <1>1, <2>1 DEF ToldInv
  <2>5. \A c \in banner.about :
          \/ c \in touched'
          \/ /\ banner.kind = "connected" => c \in connected' \/ removal.id = c
             /\ banner.kind = "disconnected" => c \notin connected' \/ (c \in Dialogs /\ dialog'[c].pc \in {"stored", "ready"})
    <3> SUFFICES ASSUME NEW c \in banner.about, c \notin touched'
                 PROVE  /\ banner.kind = "connected" => c \in connected' \/ removal.id = c
                        /\ banner.kind = "disconnected"
                              => c \notin connected' \/ (c \in Dialogs /\ dialog'[c].pc \in {"stored", "ready"})
      OBVIOUS
    <3>1. CASE c = d
      BY <2>1, <2>2, <3>1
    <3>2. CASE c # d
      BY <1>1, <2>1, <2>2, <3>2 DEF ToldInv
    <3>3. QED
      BY <3>1, <3>2
  <2>6. QED
    BY <1>1, <2>1, <2>3, <2>4, <2>5 DEF ToldInv
<1>3. CASE ConnectFails(d)
  <2>1. /\ dialog' = [dialog EXCEPT ![d].pc = "idle", ![d].row = 0] /\ UNCHANGED connected
        /\ touched' = (IF dialog[d].pc = "sent" THEN touched ELSE touched \cup {d})
        /\ banner' = (IF d = Number THEN [kind |-> "error", about |-> {d}] ELSE banner) /\ dialog[d].pc # "idle"
    BY <1>3 DEF ConnectFails, platforms
  <2>2. dialog'[d].pc = "idle" /\ \A x \in Dialogs \ {d} : dialog'[x] = dialog[x]
    BY <1>1, <2>1 DEF DialogRow
  <2>3. \A x \in Dialogs : dialog'[x].pc \in {"stored", "ready"} => x \in connected' \/ x \in touched'
    BY <1>1, <2>1, <2>2 DEF ToldInv
  <2>4. removal.pc = "removed" => removal.id \notin connected' \/ removal.id \in touched'
    BY <1>1, <2>1 DEF ToldInv
  <2>5. CASE d = Number
    BY <1>1, <2>1, <2>3, <2>4, <2>5 DEF ToldInv
  <2>6. CASE d # Number
    <3>1. UNCHANGED banner
      BY <2>1, <2>6
    <3>2. ASSUME NEW c \in banner.about, c \notin touched'
          PROVE  /\ banner.kind = "connected" => c \in connected' \/ removal.id = c
                 /\ banner.kind = "disconnected"
                       => c \notin connected' \/ (c \in Dialogs /\ dialog'[c].pc \in {"stored", "ready"})
      <4>1. CASE c = d
        <5>1. dialog[d].pc = "sent" /\ c \notin touched
          BY <2>1, <3>2, <4>1
        <5>2. QED
          BY <1>1, <2>1, <4>1, <5>1 DEF ToldInv
      <4>2. CASE c # d
        BY <1>1, <2>1, <2>2, <3>2, <4>2 DEF ToldInv
      <4>3. QED
        BY <4>1, <4>2
    <3>3. QED
      BY <1>1, <2>3, <2>4, <3>1, <3>2 DEF ToldInv
  <2>7. QED
    BY <2>5, <2>6
<1>4. CASE \E k \in Asks : Connected(d, k)
  <2>1. /\ dialog[d].pc = "ready" /\ dialog' = [dialog EXCEPT ![d] = NoTalk]
        /\ banner' = [kind |-> "connected", about |-> {d}] /\ UNCHANGED <<connected, touched>>
    BY <1>4 DEF Connected, platforms
  <2>2. dialog'[d].pc = "idle" /\ \A x \in Dialogs \ {d} : dialog'[x] = dialog[x]
    BY <1>1, <2>1 DEF NoTalk
  <2>3. d \in connected \/ d \in touched
    BY <1>1, <2>1 DEF ToldInv
  <2>4. \A x \in Dialogs : dialog'[x].pc \in {"stored", "ready"} => x \in connected' \/ x \in touched'
    BY <1>1, <2>1, <2>2 DEF ToldInv
  <2>5. QED
    BY <1>1, <2>1, <2>3, <2>4 DEF ToldInv
<1>5. QED
  BY <1>2, <1>3, <1>4

LEMMA ToldStep ==
  ASSUME PageInv, ChannelPageNext
  PROVE  ToldInv'
<1>1. ScreenTyped /\ AwayInv /\ ToldInv /\ dialog \in [Dialogs -> DialogRow] /\ \A d \in Dialogs : dialog[d] \in DialogRow
  BY DEF PageInv, ScreenTyped
<1>2. CASE \/ \E k \in Asks : FirstFetch(k) \/ GetConnections(k) \/ SetChannels(k) \/ FetchChannelsFails(k)
           \/ \E c \in Cards : AskDelete(c)
           \/ \E p \in FbPages, w \in {"none", "bare", "full"} : HookChanges(p, w)
           \/ CancelDelete \/ ConnectFacebook
  <2>1. UNCHANGED <<connected, touched, removal, banner, dialog>>
    BY <1>2 DEF FirstFetch, GetConnections, SetChannels, FetchChannelsFails, AskDelete, HookChanges, CancelDelete,
       ConnectFacebook, platforms, dialogVars
  <2>2. QED
    BY <1>1, <2>1, ToldStays
<1>3. ASSUME NEW k \in Asks,
             \/ (\E p \in FbPages : CheckWebhook(k, p) \/ FixWebhook(k, p))
             \/ SubscribeWebhook(k) \/ Recheck(k) \/ GetWebhookStatus(k) \/ SetWebhookStatus(k) \/ ProbeFails(k)
      PROVE  ToldInv'
  <2>1. UNCHANGED <<connected, touched, removal, banner, dialog>>
    BY <1>1, <1>3, ProbeMoves
  <2>2. QED
    BY <1>1, <2>1, ToldStays
<1>4. ASSUME NEW c \in Cards, RemovedElsewhere(c) PROVE ToldInv'
  <2>1. connected' = connected \ {c} /\ touched' = touched \cup {c} /\ UNCHANGED <<removal, banner, dialog>>
    BY <1>4 DEF RemovedElsewhere, dialogVars
  <2>2. QED
    BY <1>1, <2>1 DEF ToldInv
<1>5. ASSUME NEW d \in Dialogs, OpenDialog(d) \/ CloseDialog(d) \/ TypeToken(d) PROVE ToldInv'
  <2>1. UNCHANGED <<connected, touched, removal, banner>>
    BY <1>5 DEF OpenDialog, CloseDialog, TypeToken, platforms
  <2>2. \A x \in Dialogs : dialog'[x].pc = dialog[x].pc
    BY <1>1, <1>5 DEF OpenDialog, CloseDialog, TypeToken, DialogRow
  <2>3. QED
    BY <1>1, <2>1, <2>2, ToldStays
<1>6. ASSUME NEW d \in Dialogs, Connect(d) PROVE ToldInv'
  <2>1. UNCHANGED <<connected, touched, removal, banner>> /\ dialog[d].pc = "idle"
        /\ dialog' = [dialog EXCEPT ![d].pc = "sent"]
    BY <1>6 DEF Connect, platforms
  <2>2. dialog'[d].pc = "sent" /\ \A x \in Dialogs \ {d} : dialog'[x] = dialog[x]
    BY <1>1, <2>1 DEF DialogRow
  <2>3. QED
    BY <1>1, <2>1, <2>2, ToldStays
<1>7. CASE SetWebhook
  <2>1. UNCHANGED <<connected, touched, removal, banner>> /\ Bot \in Dialogs /\ dialog[Bot].pc = "stored"
        /\ dialog' = [dialog EXCEPT ![Bot].pc = "ready"]
    BY <1>7 DEF SetWebhook, platforms, Dialogs
  <2>2. dialog'[Bot].pc = "ready" /\ \A x \in Dialogs \ {Bot} : dialog'[x] = dialog[x]
    BY <1>1, <2>1 DEF DialogRow
  <2>3. QED
    BY <1>1, <2>1, <2>2, ToldStays
<1>8. CASE \E some, subscribed \in SUBSET FbPages, failed \in BOOLEAN : FacebookCallback(some, subscribed, failed)
  BY <1>8, CallbackKeeps
<1>9. ASSUME NEW k \in Asks,
             \/ FirstFetch(k) \/ GetConnections(k) \/ SetChannels(k) \/ FetchChannelsFails(k)
             \/ (\E p \in FbPages : CheckWebhook(k, p) \/ FixWebhook(k, p))
             \/ SubscribeWebhook(k) \/ Recheck(k) \/ GetWebhookStatus(k) \/ SetWebhookStatus(k) \/ ProbeFails(k)
             \/ Deleted(k) \/ (\E d \in Dialogs : Connected(d, k))
      PROVE  ToldInv'
  <2>1. CASE FirstFetch(k) \/ GetConnections(k) \/ SetChannels(k) \/ FetchChannelsFails(k)
    BY <1>2, <2>1
  <2>2. CASE Deleted(k)
    BY <2>2, ToldRemoval
  <2>3. CASE \E d \in Dialogs : Connected(d, k)
    BY <2>3, ToldDialog
  <2>4. QED
    BY <1>3, <1>9, <2>1, <2>2, <2>3
<1>10. ASSUME NEW d \in Dialogs,
              \/ OpenDialog(d) \/ CloseDialog(d) \/ TypeToken(d) \/ Connect(d)
              \/ StoreConnection(d) \/ ConnectFails(d)
       PROVE  ToldInv'
  BY <1>5, <1>6, <1>10, ToldDialog
<1>11. CASE ConfirmDelete \/ RemoveConnection \/ DeleteFails
  BY <1>11, ToldRemoval
<1>12. QED
  BY <1>2, <1>4, <1>7, <1>8, <1>9, <1>10, <1>11 DEF ChannelPageNext

\* The bot's webhook names the bot's row, or it is known that it does not.
LEMMA BotStep ==
  ASSUME PageInv, ChannelPageNext
  PROVE  BotInv'
<1>1. /\ ScreenTyped /\ AwayInv /\ BotInv /\ dialog \in [Dialogs -> DialogRow] /\ Bot \in Dialogs /\ Bot \notin FbPages
      /\ \A d \in Dialogs : dialog[d] \in DialogRow
  BY ChannelPageAssumption DEF PageInv, ScreenTyped, Dialogs
<1>2. ASSUME UNCHANGED <<botRow, botHook, deaf>>, Bot \in connected' => Bot \in connected,
             dialog'[Bot].pc = "stored" => dialog'[Bot] = dialog[Bot],
             dialog[Bot].pc = "stored" => dialog'[Bot].pc = "stored"
      PROVE  BotInv'
  BY <1>1, <1>2 DEF BotInv
<1>3. CASE \/ \E k \in Asks : \/ FirstFetch(k) \/ GetConnections(k) \/ SetChannels(k) \/ FetchChannelsFails(k)
                              \/ Deleted(k)
           \/ \E c \in Cards : AskDelete(c) \/ RemovedElsewhere(c)
           \/ \E p \in FbPages, w \in {"none", "bare", "full"} : HookChanges(p, w)
           \/ CancelDelete \/ ConnectFacebook \/ ConfirmDelete \/ RemoveConnection \/ DeleteFails
  <2>1. UNCHANGED <<botRow, botHook, deaf, dialog>> /\ connected' \subseteq connected
    BY <1>3 DEF FirstFetch, GetConnections, SetChannels, FetchChannelsFails, Deleted, AskDelete, RemovedElsewhere,
       HookChanges, CancelDelete, ConnectFacebook, ConfirmDelete, RemoveConnection, DeleteFails, platforms, dialogVars
  <2>2. QED
    BY <1>2, <2>1
<1>4. ASSUME NEW k \in Asks,
             \/ (\E p \in FbPages : CheckWebhook(k, p) \/ FixWebhook(k, p))
             \/ SubscribeWebhook(k) \/ Recheck(k) \/ GetWebhookStatus(k) \/ SetWebhookStatus(k) \/ ProbeFails(k)
      PROVE  BotInv'
  <2>1. UNCHANGED <<botRow, botHook, deaf, dialog, connected>>
    BY <1>1, <1>4, ProbeMoves
  <2>2. QED
    BY <1>2, <2>1
<1>5. ASSUME NEW d \in Dialogs, OpenDialog(d) \/ CloseDialog(d) \/ TypeToken(d) \/ Connect(d) PROVE BotInv'
  <2>1. UNCHANGED <<botRow, botHook, deaf, connected>>
    BY <1>5 DEF OpenDialog, CloseDialog, TypeToken, Connect, platforms
  <2>2. /\ dialog'[Bot].row = dialog[Bot].row
        /\ (dialog'[Bot].pc = "stored" => dialog[Bot].pc = "stored") /\ (dialog[Bot].pc = "stored" => dialog'[Bot].pc = "stored")
    BY <1>1, <1>5 DEF OpenDialog, CloseDialog, TypeToken, Connect, DialogRow
  <2>3. QED
    BY <1>1, <2>1, <2>2 DEF BotInv
<1>6. ASSUME NEW d \in Dialogs, StoreConnection(d) PROVE BotInv'
  <2>1. CASE d = Bot
    <3>1. dialog' = [dialog EXCEPT ![Bot].pc = "stored", ![Bot].row = botRow']
      BY <1>6, <2>1 DEF StoreConnection
    <3>2. dialog'[Bot].pc = "stored" /\ dialog'[Bot].row = botRow'
      BY <1>1, <3>1 DEF DialogRow
    <3>3. QED
      BY <3>2 DEF BotInv
  <2>2. CASE d # Bot
    <3>1. UNCHANGED <<botRow, botHook, deaf>> /\ (Bot \in connected' => Bot \in connected)
      BY <1>6, <2>2 DEF StoreConnection
    <3>2. dialog'[Bot] = dialog[Bot]
      BY <1>1, <1>6, <2>2 DEF StoreConnection
    <3>3. QED
      BY <1>2, <3>1, <3>2
  <2>3. QED
    BY <2>1, <2>2
<1>7. ASSUME NEW d \in Dialogs, ConnectFails(d) PROVE BotInv'
  <2>1. /\ UNCHANGED <<botRow, botHook, connected>> /\ deaf' = (deaf \/ dialog[d].pc = "stored")
        /\ dialog' = [dialog EXCEPT ![d].pc = "idle", ![d].row = 0]
    BY <1>7 DEF ConnectFails, platforms
  <2>2. \/ d = Bot /\ dialog'[Bot].pc = "idle"
        \/ d # Bot /\ dialog'[Bot] = dialog[Bot]
    BY <1>1, <2>1 DEF DialogRow
  <2>3. QED
    BY <1>1, <2>1, <2>2 DEF BotInv
<1>8. ASSUME NEW d \in Dialogs, NEW k \in Asks, Connected(d, k) PROVE BotInv'
  <2>1. /\ UNCHANGED <<botRow, botHook, connected, deaf>> /\ dialog[d].pc = "ready"
        /\ dialog' = [dialog EXCEPT ![d] = NoTalk]
    BY <1>8 DEF Connected, platforms
  <2>2. \/ d = Bot /\ dialog'[Bot].pc = "idle"
        \/ d # Bot /\ dialog'[Bot] = dialog[Bot]
    BY <1>1, <2>1 DEF NoTalk
  <2>3. QED
    BY <1>1, <2>1, <2>2 DEF BotInv
<1>9. CASE SetWebhook
  <2>1. /\ dialog[Bot].pc = "stored" /\ (botHook' = dialog[Bot].row \/ deaf') /\ UNCHANGED botRow
        /\ dialog' = [dialog EXCEPT ![Bot].pc = "ready"]
    BY <1>9 DEF SetWebhook
  <2>2. dialog'[Bot].pc = "ready"
    BY <1>1, <2>1 DEF DialogRow
  <2>3. QED
    BY <1>1, <2>1, <2>2 DEF BotInv
<1>10. CASE \E some, subscribed \in SUBSET FbPages, failed \in BOOLEAN : FacebookCallback(some, subscribed, failed)
  BY <1>10, CallbackKeeps
<1>11. ASSUME NEW k \in Asks,
              \/ FirstFetch(k) \/ GetConnections(k) \/ SetChannels(k) \/ FetchChannelsFails(k)
              \/ (\E p \in FbPages : CheckWebhook(k, p) \/ FixWebhook(k, p))
              \/ SubscribeWebhook(k) \/ Recheck(k) \/ GetWebhookStatus(k) \/ SetWebhookStatus(k) \/ ProbeFails(k)
              \/ Deleted(k) \/ (\E d \in Dialogs : Connected(d, k))
       PROVE  BotInv'
  <2>1. CASE FirstFetch(k) \/ GetConnections(k) \/ SetChannels(k) \/ FetchChannelsFails(k) \/ Deleted(k)
    BY <1>3, <2>1
  <2>2. CASE \E d \in Dialogs : Connected(d, k)
    BY <1>8, <2>2
  <2>3. QED
    BY <1>4, <1>11, <2>1, <2>2
<1>12. ASSUME NEW d \in Dialogs,
              \/ OpenDialog(d) \/ CloseDialog(d) \/ TypeToken(d) \/ Connect(d)
              \/ StoreConnection(d) \/ ConnectFails(d)
       PROVE  BotInv'
  BY <1>5, <1>6, <1>7, <1>12
<1>13. QED
  BY <1>3, <1>9, <1>10, <1>11, <1>12 DEF ChannelPageNext

LEMMA ScreenStep ==
  ASSUME PageInv, [ChannelPageNext]_channelPageVars
  PROVE  PageInv'
<1>1. CASE ChannelPageNext
  <2>1. AwayInv'
    BY <1>1, AbroadStep DEF PageInv
  <2>2. ScreenTyped' /\ CardsInv' /\ CheckInv' /\ ToldInv' /\ BotInv'
    BY <1>1, ScreenTypedStep, CardsStep, ChecksStep, ToldStep, BotStep
  <2>3. QED
    BY <2>1, <2>2 DEF PageInv
<1>2. CASE UNCHANGED channelPageVars
  <2>1. UNCHANGED <<connected, botRow, webhook, botHook, cards, waiting, listing, sole, foreign, health, probe, unsure,
                    target, removal, dialog, banner, away, touched, deaf>>
    BY <1>2 DEF channelPageVars, platforms, listVars, hookVars, dialogVars
  <2>2. ScreenTyped' /\ AwayInv' /\ CardsInv'
    BY <2>1 DEF PageInv, ScreenTyped, AwayInv, CardsInv, Truly
  <2>3. CheckInv' /\ ToldInv' /\ BotInv'
    BY <2>1 DEF PageInv, CheckInv, ChecksOne, ToldInv, BotInv
  <2>4. QED
    BY <2>2, <2>3 DEF PageInv
<1>3. QED
  BY <1>1, <1>2

LEMMA PageShows ==
  ASSUME PageInv
  PROVE  ChannelsShown /\ HealthTrue /\ BannerTrue /\ BotHeard
<1>1. ChannelsShown
  BY DEF PageInv, CardsInv, Truly, ChannelsShown
<1>2. HealthTrue
  BY DEF PageInv, CheckInv, ChecksOne, HealthTrue, Probing
<1>3. BannerTrue
  BY DEF PageInv, ToldInv, BannerTrue
<1>4. BotHeard
  BY DEF PageInv, BotInv, BotHeard
<1>5. QED
  BY <1>1, <1>2, <1>3, <1>4

-----------------------------------------------------------------------------
(* Selection: the entries at some places are all of them, in their order.     *)

\* Of the numbers of a set, how many are not above k.
Rank(places, k) == Cardinality({j \in places : j <= k})

LEMMA RankIs ==
  ASSUME NEW n \in Nat, NEW places \in SUBSET (1..n)
  PROVE  /\ IsFiniteSet(places) /\ Cardinality(places) \in Nat /\ \A k \in places : k \in Nat
         /\ \A k \in places : Rank(places, k) \in 1..Cardinality(places)
         /\ \A k, l \in places : k < l => Rank(places, k) < Rank(places, l)
         /\ \A i \in 1..Cardinality(places) : \E k \in places : Rank(places, k) = i
<1>1. IsFiniteSet(places) /\ Cardinality(places) \in Nat /\ \A k \in places : k \in Nat
  <2>1. IsFiniteSet(1..n)
    BY FS_Interval
  <2>2. IsFiniteSet(places)
    BY <2>1, FS_Subset
  <2>3. QED
    BY <2>2, FS_CardinalityType
<1>2. ASSUME NEW k \in places
      PROVE  /\ IsFiniteSet({j \in places : j <= k}) /\ Rank(places, k) \in 1..Cardinality(places)
  <2>1. {j \in places : j <= k} \in SUBSET places /\ k \in {j \in places : j <= k}
    BY <1>1
  <2>2. IsFiniteSet({j \in places : j <= k}) /\ Rank(places, k) <= Cardinality(places)
    BY <1>1, <2>1, FS_Subset DEF Rank
  <2>3. Rank(places, k) \in Nat /\ Rank(places, k) # 0
    BY <2>1, <2>2, FS_CardinalityType, FS_EmptySet DEF Rank
  <2>4. QED
    BY <1>1, <2>2, <2>3
<1>3. ASSUME NEW k \in places, NEW l \in places, k < l PROVE Rank(places, k) < Rank(places, l)
  <2>1. {j \in places : j <= k} \in SUBSET {j \in places : j <= l}
    <3>1. \A j \in places : j \in Nat /\ (j <= k => j <= l)
      BY <1>1, <1>3
    <3>2. QED
      BY <3>1
  <2>2. {j \in places : j <= k} # {j \in places : j <= l}
    <3>1. l \in {j \in places : j <= l} /\ l \notin {j \in places : j <= k}
      BY <1>1, <1>3
    <3>2. QED
      BY <3>1
  <2>3. IsFiniteSet({j \in places : j <= l})
    BY <1>2
  <2>4. Rank(places, k) <= Rank(places, l) /\ Rank(places, k) # Rank(places, l)
    BY <2>1, <2>2, <2>3, FS_Subset DEF Rank
  <2>5. Rank(places, k) \in 1..Cardinality(places) /\ Rank(places, l) \in 1..Cardinality(places)
    BY <1>2
  <2>6. QED
    BY <1>1, <2>4, <2>5
<1>4. ASSUME NEW i \in 1..Cardinality(places) PROVE \E k \in places : Rank(places, k) = i
  <2> DEFINE c == Cardinality(places)
             f == [k \in places |-> Rank(places, k)]
  <2>1. f \in Injection(places, 1..c)
    <3>1. f \in [places -> 1..c]
      BY <1>2
    <3>2. \A k, l \in places : f[k] = f[l] => k = l
      <4> SUFFICES ASSUME NEW k \in places, NEW l \in places, k # l PROVE Rank(places, k) # Rank(places, l)
        OBVIOUS
      <4>1. k \in Nat /\ l \in Nat
        BY <1>1
      <4>2. k < l \/ l < k
        BY <4>1
      <4>3. Rank(places, k) < Rank(places, l) \/ Rank(places, l) < Rank(places, k)
        BY <1>3, <4>2
      <4>4. Rank(places, k) \in 1..Cardinality(places) /\ Rank(places, l) \in 1..Cardinality(places)
        BY <1>2
      <4>5. QED
        BY <1>1, <4>3, <4>4
    <3>3. QED
      BY <3>1, <3>2, Fun_IsInj
  <2>2. IsFiniteSet(1..c) /\ Cardinality(1..c) = c
    BY <1>1, FS_Interval
  <2>3. f \in Surjection(places, 1..c)
    BY <2>1, <2>2, FS_Injection
  <2>4. PICK k \in places : f[k] = i
    BY <2>3 DEF Surjection
  <2>5. QED
    BY <2>4
<1>5. QED
  BY <1>1, <1>2, <1>3, <1>4

LEMMA NthIs ==
  ASSUME NEW n \in Nat, NEW places \in SUBSET (1..n)
  PROVE  /\ \A i \in 1..Cardinality(places) : Nth(places, i) \in places
         /\ \A i, j \in 1..Cardinality(places) : i < j => Nth(places, i) < Nth(places, j)
         /\ \A k \in places : \E i \in 1..Cardinality(places) : Nth(places, i) = k
         /\ Cardinality(places) \in Nat
<1>1. ASSUME NEW i \in 1..Cardinality(places)
      PROVE  Nth(places, i) \in places /\ Rank(places, Nth(places, i)) = i
  <2>1. \E k \in places : Rank(places, k) = i
    BY RankIs
  <2>2. QED
    BY <2>1 DEF Nth, Rank
<1>2. ASSUME NEW i \in 1..Cardinality(places), NEW j \in 1..Cardinality(places), i < j
      PROVE  Nth(places, i) < Nth(places, j)
  <2>1. /\ Nth(places, i) \in places /\ Rank(places, Nth(places, i)) = i
        /\ Nth(places, j) \in places /\ Rank(places, Nth(places, j)) = j
    BY <1>1
  <2>2. i \in Nat /\ j \in Nat /\ Nth(places, i) \in Nat /\ Nth(places, j) \in Nat
    <3>1. Cardinality(places) \in Nat /\ \A k \in places : k \in Nat
      BY RankIs
    <3>2. i \in Nat /\ j \in Nat
      BY <3>1
    <3>3. QED
      BY <2>1, <3>1, <3>2, Zenon
  <2>3. Nth(places, i) # Nth(places, j)
    BY <1>2, <2>1, <2>2
  <2>4. Nth(places, j) < Nth(places, i) => j < i
    BY <2>1, RankIs
  <2>5. QED
    BY <1>2, <2>2, <2>3, <2>4
<1>3. ASSUME NEW k \in places PROVE \E i \in 1..Cardinality(places) : Nth(places, i) = k
  <2>1. Rank(places, k) \in 1..Cardinality(places)
    BY RankIs
  <2>2. Nth(places, Rank(places, k)) \in places /\ Rank(places, Nth(places, Rank(places, k))) = Rank(places, k)
    BY <1>1, <2>1
  <2> DEFINE m == Nth(places, Rank(places, k))
  <2>3. m \in Nat /\ k \in Nat /\ m \in places /\ Rank(places, m) = Rank(places, k)
    BY <2>2, RankIs
  <2>4. ~(m < k) /\ ~(k < m)
    <3>1. Rank(places, k) \in Nat
      BY <2>1, RankIs
    <3>2. m < k => Rank(places, m) < Rank(places, k)
      BY <2>3, RankIs
    <3>3. k < m => Rank(places, k) < Rank(places, m)
      BY <2>3, RankIs
    <3>4. QED
      BY <2>3, <3>1, <3>2, <3>3
  <2>5. m = k
    BY <2>3, <2>4
  <2>6. QED
    BY <2>1, <2>5
<1>4. QED
  BY <1>1, <1>2, <1>3, RankIs

\* The entries that are selected: which they are, and in which order.
LEMMA SelectedIs ==
  ASSUME NEW S, NEW s \in Seq(S), NEW places \in SUBSET DOMAIN s
  PROVE  /\ Selected(s, places) \in Seq(S)
         /\ \A i \in DOMAIN Selected(s, places) :
              Nth(places, i) \in places /\ Selected(s, places)[i] = s[Nth(places, i)]
         /\ \A i, j \in DOMAIN Selected(s, places) : i < j => Nth(places, i) < Nth(places, j)
         /\ \A k \in places : \E i \in DOMAIN Selected(s, places) : Nth(places, i) = k
<1>1. Len(s) \in Nat /\ DOMAIN s = 1..Len(s)
  OBVIOUS
<1>2. Cardinality(places) \in Nat
  BY <1>1, NthIs
<1>3. DOMAIN Selected(s, places) = 1..Cardinality(places)
  BY DEF Selected
<1>4. \A i \in 1..Cardinality(places) : Selected(s, places)[i] = s[Nth(places, i)] /\ Nth(places, i) \in places
  BY <1>1, NthIs DEF Selected
<1>5. Selected(s, places) \in Seq(S)
  <2>1. \A i \in 1..Cardinality(places) : s[Nth(places, i)] \in S
    BY <1>1, <1>4
  <2>2. Selected(s, places) \in [1..Cardinality(places) -> S]
    BY <2>1 DEF Selected
  <2>3. QED
    BY <1>2, <2>2
<1>6. QED
  BY <1>1, <1>3, <1>4, <1>5, NthIs

-----------------------------------------------------------------------------
(* LiveInbox: the messages that are listed.                                   *)

Among(s) == {s[i] : i \in DOMAIN s}
\* Messages of which the page may still hear, or need not.
Awaited == missed \cup saved \cup Among(wire)

LoadRow == [pc : {"idle", "asked", "answered"}, chat : Chats \cup {NoChat}, list : Seq(Ids)]
SendRow == [pc : {"idle", "find", "deliver", "create", "created", "done", "refused"},
            chat : Chats \cup {NoChat}, id : Ids \cup {0}]
InboxTyped ==
    /\ rows \in Seq(Chats) /\ saved \subseteq Ids /\ active \in BOOLEAN
    /\ wire \in Seq(Ids) /\ linked \in BOOLEAN
    /\ open \in Chats \cup {NoChat} /\ overrun \in BOOLEAN
    /\ view \in Seq(Ids \cup {0})
    /\ loads \in [Loads -> LoadRow] /\ send \in SendRow
    /\ missed \subseteq Ids /\ strays \subseteq Ids /\ inboxFaults \in 0..MaxInboxFaults

\* A list of a chat names its messages once, and lacks only those the page may still hear of.
Lists(s, c) == Among(s) \subseteq Of(c) /\ Of(c) \subseteq Among(s) \cup Awaited
Once(s) == \A i, j \in DOMAIN s : s[i] = s[j] => i = j

LoadTrue(n) == n.pc = "answered" => Once(n.list) /\ Lists(n.list, n.chat)
SendTrue == /\ send.pc # "idle" => send.chat \in Chats
            /\ send.pc \in {"created", "done"} => send.id \in Of(send.chat)
ViewTrue == Once(view) /\ (0 \in Shown => send.pc # "idle")
\* What is listed is the open chat's.
OwnListed == /\ Shown \ {0} \subseteq Of(open) \cup strays
             /\ Of(open) \subseteq Shown \cup Awaited
\* A list of the open chat is to come, or it has, and no other one is.
OpenTrue == open # NoChat /\ ~overrun =>
                \/ \E l \in Loads : Loading(l) /\ loads[l].chat = open
                \/ OwnListed /\ \A l \in Loads : Loading(l) => loads[l].chat = open
ListingInv == InboxTyped /\ (\A l \in Loads : LoadTrue(loads[l])) /\ SendTrue /\ ViewTrue /\ OpenTrue

LEMMA ListingInit == InboxInit => ListingInv
<1> SUFFICES ASSUME InboxInit PROVE ListingInv
  OBVIOUS
<1>1. /\ rows = <<>> /\ saved = {} /\ active = TRUE /\ wire = <<>> /\ linked = TRUE /\ open = NoChat /\ view = <<>>
      /\ overrun = FALSE /\ loads = [l \in Loads |-> NoLoad] /\ send = NoSend /\ missed = {} /\ strays = {}
      /\ inboxFaults = 0
  BY DEF InboxInit
<1>2. <<>> \in Seq(Chats) /\ <<>> \in Seq(Ids) /\ <<>> \in Seq(Ids \cup {0})
  OBVIOUS
<1>3. NoLoad \in LoadRow /\ NoSend \in SendRow /\ NoLoad.pc = "idle" /\ NoSend.pc = "idle"
  BY <1>2 DEF LoadRow, SendRow, NoLoad, NoSend
<1>4. InboxTyped
  <2>1. overrun \in BOOLEAN /\ active \in BOOLEAN /\ linked \in BOOLEAN
    BY <1>1
  <2>2. /\ rows \in Seq(Chats) /\ saved \subseteq Ids /\ wire \in Seq(Ids) /\ open \in Chats \cup {NoChat}
        /\ view \in Seq(Ids \cup {0}) /\ loads \in [Loads -> LoadRow] /\ send \in SendRow
        /\ missed \subseteq Ids /\ strays \subseteq Ids /\ inboxFaults \in 0..MaxInboxFaults
    BY <1>1, <1>2, <1>3, InboxAssumption
  <2>3. QED
    BY <2>1, <2>2 DEF InboxTyped
<1>5. \A l \in Loads : LoadTrue(loads[l])
  BY <1>1, <1>3 DEF LoadTrue
<1>6. SendTrue /\ ViewTrue /\ OpenTrue
  BY <1>1, <1>3 DEF SendTrue, ViewTrue, OpenTrue, Once, Shown
<1>7. QED
  BY <1>4, <1>5, <1>6 DEF ListingInv

\* What was stored stays stored.
LEMMA RowsGrow ==
  ASSUME rows \in Seq(Chats), NEW c \in Chats, rows' = Append(rows, c)
  PROVE  /\ rows' \in Seq(Chats) /\ Len(rows) + 1 \in Ids' /\ Len(rows) + 1 \notin Ids
         /\ Ids' = Ids \cup {Len(rows) + 1} /\ Len(rows) \in Nat
         /\ \A d : Of(d)' = Of(d) \cup (IF d = c THEN {Len(rows) + 1} ELSE {})
         /\ Seq(Ids) \subseteq Seq(Ids') /\ LoadRow \subseteq LoadRow' /\ SendRow \subseteq SendRow'
         /\ Seq(Ids \cup {0}) \subseteq Seq(Ids' \cup {0})
<1>1. /\ rows' \in Seq(Chats) /\ Len(rows) \in Nat /\ Len(rows') = Len(rows) + 1 /\ rows'[Len(rows) + 1] = c
      /\ \A m \in 1..Len(rows) : rows'[m] = rows[m]
  OBVIOUS
<1>2. Ids' = Ids \cup {Len(rows) + 1} /\ Len(rows) + 1 \notin Ids
  BY <1>1 DEF Ids
<1>3. \A d : Of(d)' = Of(d) \cup (IF d = c THEN {Len(rows) + 1} ELSE {})
  BY <1>1, <1>2 DEF Of, Ids
<1>4. Seq(Ids) \subseteq Seq(Ids') /\ Seq(Ids \cup {0}) \subseteq Seq(Ids' \cup {0})
  BY <1>2
<1>5. LoadRow \subseteq LoadRow' /\ SendRow \subseteq SendRow'
  BY <1>2, <1>4 DEF LoadRow, SendRow
<1>6. QED
  BY <1>1, <1>2, <1>3, <1>4, <1>5

\* A list of a chat as it is stored.
LEMMA ListedIs ==
  ASSUME InboxTyped, NEW c
  PROVE  Listed(c) \in Seq(Ids) /\ Once(Listed(c)) /\ Among(Listed(c)) = Of(c)
<1> DEFINE s == [m \in Ids |-> m]
<1>1. Len(rows) \in Nat
  BY DEF InboxTyped
<1>2. s \in Seq(Ids) /\ DOMAIN s = Ids /\ Of(c) \in SUBSET DOMAIN s /\ \A m \in Ids : s[m] = m
  BY <1>1 DEF Ids, Of
<1>3. /\ Selected(s, Of(c)) \in Seq(Ids)
      /\ \A i \in DOMAIN Selected(s, Of(c)) :
           Nth(Of(c), i) \in Of(c) /\ Selected(s, Of(c))[i] = s[Nth(Of(c), i)]
      /\ \A i, j \in DOMAIN Selected(s, Of(c)) : i < j => Nth(Of(c), i) < Nth(Of(c), j)
      /\ \A k \in Of(c) : \E i \in DOMAIN Selected(s, Of(c)) : Nth(Of(c), i) = k
  BY <1>2, SelectedIs
<1>4. Listed(c) = Selected(s, Of(c))
  BY DEF Listed
<1> HIDE DEF s
<1>5. Among(Listed(c)) = Of(c)
  BY <1>2, <1>3, <1>4 DEF Among
<1>6. Once(Listed(c))
  <2> SUFFICES ASSUME NEW i \in DOMAIN Listed(c), NEW j \in DOMAIN Listed(c), Listed(c)[i] = Listed(c)[j]
               PROVE  i = j
    BY DEF Once
  <2>1. Nth(Of(c), i) = Nth(Of(c), j) /\ Nth(Of(c), i) \in Ids
    BY <1>2, <1>3, <1>4
  <2>2. Nth(Of(c), i) \in Nat /\ i \in Nat /\ j \in Nat
    BY <1>1, <1>3, <1>4, <2>1 DEF Ids
  <2>3. ~(i < j) /\ ~(j < i)
    BY <1>3, <1>4, <2>1, <2>2
  <2>4. QED
    BY <2>2, <2>3
<1>7. QED
  BY <1>3, <1>4, <1>5, <1>6

\* A list without one entry, and with one more at its end.
LEMMA WithoutIs ==
  ASSUME NEW S, NEW s \in Seq(S), NEW m, Once(s)
  PROVE  Without(s, m) \in Seq(S \ {m}) /\ Once(Without(s, m)) /\ Among(Without(s, m)) = Among(s) \ {m}
<1> DEFINE P == {i \in DOMAIN s : s[i] # m}
           u == Selected(s, P)
<1>1. /\ u \in Seq(S)
      /\ \A i \in DOMAIN u : Nth(P, i) \in P /\ u[i] = s[Nth(P, i)]
      /\ \A i, j \in DOMAIN u : i < j => Nth(P, i) < Nth(P, j)
      /\ \A k \in P : \E i \in DOMAIN u : Nth(P, i) = k
  BY SelectedIs
<1>2. Without(s, m) = u
  BY DEF Without
<1>3. \A k \in P : k \in DOMAIN s /\ k \in Nat /\ s[k] # m
  OBVIOUS
<1>4. Among(s) \ {m} = {s[k] : k \in P}
  BY DEF Among
<1> HIDE DEF P, u
<1>5. Among(u) = {s[k] : k \in P}
  BY <1>1 DEF Among
<1>6. Once(u)
  <2> SUFFICES ASSUME NEW i \in DOMAIN u, NEW j \in DOMAIN u, u[i] = u[j] PROVE i = j
    BY DEF Once
  <2>1. Nth(P, i) \in P /\ Nth(P, j) \in P /\ s[Nth(P, i)] = s[Nth(P, j)]
    BY <1>1
  <2>2. Nth(P, i) = Nth(P, j) /\ Nth(P, i) \in Nat
    BY <1>3, <2>1 DEF Once
  <2>3. i \in Nat /\ j \in Nat
    BY <1>1
  <2>4. ~(i < j) /\ ~(j < i)
    BY <1>1, <2>2
  <2>5. QED
    BY <2>3, <2>4
<1>7. u \in Seq(S \ {m})
  <2>1. \A i \in DOMAIN u : u[i] \in S \ {m}
    BY <1>1, <1>3
  <2>2. QED
    BY <1>1, <2>1
<1>8. QED
  BY <1>2, <1>4, <1>5, <1>6, <1>7

LEMMA AppendIs ==
  ASSUME NEW S, NEW s \in Seq(S), NEW m \in S
  PROVE  /\ Append(s, m) \in Seq(S) /\ Among(Append(s, m)) = Among(s) \cup {m}
         /\ Once(s) /\ m \notin Among(s) => Once(Append(s, m))
<1>1. /\ Append(s, m) \in Seq(S) /\ Len(s) \in Nat /\ DOMAIN s = 1..Len(s)
      /\ DOMAIN Append(s, m) = 1..(Len(s) + 1) /\ Append(s, m)[Len(s) + 1] = m
      /\ \A i \in 1..Len(s) : Append(s, m)[i] = s[i]
  OBVIOUS
<1>2. Among(Append(s, m)) = Among(s) \cup {m}
  BY <1>1 DEF Among
<1>3. ASSUME Once(s), m \notin Among(s) PROVE Once(Append(s, m))
  <2>1. \A i \in 1..Len(s) : Append(s, m)[i] # m
    BY <1>1, <1>3 DEF Among
  <2>2. QED
    BY <1>1, <1>3, <2>1 DEF Once
<1>4. QED
  BY <1>1, <1>2, <1>3

LEMMA AppendNewIs ==
  ASSUME NEW S, NEW s \in Seq(S), NEW m \in S, Once(s)
  PROVE  AppendNew(s, m) \in Seq(S) /\ Among(AppendNew(s, m)) = Among(s) \cup {m} /\ Once(AppendNew(s, m))
<1>1. AppendNew(s, m) = IF m \in Among(s) THEN s ELSE Append(s, m)
  BY DEF AppendNew, Among
<1>2. CASE m \in Among(s)
  BY <1>1, <1>2
<1>3. CASE m \notin Among(s)
  BY <1>1, <1>3, AppendIs
<1>4. QED
  BY <1>2, <1>3

LEMMA HeadIs ==
  ASSUME NEW S, NEW s \in Seq(S), s # <<>>
  PROVE  Head(s) \in S /\ Tail(s) \in Seq(S) /\ Among(s) = Among(Tail(s)) \cup {Head(s)}
<1>1. /\ Head(s) \in S /\ Tail(s) \in Seq(S) /\ Len(s) \in Nat \ {0} /\ DOMAIN s = 1..Len(s) /\ Head(s) = s[1]
      /\ DOMAIN Tail(s) = 1..(Len(s) - 1) /\ \A i \in 1..(Len(s) - 1) : Tail(s)[i] = s[i + 1]
  OBVIOUS
<1>2. Among(s) \subseteq Among(Tail(s)) \cup {Head(s)}
  <2> SUFFICES ASSUME NEW i \in 1..Len(s), i # 1 PROVE s[i] \in Among(Tail(s))
    BY <1>1 DEF Among
  <2>1. i - 1 \in 1..(Len(s) - 1) /\ Tail(s)[i - 1] = s[i]
    BY <1>1
  <2>2. QED
    BY <1>1, <2>1 DEF Among
<1>3. Among(Tail(s)) \cup {Head(s)} \subseteq Among(s)
  <2>1. \A i \in 1..(Len(s) - 1) : i + 1 \in 1..Len(s)
    BY <1>1
  <2>2. QED
    BY <1>1, <2>1 DEF Among
<1>4. QED
  BY <1>1, <1>2, <1>3

\* Nothing is stored, and what the page may hear of does not get less: every list stays as right as it was.
LEMMA ListsStay ==
  ASSUME rows' = rows, Awaited \subseteq Awaited'
  PROVE  /\ Ids' = Ids /\ LoadRow' = LoadRow /\ SendRow' = SendRow /\ \A c : Of(c)' = Of(c)
         /\ \A n : LoadTrue(n) => LoadTrue(n)'
<1>1. Ids' = Ids /\ \A c : Of(c)' = Of(c)
  BY DEF Ids, Of
<1>2. LoadRow' = LoadRow /\ SendRow' = SendRow
  BY <1>1 DEF LoadRow, SendRow
<1>3. ASSUME NEW n, LoadTrue(n) PROVE LoadTrue(n)'
  BY <1>1, <1>3 DEF LoadTrue, Lists
<1>4. QED
  BY <1>1, <1>2, <1>3

\* A message is stored: its event may still come.
LEMMA CreateKeeps ==
  ASSUME ListingInv, NEW c \in Chats, Create(c),
         active' = active, wire' = wire, linked' = linked, open' = open, view' = view, loads' = loads,
         overrun' = overrun, missed' = missed, strays' = strays, inboxFaults' = inboxFaults,
         send' \in SendRow', SendTrue', send'.pc # "idle" \/ send' = send
  PROVE  ListingInv'
<1>1. /\ InboxTyped /\ ViewTrue /\ OpenTrue /\ \A l \in Loads : LoadTrue(loads[l])
  BY DEF ListingInv
<1>2. /\ rows' = Append(rows, c) /\ saved' = saved \cup {Len(rows) + 1} /\ rows \in Seq(Chats)
  BY <1>1 DEF Create, InboxTyped
<1>3. /\ rows' \in Seq(Chats) /\ Len(rows) + 1 \in Ids' /\ Ids' = Ids \cup {Len(rows) + 1}
      /\ \A d : Of(d)' = Of(d) \cup (IF d = c THEN {Len(rows) + 1} ELSE {})
      /\ Seq(Ids) \subseteq Seq(Ids') /\ LoadRow \subseteq LoadRow'
      /\ Seq(Ids \cup {0}) \subseteq Seq(Ids' \cup {0})
  BY <1>2, RowsGrow
<1>4. InboxTyped'
  <2>1. loads' \in [Loads -> LoadRow']
    BY <1>1, <1>3 DEF InboxTyped
  <2>2. QED
    BY <1>1, <1>2, <1>3, <2>1 DEF InboxTyped
<1>5. Awaited' = Awaited \cup {Len(rows) + 1}
  BY <1>2 DEF Awaited, Among
<1>6. ASSUME NEW l \in Loads PROVE LoadTrue(loads[l])'
  <2>1. ASSUME NEW s, NEW d, Lists(s, d) PROVE Among(s) \subseteq Of(d)' /\ Of(d)' \subseteq Among(s) \cup Awaited'
    BY <1>3, <1>5, <2>1 DEF Lists
  <2>2. loads'[l] = loads[l] /\ LoadTrue(loads[l])
    BY <1>1
  <2>3. QED
    BY <2>1, <2>2 DEF LoadTrue, Lists
<1>7. ViewTrue' /\ OpenTrue'
  <2>1. ViewTrue'
    BY <1>1 DEF ViewTrue, Shown
  <2>2. OpenTrue'
    <3>1. OwnListed => OwnListed'
      BY <1>3, <1>5 DEF OwnListed, Shown
    <3>2. QED
      BY <1>1, <3>1 DEF OpenTrue, Loading
  <2>3. QED
    BY <2>1, <2>2
<1>8. QED
  BY <1>4, <1>6, <1>7 DEF ListingInv

LEMMA CreateStep ==
  ASSUME ListingInv, CreateOwn \/ \E c \in Chats : StoreOther(c)
  PROVE  ListingInv'
<1>1. InboxTyped /\ SendTrue /\ send \in SendRow /\ rows \in Seq(Chats)
  BY DEF ListingInv, InboxTyped
<1>2. ASSUME NEW c \in Chats, StoreOther(c) PROVE ListingInv'
  <2>1. Create(c) /\ UNCHANGED <<active, wire, linked, open, view, loads, send, overrun, missed, strays, inboxFaults>>
    BY <1>2 DEF StoreOther, pageVars
  <2>2. send' \in SendRow' /\ \A d : Of(d) \subseteq Of(d)'
    BY <1>1, <2>1, RowsGrow DEF Create
  <2>3. SendTrue'
    BY <1>1, <2>1, <2>2 DEF SendTrue
  <2>4. QED
    BY <2>1, <2>2, <2>3, CreateKeeps DEF pageVars
<1>3. CASE CreateOwn
  <2>1. /\ send.pc = "create" /\ Create(send.chat) /\ send.chat \in Chats
        /\ send' = [send EXCEPT !.pc = "created", !.id = Len(rows) + 1]
        /\ UNCHANGED <<active, wire, linked, open, view, loads, overrun, missed, strays, inboxFaults>>
    BY <1>1, <1>3 DEF CreateOwn, SendTrue
  <2>2. /\ Len(rows) + 1 \in Ids' /\ SendRow \subseteq SendRow'
        /\ Of(send.chat)' = Of(send.chat) \cup {Len(rows) + 1}
    <3>1. PICK c : c = send.chat
      OBVIOUS
    <3>2. Of(c)' = Of(c) \cup {Len(rows) + 1}
      BY <1>1, <2>1, <3>1, RowsGrow DEF Create
    <3>3. Len(rows) + 1 \in Ids' /\ SendRow \subseteq SendRow'
      BY <1>1, <2>1, RowsGrow DEF Create
    <3>4. rows'[Len(rows) + 1] = send.chat
      BY <1>1, <2>1 DEF Create
    <3>5. QED
      BY <2>1, <3>1, <3>2, <3>3, <3>4
  <2>3. /\ send' \in SendRow' /\ send'.pc = "created" /\ send'.chat = send.chat /\ send'.id = Len(rows) + 1
    BY <1>1, <2>1, <2>2 DEF SendRow
  <2>4. SendTrue'
    BY <2>1, <2>2, <2>3 DEF SendTrue
  <2>5. QED
    BY <2>1, <2>3, <2>4, CreateKeeps
<1>4. QED
  BY <1>2, <1>3

\* The events go their way: to the page, or past it.
LEMMA EventStep ==
  ASSUME ListingInv, \/ \E m \in saved : EmitNewMessage(m) \/ SkipEvent(m)
                     \/ Unlink \/ Relink
  PROVE  ListingInv'
<1>1. /\ InboxTyped /\ SendTrue /\ ViewTrue /\ OpenTrue /\ \A l \in Loads : LoadTrue(loads[l])
  BY DEF ListingInv
<1>2. UNCHANGED <<rows, active, open, view, loads, send, overrun, strays>>
  BY DEF EmitNewMessage, SkipEvent, Unlink, Relink, serverVars, pageVars
<1>3. /\ Awaited \subseteq Awaited' /\ wire' \in Seq(Ids) /\ linked' \in BOOLEAN /\ missed' \subseteq Ids
      /\ saved' \subseteq Ids /\ inboxFaults' \in 0..MaxInboxFaults
  <2>1. ASSUME NEW m \in saved, EmitNewMessage(m) PROVE <1>3
    <3>1. m \in Ids /\ wire \in Seq(Ids)
      BY <1>1 DEF InboxTyped
    <3>2. CASE linked
      <4>1. wire' = Append(wire, m) /\ missed' = missed /\ saved' = saved \ {m} /\ UNCHANGED <<linked, inboxFaults>>
        BY <2>1, <3>2 DEF EmitNewMessage
      <4>2. wire' \in Seq(Ids) /\ Among(wire') = Among(wire) \cup {m}
        BY <3>1, <4>1, AppendIs
      <4>3. QED
        BY <1>1, <4>1, <4>2 DEF InboxTyped, Awaited, Among
    <3>3. CASE ~linked
      BY <1>1, <2>1, <3>1, <3>3 DEF EmitNewMessage, InboxTyped, Awaited, Among
    <3>4. QED
      BY <3>2, <3>3
  <2>2. ASSUME NEW m \in saved, SkipEvent(m) PROVE <1>3
    BY <1>1, <2>2, InboxAssumption DEF SkipEvent, Fault, InboxTyped, Awaited, Among
  <2>3. CASE Unlink
    <3>1. /\ wire' = <<>> /\ missed' = missed \cup Among(wire) /\ linked' = FALSE /\ saved' = saved
          /\ inboxFaults < MaxInboxFaults /\ inboxFaults' = inboxFaults + 1
      BY <2>3 DEF Unlink, Fault, Among, serverVars
    <3>2. Among(wire) \subseteq Ids /\ wire' \in Seq(Ids)
      BY <1>1, <3>1 DEF InboxTyped, Among
    <3>3. inboxFaults' \in 0..MaxInboxFaults
      BY <1>1, <3>1, InboxAssumption DEF InboxTyped
    <3>4. saved \subseteq Ids /\ missed \subseteq Ids
      BY <1>1 DEF InboxTyped
    <3>5. Awaited \subseteq Awaited'
      BY <3>1 DEF Awaited
    <3>6. QED
      BY <3>1, <3>2, <3>3, <3>4, <3>5
  <2>4. CASE Relink
    BY <1>1, <2>4 DEF Relink, serverVars, pageVars, InboxTyped, Awaited, Among
  <2>5. QED
    BY <2>1, <2>2, <2>3, <2>4
<1>4. /\ Ids' = Ids /\ LoadRow' = LoadRow /\ SendRow' = SendRow /\ \A c : Of(c)' = Of(c)
      /\ \A n : LoadTrue(n) => LoadTrue(n)'
  BY <1>2, <1>3, ListsStay
<1>5. InboxTyped'
  BY <1>1, <1>2, <1>3, <1>4 DEF InboxTyped
<1>6. \A l \in Loads : LoadTrue(loads[l])'
  BY <1>1, <1>2, <1>4
<1>7. SendTrue' /\ ViewTrue' /\ OpenTrue'
  <2>1. SendTrue'
    BY <1>1, <1>2, <1>4 DEF SendTrue
  <2>2. ViewTrue'
    BY <1>1, <1>2 DEF ViewTrue, Shown
  <2>3. OpenTrue'
    <3>1. OwnListed => OwnListed'
      BY <1>2, <1>3, <1>4 DEF OwnListed, Shown
    <3>2. QED
      BY <1>1, <1>2, <3>1 DEF OpenTrue, Loading
  <2>4. QED
    BY <2>1, <2>2, <2>3
<1>8. QED
  BY <1>5, <1>6, <1>7 DEF ListingInv

\* An event comes to the page.
LEMMA HeardStep ==
  ASSUME ListingInv, OnNewMessage
  PROVE  ListingInv'
<1>1. /\ InboxTyped /\ SendTrue /\ ViewTrue /\ OpenTrue /\ \A l \in Loads : LoadTrue(loads[l])
  BY DEF ListingInv
<1> DEFINE m == Head(wire)
           after == \E l \in Loads : /\ loads[l].pc = "answered" /\ loads[l].chat = rows[m]
                                    /\ m \notin Among(loads[l].list)
<1>2. /\ wire # <<>> /\ view' = (IF rows[m] = open THEN AppendNew(view, m) ELSE view)
      /\ missed' = (IF after THEN missed \cup {m} ELSE missed) /\ wire' = Tail(wire)
      /\ UNCHANGED <<rows, saved, active, linked, open, loads, send, overrun, strays, inboxFaults>>
  BY DEF OnNewMessage, serverVars, Among
<1>3. m \in Ids /\ wire' \in Seq(Ids) /\ Among(wire) = Among(wire') \cup {m}
  BY <1>1, <1>2, HeadIs DEF InboxTyped
<1>4. Len(rows) \in Nat /\ m \in Nat /\ m # 0 /\ m \in Of(rows[m]) /\ \A c : m \in Of(c) => c = rows[m]
  BY <1>1, <1>3 DEF InboxTyped, Ids, Of
<1>5. /\ view' \in Seq(Ids \cup {0}) /\ Once(view') /\ Among(view) \subseteq Among(view')
      /\ Among(view') \subseteq Among(view) \cup (IF rows[m] = open THEN {m} ELSE {})
      /\ rows[m] = open => m \in Among(view')
  <2>1. view \in Seq(Ids \cup {0}) /\ Once(view) /\ m \in Ids \cup {0}
    BY <1>1, <1>3 DEF InboxTyped, ViewTrue
  <2>2. CASE rows[m] = open
    <3>1. view' = AppendNew(view, m)
      BY <1>2, <2>2
    <3> HIDE DEF m, after
    <3>2. QED
      BY <2>1, <2>2, <3>1, AppendNewIs
  <2>3. CASE rows[m] # open
    BY <1>2, <2>1, <2>3
  <2>4. QED
    BY <2>2, <2>3
<1>6. Awaited \subseteq Awaited' \cup {m} /\ (after => Awaited \subseteq Awaited') /\ missed' \subseteq Ids
  BY <1>1, <1>2, <1>3 DEF Awaited, Among, InboxTyped
<1>7. Ids' = Ids /\ LoadRow' = LoadRow /\ SendRow' = SendRow /\ \A c : Of(c)' = Of(c)
  BY <1>2 DEF Ids, Of, LoadRow, SendRow
<1>8. InboxTyped'
  BY <1>1, <1>2, <1>3, <1>5, <1>6, <1>7 DEF InboxTyped
<1>9. ASSUME NEW l \in Loads PROVE LoadTrue(loads[l])'
  <2>1. LoadTrue(loads[l]) /\ loads'[l] = loads[l]
    BY <1>1, <1>2
  <2> SUFFICES ASSUME loads[l].pc = "answered"
               PROVE  Of(loads[l].chat)' \subseteq Among(loads[l].list) \cup Awaited'
    BY <1>7, <2>1 DEF LoadTrue, Lists
  <2>2. Of(loads[l].chat) \subseteq Among(loads[l].list) \cup Awaited
    BY <2>1 DEF LoadTrue, Lists
  <2>3. m \notin Of(loads[l].chat) \/ m \in Among(loads[l].list) \/ after
    BY <1>4
  <2>4. Of(loads[l].chat)' = Of(loads[l].chat)
    BY <1>7, <2>1
  <2> HIDE DEF m, after
  <2>5. QED
    BY <1>6, <2>2, <2>3, <2>4
<1>10. SendTrue' /\ ViewTrue'
  <2>1. SendTrue'
    BY <1>1, <1>2, <1>7 DEF SendTrue
  <2>2. 0 \in Among(view') => 0 \in Among(view)
    BY <1>4, <1>5
  <2>3. ViewTrue'
    BY <1>1, <1>2, <1>5, <2>2 DEF ViewTrue, Shown, Among
  <2>4. QED
    BY <2>1, <2>3
<1>11. OpenTrue'
  <2> SUFFICES ASSUME OwnListed
               PROVE  /\ Among(view') \ {0} \subseteq Of(open) \cup strays
                      /\ Of(open) \subseteq Among(view') \cup Awaited'
    <3>1. OwnListed => OwnListed'
      BY <1>2, <1>7 DEF OwnListed, Shown, Among
    <3>2. QED
      BY <1>1, <1>2, <3>1 DEF OpenTrue, Loading
  <2>1. Among(view) \ {0} \subseteq Of(open) \cup strays /\ Of(open) \subseteq Among(view) \cup Awaited
    BY DEF OwnListed, Shown, Among
  <2>2. rows[m] = open \/ m \notin Of(open)
    BY <1>4
  <2> HIDE DEF m, after
  <2>3. QED
    BY <1>4, <1>5, <1>6, <2>1, <2>2
<1>12. QED
  BY <1>8, <1>9, <1>10, <1>11 DEF ListingInv

\* When the list of another chat is still to come, so is that of the open one, and it is awaited after the other.
LEMMA OthersLoad ==
  ASSUME OpenTrue, loads \in [Loads -> LoadRow], NEW l \in Loads, Loading(l), loads[l].chat # open,
         loads' = [loads EXCEPT ![l] = NoLoad], UNCHANGED <<open, overrun>>
  PROVE  OpenTrue'
<1> SUFFICES ASSUME open # NoChat, ~overrun
             PROVE  \E k \in Loads : Loading(k)' /\ loads'[k].chat = open
  BY DEF OpenTrue
<1>1. PICK k \in Loads : Loading(k) /\ loads[k].chat = open
  BY DEF OpenTrue
<1>2. k # l /\ loads'[k] = loads[k]
  BY <1>1
<1>3. QED
  BY <1>1, <1>2 DEF Loading

\* A chat is opened, and its messages are asked for and answered.
LEMMA LoadStep ==
  ASSUME ListingInv, NEW l \in Loads,
         (\E c \in Chats : SelectChat(l, c)) \/ GetMessages(l) \/ SetMessages(l) \/ LoadFails(l)
  PROVE  ListingInv'
<1>1. /\ InboxTyped /\ SendTrue /\ ViewTrue /\ OpenTrue /\ (\A k \in Loads : LoadTrue(loads[k]))
      /\ loads \in [Loads -> LoadRow]
  BY DEF ListingInv, InboxTyped
<1>2. UNCHANGED <<rows, saved, active, wire, linked, send, missed, strays>>
  BY DEF SelectChat, GetMessages, SetMessages, LoadFails, serverVars, pageVars
<1>3. Awaited' = Awaited
  BY <1>2 DEF Awaited, Among
<1>4. /\ Ids' = Ids /\ LoadRow' = LoadRow /\ SendRow' = SendRow /\ (\A c : Of(c)' = Of(c))
      /\ \A n : LoadTrue(n) => LoadTrue(n)'
  BY <1>2, <1>3, ListsStay
<1>5. \E n \in LoadRow : loads' = [loads EXCEPT ![l] = n] /\ LoadTrue(n)
  <2>1. NoLoad \in LoadRow /\ NoLoad.pc = "idle" /\ LoadTrue(NoLoad)
    BY DEF NoLoad, LoadRow, LoadTrue
  <2>2. ASSUME NEW c \in Chats, SelectChat(l, c) PROVE <1>5
    <3>1. [NoLoad EXCEPT !.pc = "asked", !.chat = c] \in LoadRow
      BY <2>1 DEF LoadRow
    <3>2. LoadTrue([NoLoad EXCEPT !.pc = "asked", !.chat = c])
      BY <2>1 DEF LoadTrue, LoadRow
    <3>3. QED
      BY <2>2, <3>1, <3>2 DEF SelectChat
  <2>3. CASE GetMessages(l)
    <3>1. /\ Listed(loads[l].chat) \in Seq(Ids) /\ Once(Listed(loads[l].chat))
          /\ Among(Listed(loads[l].chat)) = Of(loads[l].chat)
      BY <1>1, ListedIs
    <3> DEFINE n == [loads[l] EXCEPT !.pc = "answered", !.list = Listed(loads[l].chat)]
    <3>2. n \in LoadRow /\ n.chat = loads[l].chat /\ n.list = Listed(loads[l].chat)
      BY <1>1, <3>1 DEF LoadRow
    <3>3. LoadTrue(n)
      BY <3>1, <3>2 DEF LoadTrue, Lists
    <3>4. loads' = [loads EXCEPT ![l] = n]
      BY <1>1, <2>3 DEF GetMessages
    <3> HIDE DEF n
    <3>5. QED
      BY <3>2, <3>3, <3>4
  <2>4. CASE SetMessages(l) \/ LoadFails(l)
    BY <2>1, <2>4 DEF SetMessages, LoadFails
  <2>5. QED
    BY <2>2, <2>3, <2>4
<1>6. loads' \in [Loads -> LoadRow'] /\ \A k \in Loads : LoadTrue(loads[k])'
  BY <1>1, <1>4, <1>5
<1>7. CASE SetMessages(l)
  <2>1. /\ loads[l].pc = "answered" /\ view' = loads[l].list /\ ListCame(l)
        /\ open' = open /\ inboxFaults' = inboxFaults /\ loads' = [loads EXCEPT ![l] = NoLoad]
    BY <1>7 DEF SetMessages
  <2>2. /\ loads[l].list \in Seq(Ids) /\ loads[l].chat \in Chats \cup {NoChat}
        /\ Once(loads[l].list) /\ Lists(loads[l].list, loads[l].chat) /\ Len(rows) \in Nat
    BY <1>1, <2>1 DEF LoadTrue, LoadRow, InboxTyped
  <2>3. 0 \notin Among(view') /\ view' \in Seq(Ids \cup {0})
    BY <2>1, <2>2 DEF Among, Ids
  <2>4. InboxTyped'
    BY <1>1, <1>2, <1>4, <1>6, <2>1, <2>2, <2>3 DEF InboxTyped, ListCame
  <2>5. SendTrue'
    BY <1>1, <1>2, <1>4 DEF SendTrue
  <2>6. ViewTrue'
    BY <2>1, <2>2, <2>3 DEF ViewTrue, Shown, Among
  <2>7. OpenTrue'
    <3>1. CASE loads[l].chat = open
      <4>1. OwnListed'
        BY <1>2, <1>3, <1>4, <2>1, <2>2, <3>1 DEF OwnListed, Lists, Shown, Among
      <4>2. ~overrun' => \A k \in Loads : Loading(k)' => loads'[k].chat = open
        BY <1>1, <2>1, <3>1 DEF ListCame, Loading, NoLoad
      <4>3. QED
        BY <2>1, <4>1, <4>2 DEF OpenTrue
    <3>2. CASE loads[l].chat # open
      <4>1. overrun' = overrun
        BY <2>1, <3>2 DEF ListCame
      <4>2. Loading(l)
        BY <2>1 DEF Loading
      <4>3. QED
        BY <1>1, <2>1, <3>2, <4>1, <4>2, OthersLoad
    <3>3. QED
      BY <3>1, <3>2
  <2>8. QED
    BY <1>6, <2>4, <2>5, <2>6, <2>7 DEF ListingInv
<1>8. CASE GetMessages(l) \/ LoadFails(l)
  <2>1. UNCHANGED <<open, view>> /\ overrun' \in BOOLEAN /\ inboxFaults' \in 0..MaxInboxFaults
    <3>1. UNCHANGED <<open, view>> /\ inboxFaults' \in 0..MaxInboxFaults
      BY <1>1, <1>8, InboxAssumption DEF GetMessages, LoadFails, Fault, InboxTyped
    <3>2. overrun \in BOOLEAN
      BY <1>1 DEF InboxTyped
    <3>3. overrun' \in BOOLEAN
      BY <1>8, <3>2 DEF GetMessages, LoadFails
    <3>4. QED
      BY <3>1, <3>3
  <2>2. InboxTyped'
    BY <1>1, <1>2, <1>4, <1>6, <2>1 DEF InboxTyped
  <2>3. SendTrue' /\ ViewTrue'
    BY <1>1, <1>2, <1>4, <2>1 DEF SendTrue, ViewTrue, Shown
  <2>4. OpenTrue'
    <3>1. OwnListed => OwnListed'
      BY <1>2, <1>3, <1>4, <2>1 DEF OwnListed, Shown
    <3>2. CASE GetMessages(l)
      <4>1. overrun' = overrun /\ \A k \in Loads : (Loading(k)' <=> Loading(k)) /\ loads'[k].chat = loads[k].chat
        BY <1>1, <3>2 DEF GetMessages, Loading, LoadRow
      <4>2. QED
        BY <1>1, <2>1, <3>1, <4>1 DEF OpenTrue
    <3>3. CASE LoadFails(l) /\ loads[l].chat = open
      BY <3>3 DEF LoadFails, OpenTrue
    <3>4. CASE LoadFails(l) /\ loads[l].chat # open
      <4>1. overrun' = overrun /\ loads' = [loads EXCEPT ![l] = NoLoad] /\ Loading(l)
        BY <1>1, <3>4 DEF LoadFails, InboxTyped, Loading
      <4>2. QED
        BY <1>1, <2>1, <3>4, <4>1, OthersLoad
    <3>5. QED
      BY <1>8, <3>2, <3>3, <3>4
  <2>5. QED
    BY <1>6, <2>2, <2>3, <2>4 DEF ListingInv
<1>9. ASSUME NEW c \in Chats, SelectChat(l, c) PROVE ListingInv'
  <2>1. open' = c /\ overrun' = FALSE /\ UNCHANGED <<view, inboxFaults>>
        /\ loads' = [loads EXCEPT ![l] = [NoLoad EXCEPT !.pc = "asked", !.chat = c]]
    BY <1>9 DEF SelectChat
  <2>2. InboxTyped'
    BY <1>1, <1>2, <1>4, <1>6, <2>1 DEF InboxTyped
  <2>3. SendTrue' /\ ViewTrue' /\ OpenTrue'
    <3>1. Loading(l)' /\ loads'[l].chat = open'
      BY <1>1, <2>1 DEF Loading, NoLoad
    <3>2. QED
      BY <1>1, <1>2, <1>4, <2>1, <3>1 DEF SendTrue, ViewTrue, OpenTrue, Shown
  <2>4. QED
    BY <1>6, <2>2, <2>3 DEF ListingInv
<1>10. QED
  BY <1>7, <1>8, <1>9

\* A reply is sent: shown at once, then replaced by its row or taken back.
LEMMA SendKeeps ==
  ASSUME ListingInv,
         UNCHANGED <<rows, saved, wire, linked, open, loads, overrun, missed>>, active' \in BOOLEAN,
         view' \in Seq(Ids \cup {0}), send' \in SendRow, strays' \subseteq Ids, inboxFaults' \in 0..MaxInboxFaults,
         SendTrue', ViewTrue', strays \subseteq strays',
         Among(view) \subseteq Among(view') \cup {0},
         Among(view') \subseteq Among(view) \cup Of(open) \cup strays' \cup {0}
  PROVE  ListingInv'
<1>1. /\ InboxTyped /\ OpenTrue /\ (\A k \in Loads : LoadTrue(loads[k]))
  BY DEF ListingInv
<1>2. Awaited' = Awaited
  BY DEF Awaited, Among
<1>3. /\ Ids' = Ids /\ LoadRow' = LoadRow /\ SendRow' = SendRow /\ (\A c : Of(c)' = Of(c))
      /\ \A n : LoadTrue(n) => LoadTrue(n)'
  BY <1>2, ListsStay
<1>4. InboxTyped'
  BY <1>1, <1>3 DEF InboxTyped
<1>5. \A k \in Loads : LoadTrue(loads[k])'
  BY <1>1, <1>3
<1>6. OpenTrue'
  <2> SUFFICES ASSUME OwnListed
               PROVE  Among(view') \ {0} \subseteq Of(open) \cup strays' /\ Of(open) \subseteq Among(view') \cup Awaited
    <3>1. OwnListed => OwnListed'
      BY <1>2, <1>3 DEF OwnListed, Shown, Among
    <3>2. QED
      BY <1>1, <3>1 DEF OpenTrue, Loading
  <2>1. Among(view) \ {0} \subseteq Of(open) \cup strays /\ Of(open) \subseteq Among(view) \cup Awaited
    BY DEF OwnListed, Shown, Among
  <2>2. 0 \notin Of(open)
    BY <1>1 DEF InboxTyped, Of, Ids
  <2>3. QED
    BY <2>1, <2>2
<1>7. QED
  BY <1>4, <1>5, <1>6 DEF ListingInv

LEMMA SendStep ==
  ASSUME ListingInv,
         SendMessage \/ FindConversation \/ SendPlatform \/ AnswerSend \/ SendFails \/ Sent \/ Refuse
  PROVE  ListingInv'
<1>1. /\ InboxTyped /\ SendTrue /\ ViewTrue /\ send \in SendRow /\ view \in Seq(Ids \cup {0}) /\ Once(view)
      /\ open \in Chats \cup {NoChat} /\ active \in BOOLEAN /\ inboxFaults \in 0..MaxInboxFaults
      /\ strays \subseteq Ids /\ rows \in Seq(Chats)
  BY DEF ListingInv, InboxTyped, ViewTrue
<1>2. Shown = Among(view) /\ Shown' = Among(view')
  BY DEF Shown, Among
<1>3. CASE SendMessage
  <2>1. /\ open # NoChat /\ send.pc = "idle" /\ view' = Append(view, 0)
        /\ send' = [pc |-> "find", chat |-> open, id |-> 0]
        /\ UNCHANGED <<rows, saved, active, wire, linked, open, loads, overrun, missed, strays, inboxFaults>>
    BY <1>3 DEF SendMessage, serverVars
  <2>2. 0 \notin Among(view) /\ 0 \in Ids \cup {0}
    BY <1>1, <1>2, <2>1 DEF ViewTrue
  <2>3. view' \in Seq(Ids \cup {0}) /\ Among(view') = Among(view) \cup {0} /\ Once(view')
    BY <1>1, <2>1, <2>2, AppendIs
  <2>4. send' \in SendRow /\ SendTrue'
    BY <1>1, <2>1 DEF SendRow, SendTrue
  <2>5. ViewTrue'
    BY <2>1, <2>3 DEF ViewTrue, Once
  <2>6. QED
    BY <1>1, <2>1, <2>3, <2>4, <2>5, SendKeeps
<1>4. CASE FindConversation \/ SendPlatform \/ AnswerSend \/ SendFails
  <2>1. /\ UNCHANGED <<rows, saved, wire, linked, open, view, loads, overrun, missed, strays>> /\ active' \in BOOLEAN
        /\ inboxFaults' \in 0..MaxInboxFaults /\ send.pc # "idle"
        /\ \E s \in {"deliver", "refused", "create", "done"} :
              send' = [send EXCEPT !.pc = s] /\ (s = "done" => send.pc = "created")
    <3>1. CASE FindConversation \/ AnswerSend
      BY <1>1, <3>1 DEF FindConversation, AnswerSend, serverVars
    <3>2. CASE SendPlatform
      <4>1. /\ send.pc = "deliver" /\ active' \in {active, FALSE}
            /\ \E s \in {"create", "refused"} : send' = [send EXCEPT !.pc = s]
            /\ UNCHANGED <<rows, saved, wire, linked, open, view, loads, overrun, missed, strays, inboxFaults>>
        BY <3>2 DEF SendPlatform
      <4>2. QED
        BY <1>1, <4>1
    <3>3. CASE SendFails
      <4>1. /\ send.pc # "idle" /\ send' = [send EXCEPT !.pc = "refused"]
            /\ inboxFaults < MaxInboxFaults /\ inboxFaults' = inboxFaults + 1
            /\ UNCHANGED <<rows, saved, active, wire, linked, open, view, loads, overrun, missed, strays>>
        BY <3>3 DEF SendFails, Fault, serverVars
      <4>2. inboxFaults' \in 0..MaxInboxFaults
        BY <1>1, <4>1, InboxAssumption
      <4>3. QED
        BY <1>1, <4>1, <4>2
    <3>4. QED
      BY <1>4, <3>1, <3>2, <3>3
  <2>2. send' \in SendRow /\ SendTrue'
    BY <1>1, <2>1 DEF SendRow, SendTrue, Of, Ids
  <2>3. ViewTrue'
    BY <1>1, <1>2, <2>1 DEF ViewTrue, SendRow, Shown
  <2>4. QED
    BY <1>1, <2>1, <2>2, <2>3, SendKeeps
<1>5. CASE Sent \/ Refuse
  <2>1. /\ UNCHANGED <<rows, saved, active, wire, linked, open, loads, overrun, missed, inboxFaults>>
        /\ send' = NoSend /\ send.pc \in {"done", "refused"}
    BY <1>5 DEF Sent, Refuse, serverVars
  <2>2. /\ Without(view, 0) \in Seq((Ids \cup {0}) \ {0}) /\ Once(Without(view, 0))
        /\ Among(Without(view, 0)) = Among(view) \ {0}
    BY <1>1, WithoutIs
  <2>3. Without(view, 0) \in Seq(Ids \cup {0})
    BY <2>2
  <2>4. NoSend \in SendRow /\ SendTrue'
    BY <2>1 DEF NoSend, SendRow, SendTrue
  <2>5. CASE Refuse
    <3>1. view' = Without(view, 0) /\ strays' = strays
      BY <2>5 DEF Refuse
    <3>2. ViewTrue'
      BY <1>2, <2>2, <3>1 DEF ViewTrue, Once
    <3>3. QED
      BY <1>1, <2>1, <2>2, <2>3, <2>4, <3>1, <3>2, SendKeeps
  <2>6. CASE Sent
    <3>1. /\ view' = AppendNew(Without(view, 0), send.id) /\ send.pc = "done"
          /\ strays' = IF send.chat = open THEN strays ELSE strays \cup {send.id}
      BY <2>6 DEF Sent
    <3>2. send.id \in Of(send.chat) /\ send.id \in Ids /\ send.id # 0
      BY <1>1, <3>1 DEF SendTrue, Of, Ids
    <3>3. view' \in Seq(Ids \cup {0}) /\ Among(view') = (Among(view) \ {0}) \cup {send.id} /\ Once(view')
      BY <2>2, <2>3, <3>1, <3>2, AppendNewIs
    <3>4. ViewTrue'
      BY <1>2, <3>2, <3>3 DEF ViewTrue, Once
    <3>5. strays' \subseteq Ids /\ strays \subseteq strays' /\ send.id \in Of(open) \cup strays'
      BY <1>1, <3>1, <3>2
    <3>6. QED
      BY <1>1, <2>1, <2>4, <3>3, <3>4, <3>5, SendKeeps
  <2>7. QED
    BY <1>5, <2>5, <2>6
<1>6. QED
  BY <1>3, <1>4, <1>5

LEMMA ListingStep ==
  ASSUME ListingInv, [InboxNext]_inboxVars
  PROVE  ListingInv'
<1>1. CASE InboxNext
  BY <1>1, CreateStep, EventStep, HeardStep, LoadStep, SendStep DEF InboxNext
<1>2. CASE UNCHANGED inboxVars
  <2>1. /\ UNCHANGED <<rows, saved, wire, linked, open, loads, overrun, missed, active, view, send, strays, inboxFaults>>
    BY <1>2 DEF inboxVars, serverVars, pageVars
  <2>2. SendTrue' /\ ViewTrue'
    BY <2>1 DEF ListingInv, SendTrue, ViewTrue, Shown, Once, Of, Ids
  <2>3. QED
    BY <2>1, <2>2, SendKeeps DEF ListingInv, InboxTyped
<1>3. QED
  BY <1>1, <1>2

LEMMA ListingShows == ListingInv => InboxTypeOK /\ ListedOnce /\ ListedFaithfully
<1> SUFFICES ASSUME ListingInv PROVE InboxTypeOK /\ ListedOnce /\ ListedFaithfully
  OBVIOUS
<1>1. InboxTyped /\ ViewTrue /\ OpenTrue
  BY DEF ListingInv
<1>2. InboxTypeOK
  BY <1>1 DEF InboxTyped, InboxTypeOK, LoadRow, SendRow
<1>3. ListedOnce
  BY <1>1 DEF ViewTrue, ListedOnce, Once
<1>4. ListedFaithfully
  <2> SUFFICES ASSUME open # NoChat, ~overrun, \A l \in Loads : Loading(l) => loads[l].chat # open
               PROVE  /\ Shown \ {0} \subseteq Of(open) \cup strays
                      /\ Settled => Of(open) \subseteq Shown \cup missed
    BY DEF ListedFaithfully
  <2>1. Settled => Awaited = missed
    BY DEF Settled, Awaited, Among
  <2>2. QED
    BY <1>1, <2>1 DEF OpenTrue, OwnListed
<1>5. QED
  BY <1>2, <1>3, <1>4

-----------------------------------------------------------------------------
(* ConversationList: what is listed, and the header of the open chat.         *)

Ahead(s, t, u) == \E m, n \in DOMAIN s : m < n /\ s[m] = t /\ s[n] = u
\* The conversations under a tab.
Filed(v) == {t \in {order[i] : i \in DOMAIN order} : InView(t, v)}

ListRows == [id : Threads, status : ThreadStatuses, assignee : Mates \cup {NoMate}]
ExcuseSet == (Threads \X (Fields \cup {"place"})) \cup {Tab}
PageCallRow == [pc : {"idle", "reading", "asked", "answered", "patching", "patched"}, view : Views,
                list : Seq(ListRows), id : Threads \cup {NoThread}, field : Fields,
                value : ThreadStatuses \cup Mates \cup {NoMate}, behind : SUBSET ExcuseSet]
ThreadRow == [kinds : SUBSET (Views \ {"all"}), status : ThreadStatuses, assignee : Mates \cup {NoMate}]
ThreadsTyped ==
    /\ order \in Seq(Threads) /\ replied \subseteq Threads /\ mates \subseteq Mates /\ events \in Nat
    /\ thread \in [Threads -> ThreadRow]
    /\ tabView \in Views /\ listedView \in Views /\ statusFilter \in ThreadStatuses \cup {"ALL"}
    /\ conversations \in Seq(ListRows) /\ activeChat \in ListEntries /\ listError \in BOOLEAN
    /\ calls \in [PageCalls -> PageCallRow]
    /\ listExcused \subseteq ExcuseSet /\ chatExcused \subseteq Fields

\* A list of a tab says who is there, and in which order, but for the excuses; and what each one's fields are.
PlacesTell(s, v, ex) ==
    /\ \A t \in Threads : <<t, "place">> \notin ex => ((\E i \in DOMAIN s : s[i].id = t) <=> t \in Filed(v))
    /\ \A i, j \in DOMAIN s : i < j /\ <<s[i].id, "place">> \notin ex /\ <<s[j].id, "place">> \notin ex
                                => Ahead(order, s[i].id, s[j].id)
FieldTells(e, f, ex) == <<e.id, f>> \in ex \/ e[f] = thread[e.id][f]

PageCallTrue(n) ==
    /\ n.pc \in {"patching", "patched"} => n.id \in Threads /\ n.value \in FieldValues(n.field)
    /\ n.pc = "patched" => <<n.id, n.field>> \in n.behind \/ n.value = thread[n.id][n.field]
    /\ n.pc \in {"reading", "asked", "answered"} => Tab \in n.behind \/ n.view = tabView
    /\ n.pc = "answered" => /\ PlacesTell(n.list, n.view, n.behind)
                            /\ \A i \in DOMAIN n.list, f \in Fields : FieldTells(n.list[i], f, n.behind)

\* A list, or a change of a field, that the page is about to hear of.
ListComes == \E l \in PageCalls : calls[l].pc \in {"asked", "answered"}
FieldComes(t, f) == \E l \in PageCalls : calls[l].pc = "patched" /\ calls[l].id = t /\ calls[l].field = f

ShownRows ==
    /\ listError \/ ListComes \/ Tab \in listExcused \/ listedView = tabView
    /\ listError \/ ListComes \/ events > 0 \/ PlacesTell(conversations, listedView, listExcused)
    /\ \A i \in DOMAIN conversations, f \in Fields :
         FieldComes(conversations[i].id, f) \/ FieldTells(conversations[i], f, listExcused)
ShownHead ==
    activeChat.id # NoThread =>
        \A f \in Fields \ chatExcused : FieldComes(activeChat.id, f) \/ activeChat[f] = thread[activeChat.id][f]

ThreadsInv == ThreadsTyped /\ (\A l \in PageCalls : PageCallTrue(calls[l])) /\ ShownRows /\ ShownHead

\* A field of an entry or a conversation is set.
LEMMA EntrySet ==
  ASSUME NEW f \in Fields, NEW v \in FieldValues(f), NEW e \in ListEntries
  PROVE  /\ [e EXCEPT ![f] = v] \in ListEntries
         /\ [e EXCEPT ![f] = v].id = e.id /\ [e EXCEPT ![f] = v][f] = v
         /\ \A g \in Fields : g # f => [e EXCEPT ![f] = v][g] = e[g]
<1>1. CASE f = "status"
  <2>1. v \in ThreadStatuses
    BY <1>1 DEF FieldValues
  <2>2. QED
    BY <1>1, <2>1 DEF Fields, ListEntries
<1>2. CASE f = "assignee"
  <2>1. v \in Mates \cup {NoMate}
    BY <1>2 DEF FieldValues
  <2>2. QED
    BY <1>2, <2>1 DEF Fields, ListEntries
<1>3. QED
  BY <1>1, <1>2 DEF Fields

LEMMA ThreadSet ==
  ASSUME NEW f \in Fields, NEW v \in FieldValues(f), NEW e \in ThreadRow
  PROVE  /\ [e EXCEPT ![f] = v] \in ThreadRow /\ [e EXCEPT ![f] = v].kinds = e.kinds
         /\ [e EXCEPT ![f] = v][f] = v
         /\ \A g \in Fields : g # f => [e EXCEPT ![f] = v][g] = e[g]
<1>1. CASE f = "status"
  <2>1. v \in ThreadStatuses
    BY <1>1 DEF FieldValues
  <2>2. QED
    BY <1>1, <2>1 DEF Fields, ThreadRow
<1>2. CASE f = "assignee"
  <2>1. v \in Mates \cup {NoMate}
    BY <1>2 DEF FieldValues
  <2>2. QED
    BY <1>2, <2>1 DEF Fields, ThreadRow
<1>3. QED
  BY <1>1, <1>2 DEF Fields

\* What getConversations returns tells all.
LEMMA StoredIs ==
  ASSUME order \in Seq(Threads), thread \in [Threads -> ThreadRow], NEW v
  PROVE  /\ StoredList(v) \in Seq(ListRows) /\ PlacesTell(StoredList(v), v, {})
         /\ \A i \in DOMAIN StoredList(v), f \in Fields : FieldTells(StoredList(v)[i], f, {})
<1> DEFINE P == {i \in DOMAIN order : InView(order[i], v)}
           u == Selected(order, P)
           s == [i \in DOMAIN u |-> ThreadEntry(u[i])]
<1>1. /\ u \in Seq(Threads)
      /\ \A i \in DOMAIN u : Nth(P, i) \in P /\ u[i] = order[Nth(P, i)]
      /\ \A i, j \in DOMAIN u : i < j => Nth(P, i) < Nth(P, j)
      /\ \A k \in P : \E i \in DOMAIN u : Nth(P, i) = k
  BY SelectedIs
<1>2. \A k \in P : k \in DOMAIN order /\ k \in Nat
  OBVIOUS
<1>3. StoredList(v) = s
  BY DEF StoredList
<1>4. \A t \in Threads : /\ ThreadEntry(t) \in ListRows /\ ThreadEntry(t).id = t
                         /\ \A f \in Fields : ThreadEntry(t)[f] = thread[t][f]
  BY DEF ThreadEntry, ListRows, ThreadRow, Fields
<1>5. \A t : t \in Filed(v) <=> \E k \in P : order[k] = t
  BY DEF Filed
<1> HIDE DEF P, u
<1>6. /\ s \in Seq(ListRows) /\ DOMAIN s = DOMAIN u
      /\ \A i \in DOMAIN u : u[i] \in Threads /\ s[i] = ThreadEntry(u[i]) /\ s[i].id = u[i]
  <2>1. Len(u) \in Nat /\ DOMAIN u = 1..Len(u) /\ \A i \in DOMAIN u : u[i] \in Threads
    BY <1>1
  <2>2. QED
    BY <1>4, <2>1
<1>7. PlacesTell(s, v, {})
  <2>1. \A t : (\E i \in DOMAIN s : s[i].id = t) <=> t \in Filed(v)
    BY <1>1, <1>5, <1>6
  <2>2. ASSUME NEW i \in DOMAIN s, NEW j \in DOMAIN s, i < j PROVE Ahead(order, s[i].id, s[j].id)
    <3>1. /\ Nth(P, i) \in DOMAIN order /\ Nth(P, j) \in DOMAIN order /\ Nth(P, i) < Nth(P, j)
          /\ order[Nth(P, i)] = s[i].id /\ order[Nth(P, j)] = s[j].id
      BY <1>1, <1>2, <1>6, <2>2
    <3>2. QED
      BY <3>1 DEF Ahead
  <2> HIDE DEF s
  <2>3. QED
    BY <2>1, <2>2 DEF PlacesTell
<1>8. \A i \in DOMAIN s, f \in Fields : FieldTells(s[i], f, {})
  BY <1>4, <1>6 DEF FieldTells
<1>9. QED
  BY <1>3, <1>6, <1>7, <1>8

LEMMA ForemostIs ==
  ASSUME order \in Seq(Threads), NEW t \in Threads
  PROVE  /\ Foremost(t) \in Seq(Threads)
         /\ \A u : u # t => ((\E k \in DOMAIN Foremost(t) : Foremost(t)[k] = u) <=> \E k \in DOMAIN order : order[k] = u)
         /\ \A a, b : a # t /\ b # t /\ Ahead(order, a, b) => Ahead(Foremost(t), a, b)
<1> DEFINE P == {i \in DOMAIN order : order[i] # t}
           u == Selected(order, P)
<1>1. /\ u \in Seq(Threads)
      /\ \A i \in DOMAIN u : Nth(P, i) \in P /\ u[i] = order[Nth(P, i)]
      /\ \A i, j \in DOMAIN u : i < j => Nth(P, i) < Nth(P, j)
      /\ \A k \in P : \E i \in DOMAIN u : Nth(P, i) = k
  BY SelectedIs
<1>2. \A k : k \in P <=> k \in DOMAIN order /\ order[k] # t
  OBVIOUS
<1>3. Foremost(t) = <<t>> \o u
  BY DEF Foremost
<1>4. \A k \in DOMAIN order : k \in Nat
  OBVIOUS
<1> HIDE DEF P, u
<1>5. /\ Foremost(t) \in Seq(Threads) /\ Len(u) \in Nat /\ DOMAIN u = 1..Len(u)
      /\ DOMAIN Foremost(t) = 1..(Len(u) + 1) /\ Foremost(t)[1] = t
      /\ \A i \in 1..Len(u) : Foremost(t)[i + 1] = u[i]
  BY <1>1, <1>3
<1>6. ASSUME NEW w, w # t
      PROVE  (\E k \in DOMAIN Foremost(t) : Foremost(t)[k] = w) <=> \E k \in DOMAIN order : order[k] = w
  <2>1. ASSUME NEW k \in DOMAIN Foremost(t), Foremost(t)[k] = w PROVE \E m \in DOMAIN order : order[m] = w
    <3>1. k - 1 \in 1..Len(u) /\ (k - 1) + 1 = k
      BY <1>5, <1>6, <2>1
    <3>2. u[k - 1] = w
      BY <1>5, <2>1, <3>1
    <3>3. QED
      BY <1>1, <1>2, <1>5, <3>1, <3>2
  <2>2. ASSUME NEW k \in DOMAIN order, order[k] = w PROVE \E m \in DOMAIN Foremost(t) : Foremost(t)[m] = w
    <3>1. PICK i \in DOMAIN u : Nth(P, i) = k
      BY <1>1, <1>2, <1>6, <2>2
    <3>2. i + 1 \in DOMAIN Foremost(t) /\ Foremost(t)[i + 1] = w
      BY <1>1, <1>5, <2>2, <3>1
    <3>3. QED
      BY <3>2
  <2>3. QED
    BY <2>1, <2>2
<1>7. ASSUME NEW a, NEW b, a # t, b # t, Ahead(order, a, b) PROVE Ahead(Foremost(t), a, b)
  <2>1. PICK m \in DOMAIN order, n \in DOMAIN order : m < n /\ order[m] = a /\ order[n] = b
    BY <1>7 DEF Ahead
  <2>2. PICK i \in DOMAIN u : Nth(P, i) = m
    BY <1>1, <1>2, <1>7, <2>1
  <2>3. PICK j \in DOMAIN u : Nth(P, j) = n
    BY <1>1, <1>2, <1>7, <2>1
  <2>4. i \in Nat /\ j \in Nat /\ m \in Nat /\ n \in Nat
    BY <1>4, <1>5
  <2>5. i # j /\ ~(j < i)
    BY <1>1, <2>1, <2>2, <2>3, <2>4
  <2>6. i + 1 < j + 1
    BY <2>4, <2>5
  <2>7. i + 1 \in DOMAIN Foremost(t) /\ j + 1 \in DOMAIN Foremost(t)
    BY <1>5
  <2>8. Foremost(t)[i + 1] = a /\ Foremost(t)[j + 1] = b
    BY <1>1, <1>5, <2>1, <2>2, <2>3
  <2>9. QED
    BY <2>6, <2>7, <2>8 DEF Ahead
<1>8. QED
  BY <1>5, <1>6, <1>7

LEMMA ThreadsInit == ListInit => ThreadsInv
<1> SUFFICES ASSUME ListInit PROVE ThreadsInv
  OBVIOUS
<1>1. order \in Seq(Threads)
  <2>1. PICK n \in {0, Cardinality(Threads)} : order \in [1..n -> Threads]
    BY DEF ListInit
  <2>2. n \in Nat
    BY <2>1, FS_CardinalityType, ConversationAssumption
  <2>3. QED
    BY <2>1, <2>2
<1>2. /\ replied = {} /\ mates = Mates /\ events = 0 /\ tabView = "all" /\ statusFilter = "ALL"
      /\ thread = [t \in Threads |-> [kinds |-> IF order = <<>> THEN {} ELSE {"messages"},
                                      status |-> "OPEN", assignee |-> NoMate]]
      /\ conversations = StoredList("all") /\ listError = FALSE /\ activeChat = NoChatEntry
      /\ calls = [l \in PageCalls |-> NoPageCall]
      /\ listedView = "all" /\ listExcused = {} /\ chatExcused = {}
  BY DEF ListInit
<1>3. thread \in [Threads -> ThreadRow]
  BY <1>2, ConversationAssumption DEF ThreadRow, Views
<1>4. /\ StoredList("all") \in Seq(ListRows) /\ PlacesTell(StoredList("all"), "all", {})
      /\ \A i \in DOMAIN StoredList("all"), f \in Fields : FieldTells(StoredList("all")[i], f, {})
  BY <1>1, <1>3, StoredIs
<1>5. NoPageCall \in PageCallRow /\ NoPageCall.pc = "idle"
  BY ConversationAssumption DEF NoPageCall, PageCallRow, Views, Fields
<1>6. NoChatEntry \in ListEntries /\ NoChatEntry.id = NoThread
  BY ConversationAssumption DEF NoChatEntry, ListEntries
<1>7. ThreadsTyped
  BY <1>1, <1>2, <1>3, <1>4, <1>5, <1>6 DEF ThreadsTyped, Views
<1>8. \A l \in PageCalls : PageCallTrue(calls[l])
  BY <1>2, <1>5 DEF PageCallTrue
<1>9. ShownRows /\ ShownHead
  BY <1>2, <1>4, <1>6 DEF ShownRows, ShownHead
<1>10. QED
  BY <1>7, <1>8, <1>9 DEF ThreadsInv

\* One call goes on, and what is stored stays.
LEMMA OneCallMoves ==
  ASSUME ThreadsInv, UNCHANGED <<order, thread, tabView>>,
         NEW l \in PageCalls, NEW n \in PageCallRow, calls' = [calls EXCEPT ![l] = n], PageCallTrue(n)
  PROVE  calls' \in [PageCalls -> PageCallRow] /\ \A k \in PageCalls : PageCallTrue(calls[k])'
<1>1. calls \in [PageCalls -> PageCallRow] /\ \A k \in PageCalls : PageCallTrue(calls[k])
  BY DEF ThreadsInv, ThreadsTyped
<1>2. \A s, v, ex : PlacesTell(s, v, ex) => PlacesTell(s, v, ex)'
  BY DEF PlacesTell, Filed, InView
<1>3. \A m : PageCallTrue(m) => PageCallTrue(m)'
  BY <1>2 DEF PageCallTrue, FieldTells
<1>4. QED
  BY <1>1, <1>3

LEMMA RowsStay ==
  ASSUME ThreadsInv, UNCHANGED <<order, thread, tabView, conversations, listedView>>,
         listExcused \subseteq listExcused', listError => listError',
         ListComes => listError' \/ ListComes',
         events > 0 => \/ listError' \/ ListComes' \/ events' > 0
                       \/ \A t \in Threads : <<t, "place">> \in listExcused',
         \A t, f : FieldComes(t, f) => FieldComes(t, f)' \/ <<t, f>> \in listExcused'
  PROVE  ShownRows'
<1>1. ShownRows /\ conversations \in Seq(ListRows)
  BY DEF ThreadsInv, ThreadsTyped
<1>2. ASSUME PlacesTell(conversations, listedView, listExcused)
      PROVE  PlacesTell(conversations, listedView, listExcused)'
  BY <1>2 DEF PlacesTell, Filed, InView
<1>3. ASSUME \A t \in Threads : <<t, "place">> \in listExcused'
      PROVE  PlacesTell(conversations, listedView, listExcused)'
  <2>1. ASSUME NEW i \in DOMAIN conversations PROVE conversations[i].id \in Threads
    <3>1. conversations[i] \in ListRows
      BY <1>1
    <3>2. QED
      BY <3>1 DEF ListRows
  <2>2. QED
    BY <1>3, <2>1 DEF PlacesTell
<1>4. listError' \/ ListComes' \/ events' > 0 \/ PlacesTell(conversations, listedView, listExcused)'
  BY <1>1, <1>2, <1>3 DEF ShownRows
<1>5. listError' \/ ListComes' \/ (Tab \in listExcused)' \/ listedView' = tabView'
  BY <1>1 DEF ShownRows, Tab
<1>6. ASSUME NEW i \in DOMAIN conversations, NEW f \in Fields
      PROVE  (FieldComes(conversations[i].id, f) \/ FieldTells(conversations[i], f, listExcused))'
  <2>1. PICK e : e = conversations[i]
    OBVIOUS
  <2>2. FieldComes(e.id, f) \/ FieldTells(e, f, listExcused)
    BY <1>1, <2>1 DEF ShownRows
  <2>3. FieldComes(e.id, f)' \/ FieldTells(e, f, listExcused)'
    BY <2>2 DEF FieldTells
  <2>4. QED
    BY <2>1, <2>3
<1>7. QED
  BY <1>4, <1>5, <1>6 DEF ShownRows

LEMMA HeadStays ==
  ASSUME ThreadsInv, UNCHANGED <<thread, activeChat>>, chatExcused \subseteq chatExcused',
         \A f : FieldComes(activeChat.id, f) => FieldComes(activeChat.id, f)' \/ f \in chatExcused'
  PROVE  ShownHead'
<1>1. ShownHead
  BY DEF ThreadsInv
<1>2. PICK t : t = activeChat.id
  OBVIOUS
<1>3. \A f \in Fields \ chatExcused' : t # NoThread => FieldComes(t, f)' \/ activeChat[f] = thread[t][f]
  BY <1>1, <1>2 DEF ShownHead
<1>4. QED
  BY <1>2, <1>3 DEF ShownHead

\* One call goes on: what comes by the others comes still.
LEMMA OthersCome ==
  ASSUME ThreadsInv, NEW l \in PageCalls, NEW n \in PageCallRow, calls' = [calls EXCEPT ![l] = n]
  PROVE  /\ n.pc \in {"asked", "answered"} => ListComes'
         /\ calls[l].pc \notin {"asked", "answered"} /\ ListComes => ListComes'
         /\ calls[l].pc # "patched" => \A t, f : FieldComes(t, f) => FieldComes(t, f)'
         /\ \A t, f : FieldComes(t, f) => \/ FieldComes(t, f)'
                                          \/ calls[l].pc = "patched" /\ t = calls[l].id /\ f = calls[l].field
<1>1. calls' = [calls EXCEPT ![l] = n] /\ calls \in [PageCalls -> PageCallRow]
  BY DEF ThreadsInv, ThreadsTyped
<1>2. calls'[l] = n /\ \A k \in PageCalls : k # l => calls'[k] = calls[k]
  BY <1>1
<1>3. n.pc \in {"asked", "answered"} => ListComes'
  BY <1>2 DEF ListComes
<1>4. calls[l].pc \notin {"asked", "answered"} /\ ListComes => ListComes'
  BY <1>2 DEF ListComes
<1>5. ASSUME NEW t, NEW f, FieldComes(t, f)
      PROVE  FieldComes(t, f)' \/ (calls[l].pc = "patched" /\ t = calls[l].id /\ f = calls[l].field)
  BY <1>2, <1>5 DEF FieldComes
<1>6. QED
  BY <1>3, <1>4, <1>5

LEMMA IdleCall == /\ NoPageCall \in PageCallRow /\ NoPageCall.pc = "idle" /\ PageCallTrue(NoPageCall)
                  /\ NoPageCall.behind = {} /\ NoPageCall.view = "all"
BY ConversationAssumption DEF NoPageCall, PageCallRow, Views, Fields, PageCallTrue

\* A call that leaves what is shown alone, begins, goes on or ends.
LEMMA ListLeftAlone ==
  ASSUME ThreadsInv, NEW l \in PageCalls, NEW n \in PageCallRow, calls' = [calls EXCEPT ![l] = n], PageCallTrue(n),
         UNCHANGED <<talkRows, tabView, conversations, listedView, listExcused, chatHead>>,
         statusFilter' \in ThreadStatuses \cup {"ALL"}, listError' \in BOOLEAN, listError => listError', events' \in Nat,
         events > 0 => events' > 0 \/ n.pc = "asked",
         calls[l].pc \in {"asked", "answered"} => n.pc = "answered" \/ listError',
         calls[l].pc # "patched"
  PROVE  ThreadsInv'
<1>1. /\ UNCHANGED <<order, thread, replied, mates, tabView, conversations, listedView, listExcused, activeChat,
                     chatExcused>>
      /\ ThreadsTyped
  BY DEF talkRows, chatHead, ThreadsInv
<1>2. calls' \in [PageCalls -> PageCallRow] /\ \A k \in PageCalls : PageCallTrue(calls[k])'
  BY <1>1, OneCallMoves
<1>3. ThreadsTyped'
  BY <1>1, <1>2 DEF ThreadsTyped, ExcuseSet, Tab
<1>4. (ListComes => listError' \/ ListComes') /\ (n.pc = "asked" => ListComes')
  BY OthersCome
<1>5. \A t, f : FieldComes(t, f) => FieldComes(t, f)'
  BY OthersCome
<1>6. ShownRows'
  BY <1>1, <1>4, <1>5, RowsStay
<1>7. ShownHead'
  BY <1>1, <1>5, HeadStays
<1>8. QED
  BY <1>2, <1>3, <1>6, <1>7 DEF ThreadsInv

LEMMA ListAsked ==
  ASSUME ThreadsInv, NEW l \in PageCalls,
         OnEvent(l) \/ (\E s \in ThreadStatuses \cup {"ALL"} : SetFilterStatus(l, s))
  PROVE  ThreadsInv'
<1> DEFINE n == [NoPageCall EXCEPT !.pc = "asked", !.view = tabView]
<1>1. ThreadsTyped
  BY DEF ThreadsInv
<1>2. n \in PageCallRow /\ n.pc = "asked" /\ n.view = tabView
  BY <1>1, IdleCall DEF PageCallRow, ThreadsTyped
<1>3. PageCallTrue(n)
  BY <1>2 DEF PageCallTrue
<1>4. /\ calls' = [calls EXCEPT ![l] = n] /\ calls[l].pc = "idle"
      /\ UNCHANGED <<talkRows, tabView, conversations, listError, listedView, listExcused, chatHead>>
      /\ statusFilter' \in ThreadStatuses \cup {"ALL"} /\ events' \in Nat
  BY <1>1 DEF OnEvent, SetFilterStatus, Ask, ThreadsTyped, listShown, listPicks
<1> HIDE DEF n
<1>5. QED
  BY <1>1, <1>2, <1>3, <1>4, ListLeftAlone DEF ThreadsTyped

LEMMA PressStep ==
  ASSUME ThreadsInv, NEW l \in PageCalls,
         \/ \E v \in ThreadStatuses : UpdateStatus(l, v)
         \/ \E p \in Mates \cup {NoMate} : AssignConversation(l, p)
  PROVE  ThreadsInv'
<1>1. PICK f, v : f \in Fields /\ v \in FieldValues(f) /\ PressButton(l, f, v)
  BY DEF UpdateStatus, AssignConversation, Fields, FieldValues
<1> DEFINE n == [NoPageCall EXCEPT !.pc = "patching", !.id = activeChat.id, !.field = f, !.value = v]
<1>2. ThreadsTyped
  BY DEF ThreadsInv
<1>3. activeChat.id \in Threads
  BY <1>1, <1>2 DEF PressButton, ThreadsTyped, ListEntries
<1>4. v \in ThreadStatuses \cup Mates \cup {NoMate}
  BY <1>1 DEF FieldValues
<1>5. /\ n \in PageCallRow /\ n.pc = "patching" /\ n.id = activeChat.id /\ n.field = f /\ n.value = v
  BY <1>1, <1>3, <1>4, IdleCall DEF PageCallRow
<1>6. PageCallTrue(n)
  BY <1>1, <1>3, <1>5 DEF PageCallTrue
<1>7. /\ calls' = [calls EXCEPT ![l] = n] /\ calls[l].pc = "idle"
      /\ UNCHANGED <<talkRows, events, tabView, statusFilter, conversations, listError, listedView, listExcused, chatHead>>
  BY <1>1 DEF PressButton, listShown, listPicks
<1> HIDE DEF n
<1>8. QED
  BY <1>2, <1>5, <1>6, <1>7, ListLeftAlone DEF ThreadsTyped

LEMMA ListAnswered ==
  ASSUME ThreadsInv, NEW l \in PageCalls,
         MarkRead(l) \/ ReadFails(l) \/ RefuseChange(l) \/ ListFails(l) \/ GetConversations(l)
  PROVE  ThreadsInv'
<1>1. ThreadsTyped /\ calls[l] \in PageCallRow /\ PageCallTrue(calls[l]) /\ calls \in [PageCalls -> PageCallRow]
  BY DEF ThreadsInv, ThreadsTyped
<1>2. CASE ReadFails(l) \/ RefuseChange(l) \/ ListFails(l)
  <2>1. /\ calls' = [calls EXCEPT ![l] = NoPageCall] /\ calls[l].pc # "patched"
        /\ calls[l].pc \in {"asked", "answered"} => listError'
        /\ listError' \in BOOLEAN /\ (listError => listError')
        /\ UNCHANGED <<talkRows, events, tabView, statusFilter, conversations, listedView, listExcused, chatHead>>
    BY <1>1, <1>2 DEF ReadFails, RefuseChange, ListFails, Drop, listShown, listPicks, ThreadsTyped
  <2>2. QED
    BY <1>1, <2>1, IdleCall, ListLeftAlone DEF ThreadsTyped
<1>3. CASE MarkRead(l)
  <2> DEFINE n == [calls[l] EXCEPT !.pc = "asked"]
  <2>1. /\ calls' = [calls EXCEPT ![l] = n] /\ calls[l].pc = "reading"
        /\ UNCHANGED <<talkRows, events, tabView, statusFilter, conversations, listError, listedView, listExcused,
                       chatHead>>
    BY <1>1, <1>3 DEF MarkRead, listShown, listPicks
  <2>2. n \in PageCallRow /\ n.pc = "asked" /\ n.view = calls[l].view /\ n.behind = calls[l].behind
    BY <1>1 DEF PageCallRow
  <2>3. PageCallTrue(n)
    BY <1>1, <2>1, <2>2 DEF PageCallTrue
  <2> HIDE DEF n
  <2>4. QED
    BY <1>1, <2>1, <2>2, <2>3, ListLeftAlone DEF ThreadsTyped
<1>4. CASE GetConversations(l)
  <2> DEFINE v == calls[l].view
             n == [calls[l] EXCEPT !.pc = "answered", !.list = StoredList(calls[l].view)]
  <2>1. /\ calls' = [calls EXCEPT ![l] = n] /\ calls[l].pc = "asked"
        /\ UNCHANGED <<talkRows, events, tabView, statusFilter, conversations, listError, listedView, listExcused,
                       chatHead>>
    BY <1>1, <1>4 DEF GetConversations, listShown, listPicks
  <2>2. /\ StoredList(v) \in Seq(ListRows) /\ PlacesTell(StoredList(v), v, {})
        /\ \A i \in DOMAIN StoredList(v), f \in Fields : FieldTells(StoredList(v)[i], f, {})
    BY <1>1, StoredIs DEF ThreadsTyped
  <2>3. /\ n \in PageCallRow /\ n.pc = "answered" /\ n.view = v /\ n.behind = calls[l].behind
        /\ n.list = StoredList(v)
    BY <1>1, <2>2 DEF PageCallRow
  <2>4. PlacesTell(n.list, n.view, n.behind)
    BY <2>2, <2>3 DEF PlacesTell
  <2>5. \A i \in DOMAIN n.list, f \in Fields : FieldTells(n.list[i], f, n.behind)
    BY <2>2, <2>3 DEF FieldTells
  <2>6. Tab \in n.behind \/ n.view = tabView
    BY <1>1, <2>1, <2>3 DEF PageCallTrue
  <2> HIDE DEF n
  <2>7. PageCallTrue(n)
    BY <2>3, <2>4, <2>5, <2>6 DEF PageCallTrue
  <2>8. QED
    BY <1>1, <2>1, <2>3, <2>7, ListLeftAlone DEF ThreadsTyped
<1>5. QED
  BY <1>2, <1>3, <1>4

\* The place of a conversation changes: whatever was read before is excused of it.
LEMMA PlacesMove ==
  ASSUME ThreadsInv, NEW t \in Threads, order' \in Seq(Threads), thread' \in [Threads -> ThreadRow],
         \A u \in Threads, f \in Fields : thread'[u][f] = thread[u][f],
         \A u \in Threads \ {t} : thread'[u].kinds = thread[u].kinds,
         \A u \in Threads \ {t} : (\E k \in DOMAIN order' : order'[k] = u) <=> (\E k \in DOMAIN order : order[k] = u),
         \A a, b : a # t /\ b # t /\ Ahead(order, a, b) => Ahead(order', a, b),
         calls' = NotedBehind(calls, <<t, "place">>),
         UNCHANGED <<listPicks, conversations, listError, listedView, chatHead>>,
         replied' \subseteq Threads, mates' = mates, events' \in Nat, events > 0 => events' > 0,
         listExcused' = listExcused \/ listExcused' = listExcused \cup {<<t, "place">>},
         events' > 0 \/ ListComes \/ <<t, "place">> \in listExcused'
  PROVE  ThreadsInv'
<1>1. /\ ThreadsTyped /\ ShownRows /\ ShownHead
      /\ \A l \in PageCalls : calls[l] \in PageCallRow /\ PageCallTrue(calls[l])
      /\ UNCHANGED <<tabView, statusFilter, activeChat, chatExcused>>
  BY DEF ThreadsInv, ThreadsTyped, listPicks, chatHead
<1> DEFINE x == <<t, "place">>
<1>2. x \in ExcuseSet
  BY DEF ExcuseSet
<1>3. \A v : \A u \in Threads : u # t => (u \in Filed(v)' <=> u \in Filed(v))
  <2> SUFFICES ASSUME NEW u \in Threads, NEW v, u # t PROVE u \in Filed(v)' <=> u \in Filed(v)
    OBVIOUS
  <2>1. u \in Filed(v) <=> (\E k \in DOMAIN order : order[k] = u) /\ (v = "all" \/ v \in thread[u].kinds)
    BY DEF Filed, InView
  <2>2. u \in Filed(v)' <=> (\E k \in DOMAIN order' : order'[k] = u) /\ (v = "all" \/ v \in thread'[u].kinds)
    BY DEF Filed, InView
  <2>3. QED
    BY <2>1, <2>2
<1>4. \A s, v, ex : PlacesTell(s, v, ex) => PlacesTell(s, v, ex \cup {x})'
  <2> SUFFICES ASSUME NEW s, NEW v, NEW ex, PlacesTell(s, v, ex) PROVE PlacesTell(s, v, ex \cup {x})'
    OBVIOUS
  <2>1. ASSUME NEW u \in Threads, <<u, "place">> \notin ex \cup {x}
        PROVE  (\E i \in DOMAIN s : s[i].id = u) <=> u \in Filed(v)'
    <3>1. u # t /\ <<u, "place">> \notin ex
      BY <2>1
    <3>2. QED
      BY <1>3, <3>1 DEF PlacesTell
  <2>2. ASSUME NEW i \in DOMAIN s, NEW j \in DOMAIN s, i < j, <<s[i].id, "place">> \notin ex \cup {x},
               <<s[j].id, "place">> \notin ex \cup {x}
        PROVE  Ahead(order', s[i].id, s[j].id)
    <3>1. s[i].id # t /\ s[j].id # t
      BY <2>2
    <3>2. Ahead(order, s[i].id, s[j].id)
      BY <2>2 DEF PlacesTell
    <3>3. QED
      BY <3>1, <3>2
  <2>3. QED
    BY <2>1, <2>2 DEF PlacesTell
<1>5. ASSUME NEW e, NEW f \in Fields, NEW ex, e.id \in Threads, FieldTells(e, f, ex)
      PROVE  e[f] = thread'[e.id][f] \/ <<e.id, f>> \in ex
  BY <1>5 DEF FieldTells
<1>6. ASSUME NEW l \in PageCalls
      PROVE  /\ calls'[l] \in PageCallRow /\ PageCallTrue(calls[l])'
             /\ calls'[l].pc = calls[l].pc /\ calls'[l].id = calls[l].id /\ calls'[l].field = calls[l].field
  <2>1. CASE calls[l].pc \notin {"answered", "patched"}
    <3>1. calls'[l] = calls[l]
      BY <2>1 DEF NotedBehind
    <3>2. QED
      BY <1>1, <2>1, <3>1 DEF PageCallTrue
  <2>2. CASE calls[l].pc \in {"answered", "patched"}
    <3>1. PICK c \in PageCallRow : c = calls[l] /\ PageCallTrue(c)
      BY <1>1
    <3> DEFINE n == [c EXCEPT !.behind = @ \cup {x}]
    <3>2. calls'[l] = n
      BY <2>2, <3>1 DEF NotedBehind
    <3>3. /\ n \in PageCallRow /\ n.pc = c.pc /\ n.id = c.id /\ n.field = c.field /\ n.value = c.value
          /\ n.view = c.view /\ n.list = c.list /\ n.behind = c.behind \cup {x}
      BY <1>2 DEF PageCallRow
    <3> HIDE DEF n
    <3>4. ASSUME c.pc = "patched" PROVE <<c.id, c.field>> \in n.behind \/ c.value = thread'[c.id][c.field]
      <4>1. c.id \in Threads /\ c.field \in Fields
        BY <3>1, <3>4 DEF PageCallTrue, PageCallRow
      <4>2. QED
        BY <3>1, <3>3, <3>4, <4>1 DEF PageCallTrue
    <3>5. ASSUME c.pc = "answered"
          PROVE  /\ PlacesTell(n.list, n.view, n.behind)'
                 /\ \A i \in DOMAIN c.list, f \in Fields :
                      c.list[i][f] = thread'[c.list[i].id][f] \/ <<c.list[i].id, f>> \in n.behind
      <4>1. PlacesTell(c.list, c.view, c.behind \cup {x})'
        BY <1>4, <3>1, <3>5 DEF PageCallTrue
      <4>2. \A i \in DOMAIN c.list : c.list[i] \in ListRows
        BY DEF PageCallRow
      <4>3. \A i \in DOMAIN c.list : c.list[i].id \in Threads
        BY <4>2 DEF ListRows
      <4>4. \A i \in DOMAIN c.list, f \in Fields : FieldTells(c.list[i], f, c.behind)
        BY <3>1, <3>5 DEF PageCallTrue
      <4>5. QED
        BY <1>5, <3>3, <4>1, <4>3, <4>4
    <3>6. PageCallTrue(n)'
      BY <1>1, <3>1, <3>3, <3>4, <3>5 DEF PageCallTrue, FieldTells, Tab
    <3>7. QED
      BY <3>1, <3>2, <3>3, <3>6
  <2>3. QED
    BY <2>1, <2>2
<1>7. calls' \in [PageCalls -> PageCallRow]
  BY <1>6 DEF NotedBehind
<1>8. ThreadsTyped'
  BY <1>1, <1>2, <1>7 DEF ThreadsTyped, ExcuseSet, Tab
<1>9. /\ ListComes => ListComes'
      /\ \A u, f : FieldComes(u, f) => FieldComes(u, f)'
  BY <1>6 DEF ListComes, FieldComes
<1>10. ASSUME ~listError, ~ListComes', ~(events' > 0)
       PROVE  PlacesTell(conversations, listedView, listExcused)'
  <2>1. PlacesTell(conversations, listedView, listExcused) /\ x \in listExcused'
    BY <1>1, <1>9, <1>10 DEF ShownRows
  <2>2. listExcused' = listExcused \cup {x}
    BY <2>1
  <2>3. PICK s, v, ex : s = conversations /\ v = listedView /\ ex = listExcused
    OBVIOUS
  <2>4. PlacesTell(s, v, ex \cup {x})'
    BY <1>4, <2>1, <2>3
  <2>5. QED
    BY <2>2, <2>3, <2>4
<1>11. ASSUME NEW i \in DOMAIN conversations, NEW f \in Fields
       PROVE  (FieldComes(conversations[i].id, f) \/ FieldTells(conversations[i], f, listExcused))'
  <2>1. PICK e \in ListRows : e = conversations[i]
    BY <1>1 DEF ThreadsTyped
  <2>2. FieldComes(e.id, f) \/ FieldTells(e, f, listExcused)
    BY <1>1, <2>1 DEF ShownRows
  <2>3. e.id \in Threads
    BY DEF ListRows
  <2>4. FieldComes(e.id, f)' \/ FieldTells(e, f, listExcused)'
    BY <1>9, <2>2, <2>3 DEF FieldTells
  <2>5. QED
    BY <2>1, <2>4
<1>12. ShownRows'
  <2>1. (Tab \in listExcused)' \/ Tab \notin listExcused
    BY DEF Tab
  <2>2. QED
    BY <1>1, <1>9, <1>10, <1>11, <2>1 DEF ShownRows
<1>13. ShownHead'
  <2>1. PICK t0 \in Threads \cup {NoThread} : t0 = activeChat.id
    BY <1>1 DEF ThreadsTyped, ListEntries
  <2>2. \A f \in Fields \ chatExcused : t0 # NoThread => FieldComes(t0, f)' \/ activeChat[f] = thread'[t0][f]
    BY <1>1, <1>9, <2>1 DEF ShownHead
  <2>3. QED
    BY <1>1, <2>1, <2>2 DEF ShownHead
<1>14. QED
  BY <1>6, <1>8, <1>12, <1>13 DEF ThreadsInv

LEMMA KindAdded ==
  ASSUME ThreadsTyped, NEW t \in Threads, NEW kind \in Views \ {"all"},
         thread' = [thread EXCEPT ![t].kinds = @ \cup {kind}]
  PROVE  /\ thread' \in [Threads -> ThreadRow]
         /\ \A u \in Threads, f \in Fields : thread'[u][f] = thread[u][f]
         /\ \A u \in Threads \ {t} : thread'[u].kinds = thread[u].kinds
BY DEF ThreadsTyped, ThreadRow, Fields

LEMMA MessageStep ==
  ASSUME ThreadsInv, NEW t \in Threads,
         \/ \E kind \in Views \ {"all"} : Inbound(t, kind) \/ ReplyTo(t, kind)
         \/ AutomaticReply(t) \/ BringUp(t)
  PROVE  ThreadsInv'
<1>1. ThreadsTyped /\ order \in Seq(Threads)
  BY DEF ThreadsInv, ThreadsTyped
<1>2. /\ Foremost(t) \in Seq(Threads)
      /\ \A u : u # t => ((\E k \in DOMAIN Foremost(t) : Foremost(t)[k] = u) <=> \E k \in DOMAIN order : order[k] = u)
      /\ \A a, b : a # t /\ b # t /\ Ahead(order, a, b) => Ahead(Foremost(t), a, b)
  BY <1>1, ForemostIs
<1>3. ASSUME NEW kind \in Views \ {"all"}, Inbound(t, kind) PROVE ThreadsInv'
  <2>1. /\ thread' = [thread EXCEPT ![t].kinds = @ \cup {kind}] /\ order' = Foremost(t)
        /\ calls' = NotedBehind(calls, <<t, "place">>) /\ events' = events + 1
        /\ UNCHANGED <<replied, mates, listPicks, conversations, listError, listedView, listExcused, chatHead>>
    BY <1>3 DEF Inbound, listShown
  <2>2. events' \in Nat /\ events' > 0 /\ replied \subseteq Threads
    BY <1>1, <2>1 DEF ThreadsTyped
  <2>3. /\ thread' \in [Threads -> ThreadRow]
        /\ \A u \in Threads, f \in Fields : thread'[u][f] = thread[u][f]
        /\ \A u \in Threads \ {t} : thread'[u].kinds = thread[u].kinds
    BY <1>1, <2>1, KindAdded
  <2>4. /\ order' \in Seq(Threads)
        /\ \A u \in Threads \ {t} : (\E k \in DOMAIN order' : order'[k] = u) <=> (\E k \in DOMAIN order : order[k] = u)
        /\ \A a, b : a # t /\ b # t /\ Ahead(order, a, b) => Ahead(order', a, b)
    BY <1>2, <2>1
  <2>5. events' > 0 /\ replied' \subseteq Threads
    BY <2>1, <2>2
  <2>6. QED
    BY <2>1, <2>2, <2>3, <2>4, <2>5, PlacesMove
<1>4. ASSUME NEW kind \in Views \ {"all"}, ReplyTo(t, kind) \/ (AutomaticReply(t) /\ kind = "messages")
      PROVE  ThreadsInv'
  <2>1. /\ thread' = [thread EXCEPT ![t].kinds = @ \cup {kind}] /\ order' = order
        /\ calls' = NotedBehind(calls, <<t, "place">>) /\ events' = events + 1 /\ replied' \subseteq replied \cup {t}
        /\ UNCHANGED <<mates, listPicks, conversations, listError, listedView, listExcused, chatHead>>
    BY <1>4 DEF ReplyTo, AutomaticReply, listShown
  <2>2. events' \in Nat /\ events' > 0 /\ replied' \subseteq Threads
    BY <1>1, <2>1 DEF ThreadsTyped
  <2>3. /\ thread' \in [Threads -> ThreadRow]
        /\ \A u \in Threads, f \in Fields : thread'[u][f] = thread[u][f]
        /\ \A u \in Threads \ {t} : thread'[u].kinds = thread[u].kinds
    BY <1>1, <2>1, KindAdded
  <2>4. QED
    BY <1>1, <2>1, <2>2, <2>3, PlacesMove
<1>5. CASE BringUp(t)
  <2>1. /\ order' = Foremost(t) /\ replied' = replied \ {t} /\ calls' = NotedBehind(calls, <<t, "place">>)
        /\ listExcused' = (IF events = 0 /\ \A l \in PageCalls : calls[l].pc # "asked"
                           THEN listExcused \cup {<<t, "place">>} ELSE listExcused)
        /\ UNCHANGED <<thread, mates, events, listPicks, conversations, listError, listedView, chatHead>>
    BY <1>5 DEF BringUp
  <2>2. events \in Nat /\ replied' \subseteq Threads /\ thread \in [Threads -> ThreadRow]
    BY <1>1, <2>1 DEF ThreadsTyped
  <2>3. events' > 0 \/ ListComes \/ <<t, "place">> \in listExcused'
    BY <2>1, <2>2 DEF ListComes
  <2>4. /\ order' \in Seq(Threads)
        /\ \A u \in Threads \ {t} : (\E k \in DOMAIN order' : order'[k] = u) <=> (\E k \in DOMAIN order : order[k] = u)
        /\ \A a, b : a # t /\ b # t /\ Ahead(order, a, b) => Ahead(order', a, b)
    BY <1>2, <2>1
  <2>5. QED
    BY <2>1, <2>2, <2>3, <2>4, PlacesMove
<1>6. QED
  BY <1>3, <1>4, <1>5 DEF Views

LEMMA StandStep ==
  ASSUME ThreadsInv, LoseEvent \/ (\E p \in Mates : LeaveTeam(p)) \/ UNCHANGED conversationVars
  PROVE  ThreadsInv'
<1>1. /\ ThreadsTyped /\ \A l \in PageCalls : PageCallTrue(calls[l])
  BY DEF ThreadsInv
<1>2. /\ UNCHANGED <<order, thread, replied, listPicks, conversations, listError, listedView, chatHead, calls>>
      /\ mates' \subseteq Mates /\ events' \in Nat
      /\ listExcused' = listExcused \/ listExcused' = listExcused \cup (Threads \X {"place"})
      /\ events' = events \/ listExcused' = listExcused \cup (Threads \X {"place"})
  <2>1. CASE LoseEvent
    BY <1>1, <2>1 DEF LoseEvent, talkRows, listShown, ThreadsTyped
  <2>2. CASE \E p \in Mates : LeaveTeam(p)
    BY <1>1, <2>2 DEF LeaveTeam, listShown, ThreadsTyped
  <2>3. CASE UNCHANGED conversationVars
    BY <1>1, <2>3 DEF conversationVars, talkRows, listShown, listPicks, chatHead, ThreadsTyped
  <2>4. QED
    BY <2>1, <2>2, <2>3
<1>3. ThreadsTyped'
  BY <1>1, <1>2 DEF ThreadsTyped, ExcuseSet, Tab, listPicks, chatHead
<1>4. \A l \in PageCalls : PageCallTrue(calls[l])'
  <2>1. \A s, v, ex : PlacesTell(s, v, ex) => PlacesTell(s, v, ex)'
    BY <1>2 DEF PlacesTell, Filed, InView
  <2>2. \A m : PageCallTrue(m) => PageCallTrue(m)'
    BY <1>2, <2>1 DEF PageCallTrue, FieldTells, listPicks
  <2>3. QED
    BY <1>1, <1>2, <2>2
<1>5. (ListComes => ListComes') /\ \A t, f : FieldComes(t, f) => FieldComes(t, f)'
  BY <1>2 DEF ListComes, FieldComes
<1>6. ShownRows'
  <2>1. \/ events > 0 => events' > 0
        \/ \A t \in Threads : <<t, "place">> \in listExcused'
    BY <1>2
  <2>2. QED
    BY <1>2, <1>5, <2>1, RowsStay DEF listPicks
<1>7. ShownHead'
  BY <1>2, <1>5, HeadStays DEF chatHead
<1>8. QED
  BY <1>3, <1>4, <1>6, <1>7 DEF ThreadsInv

\* Another tab: its list is asked for, and what is on its way is for the old one.
LEMMA TabStep ==
  ASSUME ThreadsInv, NEW l \in PageCalls, NEW v \in Views, SetView(l, v)
  PROVE  ThreadsInv'
<1>1. /\ ThreadsTyped /\ ShownRows /\ ShownHead /\ \A m \in PageCalls : PageCallTrue(calls[m]) /\ calls[m] \in PageCallRow
  BY DEF ThreadsInv, ThreadsTyped
<1>2. /\ calls[l].pc = "idle" /\ tabView' = v
      /\ calls' = [m \in PageCalls |->
                     IF m = l THEN [NoPageCall EXCEPT !.pc = "asked", !.view = v]
                     ELSE IF calls[m].pc \in {"reading", "asked", "answered"}
                          THEN [calls[m] EXCEPT !.behind = @ \cup {Tab}] ELSE calls[m]]
      /\ UNCHANGED <<order, thread, replied, mates, events, statusFilter, conversations, listError, listedView,
                     listExcused, activeChat, chatExcused>>
  BY DEF SetView, talkRows, listShown, chatHead
<1>3. \A s, w, ex : PlacesTell(s, w, ex) => PlacesTell(s, w, ex \cup {Tab})'
  <2>1. \A t \in Threads : <<t, "place">> # Tab
    BY ConversationAssumption DEF Tab
  <2>2. QED
    BY <1>2, <2>1 DEF PlacesTell, Filed, InView, Tab
<1>4. ASSUME NEW m \in PageCalls
      PROVE  /\ calls'[m] \in PageCallRow /\ PageCallTrue(calls[m])'
             /\ calls[m].pc = "patched" => calls'[m] = calls[m]
  <2>1. CASE m = l
    <3> DEFINE n == [NoPageCall EXCEPT !.pc = "asked", !.view = v]
    <3>1. n \in PageCallRow /\ n.pc = "asked" /\ n.view = v
      BY IdleCall DEF PageCallRow
    <3>2. calls'[m] = n
      BY <1>2, <2>1
    <3> HIDE DEF n
    <3>3. QED
      BY <1>2, <2>1, <3>1, <3>2 DEF PageCallTrue
  <2>2. CASE m # l /\ calls[m].pc \in {"reading", "asked", "answered"}
    <3>1. PICK c \in PageCallRow : c = calls[m] /\ PageCallTrue(c)
      BY <1>1
    <3> DEFINE n == [c EXCEPT !.behind = @ \cup {Tab}]
    <3>2. calls'[m] = n /\ Tab \in ExcuseSet
      BY <1>2, <2>2, <3>1 DEF ExcuseSet
    <3>3. /\ n \in PageCallRow /\ n.pc = c.pc /\ n.view = c.view /\ n.list = c.list /\ n.behind = c.behind \cup {Tab}
      BY <3>2 DEF PageCallRow
    <3> HIDE DEF n
    <3>4. ASSUME c.pc = "answered" PROVE PlacesTell(n.list, n.view, n.behind)'
      <4>1. PlacesTell(c.list, c.view, c.behind)
        BY <3>1, <3>4 DEF PageCallTrue
      <4>2. PlacesTell(c.list, c.view, c.behind \cup {Tab})'
        BY <1>3, <4>1
      <4>3. QED
        BY <3>3, <4>2
    <3>5. ASSUME c.pc = "answered", NEW i \in DOMAIN c.list, NEW f \in Fields
          PROVE  FieldTells(n.list[i], f, n.behind)'
      <4>1. FieldTells(c.list[i], f, c.behind)
        BY <3>1, <3>5 DEF PageCallTrue
      <4>2. QED
        BY <1>2, <3>3, <4>1 DEF FieldTells
    <3>6. Tab \in n.behind /\ Tab' = Tab
      BY <3>3 DEF Tab
    <3>7. n.pc \in {"reading", "asked", "answered"}
      BY <2>2, <3>1, <3>3
    <3>8. PageCallTrue(n)'
      BY <3>3, <3>4, <3>5, <3>6, <3>7 DEF PageCallTrue
    <3>9. QED
      BY <3>1, <3>2, <3>3, <3>7, <3>8
  <2>3. CASE m # l /\ calls[m].pc \notin {"reading", "asked", "answered"}
    <3>1. calls'[m] = calls[m]
      BY <1>2, <2>3
    <3>2. QED
      BY <1>1, <1>2, <2>3, <3>1 DEF PageCallTrue
  <2>4. QED
    BY <2>1, <2>2, <2>3
<1>5. ThreadsTyped'
  <2>1. calls' \in [PageCalls -> PageCallRow]
    BY <1>2, <1>4
  <2>2. QED
    BY <1>1, <1>2, <2>1 DEF ThreadsTyped, ExcuseSet, Tab
<1>6. ListComes' /\ \A t, f : FieldComes(t, f) => FieldComes(t, f)'
  <2>1. calls'[l].pc = "asked"
    BY <1>2, IdleCall DEF PageCallRow
  <2>2. QED
    BY <1>4, <2>1 DEF ListComes, FieldComes
<1>7. ShownRows'
  <2>1. ASSUME NEW i \in DOMAIN conversations, NEW f \in Fields
        PROVE  (FieldComes(conversations[i].id, f) \/ FieldTells(conversations[i], f, listExcused))'
    <3>1. PICK e : e = conversations[i]
      OBVIOUS
    <3>2. FieldComes(e.id, f) \/ FieldTells(e, f, listExcused)
      BY <1>1, <3>1 DEF ShownRows
    <3>3. FieldComes(e.id, f)' \/ FieldTells(e, f, listExcused)'
      BY <1>2, <1>6, <3>2 DEF FieldTells
    <3>4. QED
      BY <1>2, <3>1, <3>3
  <2>2. QED
    BY <1>2, <1>6, <2>1 DEF ShownRows
<1>8. ShownHead'
  BY <1>2, <1>6, HeadStays
<1>9. QED
  BY <1>4, <1>5, <1>7, <1>8 DEF ThreadsInv

\* An answer is shown.
LEMMA ListShownHere ==
  ASSUME ThreadsInv, NEW l \in PageCalls, SetConversations(l)
  PROVE  ThreadsInv'
<1>1. /\ ThreadsTyped /\ calls[l] \in PageCallRow /\ PageCallTrue(calls[l])
  BY DEF ThreadsInv, ThreadsTyped
<1>2. /\ calls[l].pc = "answered" /\ calls' = [calls EXCEPT ![l] = NoPageCall]
      /\ conversations' = calls[l].list /\ listedView' = calls[l].view /\ listExcused' = calls[l].behind
      /\ UNCHANGED <<order, thread, replied, mates, events, tabView, statusFilter, listError, activeChat, chatExcused>>
  BY DEF SetConversations, Drop, talkRows, listPicks, chatHead
<1>3. calls' \in [PageCalls -> PageCallRow] /\ \A k \in PageCalls : PageCallTrue(calls[k])'
  BY <1>2, IdleCall, OneCallMoves
<1>4. PICK c \in PageCallRow : c = calls[l] /\ PageCallTrue(c) /\ c.pc = "answered"
  BY <1>1, <1>2
<1>5. ThreadsTyped'
  BY <1>1, <1>2, <1>3, <1>4 DEF ThreadsTyped, PageCallRow, ExcuseSet, Tab
<1>6. PlacesTell(conversations, listedView, listExcused)'
  <2>1. PlacesTell(c.list, c.view, c.behind)
    BY <1>4 DEF PageCallTrue
  <2>2. PlacesTell(c.list, c.view, c.behind)'
    BY <1>2, <2>1 DEF PlacesTell, Filed, InView
  <2>3. QED
    BY <1>2, <1>4, <2>2
<1>7. \A i \in DOMAIN conversations', f \in Fields : FieldTells(conversations[i], f, listExcused)'
  <2>1. \A i \in DOMAIN c.list, f \in Fields : <<c.list[i].id, f>> \in c.behind \/ c.list[i][f] = thread[c.list[i].id][f]
    BY <1>4 DEF PageCallTrue, FieldTells
  <2>2. QED
    BY <1>2, <1>4, <2>1 DEF FieldTells
<1>8. (Tab \in listExcused)' \/ listedView' = tabView'
  BY <1>2, <1>4 DEF PageCallTrue, Tab
<1>9. ShownRows'
  BY <1>6, <1>7, <1>8 DEF ShownRows
<1>10. ShownHead'
  <2>1. calls[l].pc # "patched"
    BY <1>2
  <2>2. \A t, f : FieldComes(t, f) => FieldComes(t, f)'
    BY <1>2, <2>1, IdleCall, OthersCome
  <2>3. QED
    BY <1>2, <2>2, HeadStays
<1>11. QED
  BY <1>3, <1>5, <1>9, <1>10 DEF ThreadsInv

\* A chat is opened.
LEMMA SelectStep ==
  ASSUME ThreadsInv, NEW l \in PageCalls, NEW i \in DOMAIN conversations, SelectThread(l, i)
  PROVE  ThreadsInv'
<1>1. /\ ThreadsTyped /\ ShownRows
  BY DEF ThreadsInv
<1> DEFINE n == [NoPageCall EXCEPT !.pc = "reading", !.view = tabView]
<1>2. /\ calls[l].pc = "idle" /\ calls' = [calls EXCEPT ![l] = n]
      /\ activeChat' = conversations[i] /\ chatExcused' = {f \in Fields : <<conversations[i].id, f>> \in listExcused}
      /\ UNCHANGED <<order, thread, replied, mates, events, tabView, statusFilter, conversations, listError, listedView,
                     listExcused>>
  BY DEF SelectThread, talkRows, listPicks, listShown
<1>3. n \in PageCallRow /\ n.pc = "reading" /\ n.view = tabView
  BY <1>1, IdleCall DEF PageCallRow, ThreadsTyped
<1> HIDE DEF n
<1>4. PageCallTrue(n)
  BY <1>3 DEF PageCallTrue
<1>5. calls' \in [PageCalls -> PageCallRow] /\ \A k \in PageCalls : PageCallTrue(calls[k])'
  BY <1>2, <1>3, <1>4, OneCallMoves
<1>6. PICK e \in ListRows : e = conversations[i]
  BY <1>1 DEF ThreadsTyped
<1>7. ThreadsTyped'
  BY <1>1, <1>2, <1>5, <1>6 DEF ThreadsTyped, ListRows, ListEntries, ExcuseSet, Tab
<1>8. (ListComes => ListComes') /\ \A t, f : FieldComes(t, f) => FieldComes(t, f)'
  BY <1>2, <1>3, OthersCome
<1>9. ShownRows'
  BY <1>2, <1>8, RowsStay
<1>10. ShownHead'
  <2>1. \A f \in Fields : FieldComes(e.id, f) \/ <<e.id, f>> \in listExcused \/ e[f] = thread[e.id][f]
    BY <1>1, <1>6 DEF ShownRows, FieldTells
  <2>2. QED
    BY <1>2, <1>6, <1>8, <2>1 DEF ShownHead
<1>11. QED
  BY <1>5, <1>7, <1>9, <1>10 DEF ThreadsInv

\* A field of a conversation is written: whatever was read before is excused of it.
WrittenAway(t, f, v) ==
    /\ thread' \in [Threads -> ThreadRow] /\ thread'[t][f] = v
    /\ \A u \in Threads, g \in Fields : u # t \/ g # f => thread'[u][g] = thread[u][g]
    /\ \A s, w, ex : PlacesTell(s, w, ex) => PlacesTell(s, w, ex)'
    /\ \A l \in PageCalls :
         /\ NotedBehind(calls, <<t, f>>)[l] \in PageCallRow
         /\ NotedBehind(calls, <<t, f>>)[l].pc = calls[l].pc
         /\ NotedBehind(calls, <<t, f>>)[l].id = calls[l].id
         /\ NotedBehind(calls, <<t, f>>)[l].field = calls[l].field
         /\ calls[l].pc = "patching" => NotedBehind(calls, <<t, f>>)[l] = calls[l]
         /\ \A m : m = NotedBehind(calls, <<t, f>>)[l] => PageCallTrue(m)'

LEMMA FieldWritten ==
  ASSUME ThreadsInv, NEW t \in Threads, NEW f \in Fields, NEW v \in FieldValues(f),
         thread' = [thread EXCEPT ![t][f] = v], order' = order, tabView' = tabView
  PROVE  WrittenAway(t, f, v)
<1>1. ThreadsTyped /\ \A l \in PageCalls : calls[l] \in PageCallRow /\ PageCallTrue(calls[l])
  BY DEF ThreadsInv, ThreadsTyped
<1>2. thread \in [Threads -> ThreadRow]
  BY <1>1 DEF ThreadsTyped
<1>3. /\ [thread[t] EXCEPT ![f] = v] \in ThreadRow /\ [thread[t] EXCEPT ![f] = v].kinds = thread[t].kinds
      /\ [thread[t] EXCEPT ![f] = v][f] = v
      /\ \A g \in Fields : g # f => [thread[t] EXCEPT ![f] = v][g] = thread[t][g]
  <2>1. thread[t] \in ThreadRow
    BY <1>2
  <2>2. QED
    BY <2>1, ThreadSet
<1>4. /\ thread' \in [Threads -> ThreadRow] /\ thread'[t] = [thread[t] EXCEPT ![f] = v]
      /\ \A u \in Threads : u # t => thread'[u] = thread[u]
  BY <1>2, <1>3
<1>5. \A u \in Threads : thread'[u].kinds = thread[u].kinds
  BY <1>3, <1>4
<1>6. \A u \in Threads, g \in Fields : u # t \/ g # f => thread'[u][g] = thread[u][g]
  BY <1>3, <1>4
<1>7. \A w, u : u \in Filed(w)' <=> u \in Filed(w)
  <2>1. \A w : \A u : u \in Filed(w) <=> (\E i \in DOMAIN order : order[i] = u) /\ (w = "all" \/ w \in thread[u].kinds)
    BY DEF Filed, InView
  <2>2. \A w : \A u : u \in Filed(w)' <=> (\E i \in DOMAIN order : order[i] = u) /\ (w = "all" \/ w \in thread'[u].kinds)
    BY DEF Filed, InView
  <2>3. \A u : (\E i \in DOMAIN order : order[i] = u) => u \in Threads
    BY <1>1 DEF ThreadsTyped
  <2>4. QED
    BY <1>5, <2>1, <2>2, <2>3
<1>8. \A s, w, ex : PlacesTell(s, w, ex) => PlacesTell(s, w, ex)'
  BY <1>7 DEF PlacesTell
<1> DEFINE x == <<t, f>>
<1>9. x \in ExcuseSet /\ Tab' = Tab
  BY DEF ExcuseSet, Tab
<1>10. ASSUME NEW l \in PageCalls
       PROVE  \E m \in PageCallRow : /\ m = NotedBehind(calls, x)[l] /\ PageCallTrue(m)'
                                     /\ m.pc = calls[l].pc /\ m.id = calls[l].id /\ m.field = calls[l].field
                                     /\ calls[l].pc = "patching" => m = calls[l]
  <2>1. PICK c \in PageCallRow : c = calls[l] /\ PageCallTrue(c)
    BY <1>1
  <2>2. CASE c.pc \notin {"answered", "patched"}
    <3>1. NotedBehind(calls, x)[l] = c
      BY <2>1, <2>2 DEF NotedBehind
    <3>2. PageCallTrue(c)'
      BY <1>9, <2>1, <2>2 DEF PageCallTrue
    <3>3. QED
      BY <2>1, <3>1, <3>2
  <2>3. CASE c.pc \in {"answered", "patched"}
    <3>1. PICK n : n = [c EXCEPT !.behind = @ \cup {x}]
      OBVIOUS
    <3>2. NotedBehind(calls, x)[l] = n
      BY <2>1, <2>3, <3>1 DEF NotedBehind
    <3>3. /\ n \in PageCallRow /\ n.pc = c.pc /\ n.id = c.id /\ n.field = c.field /\ n.value = c.value
          /\ n.view = c.view /\ n.list = c.list /\ n.behind = c.behind \cup {x}
      BY <1>9, <3>1 DEF PageCallRow
    <3>4. ASSUME c.pc = "patched" PROVE <<c.id, c.field>> \in n.behind \/ c.value = thread'[c.id][c.field]
      <4>1. c.id \in Threads /\ c.field \in Fields
        BY <2>1, <3>4 DEF PageCallTrue, PageCallRow
      <4>2. <<c.id, c.field>> \in c.behind \/ c.value = thread[c.id][c.field]
        BY <2>1, <3>4 DEF PageCallTrue
      <4>3. QED
        BY <1>6, <3>3, <4>1, <4>2
    <3>5. ASSUME c.pc = "answered"
          PROVE  /\ PlacesTell(n.list, n.view, n.behind)'
                 /\ \A i \in DOMAIN c.list, g \in Fields :
                      <<c.list[i].id, g>> \in n.behind \/ c.list[i][g] = thread'[c.list[i].id][g]
      <4>1. PlacesTell(c.list, c.view, c.behind)'
        BY <1>8, <2>1, <3>5 DEF PageCallTrue
      <4>2. PlacesTell(n.list, n.view, n.behind)'
        BY <3>3, <4>1 DEF PlacesTell
      <4>3. \A i \in DOMAIN c.list : c.list[i] \in ListRows
        BY DEF PageCallRow
      <4>4. \A i \in DOMAIN c.list : c.list[i].id \in Threads
        BY <4>3 DEF ListRows
      <4>5. \A i \in DOMAIN c.list, g \in Fields : <<c.list[i].id, g>> \in c.behind \/ c.list[i][g] = thread[c.list[i].id][g]
        BY <2>1, <3>5 DEF PageCallTrue, FieldTells
      <4>6. ASSUME NEW i \in DOMAIN c.list, NEW g \in Fields
            PROVE  <<c.list[i].id, g>> \in n.behind \/ c.list[i][g] = thread'[c.list[i].id][g]
        BY <1>6, <3>3, <4>4, <4>5
      <4>7. QED
        BY <4>2, <4>6
    <3>6. PageCallTrue(n)'
      BY <1>9, <2>1, <3>3, <3>4, <3>5 DEF PageCallTrue, FieldTells
    <3>7. QED
      BY <2>1, <2>3, <3>2, <3>3, <3>6
  <2>4. QED
    BY <2>2, <2>3
<1> HIDE DEF x
<1>11. ASSUME NEW l \in PageCalls
       PROVE  /\ NotedBehind(calls, x)[l] \in PageCallRow
              /\ NotedBehind(calls, x)[l].pc = calls[l].pc
              /\ NotedBehind(calls, x)[l].id = calls[l].id
              /\ NotedBehind(calls, x)[l].field = calls[l].field
              /\ calls[l].pc = "patching" => NotedBehind(calls, x)[l] = calls[l]
              /\ \A m : m = NotedBehind(calls, x)[l] => PageCallTrue(m)'
  BY <1>10
<1>12. QED
  BY <1>3, <1>4, <1>6, <1>8, <1>11 DEF x, WrittenAway

LEMMA ElsewhereStep ==
  ASSUME ThreadsInv, NEW t \in Threads, NEW f \in Fields, NEW v \in FieldValues(f), ChangeElsewhere(t, f, v)
  PROVE  ThreadsInv'
<1>1. ThreadsTyped /\ ShownRows /\ ShownHead
  BY DEF ThreadsInv
<1>2. /\ thread' = [thread EXCEPT ![t][f] = v] /\ calls' = NotedBehind(calls, <<t, f>>)
      /\ listExcused' = listExcused \cup {<<t, f>>}
      /\ chatExcused' = IF activeChat.id = t THEN chatExcused \cup {f} ELSE chatExcused
      /\ UNCHANGED <<order, replied, mates, events, tabView, statusFilter, conversations, listError, listedView,
                     activeChat>>
  BY DEF ChangeElsewhere, listPicks
<1>3. /\ thread' \in [Threads -> ThreadRow]
      /\ \A u \in Threads, g \in Fields : u # t \/ g # f => thread'[u][g] = thread[u][g]
      /\ \A s, w, ex : PlacesTell(s, w, ex) => PlacesTell(s, w, ex)'
      /\ \A l \in PageCalls : /\ calls'[l] \in PageCallRow /\ calls'[l].pc = calls[l].pc
                              /\ calls'[l].id = calls[l].id /\ calls'[l].field = calls[l].field
                              /\ \A m : m = calls'[l] => PageCallTrue(m)'
  <2>1. order' = order /\ tabView' = tabView
    BY <1>2
  <2>2. WrittenAway(t, f, v)
    BY <1>2, <2>1, FieldWritten
  <2>3. QED
    BY <1>2, <2>2 DEF WrittenAway
<1>4. calls' \in [PageCalls -> PageCallRow] /\ \A l \in PageCalls : PageCallTrue(calls[l])'
  BY <1>2, <1>3 DEF NotedBehind
<1>5. <<t, f>> \in ExcuseSet /\ ExcuseSet' = ExcuseSet /\ Tab' = Tab
  BY DEF ExcuseSet, Tab
<1>6. ThreadsTyped'
  BY <1>1, <1>2, <1>3, <1>4, <1>5 DEF ThreadsTyped
<1>7. (ListComes => ListComes') /\ \A u, g : FieldComes(u, g) => FieldComes(u, g)'
  BY <1>3 DEF ListComes, FieldComes
<1>8. ASSUME PlacesTell(conversations, listedView, listExcused)
      PROVE  PlacesTell(conversations, listedView, listExcused)'
  <2>1. PICK s, w, ex : s = conversations /\ w = listedView /\ ex = listExcused
    OBVIOUS
  <2>2. PlacesTell(s, w, ex)'
    BY <1>3, <1>8, <2>1
  <2>3. PlacesTell(s, w, ex \cup {<<t, f>>})'
    BY <2>2 DEF PlacesTell
  <2>4. QED
    BY <1>2, <2>1, <2>3
<1>9. ASSUME NEW i \in DOMAIN conversations', NEW g \in Fields
      PROVE  (FieldComes(conversations[i].id, g) \/ FieldTells(conversations[i], g, listExcused))'
  <2>1. PICK e \in ListRows : e = conversations[i]
    BY <1>1, <1>2 DEF ThreadsTyped
  <2>2. e.id \in Threads
    BY DEF ListRows
  <2>3. FieldComes(e.id, g) \/ <<e.id, g>> \in listExcused \/ e[g] = thread[e.id][g]
    BY <1>1, <1>2, <2>1 DEF ShownRows, FieldTells
  <2>4. FieldComes(e.id, g)' \/ <<e.id, g>> \in listExcused' \/ e[g] = thread'[e.id][g]
    BY <1>2, <1>3, <1>7, <2>2, <2>3
  <2>5. QED
    BY <1>2, <2>1, <2>4 DEF FieldTells
<1>10. ShownRows'
  BY <1>1, <1>2, <1>5, <1>7, <1>8, <1>9 DEF ShownRows
<1>11. ShownHead'
  <2>1. PICK u \in Threads \cup {NoThread} : u = activeChat.id
    BY <1>1 DEF ThreadsTyped, ListEntries
  <2>2. \A g \in Fields \ chatExcused : u # NoThread => FieldComes(u, g) \/ activeChat[g] = thread[u][g]
    BY <1>1, <2>1 DEF ShownHead
  <2>3. \A g \in Fields \ chatExcused' : u # NoThread => FieldComes(u, g)' \/ activeChat[g] = thread'[u][g]
    BY <1>2, <1>3, <1>7, <2>1, <2>2
  <2>4. QED
    BY <1>2, <2>1, <2>3 DEF ShownHead
<1>12. QED
  BY <1>4, <1>6, <1>10, <1>11 DEF ThreadsInv

\* A change that was asked for is saved, and its answer comes.
LEMMA SaveStep ==
  ASSUME ThreadsInv, NEW l \in PageCalls, SaveStatus(l) \/ SaveAssignee(l)
  PROVE  ThreadsInv'
<1>1. ThreadsTyped /\ ShownRows /\ ShownHead /\ calls[l] \in PageCallRow /\ PageCallTrue(calls[l])
  BY DEF ThreadsInv, ThreadsTyped
<1>2. PICK c \in PageCallRow : c = calls[l] /\ PageCallTrue(c)
  BY <1>1
<1>3. PICK t, f, v : t = c.id /\ f = c.field /\ v = c.value
  OBVIOUS
<1>4. /\ c.pc = "patching" /\ thread' = [thread EXCEPT ![t][f] = v]
      /\ calls' = [NotedBehind(calls, <<t, f>>) EXCEPT ![l].pc = "patched"]
      /\ UNCHANGED <<order, replied, mates, events, tabView, statusFilter, conversations, listError, listedView,
                     listExcused, activeChat, chatExcused>>
  BY <1>2, <1>3 DEF SaveStatus, SaveAssignee, SaveField, listPicks, listShown, chatHead
<1>5. t \in Threads /\ f \in Fields /\ v \in FieldValues(f)
  BY <1>2, <1>3, <1>4 DEF PageCallTrue, PageCallRow
<1>6. /\ thread' \in [Threads -> ThreadRow] /\ thread'[t][f] = v
      /\ \A u \in Threads, g \in Fields : u # t \/ g # f => thread'[u][g] = thread[u][g]
      /\ \A s, w, ex : PlacesTell(s, w, ex) => PlacesTell(s, w, ex)'
      /\ WrittenAway(t, f, v)
  <2>1. order' = order /\ tabView' = tabView
    BY <1>4
  <2>2. WrittenAway(t, f, v)
    BY <1>4, <1>5, <2>1, FieldWritten
  <2>3. QED
    BY <2>2 DEF WrittenAway
<1>7. PICK noted : noted = NotedBehind(calls, <<t, f>>)
  OBVIOUS
<1>8. \A k \in PageCalls : /\ noted[k] \in PageCallRow /\ noted[k].pc = calls[k].pc
                           /\ noted[k].id = calls[k].id /\ noted[k].field = calls[k].field
                           /\ calls[k].pc = "patching" => noted[k] = calls[k]
                           /\ \A m : m = noted[k] => PageCallTrue(m)'
  BY <1>6, <1>7 DEF WrittenAway
<1>9. PICK n : n = [c EXCEPT !.pc = "patched"]
  OBVIOUS
<1>10. noted[l] = c /\ DOMAIN noted = PageCalls
  BY <1>2, <1>4, <1>7, <1>8 DEF NotedBehind
<1>11. calls' = [noted EXCEPT ![l] = n]
  BY <1>4, <1>7, <1>9, <1>10
<1>12. /\ n \in PageCallRow /\ n.pc = "patched" /\ n.id = t /\ n.field = f /\ n.value = v
  BY <1>3, <1>9 DEF PageCallRow
<1>13. PageCallTrue(n)'
  BY <1>5, <1>6, <1>12 DEF PageCallTrue, FieldValues
<1>14. \A k \in PageCalls : calls'[k] = IF k = l THEN n ELSE noted[k]
  BY <1>10, <1>11
<1>15. calls' \in [PageCalls -> PageCallRow]
  <2>1. noted \in [PageCalls -> PageCallRow]
    BY <1>8, <1>7 DEF NotedBehind
  <2>2. QED
    BY <1>11, <1>12, <2>1
<1>16. \A k \in PageCalls : PageCallTrue(calls[k])'
  BY <1>8, <1>13, <1>14
<1>17. ThreadsTyped'
  BY <1>1, <1>4, <1>6, <1>15 DEF ThreadsTyped, ExcuseSet, Tab
<1>18. /\ ListComes => ListComes'
       /\ \A u, g : FieldComes(u, g) => FieldComes(u, g)'
       /\ FieldComes(t, f)'
  <2>1. ASSUME ListComes PROVE ListComes'
    <3>1. PICK k \in PageCalls : calls[k].pc \in {"asked", "answered"}
      BY <2>1 DEF ListComes
    <3>2. calls'[k].pc \in {"asked", "answered"}
      BY <1>2, <1>4, <1>8, <1>14, <3>1
    <3>3. QED
      BY <3>2 DEF ListComes
  <2>2. ASSUME NEW u, NEW g, FieldComes(u, g) PROVE FieldComes(u, g)'
    <3>1. PICK k \in PageCalls : calls[k].pc = "patched" /\ calls[k].id = u /\ calls[k].field = g
      BY <2>2 DEF FieldComes
    <3>2. calls'[k].pc = "patched" /\ calls'[k].id = u /\ calls'[k].field = g
      BY <1>2, <1>4, <1>8, <1>14, <3>1
    <3>3. QED
      BY <3>2 DEF FieldComes
  <2>3. FieldComes(t, f)'
    BY <1>12, <1>14 DEF FieldComes
  <2>4. QED
    BY <2>1, <2>2, <2>3
<1>19. ASSUME NEW i \in DOMAIN conversations', NEW g \in Fields
       PROVE  (FieldComes(conversations[i].id, g) \/ FieldTells(conversations[i], g, listExcused))'
  <2>1. PICK e \in ListRows : e = conversations[i]
    BY <1>1, <1>4 DEF ThreadsTyped
  <2>2. e.id \in Threads
    BY DEF ListRows
  <2>3. FieldComes(e.id, g) \/ <<e.id, g>> \in listExcused \/ e[g] = thread[e.id][g]
    BY <1>1, <1>4, <2>1 DEF ShownRows, FieldTells
  <2>4. FieldComes(e.id, g)' \/ <<e.id, g>> \in listExcused' \/ e[g] = thread'[e.id][g]
    BY <1>4, <1>6, <1>18, <2>2, <2>3
  <2>5. QED
    BY <1>4, <2>1, <2>4 DEF FieldTells
<1>20. ASSUME PlacesTell(conversations, listedView, listExcused)
       PROVE  PlacesTell(conversations, listedView, listExcused)'
  <2>1. PICK s, w, ex : s = conversations /\ w = listedView /\ ex = listExcused
    OBVIOUS
  <2>2. PlacesTell(s, w, ex)'
    BY <1>6, <1>20, <2>1
  <2>3. QED
    BY <1>4, <2>1, <2>2
<1>21. ShownRows'
  BY <1>1, <1>4, <1>18, <1>19, <1>20 DEF ShownRows, Tab
<1>22. ShownHead'
  <2>1. PICK u \in Threads \cup {NoThread} : u = activeChat.id
    BY <1>1 DEF ThreadsTyped, ListEntries
  <2>2. \A g \in Fields \ chatExcused : u # NoThread => FieldComes(u, g) \/ activeChat[g] = thread[u][g]
    BY <1>1, <2>1 DEF ShownHead
  <2>3. \A g \in Fields \ chatExcused : u # NoThread => FieldComes(u, g)' \/ activeChat[g] = thread'[u][g]
    BY <1>6, <1>18, <2>1, <2>2
  <2>4. QED
    BY <1>4, <2>1, <2>3 DEF ShownHead
<1>23. QED
  BY <1>16, <1>17, <1>21, <1>22 DEF ThreadsInv

\* The answer to a change is told to the list and to the header, or is lost.
LEMMA TellStep ==
  ASSUME ThreadsInv, NEW l \in PageCalls, TellChange(l)
  PROVE  ThreadsInv'
<1>1. ThreadsTyped /\ ShownRows /\ ShownHead /\ calls[l] \in PageCallRow /\ PageCallTrue(calls[l])
  BY DEF ThreadsInv, ThreadsTyped
<1>2. PICK c \in PageCallRow : c = calls[l] /\ PageCallTrue(c)
  BY <1>1
<1>3. PICK t, f, v : t = c.id /\ f = c.field /\ v = c.value
  OBVIOUS
<1>4. PICK after \in BOOLEAN : after <=> <<t, f>> \in c.behind
  OBVIOUS
<1>5. /\ c.pc = "patched" /\ calls' = [calls EXCEPT ![l] = NoPageCall]
      /\ activeChat' = [activeChat EXCEPT ![f] = v]
      /\ conversations' = [i \in DOMAIN conversations |->
                             IF conversations[i].id = t THEN [conversations[i] EXCEPT ![f] = v]
                                                        ELSE conversations[i]]
      /\ listExcused' = IF after THEN listExcused \cup {<<t, f>>} ELSE listExcused \ {<<t, f>>}
      /\ chatExcused' = IF t = activeChat.id /\ ~after THEN chatExcused \ {f} ELSE chatExcused \cup {f}
      /\ UNCHANGED <<order, thread, replied, mates, events, tabView, statusFilter, listError, listedView>>
  BY <1>2, <1>3, <1>4 DEF TellChange, Drop, talkRows, listPicks
<1>6. t \in Threads /\ f \in Fields /\ v \in FieldValues(f) /\ (after \/ v = thread[t][f])
  BY <1>2, <1>3, <1>4, <1>5 DEF PageCallTrue, PageCallRow
<1>7. calls' \in [PageCalls -> PageCallRow] /\ \A k \in PageCalls : PageCallTrue(calls[k])'
  BY <1>5, IdleCall, OneCallMoves
<1>8. /\ ListComes => ListComes'
      /\ \A u, g : FieldComes(u, g) => FieldComes(u, g)' \/ (u = t /\ g = f)
  BY <1>2, <1>3, <1>5, IdleCall, OthersCome
<1>9. /\ activeChat' \in ListEntries /\ activeChat'.id = activeChat.id /\ activeChat'[f] = v
      /\ \A g \in Fields : g # f => activeChat'[g] = activeChat[g]
  <2>1. PICK a \in ListEntries : a = activeChat
    BY <1>1 DEF ThreadsTyped
  <2>2. /\ [a EXCEPT ![f] = v] \in ListEntries /\ [a EXCEPT ![f] = v].id = a.id /\ [a EXCEPT ![f] = v][f] = v
        /\ \A g \in Fields : g # f => [a EXCEPT ![f] = v][g] = a[g]
    BY <1>6, EntrySet
  <2>3. QED
    BY <1>5, <2>1, <2>2
<1>10. conversations \in Seq(ListRows)
  BY <1>1 DEF ThreadsTyped
<1>11. /\ DOMAIN conversations' = DOMAIN conversations
       /\ \A i \in DOMAIN conversations :
            /\ conversations'[i] \in ListRows /\ conversations'[i].id = conversations[i].id
            /\ \A g \in Fields : conversations'[i][g] = IF conversations[i].id = t /\ g = f THEN v
                                                        ELSE conversations[i][g]
  <2>1. DOMAIN conversations' = DOMAIN conversations
    BY <1>5
  <2>2. ASSUME NEW i \in DOMAIN conversations
        PROVE  /\ conversations'[i] \in ListRows /\ conversations'[i].id = conversations[i].id
               /\ \A g \in Fields : conversations'[i][g] = IF conversations[i].id = t /\ g = f THEN v
                                                           ELSE conversations[i][g]
    <3>1. PICK e \in ListRows : e = conversations[i]
      BY <1>10
    <3>2. /\ [e EXCEPT ![f] = v] \in ListRows /\ [e EXCEPT ![f] = v].id = e.id /\ [e EXCEPT ![f] = v][f] = v
          /\ \A g \in Fields : g # f => [e EXCEPT ![f] = v][g] = e[g]
      <4>1. e \in ListEntries /\ e.id \in Threads
        BY DEF ListRows, ListEntries
      <4>2. /\ [e EXCEPT ![f] = v] \in ListEntries /\ [e EXCEPT ![f] = v].id = e.id /\ [e EXCEPT ![f] = v][f] = v
            /\ \A g \in Fields : g # f => [e EXCEPT ![f] = v][g] = e[g]
        BY <1>6, <4>1, EntrySet
      <4>3. QED
        BY <4>1, <4>2 DEF ListRows, ListEntries
    <3>3. CASE e.id = t
      <4>1. conversations'[i] = [e EXCEPT ![f] = v]
        BY <1>5, <3>1, <3>3
      <4>2. QED
        BY <3>1, <3>2, <3>3, <4>1
    <3>4. CASE e.id # t
      <4>1. conversations'[i] = e
        BY <1>5, <3>1, <3>4
      <4>2. QED
        BY <3>1, <3>4, <4>1
    <3>5. QED
      BY <3>3, <3>4
  <2>3. QED
    BY <2>1, <2>2
<1>12. conversations' \in Seq(ListRows)
  <2>1. Len(conversations) \in Nat /\ DOMAIN conversations = 1..Len(conversations)
    BY <1>10
  <2>2. conversations' = [i \in 1..Len(conversations) |-> conversations'[i]]
    BY <1>5, <2>1
  <2>3. QED
    BY <1>11, <2>1, <2>2
<1>13. /\ <<t, f>> \in ExcuseSet /\ ExcuseSet' = ExcuseSet /\ Tab' = Tab /\ Tab # <<t, f>>
       /\ \A u : <<u, "place">> # <<t, f>>
  BY <1>6, ConversationAssumption DEF ExcuseSet, Tab, Fields
<1>14. ThreadsTyped'
  <2>1. listExcused' \subseteq ExcuseSet /\ chatExcused' \subseteq Fields
    BY <1>1, <1>5, <1>6, <1>13 DEF ThreadsTyped
  <2>2. QED
    BY <1>1, <1>5, <1>7, <1>9, <1>12, <1>13, <2>1 DEF ThreadsTyped
<1>15. \A y : y # <<t, f>> => (y \in listExcused' <=> y \in listExcused)
  BY <1>5
<1>16. ASSUME PlacesTell(conversations, listedView, listExcused)
       PROVE  PlacesTell(conversations, listedView, listExcused)'
  <2>1. Filed(listedView)' = Filed(listedView)
    BY <1>5 DEF Filed, InView
  <2>2. \A u : <<u, "place">> \in listExcused' <=> <<u, "place">> \in listExcused
    BY <1>13, <1>15
  <2>3. ASSUME NEW u \in Threads, <<u, "place">> \notin listExcused'
        PROVE  (\E i \in DOMAIN conversations' : conversations'[i].id = u) <=> u \in Filed(listedView)'
    <3>1. (\E i \in DOMAIN conversations : conversations[i].id = u) <=> u \in Filed(listedView)
      BY <1>16, <2>2, <2>3 DEF PlacesTell
    <3>2. QED
      BY <1>11, <2>1, <3>1
  <2>4. ASSUME NEW i \in DOMAIN conversations', NEW j \in DOMAIN conversations', i < j,
               <<conversations'[i].id, "place">> \notin listExcused',
               <<conversations'[j].id, "place">> \notin listExcused'
        PROVE  Ahead(order', conversations'[i].id, conversations'[j].id)
    <3>1. Ahead(order, conversations[i].id, conversations[j].id)
      BY <1>11, <1>16, <2>2, <2>4 DEF PlacesTell
    <3>2. QED
      BY <1>5, <1>11, <3>1
  <2>5. QED
    BY <2>3, <2>4 DEF PlacesTell
<1>17. ASSUME NEW i \in DOMAIN conversations', NEW g \in Fields
       PROVE  (FieldComes(conversations[i].id, g) \/ FieldTells(conversations[i], g, listExcused))'
  <2>1. PICK e \in ListRows, d \in ListRows : e = conversations[i] /\ d = conversations'[i]
    BY <1>10, <1>11
  <2>2. d.id = e.id /\ d[g] = (IF e.id = t /\ g = f THEN v ELSE e[g])
    BY <1>11, <2>1
  <2>3. FieldComes(e.id, g) \/ <<e.id, g>> \in listExcused \/ e[g] = thread[e.id][g]
    BY <1>1, <1>11, <2>1 DEF ShownRows, FieldTells
  <2>4. FieldComes(d.id, g)' \/ <<d.id, g>> \in listExcused' \/ d[g] = thread[d.id][g]
    <3>1. CASE e.id = t /\ g = f
      BY <1>5, <1>6, <2>2, <3>1
    <3>2. CASE ~(e.id = t /\ g = f)
      <4>1. <<e.id, g>> # <<t, f>>
        BY <3>2
      <4>2. QED
        BY <1>8, <1>15, <2>2, <2>3, <3>2, <4>1
    <3>3. QED
      BY <3>1, <3>2
  <2>5. QED
    BY <1>5, <2>1, <2>4 DEF FieldTells
<1>18. ShownRows'
  <2>1. Tab \in listExcused => Tab \in listExcused'
    BY <1>13, <1>15
  <2>2. QED
    BY <1>1, <1>5, <1>8, <1>13, <1>16, <1>17, <2>1 DEF ShownRows
<1>19. ShownHead'
  <2>1. PICK u \in Threads \cup {NoThread} : u = activeChat.id
    BY <1>1 DEF ThreadsTyped, ListEntries
  <2>2. \A g \in Fields \ chatExcused : u # NoThread => FieldComes(u, g) \/ activeChat[g] = thread[u][g]
    BY <1>1, <2>1 DEF ShownHead
  <2>3. ASSUME NEW g \in Fields \ chatExcused', u # NoThread
        PROVE  FieldComes(u, g)' \/ activeChat'[g] = thread[u][g]
    <3>1. CASE g = f
      BY <1>5, <1>6, <1>9, <2>1, <2>3, <3>1
    <3>2. CASE g # f
      BY <1>5, <1>8, <1>9, <2>2, <2>3, <3>2
    <3>3. QED
      BY <3>1, <3>2
  <2>4. QED
    BY <1>5, <1>9, <2>1, <2>3 DEF ShownHead
<1>20. QED
  BY <1>7, <1>14, <1>18, <1>19 DEF ThreadsInv

LEMMA LostStep ==
  ASSUME ThreadsInv, NEW l \in PageCalls, ChangeFails(l)
  PROVE  ThreadsInv'
<1>1. ThreadsTyped /\ calls[l] \in PageCallRow /\ PageCallTrue(calls[l])
  BY DEF ThreadsInv, ThreadsTyped
<1>2. PICK c \in PageCallRow : c = calls[l] /\ PageCallTrue(c)
  BY <1>1
<1>3. PICK t, f : t = c.id /\ f = c.field
  OBVIOUS
<1>4. /\ c.pc \in {"patching", "patched"} /\ calls' = [calls EXCEPT ![l] = NoPageCall]
      /\ listExcused' = IF c.pc = "patched" THEN listExcused \cup {<<t, f>>} ELSE listExcused
      /\ chatExcused' = IF c.pc = "patched" /\ t = activeChat.id THEN chatExcused \cup {f} ELSE chatExcused
      /\ UNCHANGED <<order, thread, replied, mates, events, tabView, statusFilter, conversations, listError, listedView,
                     activeChat>>
  BY <1>2, <1>3 DEF ChangeFails, Drop, talkRows, listPicks
<1>5. t \in Threads /\ f \in Fields
  BY <1>2, <1>3, <1>4 DEF PageCallTrue, PageCallRow
<1>6. calls' \in [PageCalls -> PageCallRow] /\ \A k \in PageCalls : PageCallTrue(calls[k])'
  BY <1>4, IdleCall, OneCallMoves
<1>7. /\ ListComes => ListComes'
      /\ \A u, g : FieldComes(u, g) => FieldComes(u, g)' \/ (c.pc = "patched" /\ u = t /\ g = f)
  BY <1>2, <1>3, <1>4, IdleCall, OthersCome
<1>8. ThreadsTyped'
  <2>1. listExcused' \subseteq ExcuseSet /\ chatExcused' \subseteq Fields
    BY <1>1, <1>4, <1>5 DEF ThreadsTyped, ExcuseSet
  <2>2. QED
    BY <1>1, <1>4, <1>6, <2>1 DEF ThreadsTyped, ExcuseSet, Tab
<1>9. ShownRows'
  BY <1>4, <1>7, RowsStay
<1>10. ShownHead'
  BY <1>4, <1>7, HeadStays
<1>11. QED
  BY <1>6, <1>8, <1>9, <1>10 DEF ThreadsInv

LEMMA ThreadsStep ==
  ASSUME ThreadsInv, [ListNext]_conversationVars
  PROVE  ThreadsInv'
<1>1. ASSUME NEW t \in Threads,
             \/ \E kind \in Views \ {"all"} : Inbound(t, kind) \/ ReplyTo(t, kind)
             \/ AutomaticReply(t) \/ BringUp(t)
             \/ \E f \in Fields : \E v \in FieldValues(f) : ChangeElsewhere(t, f, v)
      PROVE  ThreadsInv'
  <2>1. CASE \E f \in Fields : \E v \in FieldValues(f) : ChangeElsewhere(t, f, v)
    BY <2>1, ElsewhereStep
  <2>2. CASE \/ \E kind \in Views \ {"all"} : Inbound(t, kind) \/ ReplyTo(t, kind)
             \/ AutomaticReply(t) \/ BringUp(t)
    BY <2>2, MessageStep
  <2>3. QED
    BY <1>1, <2>1, <2>2
<1>2. CASE LoseEvent \/ (\E p \in Mates : LeaveTeam(p)) \/ UNCHANGED conversationVars
  BY <1>2, StandStep
<1>3. ASSUME NEW l \in PageCalls,
             \/ OnEvent(l) \/ GetConversations(l) \/ SetConversations(l) \/ ListFails(l)
             \/ \E v \in Views : SetView(l, v)
             \/ \E s \in ThreadStatuses \cup {"ALL"} : SetFilterStatus(l, s)
             \/ \E i \in DOMAIN conversations : SelectThread(l, i)
      PROVE  ThreadsInv'
  BY <1>3, ListAsked, ListAnswered, ListShownHere, TabStep, SelectStep
<1>4. ASSUME NEW l \in PageCalls,
             \/ MarkRead(l) \/ ReadFails(l)
             \/ \E v \in ThreadStatuses : UpdateStatus(l, v)
             \/ \E p \in Mates \cup {NoMate} : AssignConversation(l, p)
             \/ SaveStatus(l) \/ SaveAssignee(l) \/ RefuseChange(l) \/ TellChange(l) \/ ChangeFails(l)
      PROVE  ThreadsInv'
  BY <1>4, ListAnswered, PressStep, SaveStep, TellStep, LostStep
<1>5. QED
  BY <1>1, <1>2, <1>3, <1>4 DEF ListNext

LEMMA ThreadsShow == ThreadsInv => ListTypeOK /\ ConversationsListed /\ HeaderTrue
<1> SUFFICES ASSUME ThreadsInv PROVE ListTypeOK /\ ConversationsListed /\ HeaderTrue
  OBVIOUS
<1>1. ThreadsTyped /\ ShownRows /\ ShownHead
  BY DEF ThreadsInv
<1>2. conversations \in Seq(ListEntries)
  <2>1. \A e \in ListRows : e \in ListEntries
    BY DEF ListRows, ListEntries
  <2>2. conversations \in Seq(ListRows)
    BY <1>1 DEF ThreadsTyped
  <2>3. QED
    BY <2>1, <2>2
<1>3. ListTypeOK
  <2>1. \A l \in PageCalls : calls[l].pc \in {"idle", "reading", "asked", "answered", "patching", "patched"}
    <3>1. \A l \in PageCalls : calls[l] \in PageCallRow
      BY <1>1 DEF ThreadsTyped
    <3>2. QED
      BY <3>1 DEF PageCallRow
  <2>2. QED
    BY <1>1, <1>2, <2>1 DEF ListTypeOK, ThreadsTyped, ThreadRow, ExcuseSet
<1>4. ASSUME AtRest PROVE ~ListComes /\ events = 0 /\ \A t, f : ~FieldComes(t, f)
  BY <1>4 DEF AtRest, ListComes, FieldComes
<1>5. HeaderTrue
  BY <1>1, <1>4 DEF HeaderTrue, ShownHead
<1>6. ASSUME AtRest, ~listError
      PROVE  /\ Tab \notin listExcused => listedView = tabView
             /\ PlacesTell(conversations, listedView, listExcused)
             /\ \A i \in DOMAIN conversations, f \in Fields : FieldTells(conversations[i], f, listExcused)
  BY <1>1, <1>4, <1>6 DEF ShownRows
<1>7. \A t \in Threads : t \in {StoredList(listedView)[i].id : i \in DOMAIN StoredList(listedView)}
                         <=> t \in Filed(listedView)
  <2>1. PlacesTell(StoredList(listedView), listedView, {})
    BY <1>1, StoredIs DEF ThreadsTyped
  <2>2. QED
    BY <2>1 DEF PlacesTell
<1>8. ConversationsListed
  <2> SUFFICES ASSUME AtRest, ~listError
               PROVE  /\ Tab \notin listExcused => listedView = tabView
                      /\ \A t \in Threads : <<t, "place">> \notin listExcused =>
                           (t \in ListedThreads
                              <=> t \in {StoredList(listedView)[i].id : i \in DOMAIN StoredList(listedView)})
                      /\ \A i, j \in DOMAIN conversations :
                           /\ i < j
                           /\ \A k \in {i, j} : <<conversations[k].id, "place">> \notin listExcused
                           => \E m, n \in DOMAIN order : /\ m < n /\ order[m] = conversations[i].id
                                                         /\ order[n] = conversations[j].id
                      /\ \A i \in DOMAIN conversations, f \in Fields :
                           <<conversations[i].id, f>> \notin listExcused
                             => conversations[i][f] = thread[conversations[i].id][f]
    BY DEF ConversationsListed
  <2>1. Tab \notin listExcused => listedView = tabView
    BY <1>6
  <2>2. ASSUME NEW t \in Threads, <<t, "place">> \notin listExcused
        PROVE  t \in ListedThreads <=> t \in {StoredList(listedView)[i].id : i \in DOMAIN StoredList(listedView)}
    <3>1. (\E i \in DOMAIN conversations : conversations[i].id = t) <=> t \in Filed(listedView)
      BY <1>6, <2>2 DEF PlacesTell
    <3>2. QED
      BY <1>7, <3>1 DEF ListedThreads
  <2>3. ASSUME NEW i \in DOMAIN conversations, NEW j \in DOMAIN conversations, i < j,
               \A k \in {i, j} : <<conversations[k].id, "place">> \notin listExcused
        PROVE  \E m, n \in DOMAIN order : /\ m < n /\ order[m] = conversations[i].id
                                          /\ order[n] = conversations[j].id
    <3>1. Ahead(order, conversations[i].id, conversations[j].id)
      BY <1>6, <2>3 DEF PlacesTell
    <3>2. QED
      BY <3>1 DEF Ahead
  <2>4. ASSUME NEW i \in DOMAIN conversations, NEW f \in Fields, <<conversations[i].id, f>> \notin listExcused
        PROVE  conversations[i][f] = thread[conversations[i].id][f]
    BY <1>6, <2>4 DEF FieldTells
  <2>5. QED
    BY <2>1, <2>2, <2>3, <2>4
<1>9. QED
  BY <1>3, <1>5, <1>8

-----------------------------------------------------------------------------
(* The types of the parts' state, beside what their invariants say of it.     *)

UnheardWithin == \A c \in Calls, s \in Stages : unheard[c][s] <= MaxCopies

LEMMA UnheardInit == GraphInit => UnheardWithin
  BY DEF GraphInit, UnheardWithin, MaxCopies, MaxRetries

LEMMA UnheardStep == GraphInv /\ UnheardWithin /\ [GraphNext]_gvars => UnheardWithin'
<1> SUFFICES ASSUME GraphInv, UnheardWithin, [GraphNext]_gvars
             PROVE  UnheardWithin'
  OBVIOUS
<1>1. ASSUME NEW c \in Calls, call[c].pc = "fetch", Lost(c)
      PROVE  UnheardWithin'
  <2>1. /\ call[c].stage \in Stages /\ call[c].attempt \in 0..MaxRetries
        /\ unheard[c][call[c].stage] <= call[c].attempt
    BY <1>1 DEF GraphInv, Locals, CallInv
  <2>2. unheard' = [unheard EXCEPT ![c][call[c].stage] = unheard[c][call[c].stage] + 1]
    BY <1>1 DEF Lost
  <2>3. unheard \in [Calls -> [Stages -> Nat]] /\ unheard[c][call[c].stage] + 1 <= MaxCopies
    BY <2>1 DEF GraphInv, Counts, MaxCopies, MaxRetries
  <2>4. ASSUME NEW d \in Calls, NEW s \in Stages
        PROVE  unheard'[d][s] <= MaxCopies
    BY <2>1, <2>2, <2>3 DEF UnheardWithin
  <2>5. QED
    BY <2>4 DEF UnheardWithin
<1>2. ASSUME UNCHANGED unheard PROVE UnheardWithin'
  BY <1>2 DEF UnheardWithin
<1>3. ASSUME NEW c \in Calls, NEW kind \in Kinds, StartCall(c, kind) PROVE UnheardWithin'
  BY <1>2, <1>3 DEF StartCall
<1>4. ASSUME NEW c \in Calls, NEW took \in {0, Timeout},
             Answered(c, took) \/ AnsweredBlank(c, took) \/ NotHeard(c, took)
      PROVE  UnheardWithin'
  BY <1>1, <1>2, <1>4 DEF Answered, AnsweredBlank, NotHeard
<1>5. ASSUME NEW c \in Calls, NEW took \in {0, Timeout}, NEW code \in Codes, Refused(c, code, took)
      PROVE  UnheardWithin'
  BY <1>1, <1>2, <1>5 DEF Refused
<1>6. QED
  BY <1>2, <1>3, <1>4, <1>5 DEF GraphNext, Attempt, gvars

LEMMA CallsTyped == GraphInv /\ UnheardWithin => GraphTypeOK
<1> SUFFICES ASSUME GraphInv, UnheardWithin PROVE GraphTypeOK
  OBVIOUS
<1>1. ASSUME NEW c \in Calls
      PROVE  acted[c] \in [Stages -> 0..MaxCopies] /\ unheard[c] \in [Stages -> 0..MaxCopies]
  <2>1. acted[c] \in [Stages -> Nat] /\ unheard[c] \in [Stages -> Nat]
    BY DEF GraphInv, Counts
  <2>2. \A s \in Stages : acted[c][s] <= MaxCopies /\ unheard[c][s] <= MaxCopies
    BY DEF GraphInv, CallInv, UnheardWithin
  <2>3. \A s \in Stages : acted[c][s] \in 0..MaxCopies /\ unheard[c][s] \in 0..MaxCopies
    BY <2>1, <2>2 DEF MaxCopies, MaxRetries
  <2>4. QED
    BY <2>1, <2>3
<1>2. acted \in [Calls -> [Stages -> 0..MaxCopies]] /\ unheard \in [Calls -> [Stages -> 0..MaxCopies]]
  BY <1>1 DEF GraphInv
<1>3. QED
  BY <1>2 DEF GraphTypeOK, GraphInv, Locals

\* Rows of the platform refer to rows that are there.
RowsRefer ==
    /\ admins \subseteq alive /\ alive \subseteq Users
    /\ suspended \subseteq workspaces /\ workspaces \subseteq Workspaces
    /\ members \subseteq alive \X workspaces /\ adminFaults \in 0..MaxAdminFaults

LEMMA RowsReferInit == AdminInit => RowsRefer
  BY AdministrationAssumption DEF AdminInit, RowsRefer

LEMMA RowsReferStep == AdminInv /\ RowsRefer /\ [AdminNext]_adminVars => RowsRefer'
<1> SUFFICES ASSUME AdminInv, RowsRefer, [AdminNext]_adminVars
             PROVE  RowsRefer'
  OBVIOUS
<1>1. ASSUME UNCHANGED <<alive, admins, workspaces, suspended, members, adminFaults>> PROVE RowsRefer'
  BY <1>1 DEF RowsRefer
<1>2. ASSUME NEW S, NEW U, Remove(S, U), UNCHANGED adminFaults PROVE RowsRefer'
  <2>1. members' \subseteq alive' \X workspaces'
    BY <1>2 DEF Remove, RowsRefer
  <2>2. QED
    BY <1>2, <2>1 DEF Remove, RowsRefer
<1>3. ASSUME NEW r \in AdminRequests, NEW u \in Users, AskAdmin(r, u) PROVE RowsRefer'
  BY <1>1, <1>3 DEF AskAdmin, AskDeleteUser, AskUpdateUser, AskDeleteTenant, AskUpdateTenant, Receive
<1>4. ASSUME NEW r \in AdminRequests, UpdateUser(r) \/ UpdateTenant(r) \/ AdminFails(r) PROVE RowsRefer'
  BY <1>4, AdministrationAssumption DEF UpdateUser, UpdateTenant, AdminFails, RowsRefer
<1>5. ASSUME NEW r \in AdminRequests, DeleteTenant(r) \/ DeleteOwned(r) \/ DeleteUser(r) PROVE RowsRefer'
  BY <1>2, <1>5 DEF DeleteTenant, DeleteOwned, DeleteUser
<1>6. QED
  BY <1>1, <1>3, <1>4, <1>5 DEF AdminNext, adminVars

LEMMA PlatformTyped == AdminInv /\ RowsRefer => AdminTypeOK
  BY DEF AdminTypeOK, AdminInv, RowsRefer, AdminRequest

\* Users are people, and failures are counted up to their bound.
PeopleWithin == users \subseteq People /\ teamFaults \in 0..MaxTeamFaults

LEMMA PeopleInit == TeamInit => PeopleWithin
  BY TeamAssumption DEF TeamInit, PeopleWithin

LEMMA PeopleStep == TeamInv /\ PeopleWithin /\ [TeamNext]_teamVars => PeopleWithin'
<1> SUFFICES ASSUME TeamInv, PeopleWithin, [TeamNext]_teamVars
             PROVE  PeopleWithin'
  OBVIOUS
<1>1. ASSUME UNCHANGED <<users, teamFaults>> PROVE PeopleWithin'
  BY <1>1 DEF PeopleWithin
<1>2. ASSUME NEW r \in TeamRequests, StartTeam(r) PROVE PeopleWithin'
  BY <1>1, <1>2 DEF StartTeam, StartInvite, StartCancel, StartManage, StartAccept
<1>3. ASSUME NEW r \in TeamRequests, HandleTeam(r), ~CreateUser(r) PROVE PeopleWithin'
  BY <1>1, <1>3 DEF HandleTeam, FindMember, FindOpen, CreateInvitation, MailInvitation, FindInvitation, FindUser,
     FindSeat, Join, CloseInvitation, CancelInvitation, FindRequester, FindRow, WriteMember
<1>4. ASSUME NEW r \in TeamRequests, CreateUser(r) \/ TeamFail(r) PROVE PeopleWithin'
  <2>1. request[r].email \in People
    BY DEF TeamInv, TeamTyped, TeamRequest
  <2>2. CASE CreateUser(r)
    BY <2>1, <2>2 DEF CreateUser, PeopleWithin
  <2>3. CASE TeamFail(r)
    BY <2>3, TeamAssumption DEF TeamFail, PeopleWithin
  <2>4. QED
    BY <1>4, <2>2, <2>3
<1>5. ASSUME NEW p \in People, SignUp(p) PROVE PeopleWithin'
  BY <1>5 DEF SignUp, PeopleWithin
<1>6. ASSUME NEW i \in Invitations, Expire(i) PROVE PeopleWithin'
  BY <1>1, <1>6 DEF Expire
<1>7. QED
  BY <1>1, <1>2, <1>3, <1>4, <1>5, <1>6 DEF TeamNext, teamVars

LEMMA TeamRowsTyped == TeamInv /\ PeopleWithin => TeamTypeOK
  BY DEF TeamTypeOK, TeamInv, TeamTyped, InvitationRow, TeamRequest, PeopleWithin

\* At most two requests of a minute are counted.
MinuteWithin ==
    /\ revoked \subseteq Addresses /\ recent \in [Addresses -> 0..2]
    /\ accountFaults \in 0..MaxAccountFaults

LEMMA MinuteInit == AccountsInit => MinuteWithin
  BY AccountsAssumption DEF AccountsInit, MinuteWithin

LEMMA MinuteStep == MinuteWithin /\ [AccountsNext]_accountVars => MinuteWithin'
<1> SUFFICES ASSUME MinuteWithin, [AccountsNext]_accountVars
             PROVE  MinuteWithin'
  OBVIOUS
<1>1. ASSUME UNCHANGED <<revoked, recent>>, UNCHANGED accountFaults \/ AccountFault PROVE MinuteWithin'
  BY <1>1, AccountsAssumption DEF MinuteWithin, AccountFault
<1>2. ASSUME NEW v \in Visitors, StartVisit(v) PROVE MinuteWithin'
  <2>1. ASSUME NEW a \in Addresses, StartRequestReset(v, a) PROVE MinuteWithin'
    BY <2>1 DEF StartRequestReset, MinuteWithin
  <2>2. QED
    BY <1>1, <1>2, <2>1 DEF StartVisit, StartRegister, StartResend, StartVerify, StartReset, StartChange
<1>3. ASSUME NEW v \in Visitors, HandleVisit(v) PROVE MinuteWithin'
  BY <1>1, <1>3 DEF HandleVisit, FindEmail, CreateAccount, IssueCode, MailCode, Resend, CheckCode, WriteVerified,
     FindAccount, CreateLink, MailLink, FindLink, SetPassword, ComparePassword, ChangePassword
<1>4. ASSUME NEW a \in Addresses, CodeExpires(a) \/ MinutePasses(a) \/ Login(a) \/ Logout(a) PROVE MinuteWithin'
  BY <1>1, <1>4 DEF CodeExpires, MinutePasses, Login, Logout, MinuteWithin
<1>5. ASSUME NEW l \in Links, LinkExpires(l) PROVE MinuteWithin'
  BY <1>1, <1>5 DEF LinkExpires
<1>6. ASSUME Restart PROVE MinuteWithin'
  BY <1>6, AccountsAssumption DEF Restart, AccountFault, MinuteWithin
<1>7. QED
  BY <1>1, <1>2, <1>3, <1>4, <1>5, <1>6 DEF AccountsNext, accountVars

LEMMA AccountRowsTyped == SecretInv /\ MinuteWithin => AccountsTypeOK
  BY DEF AccountsTypeOK, SecretInv, AccountsTyped, AccountRow, LinkRow, Visit, MinuteWithin

\* What the server and the browser keep of sessions refers to persons, tabs and tokens that are there.
SignedWithin ==
    /\ enrolled \subseteq Persons /\ ended \subseteq DOMAIN tokens /\ linkUsed \in Tabs \cup {NoPerson}
    /\ store.token # 0 => store.user # NoPerson
    /\ \A t \in Tabs : window[t].page = "dashboard" => window[t].token # 0 /\ window[t].user # NoPerson
    /\ \A t \in Tabs : sideCall[t].as \in 0..Len(tokens)
    /\ apart \subseteq Tabs /\ visits \in 0..MaxVisits /\ sessionFaults \in 0..MaxSessionFaults

LEMMA SignedInit == SessionsInit => SignedWithin
<1> SUFFICES ASSUME SessionsInit PROVE SignedWithin
  OBVIOUS
<1>1. Len(tokens) = 0 /\ DOMAIN tokens = {}
  BY DEF SessionsInit
<1>2. \A t \in Tabs : window[t].page # "dashboard" /\ sideCall[t].as = 0
  BY DEF SessionsInit, AtPage, NoAsk
<1>3. QED
  BY <1>1, <1>2, SessionsAssumption DEF SessionsInit, NoSession, SignedWithin

\* A step that lets the tokens grow and whose tab keeps what the others have.
LEMMA SignedKept ==
  ASSUME SessionInv, SignedWithin, UNCHANGED <<enrolled, tokens, ended, linkUsed>>, NEW t \in Tabs,
         window' \in [Tabs -> Pane], sideCall' \in [Tabs -> SideCall],
         store'.token # 0 => store'.user # NoPerson,
         \A x \in Tabs \ {t} : window'[x] = window[x] /\ sideCall'[x] = sideCall[x],
         window'[t].page = "dashboard" => window'[t].token # 0 /\ window'[t].user # NoPerson,
         sideCall'[t].as \in 0..Len(tokens), apart' \subseteq Tabs,
         UNCHANGED visits \/ Call, UNCHANGED sessionFaults \/ SessionFault
  PROVE  SignedWithin'
<1>1. \A x \in Tabs : window'[x].page = "dashboard" => window'[x].token # 0 /\ window'[x].user # NoPerson
  BY DEF SignedWithin
<1>2. \A x \in Tabs : sideCall'[x].as \in 0..Len(tokens')
  BY DEF SignedWithin
<1>3. visits' \in 0..MaxVisits /\ sessionFaults' \in 0..MaxSessionFaults
  BY SessionsAssumption DEF SignedWithin, Call, SessionFault
<1>4. QED
  BY <1>1, <1>2, <1>3 DEF SignedWithin

LEMMA TabsApart == ASSUME SignedWithin, NEW t \in Tabs PROVE Unnoticed(t) \subseteq Tabs
  BY DEF SignedWithin, Unnoticed

\* A session that the browser has is somebody's.
LEMMA StoreOfSomebody ==
  ASSUME SessionInv
  PROVE  /\ store.token \in 0..Len(tokens) /\ Len(tokens) \in Nat /\ DOMAIN tokens = 1..Len(tokens)
         /\ \A t \in Tabs : /\ window[t] \in Pane /\ sideCall[t] \in SideCall
                            /\ sheet[t].kind \in SignIns /\ sheet[t].pc = "granted" => sheet[t].as # 0 /\ sheet[t].who \in Persons
                            /\ sheet[t].as \in 0..Len(tokens)
  BY DEF SessionInv, PanesTyped, StoreTyped, FormTrue

LEMMA PagesSigned ==
  ASSUME SessionInv, SessionInv', SignedWithin, NEW t \in Tabs,
         \/ \E page \in Outside \cup {"dashboard"} : OpenPage(t, page)
         \/ \E page \in Outside : FollowLink(t, page)
         \/ LogOut(t) \/ GoToLogin(t) \/ LinkDone(t) \/ FormFails(t)
  PROVE  SignedWithin'
<1> USE TabsApart, StoreOfSomebody
<1>1. window' \in [Tabs -> Pane] /\ sideCall' \in [Tabs -> SideCall]
  BY DEF SessionInv, PanesTyped
<1>2. ASSUME NEW page \in Outside \cup {"dashboard"}, OpenPage(t, page) PROVE SignedWithin'
  <2>1. window' = [window EXCEPT ![t] = window'[t]] /\ sideCall' = [sideCall EXCEPT ![t] = NoAsk]
    BY <1>2 DEF OpenPage, SessionInv, PanesTyped
  <2>2. window'[t].page = "dashboard" => window'[t].token # 0 /\ window'[t].user # NoPerson
    BY <1>2 DEF OpenPage, AtPage, Outside, SignedWithin, SessionInv, PanesTyped
  <2>3. sideCall'[t].as = 0 /\ \A x \in Tabs \ {t} : window'[x] = window[x] /\ sideCall'[x] = sideCall[x]
    BY <2>1 DEF NoAsk, SessionInv, PanesTyped
  <2>4. /\ UNCHANGED <<enrolled, tokens, ended, linkUsed, store, sessionFaults>> /\ Call
        /\ apart' \subseteq Tabs
    BY <1>2 DEF OpenPage, serverSide, SignedWithin
  <2>5. sideCall'[t].as \in 0..Len(tokens)
    <3>1. Len(tokens) \in Nat
      OBVIOUS
    <3>2. QED
      BY <2>3, <3>1
  <2>6. store'.token # 0 => store'.user # NoPerson
    BY <2>4 DEF SignedWithin
  <2>7. QED
    BY <1>1, <2>2, <2>3, <2>4, <2>5, <2>6, SignedKept
<1>3. ASSUME NEW page \in Outside, FollowLink(t, page) PROVE SignedWithin'
  <2>1. window'[t].page # "dashboard" /\ \A x \in Tabs \ {t} : window'[x] = window[x]
    BY <1>3 DEF FollowLink, Outside, SessionInv, PanesTyped
  <2>2. QED
    BY <1>1, <1>3, <2>1, SignedKept DEF FollowLink, serverSide, SignedWithin
<1>4. CASE LogOut(t)
  <2>1. window'[t].page # "dashboard" /\ \A x \in Tabs \ {t} : window'[x] = window[x]
    BY <1>4 DEF LogOut, AtPage, SessionInv, PanesTyped
  <2>2. QED
    BY <1>1, <1>4, <2>1, SignedKept DEF LogOut, NoSession, serverSide, SignedWithin
<1>5. CASE GoToLogin(t)
  <2>1. window'[t].page # "dashboard" /\ \A x \in Tabs \ {t} : window'[x] = window[x]
    BY <1>5 DEF GoToLogin, SessionInv, PanesTyped
  <2>2. QED
    BY <1>1, <1>5, <2>1, SignedKept DEF GoToLogin, serverSide, SignedWithin
<1>6. CASE LinkDone(t) \/ FormFails(t)
  <2>1. /\ window'[t].page = window[t].page /\ window'[t].token = window[t].token /\ window'[t].user = window[t].user
        /\ \A x \in Tabs \ {t} : window'[x] = window[x]
    BY <1>6 DEF LinkDone, FormFails, SessionInv, PanesTyped, Pane
  <2>2. QED
    BY <1>1, <1>6, <2>1, SignedKept DEF LinkDone, FormFails, serverSide, SignedWithin
<1>7. QED
  BY <1>2, <1>3, <1>4, <1>5, <1>6

LEMMA FormsSigned ==
  ASSUME SessionInv, SessionInv', SignedWithin, NEW t \in Tabs,
         \/ \E p \in Persons : SubmitLogin(t, p) \/ SubmitRegister(t, p)
         \/ SubmitLink(t) \/ SubmitProfile(t) \/ ServeSignIn(t) \/ ServeLink(t) \/ ServeProfile(t)
         \/ SignedUp(t) \/ ProfileDone(t)
  PROVE  SignedWithin'
<1> USE TabsApart, StoreOfSomebody
<1>1. window' \in [Tabs -> Pane] /\ sideCall' \in [Tabs -> SideCall]
  BY DEF SessionInv, PanesTyped
<1>2. ASSUME NEW kind, NEW who, NEW as, Submit(t, kind, who, as) PROVE SignedWithin'
  <2>1. /\ window'[t].page = window[t].page /\ window'[t].token = window[t].token /\ window'[t].user = window[t].user
        /\ \A x \in Tabs \ {t} : window'[x] = window[x]
    BY <1>2 DEF Submit, SessionInv, PanesTyped, Pane
  <2>2. QED
    BY <1>1, <1>2, <2>1, SignedKept DEF Submit, serverSide, story, SignedWithin
<1>3. CASE ServeSignIn(t)
  <2>1. Len(tokens') >= Len(tokens) /\ Len(tokens') \in Nat /\ DOMAIN tokens \subseteq DOMAIN tokens'
    BY <1>3 DEF ServeSignIn, SessionInv, StoreTyped
  <2>2. enrolled' \subseteq Persons
    BY <1>3 DEF ServeSignIn, SessionInv, FormTrue, SignIns, AtServer, SignedWithin
  <2>3. \A x \in Tabs : sideCall[x].as \in 0..Len(tokens')
    BY <2>1 DEF SignedWithin
  <2>4. UNCHANGED <<ended, linkUsed, store, window, sideCall, apart, visits, sessionFaults>>
    BY <1>3 DEF ServeSignIn, story
  <2>5. QED
    BY <2>1, <2>2, <2>3, <2>4 DEF SignedWithin
<1>4. CASE ServeLink(t)
  <2>1. UNCHANGED <<enrolled, tokens, ended, store, window, sideCall, apart, visits, sessionFaults>>
    BY <1>4 DEF ServeLink, story
  <2>2. linkUsed' \in Tabs \cup {NoPerson}
    BY <1>4 DEF ServeLink, SignedWithin
  <2>3. QED
    BY <2>1, <2>2 DEF SignedWithin
<1>5. CASE ServeProfile(t)
  BY <1>5 DEF ServeProfile, serverSide, story, SignedWithin
<1>6. CASE SignedUp(t)
  <2>1. sheet[t].as # 0 /\ sheet[t].who \in Persons
    BY <1>6 DEF SignedUp, SignIns
  <2>2. /\ window'[t].token # 0 /\ window'[t].user # NoPerson
        /\ \A x \in Tabs \ {t} : window'[x] = window[x]
    BY <1>6, <2>1, SessionsAssumption DEF SignedUp, AtPage, SessionInv, PanesTyped
  <2>3. QED
    BY <1>1, <1>6, <2>1, <2>2, SignedKept, SessionsAssumption DEF SignedUp, serverSide, SignedWithin
<1>7. CASE ProfileDone(t)
  <2>1. /\ window'[t].page = window[t].page /\ window'[t].token = window[t].token /\ window'[t].user = window[t].user
        /\ \A x \in Tabs \ {t} : window'[x] = window[x]
    BY <1>7 DEF ProfileDone, SessionInv, PanesTyped, Pane
  <2>2. store'.token # 0 => store'.user # NoPerson
    BY <1>7 DEF ProfileDone, SignedWithin, SessionInv, StoreTyped
  <2>3. QED
    BY <1>1, <1>7, <2>1, <2>2, SignedKept DEF ProfileDone, serverSide, SignedWithin
<1>8. QED
  BY <1>2, <1>3, <1>4, <1>5, <1>6, <1>7 DEF SubmitLogin, SubmitRegister, SubmitLink, SubmitProfile

LEMMA CallsSigned ==
  ASSUME SessionInv, SessionInv', SignedWithin, NEW t \in Tabs, SendAsk(t) \/ ServeAsk(t) \/ Unauthorized(t)
  PROVE  SignedWithin'
<1> USE TabsApart, StoreOfSomebody
<1>1. window' \in [Tabs -> Pane] /\ sideCall' \in [Tabs -> SideCall]
  BY DEF SessionInv, PanesTyped
<1>2. CASE SendAsk(t) \/ ServeAsk(t)
  <2>1. sideCall'[t].as \in 0..Len(tokens) /\ \A x \in Tabs \ {t} : sideCall'[x] = sideCall[x]
    BY <1>2 DEF SendAsk, ServeAsk, NoAsk, SessionInv, SideCall, SignedWithin
  <2>2. QED
    BY <1>1, <1>2, <2>1, SignedKept DEF SendAsk, ServeAsk, serverSide, story, SignedWithin
<1>3. CASE Unauthorized(t) /\ window[t].page \in {"login", "register"}
  <2>1. sideCall'[t].as \in 0..Len(tokens) /\ \A x \in Tabs \ {t} : sideCall'[x] = sideCall[x]
    BY <1>3 DEF Unauthorized, NoAsk, SessionInv, SignedWithin
  <2>2. QED
    BY <1>1, <1>3, <2>1, SignedKept DEF Unauthorized, serverSide, SignedWithin
<1>4. CASE Unauthorized(t) /\ window[t].page \notin {"login", "register"}
  <2>1. sideCall'[t].as \in 0..Len(tokens) /\ \A x \in Tabs \ {t} : sideCall'[x] = sideCall[x]
    BY <1>4 DEF Unauthorized, NoAsk, SessionInv, SignedWithin
  <2>2. window'[t].page # "dashboard" /\ \A x \in Tabs \ {t} : window'[x] = window[x]
    BY <1>4 DEF Unauthorized, AtPage, SessionInv, PanesTyped
  <2>3. /\ UNCHANGED <<enrolled, tokens, ended, linkUsed, visits, sessionFaults>>
        /\ apart' \subseteq Tabs /\ store'.token = 0
    BY <1>4 DEF Unauthorized, NoSession, serverSide, SignedWithin
  <2>4. QED
    BY <1>1, <2>1, <2>2, <2>3, SignedKept
<1>5. QED
  BY <1>2, <1>3, <1>4

LEMMA SignedStep == SessionInv /\ SessionInv' /\ SignedWithin /\ [SessionsNext]_sessionVars => SignedWithin'
<1> SUFFICES ASSUME SessionInv, SessionInv', SignedWithin, [SessionsNext]_sessionVars
             PROVE  SignedWithin'
  OBVIOUS
<1>1. ASSUME NEW n \in 1..MaxSessions, EndToken(n) PROVE SignedWithin'
  BY <1>1, SessionsAssumption DEF EndToken, SessionFault, story, SignedWithin
<1>2. CASE UNCHANGED sessionVars
  BY <1>2 DEF sessionVars, serverSide, story, SignedWithin
<1>3. QED
  BY <1>1, <1>2, PagesSigned, FormsSigned, CallsSigned DEF SessionsNext

LEMMA SessionsTyped == SessionInv /\ SignedWithin => SessionsTypeOK
<1> SUFFICES ASSUME SessionInv, SignedWithin PROVE SessionsTypeOK
  OBVIOUS
<1>1. {0} \cup DOMAIN tokens = 0..Len(tokens)
  BY StoreOfSomebody
<1>2. store \in [token : {0} \cup DOMAIN tokens, user : Persons \cup {NoPerson}]
  BY <1>1 DEF SessionInv, StoreTyped
<1>3. \A t \in Tabs : window[t].page \in Outside \cup {"closed", "dashboard"}
  BY DEF SessionInv, PanesTyped, Pane
<1>4. \A t \in Tabs : sheet[t].as \in {0} \cup DOMAIN tokens
  BY <1>1, StoreOfSomebody
<1>5. QED
  BY <1>1, <1>2, <1>3, <1>4 DEF SessionsTypeOK, SignedWithin, SessionInv, StoreTyped

\* What the channels page remembers is of channels, and the bot's webhook names a row that was.
MarksWithin ==
    /\ foreign \subseteq Cards /\ touched \subseteq Cards /\ unsure \subseteq FbPages
    /\ botHook \in 0..botRow /\ taps \in 0..MaxTaps /\ channelFaults \in 0..MaxChannelFaults

LEMMA MarksInit == ChannelPageInit => MarksWithin
<1> SUFFICES ASSUME ChannelPageInit PROVE MarksWithin
  OBVIOUS
<1>1. botHook \in 0..botRow
  BY DEF ChannelPageInit
<1>2. QED
  BY <1>1, ChannelPageAssumption DEF ChannelPageInit, MarksWithin

LEMMA MarksKept ==
  ASSUME MarksWithin,
         foreign' \subseteq Cards, touched' \subseteq Cards, unsure' \subseteq FbPages, botHook' \in 0..botRow',
         UNCHANGED taps \/ Tap, UNCHANGED channelFaults \/ Astray
  PROVE  MarksWithin'
<1>1. taps' \in 0..MaxTaps /\ channelFaults' \in 0..MaxChannelFaults
  BY ChannelPageAssumption DEF MarksWithin, Tap, Astray
<1>2. QED
  BY <1>1 DEF MarksWithin

\* Most steps leave the marks, or mark what the list or the removal is of.
LEMMA ListsMark ==
  ASSUME PageInv, MarksWithin, NEW k \in Asks,
         FirstFetch(k) \/ GetConnections(k) \/ SetChannels(k) \/ FetchChannelsFails(k) \/ Deleted(k)
            \/ \E d \in Dialogs : Connected(d, k)
  PROVE  MarksWithin'
<1>1. listing[k].foreign \subseteq Cards
  BY DEF PageInv, ScreenTyped, ListingRow
<1>2. foreign' \subseteq Cards
  BY <1>1 DEF FirstFetch, GetConnections, SetChannels, FetchChannelsFails, Deleted, Connected, FetchChannels, MarksWithin
<1>3. UNCHANGED <<touched, unsure, botHook, botRow, taps>> /\ (UNCHANGED channelFaults \/ Astray)
  BY DEF FirstFetch, GetConnections, SetChannels, FetchChannelsFails, Deleted, Connected, platforms, hookVars
<1>4. QED
  BY <1>2, <1>3, MarksKept DEF MarksWithin

LEMMA ProbesMark ==
  ASSUME PageInv, MarksWithin, NEW k \in Asks,
         \/ \E p \in FbPages : CheckWebhook(k, p) \/ FixWebhook(k, p)
         \/ SubscribeWebhook(k) \/ Recheck(k) \/ GetWebhookStatus(k) \/ SetWebhookStatus(k) \/ ProbeFails(k)
  PROVE  MarksWithin'
<1>1. ASSUME NEW p \in FbPages, NEW pc, StartProbe(k, p, pc) PROVE MarksWithin'
  <2>1. unsure' \subseteq FbPages /\ Tap /\ UNCHANGED <<foreign, touched, botHook, botRow, channelFaults>>
    BY <1>1 DEF StartProbe, platforms, listVars, MarksWithin
  <2>2. QED
    BY <2>1, MarksKept DEF MarksWithin
<1>2. CASE SubscribeWebhook(k) \/ Recheck(k) \/ GetWebhookStatus(k) \/ SetWebhookStatus(k) \/ ProbeFails(k)
  <2>1. UNCHANGED <<foreign, touched, unsure, botHook, botRow, taps>> /\ (UNCHANGED channelFaults \/ Astray)
    BY <1>2 DEF SubscribeWebhook, Recheck, GetWebhookStatus, SetWebhookStatus, ProbeFails, ShowHealth, platforms, listVars
  <2>2. QED
    BY <2>1, MarksKept DEF MarksWithin
<1>3. QED
  BY <1>1, <1>2 DEF CheckWebhook, FixWebhook

LEMMA RemovalsMark ==
  ASSUME PageInv, MarksWithin,
         \/ \E c \in Cards : RemovedElsewhere(c) \/ AskDelete(c)
         \/ \E p \in FbPages, w \in {"none", "bare", "full"} : HookChanges(p, w)
         \/ CancelDelete \/ ConfirmDelete \/ RemoveConnection \/ DeleteFails
  PROVE  MarksWithin'
<1>1. CASE RemoveConnection \/ \E c \in Cards : RemovedElsewhere(c)
  <2>1. removal.id \in connected => removal.id \in Cards
    BY DEF PageInv, ScreenTyped
  <2>2. foreign' \subseteq Cards /\ touched' \subseteq Cards
    BY <1>1, <2>1 DEF RemoveConnection, RemovedElsewhere, Behind, MarksWithin
  <2>3. UNCHANGED <<unsure, botHook, botRow, taps>> /\ (UNCHANGED channelFaults \/ Astray)
    BY <1>1 DEF RemoveConnection, RemovedElsewhere, hookVars
  <2>4. QED
    BY <2>2, <2>3, MarksKept DEF MarksWithin
<1>2. CASE \E p \in FbPages, w \in {"none", "bare", "full"} : HookChanges(p, w)
  <2>1. unsure' \subseteq FbPages /\ UNCHANGED <<foreign, touched, botHook, botRow, taps>> /\ Astray
    BY <1>2 DEF HookChanges, listVars, MarksWithin
  <2>2. QED
    BY <2>1, MarksKept DEF MarksWithin
<1>3. CASE CancelDelete \/ ConfirmDelete \/ DeleteFails \/ \E c \in Cards : AskDelete(c)
  <2>1. /\ UNCHANGED <<foreign, touched, unsure, botHook, botRow>>
        /\ (UNCHANGED taps \/ Tap) /\ (UNCHANGED channelFaults \/ Astray)
    BY <1>3 DEF CancelDelete, ConfirmDelete, DeleteFails, AskDelete, platforms, listVars, hookVars
  <2>2. QED
    BY <2>1, MarksKept DEF MarksWithin
<1>4. QED
  BY <1>1, <1>2, <1>3

LEMMA DialogsMark ==
  ASSUME PageInv, MarksWithin, NEW d \in Dialogs,
         OpenDialog(d) \/ CloseDialog(d) \/ TypeToken(d) \/ Connect(d) \/ StoreConnection(d) \/ ConnectFails(d)
  PROVE  MarksWithin'
<1> USE DEF Cards
<1>1. CASE StoreConnection(d)
  <2>1. foreign' \subseteq Cards /\ touched' \subseteq Cards
    BY <1>1 DEF StoreConnection, Behind, MarksWithin
  <2>2. UNCHANGED <<unsure, botHook, taps, channelFaults>> /\ botRow' \in {botRow, botRow + 1}
    BY <1>1 DEF StoreConnection, hookVars
  <2>3. botHook' \in 0..botRow'
    BY <2>2 DEF MarksWithin, PageInv, ScreenTyped
  <2>4. QED
    BY <2>1, <2>2, <2>3, MarksKept DEF MarksWithin
<1>2. CASE ConnectFails(d)
  <2>1. touched' \subseteq Cards /\ UNCHANGED <<foreign, unsure, botHook, botRow, taps>>
        /\ (UNCHANGED channelFaults \/ Astray)
    BY <1>2 DEF ConnectFails, platforms, listVars, hookVars, MarksWithin
  <2>2. QED
    BY <2>1, MarksKept DEF MarksWithin
<1>3. CASE OpenDialog(d) \/ CloseDialog(d) \/ TypeToken(d) \/ Connect(d)
  <2>1. UNCHANGED <<foreign, touched, unsure, botHook, botRow, channelFaults>> /\ (UNCHANGED taps \/ Tap)
    BY <1>3 DEF OpenDialog, CloseDialog, TypeToken, Connect, platforms, listVars, hookVars
  <2>2. QED
    BY <2>1, MarksKept DEF MarksWithin
<1>4. QED
  BY <1>1, <1>2, <1>3

LEMMA MarksStep == PageInv /\ MarksWithin /\ [ChannelPageNext]_channelPageVars => MarksWithin'
<1> SUFFICES ASSUME PageInv, MarksWithin, [ChannelPageNext]_channelPageVars
             PROVE  MarksWithin'
  OBVIOUS
<1>1. CASE SetWebhook
  <2>1. dialog[Bot].row = botRow /\ botRow \in Nat
    BY <1>1 DEF SetWebhook, PageInv, BotInv, ScreenTyped
  <2>2. botHook' \in 0..botRow' /\ UNCHANGED <<foreign, touched, unsure, taps>> /\ (UNCHANGED channelFaults \/ Astray)
    BY <1>1, <2>1 DEF SetWebhook, listVars, hookVars, MarksWithin
  <2>3. QED
    BY <2>2, MarksKept DEF MarksWithin
<1>2. CASE ConnectFacebook
  <2>1. UNCHANGED <<foreign, touched, unsure, botHook, botRow, channelFaults>> /\ Tap
    BY <1>2 DEF ConnectFacebook, platforms, listVars, hookVars
  <2>2. QED
    BY <2>1, MarksKept DEF MarksWithin
<1>3. ASSUME NEW some \in SUBSET FbPages, NEW heard \in SUBSET FbPages, NEW failed \in BOOLEAN,
             FacebookCallback(some, heard, failed)
      PROVE  MarksWithin'
  <2>1. /\ foreign' = {} /\ unsure' = {} /\ touched' \subseteq Cards /\ UNCHANGED <<botHook, botRow, taps>>
        /\ (UNCHANGED channelFaults \/ Astray)
    BY <1>3 DEF FacebookCallback, MarksWithin
  <2>2. QED
    BY <2>1, MarksKept DEF MarksWithin
<1>4. CASE UNCHANGED channelPageVars
  BY <1>4 DEF channelPageVars, platforms, listVars, hookVars, MarksWithin
<1>5. QED
  BY <1>1, <1>2, <1>3, <1>4, ListsMark, ProbesMark, RemovalsMark, DialogsMark DEF ChannelPageNext

LEMMA ScreenRowsTyped == PageInv /\ MarksWithin => ChannelPageTypeOK
  BY DEF ChannelPageTypeOK, PageInv, ScreenTyped, HealthRow, RemovalRow, BannerRow, MarksWithin

===============================================================================
