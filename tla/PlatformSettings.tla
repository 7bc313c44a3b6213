--------------------------- MODULE PlatformSettings ---------------------------
(* The settings an administrator edits (platform-settings.service.ts): rows,  *)
(* and one copy of all of them in memory that every reader fills when it is   *)
(* empty, and that a save empties.  Values are numbered by the save they are  *)
(* from; 0 is the absence of a row, for which the environment answers.        *)
EXTENDS Naturals, FiniteSets

CONSTANTS Keys, Readers, Admins,
          MaxSaves,          \* bound: saves
          MaxSettingsFaults  \* bound: failed queries

ASSUME SettingsAssumption == MaxSaves \in Nat /\ MaxSettingsFaults \in Nat

VARIABLES
    setting,         \* PlatformSetting rows
    cached,          \* this.cache is not null ...
    copy,            \* ... and then what is in it
    reader,          \* loadCache: the rows each reader has read, and not stored yet
    save,            \* setMany: the entries each save has yet to write
    \* history
    saves,
    late,            \* the copy is from before a save that has ended
    torn,            \* a save failed after some of its writes
    settingsFaults
settingVars == <<setting, cached, copy, reader, save, saves, late, torn, settingsFaults>>

Values == 0..MaxSaves
Unset == [k \in Keys |-> 0]
NoReader == [pc |-> "idle", rows |-> Unset, old |-> FALSE]
NoSave == [pc |-> "idle", keys |-> {}, value |-> 0]

SettingsInit ==
    /\ setting = Unset /\ cached = FALSE /\ copy = Unset
    /\ reader = [r \in Readers |-> NoReader]
    /\ save = [a \in Admins |-> NoSave]
    /\ saves = 0 /\ late = FALSE /\ torn = FALSE /\ settingsFaults = 0

\* get, getAllForAdmin: with a copy in memory there is nothing to do.
FindSettings(r) ==
    /\ reader[r].pc = "idle" /\ ~cached
    /\ reader' = [reader EXCEPT ![r].pc = "find"]
    /\ UNCHANGED <<setting, cached, copy, save, saves, late, torn, settingsFaults>>

ReadSettings(r) ==
    /\ reader[r].pc = "find"
    /\ reader' = [reader EXCEPT ![r] = [pc |-> "read", rows |-> setting, old |-> FALSE]]
    /\ UNCHANGED <<setting, cached, copy, save, saves, late, torn, settingsFaults>>

\* Whether somebody emptied or filled the copy meanwhile is not asked.
StoreCopy(r) ==
    /\ reader[r].pc = "read"
    /\ cached' = TRUE /\ copy' = reader[r].rows /\ late' = reader[r].old
    /\ reader' = [reader EXCEPT ![r] = NoReader]
    /\ UNCHANGED <<setting, save, saves, torn, settingsFaults>>

\* The keys are known ones; a value may be empty, which deletes the row.
StartSave(a, keys, clear) ==
    /\ save[a].pc = "idle" /\ saves < MaxSaves /\ keys # {}
    /\ saves' = saves + 1
    /\ save' = [save EXCEPT ![a] = [pc |-> "write", keys |-> keys, value |-> IF clear THEN 0 ELSE saves + 1]]
    /\ UNCHANGED <<setting, cached, copy, reader, late, torn, settingsFaults>>

WriteSetting(a, k) ==
    /\ save[a].pc = "write" /\ k \in save[a].keys
    /\ setting' = [setting EXCEPT ![k] = save[a].value]
    /\ save' = [save EXCEPT ![a].keys = @ \ {k}]
    /\ UNCHANGED <<cached, copy, reader, saves, late, torn, settingsFaults>>

EndSave(a) ==
    /\ save[a].pc = "write" /\ save[a].keys = {}
    /\ reader' = [r \in Readers |-> [reader[r] EXCEPT !.old = reader[r].pc = "read"]]
    /\ save' = [save EXCEPT ![a] = NoSave]
    /\ UNCHANGED <<setting, saves, torn, settingsFaults>>

\* Seeded fault: the copy is emptied before the writes, not after them.
InvalidateNever(a) == EndSave(a) /\ UNCHANGED <<cached, copy, late>>

Invalidate(a) == EndSave(a) /\ cached' = FALSE /\ copy' = Unset /\ late' = FALSE

\* An entry that cannot be written ends the save; those before it stay, and so does the copy.
SaveBreaks(a) ==
    /\ save[a].pc = "write" /\ save[a].keys # {} /\ settingsFaults < MaxSettingsFaults
    /\ settingsFaults' = settingsFaults + 1
    /\ torn' = TRUE
    /\ save' = [save EXCEPT ![a] = NoSave]
    /\ UNCHANGED <<setting, cached, copy, reader, saves, late>>

SettingsNext ==
    \/ \E r \in Readers : FindSettings(r) \/ ReadSettings(r) \/ StoreCopy(r)
    \/ \E a \in Admins : \/ \E keys \in SUBSET Keys, clear \in BOOLEAN : StartSave(a, keys, clear)
                         \/ \E k \in Keys : WriteSetting(a, k)
                         \/ Invalidate(a) \/ SaveBreaks(a)

SettingsSpec == SettingsInit /\ [][SettingsNext]_settingVars

----------------------------------------------------------------------------
SettingsTypeOK ==
    /\ setting \in [Keys -> Values] /\ cached \in BOOLEAN /\ copy \in [Keys -> Values]
    /\ reader \in [Readers -> [pc : {"idle", "find", "read"}, rows : [Keys -> Values], old : BOOLEAN]]
    /\ save \in [Admins -> [pc : {"idle", "write"}, keys : SUBSET Keys, value : Values]]
    /\ saves \in Values /\ late \in BOOLEAN /\ torn \in BOOLEAN /\ settingsFaults \in 0..MaxSettingsFaults

\* Between saves, what every reader is given is what the administrator stored; but for a copy that a reader had
\* read before a save ended and stored after it, and for a save that failed half way: nothing else keeps an old
\* setting in memory (loadCache, setMany, invalidate).
Saving == \E a \in Admins : save[a].pc # "idle"
CopyIsStored == cached => copy = setting \/ Saving \/ late \/ torn
=============================================================================
