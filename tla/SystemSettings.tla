---------------------------- MODULE SystemSettings ----------------------------
(***************************************************************************)
(* The system configuration: the table, the server's cache of it           *)
(* (SystemConfigService), the PATCH handler that changes its keys one      *)
(* after the other, and SystemSettingsPage in each administrator's         *)
(* browser, which sends every key of a form it loaded before.              *)
(***************************************************************************)
EXTENDS Naturals, Sequences, SequencesExt

CONSTANTS
  Admins,      \* administrators, each with the page open
  KeyOrder,    \* the keys, in the order of the payload
  Values,      \* the settings' values, and Default among them
  Default,     \* compiled-in: a positive number for every key
  Emptied,     \* an input the administrator has emptied: Number("") is 0
  Zero,        \* a value some keys accept
  ZeroKeys,    \* ... defaultReorderLevel
  NoValue,
  Typed,       \* bound: what the administrators type
  MaxSaves     \* bound on the saves

ASSUME SettingsAssumption ==
  /\ KeyOrder \in Seq(ToSet(KeyOrder)) \ {<<>>}
  /\ {Default, Zero} \subseteq Values /\ Default # Zero
  /\ {Emptied, NoValue} \cap Values = {} /\ Emptied # NoValue
  /\ Typed \subseteq Values \cup {Emptied}
  /\ ZeroKeys \subseteq ToSet(KeyOrder)
  /\ MaxSaves \in Nat

VARIABLES
  table,   \* [Keys -> value and updated_by, or NoSetting]
  cache,   \* the same, in the server's memory: cache and meta
  up,      \* the server is running
  config,  \* [Admins -> the page: its form, its flags]
  save,    \* [Admins -> the PATCH handler at work for the page]
  saves,   \* number of saves
  blind,   \* history: the table was not readable at the last start
  torn     \* history: keys whose updates have overlapped

settingsVars == <<table, cache, up, config, save, saves, blind, torn>>

Keys == ToSet(KeyOrder)

NoSetting == [value |-> NoValue, by |-> NoValue]

Rows == [value: Values, by: Admins \cup {NoValue}] \cup {NoSetting}

(* The getters: what the cache has, or the default.                        *)
Served == [k \in Keys |-> IF cache[k] = NoSetting THEN Default ELSE cache[k].value]

EmptyForm == [k \in Keys |-> NoValue]

NoSave == [at |-> "idle", left |-> <<>>, values |-> EmptyForm, same |-> FALSE]

(* buildUpdateSystemConfigPayload() and the DTO's bounds.                  *)
Payload(form) == [k \in Keys |-> IF form[k] = Emptied THEN Zero ELSE form[k]]

Valid(payload) == \A k \in Keys : payload[k] = Zero => k \in ZeroKeys

-----------------------------------------------------------------------------
(* The page's load, and its inputs.  `clean' says that nothing was typed,  *)
(* and the server has not stopped, since the last answer.                  *)
LoadConfig(a) ==
  /\ up /\ config[a].form = EmptyForm
  /\ config' = [config EXCEPT ![a].form = Served]
  /\ UNCHANGED <<table, cache, up, save, saves, blind, torn>>

SetField(a, k, v) ==
  /\ config[a].form # EmptyForm /\ config[a].form[k] # v
  /\ config' = [config EXCEPT ![a].form[k] = v, ![a].clean = FALSE]
  /\ UNCHANGED <<table, cache, up, save, saves, blind, torn>>

(* handleSave().  The button is not disabled: a second click while the     *)
(* first is on its way is left out.                                        *)
SaveConfig(a) ==
  /\ up /\ config[a].form # EmptyForm /\ save[a].at = "idle"
  /\ saves < MaxSaves
  /\ saves' = saves + 1
  /\ config' = [config EXCEPT ![a].saved = FALSE, ![a].clean = TRUE]
  /\ save' = IF Valid(Payload(config[a].form))
             THEN [save EXCEPT ![a] = [NoSave EXCEPT !.at = "select",
                                         !.left = KeyOrder,
                                         !.values = Payload(config[a].form)]]
             ELSE save
  /\ UNCHANGED <<table, cache, up, blind, torn>>

-----------------------------------------------------------------------------
(* repo.save() reads the row, and writes the columns that differ from it.  *)
Key(a) == Head(save[a].left)

AtKey(k) == {a \in Admins : save[a].at \in {"write", "cache"} /\ Key(a) = k}

SettingRow(a) == [value |-> save[a].values[Key(a)], by |-> a]

SelectKey(a) ==
  /\ save[a].at = "select"
  /\ save' = [save EXCEPT ![a].at = "write",
                          ![a].same = table[Key(a)].value = SettingRow(a).value]
  /\ torn' = IF AtKey(Key(a)) = {} THEN torn ELSE torn \cup {Key(a)}
  /\ UNCHANGED <<table, cache, up, config, saves, blind>>

WriteKey(a) ==
  /\ save[a].at = "write"
  /\ table' = [table EXCEPT ![Key(a)] =
                  IF save[a].same THEN [@ EXCEPT !.by = a] ELSE SettingRow(a)]
  /\ save' = [save EXCEPT ![a].at = "cache"]
  /\ UNCHANGED <<cache, up, config, saves, blind, torn>>

(* The cache follows the write, and the loop goes on.                      *)
RefreshedAll(a) ==   \* mutant: the whole payload at once
  [k \in Keys |-> [value |-> save[a].values[k], by |-> a]]

Refreshed(a) == [cache EXCEPT ![Key(a)] = SettingRow(a)]

CacheKey(a) ==
  /\ save[a].at = "cache"
  /\ cache' = Refreshed(a)
  /\ save' = [save EXCEPT ![a].left = Tail(@),
                ![a].at = IF Len(save[a].left) = 1 THEN "audit" ELSE "select"]
  /\ UNCHANGED <<table, up, config, saves, blind, torn>>

(* The audit entry, and the answer with what is served by then.            *)
ShownAsTyped(a) == config[a].form   \* mutant: the page keeps its form

Shown(a) == Served

SaveAnswered(a) ==
  /\ save[a].at = "audit"
  /\ save' = [save EXCEPT ![a] = NoSave]
  /\ config' = [config EXCEPT ![a] =
                  [form |-> Shown(a), saved |-> TRUE, clean |-> TRUE]]
  /\ UNCHANGED <<table, cache, up, saves, blind, torn>>

(* The database refuses a statement: the keys before it stay changed.      *)
SaveRefused(a) ==
  /\ save[a].at \in {"select", "write", "audit"}
  /\ save' = [save EXCEPT ![a] = NoSave]
  /\ UNCHANGED <<table, cache, up, config, saves, blind, torn>>

(* The server stops anywhere, and reads the table when it starts.          *)
Stop ==
  /\ up
  /\ up' = FALSE
  /\ cache' = [k \in Keys |-> NoSetting]
  /\ save' = [a \in Admins |-> NoSave]
  /\ config' = [a \in Admins |-> [config[a] EXCEPT !.clean = FALSE]]
  /\ UNCHANGED <<table, saves, blind, torn>>

Start ==
  /\ ~up
  /\ up' = TRUE
  /\ \/ cache' = table /\ blind' = FALSE /\ torn' = {}
     \/ cache' = [k \in Keys |-> NoSetting] /\ blind' = TRUE /\ UNCHANGED torn
  /\ UNCHANGED <<table, config, save, saves>>

SettingsInit ==
  /\ table = [k \in Keys |-> NoSetting]
  /\ cache = table
  /\ up = TRUE
  /\ config = [a \in Admins |-> [form |-> EmptyForm, saved |-> FALSE, clean |-> TRUE]]
  /\ save = [a \in Admins |-> NoSave]
  /\ saves = 0 /\ blind = FALSE /\ torn = {}

SettingsNext ==
  \/ \E a \in Admins :
       \/ LoadConfig(a) \/ SaveConfig(a)
       \/ \E k \in Keys, v \in Typed : SetField(a, k, v)
       \/ SelectKey(a) \/ WriteKey(a) \/ CacheKey(a)
       \/ SaveAnswered(a) \/ SaveRefused(a)
  \/ Stop \/ Start

SettingsSpec == SettingsInit /\ [][SettingsNext]_settingsVars

-----------------------------------------------------------------------------
(* The settings keep their types, and no value that the validators refuse  *)
(* reaches the table or is served.                                         *)
SettingsTypeOK ==
  /\ table \in [Keys -> Rows] /\ cache \in [Keys -> Rows]
  /\ \A k \in Keys : Zero \in {table[k].value, Served[k]} => k \in ZeroKeys
  /\ \A a \in Admins :
       /\ config[a].form \in [Keys -> Values \cup {Emptied, NoValue}]
       /\ save[a].at \in {"idle", "select", "write", "cache", "audit"}

(***************************************************************************)
(* The watchers and the logins work with what the table says, and the page *)
(* names who set it: once a key is at rest, its value and its author are   *)
(* served as they are stored, though saves fail halfway through their keys *)
(* and the server restarts; unless the table was not readable at the       *)
(* start, or two updates of the key overlapped.                            *)
(***************************************************************************)
ServedAsStored ==
  up /\ ~blind =>
    \A k \in Keys \ torn :
      (\A a \in AtKey(k) : save[a].at # "cache") => cache[k] = table[k]

(***************************************************************************)
(* Under "Settings saved." the page shows what it has saved, an emptied    *)
(* input included: a key that it was the last to set is stored as it is    *)
(* shown, though other administrators save other keys, or fail to.         *)
(***************************************************************************)
SavedIsStored ==
  \A a \in Admins, k \in Keys \ torn :
    config[a].saved /\ config[a].clean /\ table[k].by = a =>
      config[a].form[k] = table[k].value
=============================================================================
