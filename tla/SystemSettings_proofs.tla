------------------------- MODULE SystemSettings_proofs -------------------------
(***************************************************************************)
(* Theorems about SystemSettings, for any administrators, any keys and     *)
(* values and any number of saves.                                         *)
(***************************************************************************)
EXTENDS SystemSettings, TLAPS

-----------------------------------------------------------------------------
(* The shapes of the rows and of a handler, whatever is in them.           *)
IsRow(row) == row \in [value: {row.value}, by: {row.by}]

IsHandler(s) ==
  s \in [at: {"idle", "select", "write", "cache", "audit"}, left: {s.left},
         values: {s.values}, same: BOOLEAN]

Shapes ==
  /\ table = [k \in Keys |-> table[k]] /\ \A k \in Keys : IsRow(table[k])
  /\ cache = [k \in Keys |-> cache[k]]
  /\ save = [a \in Admins |-> save[a]] /\ \A a \in Admins : IsHandler(save[a])

(* A key whose updates have not overlapped has one handler at work on it.  *)
OneAtAKey == \A k \in Keys \ torn : \A a, b \in AtKey(k) : a = b

(* What that handler has read is still in the table, and what it has       *)
(* written too.                                                            *)
StillInTable ==
  \A a \in Admins :
    Key(a) \in Keys \ torn =>
      /\ save[a].at = "write" =>
           (save[a].same <=> table[Key(a)].value = SettingRow(a).value)
      /\ save[a].at = "cache" => table[Key(a)] = SettingRow(a)

(* A server that is down has no handlers.                                  *)
DownIdle == ~up => \A a \in Admins : save[a].at = "idle"

CacheInv == Shapes /\ OneAtAKey /\ StillInTable /\ DownIdle /\ ServedAsStored

LEMMA InitCache == SettingsInit => CacheInv
<1> SUFFICES ASSUME SettingsInit PROVE CacheInv
  OBVIOUS
<1>1. IsRow(NoSetting) /\ IsHandler(NoSave) /\ NoSave.at = "idle"
  BY DEF IsRow, IsHandler, NoSetting, NoSave
<1>2. /\ table = [k \in Keys |-> NoSetting] /\ cache = table
      /\ save = [a \in Admins |-> NoSave]
  BY DEF SettingsInit
<1>3. Shapes
  BY <1>1, <1>2 DEF Shapes
<1>4. \A a \in Admins : save[a].at = "idle"
  BY <1>1, <1>2
<1>5. OneAtAKey /\ StillInTable /\ DownIdle /\ ServedAsStored
  BY <1>2, <1>4 DEF OneAtAKey, AtKey, StillInTable, DownIdle, ServedAsStored
<1> QED
  BY <1>3, <1>5 DEF CacheInv

-----------------------------------------------------------------------------
(* A handler that goes on leaves the others where they are.                *)
LEMMA Others ==
  ASSUME Shapes, NEW a \in Admins, NEW s, IsHandler(s), save' = [save EXCEPT ![a] = s]
  PROVE  /\ save'[a] = s /\ \A b \in Admins : b # a => save'[b] = save[b]
         /\ save' = [b \in Admins |-> save'[b]]
         /\ \A b \in Admins : IsHandler(save'[b])
BY DEF Shapes

(* One that neither writes nor fills the cache, and does not begin a key.  *)
LEMMA OutsideKeeps ==
  ASSUME CacheInv, NEW a \in Admins, NEW s, IsHandler(s),
         save' = [save EXCEPT ![a] = s], save[a].at # "cache",
         s.at \in {"idle", "select", "audit"}, up,
         UNCHANGED <<table, cache, up, blind, torn>>
  PROVE  CacheInv'
<1>1. /\ save'[a] = s /\ \A b \in Admins : b # a => save'[b] = save[b]
      /\ save' = [b \in Admins |-> save'[b]]
      /\ \A b \in Admins : IsHandler(save'[b])
  BY Others DEF CacheInv
<1>2. Shapes'
  BY <1>1 DEF CacheInv, Shapes, Keys
<1>3. \A k \in Keys : AtKey(k)' \subseteq AtKey(k)
  BY <1>1 DEF AtKey, Key
<1>4. OneAtAKey'
  BY <1>3 DEF CacheInv, OneAtAKey, Keys
<1>5. StillInTable'
  BY <1>1 DEF CacheInv, StillInTable, Key, SettingRow, Keys
<1>6. ServedAsStored'
  <2>1. \A k \in Keys : \A b \in AtKey(k) :
          save[b].at = "cache" => b \in AtKey(k)' /\ save'[b].at = "cache"
    BY <1>1 DEF AtKey, Key
  <2> QED
    BY <2>1 DEF CacheInv, ServedAsStored, Keys
<1>7. DownIdle'
  BY DEF DownIdle
<1> QED
  BY <1>2, <1>4, <1>5, <1>6, <1>7 DEF CacheInv

LEMMA SelectKeeps ==
  ASSUME CacheInv, up, NEW a \in Admins, SelectKey(a)
  PROVE  CacheInv'
<1>0. PICK s : s = [save[a] EXCEPT !.at = "write",
                      !.same = table[Key(a)].value = SettingRow(a).value]
  OBVIOUS
<1>1. IsHandler(save[a]) /\ save[a].at = "select"
  BY DEF CacheInv, Shapes, SelectKey
<1>2. /\ IsHandler(s) /\ s.at = "write" /\ s.left = save[a].left
      /\ s.values = save[a].values
      /\ s.same <=> table[Key(a)].value = SettingRow(a).value
  BY <1>0, <1>1 DEF IsHandler
<1>3. /\ save' = [save EXCEPT ![a] = s]
      /\ torn' = IF AtKey(Key(a)) = {} THEN torn ELSE torn \cup {Key(a)}
      /\ UNCHANGED <<table, cache, up, blind>>
  BY <1>0 DEF SelectKey, CacheInv, Shapes
<1>4. /\ save'[a] = s /\ \A b \in Admins : b # a => save'[b] = save[b]
      /\ save' = [b \in Admins |-> save'[b]]
      /\ \A b \in Admins : IsHandler(save'[b])
  BY <1>2, <1>3, Others DEF CacheInv
<1>5. \A b \in Admins : Key(b)' = Key(b) /\ SettingRow(b)' = SettingRow(b)
  BY <1>2, <1>4 DEF Key, SettingRow
<1>6. Shapes'
  BY <1>3, <1>4 DEF CacheInv, Shapes, Keys
<1>7. \A k \in Keys : AtKey(k)' = IF k = Key(a) THEN AtKey(k) \cup {a} ELSE AtKey(k)
  BY <1>1, <1>2, <1>4, <1>5 DEF AtKey
<1>8. OneAtAKey'
  BY <1>3, <1>7 DEF CacheInv, OneAtAKey, Keys
<1>9. StillInTable'
  <2> SUFFICES ASSUME NEW b \in Admins, Key(b) \in Keys \ torn'
               PROVE  /\ save'[b].at = "write" =>
                           (save'[b].same <=> table[Key(b)].value = SettingRow(b).value)
                      /\ save'[b].at = "cache" => table[Key(b)] = SettingRow(b)
    BY <1>3, <1>5 DEF StillInTable, Keys
  <2>1. Key(b) \in Keys \ torn
    BY <1>3
  <2>2. CASE b = a
    BY <1>2, <1>4, <2>2
  <2>3. CASE b # a
    BY <1>4, <2>1, <2>3 DEF CacheInv, StillInTable
  <2> QED
    BY <2>2, <2>3
<1>10. ServedAsStored'
  <2>1. \A k \in Keys : \A b \in AtKey(k) :
          save[b].at = "cache" => b \in AtKey(k)' /\ save'[b].at = "cache"
    <3>1. \A k : AtKey(k) \subseteq Admins
      BY DEF AtKey
    <3>2. \A b \in Admins : save[b].at = "cache" => save'[b].at = "cache"
      BY <1>1, <1>4
    <3> QED
      BY <1>7, <3>1, <3>2
  <2>2. \A k \in Keys \ torn' : k \in Keys \ torn
    BY <1>3
  <2> QED
    BY <1>3, <2>1, <2>2 DEF CacheInv, ServedAsStored, Keys
<1>11. DownIdle'
  BY <1>3 DEF DownIdle
<1> QED
  BY <1>6, <1>8, <1>9, <1>10, <1>11 DEF CacheInv

LEMMA WriteKeeps ==
  ASSUME CacheInv, up, NEW a \in Admins, WriteKey(a)
  PROVE  CacheInv'
<1>0. PICK s : s = [save[a] EXCEPT !.at = "cache"]
  OBVIOUS
<1>1. IsHandler(save[a]) /\ save[a].at = "write"
  BY DEF CacheInv, Shapes, WriteKey
<1>2. /\ IsHandler(s) /\ s.at = "cache" /\ s.left = save[a].left
      /\ s.values = save[a].values
  BY <1>0, <1>1 DEF IsHandler
<1>3. /\ save' = [save EXCEPT ![a] = s]
      /\ table' = [table EXCEPT ![Key(a)] =
                     IF save[a].same THEN [@ EXCEPT !.by = a] ELSE SettingRow(a)]
      /\ UNCHANGED <<cache, up, blind, torn>>
  BY <1>0 DEF WriteKey, CacheInv, Shapes
<1>4. /\ save'[a] = s /\ \A b \in Admins : b # a => save'[b] = save[b]
      /\ save' = [b \in Admins |-> save'[b]]
      /\ \A b \in Admins : IsHandler(save'[b])
  BY <1>2, <1>3, Others DEF CacheInv
<1>5. \A b \in Admins : Key(b)' = Key(b) /\ SettingRow(b)' = SettingRow(b)
  BY <1>2, <1>4 DEF Key, SettingRow
<1>6. /\ table' = [k \in Keys |-> table'[k]]
      /\ \A k \in Keys : k # Key(a) => table'[k] = table[k]
      /\ Key(a) \in Keys =>
           table'[Key(a)] = IF save[a].same THEN [table[Key(a)] EXCEPT !.by = a]
                            ELSE SettingRow(a)
  BY <1>3 DEF CacheInv, Shapes
<1>7. IsRow(SettingRow(a)) /\ SettingRow(a).by = a
  BY DEF SettingRow, IsRow
<1>8. Key(a) \in Keys => IsRow(table'[Key(a)])
  <2>1. ASSUME Key(a) \in Keys PROVE IsRow([table[Key(a)] EXCEPT !.by = a])
    BY <2>1 DEF CacheInv, Shapes, IsRow
  <2> QED
    BY <1>6, <1>7, <2>1
<1>9. Key(a) \in Keys \ torn => table'[Key(a)] = SettingRow(a)
  <2> SUFFICES ASSUME Key(a) \in Keys \ torn PROVE table'[Key(a)] = SettingRow(a)
    OBVIOUS
  <2>1. CASE ~save[a].same
    BY <1>6, <2>1
  <2>2. CASE save[a].same
    <3>1. table[Key(a)].value = SettingRow(a).value
      BY <1>1, <2>2 DEF CacheInv, StillInTable
    <3>2. IsRow(table[Key(a)])
      BY DEF CacheInv, Shapes
    <3>3. [table[Key(a)] EXCEPT !.by = a] = SettingRow(a)
      BY <3>1, <3>2, <1>7 DEF IsRow, SettingRow
    <3> QED
      BY <1>6, <2>2, <3>3
  <2> QED
    BY <2>1, <2>2
<1>10. Shapes'
  BY <1>3, <1>4, <1>6, <1>8 DEF CacheInv, Shapes, Keys
<1>11. \A k \in Keys : AtKey(k)' = AtKey(k)
  BY <1>1, <1>2, <1>4, <1>5 DEF AtKey
<1>12. OneAtAKey'
  BY <1>3, <1>11 DEF CacheInv, OneAtAKey, Keys
<1>13. StillInTable'
  <2> SUFFICES ASSUME NEW b \in Admins, Key(b) \in Keys \ torn
               PROVE  /\ save'[b].at = "write" =>
                           (save'[b].same <=> table'[Key(b)].value = SettingRow(b).value)
                      /\ save'[b].at = "cache" => table'[Key(b)] = SettingRow(b)
    BY <1>3, <1>5 DEF StillInTable, Keys
  <2>1. CASE b = a
    BY <1>2, <1>4, <1>9, <2>1
  <2>2. CASE b # a /\ Key(b) # Key(a)
    BY <1>4, <1>6, <2>2 DEF CacheInv, StillInTable
  <2>3. CASE b # a /\ Key(b) = Key(a)
    <3>1. b \notin AtKey(Key(a))
      BY <1>1, <2>3 DEF CacheInv, OneAtAKey, AtKey
    <3>2. save'[b].at \notin {"write", "cache"}
      BY <1>4, <2>3, <3>1 DEF AtKey
    <3> QED
      BY <3>2
  <2> QED
    BY <2>1, <2>2, <2>3
<1>14. ServedAsStored'
  <2> SUFFICES ASSUME up, ~blind, NEW k \in Keys \ torn,
                      \A b \in AtKey(k) : save'[b].at # "cache"
               PROVE  cache[k] = table'[k]
    BY <1>3, <1>11 DEF ServedAsStored, Keys
  <2>1. k # Key(a)
    BY <1>1, <1>2, <1>4 DEF AtKey
  <2>2. \A b \in AtKey(k) : save[b].at # "cache"
    BY <1>1, <1>4 DEF AtKey
  <2> QED
    BY <1>6, <2>1, <2>2 DEF CacheInv, ServedAsStored
<1>15. DownIdle'
  BY <1>3 DEF DownIdle
<1> QED
  BY <1>10, <1>12, <1>13, <1>14, <1>15 DEF CacheInv

LEMMA FillKeeps ==
  ASSUME CacheInv, up, NEW a \in Admins, CacheKey(a)
  PROVE  CacheInv'
<1>0. PICK s : s = [save[a] EXCEPT !.left = Tail(@),
                      !.at = IF Len(save[a].left) = 1 THEN "audit" ELSE "select"]
  OBVIOUS
<1>1. IsHandler(save[a]) /\ save[a].at = "cache"
  BY DEF CacheInv, Shapes, CacheKey
<1>2. IsHandler(s) /\ s.at \in {"audit", "select"}
  BY <1>0, <1>1 DEF IsHandler
<1>3. /\ save' = [save EXCEPT ![a] = s]
      /\ cache' = [cache EXCEPT ![Key(a)] = SettingRow(a)]
      /\ UNCHANGED <<table, up, blind, torn>>
  BY <1>0 DEF CacheKey, Refreshed, CacheInv, Shapes
<1>4. /\ save'[a] = s /\ \A b \in Admins : b # a => save'[b] = save[b]
      /\ save' = [b \in Admins |-> save'[b]]
      /\ \A b \in Admins : IsHandler(save'[b])
  BY <1>2, <1>3, Others DEF CacheInv
<1>5. \A k \in Keys : AtKey(k)' = AtKey(k) \ {a}
  BY <1>2, <1>4 DEF AtKey, Key
<1>6. Shapes'
  BY <1>3, <1>4 DEF CacheInv, Shapes, Keys
<1>7. OneAtAKey'
  BY <1>3, <1>5 DEF CacheInv, OneAtAKey, Keys
<1>8. StillInTable'
  BY <1>2, <1>3, <1>4 DEF CacheInv, StillInTable, Key, SettingRow, Keys
<1>9. ServedAsStored'
  <2> SUFFICES ASSUME up, ~blind, NEW k \in Keys \ torn,
                      \A b \in AtKey(k) \ {a} : save'[b].at # "cache"
               PROVE  cache'[k] = table[k]
    BY <1>3, <1>5 DEF ServedAsStored, Keys
  <2>1. CASE k = Key(a)
    BY <1>1, <1>3, <2>1 DEF CacheInv, Shapes, StillInTable
  <2>2. CASE k # Key(a)
    <3>1. \A b \in AtKey(k) : b # a /\ save[b].at # "cache"
      BY <1>4, <2>2 DEF AtKey
    <3> QED
      BY <1>3, <2>2, <3>1 DEF CacheInv, Shapes, ServedAsStored
  <2> QED
    BY <2>1, <2>2
<1>10. DownIdle'
  BY <1>3 DEF DownIdle
<1> QED
  BY <1>6, <1>7, <1>8, <1>9, <1>10 DEF CacheInv

LEMMA NextCache == CacheInv /\ [SettingsNext]_settingsVars => CacheInv'
<1> SUFFICES ASSUME CacheInv, [SettingsNext]_settingsVars PROVE CacheInv'
  OBVIOUS
<1>0. ASSUME UNCHANGED <<table, cache, up, save, blind, torn>> PROVE CacheInv'
  BY <1>0
     DEF CacheInv, Shapes, OneAtAKey, StillInTable, DownIdle, ServedAsStored,
         AtKey, Key, SettingRow, Keys
<1>1. IsHandler(NoSave) /\ NoSave.at = "idle"
  BY DEF IsHandler, NoSave
<1>2. ASSUME NEW a \in Admins,
             LoadConfig(a) \/ (\E k \in Keys, v \in Typed : SetField(a, k, v))
      PROVE  CacheInv'
  BY <1>0, <1>2 DEF LoadConfig, SetField
<1>3. ASSUME NEW a \in Admins, SaveConfig(a) PROVE CacheInv'
  <2>1. PICK s : s = [NoSave EXCEPT !.at = "select", !.left = KeyOrder,
                                    !.values = Payload(config[a].form)]
    OBVIOUS
  <2>2. IsHandler(s) /\ s.at = "select"
    BY <2>1 DEF IsHandler, NoSave
  <2>3. /\ save[a].at = "idle" /\ up /\ UNCHANGED <<table, cache, up, blind, torn>>
        /\ save' = [save EXCEPT ![a] = s] \/ save' = save
    BY <1>3, <2>1 DEF SaveConfig
  <2> QED
    BY <1>0, <2>2, <2>3, OutsideKeeps
<1>4. ASSUME NEW a \in Admins, SelectKey(a) \/ WriteKey(a) \/ CacheKey(a)
      PROVE  CacheInv'
  <2>1. save[a].at # "idle"
    BY <1>4 DEF SelectKey, WriteKey, CacheKey
  <2>2. up
    BY <2>1 DEF CacheInv, DownIdle
  <2> QED
    BY <1>4, <2>2, SelectKeeps, WriteKeeps, FillKeeps
<1>5. ASSUME NEW a \in Admins, SaveAnswered(a) \/ SaveRefused(a) PROVE CacheInv'
  <2>1. /\ save[a].at \in {"select", "write", "audit"}
        /\ save' = [save EXCEPT ![a] = NoSave]
        /\ UNCHANGED <<table, cache, up, blind, torn>>
    BY <1>5 DEF SaveAnswered, SaveRefused
  <2>2. up
    BY <2>1 DEF CacheInv, DownIdle
  <2> QED
    BY <1>1, <2>1, <2>2, OutsideKeeps
<1>6. CASE Stop
  <2>1. /\ up' = FALSE /\ UNCHANGED <<table, blind, torn>>
        /\ cache' = [k \in Keys |-> NoSetting]
        /\ save' = [a \in Admins |-> NoSave]
    BY <1>6 DEF Stop
  <2>2. \A a \in Admins : save'[a] = NoSave
    BY <2>1
  <2>3. Shapes'
    BY <1>1, <2>1, <2>2 DEF CacheInv, Shapes, Keys
  <2>4. \A k \in Keys : AtKey(k)' = {}
    BY <1>1, <2>2 DEF AtKey
  <2>5. OneAtAKey' /\ DownIdle' /\ ServedAsStored'
    BY <1>1, <2>1, <2>2, <2>4 DEF OneAtAKey, DownIdle, ServedAsStored, Keys
  <2>6. StillInTable'
    BY <1>1, <2>2 DEF StillInTable
  <2> QED
    BY <2>3, <2>5, <2>6 DEF CacheInv
<1>7. CASE Start
  <2>1. /\ up' = TRUE /\ UNCHANGED <<table, save>>
        /\ \/ cache' = table /\ blind' = FALSE
           \/ cache' = [k \in Keys |-> NoSetting] /\ blind' = TRUE
    BY <1>7 DEF Start
  <2>2. \A a \in Admins : save[a].at = "idle"
    BY <1>7 DEF Start, CacheInv, DownIdle
  <2>3. Shapes'
    BY <2>1 DEF CacheInv, Shapes, Keys
  <2>4. \A k \in Keys : AtKey(k)' = {}
    BY <2>1, <2>2 DEF AtKey
  <2>5. OneAtAKey' /\ DownIdle' /\ StillInTable'
    BY <2>1, <2>2, <2>4 DEF OneAtAKey, DownIdle, StillInTable, Keys
  <2>6. ServedAsStored'
    BY <2>1 DEF ServedAsStored, Keys
  <2> QED
    BY <2>3, <2>5, <2>6 DEF CacheInv
<1>8. CASE UNCHANGED settingsVars
  BY <1>0, <1>8 DEF settingsVars
<1> QED
  BY <1>2, <1>3, <1>4, <1>5, <1>6, <1>7, <1>8 DEF SettingsNext

(* Once a key is at rest the server serves it, and names who set it, as it *)
(* is stored: over saves that fail halfway and restarts, unless the table  *)
(* was not readable at the start or updates of the key overlapped.         *)
THEOREM CacheFollowsTable == SettingsSpec => []ServedAsStored
<1>1. CacheInv => ServedAsStored
  BY DEF CacheInv
<1> QED
  BY <1>1, InitCache, NextCache, PTL DEF SettingsSpec

-----------------------------------------------------------------------------
(* What the page says it has saved.                                        *)
LEMMA TailOf ==
  ASSUME NEW S, NEW s \in Seq(S), s # <<>>
  PROVE  /\ Tail(s) \in Seq(S) /\ (Len(s) = 1 <=> Tail(s) = <<>>)
         /\ Head(s) \in ToSet(s) /\ ToSet(s) \subseteq {Head(s)} \cup ToSet(Tail(s))
<1>1. /\ Tail(s) \in Seq(S) /\ Len(s) \in Nat \ {0} /\ Len(Tail(s)) = Len(s) - 1
      /\ Head(s) = s[1] /\ DOMAIN s = 1..Len(s)
      /\ \A i \in 1..Len(s) - 1 : Tail(s)[i] = s[i + 1]
  OBVIOUS
<1>2. Len(s) = 1 <=> Tail(s) = <<>>
  <2>1. ASSUME NEW t \in Seq(S) PROVE Len(t) = 0 <=> t = <<>>
    OBVIOUS
  <2>2. Len(Tail(s)) = 0 <=> Tail(s) = <<>>
    BY <1>1, <2>1
  <2> QED
    BY <1>1, <2>2
<1>3. Head(s) \in ToSet(s)
  BY <1>1 DEF ToSet
<1>4. ASSUME NEW x \in ToSet(s), x # Head(s)
      PROVE  x \in ToSet(Tail(s))
  <2>1. PICK i \in 1..Len(s) : x = s[i]
    BY <1>1, <1>4 DEF ToSet
  <2>2. i - 1 \in 1..Len(s) - 1 /\ Tail(s)[i - 1] = x
    BY <1>1, <1>4, <2>1
  <2>3. DOMAIN Tail(s) = 1..Len(s) - 1
    BY <1>1
  <2> QED
    BY <2>2, <2>3 DEF ToSet
<1> QED
  BY <1>1, <1>2, <1>3, <1>4

(* A row that was set has a value, and so has each field of a page that    *)
(* was loaded; the handler has its keys before it, and the page says       *)
(* "saved" only when it is done.                                           *)
IsSet(row) == row = NoSetting \/ row.value # NoValue

IsFilled(form) == \A k \in Keys : form[k] # NoValue

IsPage(c) ==
  /\ c = [form |-> c.form, saved |-> c.saved, clean |-> c.clean]
  /\ c.form = [k \in Keys |-> c.form[k]]
  /\ c.saved \in BOOLEAN /\ c.clean \in BOOLEAN
  /\ IsFilled(c.form) \/ (c.form = EmptyForm /\ ~c.saved)

SettingsFilled ==
  /\ \A k \in Keys : IsSet(table[k]) /\ IsSet(cache[k])
  /\ config = [a \in Admins |-> config[a]]
  /\ \A a \in Admins :
       /\ IsPage(config[a]) /\ save[a].left \in Seq(Keys)
       /\ save[a].at # "idle" => IsFilled(save[a].values) /\ ~config[a].saved
       /\ save[a].at = "audit" => save[a].left = <<>>
       /\ save[a].at \in {"select", "write", "cache"} => save[a].left # <<>>
       /\ ~up => ~config[a].clean

(* What a handler has found as it is to be, has a value.                   *)
FoundSet ==
  \A a \in Admins :
    save[a].at = "write" /\ save[a].same => table[Key(a)].value # NoValue

(* What a handler has gone through is stored as it is served, for as long  *)
(* as its administrator was the last to set it, and so is what the page    *)
(* shows as saved.                                                         *)
StoredOf(a) ==
  \A k \in Keys \ torn : table[k].by = a =>
    /\ save[a].at # "idle" /\ k \notin ToSet(save[a].left) =>
         cache[k] = table[k] /\ cache[k] # NoSetting
    /\ config[a].saved /\ config[a].clean => config[a].form[k] = table[k].value

SavedInv == SettingsFilled /\ FoundSet /\ \A a \in Admins : StoredOf(a)

LEMMA InitSaved == SettingsInit => SavedInv
<1> SUFFICES ASSUME SettingsInit PROVE SavedInv
  OBVIOUS
<1>1. PICK c : c = [form |-> EmptyForm, saved |-> FALSE, clean |-> TRUE]
  OBVIOUS
<1>2. /\ table = [k \in Keys |-> NoSetting] /\ cache = table /\ up = TRUE
      /\ save = [a \in Admins |-> NoSave] /\ config = [a \in Admins |-> c]
  BY <1>1 DEF SettingsInit
<1>3. IsPage(c) /\ c.saved = FALSE
  BY <1>1 DEF IsPage, EmptyForm
<1>4. NoSave.at = "idle" /\ NoSave.left = <<>>
  BY DEF NoSave
<1>5. \A a \in Admins : save[a] = NoSave /\ config[a] = c
  BY <1>2
<1>6. \A k \in Keys : IsSet(table[k]) /\ IsSet(cache[k])
  BY <1>2 DEF IsSet
<1>7. config = [a \in Admins |-> config[a]]
  BY <1>2, <1>5
<1>8. SettingsFilled
  <2>1. <<>> \in Seq(Keys)
    OBVIOUS
  <2>2. \A a \in Admins : /\ IsPage(config[a]) /\ save[a].left \in Seq(Keys)
                          /\ save[a].at = "idle"
    BY <1>3, <1>4, <1>5, <2>1
  <2> QED
    BY <1>2, <1>6, <1>7, <2>2 DEF SettingsFilled
<1>9. \A a \in Admins : StoredOf(a)
  BY <1>3, <1>4, <1>5 DEF StoredOf
<1>10. FoundSet
  BY <1>4, <1>5 DEF FoundSet
<1> QED
  BY <1>8, <1>9, <1>10 DEF SavedInv

(* A page that changes, its handler and the tables at rest.                *)
LEMMA PageFilled ==
  ASSUME SettingsFilled, NEW a \in Admins, NEW c, IsPage(c),
         config' = [config EXCEPT ![a] = c],
         c.saved => config[a].saved, up \/ ~c.clean,
         UNCHANGED <<table, cache, up, save>>
  PROVE  /\ SettingsFilled' /\ (FoundSet => FoundSet') /\ config'[a] = c
         /\ \A b \in Admins : b # a => config'[b] = config[b]
<1>1. /\ config'[a] = c /\ \A b \in Admins : b # a => config'[b] = config[b]
      /\ config' = [b \in Admins |-> config'[b]]
  BY DEF SettingsFilled
<1>2. \A b \in Admins : IsPage(config[b])' <=> IsPage(config'[b])
  BY DEF IsPage, IsFilled, EmptyForm, Keys
<1>3. \A b \in Admins : IsPage(config'[b])
  BY <1>1 DEF SettingsFilled
<1> QED
  BY <1>1, <1>2, <1>3 DEF SettingsFilled, FoundSet, Key, IsSet, IsFilled, Keys

LEMMA LoadSaved ==
  ASSUME SavedInv, NEW a \in Admins, LoadConfig(a)
  PROVE  SavedInv'
<1>0. PICK c : c = [config[a] EXCEPT !.form = Served]
  OBVIOUS
<1>1. /\ SettingsFilled /\ up /\ IsPage(config[a]) /\ config[a].form = EmptyForm
      /\ UNCHANGED <<table, cache, up, save, torn>>
      /\ config' = [config EXCEPT ![a] = c]
  BY <1>0 DEF SavedInv, LoadConfig, SettingsFilled
<1>2. /\ c.form = Served /\ c.saved = config[a].saved /\ c.clean = config[a].clean
      /\ c = [form |-> c.form, saved |-> c.saved, clean |-> c.clean]
  BY <1>0, <1>1 DEF IsPage
<1>3. Served = [k \in Keys |-> Served[k]] /\ IsFilled(Served)
  BY <1>1, SettingsAssumption DEF SettingsFilled, IsFilled, IsSet, Served
<1>4. IsPage(c)
  BY <1>1, <1>2, <1>3 DEF IsPage
<1>5. /\ SettingsFilled' /\ FoundSet' /\ config'[a] = c
      /\ \A b \in Admins : b # a => config'[b] = config[b]
  BY <1>1, <1>2, <1>4, PageFilled DEF SavedInv
<1>6. ASSUME NEW b \in Admins, StoredOf(b)
      PROVE  StoredOf(b)'
  <2>1. CASE b # a
    BY <1>1, <1>5, <1>6, <2>1 DEF StoredOf, Keys
  <2>2. CASE b = a
    <3>1. ASSUME NEW k \in Keys
          PROVE  ~config[a].saved
      BY <1>1, <3>1 DEF IsPage, IsFilled, EmptyForm
    <3> QED
      BY <1>1, <1>2, <1>5, <1>6, <2>2, <3>1 DEF StoredOf, Keys
  <2> QED
    BY <2>1, <2>2
<1> QED
  BY <1>5, <1>6 DEF SavedInv

LEMMA FieldSaved ==
  ASSUME SavedInv, NEW a \in Admins, NEW k \in Keys, NEW v \in Typed, SetField(a, k, v)
  PROVE  SavedInv'
<1>0. PICK c : c = [config[a] EXCEPT !.form[k] = v, !.clean = FALSE]
  OBVIOUS
<1>1. /\ SettingsFilled /\ IsPage(config[a]) /\ config[a].form # EmptyForm
      /\ UNCHANGED <<table, cache, up, save, torn>>
      /\ config' = [config EXCEPT ![a] = c]
  BY <1>0 DEF SavedInv, SetField, SettingsFilled
<1>2. /\ c.form = [config[a].form EXCEPT ![k] = v] /\ c.saved = config[a].saved
      /\ c.clean = FALSE
      /\ c = [form |-> c.form, saved |-> c.saved, clean |-> c.clean]
  BY <1>0, <1>1 DEF IsPage
<1>3. v # NoValue
  BY SettingsAssumption
<1>4. IsPage(c)
  BY <1>1, <1>2, <1>3 DEF IsPage, IsFilled
<1>5. /\ SettingsFilled' /\ FoundSet' /\ config'[a] = c
      /\ \A b \in Admins : b # a => config'[b] = config[b]
  BY <1>1, <1>2, <1>4, PageFilled DEF SavedInv
<1>6. \A b \in Admins : StoredOf(b) => StoredOf(b)'
  BY <1>1, <1>2, <1>5 DEF StoredOf, Keys
<1> QED
  BY <1>5, <1>6 DEF SavedInv

(* A handler that goes on, and what is left of its payload.                *)
IsBusy(s) ==
  /\ s.left \in Seq(Keys)
  /\ s.at # "idle" => IsFilled(s.values)
  /\ s.at = "audit" => s.left = <<>>
  /\ s.at \in {"select", "write", "cache"} => s.left # <<>>

LEMMA HandlerFilled ==
  ASSUME Shapes, SettingsFilled, NEW a \in Admins, NEW s, IsHandler(s), IsBusy(s),
         save' = [save EXCEPT ![a] = s],
         s.at # "idle" => ~config[a].saved, UNCHANGED <<up, config>>,
         \A k \in Keys : IsSet(table'[k]) /\ IsSet(cache'[k])
  PROVE  SettingsFilled'
<1>1. save'[a] = s /\ \A b \in Admins : b # a => save'[b] = save[b]
  BY Others
<1>2. \A b \in Admins : IsPage(config[b])' <=> IsPage(config[b])
  BY DEF IsPage, IsFilled, EmptyForm, Keys
<1>3. \A k \in Keys' : IsSet(table[k])' /\ IsSet(cache[k])'
  BY DEF IsSet, Keys
<1> QED
  BY <1>1, <1>2, <1>3 DEF SettingsFilled, IsBusy, IsFilled, Keys

LEMMA SaveSaved ==
  ASSUME CacheInv, SavedInv, NEW a \in Admins, SaveConfig(a)
  PROVE  SavedInv'
<1>0. PICK c, s : /\ c = [config[a] EXCEPT !.saved = FALSE, !.clean = TRUE]
                  /\ s = [NoSave EXCEPT !.at = "select", !.left = KeyOrder,
                                        !.values = Payload(config[a].form)]
  OBVIOUS
<1>1. /\ SettingsFilled /\ Shapes /\ up /\ IsPage(config[a])
      /\ config[a].form # EmptyForm /\ save[a].at = "idle"
      /\ UNCHANGED <<table, cache, up, torn>>
      /\ config' = [config EXCEPT ![a] = c]
      /\ save' = [save EXCEPT ![a] = s] \/ save' = save
  BY <1>0 DEF CacheInv, SavedInv, SaveConfig, SettingsFilled
<1>2. /\ c.form = config[a].form /\ c.saved = FALSE /\ c.clean = TRUE
      /\ c = [form |-> c.form, saved |-> c.saved, clean |-> c.clean]
  BY <1>0, <1>1 DEF IsPage
<1>3. IsPage(c)
  BY <1>1, <1>2 DEF IsPage
<1>4. /\ s.at = "select" /\ s.left = KeyOrder /\ IsHandler(s)
      /\ s.values = Payload(config[a].form)
  BY <1>0 DEF NoSave, IsHandler
<1>5. IsFilled(s.values)
  BY <1>1, <1>4, SettingsAssumption DEF IsPage, IsFilled, Payload
<1>6. IsBusy(s)
  BY <1>4, <1>5, SettingsAssumption DEF IsBusy, Keys
<1>7. /\ config'[a] = c /\ \A b \in Admins : b # a => config'[b] = config[b]
      /\ config' = [b \in Admins |-> config'[b]]
  BY <1>1 DEF SettingsFilled
<1>8. save'[a] \in {s, save[a]} /\ \A b \in Admins : b # a => save'[b] = save[b]
  BY <1>1, <1>4, Others
<1>9. \A b \in Admins : IsPage(config[b])'
  <2>1. \A b \in Admins : IsPage(config[b])' <=> IsPage(config'[b])
    BY DEF IsPage, IsFilled, EmptyForm, Keys
  <2> QED
    BY <1>1, <1>3, <1>7, <2>1 DEF SettingsFilled
<1>10. SettingsFilled'
  <2>1. \A k \in Keys' : IsSet(table[k])' /\ IsSet(cache[k])'
    BY <1>1 DEF SettingsFilled, IsSet, Keys
  <2>2. ASSUME NEW b \in Admins
        PROVE  /\ save'[b].left \in Seq(Keys)
               /\ save'[b].at # "idle" => IsFilled(save'[b].values) /\ ~config'[b].saved
               /\ save'[b].at = "audit" => save'[b].left = <<>>
               /\ save'[b].at \in {"select", "write", "cache"} => save'[b].left # <<>>
    <3>1. CASE b # a
      BY <1>1, <1>7, <1>8, <3>1 DEF SettingsFilled
    <3>2. CASE b = a
      BY <1>1, <1>2, <1>6, <1>7, <1>8, <3>2 DEF SettingsFilled, IsBusy
    <3> QED
      BY <3>1, <3>2
  <2> QED
    BY <1>1, <1>7, <1>9, <2>1, <2>2 DEF SettingsFilled, IsFilled, Keys
<1>11. ASSUME NEW b \in Admins, StoredOf(b)
       PROVE  StoredOf(b)'
  <2>1. CASE b # a
    BY <1>1, <1>7, <1>8, <1>11, <2>1 DEF StoredOf, Keys
  <2>2. CASE b = a
    <3>1. save'[a].at = "idle" \/ \A k \in Keys : k \in ToSet(save'[a].left)
      BY <1>1, <1>4, <1>8 DEF Keys
    <3> QED
      BY <1>2, <1>7, <2>2, <3>1 DEF StoredOf, Keys
  <2> QED
    BY <2>1, <2>2
<1>12. FoundSet'
  BY <1>1, <1>4, <1>8 DEF SavedInv, FoundSet, Key
<1> QED
  BY <1>10, <1>11, <1>12 DEF SavedInv

(* A handler that neither writes nor fills the cache, the pages at rest.   *)
LEMMA HandlerSaved ==
  ASSUME CacheInv, SavedInv, NEW a \in Admins, NEW s, IsHandler(s), IsBusy(s),
         save' = [save EXCEPT ![a] = s],
         s.at = "idle" \/ (save[a].at # "idle" /\ s.left = save[a].left),
         s.at = "write" /\ s.same => table[Head(s.left)].value # NoValue,
         torn \subseteq torn', UNCHANGED <<table, cache, up, config>>
  PROVE  SavedInv'
<1>1. Shapes /\ SettingsFilled
  BY DEF CacheInv, SavedInv
<1>2. save'[a] = s /\ \A b \in Admins : b # a => save'[b] = save[b]
  BY <1>1, Others
<1>3. s.at # "idle" => ~config[a].saved
  BY <1>1 DEF SettingsFilled
<1>4. \A k \in Keys : IsSet(table'[k]) /\ IsSet(cache'[k])
  BY <1>1 DEF SettingsFilled
<1>5. SettingsFilled'
  BY <1>1, <1>3, <1>4, HandlerFilled
<1>6. ASSUME NEW b \in Admins, StoredOf(b)
      PROVE  StoredOf(b)'
  <2>1. CASE b # a
    BY <1>2, <1>6, <2>1 DEF StoredOf, Keys
  <2>2. CASE b = a
    BY <1>2, <1>6, <2>2 DEF StoredOf, Keys
  <2> QED
    BY <2>1, <2>2
<1>7. FoundSet'
  BY <1>2 DEF SavedInv, FoundSet, Key
<1> QED
  BY <1>5, <1>6, <1>7 DEF SavedInv

LEMMA SelectSaved ==
  ASSUME CacheInv, SavedInv, NEW a \in Admins, SelectKey(a)
  PROVE  SavedInv'
<1>0. PICK s : s = [save[a] EXCEPT !.at = "write",
                      !.same = table[Key(a)].value = SettingRow(a).value]
  OBVIOUS
<1>1. IsHandler(save[a]) /\ save[a].at = "select" /\ SettingsFilled
  BY DEF CacheInv, Shapes, SavedInv, SelectKey
<1>2. /\ IsHandler(s) /\ s.at = "write" /\ s.left = save[a].left
      /\ s.values = save[a].values
  BY <1>0, <1>1 DEF IsHandler
<1>3. IsBusy(s)
  BY <1>1, <1>2 DEF IsBusy, SettingsFilled
<1>4. /\ save' = [save EXCEPT ![a] = s] /\ torn \subseteq torn'
      /\ UNCHANGED <<table, cache, up, config>>
  BY <1>0 DEF SelectKey, CacheInv, Shapes
<1>5. s.same => table[Head(s.left)].value # NoValue
  <2>1. s.same <=> table[Key(a)].value = SettingRow(a).value
    BY <1>0, <1>1 DEF IsHandler
  <2>2. Key(a) \in Keys /\ Key(a) = Head(s.left) /\ IsFilled(save[a].values)
    <3>1. save[a].left # <<>> /\ save[a].left \in Seq(Keys)
      BY <1>1 DEF SettingsFilled
    <3> QED
      BY <1>1, <1>2, <3>1 DEF SettingsFilled, Key
  <2>3. SettingRow(a).value # NoValue
    BY <2>2 DEF SettingRow, IsFilled
  <2> QED
    BY <2>1, <2>2, <2>3
<1> QED
  BY <1>1, <1>2, <1>3, <1>4, <1>5, HandlerSaved

LEMMA RefuseSaved ==
  ASSUME CacheInv, SavedInv, NEW a \in Admins, SaveRefused(a)
  PROVE  SavedInv'
<1>1. PICK s : s = NoSave
  OBVIOUS
<1>2. s.at = "idle" /\ s.left = <<>> /\ IsHandler(s) /\ IsBusy(s)
  BY <1>1 DEF NoSave, IsHandler, IsBusy
<1>3. /\ save' = [save EXCEPT ![a] = s] /\ torn \subseteq torn'
      /\ UNCHANGED <<table, cache, up, config>>
  BY <1>1 DEF SaveRefused
<1> QED
  BY <1>2, <1>3, HandlerSaved

LEMMA WriteRowSaved ==
  ASSUME CacheInv, SavedInv, NEW a \in Admins, WriteKey(a)
  PROVE  SavedInv'
<1>0. PICK s : s = [save[a] EXCEPT !.at = "cache"]
  OBVIOUS
<1>1. /\ IsHandler(save[a]) /\ save[a].at = "write" /\ SettingsFilled /\ Shapes
      /\ save[a].left # <<>> /\ save[a].left \in Seq(Keys)
  BY DEF CacheInv, Shapes, SavedInv, SettingsFilled, WriteKey
<1>2. /\ IsHandler(s) /\ s.at = "cache" /\ s.left = save[a].left
      /\ s.values = save[a].values
  BY <1>0, <1>1 DEF IsHandler
<1>3. IsBusy(s)
  BY <1>1, <1>2 DEF IsBusy, SettingsFilled
<1>4. /\ save' = [save EXCEPT ![a] = s]
      /\ table' = [table EXCEPT ![Key(a)] =
                     IF save[a].same THEN [@ EXCEPT !.by = a] ELSE SettingRow(a)]
      /\ UNCHANGED <<cache, up, config, torn>>
  BY <1>0 DEF WriteKey, CacheInv, Shapes
<1>5. save'[a] = s /\ \A b \in Admins : b # a => save'[b] = save[b]
  BY <1>1, <1>2, <1>4, Others
<1>6. Key(a) \in ToSet(save[a].left) /\ Key(a) \in Keys
  <2>1. Head(save[a].left) \in Keys
    BY <1>1
  <2> QED
    BY <1>1, <2>1, TailOf DEF Key
<1>7. /\ \A k \in Keys : k # Key(a) => table'[k] = table[k]
      /\ table'[Key(a)] = IF save[a].same THEN [table[Key(a)] EXCEPT !.by = a]
                          ELSE SettingRow(a)
  BY <1>1, <1>4, <1>6 DEF Shapes
<1>8. IsFilled(save[a].values) /\ ~config[a].saved
  BY <1>1 DEF SettingsFilled
<1>9. table'[Key(a)].by = a /\ table'[Key(a)].value # NoValue
  <2>1. CASE ~save[a].same
    <3>1. SettingRow(a).by = a /\ SettingRow(a).value = save[a].values[Key(a)]
      BY DEF SettingRow
    <3> QED
      BY <1>6, <1>7, <1>8, <2>1, <3>1 DEF IsFilled
  <2>2. CASE save[a].same
    <3>1. PICK row : row = [table[Key(a)] EXCEPT !.by = a]
      OBVIOUS
    <3>2. IsRow(table[Key(a)]) /\ table[Key(a)].value # NoValue
      BY <1>1, <1>6, <2>2 DEF Shapes, SavedInv, FoundSet
    <3>3. row.by = a /\ row.value # NoValue
      BY <3>1, <3>2 DEF IsRow
    <3> QED
      BY <1>7, <2>2, <3>1, <3>3
  <2> QED
    BY <2>1, <2>2
<1>10. SettingsFilled'
  <2>1. \A k \in Keys : IsSet(table'[k]) /\ IsSet(cache'[k])
    BY <1>1, <1>4, <1>7, <1>9 DEF SettingsFilled, IsSet
  <2> QED
    BY <1>1, <1>2, <1>3, <1>4, <1>8, <2>1, HandlerFilled
<1>11. ASSUME NEW b \in Admins, StoredOf(b)
       PROVE  StoredOf(b)'
  <2>1. CASE b # a
    BY <1>4, <1>5, <1>7, <1>9, <1>11, <2>1 DEF StoredOf, Keys
  <2>2. CASE b = a
    <3> SUFFICES ASSUME NEW k \in Keys \ torn, table'[k].by = a,
                        k \notin ToSet(save[a].left)
                 PROVE  cache[k] = table'[k] /\ cache[k] # NoSetting
      BY <1>2, <1>4, <1>5, <1>8, <2>2 DEF StoredOf, Keys
    <3>1. table'[k] = table[k]
      BY <1>6, <1>7
    <3> QED
      BY <1>1, <1>11, <2>2, <3>1 DEF StoredOf
  <2> QED
    BY <2>1, <2>2
<1>12. FoundSet'
  <2> SUFFICES ASSUME NEW b \in Admins, save'[b].at = "write", save'[b].same
               PROVE  table'[Key(b)'].value # NoValue
    BY DEF FoundSet
  <2>1. b # a /\ save'[b] = save[b] /\ Key(b)' = Key(b)
    BY <1>2, <1>5 DEF Key
  <2>2. Key(b) \in Keys
    <3>1. save[b].left # <<>> /\ save[b].left \in Seq(Keys)
      BY <1>1, <2>1 DEF SettingsFilled
    <3> QED
      BY <3>1 DEF Key
  <2>3. table[Key(b)].value # NoValue
    BY <2>1 DEF SavedInv, FoundSet
  <2> QED
    BY <1>7, <1>9, <2>1, <2>2, <2>3
<1> QED
  BY <1>10, <1>11, <1>12 DEF SavedInv

LEMMA FillSaved ==
  ASSUME CacheInv, SavedInv, NEW a \in Admins, CacheKey(a)
  PROVE  SavedInv'
<1>0. PICK s : s = [save[a] EXCEPT !.left = Tail(@),
                      !.at = IF Len(save[a].left) = 1 THEN "audit" ELSE "select"]
  OBVIOUS
<1>1. /\ IsHandler(save[a]) /\ save[a].at = "cache" /\ SettingsFilled /\ Shapes
      /\ save[a].left # <<>> /\ save[a].left \in Seq(Keys)
      /\ IsFilled(save[a].values) /\ ~config[a].saved
  BY DEF CacheInv, Shapes, SavedInv, SettingsFilled, CacheKey
<1>2. /\ s.at = IF Len(save[a].left) = 1 THEN "audit" ELSE "select"
      /\ s.left = Tail(save[a].left) /\ s.values = save[a].values
      /\ IsHandler(s)
  BY <1>0, <1>1 DEF IsHandler
<1>3. /\ s.left \in Seq(Keys) /\ (Len(save[a].left) = 1 <=> s.left = <<>>)
      /\ Key(a) \in Keys /\ ToSet(save[a].left) \subseteq {Key(a)} \cup ToSet(s.left)
  BY <1>1, <1>2, TailOf DEF Key
<1>4. IsBusy(s)
  BY <1>1, <1>2, <1>3 DEF IsBusy
<1>5. /\ save' = [save EXCEPT ![a] = s]
      /\ cache' = [cache EXCEPT ![Key(a)] = SettingRow(a)]
      /\ UNCHANGED <<table, up, config, torn>>
  BY <1>0 DEF CacheKey, Refreshed, CacheInv, Shapes
<1>6. save'[a] = s /\ \A b \in Admins : b # a => save'[b] = save[b]
  BY <1>1, <1>2, <1>5, Others
<1>7. /\ \A k \in Keys : k # Key(a) => cache'[k] = cache[k]
      /\ cache'[Key(a)] = SettingRow(a)
  BY <1>1, <1>3, <1>5 DEF Shapes
<1>8. SettingRow(a).by = a /\ SettingRow(a).value # NoValue
  BY <1>1, <1>3 DEF SettingRow, IsFilled
<1>9. Key(a) \notin torn => table[Key(a)] = SettingRow(a)
  BY <1>1, <1>3 DEF CacheInv, StillInTable
<1>10. SettingsFilled'
  <2>1. \A k \in Keys : IsSet(table'[k]) /\ IsSet(cache'[k])
    BY <1>1, <1>5, <1>7, <1>8 DEF SettingsFilled, IsSet
  <2> QED
    BY <1>1, <1>2, <1>4, <1>5, <2>1, HandlerFilled
<1>11. ASSUME NEW b \in Admins, StoredOf(b)
       PROVE  StoredOf(b)'
  <2>1. CASE b # a
    <3>1. \A k \in Keys \ torn : table[k].by = b => cache'[k] = cache[k]
      BY <1>7, <1>8, <1>9, <2>1
    <3> QED
      BY <1>5, <1>6, <1>11, <2>1, <3>1 DEF StoredOf, Keys
  <2>2. CASE b = a
    <3> SUFFICES ASSUME NEW k \in Keys \ torn, table[k].by = a,
                        k \notin ToSet(s.left)
                 PROVE  cache'[k] = table[k] /\ cache'[k] # NoSetting
      BY <1>1, <1>5, <1>6, <2>2 DEF StoredOf, Keys
    <3>1. CASE k = Key(a)
      BY <1>7, <1>8, <1>9, <3>1 DEF NoSetting
    <3>2. CASE k # Key(a)
      BY <1>1, <1>3, <1>7, <1>11, <2>2, <3>2 DEF StoredOf
    <3> QED
      BY <3>1, <3>2
  <2> QED
    BY <2>1, <2>2
<1>12. FoundSet'
  BY <1>2, <1>5, <1>6 DEF SavedInv, FoundSet, Key
<1> QED
  BY <1>10, <1>11, <1>12 DEF SavedInv

LEMMA AnswerSaved ==
  ASSUME CacheInv, SavedInv, NEW a \in Admins, SaveAnswered(a)
  PROVE  SavedInv'
<1>0. PICK c : c = [form |-> Served, saved |-> TRUE, clean |-> TRUE]
  OBVIOUS
<1>1. /\ save[a].at = "audit" /\ SettingsFilled /\ Shapes /\ up
      /\ save[a].left = <<>>
      /\ save' = [save EXCEPT ![a] = NoSave] /\ config' = [config EXCEPT ![a] = c]
      /\ UNCHANGED <<table, cache, up, torn>>
  BY <1>0 DEF CacheInv, SavedInv, DownIdle, SaveAnswered, Shown, SettingsFilled
<1>2. /\ c.form = Served /\ c.saved = TRUE /\ c.clean = TRUE
      /\ c = [form |-> c.form, saved |-> c.saved, clean |-> c.clean]
  BY <1>0
<1>3. Served = [k \in Keys |-> Served[k]] /\ IsFilled(Served)
  BY <1>1, SettingsAssumption DEF SettingsFilled, IsFilled, IsSet, Served
<1>4. IsPage(c)
  BY <1>2, <1>3 DEF IsPage
<1>5. /\ config'[a] = c /\ \A b \in Admins : b # a => config'[b] = config[b]
      /\ config' = [b \in Admins |-> config'[b]]
  BY <1>1 DEF SettingsFilled
<1>6. /\ save'[a].at = "idle" /\ save'[a].left = <<>>
      /\ \A b \in Admins : b # a => save'[b] = save[b]
  BY <1>1 DEF Shapes, NoSave
<1>7. SettingsFilled'
  <2>1. \A b \in Admins : IsPage(config[b])' <=> IsPage(config'[b])
    BY DEF IsPage, IsFilled, EmptyForm, Keys
  <2>2. \A b \in Admins : IsPage(config[b])'
    BY <1>1, <1>4, <1>5, <2>1 DEF SettingsFilled
  <2>3. \A k \in Keys' : IsSet(table[k])' /\ IsSet(cache[k])'
    BY <1>1 DEF SettingsFilled, IsSet, Keys
  <2>4. ASSUME NEW b \in Admins
        PROVE  /\ save'[b].left \in Seq(Keys)
               /\ save'[b].at # "idle" => IsFilled(save'[b].values) /\ ~config'[b].saved
               /\ save'[b].at = "audit" => save'[b].left = <<>>
               /\ save'[b].at \in {"select", "write", "cache"} => save'[b].left # <<>>
    <3>1. CASE b # a
      BY <1>1, <1>5, <1>6, <3>1 DEF SettingsFilled
    <3>2. CASE b = a
      <4>1. <<>> \in Seq(Keys)
        OBVIOUS
      <4> QED
        BY <1>6, <3>2, <4>1
    <3> QED
      BY <3>1, <3>2
  <2> QED
    BY <1>1, <1>5, <2>2, <2>3, <2>4 DEF SettingsFilled, IsFilled, Keys
<1>8. ASSUME NEW b \in Admins, StoredOf(b)
      PROVE  StoredOf(b)'
  <2>1. CASE b # a
    BY <1>1, <1>5, <1>6, <1>8, <2>1 DEF StoredOf, Keys
  <2>2. CASE b = a
    <3> SUFFICES ASSUME NEW k \in Keys \ torn, table[k].by = a
                 PROVE  Served[k] = table[k].value
      BY <1>1, <1>2, <1>5, <1>6, <2>2 DEF StoredOf, Keys
    <3>1. k \notin ToSet(save[a].left)
      BY <1>1 DEF ToSet
    <3>2. cache[k] = table[k] /\ cache[k] # NoSetting
      BY <1>1, <1>8, <2>2, <3>1 DEF StoredOf
    <3> QED
      BY <3>2 DEF Served
  <2> QED
    BY <2>1, <2>2
<1>9. FoundSet'
  BY <1>1, <1>6 DEF SavedInv, FoundSet, Key
<1> QED
  BY <1>7, <1>8, <1>9 DEF SavedInv

(* The server's stop and start: no handler is at work, no page is clean.   *)
LEMMA PowerSaved ==
  ASSUME CacheInv, SavedInv, Stop \/ Start
  PROVE  SavedInv'
<1>0. SettingsFilled /\ Shapes
  BY DEF CacheInv, SavedInv
<1>1. \A a \in Admins : save'[a].at = "idle" /\ save'[a].left \in Seq(Keys)
  <2>1. NoSave.at = "idle" /\ NoSave.left = <<>> /\ <<>> \in Seq(Keys)
    BY DEF NoSave
  <2>2. CASE Stop
    BY <2>1, <2>2 DEF Stop
  <2>3. CASE Start
    BY <1>0, <2>3 DEF Start, CacheInv, DownIdle, SettingsFilled
  <2> QED
    BY <2>2, <2>3
<1>2. /\ config' = [a \in Admins |-> config'[a]]
      /\ \A a \in Admins :
           config'[a] = [form |-> config[a].form, saved |-> config[a].saved,
                         clean |-> FALSE]
  <2>1. CASE Stop
    <3>1. config' = [a \in Admins |-> [config[a] EXCEPT !.clean = FALSE]]
      BY <2>1 DEF Stop
    <3>2. \A a \in Admins :
            config[a] = [form |-> config[a].form, saved |-> config[a].saved,
                         clean |-> config[a].clean]
      BY <1>0 DEF SettingsFilled, IsPage
    <3>3. ASSUME NEW a \in Admins
          PROVE  config'[a] = [form |-> config[a].form, saved |-> config[a].saved,
                               clean |-> FALSE]
      <4>1. PICK c : c = config[a]
        OBVIOUS
      <4>2. c = [form |-> c.form, saved |-> c.saved, clean |-> c.clean]
        BY <3>2, <4>1
      <4>3. PICK d : d = [c EXCEPT !.clean = FALSE]
        OBVIOUS
      <4>4. d = [form |-> c.form, saved |-> c.saved, clean |-> FALSE]
        BY <4>2, <4>3
      <4> QED
        BY <3>1, <4>1, <4>3, <4>4
    <3> QED
      BY <3>1, <3>3
  <2>2. CASE Start
    BY <1>0, <2>2 DEF Start, SettingsFilled, IsPage
  <2> QED
    BY <2>1, <2>2
<1>3. ASSUME NEW a \in Admins
      PROVE  IsPage(config[a])' /\ config'[a].clean = FALSE
  <2>1. IsPage(config[a])' <=> IsPage(config'[a])
    BY DEF IsPage, IsFilled, EmptyForm, Keys
  <2>2. PICK c : c = [form |-> config[a].form, saved |-> config[a].saved,
                      clean |-> FALSE]
    OBVIOUS
  <2>3. /\ c.form = config[a].form /\ c.saved = config[a].saved /\ c.clean = FALSE
        /\ c = [form |-> c.form, saved |-> c.saved, clean |-> c.clean]
    BY <2>2
  <2>4. IsPage(c)
    BY <1>0, <2>3 DEF SettingsFilled, IsPage
  <2> QED
    BY <1>2, <2>1, <2>2, <2>3, <2>4
<1>4. \A k \in Keys' : IsSet(table[k])' /\ IsSet(cache[k])'
  <2>1. IsSet(NoSetting)
    BY DEF IsSet
  <2> QED
    BY <1>0, <2>1 DEF Stop, Start, SettingsFilled, IsSet, Keys
<1>5. SettingsFilled'
  BY <1>1, <1>2, <1>3, <1>4 DEF SettingsFilled, Keys
<1>6. FoundSet'
  BY <1>1 DEF FoundSet
<1>7. \A a \in Admins : StoredOf(a)'
  BY <1>1, <1>3 DEF StoredOf
<1> QED
  BY <1>5, <1>6, <1>7 DEF SavedInv

LEMMA NextSaved == CacheInv /\ SavedInv /\ [SettingsNext]_settingsVars => SavedInv'
<1> SUFFICES ASSUME CacheInv, SavedInv, [SettingsNext]_settingsVars PROVE SavedInv'
  OBVIOUS
<1>1. CASE UNCHANGED settingsVars
  BY <1>1
     DEF settingsVars, SavedInv, SettingsFilled, FoundSet, StoredOf, IsSet, IsPage,
         IsFilled, EmptyForm, Key, Keys
<1> QED
  BY <1>1, LoadSaved, SaveSaved, FieldSaved, SelectSaved, WriteRowSaved, FillSaved,
     AnswerSaved, RefuseSaved, PowerSaved
     DEF SettingsNext

(* Under "Settings saved." a page shows what is stored for every key that  *)
(* its administrator was the last to set: the server went through all its  *)
(* keys, wrote each before it cached it, and answered from the cache.      *)
THEOREM SavedSafe == SettingsSpec => []SavedIsStored
<1>1. SavedInv => SavedIsStored
  BY DEF SavedInv, StoredOf, SavedIsStored
<1> QED
  BY <1>1, InitCache, NextCache, InitSaved, NextSaved, PTL DEF SettingsSpec

-----------------------------------------------------------------------------
(* What the validators let through for a key, in a row and in a payload.   *)
Lets(k, v) == v \in Values /\ (v = Zero => k \in ZeroKeys)

LetsRow(k, row) ==
  row = NoSetting \/ (row \in [value: Values, by: Admins \cup {NoValue}] /\ Lets(k, row.value))

LetsRows == \A k \in Keys : LetsRow(k, table[k]) /\ LetsRow(k, cache[k])

LetsPayloads ==
  \A a \in Admins : save[a].at # "idle" => \A k \in Keys : Lets(k, save[a].values[k])

Forms == [Keys -> Values \cup {Emptied, NoValue}]

LetsInv == LetsRows /\ LetsPayloads /\ \A a \in Admins : config[a].form \in Forms

(* What is served is a value of the form.                                  *)
LEMMA ServedForm == LetsRows => Served \in Forms
<1> SUFFICES ASSUME LetsRows, NEW k \in Keys
             PROVE  (IF cache[k] = NoSetting THEN Default ELSE cache[k].value) \in Values
  BY DEF Served, Forms
<1> QED
  BY SettingsAssumption DEF LetsRows, LetsRow, Lets

(* A handler that goes on with the payload it has.                         *)
LEMMA PayloadKept ==
  ASSUME Shapes, LetsPayloads, NEW a \in Admins, NEW s, IsHandler(s),
         save' = [save EXCEPT ![a] = s],
         s.at = "idle" \/ (save[a].at # "idle" /\ s.values = save[a].values)
  PROVE  LetsPayloads'
<1>1. save'[a] = s /\ \A b \in Admins : b # a => save'[b] = save[b]
  BY Others
<1> QED
  BY <1>1 DEF LetsPayloads, Keys, Lets

LEMMA NextLets ==
  CacheInv /\ SavedInv /\ LetsInv /\ [SettingsNext]_settingsVars => LetsInv'
<1> SUFFICES ASSUME CacheInv, SavedInv, LetsInv, [SettingsNext]_settingsVars
             PROVE  LetsInv'
  OBVIOUS
<1> USE SettingsAssumption
<1>0. /\ Shapes /\ SettingsFilled /\ FoundSet /\ LetsRows /\ LetsPayloads
      /\ config = [a \in Admins |-> config[a]]
      /\ \A a \in Admins : /\ config[a].form \in Forms /\ IsHandler(save[a])
                           /\ IsPage(config[a])
  BY DEF CacheInv, SavedInv, LetsInv, Shapes, SettingsFilled
<1>1. ASSUME NEW a \in Admins, LoadConfig(a) PROVE LetsInv'
  <2>1. PICK c : c = [config[a] EXCEPT !.form = Served]
    OBVIOUS
  <2>2. c.form \in Forms
    BY <1>0, <2>1, ServedForm DEF IsPage
  <2>3. config' = [config EXCEPT ![a] = c]
    BY <1>1, <2>1 DEF LoadConfig
  <2>4. \A b \in Admins : config'[b].form \in Forms
    BY <1>0, <2>2, <2>3
  <2> QED
    BY <1>0, <1>1, <2>4
    DEF LoadConfig, LetsInv, LetsRows, LetsPayloads, Forms, Keys, LetsRow, Lets
<1>2. ASSUME NEW a \in Admins, SaveConfig(a) PROVE LetsInv'
  <2>1. PICK c : c = [config[a] EXCEPT !.saved = FALSE, !.clean = TRUE]
    OBVIOUS
  <2>2. PICK s : s = [NoSave EXCEPT !.at = "select", !.left = KeyOrder,
                                    !.values = Payload(config[a].form)]
    OBVIOUS
  <2>0. c.form = config[a].form
    BY <1>0, <2>1 DEF IsPage
  <2>3. /\ c.form = config[a].form /\ config' = [config EXCEPT ![a] = c]
        /\ config[a].form # EmptyForm
        /\ \/ save' = [save EXCEPT ![a] = s] /\ Valid(Payload(config[a].form))
           \/ save' = save
    BY <1>2, <2>0, <2>1, <2>2 DEF SaveConfig
  <2>4. \A b \in Admins : config'[b].form \in Forms
    BY <1>0, <2>3
  <2>5. \A k \in Keys : config[a].form[k] \in Values \cup {Emptied}
    <3>1. IsFilled(config[a].form)
      BY <1>0, <2>3 DEF IsPage
    <3>2. config[a].form \in Forms
      BY <1>0
    <3> QED
      BY <3>1, <3>2 DEF Forms, IsFilled
  <2>6. \A k \in Keys : Payload(config[a].form)[k] \in Values
    BY <2>5 DEF Payload
  <2>7. ASSUME save' = [save EXCEPT ![a] = s], Valid(Payload(config[a].form))
        PROVE  LetsPayloads'
    <3>1. s.values = Payload(config[a].form)
      BY <2>2 DEF NoSave
    <3>2. \A k \in Keys : Lets(k, s.values[k])
      BY <2>6, <2>7, <3>1 DEF Lets, Valid
    <3>3. save'[a] = s /\ \A b \in Admins : b # a => save'[b] = save[b]
      BY <1>0, <2>7 DEF Shapes
    <3> QED
      BY <1>0, <3>2, <3>3 DEF LetsPayloads, Keys, Lets
  <2>8. LetsPayloads'
    BY <1>0, <2>3, <2>7 DEF LetsPayloads, Keys, Lets
  <2> QED
    BY <1>0, <1>2, <2>4, <2>8
    DEF SaveConfig, LetsInv, LetsRows, Forms, Keys, LetsRow, Lets
<1>3. ASSUME NEW a \in Admins, NEW k \in Keys, NEW v \in Typed, SetField(a, k, v)
      PROVE  LetsInv'
  <2>1. PICK c : c = [config[a] EXCEPT !.form[k] = v, !.clean = FALSE]
    OBVIOUS
  <2>2. c.form = [config[a].form EXCEPT ![k] = v]
    BY <1>0, <2>1 DEF IsPage
  <2>3. c.form \in Forms
    BY <1>0, <2>2 DEF Forms
  <2>4. config' = [config EXCEPT ![a] = c]
    BY <1>0, <1>3, <2>1 DEF SetField
  <2>5. \A b \in Admins : config'[b].form \in Forms
    BY <1>0, <2>3, <2>4
  <2> QED
    BY <1>0, <1>3, <2>5
    DEF SetField, LetsInv, LetsRows, LetsPayloads, Forms, Keys, LetsRow, Lets
<1>4. ASSUME NEW a \in Admins, SelectKey(a) \/ SaveRefused(a) PROVE LetsInv'
  <2>1. PICK s : /\ IsHandler(s) /\ save' = [save EXCEPT ![a] = s]
                 /\ \/ s.at = "idle"
                    \/ save[a].at # "idle" /\ s.values = save[a].values
    <3>1. CASE SelectKey(a)
      <4> DEFINE s == [save[a] EXCEPT !.at = "write",
                         !.same = table[Key(a)].value = SettingRow(a).value]
      <4>1. save' = [save EXCEPT ![a] = s] /\ save[a].at = "select"
        BY <3>1 DEF SelectKey
      <4>2. IsHandler(s) /\ s.values = save[a].values
        BY <1>0 DEF IsHandler
      <4> QED
        BY <4>1, <4>2
    <3>2. CASE SaveRefused(a)
      <4>1. IsHandler(NoSave) /\ NoSave.at = "idle"
        BY DEF NoSave, IsHandler
      <4> QED
        BY <3>2, <4>1 DEF SaveRefused
    <3> QED
      BY <1>4, <3>1, <3>2
  <2>2. LetsPayloads'
    BY <1>0, <2>1, PayloadKept
  <2> QED
    BY <1>0, <1>4, <2>2
    DEF SelectKey, SaveRefused, LetsInv, LetsRows, Forms, Keys, LetsRow, Lets
<1>5. ASSUME NEW a \in Admins, WriteKey(a) \/ CacheKey(a) PROVE LetsInv'
  <2>1. /\ save[a].at \in {"write", "cache"} /\ Key(a) \in Keys
        /\ UNCHANGED config
    BY <1>0, <1>5 DEF WriteKey, CacheKey, Key, SettingsFilled
  <2>2. LetsRow(Key(a), SettingRow(a))
    BY <1>0, <2>1 DEF LetsPayloads, LetsRow, SettingRow, Lets
  <2>3. LetsPayloads'
    <3>1. PICK s : IsHandler(s) /\ save' = [save EXCEPT ![a] = s]
                   /\ s.values = save[a].values
      <4>1. CASE WriteKey(a)
        <5> DEFINE s == [save[a] EXCEPT !.at = "cache"]
        <5>1. save' = [save EXCEPT ![a] = s]
          BY <4>1 DEF WriteKey
        <5>2. IsHandler(s) /\ s.values = save[a].values
          BY <1>0 DEF IsHandler
        <5> QED
          BY <5>1, <5>2
      <4>2. CASE CacheKey(a)
        <5> DEFINE s == [save[a] EXCEPT !.left = Tail(save[a].left),
                           !.at = IF Len(save[a].left) = 1 THEN "audit" ELSE "select"]
        <5>1. save' = [save EXCEPT ![a] = s]
          BY <4>2 DEF CacheKey
        <5>2. IsHandler(s) /\ s.values = save[a].values
          BY <1>0 DEF IsHandler
        <5> QED
          BY <5>1, <5>2
      <4> QED
        BY <1>5, <4>1, <4>2
    <3> QED
      BY <1>0, <2>1, <3>1, PayloadKept
  <2>4. CASE WriteKey(a)
    <3>1. PICK row : /\ row = IF save[a].same THEN [table[Key(a)] EXCEPT !.by = a]
                              ELSE SettingRow(a)
      OBVIOUS
    <3>2. LetsRow(Key(a), row)
      <4>1. ASSUME save[a].same PROVE LetsRow(Key(a), row)
        <5>1. table[Key(a)] # NoSetting
          BY <1>0, <2>4, <4>1 DEF FoundSet, WriteKey, NoSetting
        <5> QED
          BY <1>0, <2>1, <3>1, <4>1, <5>1 DEF LetsRows, LetsRow, Lets
      <4> QED
        BY <2>2, <3>1, <4>1
    <3>3. table' = [table EXCEPT ![Key(a)] = row] /\ UNCHANGED cache
      BY <2>4, <3>1 DEF WriteKey
    <3>4. \A k \in Keys : LetsRow(k, table'[k]) /\ LetsRow(k, cache'[k])
      BY <1>0, <3>2, <3>3 DEF LetsRows, Shapes
    <3> QED
      BY <1>0, <2>1, <2>3, <3>4 DEF LetsInv, LetsRows, Forms, Keys, LetsRow, Lets
  <2>5. CASE CacheKey(a)
    <3>1. cache' = [cache EXCEPT ![Key(a)] = SettingRow(a)] /\ UNCHANGED table
      BY <2>5 DEF CacheKey, Refreshed
    <3>2. \A k \in Keys : LetsRow(k, table'[k]) /\ LetsRow(k, cache'[k])
      BY <1>0, <2>2, <3>1 DEF LetsRows, Shapes
    <3> QED
      BY <1>0, <2>1, <2>3, <3>2 DEF LetsInv, LetsRows, Forms, Keys, LetsRow, Lets
  <2> QED
    BY <1>5, <2>4, <2>5
<1>6. ASSUME NEW a \in Admins, SaveAnswered(a) PROVE LetsInv'
  <2>1. PICK c : c = [form |-> Served, saved |-> TRUE, clean |-> TRUE]
    OBVIOUS
  <2>2. c.form \in Forms /\ config' = [config EXCEPT ![a] = c]
    BY <1>0, <1>6, <2>1, ServedForm DEF SaveAnswered, Shown
  <2>3. \A b \in Admins : config'[b].form \in Forms
    BY <1>0, <2>2
  <2>4. IsHandler(NoSave) /\ NoSave.at = "idle" /\ save' = [save EXCEPT ![a] = NoSave]
    BY <1>6 DEF SaveAnswered, NoSave, IsHandler
  <2>5. LetsPayloads'
    BY <1>0, <2>4, PayloadKept
  <2> QED
    BY <1>0, <1>6, <2>3, <2>5
    DEF SaveAnswered, LetsInv, LetsRows, Forms, Keys, LetsRow, Lets
<1>7. CASE Stop \/ Start
  <2>1. ASSUME NEW a \in Admins PROVE config'[a].form = config[a].form
    <3>1. config'[a] = [config[a] EXCEPT !.clean = FALSE] \/ config'[a] = config[a]
      BY <1>7 DEF Stop, Start
    <3> QED
      BY <1>0, <3>1 DEF IsPage
  <2>2. LetsPayloads'
    BY <1>0, <1>7 DEF Stop, Start, NoSave, LetsPayloads, Keys, Lets
  <2>3. \A k \in Keys : LetsRow(k, table'[k]) /\ LetsRow(k, cache'[k])
    BY <1>0, <1>7 DEF Stop, Start, LetsRows, LetsRow
  <2> QED
    BY <1>0, <2>1, <2>2, <2>3 DEF LetsInv, LetsRows, Forms, Keys, LetsRow, Lets
<1>8. CASE UNCHANGED settingsVars
  BY <1>0, <1>8
  DEF settingsVars, LetsInv, LetsRows, LetsPayloads, Forms, Keys, LetsRow, Lets
<1> QED
  BY <1>1, <1>2, <1>3, <1>4, <1>5, <1>6, <1>7, <1>8 DEF SettingsNext

(* No value that the validators refuse for its key reaches the table or is *)
(* served, whichever handlers write it, and whatever the page was filled   *)
(* with before.                                                            *)
THEOREM RefusedNeverServed == SettingsSpec => []SettingsTypeOK
<1>1. SettingsInit => LetsInv
  BY DEF SettingsInit, LetsInv, LetsRows, LetsRow, LetsPayloads, NoSave, Forms, EmptyForm
<1>2. CacheInv /\ LetsInv => SettingsTypeOK
  <2> SUFFICES ASSUME CacheInv, LetsInv PROVE SettingsTypeOK
    OBVIOUS
  <2>1. table \in [Keys -> Rows] /\ cache \in [Keys -> Rows]
    BY DEF CacheInv, Shapes, LetsInv, LetsRows, LetsRow, Rows
  <2>2. ASSUME NEW k \in Keys, Zero \in {table[k].value, Served[k]}
        PROVE  k \in ZeroKeys
    <3>1. /\ LetsRow(k, table[k]) /\ LetsRow(k, cache[k])
          /\ Served[k] = IF cache[k] = NoSetting THEN Default ELSE cache[k].value
          /\ NoSetting.value = NoValue
      BY DEF LetsInv, LetsRows, Served, NoSetting
    <3>2. Default # Zero /\ NoValue # Zero
      <4>1. Zero \in Values
        BY SettingsAssumption
      <4>2. Default # Zero
        BY SettingsAssumption, Zenon
      <4>3. NoValue \notin Values
        BY SettingsAssumption
      <4> QED
        BY <4>1, <4>2, <4>3, Zenon
    <3>3. \A row : LetsRow(k, row) /\ row.value = Zero => k \in ZeroKeys
      BY <3>1, <3>2, Zenon DEF LetsRow, Lets
    <3> QED
      BY <2>2, <3>1, <3>2, <3>3
  <2>3. \A a \in Admins : save[a].at \in {"idle", "select", "write", "cache", "audit"}
    BY DEF CacheInv, Shapes, IsHandler
  <2> QED
    BY <2>1, <2>2, <2>3 DEF SettingsTypeOK, LetsInv, Forms
<1> QED
  BY <1>1, <1>2, InitCache, NextCache, InitSaved, NextSaved, NextLets, PTL
  DEF SettingsSpec
=============================================================================
