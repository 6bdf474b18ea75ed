----------------------------- MODULE SettingsCache -----------------------------
(***************************************************************************)
(* What Redis keeps of a company's entitlements and policies for five      *)
(* minutes: platform/licensing/feature-cache.service.ts and                *)
(* engines/policy/policy.service.ts.  A reader that misses reads the       *)
(* database and fills the cache in a later call; a writer commits and then *)
(* deletes the key.                                                        *)
(***************************************************************************)
EXTENDS Requests

CONSTANTS
  Settings,       \* the values the plan's features, or a policy, may have
  Ttl,            \* of a key, in units of the clock
  LastTime        \* bound on the clock

ASSUME SettingsAssumption == Settings # {} /\ Ttl \in Nat /\ LastTime \in Nat

VARIABLES
  setting,        \* what the database has
  cached,         \* the key, or NoKey; late: its reader had read an earlier value
  quiet,          \* a change was committed whose writer left the key alone
  now

settingsTables == <<setting, cached, quiet, now>>
settingsVars == <<settingsTables, call>>

NoKey == [value |-> "none", expires |-> 0, late |-> FALSE]
SettingCall == [op : {"fill"}, doc : {"key"}, read : Settings]
               \cup [op : {"change"}, doc : {"key"}]
               \cup [op : {"del"}, doc : {"key"}]

SettingsInit ==
  /\ setting = CHOOSE v \in Settings : TRUE
  /\ cached = NoKey
  /\ quiet = FALSE
  /\ now = 0
  /\ CallsInit

(* A miss; a hit returns what is cached and changes nothing. *)
Miss(u) ==
  /\ cached = NoKey
  /\ Enter(u, [op |-> "fill", doc |-> "key", read |-> setting])
  /\ UNCHANGED settingsTables

Fill(u) ==
  /\ call[u].op = "fill"
  /\ cached' = [value |-> call[u].read, expires |-> now + Ttl, late |-> call[u].read # setting]
  /\ Leave(u)
  /\ UNCHANGED <<setting, quiet, now>>

(* The trial's expiry and conversion, a renewal by the administrator, and  *)
(* most writes of a subscription's status delete no key.                   *)
ChangeQuietly(v) ==
  /\ setting' = v
  /\ quiet' = (quiet \/ cached # NoKey)
  /\ UNCHANGED <<cached, now, call>>

StartChange(u) ==
  /\ Enter(u, [op |-> "change", doc |-> "key"])
  /\ UNCHANGED settingsTables

CommitChange(u, v) ==
  /\ call[u].op = "change"
  /\ setting' = v
  /\ Proceed(u, [op |-> "del", doc |-> "key"])
  /\ UNCHANGED <<cached, quiet, now>>

(* Mutant: a change leaves the key alone. *)
DeleteKey_Not(u) ==
  /\ call[u].op = "del"
  /\ Leave(u)
  /\ UNCHANGED settingsTables

DeleteKey(u) ==
  /\ call[u].op = "del"
  /\ cached' = NoKey
  /\ quiet' = FALSE
  /\ Leave(u)
  /\ UNCHANGED <<setting, now>>

(* Redis drops the key when its time has come. *)
Expire ==
  /\ now < LastTime
  /\ now' = now + 1
  /\ cached' = IF cached # NoKey /\ cached.expires <= now + 1 THEN NoKey ELSE cached
  /\ quiet' = (quiet /\ cached' # NoKey)
  /\ UNCHANGED <<setting, call>>

(* A writer that dies after its commit deletes nothing. *)
SettingFails(u) ==
  /\ Fails(u)
  /\ quiet' = (quiet \/ (call[u].op = "del" /\ cached # NoKey))
  /\ UNCHANGED <<setting, cached, now>>

SettingsNext ==
  \/ Expire
  \/ \E v \in Settings \ {setting} : ChangeQuietly(v)
  \/ \E u \in Users :
       \/ Miss(u) \/ Fill(u) \/ StartChange(u) \/ DeleteKey(u) \/ SettingFails(u)
       \/ \E v \in Settings \ {setting} : CommitChange(u, v)

SettingsSpec == SettingsInit /\ [][SettingsNext]_settingsVars

-----------------------------------------------------------------------------
SettingsTypeOK ==
  /\ setting \in Settings /\ now \in 0..LastTime
  /\ cached = NoKey \/ cached \in [value : Settings, expires : 0..LastTime + Ttl, late : BOOLEAN]
  /\ quiet \in BOOLEAN
  /\ call \in [Users -> SettingCall \cup {NoCall}]

(* A change is seen once it is done.  What the cache holds of an older     *)
(* value, it holds while the change is still to delete the key, or because *)
(* it was never going to or died, or because a reader that had read the    *)
(* database before filled the cache after: until the key expires.          *)
ChangeIsSeen ==
  cached # NoKey /\ cached.value # setting
    => cached.late \/ quiet \/ \E u \in Users : call[u].op = "del"
=============================================================================
