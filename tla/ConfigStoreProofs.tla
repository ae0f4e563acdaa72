--------------------------- MODULE ConfigStoreProofs ---------------------------
(***************************************************************************)
(* Proofs about ConfigStore, for any number of values of each setting and  *)
(* whatever fails.                                                         *)
(***************************************************************************)
EXTENDS ConfigStore, TLAPS

\* What waits to be saved names a network and a broker.
PendingIsComplete ==
  \A u \in Updater : update[u].pc = "save" =>
    update[u].cfg["wifi"] # 0 /\ update[u].cfg["mqtt"] # 0

\* What NVS has to hold once the device is configured, or was at its start: in
\* normal mode the flag is set by every save, even after it was cleared.
Complete == early \/ (nvs["wifi"] # 0 /\ nvs["mqtt"] # 0)
StoredIsComplete == nvs["configured"] = 1 \/ mode = "normal" => Complete

IInv == /\ TypeOK /\ PendingIsComplete /\ StoredIsComplete
        /\ DaliKeysKept /\ SettingsStored

-------------------------------------------------------------------------------

LEMMA KeysApart ==
  /\ Setting \subseteq Key /\ DaliKey \subseteq Key /\ "configured" \in Key
  /\ DaliKey \cap Setting = {} /\ "configured" \notin DaliKey \cup Setting
  /\ "wifi" \in Setting /\ "mqtt" \in Setting /\ "sys" \in Setting
BY DaliKeyAssumption DEF Setting, Key

\* An entry of a configuration replaced by a value in its range.
LEMMA ConfigExcept ==
  ASSUME NEW cfg \in Config, NEW k \in Key, NEW v \in Nat, v <= Last[k]
  PROVE  [cfg EXCEPT ![k] = v] \in Config
BY DEF Config

LEMMA WrittenType ==
  ASSUME NEW cfg \in Config, NEW keys, nvs \in Config
  PROVE  Written(cfg, keys) \in Config
BY DEF Config, Written

LEMMA FlaggedType ==
  ASSUME NEW cfg, NEW contents \in Config
  PROVE  /\ Flagged(cfg, contents) \in Config
         /\ \A k \in Key \ {"configured"} :
              Flagged(cfg, contents)[k] = contents[k]
<1>1. [contents EXCEPT !["configured"] = 1] \in Config
  BY KeysApart, ConfigExcept, LastAssumption
<1>2. contents \in [Key -> Nat]
  BY DEF Config
<1> QED BY <1>1, <1>2 DEF Flagged

\* What every save does to the cache and to NVS.
LEMMA Saving ==
  ASSUME nvs \in Config, cache \in Config, failed \in BOOLEAN,
         NEW cfg \in Config, NEW ok \in BOOLEAN,
         NEW keys \in SUBSET Key, NEW prefixes \in SUBSET SUBSET keys,
         ProcessConfigUpdate(cfg, keys, prefixes, ok)
  PROVE  /\ nvs' \in Config /\ cache' \in Config /\ failed' \in BOOLEAN
         /\ \A k \in Key \ {"configured"} :
              nvs'[k] = nvs[k] \/ (k \in keys /\ nvs'[k] = cfg[k])
         /\ ~failed' =>
              /\ ~failed /\ \A k \in Key \ {"configured"} : cache'[k] = cfg[k]
              /\ \A k \in keys \ {"configured"} : nvs'[k] = cfg[k]
         /\ "configured" \notin keys /\ nvs'["configured"] # nvs["configured"]
              => \A k \in keys : nvs'[k] = cfg[k]
<1> DEFINE W(done) == Written(cfg, done)
<1>1. \A done : W(done) \in Config
  BY WrittenType
<1>2. \A done : \A k \in Key :
        W(done)[k] = IF k \in done THEN cfg[k] ELSE nvs[k]
  BY DEF Written
<1>3. [cfg EXCEPT !["configured"] = 1] \in Config
  BY KeysApart, ConfigExcept, LastAssumption
<1>4. \A k \in Key \ {"configured"} :
        [cfg EXCEPT !["configured"] = 1][k] = cfg[k]
  BY DEF Config
<1>5. /\ Flagged(cfg, W(keys)) \in Config
      /\ \A k \in Key \ {"configured"} : Flagged(cfg, W(keys))[k] = W(keys)[k]
  BY <1>1, FlaggedType
<1> HIDE DEF W
<1>6. CASE /\ ~ok
           /\ \E done \in prefixes \ {keys} : nvs' = W(done) /\ cache' = cfg
           /\ failed' = TRUE
  <2>1. PICK done \in prefixes \ {keys} : nvs' = W(done) /\ cache' = cfg
    BY <1>6
  <2>2. done \subseteq keys
    BY <2>1
  <2>3. "configured" \notin keys => nvs'["configured"] = nvs["configured"]
    BY <2>1, <2>2, <1>2, KeysApart
  <2> QED BY <1>1, <1>2, <1>6, <2>1, <2>2, <2>3
<1>7. CASE /\ cache' = [cfg EXCEPT !["configured"] = 1]
           /\ nvs' \in {W(keys), Flagged(cfg, W(keys))}
           /\ failed' = (failed \/ ~ok)
  <2>1. nvs' \in Config
    BY <1>1, <1>5, <1>7
  <2>2. \A k \in Key \ {"configured"} : nvs'[k] = W(keys)[k]
    BY <1>5, <1>7
  <2>3. cache' \in Config /\ \A k \in Key \ {"configured"} : cache'[k] = cfg[k]
    BY <1>3, <1>4, <1>7
  <2>4. failed' \in BOOLEAN /\ (~failed' => ~failed)
    BY <1>7
  <2> QED BY <1>2, <2>1, <2>2, <2>3, <2>4, KeysApart
<1>8. CASE ~ok /\ UNCHANGED <<nvs, cache>> /\ failed' = TRUE
  BY <1>8
<1>9. \/ ~ok /\ UNCHANGED <<nvs, cache>> /\ failed' = TRUE
      \/ /\ ~ok
         /\ \E done \in prefixes \ {keys} : nvs' = W(done) /\ cache' = cfg
         /\ failed' = TRUE
      \/ /\ cache' = [cfg EXCEPT !["configured"] = 1]
         /\ nvs' \in {W(keys), Flagged(cfg, W(keys))}
         /\ failed' = (failed \/ ~ok)
  BY DEF ProcessConfigUpdate, W
<1> QED BY <1>6, <1>7, <1>8, <1>9

\* A start from what is stored keeps the invariant.
LEMMA Loading ==
  ASSUME IInv, Load(nvs), UNCHANGED <<nvs, given, early, updates>>
  PROVE  IInv'
<1> USE DEF IInv
<1>1. nvs \in Config /\ nvs' = nvs /\ cache' = nvs /\ failed' = FALSE
      /\ given' = given /\ early' = early /\ updates' = updates
  BY DEF TypeOK, Load
<1>2. Quiet \in [pc : {"idle", "save", "apply"}, cfg : Config,
                 effect : {"none", "reload", "restart"}] /\ Quiet.pc = "idle"
  BY LastAssumption DEF Quiet, Config
<1>3. InForce(nvs) \in [{"wifi", "mqtt"} -> Nat]
  BY <1>1, KeysApart DEF InForce, Config
<1>4. ModeOf(nvs) \in {"normal", "provisioning"}
      /\ (ModeOf(nvs) = "normal" => nvs["configured"] = 1)
  BY DEF ModeOf
<1>5. TypeOK'
  <2>1. NoReload \in [pc : {"none", "due", "init"}, mqtt : Nat]
    BY DEF NoReload
  <2> QED BY <1>1, <1>2, <1>3, <1>4, <2>1 DEF TypeOK, Load
<1>6. PendingIsComplete'
  BY <1>2 DEF PendingIsComplete, Load
<1>7. StoredIsComplete'
  BY <1>1, <1>4 DEF StoredIsComplete, Complete, Load
<1>8. DaliKeysKept' /\ SettingsStored'
  BY <1>1, KeysApart DEF DaliKeysKept, SettingsStored
<1> QED BY <1>5, <1>6, <1>7, <1>8

\* A request that keeps within the bounds yields a configuration.
LEMMA EditedType ==
  ASSUME NEW cfg \in Config, NEW wifi \in 0 .. Last["wifi"],
         NEW mqtt \in 0 .. Last["mqtt"], NEW sys \in 0 .. Last["sys"]
  PROVE  Edited(cfg, wifi, mqtt, sys) \in Config
<1> DEFINE req == [wifi |-> wifi, mqtt |-> mqtt, sys |-> sys]
<1>1. \A k \in Setting : req[k] \in Nat /\ req[k] <= Last[k]
  BY LastAssumption, KeysApart DEF Setting
<1> HIDE DEF req
<1>2. Edited(cfg, wifi, mqtt, sys)
        = [k \in Key |-> IF k \in Setting /\ req[k] # 0 THEN req[k] ELSE cfg[k]]
  BY DEF Edited, req
<1> QED BY <1>1, <1>2 DEF Config

-------------------------------------------------------------------------------
(* The steps, one lemma each.                                              *)

LEMMA BeginUpdateStep ==
  ASSUME IInv, NEW u \in Updater, BeginUpdate(u)
  PROVE  IInv'
<1> USE DEF IInv
<1>1. PICK wifi \in 0 .. Last["wifi"], mqtt \in 0 .. Last["mqtt"],
           sys \in 0 .. Last["sys"] :
        LET cfg == Edited(cache, wifi, mqtt, sys) IN
        /\ cfg["wifi"] # 0 /\ cfg["mqtt"] # 0
        /\ update' = [update EXCEPT ![u] =
             [pc |-> "save", cfg |-> cfg, effect |-> Effect(cache, cfg)]]
  BY DEF BeginUpdate
<1> DEFINE cfg == Edited(cache, wifi, mqtt, sys)
<1>2. cfg \in Config
  BY EditedType DEF TypeOK
<1>3. Effect(cache, cfg) \in {"none", "reload", "restart"}
  BY DEF Effect
<1> HIDE DEF cfg
<1>4. /\ update' = [update EXCEPT ![u] =
           [pc |-> "save", cfg |-> cfg, effect |-> Effect(cache, cfg)]]
      /\ cfg["wifi"] # 0 /\ cfg["mqtt"] # 0
  BY <1>1 DEF cfg
<1>5. /\ UNCHANGED <<nvs, cache, mode, button, reload, newest, used, failed,
                     given, early>>
      /\ updates' \in Nat
  BY DEF BeginUpdate, reloadVars, TypeOK
<1>6. TypeOK'
  BY <1>2, <1>3, <1>4, <1>5 DEF TypeOK
<1>7. PendingIsComplete'
  BY <1>4 DEF PendingIsComplete, TypeOK
<1> QED BY <1>5, <1>6, <1>7
    DEF StoredIsComplete, Complete, DaliKeysKept, SettingsStored

LEMMA SaveUpdateStep ==
  ASSUME IInv, NEW u \in Updater, SaveUpdate(u)
  PROVE  IInv'
<1> USE DEF IInv
<1> DEFINE cfg == update[u].cfg
<1>1. PICK ok \in BOOLEAN :
        /\ SaveMainConfig(cfg, ok)
        /\ update' = [update EXCEPT ![u] =
             IF ok THEN [@ EXCEPT !.pc = "apply", !.cfg = Quiet.cfg] ELSE Quiet]
  BY DEF SaveUpdate, Outcome
<1>2. cfg \in Config /\ cfg["wifi"] # 0 /\ cfg["mqtt"] # 0
  BY DEF TypeOK, PendingIsComplete, SaveUpdate
<1>3. UNCHANGED <<mode, button, reload, newest, used, given, early, updates>>
  BY DEF SaveUpdate, history, reloadVars
<1>4. /\ nvs' \in Config /\ cache' \in Config /\ failed' \in BOOLEAN
      /\ \A k \in Key \ {"configured"} :
           nvs'[k] = nvs[k] \/ (k \in Setting /\ nvs'[k] = cfg[k])
      /\ ~failed' =>
           /\ ~failed /\ \A k \in Key \ {"configured"} : cache'[k] = cfg[k]
           /\ \A k \in Setting \ {"configured"} : nvs'[k] = cfg[k]
      /\ nvs'["configured"] # nvs["configured"] =>
           \A k \in Setting : nvs'[k] = cfg[k]
  <2>1. BasicPrefix \in SUBSET SUBSET Setting
    BY DEF BasicPrefix, Setting
  <2>2. nvs \in Config /\ cache \in Config /\ failed \in BOOLEAN
    BY DEF TypeOK
  <2>3. ProcessConfigUpdate(cfg, Setting, BasicPrefix, ok)
    BY <1>1 DEF SaveMainConfig
  <2> HIDE DEF cfg, IInv
  <2> QED BY <1>2, <2>1, <2>2, <2>3, KeysApart, Saving
<1>5. TypeOK' /\ PendingIsComplete'
  <2>1. Quiet \in [pc : {"idle", "save", "apply"}, cfg : Config,
                   effect : {"none", "reload", "restart"}] /\ Quiet.pc = "idle"
    BY LastAssumption DEF Quiet, Config
  <2>2. update[u] \in [pc : {"idle", "save", "apply"}, cfg : Config,
                       effect : {"none", "reload", "restart"}]
    BY DEF TypeOK
  <2> DEFINE new == IF ok THEN [update[u] EXCEPT !.pc = "apply", !.cfg = Quiet.cfg]
                    ELSE Quiet
  <2>3. new \in [pc : {"idle", "save", "apply"}, cfg : Config,
                 effect : {"none", "reload", "restart"}] /\ new.pc # "save"
    BY <2>1, <2>2
  <2>4. update' = [update EXCEPT ![u] = new]
    BY <1>1
  <2> HIDE DEF new
  <2> QED BY <1>3, <1>4, <2>3, <2>4 DEF TypeOK, PendingIsComplete
<1>6. StoredIsComplete'
  BY <1>2, <1>3, <1>4, KeysApart DEF StoredIsComplete, Complete
<1>7. DaliKeysKept'
  BY <1>3, <1>4, KeysApart DEF DaliKeysKept
<1>8. SettingsStored'
  BY <1>4, KeysApart DEF SettingsStored
<1> QED BY <1>5, <1>6, <1>7, <1>8

\* Steps that leave the cache and NVS alone.
LEMMA StartReloadStep ==
  ASSUME IInv, NEW u \in Updater, StartReload(u)
  PROVE  IInv'
<1> USE DEF IInv
<1>1. UNCHANGED <<nvs, cache, mode, button, used, failed, given, early, updates>>
  BY DEF StartReload, history
<1>2. Quiet \in [pc : {"idle", "save", "apply"}, cfg : Config,
                 effect : {"none", "reload", "restart"}] /\ Quiet.pc = "idle"
  BY LastAssumption DEF Quiet, Config
<1>3. update' = [update EXCEPT ![u] = Quiet]
  BY DEF StartReload
<1>4. /\ reload' \in [ReloadTask -> [pc : {"none", "due", "init"}, mqtt : Nat]]
      /\ newest' \in ReloadTask \cup {"done", "missed"}
  <2>1. CASE newest' = "missed" /\ UNCHANGED reload
    BY <2>1 DEF TypeOK
  <2>2. CASE /\ \E t \in ReloadTask : reload[t].pc = "none"
             /\ LET new == CHOOSE t \in ReloadTask : reload[t].pc = "none"
                IN  reload' = [reload EXCEPT ![new].pc = "due"]
             /\ UNCHANGED newest
    <3>1. PICK new \in ReloadTask : reload' = [reload EXCEPT ![new].pc = "due"]
      BY <2>2
    <3> QED BY <2>2, <3>1 DEF TypeOK
  <2> QED BY <2>1, <2>2 DEF StartReload
<1> QED BY <1>1, <1>2, <1>3, <1>4 DEF TypeOK, PendingIsComplete,
          StoredIsComplete, Complete, DaliKeysKept, SettingsStored

LEMMA ReloadStep ==
  ASSUME IInv, NEW t \in ReloadTask, ReloadSteps(t)
  PROVE  IInv'
<1> USE DEF IInv
<1>1. UNCHANGED <<nvs, cache, mode, update, button, failed, given, early, updates>>
  BY DEF ReloadSteps, CopyForReload, InitReload, history
<1>2. /\ reload' \in [ReloadTask -> [pc : {"none", "due", "init"}, mqtt : Nat]]
      /\ newest' \in ReloadTask \cup {"done", "missed"}
      /\ used' \in [{"wifi", "mqtt"} -> Nat]
  <2>1. CASE CopyForReload(t)
    <3>1. cache["mqtt"] \in Nat
      BY KeysApart DEF TypeOK, Config
    <3> QED BY <2>1, <3>1 DEF CopyForReload, TypeOK
  <2>2. CASE InitReload(t)
    <3>1. NoReload \in [pc : {"none", "due", "init"}, mqtt : Nat]
      BY DEF NoReload
    <3>2. reload[t].mqtt \in Nat
      BY DEF TypeOK
    <3> QED BY <2>2, <3>1, <3>2 DEF InitReload, TypeOK
  <2> QED BY <2>1, <2>2 DEF ReloadSteps
<1> QED BY <1>1, <1>2 DEF TypeOK, PendingIsComplete, StoredIsComplete, Complete,
          DaliKeysKept, SettingsStored

LEMMA SaveDaliKeyStep ==
  ASSUME IInv, NEW k \in DaliKey, SaveDaliKey(k)
  PROVE  IInv'
<1> USE DEF IInv
<1>1. PICK v \in 1 .. Last[k], ok \in BOOLEAN :
        ProcessConfigUpdate([cache EXCEPT ![k] = v], {k}, {{}, {k}}, ok)
  BY DEF SaveDaliKey, Outcome
<1> DEFINE cfg == [cache EXCEPT ![k] = v]
<1>2. cfg \in Config /\ \A s \in Key : s # k => cfg[s] = cache[s]
  <2>1. k \in Key /\ Last[k] \in Nat /\ v \in Nat /\ v <= Last[k]
    BY KeysApart, LastAssumption
  <2>2. cache \in Config
    BY DEF TypeOK
  <2> QED BY <2>1, <2>2, ConfigExcept DEF Config
<1> HIDE DEF cfg
<1>3. /\ nvs' \in Config /\ cache' \in Config /\ failed' \in BOOLEAN
      /\ \A s \in Key \ {"configured"} :
           nvs'[s] = nvs[s] \/ (s \in {k} /\ nvs'[s] = cfg[s])
      /\ ~failed' =>
           ~failed /\ \A s \in Key \ {"configured"} : cache'[s] = cfg[s]
  <2> DEFINE keys == {k}  prefixes == {{}, {k}}
  <2>1. keys \in SUBSET Key /\ prefixes \in SUBSET SUBSET keys
    BY KeysApart
  <2>2. nvs \in Config /\ cache \in Config /\ failed \in BOOLEAN
    BY DEF TypeOK
  <2>3. ProcessConfigUpdate(cfg, keys, prefixes, ok)
    BY <1>1 DEF cfg
  <2> HIDE DEF IInv, keys, prefixes
  <2>4. /\ nvs' \in Config /\ cache' \in Config /\ failed' \in BOOLEAN
        /\ \A s \in Key \ {"configured"} :
             nvs'[s] = nvs[s] \/ (s \in keys /\ nvs'[s] = cfg[s])
        /\ ~failed' =>
             ~failed /\ \A s \in Key \ {"configured"} : cache'[s] = cfg[s]
    BY <1>2, <2>1, <2>2, <2>3, Saving
  <2> QED BY <2>4 DEF keys
<1>4. /\ given' = [given EXCEPT ![k] = nvs'[k]]
      /\ early' = (early \/ mode = "provisioning")
      /\ UNCHANGED <<mode, update, button, reload, newest, used, updates>>
  BY DEF SaveDaliKey, reloadVars
<1>5. TypeOK'
  <2>1. nvs'[k] \in Nat
    BY <1>3, KeysApart DEF Config
  <2>2. given' \in [DaliKey -> Nat]
    BY <1>4, <2>1 DEF TypeOK
  <2>3. early' \in BOOLEAN
    BY <1>4
  <2> QED BY <1>3, <1>4, <2>2, <2>3 DEF TypeOK
<1>6. StoredIsComplete'
  <2>1. nvs'["wifi"] = nvs["wifi"] /\ nvs'["mqtt"] = nvs["mqtt"]
    BY <1>3, KeysApart
  <2>2. mode = "normal" \/ mode = "provisioning"
    BY DEF TypeOK
  <2> QED BY <1>4, <2>1, <2>2 DEF StoredIsComplete, Complete
<1>7. DaliKeysKept'
  <2>1. given \in [DaliKey -> Nat]
    BY DEF TypeOK
  <2> QED BY <1>3, <1>4, <2>1, KeysApart DEF DaliKeysKept
<1>8. SettingsStored'
  BY <1>2, <1>3, KeysApart DEF SettingsStored
<1>9. PendingIsComplete'
  BY <1>4 DEF PendingIsComplete
<1> QED BY <1>5, <1>6, <1>7, <1>8, <1>9

LEMMA ResetStep ==
  ASSUME IInv, ResetButtonTimerCallback
  PROVE  IInv'
<1> USE DEF IInv
<1> DEFINE cfg == [cache EXCEPT !["configured"] = 0]
<1>1. PICK ok \in BOOLEAN :
        /\ ProcessConfigUpdate(cfg, {"configured"}, {{}, {"configured"}}, ok)
        /\ button' = IF ok THEN "reset" ELSE "failed"
  BY DEF ResetButtonTimerCallback, Outcome
<1>2. cfg \in Config /\ \A s \in Key \ {"configured"} : cfg[s] = cache[s]
  <2>1. "configured" \in Key /\ 0 <= Last["configured"] /\ cache \in Config
    BY KeysApart, LastAssumption DEF TypeOK
  <2>2. cfg \in Config
    BY <2>1, ConfigExcept
  <2> QED BY <2>1, <2>2 DEF Config
<1> HIDE DEF cfg
<1>3. /\ nvs' \in Config /\ cache' \in Config /\ failed' \in BOOLEAN
      /\ \A s \in Key \ {"configured"} : nvs'[s] = nvs[s]
      /\ ~failed' =>
           ~failed /\ \A s \in Key \ {"configured"} : cache'[s] = cfg[s]
  <2>1. {"configured"} \in SUBSET Key
        /\ {{}, {"configured"}} \in SUBSET SUBSET {"configured"}
    BY KeysApart
  <2>2. nvs \in Config /\ cache \in Config /\ failed \in BOOLEAN
    BY DEF TypeOK
  <2> HIDE DEF IInv
  <2> QED BY <1>1, <1>2, <2>1, <2>2, Saving
<1>4. /\ UNCHANGED <<mode, update, reload, newest, used, given, early, updates>>
      /\ mode = "normal"
  BY DEF ResetButtonTimerCallback, history, reloadVars
<1>5. TypeOK' /\ PendingIsComplete'
  BY <1>1, <1>3, <1>4 DEF TypeOK, PendingIsComplete
<1>6. StoredIsComplete'
  BY <1>3, <1>4, KeysApart DEF StoredIsComplete, Complete
<1>7. DaliKeysKept' /\ SettingsStored'
  BY <1>2, <1>3, <1>4, KeysApart DEF DaliKeysKept, SettingsStored
<1> QED BY <1>5, <1>6, <1>7

-------------------------------------------------------------------------------

\* Each step keeps the invariant.
LEMMA IInvNext == IInv /\ [Next]_vars => IInv'
<1> SUFFICES ASSUME IInv, [Next]_vars PROVE IInv'
  OBVIOUS
<1>1. ASSUME NEW u \in Updater, BeginUpdate(u) PROVE IInv'
  BY <1>1, BeginUpdateStep
<1>2. ASSUME NEW u \in Updater, SaveUpdate(u) PROVE IInv'
  BY <1>2, SaveUpdateStep
<1>3. ASSUME NEW u \in Updater, StartReload(u) PROVE IInv'
  BY <1>3, StartReloadStep
<1>4. ASSUME NEW u \in Updater, RestartForUpdate(u) PROVE IInv'
  BY <1>4, Loading DEF RestartForUpdate, history
<1>5. ASSUME NEW k \in DaliKey, SaveDaliKey(k) PROVE IInv'
  BY <1>5, SaveDaliKeyStep
<1>6. CASE ResetButtonTimerCallback
  BY <1>6, ResetStep
<1>7. CASE RestartForReset \/ PowerLoss
  BY <1>7, Loading DEF RestartForReset, PowerLoss, history
<1>8. ASSUME NEW t \in ReloadTask, ReloadSteps(t) PROVE IInv'
  BY <1>8, ReloadStep
<1>9. CASE UNCHANGED vars
  BY <1>9 DEF vars, IInv, TypeOK, PendingIsComplete, StoredIsComplete, Complete,
    DaliKeysKept, SettingsStored
<1> QED BY <1>1, <1>2, <1>3, <1>4, <1>5, <1>6, <1>7, <1>8, <1>9
      DEF Next, UpdateSteps

LEMMA IInvInit == Init => IInv
<1> SUFFICES ASSUME Init PROVE IInv
  OBVIOUS
<1>1. nvs \in Config /\ \A k \in Key : nvs[k] = 0
  BY LastAssumption DEF Init, Config
<1>2. Quiet \in [pc : {"idle", "save", "apply"}, cfg : Config,
                 effect : {"none", "reload", "restart"}] /\ Quiet.pc = "idle"
  BY LastAssumption DEF Quiet, Config
<1>3. /\ cache = nvs /\ used = InForce(nvs) /\ mode = ModeOf(nvs)
      /\ update = [u \in Updater |-> Quiet] /\ button = "up"
      /\ reload = [t \in ReloadTask |-> NoReload] /\ newest = "done"
      /\ failed = FALSE /\ early = FALSE /\ updates = 0 /\ given = [k \in DaliKey |-> nvs[k]]
  BY DEF Init, StartedWith
<1>4. ModeOf(nvs) = "provisioning" /\ nvs["configured"] = 0
  BY <1>1, KeysApart DEF ModeOf
<1>5. InForce(nvs) \in [{"wifi", "mqtt"} -> Nat]
  BY <1>1, KeysApart DEF InForce, Config
<1>6. given \in [DaliKey -> Nat] /\ \A k \in DaliKey : nvs[k] = given[k]
  BY <1>1, <1>3, KeysApart
<1>7. TypeOK
  <2>1. NoReload \in [pc : {"none", "due", "init"}, mqtt : Nat]
    BY DEF NoReload
  <2> QED BY <1>1, <1>2, <1>3, <1>4, <1>5, <1>6, <2>1 DEF TypeOK
<1> QED BY <1>2, <1>3, <1>4, <1>6, <1>7 DEF IInv, PendingIsComplete,
      StoredIsComplete, DaliKeysKept, SettingsStored

THEOREM Invariant == Spec => []IInv
BY IInvInit, IInvNext, PTL DEF Spec

-------------------------------------------------------------------------------
(* Putting changes in force.                                               *)

\* Something comes that puts in force whatever is saved by then.
Coming ==
  \/ RestartDue
  \/ \E t \in ReloadTask : reload[t].pc = "due"
  \/ \E u \in Updater : update[u].pc = "apply" /\ update[u].effect = "reload"

\* An update that leads to a reload only has kept the network in use, unless a
\* restart is due anyway.
WifiAwaited ==
  /\ \A u \in Updater : update[u].pc = "save" =>
       update[u].effect \in {"reload", "restart"}
  /\ ~failed => \A u \in Updater :
       update[u].pc = "save" /\ update[u].effect = "reload" =>
         update[u].cfg["wifi"] = used["wifi"] \/ RestartDue
  /\ ~failed /\ used["wifi"] # cache["wifi"] => RestartDue

\* The reload that copied last has what is saved now, or something newer comes;
\* so it is with the client that it has created.
MqttAwaited ==
  /\ newest = "done" /\ ~failed /\ used["mqtt"] # cache["mqtt"] => Coming
  /\ \A t \in ReloadTask : newest = t =>
       /\ reload[t].pc = "init"
       /\ ~failed /\ reload[t].mqtt # cache["mqtt"] => Coming

Awaited == WifiAwaited /\ MqttAwaited

LEMMA AwaitedLoading ==
  ASSUME Load(nvs)
  PROVE  Awaited'
<1>1. \A u \in Updater : update'[u].pc = "idle"
  BY DEF Load, Quiet
<1>2. used'["wifi"] = cache'["wifi"] /\ used'["mqtt"] = cache'["mqtt"]
  BY DEF Load, InForce
<1>3. newest' = "done" /\ "done" \notin ReloadTask
  BY TaskAssumption DEF Load
<1> QED BY <1>1, <1>2, <1>3 DEF Awaited, WifiAwaited, MqttAwaited

LEMMA AwaitedBegin ==
  ASSUME IInv, Awaited, NEW u \in Updater, BeginUpdate(u)
  PROVE  Awaited'
<1>1. PICK wifi \in 0 .. Last["wifi"], mqtt \in 0 .. Last["mqtt"],
           sys \in 0 .. Last["sys"] :
        update' = [update EXCEPT ![u] =
          [pc |-> "save", cfg |-> Edited(cache, wifi, mqtt, sys),
           effect |-> Effect(cache, Edited(cache, wifi, mqtt, sys))]]
  BY DEF BeginUpdate
<1> DEFINE cfg == Edited(cache, wifi, mqtt, sys)
<1>2. /\ Effect(cache, cfg) \in {"reload", "restart"}
      /\ Effect(cache, cfg) = "reload" => cfg["wifi"] = cache["wifi"]
  BY DEF Effect
<1>3. update' = [update EXCEPT ![u] =
        [pc |-> "save", cfg |-> cfg, effect |-> Effect(cache, cfg)]]
  BY <1>1
<1> HIDE DEF cfg
<1>4. update[u].pc = "idle" /\ UNCHANGED <<cache, used, failed, reload, newest>>
  BY DEF BeginUpdate, reloadVars
<1>5. \A v \in Updater : update'[v] =
        IF v = u THEN [pc |-> "save", cfg |-> cfg, effect |-> Effect(cache, cfg)]
        ELSE update[v]
  BY <1>3 DEF IInv, TypeOK
<1>6. RestartDue' = RestartDue /\ Coming' = Coming
  BY <1>4, <1>5 DEF RestartDue, Coming
<1>7. WifiAwaited'
  BY <1>2, <1>4, <1>5, <1>6 DEF Awaited, WifiAwaited
<1>8. MqttAwaited'
  BY <1>4, <1>6 DEF Awaited, MqttAwaited
<1> QED BY <1>7, <1>8 DEF Awaited

LEMMA AwaitedSave ==
  ASSUME IInv, Awaited, NEW u \in Updater, SaveUpdate(u)
  PROVE  Awaited'
<1> DEFINE cfg == update[u].cfg
<1>1. PICK ok \in BOOLEAN :
        /\ SaveMainConfig(cfg, ok)
        /\ update' = [update EXCEPT ![u] =
             IF ok THEN [@ EXCEPT !.pc = "apply", !.cfg = Quiet.cfg] ELSE Quiet]
  BY DEF SaveUpdate, Outcome
<1>2. /\ update[u].pc = "save" /\ UNCHANGED <<used, reload, newest>>
      /\ cfg \in Config
  BY DEF SaveUpdate, IInv, TypeOK, reloadVars
<1>3. ~failed' => ~failed /\ cache'["wifi"] = cfg["wifi"]
  <2>1. /\ BasicPrefix \in SUBSET SUBSET Setting /\ nvs \in Config
        /\ cache \in Config /\ failed \in BOOLEAN
    BY DEF BasicPrefix, Setting, IInv, TypeOK
  <2>2. ProcessConfigUpdate(cfg, Setting, BasicPrefix, ok)
    BY <1>1 DEF SaveMainConfig
  <2> HIDE DEF cfg
  <2> QED BY <1>2, <2>1, <2>2, KeysApart, Saving
<1>4. ~failed' => ok
  BY <1>1 DEF SaveMainConfig, ProcessConfigUpdate
<1>5. \A v \in Updater : v # u => update'[v] = update[v]
  BY <1>1 DEF IInv, TypeOK
<1>6. update'[u].pc # "save"
  BY <1>1 DEF IInv, TypeOK, Quiet
<1>7. CASE failed'
  BY <1>2, <1>5, <1>6, <1>7 DEF Awaited, WifiAwaited, MqttAwaited
<1>8. CASE ~failed'
  <2>1. ok /\ ~failed
    BY <1>3, <1>4, <1>8
  <2>2. update[u].effect \in {"reload", "restart"}
    BY <1>2 DEF Awaited, WifiAwaited
  <2>3. update'[u].pc = "apply" /\ update'[u].effect = update[u].effect
    BY <1>1, <2>1 DEF IInv, TypeOK
  <2>4. RestartDue => RestartDue'
    BY <1>2, <1>5, <2>3 DEF RestartDue
  <2>5. update[u].effect = "restart" => RestartDue'
    BY <2>3 DEF RestartDue
  <2>6. update[u].effect = "reload" => cache'["wifi"] = used["wifi"] \/ RestartDue'
    BY <1>2, <1>3, <1>8, <2>1, <2>4 DEF Awaited, WifiAwaited
  <2>7. Coming'
    BY <2>2, <2>3, <2>5 DEF Coming
  <2>8. WifiAwaited'
    BY <1>2, <1>5, <1>6, <2>1, <2>2, <2>4, <2>5, <2>6 DEF Awaited, WifiAwaited
  <2>9. MqttAwaited'
    BY <1>2, <2>7 DEF Awaited, MqttAwaited
  <2> QED BY <2>8, <2>9 DEF Awaited
<1> QED BY <1>7, <1>8

LEMMA AwaitedStartReload ==
  ASSUME IInv, Awaited, NEW u \in Updater, StartReload(u)
  PROVE  Awaited'
<1>1. /\ UNCHANGED <<cache, used, failed>>
      /\ update[u].pc = "apply" /\ update[u].effect = "reload"
      /\ \A v \in Updater : update'[v] = IF v = u THEN Quiet ELSE update[v]
  BY DEF StartReload, IInv, TypeOK
<1>2. RestartDue' = RestartDue
  BY <1>1 DEF RestartDue, Quiet
<1>3. WifiAwaited'
  BY <1>1, <1>2 DEF Awaited, WifiAwaited, Quiet
<1>4. CASE newest' = "missed"
  BY <1>3, <1>4, TaskAssumption DEF Awaited, MqttAwaited
<1>5. CASE /\ \E t \in ReloadTask : reload[t].pc = "none"
           /\ LET new == CHOOSE t \in ReloadTask : reload[t].pc = "none"
              IN  reload' = [reload EXCEPT ![new].pc = "due"]
           /\ UNCHANGED newest
  <2>1. PICK new \in ReloadTask :
          reload[new].pc = "none" /\ reload' = [reload EXCEPT ![new].pc = "due"]
    BY <1>5
  <2>2. reload'[new].pc = "due" /\ \A t \in ReloadTask : t # new => reload'[t] = reload[t]
    BY <2>1 DEF IInv, TypeOK
  <2>3. Coming'
    BY <2>2 DEF Coming
  <2>4. MqttAwaited'
    BY <1>5, <2>1, <2>2, <2>3 DEF Awaited, MqttAwaited
  <2> QED BY <1>3, <2>4 DEF Awaited
<1> QED BY <1>4, <1>5 DEF StartReload

LEMMA AwaitedCopy ==
  ASSUME IInv, Awaited, NEW t \in ReloadTask, CopyForReload(t)
  PROVE  Awaited'
<1>1. UNCHANGED <<cache, used, failed, update>>
  BY DEF CopyForReload
<1>2. newest' = t /\ reload'[t] = [pc |-> "init", mqtt |-> cache["mqtt"]]
  BY DEF CopyForReload, IInv, TypeOK
<1>3. WifiAwaited'
  BY <1>1 DEF Awaited, WifiAwaited, RestartDue
<1>4. MqttAwaited'
  BY <1>1, <1>2, TaskAssumption DEF MqttAwaited
<1> QED BY <1>3, <1>4 DEF Awaited

LEMMA AwaitedInitReload ==
  ASSUME IInv, Awaited, NEW t \in ReloadTask, InitReload(t)
  PROVE  Awaited'
<1>1. /\ UNCHANGED <<cache, failed, update>> /\ reload[t].pc = "init"
      /\ used'["wifi"] = used["wifi"] /\ used'["mqtt"] = reload[t].mqtt
      /\ \A v \in ReloadTask : v # t => reload'[v] = reload[v]
  BY DEF InitReload, IInv, TypeOK
<1>2. RestartDue' = RestartDue /\ (Coming => Coming')
  BY <1>1 DEF RestartDue, Coming
<1>3. WifiAwaited'
  BY <1>1, <1>2 DEF Awaited, WifiAwaited
<1>4. CASE newest = t
  <2>1. newest' = "done"
    BY <1>4 DEF InitReload
  <2> QED BY <1>1, <1>2, <1>3, <1>4, <2>1, TaskAssumption
          DEF Awaited, MqttAwaited
<1>5. CASE newest \in ReloadTask \ {t}
  <2>1. newest' = newest
    BY <1>5 DEF InitReload
  <2> QED BY <1>1, <1>2, <1>3, <1>5, <2>1, TaskAssumption
          DEF Awaited, MqttAwaited
<1>6. CASE newest \notin ReloadTask
  <2>1. newest' = "missed"
    BY <1>6 DEF InitReload
  <2> QED BY <1>3, <2>1, TaskAssumption DEF Awaited, MqttAwaited
<1> QED BY <1>4, <1>5, <1>6

\* Names, groups and the flag: the settings in the cache do not change.
LEMMA AwaitedOther ==
  ASSUME IInv, Awaited,
         ResetButtonTimerCallback \/ \E k \in DaliKey : SaveDaliKey(k)
  PROVE  Awaited'
<1>1. \E k \in Key \ Setting : \E v, keys, prefixes, ok :
        ProcessConfigUpdate([cache EXCEPT ![k] = v], keys, prefixes, ok)
  BY KeysApart DEF ResetButtonTimerCallback, SaveDaliKey
<1>2. PICK k \in Key \ Setting : \E v, keys, prefixes, ok :
        ProcessConfigUpdate([cache EXCEPT ![k] = v], keys, prefixes, ok)
  BY <1>1
<1>3. PICK v, keys, prefixes, ok :
        ProcessConfigUpdate([cache EXCEPT ![k] = v], keys, prefixes, ok)
  BY <1>2
<1>4. /\ cache'["wifi"] = cache["wifi"] /\ cache'["mqtt"] = cache["mqtt"]
      /\ ~failed' => ~failed
  BY <1>3, KeysApart DEF ProcessConfigUpdate, IInv, TypeOK, Config
<1>5. UNCHANGED <<update, reload, newest, used>>
  BY DEF ResetButtonTimerCallback, SaveDaliKey, reloadVars
<1>6. RestartDue' = RestartDue /\ Coming' = Coming
  BY <1>5 DEF RestartDue, Coming
<1>7. WifiAwaited' /\ MqttAwaited'
  BY <1>4, <1>5, <1>6 DEF Awaited, WifiAwaited, MqttAwaited
<1> QED BY <1>7 DEF Awaited

LEMMA AwaitedNext == IInv /\ Awaited /\ [Next]_vars => Awaited'
<1>1. ASSUME Awaited, UNCHANGED vars PROVE Awaited'
  BY <1>1 DEF vars, Awaited, WifiAwaited, MqttAwaited, RestartDue, Coming
<1>2. ASSUME IInv, Awaited, NEW t \in ReloadTask, ReloadSteps(t) PROVE Awaited'
  BY <1>2, AwaitedCopy, AwaitedInitReload DEF ReloadSteps
<1>3. ASSUME IInv, Awaited, NEW u \in Updater, UpdateSteps(u) PROVE Awaited'
  BY <1>3, AwaitedSave, AwaitedStartReload, AwaitedLoading
    DEF UpdateSteps, RestartForUpdate
<1> QED BY <1>1, <1>2, <1>3, AwaitedLoading, AwaitedBegin, AwaitedOther
       DEF Next, RestartForReset, PowerLoss

\* Cache, NVS and what the tasks carry stay well typed.
THEOREM TypeCorrect == Spec => []TypeOK
<1>1. IInv => TypeOK
  BY DEF IInv
<1> QED BY <1>1, Invariant, PTL

\* No update saved from an older copy, failure or power loss takes back names
\* or group assignments in NVS.
THEOREM DaliKeysSurvive == Spec => []DaliKeysKept
<1>1. IInv => DaliKeysKept
  BY DEF IInv
<1> QED BY <1>1, Invariant, PTL

\* As long as no save fails, the cache shows the settings that are stored.
THEOREM CacheIsStored == Spec => []SettingsStored
<1>1. IInv => SettingsStored
  BY DEF IInv
<1> QED BY <1>1, Invariant, PTL

\* Whatever save fails, and wherever the power is lost, a device marked as
\* configured has a network and a broker.
THEOREM NormalModeIsUsable == Spec => []ConfiguredIsComplete
<1>1. IInv => ConfiguredIsComplete
  BY DEF IInv, StoredIsComplete, Complete, ConfiguredIsComplete
<1> QED BY <1>1, Invariant, PTL

\* However two updates and the reloads they start overlap, also when one update
\* undoes the other's changes: as long as no save fails, a new network has a
\* restart coming, and a new broker a restart or a reload that has copied it or
\* will; unless an older reload has come after a newer one, or one was not started.
THEOREM ChangesAreAwaited == Spec => []ChangesAwaited
<1>1. Init => Awaited
  <2>1. Init => \A u \in Updater : update[u].pc = "idle"
    BY DEF Init, StartedWith, Quiet
  <2>2. Init => used["wifi"] = cache["wifi"] /\ used["mqtt"] = cache["mqtt"]
    BY DEF Init, StartedWith, InForce
  <2>3. Init => newest = "done" /\ "done" \notin ReloadTask
    BY TaskAssumption DEF Init, StartedWith
  <2> QED BY <2>1, <2>2, <2>3 DEF Awaited, WifiAwaited, MqttAwaited
<1>2. IInv /\ Awaited => ChangesAwaited
  BY DEF IInv, TypeOK, Awaited, WifiAwaited, MqttAwaited, Coming, ChangesAwaited,
    ReloadDue
<1> QED BY <1>1, <1>2, AwaitedNext, Invariant, PTL DEF Spec

=============================================================================
