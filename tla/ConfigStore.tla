----------------------------- MODULE ConfigStore -----------------------------
(***************************************************************************)
(* The configuration: ConfigManager's cache and its copy in NVS, the two   *)
(* tasks that change it (the web server and the MQTT command task), the    *)
(* names and group assignments that are stored beside it, the BOOT button, *)
(* the tasks that reload the MQTT client, and restarts and power losses.   *)
(*                                                                         *)
(* Every saving method runs under config_mutex and is one action.  NVS     *)
(* keeps each key as it is written, so a failure, or a power loss between  *)
(* two writes, leaves a prefix of them behind.  An update is three steps:  *)
(* the configuration is copied, the edited copy is saved as a whole, and   *)
(* what has changed is put in force.  A reload is two steps more, in a     *)
(* task of its own: it copies the configuration, and creates the client    *)
(* anew from the copy.                                                     *)
(*                                                                         *)
(* The settings are grouped by what a change of them leads to: "wifi" (the *)
(* device restarts), "mqtt" (the client is reloaded), "sys" (the device    *)
(* restarts).                                                              *)
(***************************************************************************)
EXTENDS Naturals

CONSTANT DaliKey    \* "names", "groups" or both: what is stored beside the
                    \* settings

Setting == {"wifi", "mqtt", "sys"}
Key == Setting \cup DaliKey \cup {"configured"}

CONSTANTS
  Last,          \* bound: a key has the values 0 .. Last[key]; 0 is the
                 \* default, for a string the empty one
  ManyFailures,  \* bound: unless it is set, one save fails per start
  ReloadTask,    \* bound: reload tasks that exist at one time
  MaxUpdates     \* bound: updates that are begun

ASSUME DaliKeyAssumption == DaliKey \subseteq {"names", "groups"}
ASSUME FailureAssumption == ManyFailures \in BOOLEAN
ASSUME BoundAssumption == MaxUpdates \in Nat
ASSUME TaskAssumption == {"done", "missed"} \cap ReloadTask = {}
ASSUME LastAssumption == Last \in [Key -> Nat] /\ Last["configured"] = 1

Config == {cfg \in [Key -> Nat] : \A k \in Key : cfg[k] <= Last[k]}
Updater == {"web", "mqtt"}

VARIABLES
  nvs,       \* what is stored
  cache,     \* config_cache
  mode,      \* how the device was started: "normal" or "provisioning"
  update,    \* for each updater: where it is, its copy, what has changed
  button,    \* the BOOT button was held and a restart is due: "reset", or
             \* "failed" when the configuration could not be reset
  reload,    \* the reload tasks: where each is, the MQTT settings it copied
  used,      \* the network and the broker in use
  failed,    \* history: a save has failed since the start
  newest,    \* history: the reload that copied last, as long as it runs; then
             \* "done", or "missed" when an older one came after it, or when
             \* a reload task could not be created
  given,     \* history: what the last save of names, or of groups, left
  early,     \* history: names or groups were saved in provisioning mode
  updates    \* history: how many updates were begun

vars == <<nvs, cache, mode, update, button, reload, used, failed, newest, given,
          early, updates>>
history == <<given, early, updates>>
reloadVars == <<reload, newest>>

Quiet == [pc |-> "idle", cfg |-> [k \in Key |-> 0], effect |-> "none"]
NoReload == [pc |-> "none", mqtt |-> 0]
ModeOf(cfg) == IF cfg["configured"] = 1 THEN "normal" ELSE "provisioning"
InForce(cfg) == [s \in {"wifi", "mqtt"} |-> cfg[s]]

\* load, and app_main's choice of the mode, from an NVS with these contents.
StartedWith(contents) ==
  /\ cache = contents /\ mode = ModeOf(contents) /\ used = InForce(contents)
  /\ update = [u \in Updater |-> Quiet] /\ button = "up"
  /\ reload = [t \in ReloadTask |-> NoReload] /\ newest = "done"
  /\ failed = FALSE

Init ==
  /\ nvs = [k \in Key |-> 0] /\ StartedWith(nvs)
  /\ given = [k \in DaliKey |-> nvs[k]] /\ early = FALSE
  /\ updates = 0

Load(contents) ==
  /\ cache' = contents /\ mode' = ModeOf(contents)
  /\ used' = InForce(contents)
  /\ update' = [u \in Updater |-> Quiet] /\ button' = "up"
  /\ reload' = [t \in ReloadTask |-> NoReload] /\ newest' = "done"
  /\ failed' = FALSE

-------------------------------------------------------------------------------
(* ConfigManager: saving.                                                  *)

\* Whether a save succeeds.
Outcome == IF failed /\ ~ManyFailures THEN {TRUE} ELSE BOOLEAN

\* The keys of a save are written one by one; a failing write ends it.
BasicPrefix == {{}, {"wifi"}, {"wifi", "mqtt"}, Setting}
Written(cfg, keys) == [k \in Key |-> IF k \in keys THEN cfg[k] ELSE nvs[k]]

\* ensureConfiguredAndCommit: the flag, unless the cache says that it is set.
Flagged(cfg, contents) ==
  IF cfg["configured"] = 1 THEN contents
  ELSE [contents EXCEPT !["configured"] = 1]

\* Mutant: the flag is set before the settings are written.
ProcessConfigUpdateFlagFirst(cfg, keys, prefixes, ok) ==
  /\ cache' = [cfg EXCEPT !["configured"] = 1]
  /\ \/ ok /\ nvs' = Flagged(cfg, Written(cfg, keys))
     \/ /\ ~ok
        /\ \E done \in prefixes : nvs' = Flagged(cfg, Written(cfg, done))
  /\ failed' = (failed \/ ~ok)

\* processConfigUpdate: the cache becomes cfg, the keys are written, then the
\* flag, then all is committed; unless NVS cannot be opened.
ProcessConfigUpdate(cfg, keys, prefixes, ok) ==
  \/ ~ok /\ UNCHANGED <<nvs, cache>> /\ failed' = TRUE
  \/ /\ ~ok
     /\ \E done \in prefixes \ {keys} :
          nvs' = Written(cfg, done) /\ cache' = cfg
     /\ failed' = TRUE
  \/ /\ cache' = [cfg EXCEPT !["configured"] = 1]
     /\ \/ ok /\ nvs' = Flagged(cfg, Written(cfg, keys))
        \/ ~ok /\ nvs' \in {Written(cfg, keys),
                            Flagged(cfg, Written(cfg, keys))}
     /\ failed' = (failed \/ ~ok)

\* Mutant: names and groups are written as well, as save does, which nothing
\* calls.
SaveAll(cfg, ok) ==
  ProcessConfigUpdate(cfg, Setting \cup DaliKey,
                      BasicPrefix \cup {Setting \cup DaliKey}, ok)

\* saveMainConfig: the cache is replaced as a whole, names and groups with it;
\* these two are not written.
SaveMainConfig(cfg, ok) == ProcessConfigUpdate(cfg, Setting, BasicPrefix, ok)

-------------------------------------------------------------------------------
(* Updates: SetConfigHandler and handleConfigSet.                          *)

\* A request names some settings; empty values (0) and "***" are ignored.
Edited(cfg, wifi, mqtt, sys) ==
  LET req == [wifi |-> wifi, mqtt |-> mqtt, sys |-> sys]
  IN  [k \in Key |-> IF k \in Setting /\ req[k] # 0 THEN req[k] ELSE cfg[k]]

\* Mutant: other settings need neither a restart nor a reload.
EffectSystem(old, cfg) ==
  CASE old["wifi"] # cfg["wifi"] -> "restart"
    [] old["wifi"] = cfg["wifi"] /\ old["mqtt"] # cfg["mqtt"] -> "reload"
    [] OTHER -> "system"

\* The result of updateConfigFromJson: the network goes before the broker, the
\* broker before the rest.
Effect(old, cfg) ==
  IF old["wifi"] = cfg["wifi"] /\ old["mqtt"] # cfg["mqtt"] THEN "reload"
  ELSE "restart"

\* Mutant: the cache itself is edited.
BeginUpdateInPlace(u) ==
  /\ update[u].pc = "idle"
  /\ updates < MaxUpdates /\ updates' = updates + 1
  /\ u = "mqtt" => mode = "normal"
  /\ \E wifi \in 0 .. Last["wifi"], mqtt \in 0 .. Last["mqtt"],
        sys \in 0 .. Last["sys"] :
       LET cfg == Edited(cache, wifi, mqtt, sys) IN
       /\ cache' = cfg
       /\ cfg # cache /\ cfg["wifi"] # 0 /\ cfg["mqtt"] # 0
       /\ update' = [update EXCEPT ![u] =
            [pc |-> "save", cfg |-> cfg, effect |-> Effect(cache, cfg)]]
  /\ UNCHANGED <<nvs, mode, button, reloadVars, used, failed, given, early>>

\* updateConfigFromJson up to the save: nothing is done for a request that
\* changes nothing, or leaves the SSID or the broker empty.
BeginUpdate(u) ==
  /\ update[u].pc = "idle"
  /\ updates < MaxUpdates /\ updates' = updates + 1
  /\ u = "mqtt" => mode = "normal"
  /\ \E wifi \in 0 .. Last["wifi"], mqtt \in 0 .. Last["mqtt"],
        sys \in 0 .. Last["sys"] :
       LET cfg == Edited(cache, wifi, mqtt, sys) IN
       /\ cfg # cache /\ cfg["wifi"] # 0 /\ cfg["mqtt"] # 0
       /\ update' = [update EXCEPT ![u] =
            [pc |-> "save", cfg |-> cfg, effect |-> Effect(cache, cfg)]]
  /\ UNCHANGED <<nvs, cache, mode, button, reloadVars, used, failed, given,
                 early>>

\* A failed save is answered like a request that changed nothing.
SaveUpdate(u) ==
  /\ update[u].pc = "save"
  /\ \E ok \in Outcome :
       /\ SaveMainConfig(update[u].cfg, ok)
       /\ update' = [update EXCEPT ![u] =
            IF ok THEN [@ EXCEPT !.pc = "apply", !.cfg = Quiet.cfg]
            ELSE Quiet]
  /\ UNCHANGED <<mode, button, reloadVars, used, history>>

\* Only MQTT settings have changed: a task is started that reloads the client.
\* Nobody looks at whether it could be created.
StartReload(u) ==
  /\ update[u].pc = "apply" /\ update[u].effect = "reload"
  /\ update' = [update EXCEPT ![u] = Quiet]
  /\ \/ /\ \E t \in ReloadTask : reload[t].pc = "none"
        /\ LET new == CHOOSE t \in ReloadTask : reload[t].pc = "none"
           IN  reload' = [reload EXCEPT ![new].pc = "due"]
        /\ UNCHANGED newest
     \/ newest' = "missed" /\ UNCHANGED reload
  /\ UNCHANGED <<nvs, cache, mode, button, used, failed, history>>

\* Mutant: a reload that finds another one under way leaves it to that one.
CopyUnlessBusy(t) ==
  /\ reload[t].pc = "due"
  /\ IF \E other \in ReloadTask : reload[other].pc = "init"
       THEN reload' = [reload EXCEPT ![t] = NoReload] /\ UNCHANGED newest
       ELSE /\ reload' = [reload EXCEPT ![t] = [pc |-> "init", mqtt |-> cache["mqtt"]]]
            /\ newest' = t
  /\ UNCHANGED <<nvs, cache, mode, update, button, used, failed, history>>

\* onConfigReloadRequest, a moment later: the configuration is copied ...
CopyForReload(t) ==
  /\ reload[t].pc = "due"
  /\ reload' = [reload EXCEPT ![t] = [pc |-> "init", mqtt |-> cache["mqtt"]]]
  /\ newest' = t
  /\ UNCHANGED <<nvs, cache, mode, update, button, used, failed, history>>

\* ... and the client is stopped, destroyed and created anew from the copy
\* (reloadConfig).  The client that is created last is the one in use.
InitReload(t) ==
  /\ reload[t].pc = "init"
  /\ reload' = [reload EXCEPT ![t] = NoReload]
  /\ used' = [used EXCEPT !["mqtt"] = reload[t].mqtt]
  /\ newest' = CASE newest = t -> "done"
                 [] newest \in ReloadTask \ {t} -> newest
                 [] OTHER -> "missed"
  /\ UNCHANGED <<nvs, cache, mode, update, button, failed, history>>

\* Other changes: esp_restart, one second later.
RestartForUpdate(u) ==
  /\ update[u].pc = "apply" /\ update[u].effect = "restart"
  /\ Load(nvs)
  /\ UNCHANGED <<nvs, history>>

-------------------------------------------------------------------------------
(* Names, groups, the button, and power losses.                            *)

\* saveDaliDeviceIdentificators, called by DaliSetNamesHandler in both modes;
\* saveDaliGroupAssignments, called by DaliSetGroupsHandler in both modes and by
\* any task of the normal mode.  The web server serves one request at a time.
SaveDaliKey(k) ==
  /\ k = "names" \/ mode = "provisioning" => update["web"].pc = "idle"
  /\ \E v \in 1 .. Last[k], ok \in Outcome :
       ProcessConfigUpdate([cache EXCEPT ![k] = v], {k}, {{}, {k}}, ok)
  /\ given' = [given EXCEPT ![k] = nvs'[k]]
  /\ early' = (early \/ mode = "provisioning")
  /\ UNCHANGED <<mode, update, button, reloadVars, used, updates>>

\* The BOOT button was held for five seconds: resetConfiguredFlag.
ResetButtonTimerCallback ==
  /\ mode = "normal" /\ button = "up"
  /\ \E ok \in Outcome :
       /\ ProcessConfigUpdate([cache EXCEPT !["configured"] = 0],
                              {"configured"}, {{}, {"configured"}}, ok)
       /\ button' = IF ok THEN "reset" ELSE "failed"
  /\ UNCHANGED <<mode, update, reloadVars, used, history>>

RestartForReset ==
  /\ button # "up"
  /\ Load(nvs)
  /\ UNCHANGED <<nvs, history>>

PowerLoss ==
  /\ Load(nvs)
  /\ UNCHANGED <<nvs, history>>

UpdateSteps(u) == SaveUpdate(u) \/ StartReload(u) \/ RestartForUpdate(u)
ReloadSteps(t) == CopyForReload(t) \/ InitReload(t)

Next ==
  \/ \E u \in Updater : BeginUpdate(u) \/ UpdateSteps(u)
  \/ \E t \in ReloadTask : ReloadSteps(t)
  \/ \E k \in DaliKey : SaveDaliKey(k)
  \/ ResetButtonTimerCallback \/ RestartForReset
  \/ PowerLoss

\* The tasks go on with an update they have begun, a restart and a reload that
\* are due take place.
Spec ==
  /\ Init /\ [][Next]_vars
  /\ \A u \in Updater : WF_vars(UpdateSteps(u))
  /\ \A t \in ReloadTask : WF_vars(ReloadSteps(t))
  /\ WF_vars(RestartForReset)

-------------------------------------------------------------------------------
(* What has to hold.                                                       *)

TypeOK ==
  /\ nvs \in Config /\ cache \in Config
  /\ mode \in {"normal", "provisioning"}
  /\ update \in [Updater -> [pc : {"idle", "save", "apply"}, cfg : Config,
                             effect : {"none", "reload", "restart"}]]
  /\ button \in {"up", "reset", "failed"}
  /\ reload \in [ReloadTask -> [pc : {"none", "due", "init"}, mqtt : Nat]]
  /\ newest \in ReloadTask \cup {"done", "missed"}
  /\ used \in [{"wifi", "mqtt"} -> Nat] /\ failed \in BOOLEAN
  /\ given \in [DaliKey -> Nat]
  /\ early \in BOOLEAN /\ updates \in Nat

\* Names and group assignments survive: whatever updates of the configuration
\* are saved from older copies, NVS holds the names and groups saved last.
DaliKeysKept == \A k \in DaliKey : nvs[k] = given[k]

\* As long as no save has failed, the settings in the cache, which the web
\* interface shows and a reload uses, are the ones that a restart would load.
SettingsStored == ~failed => \A s \in Setting : cache[s] = nvs[s]

\* A device that starts in normal mode knows a network and a broker, even if a
\* save fails or the power is lost half-way; except after names or groups were
\* saved in provisioning mode, which marks the device as configured.
ConfiguredIsComplete ==
  nvs["configured"] = 1 => early \/ (nvs["wifi"] # 0 /\ nvs["mqtt"] # 0)

\* What is in use differs from what is saved only while somebody is about to put
\* it in force, and the right somebody: a new network takes a restart, and a
\* reload that has copied an older configuration does not count.  So it is even
\* where an update is saved from a copy that is older than another update, and
\* undoes that one's changes.  Excused: a reload that was overtaken by a newer
\* one and is the last to create the client, and a reload that was not started.
RestartDue ==
  \E u \in Updater : update[u].pc = "apply" /\ update[u].effect = "restart"
ReloadDue ==
  \/ \E t \in ReloadTask : reload[t].pc = "due"
  \/ \E t \in ReloadTask :
       newest = t /\ reload[t].pc = "init" /\ reload[t].mqtt = cache["mqtt"]
  \/ \E u \in Updater : update[u].pc = "apply" /\ update[u].effect = "reload"
ChangesAwaited ==
  ~failed => /\ used["wifi"] # cache["wifi"] => RestartDue
             /\ used["mqtt"] # cache["mqtt"] =>
                  RestartDue \/ ReloadDue \/ newest = "missed"

\* Settings that were saved come into force: the client is reloaded or the
\* device restarts, however the updates of the two tasks and their reloads
\* interleave; with the excuses above.
ComeIntoForce ==
  (used # InForce(cache)) ~>
    (failed \/ newest = "missed" \/ used = InForce(cache))

\* "reset the configuration and return to Provisioning Mode".
ResetReturnsToProvisioning ==
  [][RestartForReset /\ button = "reset" => mode' = "provisioning"]_vars

=============================================================================
