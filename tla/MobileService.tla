--------------------------- MODULE MobileService ----------------------------
(***************************************************************************)
(* The mobile service: its lifecycle and its calls, and the device profile *)
(* it adapts to.                                                           *)
(***************************************************************************)
EXTENDS Integers, FiniteSets, Sequences

-----------------------------------------------------------------------------
(***************************************************************************)
(* MeshService, the object the Android and iOS applications hold: start    *)
(* and stop, the relay budget, and the swarm it launches on a thread of    *)
(* its own.  The fields are locked one at a time, so each operation is a   *)
(* sequence of steps, and two threads of the application may be inside     *)
(* operations at once.                                                     *)
(***************************************************************************)
CONSTANTS
    Callers,        \* threads of the application
    Budgets,        \* relay budgets, 0 among them
    InitialBudget,  \* 200 in the code
    None,
    NearbyPeers,    \* peers in reach of Bluetooth
    MaxCalls        \* bound on the calls the application makes

ASSUME ServiceAssumption == MaxCalls \in Nat /\ None \notin Nat

VARIABLES
    svcState,     \* "Stopped", "Starting", "Running" or "Stopping"
    svcCore,      \* the IronCore of the service, or None
    liveCores,    \* cores started and not stopped
    driftOn,      \* cores whose drift_active flag is set
    engines,      \* cores that have a RelayEngine
    engineOn,     \* those whose engine is in state Active, not Dormant
    budget,       \* relay_budget
    hasIdentity,  \* an identity has been created
    handle,       \* the swarm the bridge talks to, or None
    swarmMode,    \* swarm_headless_mode: None, "headless" or "full"
    liveSwarms,   \* swarms that run
    swarmBudget,  \* the budget each swarm applies
    launches,     \* the threads that launch a swarm
    nearby,       \* nearby_ble_peers of the service: peers heard over BLE
    caller,       \* caller[c]: the operation c is inside
    calls,        \* calls so far: the names of the cores and of the swarms
    raced         \* the kinds of overlap that have happened (ghost)

svcVars == <<svcState, svcCore, liveCores, driftOn, engines, engineOn, budget, hasIdentity, handle, swarmMode,
             liveSwarms, swarmBudget, launches, nearby, caller, calls, raced>>
engineVars == <<driftOn, engines, engineOn>>
coreVars   == <<svcCore, liveCores, engineVars>>
bridgeVars == <<handle, swarmMode, liveSwarms, swarmBudget, launches, nearby>>

NoCall == [op |-> "none"]
Inside(op) == \E c \in Callers : caller[c].op = op
Goto(c, next) == caller' = [caller EXCEPT ![c] = next]
Enter(c, frame) ==
    /\ caller[c] = NoCall /\ calls < MaxCalls
    /\ calls' = calls + 1
    /\ Goto(c, frame)
Return(c) == Goto(c, NoCall)
Race(kind, when) == raced' = IF when THEN raced \cup {kind} ELSE raced

(* drift_activate and drift_deactivate: the flag, and the engine if the core *)
(* has one.                                                                  *)
DriftActivate(k) ==
    /\ driftOn' = driftOn \cup {k}
    /\ engineOn' = engineOn \cup ({k} \cap engines)
    /\ UNCHANGED engines

DriftDeactivate(k) ==
    /\ driftOn' = driftOn \ {k}
    /\ engineOn' = engineOn \ {k}
    /\ UNCHANGED engines

ServiceInit ==
    /\ svcState = "Stopped" /\ svcCore = None /\ liveCores = {}
    /\ driftOn = {} /\ engines = {} /\ engineOn = {}
    /\ budget = InitialBudget /\ hasIdentity = FALSE
    /\ handle = None /\ swarmMode = None /\ liveSwarms = {}
    /\ swarmBudget = [s \in 1..MaxCalls |-> InitialBudget]
    /\ launches = {} /\ nearby = {}
    /\ caller = [c \in Callers |-> NoCall]
    /\ calls = 0 /\ raced = {}

-----------------------------------------------------------------------------
(* Mutant: a start that comes while another is under way goes ahead.         *)
StartAgain(c) ==
    /\ svcState # "Running"
    /\ svcState' = "Starting"
    /\ Enter(c, [op |-> "start", at |-> "core", core |-> calls + 1])
    /\ Race("lifecycle", Inside("stop"))
    /\ UNCHANGED <<coreVars, budget, hasIdentity, bridgeVars>>

(* start: refused while running or starting, allowed while stopping.         *)
Start(c) ==
    /\ svcState \notin {"Running", "Starting"}
    /\ svcState' = "Starting"
    /\ Enter(c, [op |-> "start", at |-> "core", core |-> calls + 1])
    /\ Race("lifecycle", Inside("stop"))
    /\ UNCHANGED <<coreVars, budget, hasIdentity, bridgeVars>>

(* The new core is started, which sets its drift flag (its engine is created *)
(* with the identity), and published.                                        *)
PublishCore(c) ==
    /\ caller[c].op = "start" /\ caller[c].at = "core"
    /\ liveCores' = liveCores \cup {caller[c].core}
    /\ DriftActivate(caller[c].core)
    /\ svcCore' = caller[c].core
    /\ Goto(c, [caller[c] EXCEPT !.at = "budget"])
    /\ UNCHANGED <<svcState, budget, hasIdentity, bridgeVars, raced, calls>>

(* drift_activate when the budget is positive; otherwise nothing, although   *)
(* core.start has activated it.                                              *)
ActivateForBudget(c) ==
    /\ caller[c].op = "start" /\ caller[c].at = "budget"
    /\ IF budget > 0 THEN DriftActivate(caller[c].core) ELSE UNCHANGED engineVars
    /\ Goto(c, [caller[c] EXCEPT !.at = "run"])
    /\ UNCHANGED <<svcState, svcCore, liveCores, budget, hasIdentity, bridgeVars,
                   raced, calls>>

StartDone(c) ==
    /\ caller[c].op = "start" /\ caller[c].at = "run"
    /\ svcState' = "Running"
    /\ Return(c)
    /\ UNCHANGED <<coreVars, budget, hasIdentity, bridgeVars, raced, calls>>

(* stop: the core is taken and stopped, then the swarm is told to shut down  *)
(* (its handle stays), then the mode is forgotten.                           *)
Stop(c) ==
    /\ svcState # "Stopped"
    /\ svcState' = "Stopping"
    /\ Enter(c, [op |-> "stop", at |-> "core"])
    /\ Race("lifecycle", Inside("start"))
    /\ UNCHANGED <<coreVars, budget, hasIdentity, bridgeVars>>

TakeCore(c) ==
    /\ caller[c].op = "stop" /\ caller[c].at = "core"
    /\ svcCore' = None
    /\ liveCores' = liveCores \ {svcCore}
    /\ DriftDeactivate(svcCore)
    /\ Goto(c, [caller[c] EXCEPT !.at = "swarm"])
    /\ UNCHANGED <<svcState, budget, hasIdentity, bridgeVars, raced, calls>>

ShutdownSwarm(c) ==
    /\ caller[c].op = "stop" /\ caller[c].at = "swarm"
    /\ liveSwarms' = liveSwarms \ {handle}
    /\ Goto(c, [caller[c] EXCEPT !.at = "mode"])
    /\ Race("swarm", launches # {} \/ Inside("start_swarm"))
    /\ UNCHANGED <<svcState, coreVars, budget, hasIdentity, nearby, handle, swarmMode,
                   swarmBudget, launches, calls>>

StopDone(c) ==
    /\ caller[c].op = "stop" /\ caller[c].at = "mode"
    /\ swarmMode' = None
    /\ svcState' = "Stopped"
    /\ Return(c)
    /\ UNCHANGED <<coreVars, budget, hasIdentity, nearby, handle, liveSwarms, swarmBudget,
                   launches, raced, calls>>

-----------------------------------------------------------------------------
(* set_relay_budget: the field, the drift engine of the core, the swarm.     *)
SetRelayBudget(c, b) ==
    /\ budget' = b
    /\ Enter(c, [op |-> "budget", at |-> "core", b |-> b])
    /\ Race("budget", Inside("budget") \/ launches # {})
    /\ UNCHANGED <<svcState, coreVars, hasIdentity, bridgeVars>>

SyncDrift(c) ==
    /\ caller[c].op = "budget" /\ caller[c].at = "core"
    /\ IF svcCore = None THEN UNCHANGED engineVars
       ELSE IF caller[c].b > 0 THEN DriftActivate(svcCore)
       ELSE DriftDeactivate(svcCore)
    /\ Goto(c, [caller[c] EXCEPT !.at = "swarm"])
    /\ UNCHANGED <<svcState, svcCore, liveCores, budget, hasIdentity, bridgeVars,
                   raced, calls>>

ForwardBudget(c) ==
    /\ caller[c].op = "budget" /\ caller[c].at = "swarm"
    /\ swarmBudget' = [s \in DOMAIN swarmBudget |->
                         IF s = handle /\ s \in liveSwarms THEN caller[c].b ELSE swarmBudget[s]]
    /\ Return(c)
    /\ UNCHANGED <<svcState, coreVars, budget, hasIdentity, nearby, handle, swarmMode,
                   liveSwarms, launches, raced, calls>>

-----------------------------------------------------------------------------
(* initialize_identity on the core the service holds, which an application   *)
(* may call again: it installs a new engine, and a new engine is Dormant     *)
(* whatever the flag says.                                                   *)
CreateIdentity ==
    /\ svcCore # None
    /\ hasIdentity' = TRUE
    /\ engines' = engines \cup {svcCore}
    /\ engineOn' = engineOn \ {svcCore}
    /\ UNCHANGED <<svcState, svcCore, liveCores, driftOn, budget, bridgeVars, caller,
                   raced, calls>>

(* start_swarm needs a core; the mode depends on the identity.               *)
StartSwarm(c) ==
    /\ svcCore # None
    /\ Enter(c, [op |-> "start_swarm", at |-> "existing", swarm |-> calls + 1,
                 mode |-> IF hasIdentity THEN "full" ELSE "headless"])
    /\ Race("swarm", launches # {} \/ Inside("start_swarm") \/ Inside("stop"))
    /\ UNCHANGED <<svcState, coreVars, budget, hasIdentity, bridgeVars>>

(* A swarm in the same mode is kept; any other is shut down.                 *)
ReplaceSwarm(c) ==
    /\ caller[c].op = "start_swarm" /\ caller[c].at = "existing"
    /\ IF handle # None /\ swarmMode = caller[c].mode
         THEN /\ Return(c)
              /\ UNCHANGED <<handle, swarmMode, liveSwarms>>
         ELSE /\ Goto(c, [caller[c] EXCEPT !.at = "spawn"])
              /\ liveSwarms' = liveSwarms \ {handle}
              /\ handle' = None
              /\ swarmMode' = IF handle = None THEN swarmMode ELSE None
    /\ UNCHANGED <<svcState, coreVars, budget, hasIdentity, nearby, swarmBudget, launches,
                   raced, calls>>

SpawnLaunch(c) ==
    /\ caller[c].op = "start_swarm" /\ caller[c].at = "spawn"
    /\ launches' = launches \cup {[s |-> caller[c].swarm, mode |-> caller[c].mode, at |-> "handle"]}
    /\ Return(c)
    /\ Race("budget", Inside("budget"))
    /\ UNCHANGED <<svcState, coreVars, budget, hasIdentity, nearby, handle, swarmMode,
                   liveSwarms, swarmBudget, calls>>

(* The thread of the swarm: the handle, the mode, then the stored budget; or *)
(* the swarm does not start.                                                 *)
LaunchHandle(l) ==
    /\ l.at = "handle"
    /\ liveSwarms' = liveSwarms \cup {l.s}
    /\ handle' = l.s
    /\ launches' = (launches \ {l}) \cup {[l EXCEPT !.at = "mode"]}
    /\ UNCHANGED <<svcState, coreVars, budget, hasIdentity, nearby, swarmMode, swarmBudget,
                   caller, raced, calls>>

LaunchMode(l) ==
    /\ l.at = "mode"
    /\ swarmMode' = l.mode
    /\ launches' = (launches \ {l}) \cup {[l EXCEPT !.at = "budget"]}
    /\ UNCHANGED <<svcState, coreVars, budget, hasIdentity, nearby, handle, liveSwarms,
                   swarmBudget, caller, raced, calls>>

LaunchBudget(l) ==
    /\ l.at = "budget"
    /\ swarmBudget' = [swarmBudget EXCEPT ![l.s] = budget]
    /\ launches' = launches \ {l}
    /\ UNCHANGED <<svcState, coreVars, budget, hasIdentity, nearby, handle, swarmMode,
                   liveSwarms, caller, raced, calls>>

LaunchFails(l) ==
    /\ l.at = "handle"
    /\ swarmMode' = None
    /\ launches' = launches \ {l}
    /\ UNCHANGED <<svcState, coreVars, budget, hasIdentity, nearby, handle, liveSwarms,
                   swarmBudget, caller, raced, calls>>

-----------------------------------------------------------------------------
(* The calls the application makes through SwarmBridge.  Each clones the     *)
(* handle, releases the lock, and blocks until the swarm has answered; with  *)
(* no handle it fails at once.  A swarm that was shut down or replaced in    *)
(* between does not answer, and the call fails.                              *)
CallBridge(c) ==
    /\ handle # None
    /\ Enter(c, [op |-> "bridge", swarm |-> handle])
    /\ UNCHANGED <<svcState, coreVars, budget, hasIdentity, bridgeVars, raced>>

BridgeReturns(c) ==
    /\ caller[c].op = "bridge"
    /\ Return(c)
    /\ UNCHANGED <<svcState, coreVars, budget, hasIdentity, bridgeVars, raced, calls>>

(* on_proximity_data_received: the sender is remembered by the service.      *)
(* SwarmBridge looks for nearby peers in a set of its own, which nothing     *)
(* fills, so no message takes the BLE path beside the swarm's.               *)
OnProximityDataReceived(p) ==
    /\ nearby' = nearby \cup {p}
    /\ UNCHANGED <<svcState, coreVars, budget, hasIdentity, handle, swarmMode, liveSwarms,
                   swarmBudget, launches, caller, calls, raced>>

ServiceNext ==
    \/ \E c \in Callers :
          \/ Start(c) \/ PublishCore(c) \/ ActivateForBudget(c) \/ StartDone(c)
          \/ Stop(c) \/ TakeCore(c) \/ ShutdownSwarm(c) \/ StopDone(c)
          \/ (\E b \in Budgets : SetRelayBudget(c, b)) \/ SyncDrift(c) \/ ForwardBudget(c)
          \/ StartSwarm(c) \/ ReplaceSwarm(c) \/ SpawnLaunch(c)
          \/ CallBridge(c) \/ BridgeReturns(c)
    \/ CreateIdentity
    \/ \E p \in NearbyPeers : OnProximityDataReceived(p)
    \/ \E l \in launches : LaunchHandle(l) \/ LaunchMode(l) \/ LaunchBudget(l) \/ LaunchFails(l)

ServiceSpec == ServiceInit /\ [][ServiceNext]_svcVars

-----------------------------------------------------------------------------
Quiet == launches = {} /\ \A c \in Callers : caller[c] = NoCall

(* Between operations the service is running exactly when it has a core, and *)
(* no other core is alive, as long as no start overlapped a stop.  (A stop   *)
(* that overlaps a start can leave the service "Running" without a core, or  *)
(* "Stopped" with one.)                                                      *)
LifecycleConsistent ==
    Quiet /\ "lifecycle" \notin raced =>
        /\ svcState = IF svcCore = None THEN "Stopped" ELSE "Running"
        /\ liveCores = {svcCore} \ {None}

(* At most one swarm runs, the one the bridge talks to, and none outlives    *)
(* the service, unless the launch of one overlapped another launch or a      *)
(* stop.                                                                     *)
OneSwarm ==
    "swarm" \notin raced =>
        /\ liveSwarms \subseteq {handle}
        /\ Quiet /\ "lifecycle" \notin raced /\ svcState = "Stopped" => liveSwarms = {}

(* The swarm that runs applies the budget of the service, whether the budget *)
(* was set before the launch or after it, unless the update overlapped the   *)
(* launch or another update.                                                 *)
SwarmBudgetCurrent ==
    Quiet /\ raced \cap {"budget", "swarm"} = {} =>
        \A s \in liveSwarms : swarmBudget[s] = budget

(* With a positive budget the core of the service reports drift as active,   *)
(* and no engine relays in a core whose drift is off: not after a stop, and  *)
(* not after a budget of zero.  (The converse fails: the engine that         *)
(* initialize_identity installs stays Dormant until the next budget.)        *)
DriftFollowsBudget ==
    /\ Quiet /\ "budget" \notin raced /\ budget > 0 => {svcCore} \ {None} \subseteq driftOn
    /\ engineOn \subseteq driftOn

(* The service once its calls have returned: state and core agree, one     *)
(* swarm runs, the swarm applies the budget and drift is on with it, apart *)
(* from the calls that raced for the very thing.                           *)
ServiceSound ==
    LifecycleConsistent /\ OneSwarm /\ SwarmBudgetCurrent /\ DriftFollowsBudget

-----------------------------------------------------------------------------
(***************************************************************************)
(* How the mobile service follows the device.  The platform reports the    *)
(* battery, the network and the motion through separate callbacks.  Each   *)
(* copies the current profile, sets its own field, and hands the whole     *)
(* profile to update_device_state, which stores it in two places under two *)
(* locks, derives the relay budget from it and applies that.  Nothing      *)
(* orders two callbacks that overlap, and a start of the service puts a    *)
(* fresh profile in place of the one the callbacks have built.             *)
(*                                                                         *)
(* A battery level is one of the bands the thresholds of compute_profile   *)
(* separate, written by its upper end; a device that has not reported its  *)
(* battery reads 0.                                                        *)
(***************************************************************************)
CONSTANTS
    Reporters,       \* the platform's threads
    Bands,           \* the battery levels reported
    Overrides,       \* the values a user may fix the relay limit to
    NoOverride,
    MaxReports       \* bound on the callbacks

ASSUME ProfileAssumption == Bands \subseteq Nat

VARIABLES
    profile,         \* current_device_profile: <<>>, or <<the profile>>
    deviceState,     \* device_state, likewise
    relayBudget,     \* MeshService::relay_budget
    relayOverride,   \* AutoAdjustEngine::relay_max_override
    reporter,        \* reporter[c]: the callback c is in
    disturbed,       \* the reporters that a callback, an override or a start overlapped
    told,            \* the value each field was last reported with (ghost)
    shaken,          \* the fields whose last report another one overlapped, or that a
                     \* start has forgotten since (ghost)
    reports          \* how many callbacks have begun

devVars == <<profile, deviceState, relayBudget, relayOverride, reporter, disturbed, told, shaken,
             reports>>
ghosts == <<disturbed, told, shaken>>

DefaultProfile == [battery |-> 0, charging |-> FALSE, wifi |-> FALSE, motion |-> "Still"]

-----------------------------------------------------------------------------
(* AutoAdjustEngine::compute_profile, then the limit it gives.               *)
ComputeProfile(d) ==
    CASE d.charging /\ d.wifi -> "Maximum"
      [] ~(d.charging /\ d.wifi) /\ d.battery > 50 -> "High"
      [] ~(d.charging /\ d.wifi) /\ d.battery \in 31..50 -> "Standard"
      [] ~(d.charging /\ d.wifi) /\ d.battery \in 16..30 -> "Reduced"
      [] OTHER -> "Minimal"

ComputeRelayAdjustment(p) ==
    IF relayOverride # NoOverride THEN relayOverride
    ELSE [Maximum |-> 1000, High |-> 500, Standard |-> 200, Reduced |-> 100, Minimal |-> 50][p]

-----------------------------------------------------------------------------
Out == [step |-> "out"]

DeviceInit ==
    /\ profile = <<>> /\ deviceState = <<>>
    /\ relayBudget = 200 /\ relayOverride = NoOverride
    /\ reporter = [c \in Reporters |-> Out]
    /\ disturbed = {} /\ told = DefaultProfile /\ shaken = {} /\ reports = 0

Current == IF profile = <<>> THEN DefaultProfile ELSE profile[1]    \* unwrap_or_default

DeviceActive == {c \in Reporters : reporter[c] # Out}
Updated(d, fields) == [f \in DOMAIN d |-> IF f \in DOMAIN fields THEN fields[f] ELSE d[f]]

(* The callback c copies the profile and sets the fields it reports.         *)
Report(c, fields) ==
    /\ reporter[c] = Out /\ reports < MaxReports
    /\ reports' = reports + 1
    /\ reporter' = [reporter EXCEPT ![c] =
          [step |-> "state", fields |-> fields, new |-> Updated(Current, fields)]]
    /\ disturbed' = (disturbed \ {c}) \cup (IF DeviceActive = {} THEN {} ELSE DeviceActive \cup {c})
    /\ told' = Updated(told, fields)
    /\ shaken' = IF DeviceActive = {} THEN shaken \ DOMAIN fields
                 ELSE shaken \cup DOMAIN fields
                      \cup UNION {DOMAIN reporter[d].fields : d \in DeviceActive}
    /\ UNCHANGED <<profile, deviceState, relayBudget, relayOverride>>

OnBatteryChanged(c) ==
    \E b \in Bands, charging \in BOOLEAN : Report(c, [battery |-> b, charging |-> charging])

OnNetworkChanged(c) == \E wifi \in BOOLEAN : Report(c, [wifi |-> wifi])

OnMotionChanged(c) == \E motion \in {"Walking"} : Report(c, [motion |-> motion])

At(c, step) == reporter[c].step = step
GoOn(c, step) == reporter' = [reporter EXCEPT ![c].step = step]

StoreState(c) ==
    /\ At(c, "state")
    /\ deviceState' = <<reporter[c].new>>
    /\ GoOn(c, "profile")
    /\ UNCHANGED <<profile, relayBudget, relayOverride, ghosts, reports>>

(* Mutant: the profile keeps the value the callback began with.              *)
StoreProfileStale(c) ==
    /\ At(c, "profile")
    /\ UNCHANGED profile
    /\ GoOn(c, "budget")
    /\ UNCHANGED <<deviceState, relayBudget, relayOverride, ghosts, reports>>

StoreProfile(c) ==
    /\ At(c, "profile")
    /\ profile' = <<reporter[c].new>>
    /\ GoOn(c, "budget")
    /\ UNCHANGED <<deviceState, relayBudget, relayOverride, ghosts, reports>>

(* The adjustment is computed from the callback's own copy.                  *)
ApplyBudget(c) ==
    /\ At(c, "budget")
    /\ relayBudget' = ComputeRelayAdjustment(ComputeProfile(reporter[c].new))
    /\ GoOn(c, "done")
    /\ UNCHANGED <<profile, deviceState, relayOverride, ghosts, reports>>

ReportDone(c) ==
    /\ At(c, "done")
    /\ reporter' = [reporter EXCEPT ![c] = Out]
    /\ UNCHANGED <<profile, deviceState, relayBudget, relayOverride, ghosts, reports>>

(* override_relay_max_per_hour and clear_overrides take effect at the next   *)
(* report: neither applies a budget.                                         *)
SetOverride(o) ==
    /\ relayOverride' = o
    /\ disturbed' = disturbed \cup DeviceActive
    /\ UNCHANGED <<profile, deviceState, relayBudget, reporter, told, shaken, reports>>

(* start, of a service that has an identity: the profile begins anew, the    *)
(* device state and the budget stay.                                         *)
ServiceStarted ==
    /\ profile' = <<DefaultProfile>>
    /\ disturbed' = disturbed \cup DeviceActive
    /\ shaken' = DOMAIN told
    /\ UNCHANGED <<deviceState, relayBudget, relayOverride, reporter, told, reports>>

DeviceNext ==
    \/ \E c \in Reporters : \/ OnBatteryChanged(c)
                            \/ OnNetworkChanged(c)
                            \/ OnMotionChanged(c)
                            \/ StoreState(c)
                            \/ StoreProfile(c)
                            \/ ApplyBudget(c)
                            \/ ReportDone(c)
    \/ \E o \in Overrides \cup {NoOverride} : SetOverride(o)
    \/ ServiceStarted

DeviceSpec == DeviceInit /\ [][DeviceNext]_devVars

-----------------------------------------------------------------------------
(* A callback nothing overlaps puts the service right, whatever overlapped   *)
(* before it: the two copies of the profile agree on every field and carry   *)
(* what was reported, and the budget in force is the one they call for.      *)
UndisturbedReportHeals ==
    \A c \in Reporters : At(c, "done") /\ c \notin disturbed =>
        /\ profile = deviceState
        /\ \A f \in DOMAIN reporter[c].fields : Current[f] = reporter[c].fields[f]
        /\ relayBudget = ComputeRelayAdjustment(ComputeProfile(Current))

(* A report is lost only to one that overlapped it: a field whose last       *)
(* report was alone, and which no start has forgotten since, keeps what was  *)
(* reported through every later callback, overlapping ones included, once    *)
(* the report is stored.                                                     *)
FieldsKept ==
    \A f \in DOMAIN told \ shaken :
        \/ Current[f] = told[f]
        \/ \E c \in Reporters : reporter[c].step \in {"state", "profile"} /\ f \in DOMAIN reporter[c].fields

(* Unless the user fixed it, a drained battery never raises the limit: the   *)
(* budget in force for a profile is at most that of the same profile with a  *)
(* fuller battery.                                                           *)
BudgetFollowsBattery ==
    relayOverride = NoOverride =>
        \A c \in Reporters : At(c, "done") /\ c \notin disturbed =>
            \A b \in Bands : b >= Current.battery =>
                relayBudget <= ComputeRelayAdjustment(ComputeProfile([Current EXCEPT !.battery = b]))

(* Whatever reports overlapped before it, a report nothing overlaps leaves *)
(* one profile and a budget that follows from it and from the battery, and *)
(* overlapping reports lose nothing but what they report themselves.       *)
ProfileSound ==
    UndisturbedReportHeals /\ FieldsKept /\ BudgetFollowsBattery
=============================================================================
