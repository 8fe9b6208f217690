-------------------------- MODULE DiscoveryControl --------------------------
(***************************************************************************)
(* The control part of DiscoveryManager (src/Discovery/DiscoveryManager.m): *)
(* when a search runs, how it is paused and resumed with the application,   *)
(* which providers run, and the timer that watches the Wi-Fi network.       *)
(*                                                                          *)
(* Everything runs on the main thread, one block at a time.  The system     *)
(* notifications reach the manager in two steps: AppStateChangeNotifier     *)
(* receives one on its own queue and dispatches the manager's block to the  *)
(* main queue, where it runs later, even if listening has stopped meanwhile.*)
(***************************************************************************)
EXTENDS Naturals, Sequences, FiniteSets

CONSTANTS
    Providers,   \* the discovery provider classes an application can register
    SSIDs,       \* the Wi-Fi networks the phone can join
    MaxTimers    \* bound: live SSID timers plus blocks waiting to run

ASSUME ControlAssumption ==
    /\ SSIDs # {}
    /\ MaxTimers \in Nat \ {0}

VARIABLES
    searching,      \* _searching
    shouldResume,   \* _shouldResumeSearch
    listening,      \* the notifier holds its two observer handles
    providers,      \* _discoveryProviders
    running,        \* the providers whose isRunning is set
    ssidTimer,      \* _ssidTimer is not nil
    timers,         \* SSID timers scheduled on the run loop
    currentSSID,    \* _currentSSID
    ssid,           \* the network the phone is on
    app,            \* application state as UIKit has it
    mainQueue,      \* notifier blocks dispatched to the main queue
    raised,         \* an Objective-C exception ended the process
    request,        \* history: the last call of the application, but for a stop during a pause
    late            \* history: providers registered during a search and not started since

managerVars == <<searching, shouldResume, listening, providers, running>>
timerVars   == <<ssidTimer, timers, currentSSID>>
envVars     == <<ssid, app, mainQueue>>
controlVars == <<managerVars, timerVars, envVars, raised, request, late>>

Blocks == {"pause", "resume"}

ControlTypeOK ==
    /\ searching \in BOOLEAN /\ shouldResume \in BOOLEAN /\ listening \in BOOLEAN
    /\ ssidTimer \in BOOLEAN /\ raised \in BOOLEAN
    /\ providers \subseteq Providers
    /\ running \subseteq providers
    /\ late \subseteq providers
    /\ timers \in Nat
    /\ currentSSID \in SSIDs /\ ssid \in SSIDs
    /\ app \in {"active", "inactive", "background"}
    /\ mainQueue \in Seq(Blocks)
    /\ request \in {"none", "start", "stop"}

(***************************************************************************)
(* -init: the SSID timer is started and fired, which records the network.  *)
(***************************************************************************)
ControlInit ==
    /\ searching = FALSE /\ shouldResume = FALSE /\ listening = FALSE
    /\ providers = {} /\ running = {} /\ late = {}
    /\ ssidTimer = TRUE /\ timers = 1
    /\ ssid \in SSIDs /\ currentSSID = ssid
    /\ app = "active" /\ mainQueue = <<>>
    /\ raised = FALSE /\ request = "none"

----------------------------------------------------------------------------
(* Registration *)

\* Mutant: a new provider is started at once, search or no search.
RegisterDeviceService_Starts(p) ==
    /\ ~raised
    /\ providers' = providers \union {p}
    /\ running' = running \union {p}
    /\ UNCHANGED <<searching, shouldResume, listening, timerVars, envVars,
                   raised, request, late>>

\* registerDeviceService:withDiscovery: - a provider of the class is kept if
\* there is one; a new one is added but not started, even during a search.
RegisterDeviceService(p) ==
    /\ ~raised
    /\ providers' = providers \union {p}
    /\ late' = IF searching /\ p \notin providers THEN late \union {p} ELSE late
    /\ UNCHANGED <<searching, shouldResume, listening, running, timerVars, envVars,
                   raised, request>>

\* unregisterDeviceService:withDiscovery: - returns when no provider of the
\* class is registered; otherwise it sends discoveryParameters to the PROVIDER
\* class, which does not implement it, and the exception ends the process.
UnregisterDeviceService(p) ==
    /\ ~raised
    /\ p \in providers
    /\ raised' = TRUE
    /\ UNCHANGED <<managerVars, timerVars, envVars, request, late>>

----------------------------------------------------------------------------
(* Control *)

\* startDiscovery; with no service registered the defaults are, which brings
\* in every provider class.
StartDiscovery ==
    /\ ~raised
    /\ request' = "start"
    /\ IF searching
       THEN UNCHANGED <<managerVars, late>>
       ELSE /\ searching' = TRUE
            /\ providers' = IF providers = {} THEN Providers ELSE providers
            /\ running' = providers'
            /\ late' = {}
            /\ listening' = TRUE
            /\ UNCHANGED shouldResume
    /\ UNCHANGED <<timerVars, envVars, raised>>

\* Mutant: listening stops although a pause still waits for its resume.
StopDiscovery_Deaf ==
    /\ ~raised
    /\ request' = IF shouldResume THEN "none" ELSE "stop"
    /\ IF searching
       THEN /\ searching' = FALSE
            /\ running' = {}
            /\ listening' = FALSE
            /\ late' = {}
            /\ UNCHANGED <<shouldResume, providers>>
       ELSE UNCHANGED <<managerVars, late>>
    /\ UNCHANGED <<timerVars, envVars, raised>>

\* stopDiscovery; it stops listening unless a pause still waits for its resume.
StopDiscovery ==
    /\ ~raised
    /\ request' = IF shouldResume THEN "none" ELSE "stop"
    /\ IF searching
       THEN /\ searching' = FALSE
            /\ running' = {}
            /\ listening' = (listening /\ shouldResume)
            /\ late' = {}
            /\ UNCHANGED <<shouldResume, providers>>
       ELSE UNCHANGED <<managerVars, late>>
    /\ UNCHANGED <<timerVars, envVars, raised>>

----------------------------------------------------------------------------
(* The SSID timer *)

NetworkChanged == ssid # currentSSID

\* Mutant: the purge stops the providers and does not start them again.
RunningAfterDetect_StopOnly == IF NetworkChanged THEN {} ELSE running

\* detectSSIDChange: on a new network purgeDeviceList stops and starts every
\* provider, whether or not a search is on.
RunningAfterDetect == IF NetworkChanged THEN providers ELSE running

LateAfterDetect == IF NetworkChanged THEN {} ELSE late

\* A scheduled timer fires.
DetectSSIDChange ==
    /\ ~raised
    /\ timers > 0
    /\ currentSSID' = ssid
    /\ running' = RunningAfterDetect
    /\ late' = LateAfterDetect
    /\ UNCHANGED <<searching, shouldResume, listening, providers, ssidTimer, timers,
                   envVars, raised, request>>

----------------------------------------------------------------------------
(* The notifier's blocks, as the main queue runs them *)

\* Mutant: invalidates a timer although _ssidTimer is nil.
PauseDiscovery_NilTimer ==
    /\ timers' = timers - 1
    /\ ssidTimer' = FALSE
    /\ IF searching
       THEN searching' = FALSE /\ shouldResume' = TRUE /\ running' = {} /\ late' = {}
       ELSE UNCHANGED <<searching, shouldResume, running, late>>
    /\ UNCHANGED <<listening, providers, currentSSID>>

\* Mutant: a resume is ordered although no search is on.
PauseDiscovery_Always ==
    /\ timers' = IF ssidTimer THEN timers - 1 ELSE timers
    /\ ssidTimer' = FALSE
    /\ searching' = FALSE /\ shouldResume' = TRUE /\ running' = {} /\ late' = {}
    /\ UNCHANGED <<listening, providers, currentSSID>>

\* pauseDiscovery: stopSSIDTimer, which invalidates the timer _ssidTimer
\* refers to and no other, and the providers of a running search.
PauseDiscovery ==
    /\ timers' = IF ssidTimer THEN timers - 1 ELSE timers
    /\ ssidTimer' = FALSE
    /\ IF searching
       THEN searching' = FALSE /\ shouldResume' = TRUE /\ running' = {} /\ late' = {}
       ELSE UNCHANGED <<searching, shouldResume, running, late>>
    /\ UNCHANGED <<listening, providers, currentSSID>>

\* Mutant: the flag is cleared before it is tested.
ResumeDiscovery_ClearsFirst ==
    /\ timers' = timers + 1
    /\ ssidTimer' = TRUE
    /\ currentSSID' = ssid
    /\ shouldResume' = FALSE
    /\ running' = RunningAfterDetect /\ late' = LateAfterDetect
    /\ UNCHANGED <<searching, listening, providers>>

\* resumeDiscovery: startSSIDTimer schedules a timer, forgets the one it had
\* and fires the new one; then a paused search goes on.
ResumeDiscovery ==
    /\ timers' = timers + 1
    /\ ssidTimer' = TRUE
    /\ currentSSID' = ssid
    /\ IF shouldResume
       THEN searching' = TRUE /\ shouldResume' = FALSE /\ running' = providers /\ late' = {}
       ELSE /\ running' = RunningAfterDetect /\ late' = LateAfterDetect
            /\ UNCHANGED <<searching, shouldResume>>
    /\ UNCHANGED <<listening, providers>>

RunBlock ==
    /\ ~raised
    /\ mainQueue # <<>>
    /\ \/ Head(mainQueue) = "pause" /\ PauseDiscovery
       \/ Head(mainQueue) = "resume" /\ ResumeDiscovery
    /\ mainQueue' = Tail(mainQueue)
    /\ UNCHANGED <<ssid, app, raised, request>>

----------------------------------------------------------------------------
(* The application and the network *)

Post(block) == mainQueue' = IF listening THEN Append(mainQueue, block) ELSE mainQueue

\* A call, an alert or the control centre covers the application.
AppResignsActive ==
    /\ ~raised
    /\ app = "active" /\ app' = "inactive"
    /\ UNCHANGED <<managerVars, timerVars, ssid, mainQueue, raised, request, late>>

AppEntersBackground ==
    /\ ~raised
    /\ app = "inactive" /\ app' = "background"
    /\ timers + Len(mainQueue) < MaxTimers
    /\ Post("pause")
    /\ UNCHANGED <<managerVars, timerVars, ssid, raised, request, late>>

AppBecomesActive ==
    /\ ~raised
    /\ app # "active" /\ app' = "active"
    /\ timers + Len(mainQueue) < MaxTimers
    /\ Post("resume")
    /\ UNCHANGED <<managerVars, timerVars, ssid, raised, request, late>>

JoinNetwork(s) ==
    /\ ~raised
    /\ s # ssid /\ ssid' = s
    /\ UNCHANGED <<managerVars, timerVars, app, mainQueue, raised, request, late>>

----------------------------------------------------------------------------
ControlNext ==
    \/ \E p \in Providers : RegisterDeviceService(p)
    \/ \E p \in Providers : UnregisterDeviceService(p)
    \/ StartDiscovery
    \/ StopDiscovery
    \/ DetectSSIDChange
    \/ RunBlock
    \/ AppResignsActive
    \/ AppEntersBackground
    \/ AppBecomesActive
    \/ \E s \in SSIDs : JoinNetwork(s)

\* The main queue keeps running its blocks and the run loop its timers.
Fairness ==
    /\ WF_controlVars(RunBlock)
    /\ WF_controlVars(DetectSSIDChange)

ControlSpec == ControlInit /\ [][ControlNext]_controlVars

ControlFairSpec == ControlSpec /\ Fairness

----------------------------------------------------------------------------
(* Properties *)

\* A search that is on, or that is paused and waits to go on, is one the
\* application's state changes still reach: stopDiscovery takes the observers
\* away only when nothing is left to resume.
ResumeIsPossible == searching \/ shouldResume => listening

\* While a search is on, every provider runs, save those registered after it
\* started: startDiscovery, resumeDiscovery and the purge on a new network
\* leave none of the others stopped.
SearchingProvidersRun == searching => providers \ late \subseteq running

\* Outside a search nothing but the purge on a network change sets a provider
\* going.
OnlyNetworkChangeRevives ==
    [][~searching' /\ ~(running' \subseteq running) => currentSSID' # currentSSID]_controlVars

\* When the application is back and the manager has heard of it, a paused
\* search goes on: pauseDiscovery's flag is not lost before resumeDiscovery.
PausedSearchGoesOn ==
    (shouldResume /\ \E i \in DOMAIN mainQueue : mainQueue[i] = "resume")
        ~> (searching \/ raised)

\* What the application asked for last holds: after stopDiscovery no search is on
\* and none will be resumed, whatever blocks of the notifier are still to run and
\* whatever networks come.  Excepted is a stop while a pause waits for its resume:
\* stopDiscovery leaves _shouldResumeSearch set.
StopIsRespected == request = "stop" => ~searching /\ ~shouldResume
=============================================================================
