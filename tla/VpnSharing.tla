----------------------------- MODULE VpnSharing -----------------------------
(***************************************************************************)
(* One NetworkManager profile that several connections depend on: online   *)
(* mounts use it from Mount to Unmount, finite offline operations (Preview *)
(* and Sync) from begin_finite_offline_vpn_use to finish_offline_vpn_use,  *)
(* mirrors with background sync as long as their timer or their service is *)
(* active.  Activation is serialised by an asynchronous mutex per profile; *)
(* release takes a snapshot of the users and then deactivates, outside     *)
(* that mutex; the periodic status check takes neither.                    *)
(***************************************************************************)
EXTENDS FiniteSets

CONSTANTS
  Online,          \* online mounts of the profile
  Offline,         \* offline mirrors of the profile
  None,            \* nobody holds the activation mutex
  OpenConnect,     \* the profile signs in through the OpenConnect agent
  Checks,          \* readiness_checks of the profile
  Releasing,       \* connections with disconnect_vpn_when_unused
  MeteredAllowed   \* mirrors with sync_on_metered

Connections == Online \cup Offline

CheckKinds == {"NetworkManagerState", "Interface", "Route", "DnsName", "Endpoint"}

\* lock: waits for the mutex; inspect, agent, request: holds it, before the
\* activation; waiting: wait_for_vpn_ready; ready: the tunnel was ready, not yet
\* mounted or registered; using: mounted, or registered as a finite user;
\* snapshot, disconnect, unmark: the release.
Stages == {"idle", "lock", "inspect", "agent", "request", "waiting", "ready",
           "using", "snapshot", "disconnect", "unmark"}

VARIABLES
  network,   \* State and Metered of NetworkManager
  answers,   \* readiness checks whose target answers
  saved,     \* the profile is among the saved connections
  tunnel,    \* state of the active connection of the profile
  prompt,    \* the agent shows an authentication window
  marked,    \* the profile is in vpn-applet-activated.ron
  mutex,     \* holder of the activation mutex of the profile
  stage,     \* stage of the operation of each connection
  asked,     \* the operation itself asked for the activation
  agentOwn,  \* the operation knows that the profile is an OpenConnect profile
  resuming,  \* mirrors whose operation is a Resume
  finite,    \* active_finite_offline_vpn_users of the profile
  timer,     \* mirrors whose timer is active
  service,   \* mirrors whose scheduled run is active, mounts whose service is
  seenMark,  \* the mark as the release read it
  checked    \* the status check found the tunnel down and has not unmarked yet

environment == <<network, answers, saved>>
nm == <<tunnel, prompt>>
operation == <<mutex, stage, asked, agentOwn, resuming>>
vars == <<environment, nm, marked, operation, finite, timer, service, seenMark,
          checked>>

TypeOK ==
  /\ network \in [state : {"local", "site", "global"}, metered : {"unknown",
                  "yes", "no", "guess_yes", "guess_no"}]
  /\ answers \subseteq Checks /\ saved \in BOOLEAN
  /\ tunnel \in {"none", "unknown", "activating", "activated", "deactivating",
                 "deactivated"}
  /\ prompt \in BOOLEAN /\ marked \in BOOLEAN /\ checked \in BOOLEAN
  /\ mutex \in Connections \cup {None}
  /\ stage \in [Connections -> Stages]
  /\ asked \in [Connections -> BOOLEAN] /\ agentOwn \in [Connections -> BOOLEAN]
  /\ seenMark \in [Connections -> BOOLEAN]
  /\ resuming \subseteq Offline /\ finite \subseteq Offline
  /\ timer \subseteq Offline /\ service \subseteq Connections

Init ==
  /\ network \in [state : {"global"}, metered : {"no", "yes"}]
  /\ answers = Checks /\ saved = TRUE
  /\ tunnel \in {"none", "activated"} /\ prompt = FALSE
  /\ marked = FALSE /\ checked = FALSE
  /\ mutex = None
  /\ stage = [c \in Connections |-> "idle"]
  /\ asked = [c \in Connections |-> FALSE]
  /\ agentOwn = [c \in Connections |-> FALSE]
  /\ seenMark = [c \in Connections |-> FALSE]
  /\ resuming = {} /\ finite = {}
  /\ timer \in SUBSET Offline /\ service = {}

-----------------------------------------------------------------------------
(* What the D-Bus calls answer. *)

\* A call has the value v or fails, at its time limit at the latest.
Reply(v) == {v, "error"}

Connected == network.state \in {"site", "global"}

Metered == network.metered \in {"yes", "guess_yes"}

\* profile(): the saved connection of that uuid, if it is of a VPN type.
ProfileReplies == {saved, FALSE}

\* RestartUnit of the agent closes an open prompt; a job that fails, or whose end
\* is not seen, may have closed it.
AgentReplies ==
  {[ok |-> TRUE, prompt |-> FALSE]} \cup {[ok |-> FALSE, prompt |-> p] : p \in {prompt, FALSE}}

\* The units as the blocking status calls report them: one that cannot be read
\* counts as inactive.
UnitReplies == SUBSET (timer \cup service)

\* active_path: an active connection with the uuid of the profile.
Active == tunnel /= "none"

\* state(): the active connection that is going down counts as disconnected, one
\* that is down but still listed as failed.
VpnState ==
  IF ~Active THEN "Disconnected" ELSE
    [unknown |-> "Unknown", activating |-> "Activating", activated |-> "Activated",
     deactivating |-> "Disconnected", deactivated |-> "Failed"][tunnel]

StateReplies == Reply(VpnState)

Verdict(ready) == IF ready THEN "ready" ELSE "not ready"

\* bounded_readiness: no answer in time is "not ready".
Bounded(ready) == {Verdict(ready), "not ready"}

InterfaceReady == Reply(Verdict("Interface" \in answers))
RouteReady     == Bounded("Route" \in answers)
DnsReady       == Bounded("DnsName" \in answers)
EndpointReady  == Bounded("Endpoint" \in answers)

\* check() of the in-process probe.
Probe(k) ==
  CASE k = "NetworkManagerState" -> Reply(Verdict(Connected))
    [] k = "Interface"           -> InterfaceReady
    [] k = "Route"               -> RouteReady
    [] k = "DnsName"             -> DnsReady
    [] k = "Endpoint"            -> EndpointReady

\* readiness_report: ready only if every check is; an error ends it.
MayReportReady == \A k \in Checks : "ready" \in Probe(k)

\* vpn_profile_ready can be true: the tunnel first, then the report.
MayBeReady == VpnState = "Activated" /\ MayReportReady

\* deactivate(): nothing to do without an active connection.
Deactivated == IF Active THEN "deactivating" ELSE "none"

-----------------------------------------------------------------------------

Goto(c, s) == stage' = [stage EXCEPT ![c] = s]

Unlocked(c) == mutex' = IF mutex = c THEN None ELSE mutex

\* strict_network_ready: an inspection that fails is an error.
StrictNetworkReady == Connected

\* ensure_background_sync_may_start: current_metered_network takes a failed
\* inspection for an unmetered network.
BackgroundMayStart(c) ==
  /\ StrictNetworkReady
  /\ \E metered \in {Metered, FALSE} : metered => c \in MeteredAllowed

\* run_unmetered_guard, a condition of the service of a mirror without
\* sync_on_metered: a failed inspection refuses.
UnmeteredGuard(c) == c \in MeteredAllowed \/ ~Metered

\* run_offline_readiness_guard: the scheduled run neither activates the tunnel
\* nor registers a user.
ReadinessGuard == Connected /\ MayBeReady

\* ensure_vpn_ready_for_connection up to the mutex: profile_is_openconnect, FALSE
\* when it cannot be found out.
Ensure(c) ==
  /\ stage[c] = "idle"
  /\ \E found \in ProfileReplies : agentOwn' = [agentOwn EXCEPT ![c] = found /\ OpenConnect]
  /\ Goto(c, "lock")
  /\ UNCHANGED <<environment, nm, marked, mutex, asked, finite, timer, service,
                 seenMark, checked>>

Mount(c) == c \in Online /\ Ensure(c) /\ UNCHANGED resuming

\* begin_finite_offline_vpn_use up to the mutex.
BeginFinite(c) ==
  /\ c \in Offline /\ StrictNetworkReady
  /\ Ensure(c)
  /\ resuming' = resuming \ {c}

\* Resume: start_rclone_offline_mirror_background up to the mutex.
Resume(c) ==
  /\ c \in Offline \ timer /\ BackgroundMayStart(c)
  /\ Ensure(c)
  /\ resuming' = resuming \cup {c}

Lock(c) ==
  /\ stage[c] = "lock" /\ mutex = None
  /\ mutex' = c
  /\ Goto(c, "inspect")
  /\ UNCHANGED <<environment, nm, marked, asked, agentOwn, resuming, finite, timer,
                 service, seenMark, checked>>

\* ensure_vpn_profile_ready: a tunnel whose state cannot be read is not up.
Inspect(c) ==
  /\ stage[c] = "inspect"
  /\ \E reply \in StateReplies :
       /\ asked' = [asked EXCEPT ![c] = reply /= "Activated"]
       /\ Goto(c, IF reply = "Activated" THEN "waiting" ELSE "agent")
  /\ UNCHANGED <<environment, nm, marked, mutex, agentOwn, resuming, finite, timer,
                 service, seenMark, checked>>

\* An error before the tunnel is ready ends the operation. A Resume that fails
\* here has not reached its release; nor has a Mount or a finite operation.
GiveUp(c) == Goto(c, "idle") /\ Unlocked(c)

\* profile() and restart_openconnect_agent, which closes an open prompt.
PrepareAgent(c) ==
  /\ stage[c] = "agent"
  /\ \E found \in ProfileReplies, agent \in AgentReplies :
       /\ prompt' = IF found /\ OpenConnect THEN agent.prompt ELSE prompt
       /\ IF found /\ (OpenConnect => agent.ok)
            THEN Goto(c, "request") /\ mutex' = mutex ELSE GiveUp(c)
  /\ UNCHANGED <<environment, tunnel, marked, asked, agentOwn, resuming, finite, timer,
                 service, seenMark, checked>>

\* ActivateConnection. The time limit of activate() may strike after
\* NetworkManager has accepted the call.
Activate(c) ==
  /\ stage[c] = "request"
  /\ \/ /\ tunnel' \in {tunnel, "activating"} \ {"none"}
        /\ Goto(c, "waiting") /\ mutex' = mutex
     \/ tunnel' \in {tunnel, "activating"} /\ GiveUp(c)
  /\ prompt' = (prompt \/ (OpenConnect /\ tunnel' = "activating" /\ tunnel /= tunnel'))
  /\ UNCHANGED <<environment, marked, asked, agentOwn, resuming, finite, timer, service,
                 seenMark, checked>>

\* wait_for_vpn_ready: ready, and marked if this operation activated it.
TunnelReady(c) ==
  /\ stage[c] = "waiting" /\ MayBeReady
  /\ marked' = (marked \/ asked[c])
  /\ Goto(c, "ready") /\ Unlocked(c)
  /\ UNCHANGED <<environment, nm, asked, agentOwn, resuming, finite, timer, service,
                 seenMark, checked>>

\* vpn_activation_terminal_error: no clean-up.
TerminalError(c) == VpnState = "Failed" \/ (VpnState = "Disconnected" /\ asked[c])

TunnelError(c) ==
  /\ stage[c] = "waiting" /\ TerminalError(c)
  /\ GiveUp(c)
  /\ UNCHANGED <<environment, nm, marked, asked, agentOwn, resuming, finite, timer,
                 service, seenMark, checked>>

\* The deadline: cleanup_timed_out_vpn_activation of an own activation, whose two
\* steps may each fail; the agent is restarted after the tunnel was taken down.
TunnelTimeout(c) ==
  /\ stage[c] = "waiting"
  /\ \/ UNCHANGED nm
     \/ /\ asked[c] /\ tunnel' = Deactivated
        /\ \E agent \in AgentReplies : prompt' = IF agentOwn[c] THEN agent.prompt ELSE prompt
  /\ GiveUp(c)
  /\ UNCHANGED <<environment, marked, asked, agentOwn, resuming, finite, timer, service,
                 seenMark, checked>>

-----------------------------------------------------------------------------
(* The use. *)

\* The service of a mount is started; its mount is yet to appear.
StartService(c) ==
  /\ c \in Online \ service /\ stage[c] = "ready"
  /\ service' = service \cup {c}
  /\ UNCHANGED <<environment, nm, marked, operation, finite, timer, seenMark, checked>>

\* The mount appears, or register_finite_offline_vpn_user.
Use(c) ==
  /\ stage[c] = "ready" /\ c \notin resuming /\ (c \in Online => c \in service)
  /\ Goto(c, "using")
  /\ finite' = finite \cup ({c} \cap Offline)
  /\ UNCHANGED <<environment, nm, marked, mutex, asked, agentOwn, resuming, timer,
                 service, seenMark, checked>>

\* maybe_shutdown_vpn_after_unmount up to the marks; without
\* disconnect_vpn_when_unused it is over.
Shutdown(c) ==
  /\ Goto(c, IF c \in Releasing THEN "snapshot" ELSE "idle")
  /\ seenMark' = [seenMark EXCEPT ![c] = marked]

\* The timer is started, or the Resume fails and releases.
Resumed(c) ==
  /\ stage[c] = "ready" /\ c \in resuming
  /\ resuming' = resuming \ {c}
  /\ \/ timer' = timer \cup {c} /\ Goto(c, "idle") /\ UNCHANGED seenMark
     \/ Shutdown(c) /\ UNCHANGED timer
  /\ UNCHANGED <<environment, nm, marked, mutex, asked, agentOwn, finite, service,
                 checked>>

\* The timer elapses and both conditions of the service hold.
ScheduledRun(c) ==
  /\ c \in timer \ service /\ UnmeteredGuard(c) /\ ReadinessGuard
  /\ service' = service \cup {c}
  /\ UNCHANGED <<environment, nm, marked, operation, finite, timer, seenMark, checked>>

\* Or the service of a mount that has not appeared ends.
ScheduledEnd(c) ==
  /\ c \in service /\ (c \in Online => stage[c] # "using")
  /\ service' = service \ {c}
  /\ UNCHANGED <<environment, nm, marked, operation, finite, timer, seenMark, checked>>

\* A Mount fails after the tunnel was ready, or sleep drops its future: neither
\* releases the tunnel, a mark not yet written is lost, a started service goes on.
Drop(c) ==
  /\ c \in Online
  /\ stage[c] \in {"lock", "inspect", "agent", "request", "waiting", "ready"}
  /\ GiveUp(c)
  /\ UNCHANGED <<environment, nm, marked, asked, agentOwn, resuming, finite, timer,
                 service, seenMark, checked>>

\* Unmount has ended, or finish_offline_vpn_use of a finite operation.
Release(c) ==
  /\ stage[c] = "using"
  /\ finite' = finite \ {c} /\ service' = service \ ({c} \cap Online)
  /\ Shutdown(c)
  /\ UNCHANGED <<environment, nm, marked, mutex, asked, agentOwn, resuming, timer, checked>>

\* A Pause that has stopped timer and service releases as well.
Pause(c) ==
  /\ c \in Offline /\ stage[c] = "idle"
  /\ timer' = timer \ {c} /\ service' = service \ {c} /\ finite' = finite \ {c}
  /\ Shutdown(c)
  /\ UNCHANGED <<environment, nm, marked, mutex, asked, agentOwn, resuming, checked>>

\* connection_appears_active: a mount that is there, or whatever timer or service
\* is reported active.
AppearsActive(c, reported) == c \in reported \/ (c \in Online /\ stage[c] = "using")

\* active_connections_using_vpn without the connection itself: also the
\* registered finite users.
ActiveUsers(c, reported) ==
  ({d \in Connections : AppearsActive(d, reported)} \cup finite) \ {c}

\* shutdown_decision
DisconnectDecided(c, reported) == ActiveUsers(c, reported) = {} /\ seenMark[c]

\* The mounts may not be readable: the release fails.
Decide(c) ==
  /\ stage[c] = "snapshot"
  /\ \/ Goto(c, "idle")
     \/ \E reported \in UnitReplies : DisconnectDecided(c, reported) /\ Goto(c, "disconnect")
  /\ UNCHANGED <<environment, nm, marked, mutex, asked, agentOwn, resuming, finite, timer,
                 service, seenMark, checked>>

\* disconnect_vpn_profile, which may fail; a profile that is no longer in the
\* document is not disconnected, and no error.
Disconnect(c) ==
  /\ stage[c] = "disconnect"
  /\ \/ tunnel' \in {Deactivated, tunnel} /\ Goto(c, "unmark")
     \/ tunnel' = tunnel /\ Goto(c, "idle")
  /\ UNCHANGED <<environment, prompt, marked, mutex, asked, agentOwn, resuming, finite,
                 timer, service, seenMark, checked>>

Unmark(c) ==
  /\ stage[c] = "unmark"
  /\ marked' = FALSE
  /\ Goto(c, "idle")
  /\ UNCHANGED <<environment, nm, mutex, asked, agentOwn, resuming, finite, timer,
                 service, seenMark, checked>>

-----------------------------------------------------------------------------
(* The periodic status check, NetworkManager and the user. *)

\* current_vpn_ready_states: the profile is inspected while a connection of it
\* appears active.
StatusCheck ==
  /\ ~checked
  /\ \E c \in Connections : AppearsActive(c, timer \cup service)
  /\ \E reply \in StateReplies : reply /= "Activated"
  /\ checked' = TRUE
  /\ UNCHANGED <<environment, nm, marked, operation, finite, timer, service, seenMark>>

StatusUnmark ==
  /\ checked
  /\ marked' = FALSE /\ checked' = FALSE
  /\ UNCHANGED <<environment, nm, operation, finite, timer, service, seenMark>>

\* NetworkManager goes on; an OpenConnect tunnel comes up after the sign-in.
Progress ==
  /\ \/ tunnel = "activating" /\ tunnel' \in {"activated", "deactivated", "unknown"}
     \/ tunnel = "unknown" /\ tunnel' \in {"activating", "none"}
     \/ tunnel = "deactivating" /\ tunnel' = "deactivated"
     \/ tunnel = "deactivated" /\ tunnel' = "none"
  /\ prompt' = (prompt /\ tunnel' \in {"activating", "unknown"})
  /\ UNCHANGED <<environment, marked, operation, finite, timer, service, seenMark,
                 checked>>

\* Network, targets and profiles change without the applet.
Roam ==
  /\ network' \in [state : {"local", "global"}, metered : {"no", "yes"}]
  /\ answers' \in SUBSET Checks /\ saved' \in {saved, FALSE}
  /\ UNCHANGED <<nm, marked, operation, finite, timer, service, seenMark, checked>>

Next ==
  \/ StatusCheck \/ StatusUnmark \/ Progress \/ Roam
  \/ \E c \in Connections :
       \/ Mount(c) \/ BeginFinite(c) \/ Resume(c) \/ Lock(c) \/ Inspect(c)
       \/ PrepareAgent(c) \/ Activate(c) \/ TunnelReady(c) \/ TunnelError(c)
       \/ TunnelTimeout(c) \/ StartService(c) \/ Use(c) \/ Resumed(c) \/ ScheduledRun(c)
       \/ ScheduledEnd(c) \/ Drop(c) \/ Release(c) \/ Pause(c) \/ Decide(c)
       \/ Disconnect(c) \/ Unmark(c)

Spec == Init /\ [][Next]_vars

\* FR-089: a release never disconnects the tunnel while another connection of
\* the profile is mounting (past the readiness check), mounted or syncing
\* (maybe_shutdown_vpn_after_unmount).
RequiredVpnKept ==
  [][\A c \in Connections :
       stage[c] = "disconnect" /\ tunnel' # tunnel =>
         \A d \in Connections \ {c} : stage[d] \notin {"ready", "using"} /\ d \notin service]_vars

=============================================================================
