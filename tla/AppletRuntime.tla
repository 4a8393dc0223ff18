---------------------------- MODULE AppletRuntime ----------------------------
(***************************************************************************)
(* The panel applet as owner of the runtime: the observation of the        *)
(* systemd units it caches, the decision that admits or refuses an         *)
(* operation on that cache, the requests that wait for a fresh one, the    *)
(* two-step confirmation of Repair, and the operations an editor window    *)
(* routes to it over the session bus.  The connections are offline         *)
(* mirrors; PreviewInitialSync and ResumeSync follow the path of SyncNow   *)
(* and PauseSync.  What a started operation does is OfflineControl.        *)
(* Time is counted in steps: ConfirmMin is the second, FreshFor the 15     *)
(* seconds and ConfirmMax the 30 seconds of the code; ages saturate.       *)
(***************************************************************************)
EXTENDS Integers, FiniteSets, SequencesExt

CONSTANTS
  Conns,        \* saved connections
  None,
  ConfirmMin, ConfirmMax,   \* REPAIR_CONFIRM_MIN_DELAY, _MAX_DELAY
  FreshFor,     \* age at which an observation is no longer fresh
  Statuses,     \* what the units of a mirror show, among those below
  Ops,          \* operations, among those of Allowed
  Editors,      \* connections that have an editor window
  MaxEdits,     \* bound on the changes made by the Settings processes
  MaxTasks      \* bound on the operations of one kind of a connection at a time

Unknown == "Unknown"   \* the status of the connection could not be read
Gone == 0                     \* the connection is not in the document
Records == 0 .. MaxEdits + 1  \* the versions of its record

VARIABLES
  stored,     \* the configuration document on disk, by connection
  config,     \* the copy in the applet's memory
  edits,      \* changes made so far
  notify,     \* a ConfigurationChanged request is under way
  reloading,  \* the VPN check that ends ConfigurationChanged is running
  obs,        \* the latest unit observation under way, or None
  late,       \* a superseded observation whose result is still to come
  cache,      \* the cached observation, None when none may be used
  waiting,    \* unit_operations_waiting
  armed,      \* pending_repair
  mirror,     \* mirror_operations_pending
  repair,     \* repair_operations_pending
  tasks,      \* number of operations running, by connection and operation
  routed,     \* runtime_routed_operations
  client,     \* the request of the editor window of each connection
  news,       \* connections with a completion the editor has not read
  streak,     \* history: the unbroken series of Repair presses
  displaced   \* history: connections whose routed request, while it waited,
              \* was replaced by another press

docVars == <<stored, edits>>
obsVars == <<obs, late, cache>>
decideVars == <<armed, mirror, repair, tasks, routed, news, streak, displaced>>
runtimeVars == <<stored, config, edits, notify, reloading, obs, late, cache,
                 waiting, armed, mirror, repair, tasks, routed, client, news, streak,
                 displaced>>

Observation == [cfg : [Conns -> Records], read : BOOLEAN, behind : SUBSET Conns]
Caches == [cfg : [Conns -> Records], age : 0 .. FreshFor, behind : SUBSET Conns,
           shown : [Conns -> Statuses \cup {Unknown}]]
Requests == [op : Ops, rec : Records]
Armed == [conn : Conns, age : 0 .. ConfirmMax + 1]
Series == [conn : Conns, ages : SUBSET (0 .. ConfirmMax)]

ASSUME RuntimeAssumption ==
  /\ IsFiniteSet(Conns) /\ Editors \subseteq Conns
  /\ {"SyncNow", "Repair"} \subseteq Ops /\ Ops \subseteq {"SyncNow", "PauseSync", "Repair"}
  /\ ConfirmMin \in Nat \ {0} /\ ConfirmMax \in Nat /\ FreshFor \in Nat
  /\ MaxEdits \in Nat /\ MaxTasks \in Nat
  /\ None \notin Ops \cup Observation \cup Caches \cup Requests \cup Armed \cup Series

\* behind, in an observation or in the cache, is history: the connections with
\* an operation that completed after the units were read.
RuntimeTypeOK ==
  /\ stored \in [Conns -> Records] /\ config \in [Conns -> Records]
  /\ edits \in 0 .. MaxEdits
  /\ notify \in BOOLEAN /\ reloading \in BOOLEAN
  /\ obs \in Observation \cup {None} /\ late \in Observation \cup {None}
  /\ cache \in Caches \cup {None}
  /\ waiting \in [Conns -> Requests \cup {None}]
  /\ armed \in Armed \cup {None}
  /\ mirror \subseteq Conns /\ repair \subseteq Conns
  /\ tasks \in [Conns -> [Ops -> 0 .. MaxTasks + 1]]
  /\ routed \in [Conns -> Ops \cup {None}]
  /\ client \in [Conns -> {"idle", "asked", "accepted"}]
  /\ news \subseteq Conns
  /\ displaced \subseteq Conns
  /\ streak \in Series \cup {None}

RuntimeInit ==
  /\ stored = [c \in Conns |-> 1] /\ config = stored /\ edits = 0
  /\ notify = FALSE /\ reloading = FALSE
  /\ obs = None /\ late = None
  /\ cache = None
  /\ waiting = [c \in Conns |-> None]
  /\ armed = None /\ mirror = {} /\ repair = {}
  /\ tasks = [c \in Conns |-> [op \in Ops |-> 0]]
  /\ routed = [c \in Conns |-> None]
  /\ client = [c \in Conns |-> "idle"]
  /\ news = {} /\ streak = None /\ displaced = {}

------------------------------------------------------------------------------
(* The unit observation.                                                   *)

UnitStatusFresh(k, doc, c) ==
  k # None /\ k.cfg = doc /\ k.age < FreshFor /\ k.shown[c] # Unknown

NewObservation(doc) == [cfg |-> doc, read |-> FALSE, behind |-> {}]

\* Cancelled, an observation that was read may still deliver its result.
Superseded == {late} \cup IF obs # None /\ obs.read THEN {obs} ELSE {}

\* refresh_unit_observation: unless forced, an observation under way is left to
\* finish; a forced one supersedes it and invalidates the cache.
Refresh(force, doc) ==
  IF obs # None /\ ~force
  THEN UNCHANGED obsVars
  ELSE /\ obs' = NewObservation(doc)
       /\ late' \in Superseded
       /\ cache' = IF force THEN None ELSE cache

\* The batch of unit states and the coordinator's state files are read.
ReadUnits ==
  /\ obs # None /\ ~obs.read /\ obs' = [obs EXCEPT !.read = TRUE]
  /\ UNCHANGED <<docVars, config, notify, reloading, late, cache,
                 waiting, client, decideVars>>

------------------------------------------------------------------------------
(* record_operation_request, as a function of the state it reads.          *)

State == [armed |-> armed, mirror |-> mirror, repair |-> repair, tasks |-> tasks,
          routed |-> routed, news |-> news, streak |-> streak,
          displaced |-> displaced]

Becomes(s) ==
  /\ armed' = s.armed /\ mirror' = s.mirror /\ repair' = s.repair
  /\ tasks' = s.tasks /\ routed' = s.routed /\ news' = s.news
  /\ streak' = s.streak /\ displaced' = s.displaced

\* complete_routed_operation
Complete(s, c, op) ==
  IF s.routed[c] # op THEN s
  ELSE [s EXCEPT !.routed[c] = None, !.news = @ \cup {c}, !.displaced = @ \ {c}]

\* controller::actions for the status the row shows
Allowed(s, k, doc, c, op) ==
  LET status == IF c \in s.mirror THEN "Syncing" ELSE k.shown[c] IN
  /\ doc[c] # Gone
  /\ CASE op = "SyncNow" -> status = "Idle"
       [] op = "PauseSync" -> status \in {"Idle", "Syncing"}
       [] op = "Repair" -> status \in {"Syncing", "Error"}

\* Mutant of Confirmation: the armed connection is not compared with the pressed one.
ConfirmationAnyConnection(a, c) ==
  CASE a = None -> "Arm"
    [] a # None /\ a.age < ConfirmMin -> "Wait"
    [] a # None /\ a.age \in ConfirmMin .. ConfirmMax -> "Confirm"
    [] OTHER -> "Arm"

\* repair_confirmation_decision
Confirmation(a, c) ==
  CASE a = None -> "Arm"
    [] a # None /\ a.conn # c -> "Arm"
    [] a # None /\ a.conn = c /\ a.age < ConfirmMin -> "Wait"
    [] a # None /\ a.conn = c /\ a.age \in ConfirmMin .. ConfirmMax -> "Confirm"
    [] OTHER -> "Arm"

\* The series of Repair presses on one connection, as the user made them.
Pressed(st, c) ==
  [conn |-> c, ages |-> {0} \cup IF st # None /\ st.conn = c THEN st.ages ELSE {}]

Start(s, c, op) == [s EXCEPT !.tasks[c][op] = @ + 1, !.armed = None, !.streak = None]

DecideRepair(s, c) ==
  LET answer == Confirmation(s.armed, c) IN
  IF answer = "Confirm" THEN [Start(s, c, "Repair") EXCEPT !.repair = @ \cup {c}]
  ELSE Complete([s EXCEPT !.streak = Pressed(@, c),
                          !.armed = IF answer = "Arm" THEN [conn |-> c, age |-> 0]
                                    ELSE @], c, "Repair")

Decide(s, k, doc, c, op) ==
  CASE ~Allowed(s, k, doc, c, op) \/ c \in s.repair -> Complete(s, c, op)
    [] op = "Repair" /\ Allowed(s, k, doc, c, op) /\ c \notin s.repair ->
         DecideRepair(s, c)
    [] OTHER -> [Start(s, c, op) EXCEPT !.mirror = @ \cup {c}]

\* The request waits while the cache is not fresh; a later one of the same
\* connection takes its place.
Record(s, doc, c, op) ==
  IF doc[c] # Gone /\ ~UnitStatusFresh(cache, doc, c)
  THEN /\ waiting' = [waiting EXCEPT ![c] = [op |-> op, rec |-> doc[c]]]
       /\ Becomes([s EXCEPT !.displaced =
                     @ \cup {d \in {c} : waiting[d] # None /\ waiting[d].op = s.routed[d]
                                          /\ op # s.routed[d]}])
       /\ Refresh(FALSE, doc)
  ELSE /\ Becomes(Decide(s, cache, doc, c, op))
       /\ UNCHANGED <<waiting, obsVars>>

\* Mutant of AcceptsRevision: any result is taken for the latest.
AcceptsRevisionAny(latest) == TRUE

\* The revision test of UnitObservationCompleted: the result is of the latest
\* observation, not of one that was superseded.
AcceptsRevision(latest) == latest

\* Mutant of Answer: a request that can no longer be decided is dropped
\* without an answer.
AnswerDropped(s, k, c) ==
  IF UnitStatusFresh(k, config, c) /\ config[c] = waiting[c].rec
  THEN Decide(s, k, config, c, waiting[c].op) ELSE s

\* What becomes of the request of c that waited for the observation.
Answer(s, k, c) ==
  IF UnitStatusFresh(k, config, c) /\ config[c] = waiting[c].rec
  THEN Decide(s, k, config, c, waiting[c].op)
  ELSE Complete(s, c, waiting[c].op)

\* The waiting requests are decided one after the other, in the order of the
\* connections' random identifiers.
Replay(s, k, queue) ==
  LET after[i \in 0 .. Len(queue)] == IF i = 0 THEN s ELSE Answer(after[i - 1], k, queue[i])
  IN  after[Len(queue)]

Queued == {c \in Conns : waiting[c] # None}

Cached(o, shown) ==
  [cfg |-> o.cfg, age |-> 0, behind |-> o.behind, shown |-> shown]

\* UnitObservationCompleted for a result o that passed the revision test
Accept(o) ==
  IF o.cfg # config
  THEN /\ obs' = NewObservation(config) /\ cache' = None
       /\ UNCHANGED <<waiting, decideVars>>
  ELSE \E shown \in [Conns -> Statuses \cup {Unknown}] :
         /\ cache' = Cached(o, shown)
         /\ obs' = None
         /\ waiting' = [c \in Conns |-> None]
         /\ \E queue \in SetToSeqs(Queued) :
              Becomes(Replay(State, Cached(o, shown), queue))

UnitObservationCompleted ==
  /\ obs # None /\ obs.read
  /\ Accept(obs)
  /\ UNCHANGED <<docVars, config, notify, reloading, late, client>>

LateObservationCompleted ==
  /\ late # None /\ late.read
  /\ IF AcceptsRevision(FALSE) THEN Accept(late)
     ELSE UNCHANGED <<obs, cache, waiting, decideVars>>
  /\ late' = None
  /\ UNCHANGED <<docVars, config, notify, reloading, client>>

\* UnitObservationTick: the popup refreshes the observation while it is open.
UnitObservationTick ==
  /\ obs = None
  /\ Refresh(FALSE, config)
  /\ UNCHANGED <<docVars, config, notify, reloading, waiting, client,
                 decideVars>>

------------------------------------------------------------------------------
(* The popup.                                                              *)

\* TogglePopup opening the popup.  Closing it changes nothing below, so a
\* popup that is open is opened again instead.
OpenPopup ==
  /\ config' = stored
  /\ Refresh(FALSE, stored)
  /\ armed' = None /\ streak' = None
  /\ UNCHANGED <<docVars, notify, reloading, waiting, mirror, repair, tasks,
                 routed, client, news, displaced>>

\* OpenAddConnection, OpenModifyConnection
LaunchEditor ==
  /\ armed # None
  /\ armed' = None /\ streak' = None
  /\ UNCHANGED <<docVars, config, notify, reloading, obsVars, waiting,
                 mirror, repair, tasks, routed, client, news, displaced>>

\* The bound: nothing is asked for while MaxTasks operations of one kind run.
Room(c) == \A op \in Ops : tasks[c][op] < MaxTasks

\* OperationRequested in the panel that owns the runtime
Press(c, op) ==
  /\ Room(c)
  /\ Record(State, config, c, op)
  /\ UNCHANGED <<docVars, config, notify, reloading, client>>

------------------------------------------------------------------------------
(* MirrorOperationCompleted and OfflineRepairCompleted, with the forced    *)
(* refresh update() adds to both.                                          *)

Ended(c, op) == [State EXCEPT !.tasks[c][op] = @ - 1]

MirrorEnded(c, op) ==
  LET s == [Ended(c, op) EXCEPT !.mirror = @ \ {c}] IN
  IF routed[c] = None THEN s ELSE Complete(s, c, routed[c])

RepairEnded(c) ==
  Complete([Ended(c, "Repair") EXCEPT !.repair = @ \ {c}, !.armed = None], c, "Repair")

OperationCompleted(c, op) ==
  /\ tasks[c][op] > 0
  /\ Becomes(IF op = "Repair" THEN RepairEnded(c) ELSE MirrorEnded(c, op))
  /\ config' = stored
  /\ obs' = NewObservation(stored) /\ cache' = None
  /\ \E o \in Superseded :
       late' = IF o = None THEN None ELSE [o EXCEPT !.behind = @ \cup {c}]
  /\ UNCHANGED <<docVars, notify, reloading, waiting, client>>

------------------------------------------------------------------------------
(* The Settings processes and the session bus.                             *)

\* A Settings process changes the record of a connection, or removes it, and
\* notifies the owner; a notification that is lost is one never served.
Edit(c) ==
  /\ c \in Editors /\ edits < MaxEdits /\ edits' = edits + 1
  /\ \E r \in {edits + 2, Gone} : stored' = [stored EXCEPT ![c] = r]
  /\ notify' = TRUE
  /\ UNCHANGED <<config, reloading, obsVars, waiting, client, decideVars>>

\* Request(ConfigurationChanged)
ConfigurationChanged ==
  /\ notify /\ notify' = FALSE
  /\ config' = stored /\ reloading' = TRUE
  /\ UNCHANGED <<docVars, obsVars, waiting, client, decideVars>>

RuntimeConfigurationReloaded ==
  /\ reloading /\ reloading' = FALSE
  /\ Refresh(TRUE, config)
  /\ UNCHANGED <<docVars, config, notify, waiting, client, decideVars>>

\* The editor window of a connection asks the owner for Sync Now.
EditorRequest(c) ==
  /\ c \in Editors /\ client[c] = "idle"
  /\ client' = [client EXCEPT ![c] = "asked"]
  /\ UNCHANGED <<docVars, config, notify, reloading, obsVars, waiting,
                 decideVars>>

\* Request(RunOperation): one routed operation of a connection at a time
RunOperation(c) ==
  /\ client[c] = "asked" /\ Room(c)
  /\ IF routed[c] # None
     THEN /\ client' = [client EXCEPT ![c] = "idle"]
          /\ UNCHANGED <<config, obsVars, waiting, decideVars>>
     ELSE /\ config' = stored
          /\ client' = [client EXCEPT ![c] = "accepted"]
          /\ Record([State EXCEPT !.routed[c] = "SyncNow", !.news = @ \ {c}],
                    stored, c, "SyncNow")
  /\ UNCHANGED <<docVars, notify, reloading>>

\* The poll of the editor finds the completion; the user may also close the
\* window, and open it again.
EditorDone(c) ==
  /\ client[c] = "accepted" /\ c \in news
  /\ client' = [client EXCEPT ![c] = "idle"] /\ news' = news \ {c}
  /\ UNCHANGED <<docVars, config, notify, reloading, obsVars, waiting,
                 armed, mirror, repair, tasks, routed, streak,
                 displaced>>

EditorClosed(c) ==
  /\ client[c] = "accepted" /\ client' = [client EXCEPT ![c] = "idle"]
  /\ UNCHANGED <<docVars, config, notify, reloading, obsVars, waiting,
                 decideVars>>

\* Time passes: the cache and the armed confirmation grow older.
Older(age, limit) == IF age < limit THEN age + 1 ELSE age

Tick ==
  /\ cache # None \/ armed # None \/ streak # None
  /\ cache' = IF cache = None \/ cache.age + 1 >= FreshFor THEN None
              ELSE [cache EXCEPT !.age = @ + 1]
  /\ armed' = IF armed = None THEN None
              ELSE [armed EXCEPT !.age = Older(@, ConfirmMax + 1)]
  /\ streak' = LET ages == IF streak = None THEN {}
                           ELSE {a + 1 : a \in streak.ages} \ {ConfirmMax + 1}
               IN IF ages = {} THEN None ELSE [streak EXCEPT !.ages = ages]
  /\ UNCHANGED <<docVars, config, notify, reloading, obs, late, waiting,
                 mirror, repair, tasks, routed, client, news, displaced>>

------------------------------------------------------------------------------
Owner ==
  \/ UnitObservationCompleted \/ LateObservationCompleted
  \/ \E c \in Conns, op \in Ops : OperationCompleted(c, op)
  \/ ConfigurationChanged \/ RuntimeConfigurationReloaded
  \/ \E c \in Conns : RunOperation(c)

User ==
  \/ UnitObservationTick \/ OpenPopup \/ LaunchEditor
  \/ \E c \in Conns, op \in Ops : Press(c, op)
  \/ \E c \in Conns : Edit(c) \/ EditorRequest(c) \/ EditorDone(c) \/ EditorClosed(c)

RuntimeNext == Owner \/ User \/ ReadUnits \/ Tick

RuntimeSpec == RuntimeInit /\ [][RuntimeNext]_runtimeVars

------------------------------------------------------------------------------
Starts(c, op) == tasks'[c][op] > tasks[c][op]

\* No operation starts on a view of the units that predates the end of another
\* operation of the same connection, nor for a record the applet has replaced:
\* update() forces a refresh after every completion, and a superseded result
\* must not pass for it, whatever order the results arrive in.
FreshDecision ==
  [][\A c \in Conns, o \in Ops : Starts(c, o) =>
       cache' # None /\ c \notin cache'.behind /\ cache'.cfg = config']_runtimeVars

\* Repair starts only when the user had already pressed it for the same
\* connection within the window, and had pressed nothing else since: requests
\* that had to wait, other connections, a popup closed and opened again and the
\* completions of operations must not confirm what the user did not ask twice.
RepairConfirmed ==
  [][\A c \in Conns : Starts(c, "Repair") =>
       /\ streak # None /\ streak.conn = c
       /\ streak.ages \cap (ConfirmMin .. ConfirmMax) # {}]_runtimeVars

\* Every operation an editor routed is still waiting or running, or was
\* answered: no refusal, replaced record, failed read or overlapping operation
\* leaves the entry behind, which would keep the editor waiting and its next
\* request refused.  A press in the popup that takes its place is the exception.
RoutedTracked ==
  \A c \in Conns :
    routed[c] # None /\ c \notin displaced =>
      \/ \E op \in Ops \ {"Repair"} : tasks[c][op] > 0
      \/ waiting[c] # None /\ waiting[c].op = routed[c]

=============================================================================
