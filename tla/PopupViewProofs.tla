--------------------------- MODULE PopupViewProofs ---------------------------
(***************************************************************************)
(* Proofs about PopupView: what the popup shows belongs to the present run *)
(* of a worker, to the present generation of polls and to the mount table  *)
(* as it was after the last operation.                                     *)
(***************************************************************************)
EXTENDS PopupView, TLAPS

-----------------------------------------------------------------------------
(* The inductive invariant                                                 *)

\* The worker replaces its log before it names the run, so a run that is named
\* has its own log.
WorkerInv ==
  \A c \in Conns : /\ named[c] <= log[c] /\ log[c] <= run[c]
                   /\ worker[c] = "half" => log[c] = run[c]

\* A poll of this generation began after every event that voids it, and one that
\* found its run named reads the log of that run or of a later one.
PollInv ==
  \A p \in polls : /\ p.current => ~p.before
                   /\ p.pc = "matched" => p.inv <= log[p.conn]
                   /\ p.count # "stale"

\* What was read before an event is marked for rejection.
TableInv == inspection # None => (inspection.old => obsolete)

ViewInv ==
  TypeOK /\ WorkerInv /\ PollInv /\ CountOfThisRun /\ CountNotVoid /\ TableInv

-----------------------------------------------------------------------------
(* Operators of the model                                                  *)

LEMMA NewInspectionType == NewInspection \in Inspection \cup {None}
  BY DEF NewInspection, Inspection

\* Refreshing never leaves an inspection that was read in force.
LEMMA Refreshed ==
  ASSUME inspection \in Inspection \cup {None}, TableInv, RefreshMounts
  PROVE  /\ inspection' \in Inspection \cup {None} /\ obsolete' \in BOOLEAN
         /\ TableInv'
  <1>1. CASE inspection = None
    <2>1. inspection' = NewInspection /\ obsolete' = FALSE
      BY <1>1 DEF RefreshMounts
    <2>2. NewInspection # None => ~NewInspection.old
      BY DEF NewInspection
    <2>. QED
      BY <2>1, <2>2, NewInspectionType DEF TableInv
  <1>2. CASE inspection # None
    <2>1. /\ inspection' = [inspection EXCEPT !.old = inspection.read]
          /\ obsolete' = TRUE
      BY <1>2 DEF RefreshMounts
    <2>2. inspection \in Inspection
      BY <1>2
    <2>. QED
      BY <2>1, <2>2 DEF Inspection, TableInv
  <1>. QED
    BY <1>1, <1>2

LEMMA DecidedType ==
  ASSUME NEW c \in Conns, NEW op \in Ops \cup {None}, NEW s, NEW confirmed,
         task \in [Conns -> Ops \cup {None}]
  PROVE  Decided(c, op, s, confirmed) \in Ops \cup {None}
  BY DEF Decided

\* Expired polls keep nothing but their end.
LEMMA ExpiredPolls ==
  ASSUME NEW ps \in SUBSET Poll, NEW cs \in SUBSET Conns
  PROVE  /\ Expired(ps, cs) \in SUBSET Poll
         /\ \A q \in Expired(ps, cs) : ~q.current /\ q.pc = "read" /\ q.count = "unknown"
  <1>1. ASSUME NEW p \in ps
        PROVE  LET q == [p EXCEPT !.before = @ \/ p.conn \in cs, !.current = FALSE,
                                  !.pc = "read", !.count = "unknown", !.inv = 0]
               IN  q \in Poll /\ ~q.current /\ q.pc = "read" /\ q.count = "unknown"
    <2>1. p \in Poll
      BY <1>1
    <2>2. 0 \in 0 .. MaxRuns
      BY ViewAssumption
    <2>. DEFINE void == p.before \/ p.conn \in cs
    <2>3. void \in BOOLEAN
      OBVIOUS
    <2>. HIDE DEF void
    <2>4. LET q == [p EXCEPT !.before = void, !.current = FALSE,
                             !.pc = "read", !.count = "unknown", !.inv = 0]
          IN  q \in Poll /\ ~q.current /\ q.pc = "read" /\ q.count = "unknown"
      BY <2>1, <2>2, <2>3 DEF Poll
    <2>. QED
      BY <2>4 DEF void
  <1>. QED
    BY <1>1 DEF Expired

LEMMA WithoutType ==
  ASSUME NEW cs, counts \in [Conns -> Count \cup {None}]
  PROVE  /\ WithoutCounts(cs) \in [Conns -> Count \cup {None}]
         /\ \A c \in Conns : WithoutCounts(cs)[c] # None => WithoutCounts(cs)[c] = counts[c]
  BY DEF WithoutCounts

-----------------------------------------------------------------------------
(* Types                                                                   *)

LEMMA ViewInit == Init => ViewInv
  <1>. SUFFICES ASSUME Init
                PROVE  ViewInv
    OBVIOUS
  <1>1. TypeOK
    <2>1. 0 \in 0 .. MaxRuns /\ left \in 0 .. MaxEvents
      BY ViewAssumption DEF Init
    <2>2. seen \in [Conns -> Seen]
      BY DEF Init, Seen
    <2>. QED
      BY <2>1, <2>2 DEF Init, TypeOK, Services
  <1>2. WorkerInv
    BY DEF Init, WorkerInv
  <1>3. PollInv /\ CountOfThisRun /\ CountNotVoid
    BY DEF Init, PollInv, CountOfThisRun, CountNotVoid
  <1>4. TableInv
    BY DEF Init, TableInv
  <1>. QED
    BY <1>1, <1>2, <1>3, <1>4 DEF ViewInv

\* The host: services, mounts and workers.
LEMMA HostTypes ==
  ASSUME TypeOK, NEW c \in Conns,
         \/ MountLost(c) \/ LegacyStep(c) \/ RunStarts(c) \/ WorkerPrepares(c) \/ RunEnds(c)
  PROVE  TypeOK'
  <1>. USE DEF TypeOK, still, hostVars, applet, viewVars, unitVars, countVars, Services
  <1>1. CASE MountLost(c)
    BY <1>1 DEF MountLost
  <1>2. CASE LegacyStep(c)
    BY <1>2 DEF LegacyStep
  <1>3. CASE RunStarts(c)
    BY <1>3, ViewAssumption DEF RunStarts, WorkerAt
  <1>4. CASE WorkerPrepares(c)
    BY <1>4 DEF WorkerPrepares, PrepareProgress, EmptyLog, NameRun, WorkerAt
  <1>5. CASE RunEnds(c)
    BY <1>5 DEF RunEnds, WorkerAt
  <1>. QED
    BY <1>1, <1>2, <1>3, <1>4, <1>5

\* Inspections and observations.
LEMMA ObservationTypes ==
  ASSUME TypeOK, TableInv,
         \/ InspectionReads \/ MountInspectionCompleted \/ MountInspectionTick
         \/ ObserveUnits \/ ViewAges
  PROVE  TypeOK'
  <1>. USE DEF TypeOK, still, hostVars, viewVars, unitVars, countVars
  <1>1. CASE InspectionReads
    BY <1>1 DEF InspectionReads, Inspection
  <1>2. CASE MountInspectionCompleted
    <2>1. inspection \in Inspection /\ inspection.found \subseteq Conns
      BY <1>2 DEF MountInspectionCompleted, Inspection
    <2>2. inspection' \in Inspection \cup {None} /\ entries' \subseteq Conns /\ obsolete' = FALSE
      BY <1>2, <2>1, NewInspectionType DEF MountInspectionCompleted
    <2>. QED
      BY <1>2, <2>2 DEF MountInspectionCompleted
  <1>3. CASE MountInspectionTick
    BY <1>3, NewInspectionType, ViewAssumption DEF MountInspectionTick, Event
  <1>4. CASE ObserveUnits
    <2>1. PICK units, files \in SUBSET Conns, confirmed \in BOOLEAN :
            LET unread == (Conns \ units) \cup {c \in Conns : ReadFails(c)} IN
            /\ popup \/ fresh # Conns
            /\ fresh' = files \ unread
            /\ seen' = [c \in Conns |->
                 [service |-> IF c \in unread THEN seen[c].service ELSE service[c],
                  timer |-> IF c \in unread THEN seen[c].timer
                            ELSE IF c \in timer THEN "on" ELSE "off",
                  failed |-> c \in Recorded(files)]]
            /\ task' = [c \in Conns |-> IF waiting[c] = None \/ c \notin fresh' THEN task[c]
                        ELSE Decided(c, waiting[c], seen'[c], waiting[c] # "Repair" \/ confirmed)]
            /\ waiting' = [c \in Conns |-> None]
            /\ UNCHANGED <<still, hostVars, popup, viewVars, network, vpn, needsRepair,
                           countVars>>
      BY <1>4 DEF ObserveUnits
    <2>2. seen' \in [Conns -> Seen]
      BY <2>1 DEF Seen
    <2>3. task' \in [Conns -> Ops \cup {None}]
      BY <2>1, DecidedType
    <2>. QED
      BY <2>1, <2>2, <2>3
  <1>5. CASE ViewAges
    BY <1>5 DEF ViewAges
  <1>. QED
    BY <1>1, <1>2, <1>3, <1>4, <1>5

\* The four reads of a poll.
LEMMA PollReadsType ==
  ASSUME TypeOK, NEW p \in polls,
         PollReads(p) \/ PollNames(p) \/ PollMatches(p) \/ PollCounts(p)
  PROVE  polls' \subseteq Poll
  <1>. p \in Poll /\ run[p.conn] \in 0 .. MaxRuns /\ 0 \in 0 .. MaxRuns
    BY ViewAssumption DEF TypeOK, Poll
  <1>1. CASE PollReads(p)
    BY <1>1 DEF PollReads, Becomes, TypeOK, Poll
  <1>2. CASE PollNames(p)
    <2>1. [p EXCEPT !.pc = "read"] \in Poll
      BY DEF Poll
    <2>2. [p EXCEPT !.pc = "named", !.inv = run[p.conn]] \in Poll
      BY DEF Poll
    <2>. QED
      BY <1>2, <2>1, <2>2 DEF PollNames, Becomes, TypeOK
  <1>3. CASE PollMatches(p)
    BY <1>3 DEF PollMatches, Becomes, TypeOK, Poll
  <1>4. CASE PollCounts(p)
    <2>1. PICK v \in Pending(p.conn, p.inv) :
            Becomes(p, [p EXCEPT !.pc = "read", !.count = v, !.inv = 0])
      BY <1>4 DEF PollCounts
    <2>2. v \in {"unknown", "known", "stale"}
      BY DEF Pending
    <2>3. [p EXCEPT !.pc = "read", !.count = v, !.inv = 0] \in Poll
      BY <2>2 DEF Poll
    <2>. QED
      BY <2>1, <2>3 DEF Becomes, TypeOK
  <1>. QED
    BY <1>1, <1>2, <1>3, <1>4

\* The counts: ticks, polls and their results.
LEMMA CountTypes ==
  ASSUME TypeOK, PendingCountTick \/ PollStep \/ PendingCountPolled
  PROVE  TypeOK'
  <1>. USE DEF TypeOK, still, hostVars, viewVars, unitVars
  <1>1. CASE PendingCountTick
    <2>1. counts' \in [Conns -> Count \cup {None}]
      BY <1>1, WithoutType DEF PendingCountTick
    <2>2. PICK due \in SUBSET Conns, recent \in SUBSET Conns :
            /\ inflight' = inflight \cup (due \ recent)
            /\ polls' = polls \cup {NewPoll(c) : c \in due \ recent}
      BY <1>1 DEF PendingCountTick
    <2>3. \A c \in Conns : NewPoll(c) \in Poll
      BY ViewAssumption DEF NewPoll, Poll
    <2>4. inflight' \subseteq Conns /\ polls' \subseteq Poll
      BY <2>2, <2>3
    <2>. QED
      BY <1>1, <2>1, <2>4 DEF PendingCountTick
  <1>2. CASE PollStep
    BY <1>2, PollReadsType DEF PollStep
  <1>3. CASE PendingCountPolled
    <2>1. PICK p \in polls :
            /\ polls' = polls \ {p} /\ inflight' = inflight \ {p.conn}
            /\ counts' = IF Accepted(p)
                         THEN [counts EXCEPT ![p.conn] = [count |-> p.count, before |-> p.before]]
                         ELSE counts
      BY <1>3 DEF PendingCountPolled
    <2>2. [count |-> p.count, before |-> p.before] \in Count /\ p.conn \in Conns
      BY DEF Poll, Count
    <2>3. counts' \in [Conns -> Count \cup {None}]
      BY <2>1, <2>2
    <2>. QED
      BY <1>3, <2>1, <2>3 DEF PendingCountPolled
  <1>. QED
    BY <1>1, <1>2, <1>3

LEMMA EventType ==
  ASSUME TypeOK, Event
  PROVE  left' \in 0 .. MaxEvents /\ kind' = kind /\ enabled' = enabled
  BY ViewAssumption DEF TypeOK, Event

\* The popup, its checks and requests.
LEMMA PopupTypes ==
  ASSUME TypeOK, TableInv,
         \/ PopupOpens \/ PopupCloses \/ VpnStatusChecked \/ NetworkStatusChecked \/ Cleared
         \/ \E c \in Conns, op \in Ops : Press(c, op)
  PROVE  TypeOK'
  <1>. /\ inspection \in Inspection \cup {None} /\ polls \in SUBSET Poll
       /\ counts \in [Conns -> Count \cup {None}]
    BY DEF TypeOK
  <1>1. ClearCounts => counts' \in [Conns -> Count \cup {None}] /\ polls' \subseteq Poll
    BY WithoutType, ExpiredPolls DEF ClearCounts
  <1>. USE DEF TypeOK, still, hostVars, viewVars, unitVars, countVars
  <1>2. CASE PopupOpens
    <2>1. entries' = entries
      BY <1>2 DEF PopupOpens, RefreshMounts
    <2>. QED
      BY <1>1, <1>2, <2>1, Refreshed DEF PopupOpens
  <1>3. CASE PopupCloses
    <2>1. entries' = entries
      BY <1>3 DEF PopupCloses, RefreshMounts
    <2>. QED
      BY <1>3, <2>1, Refreshed, EventType DEF PopupCloses
  <1>4. CASE VpnStatusChecked
    <2>1. PICK ready \in SUBSET Conns, degraded \in SUBSET Conns :
            /\ Event /\ vpn' = ready
            /\ counts' = WithoutCounts(degraded)
            /\ polls' = IF degraded = {} THEN polls ELSE Expired(polls, degraded)
      BY <1>4 DEF VpnStatusChecked
    <2>2. polls' \subseteq Poll
      BY <2>1, ExpiredPolls
    <2>3. counts' \in [Conns -> Count \cup {None}]
      BY <2>1, WithoutType
    <2>. QED
      BY <1>4, <2>1, <2>2, <2>3, EventType DEF VpnStatusChecked
  <1>5. CASE NetworkStatusChecked
    BY <1>1, <1>5, EventType DEF NetworkStatusChecked
  <1>6. CASE Cleared
    BY <1>1, <1>6, EventType DEF Cleared
  <1>7. ASSUME NEW c \in Conns, NEW op \in Ops, Press(c, op)
        PROVE  TypeOK'
    <2>1. counts' \in [Conns -> Count \cup {None}] /\ polls' \subseteq Poll
      BY <1>7, WithoutType, ExpiredPolls DEF Press
    <2>2. task' \in [Conns -> Ops \cup {None}] /\ waiting' \in [Conns -> Ops \cup {None}]
      BY <1>7, DecidedType DEF Press
    <2>. QED
      BY <1>7, <2>1, <2>2, EventType DEF Press
  <1>. QED
    BY <1>2, <1>3, <1>4, <1>5, <1>6, <1>7

\* The end of an operation.
LEMMA CompletedTypes ==
  ASSUME TypeOK, TableInv, NEW c \in Conns, Completed(c)
  PROVE  TypeOK'
  <1>. inspection \in Inspection \cup {None}
    BY DEF TypeOK
  <1>1. inspection' \in Inspection \cup {None} /\ obsolete' \in BOOLEAN /\ entries' = entries
    BY Refreshed DEF Completed, RefreshMounts
  <1>2. /\ host' \subseteq Conns /\ service' \in [Conns -> Services]
        /\ timer' \subseteq Conns /\ record' \subseteq Conns
        /\ worker' \in [Conns -> {"none", "started", "half", "ready"}]
    <2>1. CASE Done(c, task[c])
      <3>1. host' \subseteq Conns /\ timer' \subseteq Conns /\ record' \subseteq Conns
        BY <2>1 DEF Done, TypeOK
      <3>2. service' \in [Conns -> Services]
        BY <2>1 DEF Done, TypeOK, Services
      <3>3. worker' \in [Conns -> {"none", "started", "half", "ready"}]
        BY <2>1 DEF Done, TypeOK
      <3>. QED
        BY <3>1, <3>2, <3>3
    <2>2. CASE ~Done(c, task[c])
      BY <2>2 DEF Completed, TypeOK
    <2>. QED
      BY <2>1, <2>2
  <1>3. counts' \in [Conns -> Count \cup {None}]
    BY WithoutType DEF Completed, TypeOK
  <1>4. needsRepair' \subseteq Conns /\ task' \in [Conns -> Ops \cup {None}]
    BY DEF Completed, RepairRequirement, TypeOK
  <1>. QED
    BY <1>1, <1>2, <1>3, <1>4 DEF Completed, TypeOK, still

LEMMA TypeStep ==
  ASSUME TypeOK, TableInv, [Next]_vars
  PROVE  TypeOK'
  <1>1. CASE Next
    BY <1>1, HostTypes, ObservationTypes, CountTypes, PopupTypes, CompletedTypes DEF Next
  <1>2. CASE UNCHANGED vars
    BY <1>2 DEF vars, still, hostVars, viewVars, unitVars, countVars, TypeOK
  <1>. QED
    BY <1>1, <1>2

-----------------------------------------------------------------------------
(* Worker, polls and counts                                                *)

\* The log never falls back to an earlier run, and it is ahead of the name.
LEMMA WorkerStep ==
  ASSUME TypeOK, WorkerInv, [Next]_vars
  PROVE  WorkerInv' /\ \A c \in Conns : log[c] <= log'[c]
  <1>. /\ run \in [Conns -> Nat] /\ named \in [Conns -> Nat] /\ log \in [Conns -> Nat]
       /\ worker \in [Conns -> {"none", "started", "half", "ready"}]
    BY ViewAssumption DEF TypeOK
  <1>1. ASSUME NEW c \in Conns, RunStarts(c)
        PROVE  WorkerInv' /\ \A d \in Conns : log[d] <= log'[d]
    BY <1>1 DEF RunStarts, WorkerAt, WorkerInv
  <1>2. ASSUME NEW c \in Conns, WorkerPrepares(c)
        PROVE  WorkerInv' /\ \A d \in Conns : log[d] <= log'[d]
    BY <1>2 DEF WorkerPrepares, PrepareProgress, EmptyLog, NameRun, WorkerAt, WorkerInv
  <1>3. ASSUME NEW c \in Conns, RunEnds(c)
        PROVE  WorkerInv' /\ \A d \in Conns : log[d] <= log'[d]
    BY <1>3 DEF RunEnds, WorkerAt, WorkerInv
  <1>4. ASSUME NEW c \in Conns, Completed(c)
        PROVE  WorkerInv' /\ \A d \in Conns : log[d] <= log'[d]
    <2>1. UNCHANGED <<run, named, log>>
      BY <1>4 DEF Completed
    <2>2. worker' = worker \/ worker' = [worker EXCEPT ![c] = "none"]
      BY <1>4 DEF Completed, Done
    <2>. QED
      BY <2>1, <2>2 DEF WorkerInv
  <1>5. CASE UNCHANGED <<run, worker, named, log>>
    BY <1>5 DEF WorkerInv
  <1>6. \/ \E c \in Conns : RunStarts(c) \/ WorkerPrepares(c) \/ RunEnds(c) \/ Completed(c)
        \/ UNCHANGED <<run, worker, named, log>>
    BY DEF Next, vars, hostVars, MountLost, LegacyStep, Press, InspectionReads,
           MountInspectionCompleted, MountInspectionTick, ObserveUnits, ViewAges,
           PendingCountTick, PollStep, PendingCountPolled, PopupOpens, PopupCloses,
           VpnStatusChecked, NetworkStatusChecked, Cleared
  <1>. QED
    BY <1>1, <1>2, <1>3, <1>4, <1>5, <1>6

\* A read of a poll keeps what is known of it.
LEMMA PollReadKept ==
  ASSUME TypeOK, WorkerInv, PollInv, log' = log, NEW p \in polls, p.current,
         PollReads(p) \/ PollNames(p) \/ PollMatches(p) \/ PollCounts(p)
  PROVE  PollInv'
  <1>. /\ p \in Poll /\ p.conn \in Conns /\ p.inv \in Nat /\ ~p.before
       /\ named[p.conn] \in Nat /\ log[p.conn] \in Nat /\ named[p.conn] <= log[p.conn]
       /\ p.pc = "matched" => p.inv <= log[p.conn]
    BY ViewAssumption DEF TypeOK, Poll, PollInv, WorkerInv
  <1>1. ASSUME NEW q, Becomes(p, q), q.before = p.before, q.conn = p.conn,
               q.count # "stale", q.pc = "matched" => q.inv <= log[p.conn]
        PROVE  PollInv'
    BY <1>1 DEF Becomes, PollInv
  <1>2. CASE PollReads(p)
    <2>1. PICK v \in {"unknown", "known"} : Becomes(p, [p EXCEPT !.pc = "read", !.count = v])
      BY <1>2 DEF PollReads
    <2>2. LET q == [p EXCEPT !.pc = "read", !.count = v]
          IN  q.before = p.before /\ q.conn = p.conn /\ q.count = v /\ q.pc = "read"
      BY DEF Poll
    <2>. QED
      BY <1>1, <2>1, <2>2
  <1>3. CASE PollNames(p)
    <2>1. \/ Becomes(p, [p EXCEPT !.pc = "read"])
          \/ Becomes(p, [p EXCEPT !.pc = "named", !.inv = run[p.conn]])
      BY <1>3 DEF PollNames
    <2>2. LET q == [p EXCEPT !.pc = "read"]
          IN  q.before = p.before /\ q.conn = p.conn /\ q.count = p.count /\ q.pc = "read"
      BY DEF Poll
    <2>3. LET q == [p EXCEPT !.pc = "named", !.inv = run[p.conn]]
          IN  q.before = p.before /\ q.conn = p.conn /\ q.count = p.count /\ q.pc = "named"
      BY DEF Poll
    <2>4. p.count # "stale"
      BY DEF PollInv
    <2>. QED
      BY <1>1, <2>1, <2>2, <2>3, <2>4
  <1>4. CASE PollMatches(p)
    <2>. DEFINE q == [p EXCEPT !.pc = IF named[p.conn] = p.inv THEN "matched" ELSE "read",
                               !.inv = IF named[p.conn] = p.inv THEN p.inv ELSE 0]
    <2>1. /\ q.before = p.before /\ q.conn = p.conn /\ q.count = p.count
          /\ q.pc = "matched" => q.inv = p.inv /\ named[p.conn] = p.inv
      BY DEF Poll
    <2>2. Becomes(p, q) /\ p.count # "stale"
      BY <1>4 DEF PollMatches, PollInv
    <2>. HIDE DEF q
    <2>. QED
      BY <1>1, <2>1, <2>2
  <1>5. CASE PollCounts(p)
    <2>1. PICK v \in Pending(p.conn, p.inv) :
            Becomes(p, [p EXCEPT !.pc = "read", !.count = v, !.inv = 0])
      BY <1>5 DEF PollCounts
    <2>2. v # "stale"
      BY <1>5 DEF PollCounts, Pending
    <2>3. LET q == [p EXCEPT !.pc = "read", !.count = v, !.inv = 0]
          IN  q.before = p.before /\ q.conn = p.conn /\ q.count = v /\ q.pc = "read"
      BY DEF Poll
    <2>. QED
      BY <1>1, <2>1, <2>2, <2>3
  <1>. QED
    BY <1>2, <1>3, <1>4, <1>5

\* Polls: a step starts some, reads one, ends some or makes all of them void.
LEMMA PollInvStep ==
  ASSUME TypeOK, WorkerInv, PollInv, [Next]_vars
  PROVE  PollInv'
  <1>. /\ polls \in SUBSET Poll /\ log \in [Conns -> Nat]
       /\ counts \in [Conns -> Count \cup {None}]
    BY ViewAssumption DEF TypeOK
  <1>1. /\ \A c \in Conns : log[c] <= log'[c] /\ log'[c] \in Nat
        /\ TypeOK /\ \A p \in polls : p.conn \in Conns /\ p.inv \in Nat
    <2>1. \A c \in Conns : log'[c] \in Nat
      <3>1. \/ \E c \in Conns : WorkerPrepares(c)
            \/ log' = log
        BY DEF Next, vars, hostVars, MountLost, LegacyStep, RunStarts, RunEnds, Completed, Press,
               InspectionReads, MountInspectionCompleted, MountInspectionTick, ObserveUnits,
               ViewAges, PendingCountTick, PollStep, PendingCountPolled, PopupOpens, PopupCloses,
               VpnStatusChecked, NetworkStatusChecked, Cleared
      <3>. QED
        BY <3>1, HostTypes, ViewAssumption DEF TypeOK
    <2>. QED
      BY <2>1, WorkerStep, ViewAssumption DEF Poll
  <1>2. CASE polls' \subseteq polls
    BY <1>1, <1>2 DEF PollInv
  <1>3. ASSUME NEW cs \in SUBSET Conns, polls' = Expired(polls, cs)
        PROVE  PollInv'
    BY <1>3, ExpiredPolls DEF PollInv
  <1>4. CASE PendingCountTick
    <2>1. PICK due \in SUBSET Conns, recent \in SUBSET Conns :
            polls' = polls \cup {NewPoll(c) : c \in due \ recent}
      BY <1>4 DEF PendingCountTick, TypeOK
    <2>. QED
      BY <1>1, <2>1 DEF PollInv, NewPoll
  <1>5. CASE PollStep
    BY <1>5, PollReadKept DEF PollStep, hostVars
  <1>6. CASE PendingCountPolled
    BY <1>2, <1>6 DEF PendingCountPolled
  <1>7. \/ PendingCountTick \/ PollStep \/ PendingCountPolled
        \/ polls' = polls
        \/ \E cs \in SUBSET Conns : polls' = Expired(polls, cs)
    <2>1. ClearCounts => \E cs \in SUBSET Conns : polls' = Expired(polls, cs)
      BY DEF ClearCounts
    <2>2. CASE VpnStatusChecked
      <3>1. PICK ready \in SUBSET Conns, degraded \in SUBSET Conns :
              /\ Event /\ vpn' = ready
              /\ polls' = IF degraded = {} THEN polls ELSE Expired(polls, degraded)
        BY <2>2 DEF VpnStatusChecked, TypeOK
      <3>. QED
        BY <3>1
    <2>3. CASE \E c \in Conns, op \in Ops : Press(c, op)
      <3>1. PICK c \in Conns : polls' = Expired(polls, {c})
        BY <2>3 DEF Press
      <3>. QED
        BY <3>1
    <2>4. CASE PopupOpens \/ NetworkStatusChecked \/ Cleared
      BY <2>1, <2>4 DEF PopupOpens, NetworkStatusChecked, Cleared
    <2>5. CASE \/ \E c \in Conns : \/ MountLost(c) \/ LegacyStep(c) \/ RunStarts(c)
                                    \/ WorkerPrepares(c) \/ RunEnds(c) \/ Completed(c)
               \/ InspectionReads \/ MountInspectionCompleted \/ MountInspectionTick
               \/ ObserveUnits \/ ViewAges \/ PopupCloses \/ UNCHANGED vars
      BY <2>5 DEF vars, countVars, applet, MountLost, LegacyStep, RunStarts, WorkerPrepares,
                  RunEnds, Completed, InspectionReads, MountInspectionCompleted,
                  MountInspectionTick, ObserveUnits, ViewAges, PopupCloses
    <2>. QED
      BY <2>2, <2>3, <2>4, <2>5 DEF Next
  <1>. QED
    BY <1>2, <1>3, <1>4, <1>5, <1>6, <1>7

\* A count is void or known when it is installed, and otherwise only removed.
LEMMA CountStep ==
  ASSUME TypeOK, PollInv, CountOfThisRun, CountNotVoid, [Next]_vars
  PROVE  CountOfThisRun' /\ CountNotVoid'
  <1>. counts \in [Conns -> Count \cup {None}]
    BY DEF TypeOK
  <1>1. ASSUME NEW cs, counts' = WithoutCounts(cs)
        PROVE  CountOfThisRun' /\ CountNotVoid'
    BY <1>1, WithoutType DEF CountOfThisRun, CountNotVoid
  <1>2. CASE counts' = counts
    BY <1>2 DEF CountOfThisRun, CountNotVoid
  <1>3. CASE PendingCountPolled
    <2>1. PICK p \in polls :
            counts' = IF Accepted(p)
                      THEN [counts EXCEPT ![p.conn] = [count |-> p.count, before |-> p.before]]
                      ELSE counts
      BY <1>3 DEF PendingCountPolled
    <2>2. CASE Accepted(p)
      <3>1. p.conn \in Conns /\ p.count # "stale" /\ ~p.before
        BY <2>2 DEF Accepted, PollInv, TypeOK, Poll
      <3>2. counts' = [counts EXCEPT ![p.conn] = [count |-> p.count, before |-> p.before]]
        BY <2>1, <2>2
      <3>. QED
        BY <3>1, <3>2 DEF CountOfThisRun, CountNotVoid
    <2>3. CASE ~Accepted(p)
      BY <1>2, <2>1, <2>3
    <2>. QED
      BY <2>2, <2>3
  <1>4. \/ PendingCountPolled \/ counts' = counts \/ \E cs : counts' = WithoutCounts(cs)
    <2>1. CASE \/ \E c \in Conns : \/ MountLost(c) \/ LegacyStep(c) \/ RunStarts(c)
                                    \/ WorkerPrepares(c) \/ RunEnds(c)
               \/ InspectionReads \/ MountInspectionCompleted \/ MountInspectionTick
               \/ ObserveUnits \/ ViewAges \/ PollStep \/ PopupCloses \/ UNCHANGED vars
      BY <2>1 DEF vars, countVars, applet, MountLost, LegacyStep, RunStarts, WorkerPrepares,
                  RunEnds, InspectionReads, MountInspectionCompleted, MountInspectionTick,
                  ObserveUnits, ViewAges, PollStep, PopupCloses
    <2>2. CASE \/ \E c \in Conns : Completed(c) \/ \E op \in Ops : Press(c, op)
               \/ PendingCountTick \/ PopupOpens \/ VpnStatusChecked
               \/ NetworkStatusChecked \/ Cleared
      BY <2>2 DEF Completed, Press, PendingCountTick, PopupOpens, VpnStatusChecked,
                  NetworkStatusChecked, Cleared, ClearCounts
    <2>. QED
      BY <2>1, <2>2 DEF Next
  <1>. QED
    BY <1>1, <1>2, <1>3, <1>4

\* The mount table: what an inspection under way read before an operation ended or
\* the popup was opened will be discarded.
LEMMA TableStep ==
  ASSUME TypeOK, TableInv, [Next]_vars
  PROVE  TableInv'
  <1>. inspection \in Inspection \cup {None}
    BY DEF TypeOK
  <1>1. NewInspection # None => ~NewInspection.old
    BY DEF NewInspection
  <1>2. CASE RefreshMounts
    BY <1>2, Refreshed
  <1>3. CASE InspectionReads
    BY <1>3 DEF InspectionReads, Inspection, TableInv
  <1>4. CASE MountInspectionCompleted
    BY <1>1, <1>4 DEF MountInspectionCompleted, TableInv
  <1>5. CASE MountInspectionTick
    BY <1>1, <1>5 DEF MountInspectionTick, TableInv
  <1>6. CASE UNCHANGED viewVars
    BY <1>6 DEF viewVars, TableInv
  <1>7. \/ RefreshMounts \/ InspectionReads \/ MountInspectionCompleted \/ MountInspectionTick
        \/ UNCHANGED viewVars
    BY DEF Next, vars, applet, MountLost, LegacyStep, RunStarts, WorkerPrepares, RunEnds,
           Completed, Press, ObserveUnits, ViewAges, PendingCountTick, PollStep,
           PendingCountPolled, PopupOpens, PopupCloses, VpnStatusChecked,
           NetworkStatusChecked, Cleared
  <1>. QED
    BY <1>2, <1>3, <1>4, <1>5, <1>6, <1>7

-----------------------------------------------------------------------------
(* Theorems                                                                *)

\* The inductive invariant holds in every reachable state: types, a log that is
\* ahead of the name of its run, polls that are void once an event voided them, and
\* inspections that are marked once they are old.
THEOREM ViewInvariance == Spec => []ViewInv
  <1>1. ViewInv /\ [Next]_vars => ViewInv'
    BY TypeStep, WorkerStep, PollInvStep, CountStep, TableStep DEF ViewInv
  <1>. QED
    BY <1>1, ViewInit, PTL DEF Spec

\* Every variable of the popup keeps its type under every step of the applet, the
\* workers and the host.
THEOREM ViewTypes == Spec => []TypeOK
  <1>1. ViewInv => TypeOK
    BY DEF ViewInv
  <1>. QED
    BY <1>1, ViewInvariance, PTL

\* A live count is never that of an earlier run: whatever the number of runs and of
\* polls, the worker's order of its two files and the poll's order of its three
\* reads keep them apart (rclone_mirror_live_pending).
THEOREM CountsOfThisRun == Spec => []CountOfThisRun
  <1>1. ViewInv => CountOfThisRun
    BY DEF ViewInv
  <1>. QED
    BY <1>1, ViewInvariance, PTL

\* No count is shown whose poll began before an event that voids it, for any number
\* of connections, polls and events (pending_poll_generation).
THEOREM CountsNotVoid == Spec => []CountNotVoid
  <1>1. ViewInv => CountNotVoid
    BY DEF ViewInv
  <1>. QED
    BY <1>1, ViewInvariance, PTL

\* An inspection that read the mount table before an operation ended, or before the
\* popup was opened, never replaces the entries (mount_inspection_obsolete).
THEOREM MountsAreCurrent == Spec => MountsCurrent
  <1>1. ViewInv /\ [Next]_vars => [entries' # entries => ~inspection.old]_vars
    <2>. SUFFICES ASSUME ViewInv, [Next]_vars, entries' # entries
                  PROVE  ~inspection.old
      OBVIOUS
    <2>1. MountInspectionCompleted
      BY DEF Next, vars, viewVars, applet, MountLost, LegacyStep, RunStarts, WorkerPrepares,
             RunEnds, Completed, Press, InspectionReads, MountInspectionTick, ObserveUnits,
             ViewAges, PendingCountTick, PollStep, PendingCountPolled, PopupOpens, PopupCloses,
             VpnStatusChecked, NetworkStatusChecked, Cleared, RefreshMounts
    <2>2. inspection # None /\ ~obsolete
      BY <2>1 DEF MountInspectionCompleted
    <2>. QED
      BY <2>2 DEF ViewInv, TableInv
  <1>2. Spec => [][entries' # entries => ~inspection.old]_vars
    BY <1>1, ViewInvariance, PTL DEF Spec
  <1>. QED
    BY <1>2 DEF MountsCurrent

=============================================================================
