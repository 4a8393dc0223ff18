------------------------- MODULE RecoveryRetention -------------------------
(***************************************************************************)
(* The dated recovery directories of the Offline Mirrors: prepare_recovery *)
(* claims today's directory with an owner marker before rclone moves       *)
(* deleted and overwritten files into it, and cleanup_retention removes    *)
(* expired directories after a successful run.                             *)
(*                                                                         *)
(* The connections here have been given the same local recovery root, as   *)
(* saved configurations may, and each holds only the lock of its own       *)
(* connection.  The remote root has the connection id in its path, so it   *)
(* behaves as the instance with a single connection.                       *)
(***************************************************************************)
EXTENDS Integers

CONSTANTS
  Conns,      \* connections that share the recovery root
  User,       \* the user, who may keep own files under a dated name
  Nobody,     \* no owner marker
  UserDays,   \* dated names under which the user may have files
  Retention,  \* RETENTION_DAYS
  Span,       \* most midnights that a run sees before its cleanup
  LastDay,    \* bound: last UTC day of the model
  MaxFaults   \* bound on killed runs and removals that stop half-way

ASSUME RetentionAssumption ==
  /\ User \notin Conns
  /\ Nobody \notin Conns
  /\ Retention \in Nat
  /\ Span \in Nat
  /\ LastDay \in Nat
  /\ UserDays \subseteq 0 .. LastDay
  /\ MaxFaults \in Nat

Days == 0 .. LastDay

\* The calls a transferring run makes on the recovery root.
Stages == {"idle", "validate", "stage", "publish", "engine", "cleanup",
           "delete"}

\* A recovered file: who put it there, and on which day.
Files == [by : Conns \cup {User}, on : Days]

VARIABLES
  now,      \* UTC day of the system clock
  owner,    \* connection id in the owner marker of each day's directory
  files,    \* other files in each day's directory
  staging,  \* runs whose .managed-*.tmp is in the directory; Nobody's are left
  stage,    \* stage of the run of each connection
  day,      \* day that run_transaction computed at its start
  cutoff,   \* cutoff that cleanup_retention computed
  victim,   \* expired directory whose owner was just checked
  faults    \* killed runs and incomplete removals so far

root == <<owner, files, staging>>
retentionVars == <<now, root, stage, day, cutoff, victim, faults>>

RetentionTypeOK ==
  /\ now \in Days
  /\ owner \in [Days -> Conns \cup {Nobody}]
  /\ files \in [Days -> SUBSET Files]
  /\ staging \in [Days -> SUBSET (Conns \cup {Nobody})]
  /\ stage \in [Conns -> Stages]
  /\ day \in [Conns -> Days]
  /\ cutoff \in [Conns -> Int]
  /\ victim \in [Conns -> Days]
  /\ faults \in 0 .. MaxFaults

\* No run yet; the user may have files under dated names.
RetentionInit ==
  /\ now = 0
  /\ owner = [d \in Days |-> Nobody]
  /\ \E used \in SUBSET UserDays :
       files = [d \in Days |-> IF d \in used THEN {[by |-> User, on |-> 0]} ELSE {}]
  /\ staging = [d \in Days |-> {}]
  /\ stage = [c \in Conns |-> "idle"]
  /\ day = [c \in Conns |-> 0]
  /\ cutoff = [c \in Conns |-> 0]
  /\ victim = [c \in Conns |-> 0]
  /\ faults = 0

At(c, s) == stage[c] = s

Go(c, s) == stage' = [stage EXCEPT ![c] = s]

\* The run ends, and what it remembered is forgotten.
Leave(c) ==
  /\ Go(c, "idle")
  /\ day' = [day EXCEPT ![c] = 0]
  /\ cutoff' = [cutoff EXCEPT ![c] = 0]
  /\ victim' = [victim EXCEPT ![c] = 0]

\* utc_day_and_stamp, then create_dir_all of the day's directory.
Begin(c) ==
  /\ At(c, "idle")
  /\ Go(c, "validate")
  /\ day' = [day EXCEPT ![c] = now]
  /\ UNCHANGED <<now, root, cutoff, victim, faults>>

\* Mutant of OwnerAcceptable: a directory without a marker is taken as new.
OwnerAcceptableUnlisted(c, d) == owner[d] \in {c, Nobody}

\* validate_local_owner: our marker, or no marker and an empty directory.
OwnerAcceptable(c, d) ==
  \/ owner[d] = c
  \/ owner[d] = Nobody /\ files[d] = {} /\ staging[d] = {}

Validate(c) ==
  /\ At(c, "validate")
  /\ OwnerAcceptable(c, day[c])
  /\ Go(c, "stage")
  /\ UNCHANGED <<now, root, day, cutoff, victim, faults>>

\* write_atomic: the marker is written under a temporary name ...
StageMarker(c) ==
  /\ At(c, "stage")
  /\ staging' = [staging EXCEPT ![day[c]] = @ \cup {c}]
  /\ Go(c, "publish")
  /\ UNCHANGED <<now, owner, files, day, cutoff, victim, faults>>

\* ... and renamed over the owner marker.
PublishMarker(c) ==
  /\ At(c, "publish")
  /\ c \in staging[day[c]]
  /\ staging' = [staging EXCEPT ![day[c]] = @ \ {c}]
  /\ owner' = [owner EXCEPT ![day[c]] = c]
  /\ Go(c, "engine")
  /\ UNCHANGED <<now, files, day, cutoff, victim, faults>>

\* Preparation or the engine returns an error or is cancelled; write_atomic
\* removes the temporary file of this run, and there is no cleanup.
Fail(c) ==
  /\ stage[c] \in {"validate", "stage", "publish", "engine"}
  /\ staging' = [staging EXCEPT ![day[c]] = @ \ {c}]
  /\ Leave(c)
  /\ UNCHANGED <<now, owner, files, faults>>

\* rclone moves a file into --backup-dir, which names the day of the start.
Backup(c) ==
  /\ At(c, "engine")
  /\ files' = [files EXCEPT ![day[c]] = @ \cup {[by |-> c, on |-> now]}]
  /\ UNCHANGED <<now, owner, staging, stage, day, cutoff, victim, faults>>

\* The engine and its verification succeeded; the cutoff is computed now.
BeginCleanup(c) ==
  /\ At(c, "engine")
  /\ Go(c, "cleanup")
  /\ cutoff' = [cutoff EXCEPT ![c] = now - Retention]
  /\ UNCHANGED <<now, root, day, victim, faults>>

\* Mutant of Expired: the day of the cutoff is deleted as well.
ExpiredInclusive(c, d) == d <= cutoff[c]

\* name >= cutoff is skipped; names of equal length order like days.
Expired(c, d) == d < cutoff[c]

\* An expired directory with our marker; others are skipped with a warning.
FindExpired(c, d) ==
  /\ At(c, "cleanup")
  /\ Expired(c, d)
  /\ owner[d] = c
  /\ victim' = [victim EXCEPT ![c] = d]
  /\ Go(c, "delete")
  /\ UNCHANGED <<now, root, day, cutoff, faults>>

\* remove_dir_all.
Delete(c) ==
  /\ At(c, "delete")
  /\ files' = [files EXCEPT ![victim[c]] = {}]
  /\ owner' = [owner EXCEPT ![victim[c]] = Nobody]
  /\ staging' = [staging EXCEPT ![victim[c]] = {}]
  /\ victim' = [victim EXCEPT ![c] = 0]
  /\ Go(c, "cleanup")
  /\ UNCHANGED <<now, day, cutoff, faults>>

\* remove_dir_all stops half-way, which is only counted; the marker and left
\* temporary files may be among what is gone.
DeletePartly(c) ==
  /\ At(c, "delete")
  /\ faults < MaxFaults
  /\ faults' = faults + 1
  /\ \E left \in SUBSET files[victim[c]] :
       files' = [files EXCEPT ![victim[c]] = left]
  /\ owner' \in {owner, [owner EXCEPT ![victim[c]] = Nobody]}
  /\ \E left \in SUBSET staging[victim[c]] :
       staging' = [staging EXCEPT ![victim[c]] = left]
  /\ victim' = [victim EXCEPT ![c] = 0]
  /\ Go(c, "cleanup")
  /\ UNCHANGED <<now, day, cutoff>>

\* The listing is exhausted or the run is cancelled.
EndCleanup(c) ==
  /\ At(c, "cleanup")
  /\ Leave(c)
  /\ UNCHANGED <<now, root, faults>>

\* The process of the run dies; its temporary file stays behind for good.
Kill(c) ==
  /\ ~At(c, "idle")
  /\ faults < MaxFaults
  /\ faults' = faults + 1
  /\ staging' = IF c \in staging[day[c]]
                THEN [staging EXCEPT ![day[c]] = (@ \ {c}) \cup {Nobody}]
                ELSE staging
  /\ Leave(c)
  /\ UNCHANGED <<now, owner, files>>

\* Midnight in UTC.  Every command of a run has a timeout of at most fifteen
\* minutes on a clock that stands still while the computer sleeps, so a run
\* sees more than one midnight only if the computer sleeps during the run.
Midnight ==
  /\ now < LastDay
  /\ \A c \in Conns :
       stage[c] \notin {"idle", "cleanup", "delete"} => now < day[c] + Span
  /\ now' = now + 1
  /\ UNCHANGED <<root, stage, day, cutoff, victim, faults>>

RunStep(c) ==
  \/ Begin(c) \/ Validate(c) \/ StageMarker(c) \/ PublishMarker(c) \/ Fail(c)
  \/ Backup(c) \/ BeginCleanup(c) \/ Delete(c) \/ DeletePartly(c)
  \/ EndCleanup(c) \/ Kill(c)
  \/ \E d \in Days : FindExpired(c, d)

RetentionNext == Midnight \/ \E c \in Conns : RunStep(c)

RetentionSpec == RetentionInit /\ [][RetentionNext]_retentionVars

-----------------------------------------------------------------------------
(* Properties. *)

Removed(d) == files[d] \ files'[d]

\* No cleanup removes a file too early, even when it was moved after midnight
\* into the directory of the day before, and even when another connection took
\* over the owner marker of the directory.  A run that sees one midnight keeps
\* the full Retention; each further midnight costs a day of it.
KeptForRetention ==
  [][\A d \in Days : \A f \in Removed(d) :
       now - f.on >= Retention + 1 - Span]_retentionVars

\* Files that a user keeps under a dated name survive: a run neither claims
\* such a directory nor removes it.
UserFilesSurvive ==
  [][\A d \in Days : \A f \in Removed(d) : f.by # User]_retentionVars

-----------------------------------------------------------------------------
(* The inductive invariant behind the two action properties. *)

\* A file is at most Span days newer than the name of its directory; a cutoff
\* that a run computed only becomes more cautious as time goes by.
ClockInv ==
  /\ \A d \in Days : \A f \in files[d] : f.on <= d + Span
  /\ \A c \in Conns :
       /\ stage[c] \notin {"idle", "cleanup", "delete"} => now <= day[c] + Span
       /\ stage[c] \in {"cleanup", "delete"} => cutoff[c] <= now - Retention
       /\ stage[c] = "delete" => victim[c] < cutoff[c]

NoUserFile(d) == \A f \in files[d] : f.by # User

\* Directories that are owned, being claimed or being removed are ours.
UserInv ==
  /\ \A d \in Days : owner[d] # Nobody => NoUserFile(d)
  /\ \A c \in Conns :
       /\ stage[c] \in {"stage", "publish"} => NoUserFile(day[c])
       /\ stage[c] = "delete" => NoUserFile(victim[c])

\* Types, the clock and the user's files, inductive together.
RetentionInv == RetentionTypeOK /\ ClockInv /\ UserInv
=============================================================================
