----------------------------- MODULE MountWarmup -----------------------------
(***************************************************************************)
(* The warm-up of one online mount: the directory preload (a find child    *)
(* that walks the mount, all providers but Google Drive) and the rclone    *)
(* refresh (a job of the rclone process, Google Drive).  Each job is known *)
(* in two places that change at different times: the registry of its       *)
(* module, through which Unmount and Repair cancel it, and the job map of  *)
(* the popup, which keeps a second job from being started.                 *)
(*                                                                         *)
(* The module has no next-state relation of its own: OnlineMount composes  *)
(* its actions with the sleep gate and with the mount operations.          *)
(***************************************************************************)
EXTENDS Naturals

CONSTANT MaxJobs     \* bound on the warm-ups of one behaviour

Jobs == 1..MaxJobs

\* probing: refresh start_with before vfs/refresh; started, refused: its result
\* on its way as RcloneRefreshStarted; queued: monitor spawned; run: monitor holds an OnlineOperation;
\* deep: second, recursive phase of a refresh; ended: completion on its way.
JobStages == {"unused", "probing", "started", "refused", "queued", "run", "deep", "ended", "seen"}

VARIABLES
  refresh,      \* the provider is Google Drive (rclone refresh, not preload)
  jobStage,     \* stage of each job
  jobCancelled, \* cancellation token of each job
  jobTok,       \* epoch of the OnlineOperation that the job holds
  registered,   \* entry of ACTIVE_PRELOADS or ACTIVE_REFRESHES, 0 if none
  jobs,         \* entry of directory_preload_jobs or rclone_refresh_jobs
  starting      \* rclone_refresh_starting holds the connection

warmup == <<refresh, jobStage, jobCancelled, jobTok, registered, jobs, starting>>

WarmupTypeOK ==
  /\ refresh \in BOOLEAN
  /\ jobStage \in [Jobs -> JobStages]
  /\ jobCancelled \in [Jobs -> BOOLEAN]
  /\ jobTok \in [Jobs -> Nat]
  /\ registered \in 0..MaxJobs
  /\ jobs \in 0..MaxJobs
  /\ starting \in BOOLEAN

WarmupInit ==
  /\ refresh \in BOOLEAN
  /\ jobStage = [j \in Jobs |-> "unused"]
  /\ jobCancelled = [j \in Jobs |-> FALSE]
  /\ jobTok = [j \in Jobs |-> 0]
  /\ registered = 0
  /\ jobs = 0
  /\ starting = FALSE

\* NEXT_GENERATION: jobs are numbered in the order of their start.
Fresh(j) == jobStage[j] = "unused" /\ \A i \in 1..(j - 1) : jobStage[i] /= "unused"

\* A job whose task holds an OnlineOperation and so keeps the gate busy.
JobAtGate(j) == jobStage[j] \in {"probing", "run", "deep"}

\* A find child of the job may hold a directory of the mount open.
Walking(j) == ~refresh /\ jobStage[j] = "run"

\* finish() that removes the registration of whoever holds it.
UnregisterAny(j) == registered' = 0

\* finish(): the registration is removed only if it is still this job's.
Unregister(j) == registered' = IF registered = j THEN 0 ELSE registered

\* cancel_with_timeout and cancel_with: mark the registered job.
CancelRegistered ==
  jobCancelled' = [j \in Jobs |-> jobCancelled[j] \/ j = registered]

\* directory_preload::start and register_directory_preload: the previous
\* registration is cancelled and replaced, nobody waits for its child.
StartPreload(j) ==
  /\ ~refresh
  /\ Fresh(j)
  /\ jobStage' = [jobStage EXCEPT ![j] = "queued"]
  /\ CancelRegistered
  /\ registered' = j
  /\ jobs' = j
  /\ UNCHANGED <<refresh, jobTok, starting>>

\* rclone_refresh::start_with up to its registration; cancel_with of the
\* previous refresh comes first.  A closed gate ends it.
StartRefresh(j, closed, epoch) ==
  /\ refresh
  /\ Fresh(j)
  /\ starting' = TRUE
  /\ CancelRegistered
  /\ jobStage' = [jobStage EXCEPT ![j] = IF closed THEN "refused" ELSE "probing"]
  /\ jobTok' = [jobTok EXCEPT ![j] = epoch]
  /\ registered' = IF closed THEN 0 ELSE j
  /\ UNCHANGED <<refresh, jobs>>

\* The probes and the submission of start_with: an error, a cancellation or a
\* lost registration finishes the control, else the job id is recorded.
SubmitRefresh(j, cancelledForSleep) ==
  /\ jobStage[j] = "probing"
  /\ \/ /\ ~cancelledForSleep /\ ~jobCancelled[j] /\ registered = j
        /\ jobStage' = [jobStage EXCEPT ![j] = "started"]
        /\ registered' = registered
     \/ /\ jobStage' = [jobStage EXCEPT ![j] = "refused"]
        /\ Unregister(j)
  /\ UNCHANGED <<refresh, jobCancelled, jobTok, jobs, starting>>

\* RcloneRefreshStarted: a start that failed shows a notice; one that raced an
\* unmount cancels whatever refresh is registered; any other is monitored.
RefreshStarted(j, unmounting) ==
  /\ jobStage[j] \in {"started", "refused"}
  /\ starting' = FALSE
  /\ \/ /\ jobStage[j] = "started" /\ ~unmounting
        /\ jobs' = j
        /\ jobStage' = [jobStage EXCEPT ![j] = "queued"]
        /\ UNCHANGED <<registered, jobCancelled>>
     \/ /\ jobStage[j] = "started" /\ unmounting
        /\ jobStage' = [jobStage EXCEPT ![j] = "seen"]
        /\ CancelRegistered
        /\ registered' = 0
        /\ jobs' = jobs
     \/ /\ jobStage[j] = "refused"
        /\ jobStage' = [jobStage EXCEPT ![j] = "seen"]
        /\ UNCHANGED <<registered, jobCancelled, jobs>>
  /\ UNCHANGED <<refresh, jobTok>>

\* The head of both monitors: not current any more, or a closed gate, ends the
\* job; else an OnlineOperation is begun.
MonitorBegin(j, closed, epoch) ==
  /\ jobStage[j] = "queued"
  /\ IF registered = j /\ ~closed
     THEN /\ jobStage' = [jobStage EXCEPT ![j] = "run"]
          /\ jobTok' = [jobTok EXCEPT ![j] = epoch]
          /\ registered' = registered
     ELSE /\ jobStage' = [jobStage EXCEPT ![j] = "ended"]
          /\ Unregister(j)
          /\ jobTok' = jobTok
  /\ UNCHANGED <<refresh, jobCancelled, jobs, starting>>

\* The recursive phase of a refresh starts after the root listing.
MonitorDeepen(j, cancelledForSleep) ==
  /\ refresh
  /\ jobStage[j] = "run"
  /\ ~cancelledForSleep /\ ~jobCancelled[j] /\ registered = j
  /\ jobStage' = [jobStage EXCEPT ![j] = "deep"]
  /\ UNCHANGED <<refresh, jobCancelled, jobTok, registered, jobs, starting>>

\* Both monitors end by completion, deadline, error or cancellation; a
\* cancelled preload first kills and reaps its child (run_preload_command).
MonitorEnd(j) ==
  /\ jobStage[j] \in {"run", "deep"}
  /\ jobStage' = [jobStage EXCEPT ![j] = "ended"]
  /\ Unregister(j)
  /\ UNCHANGED <<refresh, jobCancelled, jobTok, jobs, starting>>

\* DirectoryPreloadCompleted and RcloneRefreshCompleted.  A refresh is matched
\* by the job number of rclone, which starts again with every rclone process:
\* a late completion may match the entry of a newer refresh.
JobCompleted(j) ==
  /\ jobStage[j] = "ended"
  /\ jobStage' = [jobStage EXCEPT ![j] = "seen"]
  /\ \/ jobs' = IF jobs = j THEN 0 ELSE jobs
     \/ refresh /\ jobs' = 0
  /\ UNCHANGED <<refresh, jobCancelled, jobTok, registered, starting>>

\* An entry of the popup's job map has a monitor or a completion under way:
\* start_refresh_for_active_google_mounts and
\* start_preload_for_active_directory_mounts skip a connection with an entry,
\* so one that nobody will remove blocks warm-ups for good.
JobsTracked ==
  jobs /= 0 => jobStage[jobs] \in {"queued", "run", "deep", "ended"}

\* A running preload that is not being cancelled is the registered one: the
\* registry is the only way by which Unmount and Repair reach its child.
PreloadReachable ==
  \A j \in Jobs : Walking(j) => registered = j \/ jobCancelled[j]

==============================================================================
