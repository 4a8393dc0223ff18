--------------------------- MODULE ConnectionEditor ---------------------------
(***************************************************************************)
(* The editor window of one connection (app/editor_actions.rs and the      *)
(* handlers it wraps in app.rs): the draft, the one action that may run,   *)
(* the verdict of Test, the sign-in that creates an rclone remote, and the *)
(* save.  Three providers stand for the flows of all: "Smb" (settings      *)
(* written into the remote, details read back from it, saved at once),     *)
(* "OneDrive" (sign-in and Test bind a drive identity) and "Teams" (the    *)
(* library is verified again by the save).                                 *)
(*                                                                         *)
(* The inputs of a remote (host, account, library URL, secrets) are one    *)
(* value `setup`, and what rclone holds for it is the value it was set up  *)
(* with; `on` stands for the fields that do not reach the remote.  The     *)
(* code compares the revision a request started from with the current one; *)
(* the model keeps the outcome of that comparison (`outdated`), and of the *)
(* details it reads only the newest load, the older ones being dropped by  *)
(* generation.                                                             *)
(* Another window may delete a remote nobody saved uses.                   *)
(***************************************************************************)
CONSTANTS Remotes,    \* names of rclone remotes
          Shared,     \* the one another connection uses already
          Setups,     \* hosts, accounts or libraries
          Providers,
          None

Blank == "blank"

VARIABLES
  provider, adding,
  draft,       \* what the window shows
  saved,       \* the record on disk, or None
  rclone,      \* rclone.conf: what each remote is set up for, or None
  request,     \* the running action, or None
  task,        \* its asynchronous part, or None
  pending,     \* a sign-in or an identity check is under way
  cancelled,   \* its cancellation token
  validated,   \* the connection whose test passed, or None
  ack,         \* the shared remote was pointed out once
  baseline,    \* the setup the remote is known to have (Smb), or None
  prefill,     \* the details being read from the remote, or None
  announced,   \* the record the runtime owner was last told of
  lastPass,    \* history: what passed a test since the last edit, and its remote
  asked        \* history: the shared remote was pointed out since the last edit

windowVars == <<provider, adding>>
history == <<lastPass, asked>>
vars == <<provider, adding, draft, saved, rclone, request, task, pending,
          cancelled, validated, ack, baseline, prefill, announced, lastPass, asked>>

-----------------------------------------------------------------------------
(* What a draft says *)

\* The record a draft would save: for Smb the setup lives in the remote alone,
\* for OneDrive the account is never stored.
Connection(d) ==
  [remote |-> d.remote, on |-> d.on, identity |-> d.identity,
   url |-> IF provider = "Teams" THEN d.setup ELSE Blank]

Changed == saved # Connection(draft)

DisableOnly ==
  saved # None /\ saved.on /\ ~draft.on /\ [Connection(draft) EXCEPT !.on = TRUE] = saved

TestPassed == validated # None /\ validated = Connection(draft)

\* Settings typed for a remote that Connect has not written yet.
UpdatePending ==
  /\ provider = "Smb"
  /\ IF baseline = None THEN saved # None /\ saved.remote = draft.remote /\ draft.setup # Blank
     ELSE baseline # draft.setup

SetupValid == draft.remote # None /\ (provider = "Smb" \/ draft.setup # Blank)

\* Mutant of PreviousIdentity: the editable draft is the authority.
PreviousIdentityDraft == IF provider = "OneDrive" THEN draft.identity ELSE None

\* The identity a OneDrive sign-in must find again: the saved one, never the
\* draft's.
PreviousIdentity == IF provider = "OneDrive" /\ saved # None THEN saved.identity ELSE None

IdentityReady == provider = "OneDrive" => draft.identity # None

Matches(t) == draft.remote = t.remote /\ draft.setup = t.setup

SharedRemote == draft.remote = Shared

-----------------------------------------------------------------------------
Prefill(d) == IF provider = "Smb" THEN [remote |-> d.remote, setup |-> d.setup, read |-> None]
              ELSE None

Configs == Setups \cup {None}

Drafts == [remote : Remotes, setup : Setups \cup {Blank}, on : BOOLEAN, identity : Configs]

Connections == [remote : Remotes, on : BOOLEAN, identity : Configs, url : Setups \cup {Blank}]

Requests == [action : {"Connect", "Test", "Save"}, outdated : BOOLEAN]

Steps == {"start", "absent", "created", "done"}

SetupTasks == [kind : {"Apply", "SignIn", "Verify"}, remote : Remotes, setup : Setups \cup {Blank},
               previous : Configs, step : Steps, created : BOOLEAN, ok : BOOLEAN]

CheckTasks == [kind : {"Access", "Recheck", "Install"}, conn : Connections,
               step : Steps, created : BOOLEAN, ok : BOOLEAN]

Prefills == [remote : Remotes, setup : Setups \cup {Blank}, read : Configs \cup {Blank}]

Passes == [conn : Connections, on : Configs \cup {Blank}]

\* None stands apart from everything a variable can hold otherwise.
ASSUME EditorAssumption ==
  /\ Shared \in Remotes
  /\ None \notin Remotes \cup Setups \cup {Blank}
  /\ None \notin Connections /\ None \notin Requests /\ None \notin Prefills
  /\ None \notin SetupTasks /\ None \notin CheckTasks /\ None \notin Passes

\* A new window, or one of a saved connection.
Init ==
  /\ provider \in Providers /\ adding \in BOOLEAN
  /\ rclone \in {f \in [Remotes -> Configs] : f[Shared] # None}
  /\ \/ /\ adding
        /\ saved = None /\ prefill = None
        /\ draft \in {d \in Drafts : d.setup = Blank /\ d.on /\ d.identity = None}
     \/ /\ ~adding
        /\ \E r \in {x \in Remotes : rclone[x] # None} :
             draft = [remote |-> r, on |-> TRUE,
                      setup |-> IF provider = "Teams" THEN rclone[r] ELSE Blank,
                      identity |-> IF provider = "Smb" THEN None ELSE rclone[r]]
        /\ saved = Connection(draft) /\ prefill = Prefill(draft)
  /\ request = None /\ task = None /\ pending = FALSE /\ cancelled = FALSE
  /\ validated = None /\ ack = FALSE /\ baseline = None /\ announced = saved
  /\ lastPass = None /\ asked = FALSE

-----------------------------------------------------------------------------
(* Editing *)

\* Every edit of the draft outdates a running Test or Save, an edit of the
\* setup a running Connect too; the test and the acknowledgement are void.
Edited(setupToo) ==
  /\ request' = IF request # None /\ (setupToo \/ request.action # "Connect")
                THEN [request EXCEPT !.outdated = TRUE] ELSE request
  /\ validated' = None /\ ack' = FALSE
  /\ lastPass' = None /\ asked' = FALSE
  /\ UNCHANGED <<windowVars, saved, rclone, task, pending, cancelled, announced>>

Baseline == IF baseline = None /\ provider = "Smb" THEN draft.setup ELSE baseline

\* DraftEnabled, and DraftName and the others that do not reach the remote.
EditEnabled ==
  /\ draft' = [draft EXCEPT !.on = ~@]
  /\ baseline' = Baseline
  /\ Edited(FALSE) /\ UNCHANGED prefill

\* DraftSmbHost, DraftOneDriveAccount, DraftSharePointLibraryUrl: the identity
\* found for the old value is gone.
EditSetup ==
  /\ \E v \in Setups \ {draft.setup} : draft' = [draft EXCEPT !.setup = v, !.identity = None]
  /\ baseline' = Baseline
  /\ Edited(TRUE) /\ UNCHANGED prefill

\* DraftRemote: also starts to read the details of the named remote.
EditRemote ==
  /\ \E r \in Remotes \ {draft.remote} : draft' = [draft EXCEPT !.remote = r, !.identity = None]
  /\ baseline' = None
  /\ prefill' = Prefill(draft')
  /\ Edited(TRUE)

\* The dump is read: the details of the remote, or none when it is missing or
\* cannot be read.
PrefillRead ==
  /\ prefill # None /\ prefill.read = None
  /\ \E known \in {rclone[prefill.remote], None} :
       prefill' = [prefill EXCEPT !.read = IF known = None THEN Blank ELSE known]
  /\ UNCHANGED <<windowVars, draft, saved, rclone, request, task, pending, cancelled,
                 validated, ack, baseline, announced, history>>

\* Details count only if the fields still hold what they held at the start.
ContextKept == prefill.remote = draft.remote /\ prefill.setup = draft.setup

\* finish_remote_prefill
PrefillCompleted ==
  /\ prefill # None /\ prefill.read # None
  /\ IF ContextKept
     THEN /\ draft' = IF prefill.read = Blank THEN draft
                      ELSE [draft EXCEPT !.setup = prefill.read]
          /\ baseline' \in {draft'.setup} \cup IF prefill.read = Blank THEN {baseline} ELSE {}
     ELSE UNCHANGED <<draft, baseline>>
  /\ prefill' = None
  /\ UNCHANGED <<windowVars, saved, rclone, request, task, pending, cancelled,
                 validated, ack, announced, history>>

-----------------------------------------------------------------------------
(* Starting an action *)

Ready == request = None /\ prefill = None

Running(action) == [action |-> action, outdated |-> FALSE]

Begin(action, kind) ==
  /\ request' = Running(action)
  /\ task' = [kind |-> kind, remote |-> draft.remote, setup |-> draft.setup,
              previous |-> PreviousIdentity, step |-> "start", created |-> FALSE, ok |-> FALSE]

\* A task that works on the connection as it stands.
Checking(kind, conn) ==
  [kind |-> kind, conn |-> conn, step |-> "start", created |-> FALSE, ok |-> FALSE]

\* Mutant of Connect: the verdict of Test survives a new setup of the remote.
ConnectValidated ==
  /\ Ready /\ SetupValid
  /\ UNCHANGED validated
  /\ pending' = (provider # "Smb")
  /\ draft' = IF provider = "OneDrive" THEN [draft EXCEPT !.identity = None] ELSE draft
  /\ Begin("Connect", IF provider = "Smb" THEN "Apply" ELSE "SignIn")
  /\ UNCHANGED <<windowVars, saved, rclone, cancelled, ack, baseline, prefill, announced, history>>

\* create_smb_rclone_remote, setup_onedrive_rclone(create) or
\* create_sharepoint_rclone_remote.
Connect ==
  /\ Ready /\ SetupValid
  /\ validated' = None
  /\ pending' = (provider # "Smb")
  /\ draft' = IF provider = "OneDrive" THEN [draft EXCEPT !.identity = None] ELSE draft
  /\ Begin("Connect", IF provider = "Smb" THEN "Apply" ELSE "SignIn")
  /\ UNCHANGED <<windowVars, saved, rclone, cancelled, ack, baseline, prefill, announced, history>>

\* test_draft_plan: a OneDrive draft without identity is verified first.
Test ==
  /\ Ready /\ ~UpdatePending /\ SetupValid
  /\ validated' = None
  /\ pending' = ~IdentityReady
  /\ IF IdentityReady
     THEN request' = Running("Test") /\ task' = Checking("Access", Connection(draft))
     ELSE Begin("Test", "Verify")
  /\ UNCHANGED <<windowVars, draft, saved, rclone, cancelled, ack, baseline, prefill,
                 announced, history>>

\* save_validated_draft: the record is replaced, then its units are installed
\* by a task; a store that fails leaves everything.
Persist(conn) ==
  \/ /\ saved' = conn
     /\ request' = Running("Save") /\ task' = Checking("Install", conn)
  \/ saved' = saved /\ request' = None /\ task' = None

SaveAllowed == Ready /\ ~UpdatePending /\ (adding \/ Changed) /\ (DisableOnly \/ TestPassed)

\* The first Save of a remote another connection uses only points it out.
PointOut ==
  /\ SaveAllowed /\ ~DisableOnly /\ SharedRemote /\ ~ack
  /\ ack' = TRUE /\ asked' = TRUE
  /\ UNCHANGED <<windowVars, draft, saved, rclone, request, task, pending, cancelled,
                 validated, baseline, prefill, announced, lastPass>>

Save ==
  /\ SaveAllowed
  /\ DisableOnly \/ ~SharedRemote \/ ack
  /\ ack' = (DisableOnly /\ ack)
  /\ IF provider = "Teams" /\ ~DisableOnly
     THEN /\ request' = Running("Save") /\ task' = Checking("Recheck", Connection(draft))
          /\ UNCHANGED saved
     ELSE Persist(Connection(draft))
  /\ UNCHANGED <<windowVars, draft, rclone, pending, cancelled, validated, baseline, prefill,
                 announced, history>>

\* CancelOneDriveRclone
CancelSignIn ==
  /\ provider = "OneDrive" /\ pending /\ ~cancelled
  /\ cancelled' = TRUE /\ ack' = FALSE
  /\ UNCHANGED <<windowVars, draft, saved, rclone, request, task, pending, validated, baseline,
                 prefill, announced, history>>

-----------------------------------------------------------------------------
(* The asynchronous part *)

At(kind, step) == task # None /\ task.kind = kind /\ task.step = step
End(ok) == task' = [task EXCEPT !.step = "done", !.ok = ok]
taskOnly == <<windowVars, draft, saved, request, pending, cancelled, validated, ack, baseline,
              prefill, announced, asked>>

\* create_smb_rclone_remote_with: a remote it created is removed when creating
\* fails (the removal may fail too), an update needs a value, and the password
\* is written after the rest.  One step here: RemoteSetup has the commands one by
\* one, and their exits without a save; the window only learns how they ended.
Apply ==
  /\ At("Apply", "start")
  /\ \/ /\ rclone[task.remote] # None => task.setup # Blank
        /\ rclone' = [rclone EXCEPT ![task.remote] = task.setup]
        /\ \E ok \in BOOLEAN : End(ok)
     \/ /\ rclone[task.remote] = None
        /\ \E left \in {None, task.setup} : rclone' = [rclone EXCEPT ![task.remote] = left]
        /\ End(FALSE)
     \/ rclone[task.remote] # None /\ UNCHANGED rclone /\ End(FALSE)
  /\ UNCHANGED <<taskOnly, lastPass>>

\* Mutant of Prepare: the remote found is taken over.
PrepareAny ==
  /\ At("SignIn", "start")
  /\ IF cancelled THEN End(FALSE) ELSE task' = [task EXCEPT !.step = "absent"]
  /\ UNCHANGED <<taskOnly, rclone, lastPass>>

\* NewRemote::prepare: a remote of that name must not exist.
Prepare ==
  /\ At("SignIn", "start")
  /\ IF cancelled \/ rclone[task.remote] # None THEN End(FALSE)
     ELSE task' = [task EXCEPT !.step = "absent"]
  /\ UNCHANGED <<taskOnly, rclone, lastPass>>

\* The browser sign-in: the user signs in with any account, or gives up with or
\* without a partial remote.
Create ==
  /\ At("SignIn", "absent")
  /\ \/ cancelled /\ End(FALSE) /\ UNCHANGED rclone
     \/ /\ \E v \in Configs : rclone' = [rclone EXCEPT ![task.remote] = v]
        /\ task' = [task EXCEPT !.step = "created", !.created = TRUE]
  /\ UNCHANGED <<taskOnly, lastPass>>

\* The signed-in account is the expected one, and the drive the saved one.
Accepted ==
  /\ rclone[task.remote] = task.setup
  /\ task.previous \in {None, rclone[task.remote]}

\* Verify what was created; a failure rolls it back, which may fail too.
CheckCreated ==
  /\ At("SignIn", "created")
  /\ \/ Accepted /\ ~cancelled /\ End(TRUE) /\ UNCHANGED rclone
     \/ /\ \E left \in {None, rclone[task.remote]} : rclone' = [rclone EXCEPT ![task.remote] = left]
        /\ End(FALSE)
  /\ UNCHANGED <<taskOnly, lastPass>>

\* onedrive::verify_existing: changes nothing.
Verify ==
  /\ At("Verify", "start")
  /\ \E ok \in {FALSE, Accepted /\ ~cancelled} : End(ok)
  /\ UNCHANGED <<taskOnly, rclone, lastPass>>

\* What the remote answers for this connection: the drive of a Teams library
\* must belong to the URL, a OneDrive drive must be the bound one.
Reaches(conn) ==
  /\ rclone[conn.remote] # None
  /\ provider = "Teams" => rclone[conn.remote] = conn.url
  /\ provider = "OneDrive" => rclone[conn.remote] = conn.identity

Found(conn) == IF provider = "Teams" THEN [conn EXCEPT !.identity = rclone[conn.remote]] ELSE conn

\* test_sharepoint_draft_connection, test_connection_plan_and_access, and the
\* verification a Teams save repeats.
Access ==
  /\ At("Access", "start") \/ At("Recheck", "start")
  /\ \/ /\ Reaches(task.conn)
        /\ task' = [task EXCEPT !.step = "done", !.ok = TRUE, !.conn = Found(@)]
        /\ lastPass' = [conn |-> Found(task.conn), on |-> rclone[task.conn.remote]]
     \/ End(FALSE) /\ UNCHANGED lastPass
  /\ UNCHANGED <<taskOnly, rclone>>

\* install_*_units: the message comes whatever became of the units.
Install ==
  /\ At("Install", "start") /\ End(TRUE)
  /\ UNCHANGED <<taskOnly, rclone, lastPass>>

-----------------------------------------------------------------------------
(* EditorActionFinished: the answer of the running action *)

Answered == task # None /\ task.step = "done"
Usable == Answered /\ ~request.outdated /\ ~cancelled
Closed == request' = None /\ task' = None

\* Mutant of Obsolete: an obsolete save is not announced.
ObsoleteSilent ==
  /\ Answered /\ (request.outdated \/ cancelled)
  /\ Closed /\ pending' = FALSE /\ cancelled' = FALSE /\ validated' = None
  /\ UNCHANGED <<windowVars, draft, saved, rclone, ack, baseline, prefill, announced, history>>
\* Mutant of Obsolete: a cancelled sign-in stays pending.
ObsoletePending ==
  /\ Answered /\ (request.outdated \/ cancelled)
  /\ Closed /\ UNCHANGED <<pending, cancelled>> /\ validated' = None
  /\ announced' = IF task.kind = "Install" THEN saved ELSE announced
  /\ UNCHANGED <<windowVars, draft, saved, rclone, ack, baseline, prefill, history>>

\* The draft moved on or the user cancelled: the answer is dropped, but what a
\* save wrote is announced.
Obsolete ==
  /\ Answered /\ (request.outdated \/ cancelled)
  /\ Closed /\ pending' = FALSE /\ cancelled' = FALSE /\ validated' = None
  /\ announced' = IF task.kind = "Install" THEN saved ELSE announced
  /\ UNCHANGED <<windowVars, draft, saved, rclone, ack, baseline, prefill, history>>

\* SmbRcloneRemoteCreated
Applied ==
  /\ Usable /\ task.kind = "Apply"
  /\ Closed
  /\ IF task.ok
     THEN draft' = [draft EXCEPT !.remote = task.remote] /\ validated' = None
          /\ baseline' = draft'.setup
     ELSE UNCHANGED <<draft, validated, baseline>>
  /\ UNCHANGED <<windowVars, saved, rclone, pending, cancelled, ack, prefill, announced, history>>

\* SharePointRcloneRemoteCreated, and OneDriveRcloneCompleted of a sign-in or of
\* the check a Test starts with.  A OneDrive failure clears the identity and
\* disables the draft; a check that passed goes on with the access test.
SetUp ==
  /\ Usable /\ task.kind \in {"SignIn", "Verify"}
  /\ pending' = FALSE
  /\ validated' = IF provider = "OneDrive" \/ task.ok THEN None ELSE validated
  /\ draft' = IF ~Matches(task) THEN draft
              ELSE IF task.ok THEN [draft EXCEPT !.identity = rclone[task.remote]]
              ELSE IF provider = "OneDrive" THEN [draft EXCEPT !.identity = None, !.on = FALSE]
              ELSE draft
  /\ IF task.kind = "Verify" /\ task.ok
     THEN task' = Checking("Access", Connection(draft')) /\ UNCHANGED request
     ELSE Closed
  /\ UNCHANGED <<windowVars, saved, rclone, cancelled, ack, baseline, prefill, announced, history>>

\* DraftTested: for Teams the draft learns the drive that was found.
Tested ==
  /\ Usable /\ task.kind = "Access"
  /\ Closed
  /\ LET same == [Connection(draft) EXCEPT !.identity = task.conn.identity] = task.conn
         good == task.ok /\ (provider = "Smb" \/ same)
     IN  /\ validated' = IF good THEN task.conn ELSE IF task.ok THEN validated ELSE None
         /\ draft' = IF good THEN [draft EXCEPT !.identity = task.conn.identity] ELSE draft
  /\ UNCHANGED <<windowVars, saved, rclone, pending, cancelled, ack, baseline, prefill,
                 announced, history>>

\* SaveDraftValidated
Rechecked ==
  /\ Usable /\ task.kind = "Recheck"
  /\ IF task.ok THEN Persist(task.conn) ELSE Closed /\ UNCHANGED saved
  /\ UNCHANGED <<windowVars, draft, rclone, pending, cancelled, validated, ack, baseline, prefill,
                 announced, history>>

\* DraftSaved: the runtime owner is told.
Saved ==
  /\ Usable /\ task.kind = "Install"
  /\ Closed /\ ack' = FALSE
  /\ announced' = saved
  /\ UNCHANGED <<windowVars, draft, saved, rclone, pending, cancelled, validated, baseline,
                 prefill, history>>

\* The Manage remotes window deletes a remote no saved connection uses.
RemoveRemote ==
  /\ \E r \in Remotes \ {Shared} :
       /\ rclone[r] # None /\ (saved # None => saved.remote # r)
       /\ rclone' = [rclone EXCEPT ![r] = None]
  /\ UNCHANGED <<taskOnly, task, lastPass>>

-----------------------------------------------------------------------------
Edit == EditEnabled \/ EditSetup \/ EditRemote
Press == Connect \/ Test \/ PointOut \/ Save \/ CancelSignIn
Work == Apply \/ Prepare \/ Create \/ CheckCreated \/ Verify \/ Access \/ Install
Answer == Obsolete \/ Applied \/ SetUp \/ Tested \/ Rechecked \/ Saved

Next == Edit \/ Press \/ Work \/ Answer \/ PrefillRead \/ PrefillCompleted \/ RemoveRemote
Spec == Init /\ [][Next]_vars
\* Every command of a task has a timeout, and its message is delivered.
FairSpec == Spec /\ WF_vars(Work) /\ WF_vars(Answer)

-----------------------------------------------------------------------------
TypeOK ==
  /\ draft \in Drafts /\ rclone \in [Remotes -> Configs \cup {Blank}]
  /\ saved \in Connections \cup {None} /\ validated \in Connections \cup {None}
  /\ request \in Requests \cup {None}
  /\ task \in SetupTasks \cup CheckTasks \cup {None}
  /\ prefill \in Prefills \cup {None}
  /\ lastPass \in Passes \cup {None}
  /\ pending \in BOOLEAN /\ cancelled \in BOOLEAN /\ ack \in BOOLEAN /\ asked \in BOOLEAN

DisabledOnly(old, new) == old # None /\ new = [old EXCEPT !.on = FALSE]

(* What a save stores passed a test as it stands since the last edit, with the   *)
(* remote set up as it still is (or deleted since); only a connection that is    *)
(* merely disabled is stored without one.                                        *)
SavedWasTested ==
  [][saved' # saved =>
       \/ DisabledOnly(saved, saved')
       \/ /\ lastPass # None /\ lastPass.conn = saved'
          /\ rclone[saved'.remote] \in {lastPass.on, None}]_vars

(* A saved OneDrive mirror is never bound to another drive by an edit.           *)
BindingKept ==
  [][(provider = "OneDrive" /\ saved # None) => saved'.identity = saved.identity]_vars

(* A remote another connection uses is saved only when that was pointed out      *)
(* after the last edit of the draft.                                             *)
SharedWasConfirmed ==
  [][(saved' # saved /\ saved'.remote = Shared /\ ~DisabledOnly(saved, saved')) =>
       asked]_vars

(* A setup that fails or is cancelled never takes away or, for a sign-in,        *)
(* retargets a remote that was there before it.                                  *)
FoundRemoteKept ==
  [][(Apply \/ Create \/ CheckCreated) =>
       \A r \in Remotes :
         (rclone[r] # None /\ rclone'[r] # rclone[r]) =>
           task.created \/ (provider = "Smb" /\ rclone'[r] # None)]_vars

(* The window is blocked only while an action runs: a pending sign-in without    *)
(* its request would block Test and Save for good.                               *)
PendingIsRunning == (pending \/ cancelled) => request # None

(* What a save stored reaches the runtime owner, even if the draft moved on.     *)
SavedIsAnnounced == saved # announced ~> saved = announced
=============================================================================
