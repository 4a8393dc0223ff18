------------------------ MODULE ConnectionEditorProofs ------------------------
(***************************************************************************)
(* Proofs about ConnectionEditor for any remotes, setups and providers:    *)
(* what is saved was tested, bindings and remotes that were found are      *)
(* kept, shared remotes are confirmed, and nothing stays pending.          *)
(***************************************************************************)
EXTENDS ConnectionEditor, TLAPS

-----------------------------------------------------------------------------
(* The inductive invariant *)

Kind(K) == task # None /\ task.kind \in K

\* A task belongs to a request, and its kind to the provider and the action.
TaskInv ==
  /\ task = None <=> request = None
  /\ Kind({"Apply"}) => provider = "Smb"
  /\ Kind({"SignIn"}) => provider # "Smb"
  /\ Kind({"Verify"}) => provider = "OneDrive"
  /\ Kind({"Recheck"}) => provider = "Teams"
  /\ Kind({"Access", "Verify"}) => request.action = "Test"
  /\ Kind({"Recheck"}) => request.action = "Save"
  /\ Kind({"SignIn"}) /\ task.step = "absent" => rclone[task.remote] = None
  /\ Kind({"SignIn"}) /\ task.step = "created" => task.created

\* A sign-in or a check is pending only while it runs, and only then cancelled.
PendingInv ==
  /\ pending => Kind({"SignIn", "Verify"})
  /\ cancelled => task # None

\* The acknowledgement is the user's, and so is a shared remote under recheck.
SharedInv ==
  /\ ack => asked
  /\ Kind({"Recheck"}) /\ ~request.outdated /\ task.conn.remote = Shared => asked

\* For OneDrive, every identity around is none or the one that is bound.
BindingInv ==
  provider = "OneDrive" =>
    /\ validated # None => validated.identity # None
    /\ Kind({"Access"}) /\ task.step = "done" /\ task.ok => task.conn.identity # None
    /\ saved # None =>
         /\ saved.identity # None
         /\ draft.identity \in {None, saved.identity}
         /\ validated # None => validated.identity = saved.identity
         /\ Kind({"SignIn", "Verify"}) => task.previous = saved.identity
         /\ Kind({"SignIn", "Verify"}) /\ task.step = "done" /\ task.ok =>
              rclone[task.remote] \in {None, saved.identity}
         /\ Kind({"Access"}) => task.conn.identity \in {None, saved.identity}

\* The last test passed for c, on the remote as it is or as it was before it
\* was deleted.
PassedFor(c) ==
  /\ lastPass # None /\ lastPass.conn = c
  /\ rclone[c.remote] \in {lastPass.on, None}
  /\ provider = "Teams" => c.identity = c.url

\* The verdict and a check that ended well rest on the last test that passed.
TestedInv ==
  /\ validated # None => PassedFor(validated)
  /\ Kind({"Apply", "SignIn", "Verify", "Access"}) => validated = None
  /\ Kind({"Recheck"}) /\ validated # None => validated = task.conn
  /\ Kind({"Access", "Recheck"}) /\ task.step = "done" /\ task.ok /\ ~request.outdated =>
       PassedFor(task.conn)

\* The remotes of the other providers always have a drive.
RcloneInv == provider # "Smb" => rclone \in [Remotes -> Configs]

EditorInv ==
  TypeOK /\ RcloneInv /\ TaskInv /\ PendingInv /\ SharedInv /\ BindingInv /\ TestedInv

-----------------------------------------------------------------------------
(* What the records hold *)

\* The record a draft would save.
LEMMA ConnectionTyped ==
  ASSUME NEW d \in Drafts
  PROVE  /\ Connection(d) \in Connections /\ Connection(d) # None
         /\ Connection(d).remote = d.remote /\ Connection(d).on = d.on
         /\ Connection(d).identity = d.identity
BY EditorAssumption DEF Connection, Connections, Drafts

LEMMA RunningTyped ==
  ASSUME NEW a \in {"Connect", "Test", "Save"}
  PROVE  /\ Running(a) \in Requests /\ Running(a) # None
         /\ Running(a).action = a /\ ~Running(a).outdated
<1>1. Running(a) \in Requests
  BY SMT DEF Running, Requests
<1>2. Running(a).action = a /\ Running(a).outdated = FALSE
  BY SMT DEF Running
<1> QED BY <1>1, <1>2, EditorAssumption

LEMMA CheckingTyped ==
  ASSUME NEW k \in {"Access", "Recheck", "Install"}, NEW c \in Connections
  PROVE  /\ Checking(k, c) \in CheckTasks /\ Checking(k, c) # None
         /\ Checking(k, c).kind = k /\ Checking(k, c).conn = c
         /\ Checking(k, c).step = "start"
<1>1. Checking(k, c) \in CheckTasks
  BY SMT DEF Checking, CheckTasks, Steps
<1>2. /\ Checking(k, c).kind = k /\ Checking(k, c).conn = c
      /\ Checking(k, c).step = "start"
  BY SMT DEF Checking
<1> QED BY <1>1, <1>2, EditorAssumption

\* The identity that a sign-in must find again.
LEMMA PreviousTyped == TypeOK => PreviousIdentity \in Configs
BY DEF TypeOK, PreviousIdentity, Connections, Configs

\* Begin starts an action whose task works on the draft.
LEMMA BeginTyped ==
  ASSUME TypeOK, NEW a \in {"Connect", "Test", "Save"}, NEW k \in {"Apply", "SignIn", "Verify"},
         Begin(a, k)
  PROVE  /\ request' \in Requests /\ request' # None /\ request'.action = a /\ ~request'.outdated
         /\ task' \in SetupTasks /\ task' # None /\ task'.kind = k /\ task'.step = "start"
         /\ task'.remote = draft.remote /\ task'.previous = PreviousIdentity
<1>1. request' \in Requests /\ request' # None /\ request'.action = a /\ ~request'.outdated
  BY RunningTyped DEF Begin
<1>2. task' = [kind |-> k, remote |-> draft.remote, setup |-> draft.setup,
               previous |-> PreviousIdentity, step |-> "start", created |-> FALSE, ok |-> FALSE]
  BY DEF Begin
<1>3. task' \in SetupTasks
  BY <1>2, PreviousTyped DEF TypeOK, Drafts, SetupTasks, Steps
<1> QED BY <1>1, <1>2, <1>3, EditorAssumption

\* End leaves everything of a task but its step and its answer.
LEMMA EndTyped ==
  ASSUME TypeOK, task # None, NEW ok \in BOOLEAN, End(ok)
  PROVE  /\ task' \in SetupTasks \cup CheckTasks /\ task' # None
         /\ task'.kind = task.kind /\ task'.step = "done" /\ task'.ok = ok
         /\ task \in SetupTasks => task'.remote = task.remote /\ task'.previous = task.previous
         /\ task \in CheckTasks => task'.conn = task.conn
<1>1. CASE task \in SetupTasks
  BY <1>1, EditorAssumption DEF End, SetupTasks, CheckTasks, Steps
<1>2. CASE task \in CheckTasks
  BY <1>2, EditorAssumption DEF End, SetupTasks, CheckTasks, Steps
<1> QED BY <1>1, <1>2 DEF TypeOK

\* An edit outdates the running action, except a Connect that it does not touch.
LEMMA EditedTyped ==
  ASSUME TypeOK, NEW setupToo \in BOOLEAN, Edited(setupToo)
  PROVE  /\ request' \in Requests \cup {None} /\ (request' = None <=> request = None)
         /\ request # None => /\ request'.action = request.action
                              /\ request'.outdated \/ request.action = "Connect"
         /\ validated' = None /\ lastPass' = None /\ ack' = FALSE /\ asked' = FALSE
         /\ UNCHANGED <<windowVars, saved, rclone, task, pending, cancelled>>
<1>1. CASE request # None /\ (setupToo \/ request.action # "Connect")
  <2>1. request' = [request EXCEPT !.outdated = TRUE]
    BY <1>1 DEF Edited
  <2>2. request \in Requests
    BY <1>1 DEF TypeOK
  <2>3. request' = [action |-> request.action, outdated |-> TRUE]
    BY <2>1, <2>2 DEF Requests
  <2>4. request.action \in {"Connect", "Test", "Save"}
    BY <2>2, SMT DEF Requests
  <2>5. request' \in Requests
    BY <2>3, <2>4, SMT DEF Requests
  <2>6. request'.action = request.action /\ request'.outdated = TRUE
    BY <2>3, SMT
  <2> QED BY <1>1, <2>5, <2>6, EditorAssumption DEF Edited
<1>2. CASE ~(request # None /\ (setupToo \/ request.action # "Connect"))
  <2>1. request' = request
    BY <1>2 DEF Edited
  <2> QED BY <1>2, <2>1 DEF Edited, TypeOK
<1> QED BY <1>1, <1>2

\* The kind of a task tells what it works on.
LEMMA TaskTyped ==
  ASSUME TypeOK, task # None
  PROVE  /\ task.kind \in {"Apply", "SignIn", "Verify"} <=> task \in SetupTasks
         /\ task.kind \in {"Access", "Recheck", "Install"} <=> task \in CheckTasks
BY DEF TypeOK, SetupTasks, CheckTasks

\* The newest details are read from the remote that the draft names.
LEMMA PrefillTyped ==
  ASSUME NEW d \in Drafts
  PROVE  Prefill(d) \in Prefills \cup {None}
BY DEF Prefill, Prefills, Drafts, Configs

-----------------------------------------------------------------------------
(* Types *)

LEMMA EditTypes == TypeOK /\ Edit => TypeOK'
<1> SUFFICES ASSUME TypeOK, Edit PROVE TypeOK'
  OBVIOUS
<1>1. PICK b \in BOOLEAN : Edited(b)
  BY DEF Edit, EditEnabled, EditSetup, EditRemote
<1>2. draft' \in Drafts
  <2>1. CASE EditEnabled
    BY <2>1 DEF EditEnabled, TypeOK, Drafts
  <2>2. CASE EditSetup
    BY <2>2 DEF EditSetup, TypeOK, Drafts, Configs
  <2>3. CASE EditRemote
    BY <2>3 DEF EditRemote, TypeOK, Drafts, Configs
  <2> QED BY <2>1, <2>2, <2>3 DEF Edit
<1>3. prefill' \in Prefills \cup {None}
  BY <1>2, PrefillTyped DEF Edit, EditEnabled, EditSetup, EditRemote, TypeOK
<1>4. /\ request' \in Requests \cup {None} /\ validated' = None /\ lastPass' = None
      /\ ack' = FALSE /\ asked' = FALSE
      /\ UNCHANGED <<saved, task, pending, cancelled, rclone>>
  BY <1>1, EditedTyped DEF Edited
<1> QED BY <1>2, <1>3, <1>4 DEF TypeOK

LEMMA PrefillTypes == TypeOK /\ (PrefillRead \/ PrefillCompleted) => TypeOK'
<1>1. ASSUME TypeOK, PrefillRead PROVE TypeOK'
  <2>1. prefill' \in Prefills \cup {None}
    BY <1>1 DEF PrefillRead, TypeOK, Prefills, Configs
  <2> QED BY <1>1, <2>1 DEF PrefillRead, TypeOK, history
<1>2. ASSUME TypeOK, PrefillCompleted PROVE TypeOK'
  <2>1. draft' \in Drafts
    BY <1>2 DEF PrefillCompleted, TypeOK, Prefills, Drafts, Configs
  <2> QED BY <1>2, <2>1 DEF PrefillCompleted, TypeOK, history
<1> QED BY <1>1, <1>2

LEMMA RemoveTypes == TypeOK /\ RemoveRemote => TypeOK'
BY DEF RemoveRemote, TypeOK, taskOnly, Configs

LEMMA PressTypes == TypeOK /\ Press => TypeOK'
<1> SUFFICES ASSUME TypeOK, Press PROVE TypeOK'
  OBVIOUS
<1>d. draft \in Drafts
  BY DEF TypeOK
<1>1. CASE Connect
  <2>1. request' \in Requests /\ task' \in SetupTasks
    BY <1>1, BeginTyped DEF Connect
  <2>2. draft' \in Drafts
    BY <1>1, <1>d DEF Connect, Drafts, Configs
  <2> QED BY <1>1, <2>1, <2>2 DEF Connect, TypeOK, history
<1>2. CASE Test
  <2>1. request' \in Requests /\ task' \in SetupTasks \cup CheckTasks
    BY <1>2, <1>d, BeginTyped, RunningTyped, CheckingTyped, ConnectionTyped DEF Test
  <2> QED BY <1>2, <2>1 DEF Test, TypeOK, history, IdentityReady
<1>3. CASE PointOut
  BY <1>3 DEF PointOut, TypeOK
<1>4. CASE Save
  <2>1. /\ request' \in Requests \cup {None} /\ task' \in CheckTasks \cup {None}
        /\ saved' \in Connections \cup {None}
    BY <1>4, <1>d, RunningTyped, CheckingTyped, ConnectionTyped DEF Save, Persist, TypeOK
  <2>2. ack' \in BOOLEAN
    BY <1>4 DEF Save, TypeOK
  <2> QED BY <1>4, <2>1, <2>2 DEF Save, TypeOK, history
<1>5. CASE CancelSignIn
  BY <1>5 DEF CancelSignIn, TypeOK, history
<1> QED BY <1>1, <1>2, <1>3, <1>4, <1>5 DEF Press

\* Every remote of a working task is one of Remotes.
LEMMA WorkTypes == EditorInv /\ Work => TypeOK' /\ RcloneInv'
<1> SUFFICES ASSUME EditorInv, Work PROVE TypeOK' /\ RcloneInv'
  OBVIOUS
<1> USE DEF EditorInv
<1>1. CASE Apply
  <2>1. task \in SetupTasks /\ provider = "Smb"
    BY <1>1, TaskTyped DEF Apply, At, TaskInv, Kind
  <2>2. rclone' \in [Remotes -> Configs \cup {Blank}]
    BY <1>1, <2>1 DEF Apply, TypeOK, SetupTasks, Configs
  <2>3. PICK ok \in BOOLEAN : End(ok)
    BY <1>1 DEF Apply
  <2>4. task' \in SetupTasks \cup CheckTasks
    BY <1>1, <2>3, EndTyped DEF Apply, At
  <2> QED BY <1>1, <2>1, <2>2, <2>4 DEF Apply, taskOnly, windowVars, TypeOK, RcloneInv
<1>2. CASE Prepare
  <2>1. task \in SetupTasks
    BY <1>2, TaskTyped DEF Prepare, At
  <2>2. task' \in SetupTasks \cup CheckTasks
    <3>1. CASE End(FALSE)
      BY <1>2, <3>1, EndTyped DEF Prepare, At
    <3>2. CASE task' = [task EXCEPT !.step = "absent"]
      BY <2>1, <3>2 DEF SetupTasks, Steps
    <3> QED BY <1>2, <3>1, <3>2 DEF Prepare
  <2> QED BY <1>2, <2>2 DEF Prepare, taskOnly, windowVars, TypeOK, RcloneInv
<1>3. CASE Create
  <2>1. task \in SetupTasks /\ provider # "Smb"
    BY <1>3, TaskTyped DEF Create, At, TaskInv, Kind
  <2>2. task' \in SetupTasks \cup CheckTasks
    <3>1. CASE End(FALSE)
      BY <1>3, <3>1, EndTyped DEF Create, At
    <3>2. CASE task' = [task EXCEPT !.step = "created", !.created = TRUE]
      BY <2>1, <3>2 DEF SetupTasks, Steps
    <3> QED BY <1>3, <3>1, <3>2 DEF Create
  <2>3. rclone' \in [Remotes -> Configs]
    BY <1>3, <2>1 DEF Create, RcloneInv
  <2> QED BY <1>3, <2>2, <2>3 DEF Create, taskOnly, windowVars, TypeOK, RcloneInv
<1>4. CASE CheckCreated
  <2>1. task \in SetupTasks /\ provider # "Smb"
    BY <1>4, TaskTyped DEF CheckCreated, At, TaskInv, Kind
  <2>2. PICK ok \in BOOLEAN : End(ok)
    BY <1>4 DEF CheckCreated
  <2>3. task' \in SetupTasks \cup CheckTasks
    BY <1>4, <2>2, EndTyped DEF CheckCreated, At
  <2>4. rclone' \in [Remotes -> Configs]
    BY <1>4, <2>1 DEF CheckCreated, RcloneInv, SetupTasks, Configs
  <2> QED BY <1>4, <2>3, <2>4 DEF CheckCreated, taskOnly, windowVars, TypeOK, RcloneInv
<1>5. CASE Verify
  <2>1. PICK ok \in BOOLEAN : End(ok)
    BY <1>5, Zenon DEF Verify, At, Accepted
  <2>2. task' \in SetupTasks \cup CheckTasks
    BY <1>5, <2>1, EndTyped DEF Verify, At
  <2> QED BY <1>5, <2>2 DEF Verify, taskOnly, windowVars, TypeOK, RcloneInv
<1>6. CASE Access
  <2>1. task \in CheckTasks
    BY <1>6, TaskTyped DEF Access, At
  <2>2. CASE End(FALSE) /\ UNCHANGED lastPass
    <3>1. task' \in SetupTasks \cup CheckTasks
      BY <1>6, <2>2, EndTyped DEF Access, At
    <3> QED BY <1>6, <2>2, <3>1 DEF Access, taskOnly, windowVars, TypeOK, RcloneInv
  <2>3. CASE /\ Reaches(task.conn)
             /\ task' = [task EXCEPT !.step = "done", !.ok = TRUE, !.conn = Found(@)]
             /\ lastPass' = [conn |-> Found(task.conn), on |-> rclone[task.conn.remote]]
    <3>1. task.conn \in Connections /\ task.conn.remote \in Remotes
      BY <2>1 DEF CheckTasks, Connections
    <3>2. Found(task.conn) \in Connections
      BY <3>1 DEF Found, Connections, RcloneInv, Configs
    <3>3. task' \in CheckTasks
      BY <2>1, <2>3, <3>2 DEF CheckTasks, Steps
    <3>4. lastPass' \in Passes
      BY <2>3, <3>1, <3>2 DEF Passes, TypeOK
    <3> QED BY <1>6, <3>3, <3>4 DEF Access, taskOnly, windowVars, TypeOK, RcloneInv
  <2> QED BY <1>6, <2>2, <2>3 DEF Access
<1>7. CASE Install
  <2>1. task' \in SetupTasks \cup CheckTasks
    BY <1>7, EndTyped DEF Install, At
  <2> QED BY <1>7, <2>1 DEF Install, taskOnly, windowVars, TypeOK, RcloneInv
<1> QED BY <1>1, <1>2, <1>3, <1>4, <1>5, <1>6, <1>7 DEF Work

LEMMA AnswerTypes == EditorInv /\ Answer => TypeOK'
<1> SUFFICES ASSUME EditorInv, Answer PROVE TypeOK'
  OBVIOUS
<1> USE DEF EditorInv
<1>d. draft \in Drafts
  BY DEF TypeOK
<1>1. CASE Obsolete
  BY <1>1 DEF Obsolete, Closed, TypeOK, history
<1>2. CASE Applied
  <2>1. task \in SetupTasks
    BY <1>2, TaskTyped DEF Applied, Usable, Answered
  <2>2. draft' \in Drafts /\ validated' \in Connections \cup {None}
    BY <1>2, <1>d, <2>1 DEF Applied, SetupTasks, Drafts, TypeOK
  <2> QED BY <1>2, <2>2 DEF Applied, Closed, TypeOK, history
<1>3. CASE SetUp
  <2>1. task \in SetupTasks /\ provider # "Smb"
    BY <1>3, TaskTyped DEF SetUp, Usable, Answered, TaskInv, Kind
  <2>2. rclone[task.remote] \in Configs
    BY <2>1 DEF SetupTasks, RcloneInv
  <2>3. draft' \in Drafts
    BY <1>3, <1>d, <2>2 DEF SetUp, Drafts, Configs
  <2>4. validated' \in Connections \cup {None}
    BY <1>3 DEF SetUp, TypeOK
  <2>5. task' \in CheckTasks \cup {None} /\ request' \in Requests \cup {None}
    BY <1>3, <2>3, CheckingTyped, ConnectionTyped DEF SetUp, Closed, TypeOK
  <2> QED BY <1>3, <2>3, <2>4, <2>5 DEF SetUp, TypeOK, history
<1>4. CASE Tested
  <2>1. task \in CheckTasks
    BY <1>4, TaskTyped DEF Tested, Usable, Answered
  <2>2. task.conn \in Connections /\ task.conn.identity \in Configs
    BY <2>1 DEF CheckTasks, Connections
  <2>3. draft' \in Drafts /\ validated' \in Connections \cup {None}
    BY <1>4, <1>d, <2>2 DEF Tested, Drafts, TypeOK
  <2> QED BY <1>4, <2>3 DEF Tested, Closed, TypeOK, history
<1>5. CASE Rechecked
  <2>1. task \in CheckTasks
    BY <1>5, TaskTyped DEF Rechecked, Usable, Answered
  <2>2. task.conn \in Connections
    BY <2>1 DEF CheckTasks
  <2>3. /\ request' \in Requests \cup {None} /\ task' \in CheckTasks \cup {None}
        /\ saved' \in Connections \cup {None}
    BY <1>5, <2>2, RunningTyped, CheckingTyped DEF Rechecked, Persist, Closed, TypeOK
  <2> QED BY <1>5, <2>3 DEF Rechecked, TypeOK, history
<1>6. CASE Saved
  BY <1>6 DEF Saved, Closed, TypeOK, history
<1> QED BY <1>1, <1>2, <1>3, <1>4, <1>5, <1>6 DEF Answer

-----------------------------------------------------------------------------
(* Tasks and what is pending *)

\* An edit leaves the task alone, and outdates whatever it could mislead.
LEMMA EditKeepsTask == EditorInv /\ Edit => TaskInv' /\ PendingInv' /\ SharedInv'
<1> SUFFICES ASSUME EditorInv, Edit PROVE TaskInv' /\ PendingInv' /\ SharedInv'
  OBVIOUS
<1> USE DEF EditorInv
<1>1. PICK b \in BOOLEAN : Edited(b)
  BY DEF Edit, EditEnabled, EditSetup, EditRemote
<1>2. /\ request' = None <=> request = None
      /\ request # None => /\ request'.action = request.action
                           /\ request'.outdated \/ request.action = "Connect"
      /\ ack' = FALSE
      /\ UNCHANGED <<windowVars, rclone, task, pending, cancelled>>
  BY <1>1, EditedTyped DEF Edited
<1>3. TaskInv'
  BY <1>2 DEF TaskInv, Kind, windowVars
<1>4. PendingInv'
  BY <1>2 DEF PendingInv, Kind
<1>5. SharedInv'
  BY <1>2 DEF SharedInv, TaskInv, Kind
<1> QED BY <1>3, <1>4, <1>5

LEMMA OtherKeepsTask ==
  EditorInv /\ (PrefillRead \/ PrefillCompleted \/ RemoveRemote) => TaskInv' /\ PendingInv' /\ SharedInv'
<1>1. ASSUME EditorInv, PrefillRead \/ PrefillCompleted
      PROVE  TaskInv' /\ PendingInv' /\ SharedInv'
  BY <1>1 DEF EditorInv, PrefillRead, PrefillCompleted, TaskInv, PendingInv, SharedInv, Kind,
              windowVars, history
<1>2. ASSUME EditorInv, RemoveRemote PROVE  TaskInv' /\ PendingInv' /\ SharedInv'
  <2>1. Kind({"SignIn"}) => task.remote \in Remotes
    BY <1>2, TaskTyped DEF EditorInv, Kind, SetupTasks
  <2> QED BY <1>2, <2>1 DEF EditorInv, RemoveRemote, taskOnly, TaskInv, PendingInv, SharedInv, Kind,
                            windowVars, TypeOK
<1> QED BY <1>1, <1>2

LEMMA PressKeepsTask == EditorInv /\ Press => TaskInv' /\ PendingInv' /\ SharedInv'
<1> SUFFICES ASSUME EditorInv, Press PROVE TaskInv' /\ PendingInv' /\ SharedInv'
  OBVIOUS
<1> USE DEF EditorInv
<1>d. draft \in Drafts
  BY DEF TypeOK
<1>1. CASE Connect
  <2>1. PICK k \in {"Apply", "SignIn"} : /\ Begin("Connect", k) /\ (k = "Apply" <=> provider = "Smb")
    BY <1>1 DEF Connect
  <2>2. /\ request' # None /\ task' # None /\ task'.kind = k /\ task'.step = "start"
    BY <2>1, BeginTyped
  <2>3. /\ pending' = (provider # "Smb") /\ provider' = provider
        /\ UNCHANGED <<ack, asked, cancelled>>
    BY <1>1 DEF Connect, windowVars, history
  <2> QED BY <2>1, <2>2, <2>3 DEF TaskInv, PendingInv, SharedInv, Kind
<1>2. CASE Test
  <2>1. /\ request' # None /\ request'.action = "Test" /\ task' # None /\ task'.step = "start"
        /\ task'.kind = IF IdentityReady THEN "Access" ELSE "Verify"
    BY <1>2, <1>d, BeginTyped, RunningTyped, CheckingTyped, ConnectionTyped DEF Test
  <2>2. /\ pending' = ~IdentityReady /\ provider' = provider
        /\ UNCHANGED <<ack, asked, cancelled>>
    BY <1>2 DEF Test, windowVars, history
  <2> QED BY <2>1, <2>2 DEF TaskInv, PendingInv, SharedInv, Kind, IdentityReady
<1>3. CASE PointOut
  BY <1>3 DEF PointOut, TaskInv, PendingInv, SharedInv, Kind, windowVars
<1>4. CASE Save
  <2>0. /\ task = None /\ request = None /\ ~pending /\ ~cancelled
        /\ UNCHANGED <<provider, pending, cancelled, asked>>
    BY <1>4 DEF Save, SaveAllowed, Ready, TaskInv, PendingInv, Kind, windowVars, history
  <2>1. ack' => asked
    BY <1>4 DEF Save, SharedInv
  <2>2. CASE provider = "Teams" /\ ~DisableOnly
    <3>1. /\ request' # None /\ request'.action = "Save" /\ task' # None
          /\ task'.kind = "Recheck" /\ task'.conn.remote = draft.remote
      BY <1>4, <1>d, <2>2, RunningTyped, CheckingTyped, ConnectionTyped DEF Save
    <3>2. draft.remote = Shared => asked
      BY <1>4, <2>2 DEF Save, SharedRemote, SharedInv
    <3> QED BY <2>0, <2>1, <2>2, <3>1, <3>2 DEF TaskInv, PendingInv, SharedInv, Kind
  <2>3. CASE ~(provider = "Teams" /\ ~DisableOnly)
    <3>1. \/ request' # None /\ request'.action = "Save" /\ task' # None /\ task'.kind = "Install"
          \/ request' = None /\ task' = None
      BY <1>4, <1>d, <2>3, RunningTyped, CheckingTyped, ConnectionTyped DEF Save, Persist
    <3> QED BY <2>0, <2>1, <3>1 DEF TaskInv, PendingInv, SharedInv, Kind
  <2> QED BY <2>2, <2>3
<1>5. CASE CancelSignIn
  BY <1>5 DEF CancelSignIn, TaskInv, PendingInv, SharedInv, Kind, windowVars, history
<1> QED BY <1>1, <1>2, <1>3, <1>4, <1>5 DEF Press

LEMMA WorkKeepsTask == EditorInv /\ Work => TaskInv' /\ PendingInv' /\ SharedInv'
<1> SUFFICES ASSUME EditorInv, Work PROVE TaskInv' /\ PendingInv' /\ SharedInv'
  OBVIOUS
<1> USE DEF EditorInv
<1>1. task # None /\ UNCHANGED <<provider, request, pending, cancelled, ack, asked>>
  BY DEF Work, Apply, Prepare, Create, CheckCreated, Verify, Access, Install, At, taskOnly, windowVars
<1>2. ASSUME NEW ok \in BOOLEAN, End(ok)
      PROVE  TaskInv' /\ PendingInv' /\ SharedInv'
  <2>1. /\ task' # None /\ task'.kind = task.kind /\ task'.step = "done"
        /\ task \in CheckTasks => task'.conn = task.conn
    BY <1>1, <1>2, EndTyped
  <2>2. task.kind = "Recheck" => task'.conn = task.conn
    BY <1>1, <2>1, TaskTyped
  <2> QED BY <1>1, <2>1, <2>2 DEF TaskInv, PendingInv, SharedInv, Kind
<1>3. CASE Prepare /\ task' = [task EXCEPT !.step = "absent"]
  <2>1. task \in SetupTasks
    BY <1>3, TaskTyped DEF Prepare, At
  <2>2. /\ task' \in SetupTasks /\ task'.kind = "SignIn" /\ task'.step = "absent"
        /\ task'.remote = task.remote
    BY <1>3, <2>1 DEF SetupTasks, Steps, Prepare, At
  <2>3. rclone' = rclone /\ ((~cancelled /\ rclone[task.remote] = None) \/ End(FALSE))
    BY <1>3 DEF Prepare
  <2>4. task' # None
    BY <2>2, EditorAssumption
  <2> QED BY <1>1, <1>2, <1>3, <2>2, <2>3, <2>4 DEF TaskInv, PendingInv, SharedInv, Kind, Prepare, At
<1>4. CASE Create /\ task' = [task EXCEPT !.step = "created", !.created = TRUE]
  <2>1. task \in SetupTasks
    BY <1>4, TaskTyped DEF Create, At
  <2>2. /\ task' \in SetupTasks /\ task'.kind = "SignIn" /\ task'.step = "created"
        /\ task'.created
    BY <1>4, <2>1 DEF SetupTasks, Steps, Create, At
  <2>3. task' # None
    BY <2>2, EditorAssumption
  <2> QED BY <1>1, <1>4, <2>2, <2>3 DEF TaskInv, PendingInv, SharedInv, Kind, Create, At
<1>5. CASE /\ Access /\ task' = [task EXCEPT !.step = "done", !.ok = TRUE, !.conn = Found(@)]
  <2>1. task \in CheckTasks
    BY <1>5, TaskTyped DEF Access, At
  <2>2. /\ task'.kind = task.kind /\ task'.step = "done" /\ task'.conn = Found(task.conn)
    BY <1>5, <2>1 DEF CheckTasks
  <2>3. task.conn \in Connections
    BY <2>1 DEF CheckTasks
  <2>4. Found(task.conn).remote = task.conn.remote
    BY <2>3 DEF Found, Connections
  <2>5. Found(task.conn) \in Connections
    BY <2>3 DEF Found, Connections, RcloneInv, Configs
  <2>6. task' \in CheckTasks
    BY <1>5, <2>1, <2>5 DEF CheckTasks, Steps
  <2>7. task' # None
    BY <2>6, EditorAssumption
  <2> QED BY <1>1, <1>5, <2>2, <2>4, <2>7 DEF TaskInv, PendingInv, SharedInv, Kind, Access, At
<1> QED
  BY <1>2, <1>3, <1>4, <1>5, Zenon DEF Work, Apply, Prepare, Create, CheckCreated, Verify, Access, Install, Accepted

LEMMA AnswerKeepsTask == EditorInv /\ Answer => TaskInv' /\ PendingInv' /\ SharedInv'
<1> SUFFICES ASSUME EditorInv, Answer PROVE TaskInv' /\ PendingInv' /\ SharedInv'
  OBVIOUS
<1> USE DEF EditorInv
<1>0. UNCHANGED <<provider, asked, rclone>> /\ (ack' => ack)
  BY DEF Answer, Obsolete, Applied, SetUp, Tested, Rechecked, Saved, windowVars, history
<1>1. ASSUME Closed, ~pending', ~cancelled'
      PROVE  TaskInv' /\ PendingInv' /\ SharedInv'
  BY <1>0, <1>1 DEF Closed, TaskInv, PendingInv, SharedInv, Kind
<1>2. CASE Obsolete
  BY <1>1, <1>2 DEF Obsolete
<1>3. CASE Applied \/ Tested \/ Saved
  <2>1. Closed /\ ~pending' /\ ~cancelled'
    BY <1>3 DEF Applied, Tested, Saved, Usable, Answered, PendingInv, Kind
  <2> QED BY <1>1, <2>1
<1>4. CASE SetUp
  <2>1. ~pending' /\ ~cancelled'
    BY <1>4 DEF SetUp, Usable
  <2>2. CASE Closed
    BY <1>1, <2>1, <2>2
  <2>3. CASE ~Closed
    <3>1. /\ task' = Checking("Access", Connection(draft')) /\ request' = request
          /\ task.kind = "Verify"
      BY <1>4, <2>3 DEF SetUp
    <3>2. draft' \in Drafts
      BY AnswerTypes DEF TypeOK
    <3>3. task' # None /\ task'.kind = "Access" /\ task'.step = "start"
      BY <3>1, <3>2, CheckingTyped, ConnectionTyped
    <3>4. request # None /\ request.action = "Test"
      BY <1>4, <3>1 DEF SetUp, Usable, Answered, TaskInv, Kind
    <3> QED BY <1>0, <2>1, <3>1, <3>3, <3>4 DEF TaskInv, PendingInv, SharedInv, Kind
  <2> QED BY <2>2, <2>3
<1>5. CASE Rechecked
  <2>1. ~pending' /\ ~cancelled'
    BY <1>5 DEF Rechecked, Usable, Answered, PendingInv, Kind
  <2>2. \/ Closed
        \/ request' # None /\ task' # None /\ task'.kind = "Install"
    <3>1. task.conn \in Connections
      BY <1>5, TaskTyped DEF Rechecked, Usable, Answered, CheckTasks
    <3> QED BY <1>5, <3>1, RunningTyped, CheckingTyped DEF Rechecked, Persist, Closed
  <2> QED BY <1>0, <1>1, <2>1, <2>2 DEF TaskInv, PendingInv, SharedInv, Kind
<1> QED BY <1>2, <1>3, <1>4, <1>5 DEF Answer

-----------------------------------------------------------------------------
(* The identity a OneDrive connection is bound to *)

LEMMA EditBinding ==
  EditorInv /\ (Edit \/ PrefillRead \/ PrefillCompleted \/ RemoveRemote) => BindingInv'
<1> USE DEF EditorInv
<1>1. ASSUME EditorInv, Edit PROVE BindingInv'
  <2>1. PICK b \in BOOLEAN : Edited(b)
    BY <1>1 DEF Edit, EditEnabled, EditSetup, EditRemote
  <2>2. /\ validated' = None
        /\ UNCHANGED <<windowVars, saved, rclone, task>>
    BY <1>1, <2>1, EditedTyped DEF Edited
  <2>3. draft'.identity \in {None, draft.identity}
    BY <1>1 DEF Edit, EditEnabled, EditSetup, EditRemote, TypeOK, Drafts
  <2> QED BY <1>1, <2>2, <2>3 DEF BindingInv, Kind, windowVars
<1>2. ASSUME EditorInv, PrefillRead \/ PrefillCompleted PROVE BindingInv'
  <2>1. draft'.identity = draft.identity
    BY <1>2 DEF PrefillRead, PrefillCompleted, TypeOK, Drafts
  <2>2. UNCHANGED <<windowVars, saved, rclone, task, validated>>
    BY <1>2 DEF PrefillRead, PrefillCompleted
  <2> QED BY <1>2, <2>1, <2>2 DEF BindingInv, Kind, windowVars
<1>3. ASSUME EditorInv, RemoveRemote PROVE BindingInv'
  <2>1. Kind({"SignIn", "Verify"}) => task.remote \in Remotes
    BY <1>3, TaskTyped DEF Kind, SetupTasks
  <2>2. \A r \in Remotes : rclone'[r] \in {None, rclone[r]}
    BY <1>3 DEF RemoveRemote, TypeOK
  <2>3. UNCHANGED <<provider, draft, saved, task, validated>>
    BY <1>3 DEF RemoveRemote, taskOnly, windowVars
  <2> QED BY <1>3, <2>1, <2>2, <2>3 DEF BindingInv, Kind
<1> QED BY <1>1, <1>2, <1>3

LEMMA PressBinding == EditorInv /\ Press => BindingInv'
<1> SUFFICES ASSUME EditorInv, Press, provider = "OneDrive" PROVE BindingInv'
  BY DEF BindingInv, Press, Connect, Test, PointOut, Save, CancelSignIn, windowVars
<1> USE DEF EditorInv
<1>d. draft \in Drafts
  BY DEF TypeOK
<1>1. CASE Connect
  <2>1. Begin("Connect", "SignIn")
    BY <1>1 DEF Connect
  <2>2. task' # None /\ task'.kind = "SignIn" /\ task'.step = "start" /\ task'.previous = PreviousIdentity
    BY <2>1, BeginTyped
  <2>3. draft'.identity = None /\ validated' = None /\ saved' = saved
    BY <1>1, <1>d DEF Connect, Drafts
  <2> QED BY <2>2, <2>3 DEF BindingInv, Kind, PreviousIdentity
<1>2. CASE Test
  <2>1. draft' = draft /\ validated' = None /\ saved' = saved
    BY <1>2 DEF Test
  <2>2. CASE IdentityReady
    <3>1. task' = Checking("Access", Connection(draft))
      BY <1>2, <2>2 DEF Test
    <3>2. task' # None /\ task'.kind = "Access" /\ task'.step = "start" /\ task'.conn.identity = draft.identity
      BY <1>d, <3>1, CheckingTyped, ConnectionTyped
    <3> QED BY <2>1, <3>2 DEF BindingInv, Kind
  <2>3. CASE ~IdentityReady
    <3>1. Begin("Test", "Verify")
      BY <1>2, <2>3 DEF Test
    <3>2. task' # None /\ task'.kind = "Verify" /\ task'.step = "start" /\ task'.previous = PreviousIdentity
      BY <3>1, BeginTyped
    <3> QED BY <2>1, <3>2 DEF BindingInv, Kind, PreviousIdentity
  <2> QED BY <2>2, <2>3
<1>3. CASE PointOut
  BY <1>3 DEF PointOut, BindingInv, Kind, windowVars
<1>4. CASE Save
  <2>1. Persist(Connection(draft)) /\ UNCHANGED <<draft, validated>>
    BY <1>4 DEF Save
  <2>2. task' = None \/ task'.kind = "Install"
    BY <1>d, <2>1, CheckingTyped, ConnectionTyped DEF Persist
  <2>3. Connection(draft) # None /\ Connection(draft).identity = draft.identity
    BY <1>d, ConnectionTyped
  <2>4. draft.identity # None
    <3>1. CASE DisableOnly
      <4>1. [Connection(draft) EXCEPT !.on = TRUE].identity = Connection(draft).identity
        BY <1>d, ConnectionTyped DEF Connections
      <4> QED BY <2>3, <3>1, <4>1 DEF DisableOnly, BindingInv
    <3>2. CASE TestPassed
      BY <2>3, <3>2 DEF TestPassed, BindingInv
    <3> QED BY <1>4, <3>1, <3>2 DEF Save, SaveAllowed
  <2>5. validated # None => validated.identity = draft.identity
    <3>1. CASE TestPassed
      BY <2>3, <3>1 DEF TestPassed
    <3>2. CASE DisableOnly
      BY <2>4, <3>2 DEF DisableOnly, BindingInv
    <3> QED BY <1>4, <3>1, <3>2 DEF Save, SaveAllowed
  <2> QED BY <2>1, <2>2, <2>3, <2>4, <2>5 DEF BindingInv, Kind, Persist
<1>5. CASE CancelSignIn
  BY <1>5 DEF CancelSignIn, BindingInv, Kind, windowVars
<1> QED BY <1>1, <1>2, <1>3, <1>4, <1>5 DEF Press

LEMMA WorkBinding == EditorInv /\ Work => BindingInv'
<1> SUFFICES ASSUME EditorInv, Work, provider = "OneDrive" PROVE BindingInv'
  BY DEF BindingInv, Work, Apply, Prepare, Create, CheckCreated, Verify, Access, Install, taskOnly, windowVars
<1> USE DEF EditorInv
<1>1. task # None /\ UNCHANGED <<provider, draft, saved, validated>>
  BY DEF Work, Apply, Prepare, Create, CheckCreated, Verify, Access, Install, At, taskOnly, windowVars
<1>2. ~Apply
  BY DEF Apply, At, TaskInv, Kind
<1>3. ASSUME End(FALSE) PROVE BindingInv'
  <2>1. /\ task' # None /\ task'.kind = task.kind /\ ~task'.ok
        /\ task \in SetupTasks => task'.previous = task.previous
        /\ task \in CheckTasks => task'.conn = task.conn
    BY <1>1, <1>3, EndTyped
  <2> QED BY <1>1, <2>1, TaskTyped DEF BindingInv, Kind
<1>4. CASE Prepare /\ task' = [task EXCEPT !.step = "absent"]
  <2>1. task \in SetupTasks
    BY <1>4, TaskTyped DEF Prepare, At
  <2>2. task'.kind = "SignIn" /\ task'.step = "absent" /\ task'.previous = task.previous
    BY <1>4, <2>1 DEF SetupTasks, Prepare, At
  <2> QED BY <1>1, <1>4, <2>2 DEF BindingInv, Kind, Prepare, At
<1>5. CASE Create /\ task' = [task EXCEPT !.step = "created", !.created = TRUE]
  <2>1. task \in SetupTasks
    BY <1>5, TaskTyped DEF Create, At
  <2>2. task'.kind = "SignIn" /\ task'.step = "created" /\ task'.previous = task.previous
    BY <1>5, <2>1 DEF SetupTasks, Create, At
  <2> QED BY <1>1, <1>5, <2>2 DEF BindingInv, Kind, Create, At
<1>6. CASE (CheckCreated \/ Verify) /\ End(TRUE) /\ Accepted /\ rclone' = rclone
  <2>1. task \in SetupTasks
    BY <1>6, TaskTyped DEF CheckCreated, Verify, At
  <2>2. /\ task' # None /\ task'.kind = task.kind /\ task.kind \in {"SignIn", "Verify"}
        /\ task'.remote = task.remote /\ task'.previous = task.previous
    BY <1>1, <1>6, <2>1, EndTyped DEF CheckCreated, Verify, At
  <2>3. saved # None => rclone[task.remote] = saved.identity
    BY <1>1, <1>6, <2>2 DEF Accepted, BindingInv, Kind
  <2> QED BY <1>1, <1>6, <2>2, <2>3 DEF BindingInv, Kind
<1>7. CASE /\ Access /\ Reaches(task.conn)
           /\ task' = [task EXCEPT !.step = "done", !.ok = TRUE, !.conn = Found(@)]
  <2>1. task \in CheckTasks
    BY <1>7, TaskTyped DEF Access, At
  <2>2. task'.kind = task.kind /\ task'.conn = task.conn
    BY <1>7, <2>1 DEF CheckTasks, Found
  <2>3. task.conn.identity # None
    BY <1>7 DEF Reaches
  <2> QED BY <1>1, <1>7, <2>2, <2>3 DEF BindingInv, Kind, Access, At
<1>8. CASE Install /\ End(TRUE)
  <2>1. task'.kind = "Install"
    BY <1>1, <1>8, EndTyped DEF Install, At
  <2> QED BY <1>1, <2>1 DEF BindingInv, Kind
<1>9. Verify => End(FALSE) \/ (End(TRUE) /\ Accepted /\ rclone' = rclone)
  <2> SUFFICES ASSUME Verify PROVE End(FALSE) \/ (End(TRUE) /\ Accepted /\ rclone' = rclone)
    OBVIOUS
  <2>1. PICK ok \in {FALSE, Accepted /\ ~cancelled} : End(ok)
    BY DEF Verify
  <2>2. CASE Accepted /\ ~cancelled
    <3>1. ok \in BOOLEAN /\ rclone' = rclone
      BY <2>1, <2>2 DEF Verify
    <3> QED BY <2>1, <2>2, <3>1
  <2>3. CASE ~(Accepted /\ ~cancelled)
    <3>1. ok = FALSE
      BY <2>1, <2>3
    <3> QED BY <2>1, <3>1, Zenon
  <2> QED BY <2>2, <2>3
<1> QED
  BY <1>2, <1>3, <1>4, <1>5, <1>6, <1>7, <1>8, <1>9 DEF Work, Prepare, Create, CheckCreated, Access, Install

LEMMA AnswerBinding == EditorInv /\ Answer => BindingInv'
<1> SUFFICES ASSUME EditorInv, Answer, provider = "OneDrive" PROVE BindingInv'
  BY DEF BindingInv, Answer, Obsolete, Applied, SetUp, Tested, Rechecked, Saved, windowVars
<1> USE DEF EditorInv
<1>d. draft \in Drafts
  BY DEF TypeOK
<1>1. ~Applied /\ ~Rechecked
  BY DEF Applied, Rechecked, Usable, Answered, TaskInv, Kind
<1>2. CASE Obsolete
  BY <1>2 DEF Obsolete, Closed, BindingInv, Kind
<1>3. CASE Saved
  BY <1>3 DEF Saved, Closed, BindingInv, Kind
<1>4. CASE SetUp
  <2>1. validated' = None /\ saved' = saved
    BY <1>4 DEF SetUp
  <2>2. saved # None => draft'.identity \in {None, saved.identity}
    BY <1>4, <1>d DEF SetUp, Usable, Answered, BindingInv, Kind, Drafts
  <2>3. task' = None \/ task' = Checking("Access", Connection(draft'))
    BY <1>4 DEF SetUp, Closed
  <2>4. draft' \in Drafts
    BY AnswerTypes DEF TypeOK
  <2>5. task' # None => /\ task'.kind = "Access" /\ task'.step = "start"
                        /\ task'.conn.identity = draft'.identity
    BY <2>3, <2>4, CheckingTyped, ConnectionTyped
  <2> QED BY <2>1, <2>2, <2>5 DEF BindingInv, Kind
<1>5. CASE Tested
  <2>1. Closed /\ saved' = saved /\ task # None /\ task.kind = "Access" /\ task.step = "done"
    BY <1>5 DEF Tested, Usable, Answered
  <2>2. \/ /\ task.ok /\ validated' = task.conn
           /\ draft' = [draft EXCEPT !.identity = task.conn.identity]
        \/ validated' \in {validated, None} /\ draft' = draft
    BY <1>5 DEF Tested
  <2>3. draft' = [draft EXCEPT !.identity = task.conn.identity] => draft'.identity = task.conn.identity
    BY <1>d DEF Drafts
  <2> QED BY <2>1, <2>2, <2>3 DEF BindingInv, Kind, Closed
<1> QED BY <1>1, <1>2, <1>3, <1>4, <1>5 DEF Answer

-----------------------------------------------------------------------------
(* The last test that passed *)

\* An edit voids the verdict and outdates a test that runs.
LEMMA EditTested ==
  EditorInv /\ (Edit \/ PrefillRead \/ PrefillCompleted \/ RemoveRemote) => TestedInv'
<1> USE DEF EditorInv
<1>1. ASSUME EditorInv, Edit PROVE TestedInv'
  <2>1. PICK b \in BOOLEAN : Edited(b)
    BY <1>1 DEF Edit, EditEnabled, EditSetup, EditRemote
  <2>2. /\ validated' = None /\ task' = task
        /\ request # None => request'.outdated \/ request.action = "Connect"
    BY <1>1, <2>1, EditedTyped
  <2>3. Kind({"Access", "Recheck"}) => request'.outdated
    BY <1>1, <2>2 DEF TaskInv, Kind
  <2> QED BY <2>2, <2>3 DEF TestedInv, Kind
<1>2. ASSUME EditorInv, PrefillRead \/ PrefillCompleted PROVE TestedInv'
  BY <1>2 DEF PrefillRead, PrefillCompleted, windowVars, history, TestedInv, PassedFor, Kind
<1>3. ASSUME EditorInv, RemoveRemote PROVE TestedInv'
  <2>1. \A r \in Remotes : rclone'[r] \in {None, rclone[r]}
    BY <1>3 DEF RemoveRemote, TypeOK
  <2>2. UNCHANGED <<provider, request, task, validated, lastPass>>
    BY <1>3 DEF RemoveRemote, taskOnly, windowVars
  <2>3. validated # None => validated.remote \in Remotes
    BY <1>3 DEF TypeOK, Connections
  <2>4. Kind({"Access", "Recheck"}) => task.conn.remote \in Remotes
    BY <1>3, TaskTyped DEF Kind, CheckTasks, Connections
  <2>5. /\ validated # None /\ PassedFor(validated) => PassedFor(validated)'
        /\ Kind({"Access", "Recheck"}) /\ PassedFor(task.conn) => PassedFor(task.conn)'
    BY <2>1, <2>2, <2>3, <2>4 DEF PassedFor
  <2> QED BY <1>3, <2>2, <2>5 DEF TestedInv, Kind
<1> QED BY <1>1, <1>2, <1>3

LEMMA PressTested == EditorInv /\ Press => TestedInv'
<1> SUFFICES ASSUME EditorInv, Press PROVE TestedInv'
  OBVIOUS
<1> USE DEF EditorInv
<1>d. draft \in Drafts
  BY DEF TypeOK
<1>0. UNCHANGED <<provider, rclone, lastPass>>
  BY DEF Press, Connect, Test, PointOut, Save, CancelSignIn, windowVars, history
<1>1. CASE Connect
  <2>1. PICK k \in {"Apply", "SignIn"} : Begin("Connect", k)
    BY <1>1 DEF Connect
  <2>2. validated' = None /\ task'.step = "start"
    BY <1>1, <2>1, BeginTyped DEF Connect
  <2> QED BY <2>2 DEF TestedInv, Kind
<1>2. CASE Test
  <2>1. validated' = None
    BY <1>2 DEF Test
  <2>2. task'.step = "start"
    BY <1>2, <1>d, BeginTyped, CheckingTyped, ConnectionTyped DEF Test
  <2> QED BY <2>1, <2>2 DEF TestedInv, Kind
<1>3. CASE PointOut
  BY <1>3, <1>0 DEF PointOut, TestedInv, Kind, PassedFor
<1>4. CASE Save
  <2>1. validated' = validated
    BY <1>4 DEF Save
  <2>2. CASE provider = "Teams" /\ ~DisableOnly
    <3>1. task' = Checking("Recheck", Connection(draft)) /\ TestPassed
      BY <1>4, <2>2 DEF Save, SaveAllowed
    <3>2. task'.kind = "Recheck" /\ task'.step = "start" /\ task'.conn = Connection(draft)
      BY <1>d, <3>1, CheckingTyped, ConnectionTyped
    <3> QED BY <1>0, <2>1, <3>1, <3>2 DEF TestedInv, Kind, PassedFor, TestPassed
  <2>3. CASE ~(provider = "Teams" /\ ~DisableOnly)
    <3>1. task' = None \/ task'.kind = "Install"
      BY <1>4, <1>d, <2>3, CheckingTyped, ConnectionTyped DEF Save, Persist
    <3> QED BY <1>0, <2>1, <3>1 DEF TestedInv, Kind, PassedFor
  <2> QED BY <2>2, <2>3
<1>5. CASE CancelSignIn
  BY <1>5, <1>0 DEF CancelSignIn, TestedInv, Kind, PassedFor
<1> QED BY <1>1, <1>2, <1>3, <1>4, <1>5 DEF Press

LEMMA WorkTested == EditorInv /\ Work => TestedInv'
<1> SUFFICES ASSUME EditorInv, Work PROVE TestedInv'
  OBVIOUS
<1> USE DEF EditorInv
<1>1. task # None /\ UNCHANGED <<provider, request, validated>>
  BY DEF Work, Apply, Prepare, Create, CheckCreated, Verify, Access, Install, At, taskOnly, windowVars
<1>2. CASE Apply \/ Prepare \/ Create \/ CheckCreated \/ Verify
  <2>1. task \in SetupTasks /\ task.kind \in {"Apply", "SignIn", "Verify"} /\ lastPass' = lastPass
    BY <1>2, TaskTyped DEF Apply, Prepare, Create, CheckCreated, Verify, At
  <2>2. task'.kind = task.kind
    BY <1>2, <2>1 DEF SetupTasks, Apply, Prepare, Create, CheckCreated, Verify, End
  <2> QED BY <1>1, <2>1, <2>2 DEF TestedInv, Kind
<1>3. CASE Install
  <2>1. task'.kind = "Install" /\ lastPass' = lastPass /\ rclone' = rclone
    BY <1>1, <1>3, EndTyped DEF Install, At
  <2> QED BY <1>1, <1>3, <2>1 DEF TestedInv, Kind, Install, At, PassedFor
<1>4. CASE Access /\ End(FALSE) /\ UNCHANGED lastPass
  <2>1. task' # None /\ task'.kind = task.kind /\ ~task'.ok /\ task'.conn = task.conn
    BY <1>1, <1>4, EndTyped, TaskTyped DEF Access, At
  <2>2. rclone' = rclone
    BY <1>4 DEF Access
  <2> QED BY <1>1, <1>4, <2>1, <2>2 DEF TestedInv, Kind, PassedFor
<1>5. CASE /\ Access /\ Reaches(task.conn)
           /\ task' = [task EXCEPT !.step = "done", !.ok = TRUE, !.conn = Found(@)]
           /\ lastPass' = [conn |-> Found(task.conn), on |-> rclone[task.conn.remote]]
  <2>1. task \in CheckTasks
    BY <1>5, TaskTyped DEF Access, At
  <2>2. task'.kind = task.kind /\ task'.conn = Found(task.conn) /\ rclone' = rclone
    BY <1>5, <2>1 DEF CheckTasks, Access
  <2>3. task.conn \in Connections
    BY <2>1 DEF CheckTasks
  <2>4. Found(task.conn) \in Connections /\ Found(task.conn).remote = task.conn.remote
    BY <2>3 DEF Found, Connections, RcloneInv, Configs
  <2>5. lastPass' # None
    <3>1. lastPass' \in Passes
      BY <1>5, <2>3, <2>4 DEF Passes, TypeOK, Connections
    <3> QED BY <3>1, EditorAssumption
  <2>6. provider = "Teams" => Found(task.conn).identity = Found(task.conn).url
    BY <1>5, <2>3 DEF Found, Reaches, Connections
  <2>7. PassedFor(task.conn)'
    BY <1>1, <1>5, <2>2, <2>4, <2>5, <2>6 DEF PassedFor
  <2>8. validated # None => validated = task.conn
    BY <1>1, <1>5 DEF TestedInv, Kind, Access, At
  <2>9. validated # None => Found(task.conn) = task.conn
    <3>1. CASE provider = "Teams" /\ validated # None
      <4>1. task.conn.identity = task.conn.url
        BY <2>8, <3>1 DEF TestedInv, PassedFor
      <4>2. rclone[task.conn.remote] = task.conn.identity
        BY <1>5, <3>1, <4>1 DEF Reaches
      <4> QED BY <2>3, <4>2 DEF Found, Connections
    <3> QED BY <3>1 DEF Found
  <2> QED BY <1>1, <1>5, <2>2, <2>7, <2>8, <2>9 DEF TestedInv, Kind, PassedFor, Access, At
<1> QED BY <1>2, <1>3, <1>4, <1>5 DEF Work, Access

LEMMA AnswerTested == EditorInv /\ Answer => TestedInv'
<1> SUFFICES ASSUME EditorInv, Answer PROVE TestedInv'
  OBVIOUS
<1> USE DEF EditorInv
<1>0. UNCHANGED <<provider, rclone, lastPass>>
  BY DEF Answer, Obsolete, Applied, SetUp, Tested, Rechecked, Saved, windowVars, history
<1>1. CASE Obsolete
  BY <1>1 DEF Obsolete, Closed, TestedInv, Kind
<1>2. CASE Applied
  <2>1. Closed /\ validated' = None
    BY <1>2 DEF Applied, Usable, Answered, TestedInv, Kind
  <2> QED BY <2>1 DEF Closed, TestedInv, Kind
<1>3. CASE SetUp
  <2>1. validated' = None
    BY <1>3 DEF SetUp, Usable, Answered, TestedInv, Kind
  <2>2. draft' \in Drafts
    BY AnswerTypes DEF TypeOK
  <2>3. task' = None \/ task'.step = "start"
    BY <1>3, <2>2, CheckingTyped, ConnectionTyped DEF SetUp, Closed
  <2> QED BY <2>1, <2>3 DEF TestedInv, Kind
<1>4. CASE Tested
  <2>1. Closed /\ validated' \in {task.conn, validated, None} /\ (validated' = task.conn => task.ok \/ task.conn \in {validated, None})
    BY <1>4 DEF Tested
  <2>2. /\ validated = None
        /\ task.ok => PassedFor(task.conn)
    BY <1>4 DEF Tested, Usable, Answered, TestedInv, Kind
  <2> QED BY <1>0, <2>1, <2>2 DEF Closed, TestedInv, Kind, PassedFor
<1>5. CASE Rechecked
  <2>1. task.conn \in Connections
    BY <1>5, TaskTyped DEF Rechecked, Usable, Answered, CheckTasks
  <2>2. (task' = None \/ task'.kind = "Install") /\ validated' = validated
    BY <1>5, <2>1, CheckingTyped DEF Rechecked, Persist, Closed
  <2> QED BY <1>0, <2>2 DEF TestedInv, Kind, PassedFor
<1>6. CASE Saved
  BY <1>0, <1>6 DEF Saved, Closed, TestedInv, Kind, PassedFor
<1> QED BY <1>1, <1>2, <1>3, <1>4, <1>5, <1>6 DEF Answer

-----------------------------------------------------------------------------
(* The theorems *)

\* A new window, and one of a saved connection, satisfy the invariant.
LEMMA InitInv == Init => EditorInv
<1> SUFFICES ASSUME Init PROVE EditorInv
  OBVIOUS
<1>1. rclone \in [Remotes -> Configs]
  BY DEF Init
<1>2. draft \in Drafts
  <2>1. CASE adding
    BY <2>1 DEF Init
  <2>2. CASE ~adding
    <3>1. PICK r \in {x \in Remotes : rclone[x] # None} :
             draft = [remote |-> r, on |-> TRUE,
                      setup |-> IF provider = "Teams" THEN rclone[r] ELSE Blank,
                      identity |-> IF provider = "Smb" THEN None ELSE rclone[r]]
      BY <2>2 DEF Init
    <3>2. rclone[r] \in Setups
      BY <1>1, <3>1 DEF Configs
    <3> QED BY <3>1, <3>2 DEF Drafts, Configs
  <2> QED BY <2>1, <2>2 DEF Init
<1>3. saved \in Connections \cup {None} /\ prefill \in Prefills \cup {None}
  BY <1>2, ConnectionTyped, PrefillTyped DEF Init
<1>4. TypeOK
  BY <1>1, <1>2, <1>3 DEF Init, TypeOK
<1>5. provider = "OneDrive" /\ saved # None => saved.identity # None /\ draft.identity = saved.identity
  <2> SUFFICES ASSUME provider = "OneDrive", saved # None
               PROVE  saved.identity # None /\ draft.identity = saved.identity
    OBVIOUS
  <2>1. PICK r \in {x \in Remotes : rclone[x] # None} :
             draft = [remote |-> r, on |-> TRUE,
                      setup |-> IF provider = "Teams" THEN rclone[r] ELSE Blank,
                      identity |-> IF provider = "Smb" THEN None ELSE rclone[r]]
    BY DEF Init
  <2>2. draft.identity # None
    BY <2>1
  <2>3. saved = Connection(draft)
    BY DEF Init
  <2> QED BY <1>2, <2>2, <2>3, ConnectionTyped
<1> QED
  BY <1>1, <1>4, <1>5 DEF Init, EditorInv, RcloneInv, TaskInv, PendingInv, SharedInv, BindingInv,
                          TestedInv, Kind

\* Every step of the window, of its tasks and of the user keeps the invariant.
LEMMA NextInv == EditorInv /\ [Next]_vars => EditorInv'
<1> SUFFICES ASSUME EditorInv, [Next]_vars PROVE EditorInv'
  OBVIOUS
<1>1. CASE Edit
  <2>1. RcloneInv'
    BY <1>1 DEF Edit, EditEnabled, EditSetup, EditRemote, Edited, EditorInv, RcloneInv, windowVars
  <2> QED BY <1>1, <2>1, EditTypes, EditKeepsTask, EditBinding, EditTested DEF EditorInv
<1>2. CASE PrefillRead \/ PrefillCompleted \/ RemoveRemote
  <2>1. RcloneInv'
    BY <1>2 DEF PrefillRead, PrefillCompleted, RemoveRemote, taskOnly, EditorInv, RcloneInv,
                windowVars, Configs
  <2> QED BY <1>2, <2>1, PrefillTypes, RemoveTypes, OtherKeepsTask, EditBinding, EditTested DEF EditorInv
<1>3. CASE Press
  <2>1. RcloneInv'
    BY <1>3 DEF Press, Connect, Test, PointOut, Save, CancelSignIn, EditorInv, RcloneInv, windowVars
  <2> QED BY <1>3, <2>1, PressTypes, PressKeepsTask, PressBinding, PressTested DEF EditorInv
<1>4. CASE Work
  BY <1>4, WorkTypes, WorkKeepsTask, WorkBinding, WorkTested DEF EditorInv
<1>5. CASE Answer
  <2>1. RcloneInv'
    BY <1>5 DEF Answer, Obsolete, Applied, SetUp, Tested, Rechecked, Saved, EditorInv, RcloneInv,
                windowVars
  <2> QED BY <1>5, <2>1, AnswerTypes, AnswerKeepsTask, AnswerBinding, AnswerTested DEF EditorInv
<1>6. CASE UNCHANGED vars
  BY <1>6 DEF vars, windowVars, history, EditorInv, TypeOK, RcloneInv, TaskInv, PendingInv, SharedInv,
              BindingInv, TestedInv, PassedFor, Kind
<1> QED BY <1>1, <1>2, <1>3, <1>4, <1>5, <1>6 DEF Next

\* The inductive invariant holds for any remotes, setups and providers.
THEOREM EditorInvariance == Spec => []EditorInv
BY InitInv, NextInv, PTL DEF Spec

\* A pending or cancelled sign-in has its request, so no edit, answer or
\* cancellation leaves the window blocked for good.
THEOREM PendingRuns == Spec => []PendingIsRunning
<1>1. EditorInv => PendingIsRunning
  BY DEF EditorInv, PendingInv, TaskInv, Kind, PendingIsRunning
<1> QED BY <1>1, EditorInvariance, PTL

\* Only Save and the answer of the recheck write the record.
LEMMA Written ==
  ASSUME EditorInv, [Next]_vars, saved' # saved
  PROVE  /\ UNCHANGED <<provider, rclone, draft, asked>>
         /\ \/ /\ Save /\ saved' = Connection(draft)
            \/ /\ Rechecked /\ Kind({"Recheck"}) /\ task.ok /\ task.step = "done"
               /\ ~request.outdated /\ saved' = task.conn
<1>1. Save \/ Rechecked
  BY DEF Next, Edit, EditEnabled, EditSetup, EditRemote, Edited, Press, Connect, Test, PointOut,
         CancelSignIn, Work, Apply, Prepare, Create, CheckCreated, Verify, Access, Install, taskOnly,
         Answer, Obsolete, Applied, SetUp, Tested, Saved, PrefillRead, PrefillCompleted, RemoveRemote,
         vars
<1>2. CASE Save
  BY <1>2 DEF Save, Persist, windowVars, history
<1>3. CASE Rechecked
  BY <1>3 DEF Rechecked, Persist, Usable, Answered, Kind, windowVars, history
<1> QED BY <1>1, <1>2, <1>3

\* The only save without a test turns a connection off.
LEMMA DisableOnlyMeans == EditorInv /\ DisableOnly => DisabledOnly(saved, Connection(draft))
<1> SUFFICES ASSUME EditorInv, DisableOnly PROVE DisabledOnly(saved, Connection(draft))
  OBVIOUS
<1>1. Connection(draft) \in Connections /\ Connection(draft).on = FALSE
  BY ConnectionTyped DEF EditorInv, TypeOK, DisableOnly, Drafts
<1>2. [Connection(draft) EXCEPT !.on = TRUE] = saved /\ saved # None
  BY DEF DisableOnly
<1>3. Connection(draft) = [saved EXCEPT !.on = FALSE]
  BY <1>1, <1>2 DEF Connections
<1> QED BY <1>2, <1>3 DEF DisabledOnly

\* A save stores only what passed a test since the last edit, on the remote as
\* it still is, unless it turns the connection off.
THEOREM SavesWereTested == Spec => SavedWasTested
<1>1. ASSUME EditorInv, [Next]_vars, saved' # saved
      PROVE  \/ DisabledOnly(saved, saved')
             \/ /\ lastPass # None /\ lastPass.conn = saved'
                /\ rclone[saved'.remote] \in {lastPass.on, None}
  <2>1. CASE Save /\ saved' = Connection(draft)
    <3>1. CASE DisableOnly
      BY <1>1, <2>1, <3>1, DisableOnlyMeans
    <3>2. CASE TestPassed
      <4>1. PassedFor(validated) /\ validated = saved'
        BY <1>1, <2>1, <3>2 DEF TestPassed, EditorInv, TestedInv
      <4> QED BY <4>1 DEF PassedFor
    <3> QED BY <2>1, <3>1, <3>2 DEF Save, SaveAllowed
  <2>2. CASE /\ Kind({"Recheck"}) /\ task.ok /\ task.step = "done"
             /\ ~request.outdated /\ saved' = task.conn
    BY <1>1, <2>2 DEF EditorInv, TestedInv, Kind, PassedFor
  <2> QED BY <1>1, <2>1, <2>2, Written
<1>2. EditorInv /\ [Next]_vars => [saved' # saved =>
       \/ DisabledOnly(saved, saved')
       \/ /\ lastPass # None /\ lastPass.conn = saved'
          /\ rclone[saved'.remote] \in {lastPass.on, None}]_vars
  BY <1>1
<1> QED BY <1>2, EditorInvariance, PTL DEF Spec, SavedWasTested

\* No edit, sign-in, test or save gives a saved OneDrive connection another drive.
THEOREM BindingsKept == Spec => BindingKept
<1>1. ASSUME EditorInv, EditorInv', [Next]_vars, provider = "OneDrive", saved # None
      PROVE  saved'.identity = saved.identity
  <2> SUFFICES ASSUME saved' # saved PROVE saved'.identity = saved.identity
    OBVIOUS
  <2>1. ~Kind({"Recheck"})
    BY <1>1 DEF EditorInv, TaskInv
  <2>2. saved' = Connection(draft) /\ provider' = provider
    BY <1>1, <2>1, Written
  <2>3. saved' # None /\ saved'.identity = draft.identity
    BY <1>1, <2>2, ConnectionTyped DEF EditorInv, TypeOK
  <2> QED BY <1>1, <2>2, <2>3 DEF EditorInv, BindingInv
<1>2. EditorInv /\ EditorInv' /\ [Next]_vars =>
        [(provider = "OneDrive" /\ saved # None) => saved'.identity = saved.identity]_vars
  BY <1>1
<1> QED BY <1>2, EditorInvariance, PTL DEF Spec, BindingKept

\* A remote that another connection uses is stored only after the user was
\* shown that since the last edit.
THEOREM SharedConfirmed == Spec => SharedWasConfirmed
<1>1. ASSUME EditorInv, [Next]_vars, saved' # saved, saved'.remote = Shared,
             ~DisabledOnly(saved, saved')
      PROVE  asked
  <2>1. CASE Save /\ saved' = Connection(draft)
    <3>1. ~DisableOnly
      BY <1>1, <2>1, DisableOnlyMeans
    <3>2. SharedRemote
      BY <1>1, <2>1, ConnectionTyped DEF EditorInv, TypeOK, SharedRemote
    <3> QED BY <1>1, <2>1, <3>1, <3>2 DEF Save, EditorInv, SharedInv
  <2>2. CASE /\ Kind({"Recheck"}) /\ task.ok /\ task.step = "done"
             /\ ~request.outdated /\ saved' = task.conn
    BY <1>1, <2>2 DEF EditorInv, SharedInv
  <2> QED BY <1>1, <2>1, <2>2, Written
<1>2. EditorInv /\ [Next]_vars =>
        [(saved' # saved /\ saved'.remote = Shared /\ ~DisabledOnly(saved, saved')) => asked]_vars
  BY <1>1
<1> QED BY <1>2, EditorInvariance, PTL DEF Spec, SharedWasConfirmed

\* A setup that fails or is cancelled keeps every remote that was there before it.
THEOREM FoundRemotesKept == Spec => FoundRemoteKept
<1>1. ASSUME EditorInv, Apply \/ Create \/ CheckCreated, NEW r \in Remotes,
             rclone[r] # None, rclone'[r] # rclone[r]
      PROVE  task.created \/ (provider = "Smb" /\ rclone'[r] # None)
  <2>0. rclone \in [Remotes -> Configs \cup {Blank}]
    BY <1>1 DEF EditorInv, TypeOK
  <2>1. CASE Apply
    <3>1. provider = "Smb" /\ task \in SetupTasks
      BY <1>1, <2>1, TaskTyped DEF Apply, At, EditorInv, TaskInv, Kind
    <3>2. task.setup # None
      BY <3>1, EditorAssumption DEF SetupTasks
    <3> QED BY <1>1, <2>0, <2>1, <3>1, <3>2 DEF Apply
  <2>2. CASE Create
    <3>1. rclone[task.remote] = None
      BY <1>1, <2>2 DEF Create, At, EditorInv, TaskInv, Kind
    <3> QED BY <1>1, <2>0, <2>2, <3>1 DEF Create
  <2>3. CASE CheckCreated
    BY <1>1, <2>3 DEF CheckCreated, At, EditorInv, TaskInv, Kind
  <2> QED BY <1>1, <2>1, <2>2, <2>3
<1>2. EditorInv /\ [Next]_vars =>
        [(Apply \/ Create \/ CheckCreated) =>
           \A r \in Remotes :
             (rclone[r] # None /\ rclone'[r] # rclone[r]) =>
               task.created \/ (provider = "Smb" /\ rclone'[r] # None)]_vars
  BY <1>1
<1> QED BY <1>2, EditorInvariance, PTL DEF Spec, FoundRemoteKept
===============================================================================
