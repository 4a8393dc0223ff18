----------------------------- MODULE RemoteSetup -----------------------------
(***************************************************************************)
(* What several settings windows do to rclone.conf.  Every window is a     *)
(* process of its own (launch_settings_process): "add" and "modify" set up *)
(* remotes for Google Drive, Box, SMB, SFTP, OneDrive and Teams, "manage"  *)
(* deletes remotes no saved connection uses.  A setup is a chain of rclone *)
(* commands, each of which may fail before or after it wrote, or exit with *)
(* success although rclone could not save the file, and between which the  *)
(* other windows run theirs; only what the applet itself created may be    *)
(* rolled back.  The sign-in of onedriver, which has no section in         *)
(* rclone.conf, works on the cache directory of the connection and depends *)
(* on the mounts that are active when it ends.                             *)
(*                                                                         *)
(* One rclone command is one step.  Of a section of rclone.conf the model  *)
(* keeps the backend, whom it is logged in as, the drive it is bound to    *)
(* and, for SFTP, the authentication options.  "own" is the account (and   *)
(* its drive) the user entered, "library" the Teams library of the URL.    *)
(***************************************************************************)
EXTENDS Naturals

CONSTANTS Windows, Names, Keys,
          Offered,     \* pages and setups of each window (in the code, all)
          MaxTurns,    \* rclone questions answered (code: 12 OneDrive, 8 Teams)
          None

VARIABLES
  remotes,     \* rclone.conf
  stored,      \* names that saved connections use (the configuration on disk)
  cached,      \* the same as a window last read it
  mode,        \* what a window is for
  ask,         \* what a window pointed out and waits to hear again
  retry,       \* SFTP authentication whose secret must be typed again
  job          \* the setup a window runs

window == <<cached, mode, ask, retry>>
vars == <<remotes, stored, cached, mode, ask, retry, job>>

Accounts == {"own", "other"}
Drives == {"own", "library", "other"}
Auths == {"Password", "Key", "Agent"}

\* The stored passphrase is named by the key it opens; public key files come
\* and go with the key and are left out.
Options == [agent : BOOLEAN, pass : BOOLEAN, key : Keys \cup {None}, phrase : Keys \cup {None}]

Section(type, login, drive) == [type |-> type, login |-> login, drive |-> drive, opts |-> None]
SftpSection(opts) == [Section("sftp", None, None) EXCEPT !.opts = opts]
Type(e) == IF e = None THEN None ELSE e.type

Backends == {"drive", "box", "smb", "sftp", "onedrive"}
Entries == [type : Backends, login : Accounts \cup {None}, drive : Drives \cup {None},
            opts : Options \cup {None}]

ASSUME NoneAssumption ==
  None \notin Backends /\ None \notin Keys /\ None \notin Options /\ None \notin Entries

Drafts(kind) ==
  CASE kind = "Smb" -> [meta : BOOLEAN, pass : BOOLEAN]
    [] kind = "Sftp" -> [auth : {"Key"}, key : Keys, secret : BOOLEAN]
                        \cup [auth : {"Password"}, key : {None}, secret : BOOLEAN]
                        \cup [auth : {"Agent"}, key : {None}, secret : {FALSE}]
    [] kind = "Google" -> BOOLEAN              \* client id and secret given
    [] kind = "OneDrive" -> {None, "own", "other"}   \* the saved identity
    [] OTHER -> {None}

Pages == {<<"manage", "Remove">>} \cup
         ({"add", "modify"} \X {"Google", "Box", "Smb", "Sftp", "OneDrive", "Teams", "Onedriver"})

ASSUME SetupAssumption == Offered \in [Windows -> SUBSET Pages] /\ MaxTurns \in Nat \ {0}

Kinds(w) == {p[2] : p \in {q \in Offered[w] : q[1] = mode[w]}} \ {"Onedriver"}
Modes(w) == {p[1] : p \in Offered[w]}

Backend(kind) ==
  CASE kind = "Google" -> "drive" [] kind = "Box" -> "box" [] kind = "Smb" -> "smb"
    [] kind = "Sftp" -> "sftp" [] OTHER -> "onedrive"

\* Sections found in rclone.conf at the start: made by hand or by an earlier setup.
Found == {None, Section("drive", "own", None), Section("smb", None, None)}
         \cup {SftpSection(o) : o \in {p \in Options : ~p.agent /\ p.phrase = p.key}}

Init ==
  /\ remotes \in [Names -> Found] /\ stored \in SUBSET Names
  /\ cached = [w \in Windows |-> stored]
  /\ mode \in {m \in [Windows -> {"add", "modify", "manage"}] : \A w \in Windows : m[w] \in Modes(w)}
  /\ ask = [w \in Windows |-> None] /\ retry = [w \in Windows |-> None]
  /\ job = [w \in Windows |-> None]

-----------------------------------------------------------------------------
(* Steps of a job *)

At(w, step) == job[w] # None /\ job[w].step = step

\* History: another window's job on the same name sees it touched.
Touching(w, n, own) ==
  job' = [v \in Windows |-> IF v = w THEN own
                            ELSE IF job[v] # None /\ job[v].name = n
                                 THEN [job[v] EXCEPT !.touched = TRUE] ELSE job[v]]

\* Ends w's command, which left the section e in the file.
Leaves(w, e, own) ==
  LET n == job[w].name
      made == own.made \/ (remotes[n] = None /\ e # None)
  IN  /\ remotes' = [remotes EXCEPT ![n] = e]
      /\ IF e = remotes[n] THEN job' = [job EXCEPT ![w] = own]
         ELSE Touching(w, n, [own EXCEPT !.made = made])

Ended(w, result) == [job[w] EXCEPT !.step = "done", !.result = result,
                                   !.found = None, !.reply = None, !.chosen = FALSE, !.turns = 0]
To(w, step) == [job[w] EXCEPT !.step = step, !.found = None, !.reply = None,
                              !.chosen = FALSE, !.turns = 0, !.unsaved = FALSE]
Here(w) == remotes[job[w].name]
Fails(w) == job' = [job EXCEPT ![w] = Ended(w, "failed")]

\* rclone config "can print a save error but still exit successfully": w's
\* command ends as if it had written.
Unsaved(w, own) == Leaves(w, Here(w), [own EXCEPT !.unsaved = TRUE])

-----------------------------------------------------------------------------
(* Starting: request_remove_rclone_remote, apply_sftp_remote and the others *)

Idle(w) == job[w] = None

\* signedIn: onedriver has its tokens; overlap: the mountpoint overlaps an active
\* onedriver mount (both of the setup of onedriver). made, touched, torn and
\* unsaved (the last command exited with success and wrote nothing) are history.
NewJob(kind, n, d) ==
  [kind |-> kind, name |-> n, draft |-> d, step |-> "look", found |-> None,
   reply |-> None, chosen |-> FALSE, turns |-> 0, result |-> None, made |-> FALSE,
   touched |-> FALSE, torn |-> FALSE, unsaved |-> FALSE, signedIn |-> FALSE, overlap |-> FALSE]

\* Both pages point out first what a second press then does: a removal always,
\* an SFTP update when the document the window read has connections on it.
MustAsk(w, kind, n, d) ==
  /\ kind = "Remove" \/ (kind = "Sftp" /\ n \in cached[w])
  /\ ask[w] # <<n, d>>

\* The secret of a failed attempt was cleared and must be typed again.
SecretMissing(w, kind, d) ==
  kind = "Sftp" /\ d.auth \in {"Password", "Key"} /\ retry[w] = d.auth /\ ~d.secret

Refused(w, kind, n, d) ==
  SecretMissing(w, kind, d) \/ (kind = "Remove" /\ n \in cached[w])

PointOut(w) ==
  \E kind \in Kinds(w), n \in Names : \E d \in Drafts(kind) :
    /\ Idle(w) /\ ~Refused(w, kind, n, d) /\ MustAsk(w, kind, n, d)
    /\ ask' = [ask EXCEPT ![w] = <<n, d>>]
    /\ UNCHANGED <<remotes, stored, cached, mode, retry, job>>

Start(w) ==
  \E kind \in Kinds(w), n \in Names : \E d \in Drafts(kind) :
    /\ Idle(w) /\ ~Refused(w, kind, n, d) /\ ~MustAsk(w, kind, n, d)
    /\ job' = [job EXCEPT ![w] = NewJob(kind, n, d)]
    /\ ask' = [ask EXCEPT ![w] = None] /\ retry' = [retry EXCEPT ![w] = None]
    /\ UNCHANGED <<remotes, stored, cached, mode>>

-----------------------------------------------------------------------------
(* SFTP options *)

HasAuth(o) == IF o.agent THEN "Agent"
              ELSE IF o.key # None THEN "Key"
              ELSE IF o.pass THEN "Password" ELSE "Agent"

\* A password is needed unless one is stored for password authentication.
SecretKnown(d, found) ==
  d.auth = "Password" =>
    d.secret \/ (found # None /\ found.opts.pass /\ HasAuth(found.opts) = "Password")

\* setup_request: one command switches everything.  What is kept is decided by
\* the section read before (found), and kept from the section as it now is (o).
Applied(d, found, o) ==
  LET same == found # None /\ HasAuth(found.opts) = d.auth
      sameKey == same /\ found.opts.key = d.key
  IN  CASE d.auth = "Password" ->
             [agent |-> FALSE, pass |-> d.secret \/ o.pass,
              key |-> None, phrase |-> None]
        [] d.auth = "Key" ->
             [agent |-> FALSE, pass |-> FALSE, key |-> d.key,
              phrase |-> IF d.secret THEN d.key ELSE IF sameKey THEN o.phrase ELSE None]
        [] d.auth = "Agent" ->
             IF same THEN [o EXCEPT !.agent = TRUE, !.pass = FALSE, !.phrase = None]
             ELSE [agent |-> TRUE, pass |-> FALSE, key |-> None, phrase |-> None]

NoOptions == [agent |-> FALSE, pass |-> FALSE, key |-> None, phrase |-> None]

-----------------------------------------------------------------------------
(* Looking: rclone config dump, or the document for a removal *)

\* Mutant of Absent: an existing remote is taken over.
AbsentAny(e) == "create"

\* Box and the Microsoft sign-ins only create.
Absent(e) == IF e = None THEN "create" ELSE None

\* Google Drive: "modify" asks for new client credentials of a drive remote.
GoogleNext(w, e) ==
  IF mode[w] # "modify" THEN Absent(e)
  ELSE IF Type(e) = "drive" /\ job[w].draft THEN "update" ELSE None

\* SMB creates with a host, or updates an SMB remote with what was typed.
SmbNext(d, e) ==
  IF e = None THEN IF d.meta THEN "create" ELSE None
  ELSE IF Type(e) # "smb" THEN None
  ELSE IF d.meta THEN "update" ELSE IF d.pass THEN "password" ELSE None

SftpNext(w, e) ==
  IF \/ Type(e) \notin {None, "sftp"} \/ (mode[w] = "modify" /\ e = None)
     \/ ~SecretKnown(job[w].draft, e) THEN None
  ELSE IF e = None THEN "create" ELSE "update"

\* The command that the section found, or its absence, leads to; None: refused.
After(w, e) ==
  CASE job[w].kind = "Google" -> GoogleNext(w, e)
    [] job[w].kind = "Smb" -> SmbNext(job[w].draft, e)
    [] job[w].kind = "Sftp" -> SftpNext(w, e)
    [] OTHER -> Absent(e)

\* The stored passphrase is another key's.
Torn(e) == e # None /\ e.opts # None /\ e.opts.phrase \notin {None, e.opts.key}

Look(w) ==
  /\ At(w, "look") /\ job[w].kind \notin {"Remove", "Onedriver"}
  /\ \/ Fails(w)
     \/ LET next == After(w, Here(w)) IN
          IF next = None THEN Fails(w)
          ELSE job' = [job EXCEPT ![w].step = next, ![w].touched = FALSE,
                                ![w].torn = Torn(Here(w)),
                                ![w].found = IF next = "update" THEN Here(w) ELSE None]
  /\ UNCHANGED <<remotes, stored, window>>

\* Mutant of LookRemove: the window's own copy of the document decides.
LookRemoveCached(w) ==
  /\ At(w, "look") /\ job[w].kind = "Remove"
  /\ \/ Fails(w)
     \/ job[w].name \notin cached[w]
        /\ job' = [job EXCEPT ![w].step = "delete", ![w].touched = FALSE]
  /\ UNCHANGED <<remotes, stored, window>>

\* remove_rclone_remote_result: the document is read again, then the remote is
\* deleted.
LookRemove(w) ==
  /\ At(w, "look") /\ job[w].kind = "Remove"
  /\ \/ Fails(w)
     \/ job[w].name \notin stored
        /\ job' = [job EXCEPT ![w].step = "delete", ![w].touched = FALSE]
  /\ UNCHANGED <<remotes, stored, window>>

-----------------------------------------------------------------------------
(* Commands that write *)

Browser == {"Google", "Box"}

Wanted(kind) == IF kind = "Teams" THEN "library" ELSE "own"

\* The sections a create can leave (rclone replaces one of that name): the
\* browser sign-in may not be completed, the drive not be chosen.
BrowserCreated(kind) == {Section(Backend(kind), l, None) : l \in {None, "own"}}
SmbCreated == {Section("smb", None, None)}
SftpCreated(d) == {SftpSection(Applied(d, None, NoOptions))}
MicrosoftCreated(kind) ==
  {Section("onedrive", None, None)} \cup
  {Section("onedrive", l, dr) : l \in Accounts, dr \in {None, "other", Wanted(kind)}}

Created(kind, d) ==
  CASE kind = "Smb" -> SmbCreated
    [] kind = "Sftp" -> SftpCreated(d)
    [] kind \in Browser -> BrowserCreated(kind)
    [] OTHER -> MicrosoftCreated(kind)

Replies == {"finished", "text", "known", "drive", "driveOk", "unsupported", "error"}

\* A create that exits well: browser setups still have to prove access, SMB
\* writes the password next, a Microsoft sign-in has questions to answer.
AfterCreate(w) ==
  LET j == job[w] IN
  CASE j.kind \in Browser -> {To(w, "check")}
    [] j.kind = "Smb" -> {IF j.draft.pass THEN To(w, "password") ELSE Ended(w, "ok")}
    [] j.kind = "Sftp" -> {Ended(w, "ok")}
    [] OTHER -> {[To(w, "answer") EXCEPT !.reply = r, !.turns = 1] : r \in Replies}

\* An SFTP remote is not rolled back, the others are.
CreateFailed(w) == IF job[w].kind = "Sftp" THEN Ended(w, "failed") ELSE To(w, "undo")

\* A failed command leaves what was there, or what it had written by then.  Only
\* for SFTP is stderr searched for the error of a save.
Create(w) ==
  /\ At(w, "create")
  /\ \/ \E e \in Created(job[w].kind, job[w].draft), own \in AfterCreate(w) : Leaves(w, e, own)
     \/ \E e \in {Here(w)} \cup Created(job[w].kind, job[w].draft) : Leaves(w, e, CreateFailed(w))
     \/ job[w].kind # "Sftp" /\ \E own \in AfterCreate(w) : Unsaved(w, own)
  /\ UNCHANGED <<stored, window>>

GoogleUpdated(e) == {[e EXCEPT !.login = l] : l \in {None, "own"}}
SftpUpdated(j, e) ==
  {[e EXCEPT !.opts = Applied(j.draft, j.found, IF @ = None THEN NoOptions ELSE @)]}

\* What an update turns the section into; host and user of SMB are not kept here.
Updated(w) ==
  CASE job[w].kind = "Google" -> GoogleUpdated(Here(w))
    [] job[w].kind = "Sftp" -> SftpUpdated(job[w], Here(w))
    [] OTHER -> {Here(w)}

AfterUpdate(w) == IF job[w].kind = "Google" THEN To(w, "check")
                  ELSE IF job[w].kind = "Smb" /\ job[w].draft.pass THEN To(w, "password")
                  ELSE Ended(w, "ok")

\* An update of a section that is gone fails, and nothing is rolled back.
Update(w) ==
  /\ At(w, "update")
  /\ \/ Here(w) # None /\ \E e \in Updated(w) : Leaves(w, e, AfterUpdate(w))
     \/ Here(w) # None /\ job[w].kind # "Sftp" /\ Unsaved(w, AfterUpdate(w))
     \/ \E e \in {Here(w)} \cup (IF Here(w) = None THEN {} ELSE Updated(w)) :
          Leaves(w, e, Ended(w, "failed"))
  /\ UNCHANGED <<stored, window>>

\* config password, the last command for SMB: a failure keeps the remote.
Password(w) ==
  /\ At(w, "password")
  /\ \/ Here(w) # None /\ \E result \in {"ok", "failed"} :
          Leaves(w, [Here(w) EXCEPT !.login = "own"], Ended(w, result))
     \/ Here(w) # None /\ Unsaved(w, Ended(w, "ok"))
     \/ Leaves(w, Here(w), Ended(w, "failed"))
  /\ UNCHANGED <<stored, window>>

Delete(w) ==
  /\ At(w, "delete")
  /\ \/ Leaves(w, None, Ended(w, "ok")) \/ Unsaved(w, Ended(w, "ok"))
     \/ \E e \in {None, Here(w)} : Leaves(w, e, Ended(w, "failed"))
  /\ UNCHANGED <<stored, window>>

-----------------------------------------------------------------------------
(* The questions of a Microsoft sign-in *)

\* The choices whose metadata match the URL: exactly one must.  The token is
\* read from the unfinished section.
LibraryFound(e) == Type(e) = "onedrive" /\ e.login # None

\* The primary drive of the account signed in must be the expected account's.
OwnDriveFound(e) == Type(e) = "onedrive" /\ e.login = "own"

CanChoose(w) == IF job[w].kind = "Teams" THEN LibraryFound(Here(w)) ELSE OwnDriveFound(Here(w))

Answerable(w) ==
  /\ job[w].turns < MaxTurns
  /\ CASE job[w].reply = "known" -> TRUE
       [] job[w].reply = "drive" -> CanChoose(w)
       [] job[w].reply = "driveOk" -> job[w].chosen
       [] OTHER -> FALSE

\* The sections the next config update can leave: the chosen drive is entered,
\* or the login is completed, if rclone saves it.
Continued(w) ==
  {Here(w)} \cup
  IF job[w].reply = "drive" THEN {[Here(w) EXCEPT !.drive = Wanted(job[w].kind)]}
  ELSE {[Here(w) EXCEPT !.login = l] : l \in Accounts}

\* A plain text completion counts for Teams only, after the same check.
Completed(w) ==
  job[w].reply = "finished" \/ (job[w].reply = "text" /\ job[w].kind = "Teams")

Answer(w) ==
  /\ At(w, "answer")
  /\ \/ Completed(w) /\ job' = [job EXCEPT ![w] = To(w, "check")] /\ UNCHANGED remotes
     \/ ~Completed(w) /\ job' = [job EXCEPT ![w] = To(w, "undo")] /\ UNCHANGED remotes
     \/ /\ Answerable(w) /\ Here(w) # None
        /\ \E e \in Continued(w) :
             \/ \E r \in Replies :
                  Leaves(w, e, [job[w] EXCEPT !.reply = r, !.turns = @ + 1,
                                              !.chosen = @ \/ job[w].reply = "drive"])
             \/ Leaves(w, e, To(w, "undo"))
  /\ UNCHANGED <<stored, window>>

-----------------------------------------------------------------------------
(* Checking and undoing *)

\* lsf lists the root.
Reachable(e) == e # None /\ e.login # None

\* Teams: the configured drive is the document library of the URL.
LibraryVerified(e) == Type(e) = "onedrive" /\ e.login # None /\ e.drive = "library"

\* OneDrive: the configured drive is the primary one of the expected account,
\* and the saved one when there is one.
DriveVerified(e, previous) ==
  Type(e) = "onedrive" /\ e.login = "own" /\ e.drive = "own" /\ previous \in {None, "own"}

Acceptable(w) ==
  CASE job[w].kind = "Teams" -> LibraryVerified(Here(w))
    [] job[w].kind = "OneDrive" -> DriveVerified(Here(w), job[w].draft)
    [] OTHER -> Reachable(Here(w))

\* A Google update that is not accepted is left as it is.
Rejected(w) == IF job[w].kind = "Google" /\ mode[w] = "modify" THEN Ended(w, "failed")
               ELSE To(w, "undo")

Check(w) ==
  /\ At(w, "check")
  /\ \/ Acceptable(w) /\ job' = [job EXCEPT ![w] = Ended(w, "ok")]
     \/ job' = [job EXCEPT ![w] = Rejected(w)]
  /\ UNCHANGED <<remotes, stored, window>>

\* Mutant of NotUndone: a rollback that failed is not mentioned.
NotUndoneSilent(w) == Ended(w, "failed")

\* The message of a failed rollback names the remote; for SMB its result is
\* not looked at.
NotUndone(w) == Ended(w, IF job[w].kind = "Smb" THEN "failed" ELSE "leftover")

Undo(w) ==
  /\ At(w, "undo")
  /\ \/ Leaves(w, None, Ended(w, "failed")) \/ Unsaved(w, Ended(w, "failed"))
     \/ \E e \in {None, Here(w)} : Leaves(w, e, NotUndone(w))
  /\ UNCHANGED <<stored, window>>

-----------------------------------------------------------------------------
(* The sign-in of onedriver *)

\* start_onedriver_setup: the draft names a mountpoint; it may be in use.
StartOnedriver(w) ==
  /\ Idle(w) /\ <<mode[w], "Onedriver">> \in Offered[w]
  /\ \E known, inUse \in BOOLEAN :
       job' = [job EXCEPT ![w] = [NewJob("Onedriver", None, None)
                                   EXCEPT !.signedIn = known, !.overlap = inUse]]
  /\ UNCHANGED <<remotes, stored, window>>

\* What a failed setup leaves is found, or not, by the next StartOnedriver.
OnedriverFails(w) ==
  job' = [job EXCEPT ![w] = [Ended(w, "failed") EXCEPT !.signedIn = FALSE, !.overlap = FALSE]]

\* HostVisibleMountTable::observe, then what is prepared and checked before the
\* sign-in; this observation also serves the verification after it.
Observe(w) ==
  /\ At(w, "look") /\ job[w].kind = "Onedriver"
  /\ \/ OnedriverFails(w)
     \/ ~job[w].overlap /\ job' = [job EXCEPT ![w].step = "signIn"]
  /\ UNCHANGED <<remotes, stored, window>>

\* onedriver --auth-only: minutes in a browser; it may end well without tokens.
SignIn(w) ==
  /\ At(w, "signIn")
  /\ \/ OnedriverFails(w)
     \/ \E known \in {job[w].signedIn, TRUE} :
          job' = [job EXCEPT ![w].signedIn = known, ![w].step = "isolate"]
  /\ UNCHANGED <<remotes, stored, window>>

\* verify_onedriver_online_mount_setup_with: the tokens, and the mounts as they
\* were before the sign-in, which did not overlap.
Verified(j) == j.signedIn

\* verify_fresh_onedrive_mount_isolation: the mounts as they are now.
Isolate(w) ==
  /\ At(w, "isolate")
  /\ \/ OnedriverFails(w)
     \/ /\ Verified(job[w]) /\ ~job[w].overlap
        /\ job' = [job EXCEPT ![w] = Ended(w, "ok")]
  /\ UNCHANGED <<remotes, stored, window>>

\* Another onedriver mount comes or goes.
OtherMount(w) ==
  /\ ~Idle(w) /\ job[w].kind = "Onedriver" /\ ~job[w].touched /\ job[w].result # "failed"
  /\ job' = [job EXCEPT ![w].overlap = ~@, ![w].touched = At(w, "done")]
  /\ UNCHANGED <<remotes, stored, window>>

Onedriver(w) == StartOnedriver(w) \/ Observe(w) \/ SignIn(w) \/ Isolate(w)

-----------------------------------------------------------------------------
(* Answers and the rest of the windows *)

\* The message of the task.  A failed SFTP attempt with a secret wants the
\* secret again, unless the draft went on to another authentication or remote.
Finish(w) ==
  /\ At(w, "done")
  /\ job' = [job EXCEPT ![w] = None]
  /\ LET owes == job[w].kind = "Sftp" /\ job[w].result = "failed" /\ job[w].draft.secret
     IN  retry' \in {retry} \cup
                    {[retry EXCEPT ![w] = a] : a \in IF owes THEN {job[w].draft.auth} ELSE {}}
  /\ UNCHANGED <<remotes, stored, cached, mode, ask>>

\* Closed at any time, with its setup at any step, and opened again for
\* something else: a new process that reads the document.
Reopen(w) ==
  /\ \E m \in Modes(w) : mode' = [mode EXCEPT ![w] = m]
  /\ cached' = [cached EXCEPT ![w] = stored]
  /\ ask' = [ask EXCEPT ![w] = None] /\ retry' = [retry EXCEPT ![w] = None]
  /\ job' = [job EXCEPT ![w] = None]
  /\ UNCHANGED <<remotes, stored>>

\* save_validated_draft of the connection being edited, seen by the removal that
\* has read the document already.
Save(w) ==
  \E n \in Names :
    /\ Idle(w) /\ mode[w] # "manage" /\ remotes[n] # None
    /\ stored' = stored \cup {n} /\ cached' = [cached EXCEPT ![w] = stored']
    /\ Touching(w, n, None)
    /\ UNCHANGED <<remotes, mode, ask, retry>>

\* The last connection on a remote is removed or moved to another.
Unuse ==
  /\ \E n \in stored : stored' = stored \ {n}
  /\ UNCHANGED <<remotes, window, job>>

Command(w) == Create(w) \/ Update(w) \/ Password(w) \/ Delete(w) \/ Answer(w) \/ Undo(w)
Work(w) == Look(w) \/ LookRemove(w) \/ Check(w) \/ Command(w)

Next ==
  \/ \E w \in Windows : PointOut(w) \/ Start(w) \/ Work(w) \/ Finish(w) \/ Reopen(w) \/ Save(w)
                       \/ Onedriver(w) \/ OtherMount(w)
  \/ Unuse

Spec == Init /\ [][Next]_vars

-----------------------------------------------------------------------------
TypeOK ==
  /\ remotes \in [Names -> Entries \cup {None}] /\ stored \subseteq Names
  /\ cached \in [Windows -> SUBSET Names]
  /\ \A w \in Windows : job[w] # None => job[w].turns <= MaxTurns

(* A setup or a removal takes away, or turns into another backend, only what   *)
(* it created itself or was told to delete; the exception is a name another    *)
(* window worked on since it was looked up.                                    *)
OthersKept ==
  [][\A n \in Names :
       (remotes[n] # None /\ Type(remotes'[n]) # Type(remotes[n])) =>
         \E w \in Windows : /\ job[w] # None /\ job[w].name = n
                            /\ job[w].kind = "Remove" \/ job[w].made \/ job[w].touched]_vars

(* A remote that a saved connection uses is never deleted, except for a        *)
(* connection saved after the removal read the document, and for the rollback  *)
(* of a remote the setup itself had created.                                   *)
UsedRemoteKept ==
  [][\A n \in stored :
       (remotes[n] # None /\ remotes'[n] = None) =>
         \E w \in Windows : /\ job[w] # None /\ job[w].name = n
                            /\ job[w].touched \/ (job[w].kind # "Remove" /\ job[w].made)]_vars

\* One authentication is in force, and a passphrase belongs to its key; one that
\* did not when the remote was looked up (torn) is kept with the key.
Whole(o, torn) ==
  /\ ~(o.agent /\ o.pass) /\ (o.pass => o.key = None)
  /\ o.phrase # None => ~o.agent /\ (torn \/ o.phrase = o.key)

\* What a setup that reports success stands for.
Complete(e, j) ==
  CASE j.kind = "Remove" -> e = None
    [] j.kind \in Browser -> Type(e) = Backend(j.kind) /\ e.login # None
    [] j.kind = "Smb" -> Type(e) = "smb" /\ (j.draft.pass => e.login = "own")
    [] j.kind = "Sftp" -> /\ Type(e) = "sftp" /\ Whole(e.opts, j.torn) /\ HasAuth(e.opts) = j.draft.auth
                          /\ j.draft.auth = "Key" => /\ e.opts.key = j.draft.key
                                                     /\ j.draft.secret => e.opts.phrase = e.opts.key
    [] j.kind = "OneDrive" -> Type(e) = "onedrive" /\ e.login = "own" /\ e.drive = "own"
    [] j.kind = "Teams" -> Type(e) = "onedrive" /\ e.login # None /\ e.drive = "library"

\* A setup of onedriver that reports success has its tokens, and its mountpoint
\* overlapped no onedriver mount when the sign-in was over.
Certified(j) == j.signedIn /\ (j.touched \/ ~j.overlap)

\* The setups that look at more than the exit of their last command: at access
\* to the remote, at its drive, or at stderr.
Verifying == Browser \cup {"OneDrive", "Teams", "Sftp"}

\* A success left a remote that can be used: the backend, the login, the secret
\* and the drive the user asked for.  SMB and a removal go by the exit of their
\* last command, and promise this only if rclone saved what it did.
OkIsComplete ==
  \A w \in Windows :
    (At(w, "done") /\ job[w].result = "ok") =>
      IF job[w].kind = "Onedriver" THEN Certified(job[w])
      ELSE \/ job[w].touched \/ Complete(Here(w), job[w])
           \/ job[w].kind \notin Verifying /\ job[w].unsaved

\* A failed browser or Microsoft setup leaves nothing of the remote it began, or
\* its message names what is left, unless rclone lost the rollback itself.  SFTP
\* has no rollback, and that of SMB is not looked at.
LeftoverReported ==
  \A w \in Windows :
    (At(w, "done") /\ job[w].result = "failed" /\ ~job[w].touched /\ ~job[w].unsaved
       /\ job[w].kind \in Browser \cup {"OneDrive", "Teams"}) =>
      ~(job[w].made /\ Here(w) # None)

(* What a setup tells the user at its end is what rclone.conf then holds,      *)
(* unless another window worked on the same name meanwhile: for a browser,     *)
(* Microsoft or SFTP setup whatever rclone saved, for SMB and a removal if it  *)
(* saved their last command.                                                   *)
OutcomeTold == OkIsComplete /\ LeftoverReported

(* "Do not report that as an applied update": no setup reports success over an *)
(* update, a creation or a password that rclone did not save.                  *)
AppliedIsSaved ==
  \A w \in Windows :
    (At(w, "done") /\ job[w].result = "ok" /\ job[w].kind \notin {"Remove", "Onedriver"}) =>
      job[w].touched \/ Complete(Here(w), job[w])

==================================================
