--------------------------- MODULE RemoteSetupProofs ---------------------------
(***************************************************************************)
(* Proofs about RemoteSetup for any number of windows, remotes, keys and   *)
(* questions: whatever the windows run against each other, a setup takes   *)
(* away only what it made or was told to delete, a remote in use survives  *)
(* a removal that saw the use, and what a setup reports is true.           *)
(***************************************************************************)
EXTENDS RemoteSetup, TLAPS

-----------------------------------------------------------------------------
(* The inductive invariant *)

AllKinds == {"Remove", "Google", "Box", "Smb", "Sftp", "OneDrive", "Teams", "Onedriver"}
AllSteps == {"look", "create", "update", "password", "answer", "check", "undo", "delete",
             "signIn", "isolate", "done"}

\* The steps a setup of each kind goes through
StepsOf(kind) ==
  {"look", "done"} \cup
  CASE kind = "Remove" -> {"delete"}
    [] kind = "Onedriver" -> {"signIn", "isolate"}
    [] kind = "Google" -> {"create", "update", "check", "undo"}
    [] kind = "Box" -> {"create", "check", "undo"}
    [] kind = "Smb" -> {"create", "update", "password", "undo"}
    [] kind = "Sftp" -> {"create", "update"}
    [] OTHER -> {"create", "answer", "check", "undo"}

Jobs ==
  [kind : AllKinds, name : Names \cup {None}, draft : UNION {Drafts(kind) : kind \in AllKinds},
   step : AllSteps, found : Entries \cup {None}, reply : Replies \cup {None},
   chosen : BOOLEAN, turns : 0 .. MaxTurns, result : {None, "ok", "failed", "leftover"},
   made : BOOLEAN, touched : BOOLEAN, torn : BOOLEAN, unsaved : BOOLEAN, signedIn : BOOLEAN,
   overlap : BOOLEAN]

TypeInv ==
  /\ remotes \in [Names -> Entries \cup {None}]
  /\ stored \in SUBSET Names /\ cached \in [Windows -> SUBSET Names]
  /\ mode \in [Windows -> {"add", "modify", "manage"}]
  /\ job \in [Windows -> Jobs \cup {None}]

SftpHasOptions(e) == e # None /\ e.type = "sftp" => e.opts # None

\* A change of credentials, which leaves the remote it found.
Modifies(j, m) == j.kind = "Google" /\ m = "modify"

\* While no other window worked on its name, the job j finds the section e as its
\* next command expects it; after a creation that was not saved there is none.
Undisturbed(j, m, e, used) ==
  /\ j.step = "create" => e = None
  /\ j.step \in {"answer", "undo"} \/ (j.step = "check" /\ ~Modifies(j, m)) =>
       j.made \/ e = None
  /\ j.step = "update" => e # None
  /\ j.step \in {"update", "password", "answer", "check"} /\ e # None => e.type = Backend(j.kind)
  /\ j.step = "update" /\ j.kind = "Sftp" => j.found = e /\ j.torn = Torn(e)
  /\ j.step = "delete" => ~used

\* The two halves of OutcomeTold, for a job that is done
Told(j, e) ==
  /\ j.result = "ok" => IF j.kind = "Onedriver" THEN Certified(j)
                        ELSE \/ j.touched \/ Complete(e, j)
                             \/ j.kind \notin Verifying /\ j.unsaved
  /\ j.result = "failed" /\ ~j.touched /\ ~j.unsaved /\ j.kind \in Browser \cup {"OneDrive", "Teams"} =>
       ~(j.made /\ e # None)

\* A job of a window of mode m on the section e, whose remote is used or not
JobOK(j, m, e, used) ==
  /\ j.step \in StepsOf(j.kind) /\ j.draft \in Drafts(j.kind)
  /\ j.kind # "Onedriver" => j.name \in Names
  /\ j.step \in {"look", "create", "update"} => ~j.made
  /\ Modifies(j, m) => ~j.made /\ j.step \notin {"create", "undo"}
  /\ j.kind = "Google" /\ j.step = "update" => m = "modify"
  /\ j.kind = "Sftp" /\ j.step \in {"create", "update"} => SecretKnown(j.draft, j.found)
  /\ j.step = "create" => j.found = None
  /\ j.kind = "Onedriver" \/ j.touched \/ Undisturbed(j, m, e, used)
  /\ j.step = "done" => Told(j, e)

SetupInv ==
  /\ TypeInv
  /\ \A n \in Names : SftpHasOptions(remotes[n])
  /\ \A w \in Windows :
       job[w] # None => JobOK(job[w], mode[w], remotes[job[w].name], job[w].name \in stored)

-----------------------------------------------------------------------------
(* One job *)

\* Another window's work only ever spares a job its promises.
LEMMA TouchedOK ==
  ASSUME NEW j \in Jobs, NEW m, NEW e, NEW e2, NEW used, NEW used2, JobOK(j, m, e, used)
  PROVE  /\ [j EXCEPT !.touched = TRUE] \in Jobs
         /\ JobOK([j EXCEPT !.touched = TRUE], m, e2, used2)
<1> DEFINE t == [j EXCEPT !.touched = TRUE]
<1>1. /\ t \in Jobs /\ t.touched /\ t.kind = j.kind /\ t.step = j.step /\ t.draft = j.draft
      /\ t.name = j.name /\ t.made = j.made /\ t.found = j.found /\ t.result = j.result
      /\ t.signedIn = j.signedIn
  BY DEF Jobs
<1>2. j.step = "done" => Told(t, e2)
  BY <1>1 DEF JobOK, Told, Certified
<1> QED BY <1>1, <1>2 DEF JobOK, Modifies

\* The invariant after a step of w that changes nothing but its own job.
LEMMA OwnStep ==
  ASSUME SetupInv, NEW w \in Windows, NEW own \in Jobs \cup {None},
         job' = [job EXCEPT ![w] = own], UNCHANGED <<remotes, stored, cached, mode>>,
         own # None => JobOK(own, mode[w], remotes[own.name], own.name \in stored)
  PROVE  SetupInv'
<1>1. TypeInv'
  BY DEF SetupInv, TypeInv
<1>2. ASSUME NEW v \in Windows, job'[v] # None
      PROVE  JobOK(job'[v], mode'[v], remotes'[job'[v].name], job'[v].name \in stored')
  <2>1. CASE v = w
    <3>1. job'[v] = own
      BY <2>1 DEF SetupInv, TypeInv
    <3> QED BY <2>1, <3>1, <1>2
  <2>2. CASE v # w
    <3>1. job'[v] = job[v]
      BY <2>2 DEF SetupInv, TypeInv
    <3> QED BY <3>1, <1>2 DEF SetupInv
  <2> QED BY <2>1, <2>2
<1> QED BY <1>1, <1>2 DEF SetupInv

\* The job of a window that left the section e
Left(w, e, own) == [own EXCEPT !.made = own.made \/ (Here(w) = None /\ e # None)]

\* The invariant after a command of w, given what it promises of its own job.
LEMMA CommandStep ==
  ASSUME SetupInv, NEW w \in Windows, NEW e \in Entries \cup {None}, NEW own \in Jobs,
         job[w] # None, job[w].name \in Names, own.name = job[w].name,
         Leaves(w, e, own), UNCHANGED <<stored, cached, mode>>,
         SftpHasOptions(e),
         JobOK(Left(w, e, own), mode[w], e, job[w].name \in stored)
  PROVE  SetupInv'
<1> DEFINE n == job[w].name
           final == Left(w, e, own)
<1>1. final \in Jobs /\ final.name = n
  BY DEF Left, Jobs
<1>2. remotes' = [remotes EXCEPT ![n] = e]
  BY DEF Leaves
<1>3. remotes' \in [Names -> Entries \cup {None}] /\ remotes'[n] = e
      /\ \A m \in Names : m # n => remotes'[m] = remotes[m]
  BY <1>2 DEF SetupInv, TypeInv
<1>4. \A m \in Names : SftpHasOptions(remotes'[m])
  BY <1>3 DEF SetupInv
<1>5. CASE e = remotes[n]
  <2>1. final = own
    BY <1>5 DEF Left, Here, Jobs
  <2>2. remotes' = remotes
    BY <1>2, <1>5 DEF SetupInv, TypeInv
  <2>3. job' = [job EXCEPT ![w] = own]
    BY <1>5 DEF Leaves
  <2> QED BY <2>1, <2>2, <2>3, <1>5, OwnStep
<1>6. CASE e # remotes[n]
  <2>1. job' = [v \in Windows |-> IF v = w THEN final
                            ELSE IF job[v] # None /\ job[v].name = n
                                 THEN [job[v] EXCEPT !.touched = TRUE] ELSE job[v]]
    BY <1>6 DEF Leaves, Touching, Left, Here
  <2>2. ASSUME NEW v \in Windows
        PROVE  /\ job'[v] \in Jobs \cup {None}
               /\ job'[v] # None =>
                    JobOK(job'[v], mode[v], remotes'[job'[v].name], job'[v].name \in stored)
    <3>1. CASE v = w
      BY <2>1, <3>1, <1>1, <1>3
    <3>2. CASE v # w /\ job[v] # None /\ job[v].name = n
      <4>1. job[v] \in Jobs /\ JobOK(job[v], mode[v], remotes[n], n \in stored)
        BY <3>2 DEF SetupInv, TypeInv
      <4>2. job'[v] = [job[v] EXCEPT !.touched = TRUE]
        BY <3>2, <2>1
      <4>3. job'[v].name = n
        BY <4>1, <4>2, <3>2 DEF Jobs
      <4> HIDE DEF n
      <4> QED BY <4>1, <4>2, <4>3, TouchedOK
    <3>3. CASE v # w /\ ~(job[v] # None /\ job[v].name = n)
      <4>1. job'[v] = job[v] /\ job[v] \in Jobs \cup {None}
        BY <3>3, <2>1 DEF SetupInv, TypeInv
      <4>2. CASE job[v] # None
        <5>1. JobOK(job[v], mode[v], remotes[job[v].name], job[v].name \in stored)
          BY <4>2 DEF SetupInv
        <5>2. remotes'[job[v].name] = remotes[job[v].name]
          BY <1>2, <3>3, <4>2 DEF SetupInv, TypeInv
        <5> QED BY <4>1, <5>1, <5>2
      <4> QED BY <4>1, <4>2
    <3> QED BY <3>1, <3>2, <3>3
  <2>3. job' \in [Windows -> Jobs \cup {None}]
    BY <2>1, <2>2
  <2> QED BY <1>3, <1>4, <2>2, <2>3 DEF SetupInv, TypeInv
<1> QED BY <1>5, <1>6

-----------------------------------------------------------------------------
(* Pages, sections and options *)

\* What a window may be for, and what it may set up.
LEMMA PageTypes ==
  ASSUME NEW w \in Windows
  PROVE  /\ Modes(w) \subseteq {"add", "modify", "manage"}
         /\ Kinds(w) \subseteq AllKinds \ {"Onedriver"}
<1>1. Offered[w] \subseteq Pages
  BY SetupAssumption
<1>2. \A p \in Pages : p[1] \in {"add", "modify", "manage"} /\ p[2] \in AllKinds
  BY DEF Pages, AllKinds
<1> QED BY <1>1, <1>2 DEF Modes, Kinds

\* The options after one SFTP command: one authentication, the one of the draft,
\* and a passphrase of the key unless an older one of another key was kept.
LEMMA AppliedWhole ==
  ASSUME NEW d \in Drafts("Sftp"), NEW found, NEW o \in Options,
         found # None => found.opts = o, found = None => o = NoOptions,
         SecretKnown(d, found)
  PROVE  LET a == Applied(d, found, o) IN
         /\ HasAuth(a) = d.auth
         /\ Whole(a, o.phrase \notin {None, o.key})
         /\ d.auth = "Key" => a.key = d.key /\ (d.secret => a.phrase = a.key)
<1> DEFINE a == Applied(d, found, o)
<1>0. /\ d.auth \in {"Password", "Key", "Agent"} /\ d.secret \in BOOLEAN
      /\ d.auth = "Key" => d.key \in Keys
      /\ o.agent \in BOOLEAN /\ o.pass \in BOOLEAN
  BY DEF Drafts, Options
<1>1. CASE d.auth = "Password"
  <2>1. d.secret \/ o.pass
    BY <1>1 DEF SecretKnown
  <2>2. a = [agent |-> FALSE, pass |-> d.secret \/ o.pass, key |-> None, phrase |-> None]
    BY <1>1 DEF Applied
  <2>3. a.agent = FALSE /\ a.pass = TRUE /\ a.key = None /\ a.phrase = None
    BY <1>0, <2>1, <2>2
  <2>4. HasAuth(a) = d.auth /\ Whole(a, o.phrase \notin {None, o.key})
    <3> HIDE DEF a
    <3> QED BY <1>1, <2>3 DEF HasAuth, Whole
  <2> QED BY <1>1, <2>4
<1>2. CASE d.auth = "Key"
  <2>1. d.key \in Keys /\ d.key # None
    BY <1>0, <1>2, NoneAssumption
  <2>2. PICK p : /\ a = [agent |-> FALSE, pass |-> FALSE, key |-> d.key, phrase |-> p]
                 /\ p = IF d.secret THEN d.key
                        ELSE IF found # None /\ HasAuth(found.opts) = d.auth
                                             /\ found.opts.key = d.key
                             THEN o.phrase ELSE None
    BY <1>2 DEF Applied
  <2>3. d.secret => p = d.key
    BY <2>2
  <2>4. p \in {None, d.key} \/ (p = o.phrase /\ o.key = d.key)
    BY <2>2
  <2>5. HasAuth(a) = "Key" /\ a.key = d.key
    BY <2>1, <2>2 DEF HasAuth
  <2>6. Whole(a, o.phrase \notin {None, o.key})
    BY <2>1, <2>2, <2>4 DEF Whole
  <2> QED BY <1>2, <2>2, <2>3, <2>5, <2>6
<1>3. CASE d.auth = "Agent"
  <2>1. a \in {[o EXCEPT !.agent = TRUE, !.pass = FALSE, !.phrase = None],
               [agent |-> TRUE, pass |-> FALSE, key |-> None, phrase |-> None]}
    BY <1>3 DEF Applied
  <2>2. a.agent = TRUE /\ a.pass = FALSE /\ a.phrase = None
    <3>1. CASE a = [o EXCEPT !.agent = TRUE, !.pass = FALSE, !.phrase = None]
      BY <3>1 DEF Options
    <3>2. CASE a = [agent |-> TRUE, pass |-> FALSE, key |-> None, phrase |-> None]
      BY <3>2
    <3> HIDE DEF a
    <3> QED BY <2>1, <3>1, <3>2
  <2>4. HasAuth(a) = d.auth /\ Whole(a, o.phrase \notin {None, o.key})
    <3> HIDE DEF a
    <3> QED BY <1>3, <2>2 DEF HasAuth, Whole
  <2> QED BY <1>3, <2>4
<1> QED BY <1>0, <1>1, <1>2, <1>3

LEMMA AppliedOptions ==
  ASSUME NEW d \in Drafts("Sftp"), NEW found, NEW o \in Options
  PROVE  Applied(d, found, o) \in Options
<1> USE DEF Drafts, Options
<1>1. CASE d.auth = "Password"
  BY <1>1 DEF Applied
<1>2. CASE d.auth = "Key"
  BY <1>2 DEF Applied
<1>3. CASE d.auth = "Agent"
  BY <1>3 DEF Applied
<1> QED BY <1>1, <1>2, <1>3

LEMMA SectionType ==
  /\ NoOptions \in Options
  /\ \A type \in Backends, login \in Accounts \cup {None}, drive \in Drives \cup {None} :
       /\ Section(type, login, drive) \in Entries
       /\ Section(type, login, drive).type = type /\ Section(type, login, drive).login = login
       /\ Section(type, login, drive).opts = None
  /\ \A o \in Options : /\ SftpSection(o) \in Entries /\ SftpSection(o).type = "sftp"
                        /\ SftpSection(o).opts = o
<1>1. NoOptions \in Options
  BY DEF NoOptions, Options
<1>2. \A type \in Backends, login \in Accounts \cup {None}, drive \in Drives \cup {None} :
       /\ Section(type, login, drive) \in Entries
       /\ Section(type, login, drive).type = type /\ Section(type, login, drive).login = login
       /\ Section(type, login, drive).opts = None
  BY DEF Section, Entries
<1>3. \A o \in Options : /\ SftpSection(o) \in Entries /\ SftpSection(o).type = "sftp"
                         /\ SftpSection(o).opts = o
  BY DEF Section, SftpSection, Entries, Backends
<1> QED BY <1>1, <1>2, <1>3

\* What a create leaves is a section of the backend it was told to create.
LEMMA CreatedType ==
  ASSUME NEW kind \in AllKinds \ {"Remove", "Onedriver"}, NEW d \in Drafts(kind),
         NEW e \in Created(kind, d)
  PROVE  e \in Entries /\ e # None /\ e.type = Backend(kind) /\ SftpHasOptions(e)
<1> USE SectionType, NoneAssumption DEF SftpHasOptions, Backends, Accounts, Drives
<1>1. CASE kind = "Smb"
  <2>1. e = Section("smb", None, None) /\ Backend(kind) = "smb"
    BY <1>1 DEF Created, SmbCreated, Backend, Browser
  <2> QED BY <2>1
<1>2. CASE kind = "Sftp"
  <2>1. Applied(d, None, NoOptions) \in Options
    BY <1>2, AppliedOptions
  <2>2. e = SftpSection(Applied(d, None, NoOptions)) /\ Backend(kind) = "sftp"
    BY <1>2 DEF Created, SftpCreated, Backend, Browser
  <2> QED BY <2>1, <2>2
<1>3. CASE kind \in Browser
  BY <1>3 DEF Created, BrowserCreated, Backend, Browser
<1>4. CASE kind \in {"OneDrive", "Teams"}
  BY <1>4 DEF Created, MicrosoftCreated, Backend, Browser, Wanted
<1> QED BY <1>1, <1>2, <1>3, <1>4 DEF AllKinds, Browser

-----------------------------------------------------------------------------
(* The shape of the jobs that commands produce *)

\* own goes on with the job j.
Continues(own, j) ==
  /\ own \in Jobs /\ own.kind = j.kind /\ own.name = j.name /\ own.draft = j.draft
  /\ own.touched = j.touched /\ own.torn = j.torn
  /\ own.signedIn = j.signedIn /\ own.overlap = j.overlap

LEMMA JobType ==
  ASSUME SetupInv, NEW w \in Windows, job[w] # None
  PROVE  /\ job[w] \in Jobs
         /\ JobOK(job[w], mode[w], remotes[job[w].name], job[w].name \in stored)
         /\ job[w].kind # "Onedriver" => job[w].name \in Names /\ Here(w) \in Entries \cup {None}
                                         /\ SftpHasOptions(Here(w))
BY DEF SetupInv, TypeInv, JobOK, Here

LEMMA ToShape ==
  ASSUME NEW w, job[w] \in Jobs, NEW s \in AllSteps
  PROVE  Continues(To(w, s), job[w]) /\ To(w, s).step = s /\ To(w, s).made = job[w].made
         /\ To(w, s).found = None
<1>1. 0 \in 0 .. MaxTurns
  BY SetupAssumption
<1>2. To(w, s) \in Jobs
  BY <1>1 DEF Jobs, To
<1>3. /\ To(w, s).step = s /\ To(w, s).made = job[w].made /\ To(w, s).found = None
      /\ To(w, s).kind = job[w].kind /\ To(w, s).name = job[w].name
      /\ To(w, s).draft = job[w].draft
  BY DEF Jobs, To
<1>4. /\ To(w, s).touched = job[w].touched /\ To(w, s).torn = job[w].torn
      /\ To(w, s).signedIn = job[w].signedIn /\ To(w, s).overlap = job[w].overlap
  BY DEF Jobs, To
<1> QED BY <1>2, <1>3, <1>4 DEF Continues

LEMMA EndedShape ==
  ASSUME NEW w, job[w] \in Jobs, NEW r \in {"ok", "failed", "leftover"}
  PROVE  Continues(Ended(w, r), job[w]) /\ Ended(w, r).step = "done" /\ Ended(w, r).result = r
         /\ Ended(w, r).made = job[w].made
<1>1. 0 \in 0 .. MaxTurns
  BY SetupAssumption
<1>2. Ended(w, r) \in Jobs
  BY <1>1 DEF Jobs, Ended, AllSteps
<1>3. /\ Ended(w, r).step = "done" /\ Ended(w, r).result = r
      /\ Ended(w, r).made = job[w].made /\ Ended(w, r).kind = job[w].kind
      /\ Ended(w, r).name = job[w].name /\ Ended(w, r).draft = job[w].draft
  BY DEF Jobs, Ended
<1>4. /\ Ended(w, r).touched = job[w].touched /\ Ended(w, r).torn = job[w].torn
      /\ Ended(w, r).signedIn = job[w].signedIn /\ Ended(w, r).overlap = job[w].overlap
  BY DEF Jobs, Ended
<1> QED BY <1>2, <1>3, <1>4 DEF Continues

LEMMA LeftShape ==
  ASSUME NEW w, NEW e, NEW own \in Jobs
  PROVE  LET l == Left(w, e, own) IN
         /\ l.step = own.step /\ l.result = own.result /\ l.found = own.found
         /\ \A j : Continues(own, j) => Continues(l, j)
         /\ l.made = (own.made \/ (Here(w) = None /\ e # None))
BY DEF Jobs, Left, Continues

\* A job that is over only has to have told the truth.
LEMMA DoneOK ==
  ASSUME NEW own, NEW j, NEW m, NEW e, NEW e2, NEW used, NEW used2,
         JobOK(j, m, e, used), Continues(own, j), own.step = "done",
         Modifies(j, m) => ~own.made, Told(own, e2)
  PROVE  JobOK(own, m, e2, used2)
BY DEF JobOK, Continues, Undisturbed, Modifies, StepsOf

\* A job that is to be undone made what is there, or there is nothing.
LEMMA UndoOK ==
  ASSUME NEW own, NEW j, NEW m, NEW e, NEW e2, NEW used, NEW used2,
         JobOK(j, m, e, used), Continues(own, j), own.step = "undo",
         ~Modifies(j, m), j.kind \notin {"Remove", "Onedriver", "Sftp"},
         own.touched \/ own.made \/ e2 = None
  PROVE  JobOK(own, m, e2, used2)
<1>1. own.step \in StepsOf(own.kind)
  BY DEF StepsOf, Continues, Jobs, AllKinds
<1> QED BY <1>1 DEF JobOK, Continues, Undisturbed, Modifies

\* The same, for a job that goes on to its answers, its password or its check.
LEMMA GoesOnOK ==
  ASSUME NEW own, NEW j, NEW m, NEW e, NEW e2, NEW used, NEW used2,
         JobOK(j, m, e, used), Continues(own, j),
         own.step \in {"answer", "password", "check"}, own.step \in StepsOf(own.kind),
         Modifies(j, m) => ~own.made,
         own.touched \/ e2 = None \/ e2.type = Backend(j.kind),
         \/ own.touched \/ own.made \/ own.step = "password" \/ e2 = None
         \/ own.step = "check" /\ Modifies(j, m)
  PROVE  JobOK(own, m, e2, used2)
<1>1. own.kind = j.kind /\ Backend(own.kind) = Backend(j.kind) /\ (Modifies(own, m) <=> Modifies(j, m))
  BY DEF Continues, Modifies
<1>2. own.touched \/ Undisturbed(own, m, e2, used2)
  BY <1>1 DEF Undisturbed
<1> QED BY <1>1, <1>2 DEF JobOK, Continues

\* A command that exited with success and wrote nothing
Marked(own) == [own EXCEPT !.unsaved = TRUE]

LEMMA MarkedShape ==
  ASSUME NEW own \in Jobs
  PROVE  LET m == Marked(own) IN
         /\ m \in Jobs /\ m.unsaved = TRUE /\ m.step = own.step /\ m.result = own.result
         /\ m.found = own.found /\ m.made = own.made
         /\ \A j : Continues(own, j) => Continues(m, j)
BY DEF Jobs, Marked, Continues

LEMMA UnsavedStep ==
  ASSUME SetupInv, NEW w \in Windows, NEW own \in Jobs, job[w] # None,
         own.name = job[w].name, Unsaved(w, own), UNCHANGED <<stored, cached, mode>>,
         JobOK(Marked(own), mode[w], Here(w), job[w].name \in stored)
  PROVE  SetupInv'
<1> DEFINE m == Marked(own)
<1>1. m \in Jobs /\ m.name = job[w].name
  BY MarkedShape DEF Marked, Jobs
<1>2. job' = [job EXCEPT ![w] = m] /\ remotes' = [remotes EXCEPT ![job[w].name] = Here(w)]
  BY DEF Unsaved, Leaves, Here, Marked
<1>3. remotes' = remotes
  BY <1>2 DEF Here, SetupInv, TypeInv
<1> HIDE DEF m
<1>4. m # None => JobOK(m, mode[w], remotes[m.name], m.name \in stored)
  BY <1>1 DEF m, Here
<1> QED BY <1>1, <1>2, <1>3, <1>4, OwnStep

-----------------------------------------------------------------------------
(* Looking *)

\* What the section that was looked up, or its absence, leads to.
LEMMA AfterOK ==
  ASSUME NEW w \in Windows, NEW e \in Entries \cup {None},
         job[w].kind \in AllKinds \ {"Remove", "Onedriver"}, After(w, e) # None
  PROVE  LET next == After(w, e) IN
         /\ next \in StepsOf(job[w].kind) /\ next \in {"create", "update", "password"}
         /\ next = "create" => e = None
         /\ next # "create" => e # None /\ e.type = Backend(job[w].kind)
         /\ job[w].kind = "Google" => (next = "update" <=> mode[w] = "modify")
         /\ job[w].kind = "Sftp" => SecretKnown(job[w].draft, e)
<1> DEFINE next == After(w, e)
<1>0. e # None => Type(e) = e.type /\ e.type \in Backends /\ e.type # None
  BY NoneAssumption DEF Type, Entries
<1>1. CASE job[w].kind = "Google"
  <2>1. next = GoogleNext(w, e)
    BY <1>1 DEF After
  <2> QED BY <1>0, <1>1, <2>1, NoneAssumption
          DEF GoogleNext, Absent, Modifies, StepsOf, Backend, Type, Backends
<1>2. CASE job[w].kind = "Smb"
  <2>1. next = SmbNext(job[w].draft, e)
    BY <1>2 DEF After
  <2> QED BY <1>0, <1>2, <2>1 DEF SmbNext, Modifies, StepsOf, Backend
<1>3. CASE job[w].kind = "Sftp"
  <2>1. next = SftpNext(w, e)
    BY <1>3 DEF After
  <2> QED BY <1>0, <1>3, <2>1 DEF SftpNext, Modifies, StepsOf, Backend
<1>4. CASE job[w].kind \in {"Box", "OneDrive", "Teams"}
  <2>1. next = Absent(e)
    BY <1>4 DEF After
  <2> QED BY <1>4, <2>1 DEF Absent, Modifies, StepsOf
<1> QED BY <1>1, <1>2, <1>3, <1>4 DEF AllKinds

\* A job that fails before it wrote anything.
LEMMA FailsStep ==
  ASSUME SetupInv, NEW w \in Windows, job[w] # None, ~job[w].made, Fails(w),
         UNCHANGED <<remotes, stored, cached, mode>>
  PROVE  SetupInv'
<1>1. /\ job[w] \in Jobs
      /\ JobOK(job[w], mode[w], remotes[job[w].name], job[w].name \in stored)
  BY JobType
<1>2. /\ Continues(Ended(w, "failed"), job[w]) /\ Ended(w, "failed").step = "done"
      /\ Ended(w, "failed").result = "failed" /\ ~Ended(w, "failed").made
  BY <1>1, EndedShape
<1>3. JobOK(Ended(w, "failed"), mode[w], remotes[job[w].name], job[w].name \in stored)
  BY <1>1, <1>2, DoneOK DEF Told
<1> QED BY <1>2, <1>3, OwnStep DEF Fails, Continues

LEMMA LookStep ==
  ASSUME SetupInv, NEW w \in Windows, Look(w)
  PROVE  SetupInv'
<1> DEFINE j == job[w]
           e == Here(w)
           next == After(w, e)
           own == [j EXCEPT !.step = next, !.touched = FALSE, !.torn = Torn(e),
                            !.found = IF next = "update" THEN e ELSE None]
<1>1. /\ j # None /\ j.step = "look" /\ j.kind \notin {"Remove", "Onedriver"}
      /\ UNCHANGED <<remotes, stored, cached, mode>>
  BY DEF Look, At, window
<1>2. /\ j \in Jobs /\ JobOK(j, mode[w], e, j.name \in stored) /\ e \in Entries \cup {None}
      /\ ~j.made /\ e = remotes[j.name] /\ j.kind \in AllKinds \ {"Remove", "Onedriver"}
  BY <1>1, JobType DEF JobOK, Here, Jobs
<1>3. CASE Fails(w)
  BY <1>1, <1>2, <1>3, FailsStep
<1>4. CASE ~Fails(w)
  <2>1. next # None /\ job' = [job EXCEPT ![w] = own]
    BY <1>4, <1>1 DEF Look, SetupInv, TypeInv
  <2>2. /\ next \in StepsOf(j.kind) /\ next \in {"create", "update", "password"}
        /\ next = "create" => e = None
        /\ next # "create" => e # None /\ e.type = Backend(j.kind)
        /\ j.kind = "Google" => (next = "update" <=> mode[w] = "modify")
        /\ j.kind = "Sftp" => SecretKnown(j.draft, e)
    BY <1>2, <2>1, AfterOK
  <2> HIDE DEF next
  <2>3. /\ own \in Jobs /\ own.kind = j.kind /\ own.name = j.name /\ own.draft = j.draft
        /\ own.step = next /\ own.made = j.made /\ own.torn = Torn(e)
        /\ own.found = IF next = "update" THEN e ELSE None
    BY <1>2, <2>2 DEF Jobs, AllSteps, Torn
  <2> HIDE DEF own
  <2>4. Undisturbed(own, mode[w], e, j.name \in stored)
    <3>1. Backend(own.kind) = Backend(j.kind)
      BY <2>3
    <3> QED BY <2>2, <2>3, <3>1 DEF Undisturbed
  <2>5. JobOK(own, mode[w], e, j.name \in stored)
    BY <1>2, <2>2, <2>3, <2>4 DEF JobOK, Modifies, SecretKnown
  <2> QED BY <1>1, <1>2, <2>1, <2>3, <2>5, OwnStep
<1> QED BY <1>3, <1>4

LEMMA LookRemoveStep ==
  ASSUME SetupInv, NEW w \in Windows, LookRemove(w)
  PROVE  SetupInv'
<1> DEFINE j == job[w]
           own == [j EXCEPT !.step = "delete", !.touched = FALSE]
<1>1. /\ j # None /\ j.step = "look" /\ j.kind = "Remove"
      /\ UNCHANGED <<remotes, stored, cached, mode>>
  BY DEF LookRemove, At, window
<1>2. /\ j \in Jobs /\ JobOK(j, mode[w], remotes[j.name], j.name \in stored) /\ ~j.made
  BY <1>1, JobType DEF JobOK
<1>3. CASE Fails(w)
  BY <1>1, <1>2, <1>3, FailsStep
<1>4. CASE ~Fails(w)
  <2>1. j.name \notin stored /\ job' = [job EXCEPT ![w] = own]
    BY <1>4, <1>1 DEF LookRemove, SetupInv, TypeInv
  <2>2. /\ own \in Jobs /\ own.kind = "Remove" /\ own.name = j.name /\ own.draft = j.draft
        /\ own.step = "delete" /\ own.made = j.made
    BY <1>1, <1>2 DEF Jobs, AllSteps
  <2> HIDE DEF own
  <2>3. JobOK(own, mode[w], remotes[j.name], own.name \in stored)
    BY <1>1, <1>2, <2>1, <2>2 DEF JobOK, Modifies, Undisturbed, StepsOf
  <2> QED BY <1>1, <1>2, <2>1, <2>2, <2>3, OwnStep
<1> QED BY <1>3, <1>4

-----------------------------------------------------------------------------
(* Commands that write *)

\* What holds at every command of a job
LEMMA AtCommand ==
  ASSUME SetupInv, NEW w \in Windows, NEW s \in AllSteps \ {"look", "signIn", "isolate", "done"},
         At(w, s)
  PROVE  /\ job[w] # None /\ job[w] \in Jobs /\ job[w].step = s
         /\ JobOK(job[w], mode[w], Here(w), job[w].name \in stored)
         /\ job[w].kind \in AllKinds \ {"Onedriver"} /\ s \in StepsOf(job[w].kind)
         /\ job[w].name \in Names /\ Here(w) \in Entries \cup {None} /\ SftpHasOptions(Here(w))
         /\ job[w].draft \in Drafts(job[w].kind)
<1>1. job[w] # None /\ job[w].step = s
  BY DEF At
<1>2. /\ job[w] \in Jobs
      /\ JobOK(job[w], mode[w], Here(w), job[w].name \in stored)
  BY <1>1, JobType DEF Here
<1>3. job[w].kind \in AllKinds \ {"Onedriver"} /\ s \in StepsOf(job[w].kind)
  BY <1>1, <1>2 DEF JobOK, StepsOf, Jobs, AllSteps
<1> QED BY <1>1, <1>2, <1>3, JobType DEF JobOK

\* The sections that a successful create of a browser or Microsoft sign-in
\* leaves are not checked yet; the others are complete.
LEMMA CreateComplete ==
  ASSUME NEW j \in Jobs, NEW e \in Created(j.kind, j.draft), j.draft \in Drafts(j.kind),
         \/ j.kind = "Smb" /\ ~j.draft.pass
         \/ j.kind = "Sftp" /\ SecretKnown(j.draft, None)
  PROVE  Complete(e, j)
<1>1. CASE j.kind = "Smb" /\ ~j.draft.pass
  <2>1. e = Section("smb", None, None) /\ e # None /\ e.type = "smb"
    BY <1>1, CreatedType, SectionType, NoneAssumption
       DEF Created, SmbCreated, Browser, AllKinds, Backend
  <2> QED BY <1>1, <2>1 DEF Complete, Type, Browser
<1>2. CASE j.kind = "Sftp" /\ SecretKnown(j.draft, None)
  <2> DEFINE a == Applied(j.draft, None, NoOptions)
  <2>1. j.draft \in Drafts("Sftp") /\ NoOptions \in Options
    BY <1>2, SectionType
  <2>2. a \in Options
    BY <2>1, AppliedOptions
  <2>3. e = SftpSection(a)
    BY <1>2 DEF Created, SftpCreated, Browser
  <2>4. e \in Entries /\ e # None /\ Type(e) = "sftp" /\ e.opts = a
    BY <2>2, <2>3, SectionType, NoneAssumption DEF Type
  <2>5. /\ HasAuth(a) = j.draft.auth
        /\ Whole(a, NoOptions.phrase \notin {None, NoOptions.key})
        /\ j.draft.auth = "Key" => a.key = j.draft.key /\ (j.draft.secret => a.phrase = a.key)
    BY <1>2, <2>1, AppliedWhole
  <2>6. Whole(a, j.torn)
    BY <2>5 DEF Whole, NoOptions
  <2> HIDE DEF a
  <2> QED BY <1>2, <2>4, <2>5, <2>6 DEF Complete, Browser
<1> QED BY <1>1, <1>2

\* The jobs that go on from a successful create
LEMMA AfterCreateOK ==
  ASSUME NEW w, job[w] \in Jobs, NEW own \in AfterCreate(w),
         job[w].kind \in AllKinds \ {"Remove", "Onedriver"}
  PROVE  /\ Continues(own, job[w]) /\ own.made = job[w].made
         /\ \/ own.step = "check" /\ job[w].kind \in Browser
            \/ own.step = "password" /\ job[w].kind = "Smb"
            \/ own.step = "answer" /\ job[w].kind \in {"OneDrive", "Teams"}
            \/ /\ own.step = "done" /\ own.result = "ok"
               /\ job[w].kind = "Sftp" \/ (job[w].kind = "Smb" /\ ~job[w].draft.pass)
<1>1. CASE job[w].kind \in Browser
  <2>1. own = To(w, "check")
    BY <1>1 DEF AfterCreate, Browser
  <2> QED BY <1>1, <2>1, ToShape DEF AllSteps
<1>2. CASE job[w].kind = "Smb"
  <2>1. own = IF job[w].draft.pass THEN To(w, "password") ELSE Ended(w, "ok")
    BY <1>2 DEF AfterCreate, Browser
  <2> QED BY <1>2, <2>1, ToShape, EndedShape DEF AllSteps
<1>3. CASE job[w].kind = "Sftp"
  <2>1. own = Ended(w, "ok")
    BY <1>3 DEF AfterCreate, Browser
  <2> QED BY <1>3, <2>1, EndedShape
<1>4. CASE job[w].kind \in {"OneDrive", "Teams"}
  <2>1. PICK r \in Replies : own = [To(w, "answer") EXCEPT !.reply = r, !.turns = 1]
    BY <1>4 DEF AfterCreate, Browser
  <2>2. Continues(To(w, "answer"), job[w]) /\ To(w, "answer").step = "answer"
        /\ To(w, "answer").made = job[w].made
    BY ToShape DEF AllSteps
  <2>3. 1 \in 0 .. MaxTurns
    BY SetupAssumption
  <2> QED BY <1>4, <2>1, <2>2, <2>3 DEF Continues, Jobs
<1> QED BY <1>1, <1>2, <1>3, <1>4 DEF AllKinds, Browser

LEMMA CreateStep ==
  ASSUME SetupInv, NEW w \in Windows, Create(w)
  PROVE  SetupInv'
<1> DEFINE j == job[w]
           used == j.name \in stored
           l(e, own) == Left(w, e, own)
<1>1. /\ j # None /\ j \in Jobs /\ j.step = "create"
      /\ JobOK(j, mode[w], Here(w), used)
      /\ j.kind \in AllKinds \ {"Remove", "Onedriver"}
      /\ j.name \in Names /\ Here(w) \in Entries \cup {None} /\ SftpHasOptions(Here(w))
      /\ j.draft \in Drafts(j.kind)
      /\ UNCHANGED <<stored, cached, mode>>
  BY AtCommand DEF Create, window, StepsOf, AllSteps
<1>2. /\ ~j.made /\ ~Modifies(j, mode[w]) /\ (j.touched \/ Here(w) = None)
      /\ j.kind = "Sftp" => SecretKnown(j.draft, None)
  BY <1>1 DEF JobOK, Undisturbed
<1>3. ASSUME NEW e \in Created(j.kind, j.draft), NEW own \in AfterCreate(w), Leaves(w, e, own)
      PROVE  SetupInv'
  <2>1. e \in Entries /\ e # None /\ e.type = Backend(j.kind) /\ SftpHasOptions(e)
    BY <1>1, CreatedType
  <2>2. /\ Continues(own, j) /\ own \in Jobs /\ own.made = j.made
        /\ \/ own.step = "check" /\ j.kind \in Browser
           \/ own.step = "password" /\ j.kind = "Smb"
           \/ own.step = "answer" /\ j.kind \in {"OneDrive", "Teams"}
           \/ /\ own.step = "done" /\ own.result = "ok"
              /\ j.kind = "Sftp" \/ (j.kind = "Smb" /\ ~j.draft.pass)
    BY <1>1, AfterCreateOK DEF Continues
  <2>3. /\ Continues(l(e, own), j) /\ l(e, own).step = own.step /\ l(e, own).result = own.result
        /\ j.touched \/ l(e, own).made
    <3>1. /\ Continues(l(e, own), j) /\ l(e, own).step = own.step
          /\ l(e, own).result = own.result
          /\ l(e, own).made = (own.made \/ (Here(w) = None /\ e # None))
      BY <2>2, LeftShape
    <3> HIDE DEF l
    <3> QED BY <1>2, <2>1, <3>1
  <2> HIDE DEF l
  <2>4. CASE own.step # "done"
    <3>1. l(e, own).step \in StepsOf(l(e, own).kind) /\ l(e, own).touched = j.touched
      BY <2>2, <2>3, <2>4 DEF Continues, StepsOf, Browser
    <3>2. JobOK(l(e, own), mode[w], e, used)
      BY <1>1, <1>2, <2>1, <2>2, <2>3, <2>4, <3>1, GoesOnOK
    <3> QED BY <1>1, <1>3, <2>1, <2>2, <3>2, CommandStep DEF Continues, l
  <2>5. CASE own.step = "done"
    <3>1. l(e, own) \in Jobs /\ l(e, own).kind = j.kind /\ l(e, own).draft = j.draft
      BY <2>3 DEF Continues
    <3>2. \/ l(e, own).kind = "Smb" /\ ~l(e, own).draft.pass
          \/ l(e, own).kind = "Sftp" /\ SecretKnown(l(e, own).draft, None)
      BY <1>2, <2>2, <2>5, <3>1
    <3>3. e \in Created(l(e, own).kind, l(e, own).draft)
          /\ l(e, own).draft \in Drafts(l(e, own).kind)
      BY <1>1, <3>1
    <3>4. Complete(e, l(e, own))
      BY <3>1, <3>2, <3>3, CreateComplete
    <3>5. Told(l(e, own), e)
      BY <2>2, <2>3, <2>5, <3>1, <3>2, <3>4 DEF Told
    <3>6. JobOK(l(e, own), mode[w], e, used)
      BY <1>1, <1>2, <2>2, <2>3, <2>5, <3>5, DoneOK
    <3> QED BY <1>1, <1>3, <2>1, <2>2, <3>6, CommandStep DEF Continues, l
  <2> QED BY <2>4, <2>5
<1>4. ASSUME NEW e \in {Here(w)} \cup Created(j.kind, j.draft), Leaves(w, e, CreateFailed(w))
      PROVE  SetupInv'
  <2> DEFINE own == CreateFailed(w)
  <2>1. e \in Entries \cup {None} /\ SftpHasOptions(e)
    BY <1>1, CreatedType
  <2>2. /\ Continues(own, j) /\ own \in Jobs /\ own.made = j.made
        /\ own.step = (IF j.kind = "Sftp" THEN "done" ELSE "undo")
        /\ j.kind = "Sftp" => own.result = "failed"
    BY <1>1, ToShape, EndedShape DEF CreateFailed, Continues, AllSteps
  <2>3. Leaves(w, e, own)
    BY <1>4
  <2> HIDE DEF own
  <2>4. /\ Continues(l(e, own), j) /\ l(e, own).step = own.step /\ l(e, own).result = own.result
        /\ j.touched \/ l(e, own).made \/ e = None
    <3>1. /\ Continues(l(e, own), j) /\ l(e, own).step = own.step
          /\ l(e, own).result = own.result
          /\ l(e, own).made = (own.made \/ (Here(w) = None /\ e # None))
      BY <2>2, LeftShape
    <3> HIDE DEF l
    <3> QED BY <1>2, <3>1
  <2> HIDE DEF l
  <2>5. JobOK(l(e, own), mode[w], e, used)
    <3>1. CASE j.kind = "Sftp"
      <4>1. Told(l(e, own), e)
        BY <2>2, <2>4, <3>1 DEF Told, Continues, Browser
      <4> QED BY <1>1, <1>2, <2>2, <2>4, <3>1, <4>1, DoneOK
    <3>2. CASE j.kind # "Sftp"
      <4>1. l(e, own).touched = j.touched
        BY <2>4 DEF Continues
      <4> QED BY <1>1, <1>2, <2>2, <2>4, <3>2, <4>1, UndoOK
    <3> QED BY <3>1, <3>2
  <2> QED BY <1>1, <2>1, <2>2, <2>3, <2>5, CommandStep DEF Continues, l
<1>5. ASSUME NEW own \in AfterCreate(w), j.kind # "Sftp", Unsaved(w, own)
      PROVE  SetupInv'
  <2> DEFINE m == Marked(own)
  <2>1. /\ Continues(own, j) /\ own \in Jobs /\ own.made = j.made
        /\ \/ own.step = "check" /\ j.kind \in Browser
           \/ own.step = "password" /\ j.kind = "Smb"
           \/ own.step = "answer" /\ j.kind \in {"OneDrive", "Teams"}
           \/ own.step = "done" /\ own.result = "ok" /\ j.kind = "Smb"
    BY <1>1, <1>5, AfterCreateOK DEF Continues
  <2>2. /\ m \in Jobs /\ m.unsaved /\ m.step = own.step /\ m.result = own.result
        /\ m.made = j.made /\ Continues(m, j)
    BY <2>1, MarkedShape
  <2> HIDE DEF m
  <2>3. JobOK(m, mode[w], Here(w), used)
    <3>1. CASE own.step = "done"
      <4>1. Told(m, Here(w))
        BY <2>1, <2>2, <3>1 DEF Told, Continues, Verifying, Browser
      <4> QED BY <1>1, <1>2, <2>2, <3>1, <4>1, DoneOK
    <3>2. CASE own.step # "done"
      <4>1. m.step \in StepsOf(m.kind) /\ m.touched = j.touched
        BY <2>1, <2>2, <3>2 DEF Continues, StepsOf, Browser
      <4> QED BY <1>1, <1>2, <2>1, <2>2, <3>2, <4>1, GoesOnOK
    <3> QED BY <3>1, <3>2
  <2> QED BY <1>1, <1>5, <2>1, <2>3, UnsavedStep DEF Continues, m
<1> QED BY <1>3, <1>4, <1>5 DEF Create

LEMMA DeleteStep ==
  ASSUME SetupInv, NEW w \in Windows, Delete(w)
  PROVE  SetupInv'
<1> DEFINE j == job[w]
           used == j.name \in stored
           l(e, own) == Left(w, e, own)
<1>1. /\ j # None /\ j \in Jobs /\ j.kind = "Remove"
      /\ JobOK(j, mode[w], Here(w), used)
      /\ j.name \in Names /\ Here(w) \in Entries \cup {None} /\ SftpHasOptions(Here(w))
      /\ UNCHANGED <<stored, cached, mode>>
  BY AtCommand DEF Delete, window, StepsOf, AllSteps, AllKinds
<1>2. ASSUME NEW e \in {None, Here(w)}, NEW r \in {"ok", "failed"}, Leaves(w, e, Ended(w, r)),
             r = "ok" => e = None
      PROVE  SetupInv'
  <2> DEFINE own == Ended(w, r)
  <2>1. /\ Continues(own, j) /\ own \in Jobs /\ own.step = "done" /\ own.result = r
    BY <1>1, EndedShape DEF Continues
  <2>2. Leaves(w, e, own) /\ e \in Entries \cup {None} /\ SftpHasOptions(e)
    BY <1>1, <1>2 DEF SftpHasOptions
  <2> HIDE DEF own
  <2>3. Continues(l(e, own), j) /\ l(e, own).step = "done" /\ l(e, own).result = r
    BY <2>1, LeftShape
  <2> HIDE DEF l
  <2>4. Told(l(e, own), e)
    BY <1>1, <1>2, <2>3 DEF Told, Continues, Complete, Browser
  <2>5. JobOK(l(e, own), mode[w], e, used)
    BY <1>1, <2>3, <2>4, DoneOK DEF Modifies
  <2> QED BY <1>1, <2>1, <2>2, <2>5, CommandStep DEF Continues, l
<1>3. ASSUME Unsaved(w, Ended(w, "ok"))
      PROVE  SetupInv'
  <2> DEFINE own == Ended(w, "ok")
             m == Marked(own)
  <2>1. Continues(own, j) /\ own \in Jobs /\ own.step = "done" /\ own.result = "ok"
    BY <1>1, EndedShape DEF Continues
  <2>2. Unsaved(w, own)
    BY <1>3
  <2> HIDE DEF own
  <2>3. m.unsaved /\ m.step = "done" /\ m.result = "ok" /\ Continues(m, j)
    BY <2>1, MarkedShape
  <2> HIDE DEF m
  <2>4. Told(m, Here(w))
    BY <1>1, <2>3 DEF Told, Continues, Verifying, Browser
  <2>5. JobOK(m, mode[w], Here(w), used)
    BY <1>1, <2>3, <2>4, DoneOK DEF Modifies
  <2> QED BY <1>1, <2>1, <2>2, <2>5, UnsavedStep DEF Continues, m
<1> QED BY <1>2, <1>3 DEF Delete

\* An update keeps the backend, and of SFTP the options become those of the draft.
LEMMA UpdatedType ==
  ASSUME SetupInv, NEW w \in Windows, At(w, "update"), Here(w) # None, NEW e \in Updated(w)
  PROVE  /\ e \in Entries /\ e # None /\ e.type = Here(w).type /\ SftpHasOptions(e)
         /\ job[w].kind = "Smb" => e = Here(w)
         /\ job[w].kind = "Sftp" =>
              e.opts = Applied(job[w].draft, job[w].found,
                               IF Here(w).opts = None THEN NoOptions ELSE Here(w).opts)
<1> DEFINE j == job[w]
           h == Here(w)
           o == IF h.opts = None THEN NoOptions ELSE h.opts
<1>1. /\ h \in Entries /\ SftpHasOptions(h) /\ j.draft \in Drafts(j.kind)
      /\ j.kind \in {"Google", "Smb", "Sftp"}
  BY AtCommand DEF AllSteps, StepsOf, AllKinds
<1>2. o \in Options
  BY <1>1, SectionType DEF Entries
<1>3. CASE j.kind = "Google"
  <2>1. PICK login \in {None, "own"} : e = [h EXCEPT !.login = login]
    BY <1>3 DEF Updated, GoogleUpdated
  <2>2. e \in Entries /\ e.type = h.type /\ e.opts = h.opts
    BY <1>1, <2>1 DEF Entries, Accounts
  <2> QED BY <1>1, <1>3, <2>2, NoneAssumption DEF SftpHasOptions
<1>4. CASE j.kind = "Sftp"
  <2> DEFINE a == Applied(j.draft, j.found, o)
  <2>1. a \in Options
    BY <1>1, <1>2, <1>4, AppliedOptions
  <2>2. e = [h EXCEPT !.opts = a]
    BY <1>1, <1>4 DEF Updated, SftpUpdated, Entries
  <2> HIDE DEF a, h
  <2>3. e \in Entries /\ e.type = h.type /\ e.opts = a
    BY <1>1, <2>1, <2>2 DEF Entries
  <2>4. e # None /\ SftpHasOptions(e)
    BY <2>1, <2>3, NoneAssumption DEF SftpHasOptions
  <2> QED BY <1>4, <2>3, <2>4 DEF a, h
<1>5. CASE j.kind = "Smb"
  BY <1>1, <1>5 DEF Updated
<1> QED BY <1>1, <1>3, <1>4, <1>5

\* An update of SFTP that was not disturbed leaves what the draft says.
LEMMA UpdateComplete ==
  ASSUME SetupInv, NEW w \in Windows, At(w, "update"), Here(w) # None, NEW e \in Updated(w),
         NEW j, Continues(j, job[w]), ~j.touched,
         j.kind = "Sftp" \/ (j.kind = "Smb" /\ ~j.draft.pass)
  PROVE  Complete(e, j)
<1> DEFINE b == job[w]
           h == Here(w)
<1>1. /\ h \in Entries /\ SftpHasOptions(h) /\ b.draft \in Drafts(b.kind)
      /\ JobOK(b, mode[w], h, b.name \in stored) /\ b.step = "update"
  BY AtCommand DEF AllSteps
<1>2. /\ b.kind = j.kind /\ b.draft = j.draft /\ b.torn = j.torn /\ ~b.touched
      /\ Undisturbed(b, mode[w], h, b.name \in stored)
  BY <1>1 DEF Continues, JobOK
<1>3. e # None /\ e.type = h.type /\ h.type = Backend(j.kind)
  BY <1>1, <1>2, UpdatedType DEF Undisturbed
<1>4. CASE j.kind = "Smb" /\ ~j.draft.pass
  BY <1>3, <1>4 DEF Complete, Type, Browser, Backend
<1>5. CASE j.kind = "Sftp"
  <2>1. h.type = "sftp" /\ h.opts \in Options /\ h.opts # None
    BY <1>1, <1>2, <1>3, <1>5 DEF Backend, SftpHasOptions, Entries
  <2>2. b.found = h /\ j.torn = Torn(h) /\ SecretKnown(j.draft, h)
    BY <1>1, <1>2, <1>5 DEF Undisturbed, JobOK
  <2> DEFINE a == Applied(j.draft, h, h.opts)
  <2>3. e.opts = a
    BY <1>2, <1>5, <2>1, <2>2, UpdatedType
  <2>4. /\ HasAuth(a) = j.draft.auth
        /\ Whole(a, h.opts.phrase \notin {None, h.opts.key})
        /\ j.draft.auth = "Key" => a.key = j.draft.key /\ (j.draft.secret => a.phrase = a.key)
    BY <1>1, <1>2, <1>5, <2>1, <2>2, AppliedWhole
  <2> HIDE DEF a
  <2>5. Whole(a, j.torn)
    BY <2>1, <2>2, <2>4 DEF Torn, Whole
  <2> QED BY <1>3, <1>5, <2>1, <2>3, <2>4, <2>5 DEF Complete, Type, Browser
<1> QED BY <1>4, <1>5

\* The jobs that go on from a successful update
LEMMA AfterUpdateOK ==
  ASSUME NEW w, job[w] \in Jobs, job[w].kind \in {"Google", "Smb", "Sftp"}
  PROVE  LET own == AfterUpdate(w) IN
         /\ Continues(own, job[w]) /\ own \in Jobs /\ own.made = job[w].made
         /\ \/ own.step = "check" /\ job[w].kind = "Google"
            \/ own.step = "password" /\ job[w].kind = "Smb"
            \/ /\ own.step = "done" /\ own.result = "ok"
               /\ job[w].kind = "Sftp" \/ (job[w].kind = "Smb" /\ ~job[w].draft.pass)
BY ToShape, EndedShape DEF AfterUpdate, Continues, AllSteps

LEMMA UpdateStep ==
  ASSUME SetupInv, NEW w \in Windows, Update(w)
  PROVE  SetupInv'
<1> DEFINE j == job[w]
           used == j.name \in stored
           l(e, own) == Left(w, e, own)
<1>1. /\ j # None /\ j \in Jobs /\ j.step = "update" /\ At(w, "update")
      /\ JobOK(j, mode[w], Here(w), used)
      /\ j.kind \in {"Google", "Smb", "Sftp"}
      /\ j.name \in Names /\ Here(w) \in Entries \cup {None} /\ SftpHasOptions(Here(w))
      /\ UNCHANGED <<stored, cached, mode>>
  BY AtCommand DEF Update, window, StepsOf, AllSteps, AllKinds
<1>2. /\ ~j.made /\ (j.kind = "Google" => Modifies(j, mode[w]))
      /\ j.touched \/ (Here(w) # None /\ Here(w).type = Backend(j.kind))
  BY <1>1 DEF JobOK, Undisturbed, Modifies
<1>3. ASSUME Here(w) # None, NEW e \in Updated(w), NEW own,
             own = AfterUpdate(w), Leaves(w, e, own)
      PROVE  SetupInv'
  <2>1. e \in Entries /\ e # None /\ e.type = Here(w).type /\ SftpHasOptions(e)
    BY <1>1, <1>3, UpdatedType
  <2>2. /\ Continues(own, j) /\ own \in Jobs /\ own.made = j.made
        /\ \/ own.step = "check" /\ j.kind = "Google"
           \/ own.step = "password" /\ j.kind = "Smb"
           \/ /\ own.step = "done" /\ own.result = "ok"
              /\ j.kind = "Sftp" \/ (j.kind = "Smb" /\ ~j.draft.pass)
    BY <1>1, <1>3, AfterUpdateOK
  <2>3. /\ Continues(l(e, own), j) /\ l(e, own).step = own.step /\ l(e, own).result = own.result
        /\ l(e, own).touched = j.touched /\ ~l(e, own).made
    <3>1. /\ Continues(l(e, own), j) /\ l(e, own).step = own.step
          /\ l(e, own).result = own.result
          /\ l(e, own).made = (own.made \/ (Here(w) = None /\ e # None))
      BY <2>2, LeftShape
    <3> HIDE DEF l
    <3> QED BY <1>2, <1>3, <2>2, <3>1 DEF Continues
  <2> HIDE DEF l
  <2>4. CASE own.step # "done"
    <3>1. l(e, own).step \in StepsOf(l(e, own).kind)
      BY <2>2, <2>3, <2>4 DEF Continues, StepsOf
    <3>2. JobOK(l(e, own), mode[w], e, used)
      BY <1>1, <1>2, <2>1, <2>2, <2>3, <2>4, <3>1, GoesOnOK
    <3> QED BY <1>1, <1>3, <2>1, <2>2, <3>2, CommandStep DEF Continues, l
  <2>5. CASE own.step = "done"
    <3>1. l(e, own).kind = j.kind /\ l(e, own).draft = j.draft
      BY <2>3 DEF Continues
    <3>2. l(e, own).touched \/ Complete(e, l(e, own))
      BY <1>1, <1>3, <2>2, <2>3, <2>5, <3>1, UpdateComplete
    <3>3. Told(l(e, own), e)
      BY <1>1, <2>2, <2>3, <2>5, <3>1, <3>2 DEF Told
    <3>4. JobOK(l(e, own), mode[w], e, used)
      BY <1>1, <1>2, <2>2, <2>3, <2>5, <3>3, DoneOK
    <3> QED BY <1>1, <1>3, <2>1, <2>2, <3>4, CommandStep DEF Continues, l
  <2> QED BY <2>4, <2>5
<1>4. ASSUME NEW e \in {Here(w)} \cup (IF Here(w) = None THEN {} ELSE Updated(w)),
             Leaves(w, e, Ended(w, "failed"))
      PROVE  SetupInv'
  <2> DEFINE own == Ended(w, "failed")
  <2>1. e \in Entries \cup {None} /\ SftpHasOptions(e) /\ (Here(w) = None => e = None)
    BY <1>1, UpdatedType
  <2>2. /\ Continues(own, j) /\ own \in Jobs /\ own.made = j.made
        /\ own.step = "done" /\ own.result = "failed" /\ Leaves(w, e, own)
    BY <1>1, <1>4, EndedShape DEF Continues
  <2> HIDE DEF own
  <2>3. /\ Continues(l(e, own), j) /\ l(e, own).step = "done" /\ l(e, own).result = "failed"
        /\ ~l(e, own).made
    <3>1. /\ Continues(l(e, own), j) /\ l(e, own).step = own.step
          /\ l(e, own).result = own.result
          /\ l(e, own).made = (own.made \/ (Here(w) = None /\ e # None))
      BY <2>2, LeftShape
    <3> HIDE DEF l
    <3> QED BY <1>2, <2>1, <2>2, <3>1
  <2> HIDE DEF l
  <2>4. Told(l(e, own), e)
    BY <2>3 DEF Told
  <2>5. JobOK(l(e, own), mode[w], e, used)
    BY <1>1, <2>3, <2>4, DoneOK
  <2> QED BY <1>1, <2>1, <2>2, <2>5, CommandStep DEF Continues, l
<1>5. ASSUME Here(w) # None, j.kind # "Sftp", Unsaved(w, AfterUpdate(w))
      PROVE  SetupInv'
  <2> DEFINE own == AfterUpdate(w)
             m == Marked(own)
  <2>1. /\ Continues(own, j) /\ own \in Jobs /\ own.made = j.made /\ Unsaved(w, own)
        /\ \/ own.step = "check" /\ j.kind = "Google"
           \/ own.step = "password" /\ j.kind = "Smb"
           \/ own.step = "done" /\ own.result = "ok" /\ j.kind = "Smb"
    BY <1>1, <1>5, AfterUpdateOK
  <2> HIDE DEF own
  <2>2. /\ m \in Jobs /\ m.unsaved /\ m.step = own.step /\ m.result = own.result
        /\ m.made = j.made /\ Continues(m, j)
    BY <2>1, MarkedShape
  <2> HIDE DEF m
  <2>3. JobOK(m, mode[w], Here(w), used)
    <3>1. CASE own.step = "done"
      <4>1. Told(m, Here(w))
        BY <2>1, <2>2, <3>1 DEF Told, Continues, Verifying, Browser
      <4> QED BY <1>1, <1>2, <2>2, <3>1, <4>1, DoneOK
    <3>2. CASE own.step # "done"
      <4>1. m.step \in StepsOf(m.kind) /\ m.touched = j.touched
        BY <2>1, <2>2, <3>2 DEF Continues, StepsOf
      <4> QED BY <1>1, <1>2, <2>1, <2>2, <3>2, <4>1, GoesOnOK
    <3> QED BY <3>1, <3>2
  <2> QED BY <1>1, <2>1, <2>3, UnsavedStep DEF Continues, m
<1> QED BY <1>3, <1>4, <1>5 DEF Update

LEMMA PasswordStep ==
  ASSUME SetupInv, NEW w \in Windows, Password(w)
  PROVE  SetupInv'
<1> DEFINE j == job[w]
           h == Here(w)
           used == j.name \in stored
           l(e, own) == Left(w, e, own)
<1>1. /\ j # None /\ j \in Jobs /\ j.kind = "Smb"
      /\ JobOK(j, mode[w], h, used) /\ j.step = "password"
      /\ j.name \in Names /\ h \in Entries \cup {None} /\ SftpHasOptions(h)
      /\ UNCHANGED <<stored, cached, mode>>
  BY AtCommand DEF Password, window, StepsOf, AllSteps, AllKinds
<1>2. j.touched \/ h = None \/ h.type = "smb"
  BY <1>1 DEF JobOK, Undisturbed, Backend
<1>3. ASSUME NEW e \in Entries \cup {None}, NEW r \in {"ok", "failed"}, Leaves(w, e, Ended(w, r)),
             SftpHasOptions(e),
             r = "ok" => j.touched \/ (e # None /\ e.type = "smb" /\ e.login = "own")
      PROVE  SetupInv'
  <2> DEFINE own == Ended(w, r)
  <2>1. /\ Continues(own, j) /\ own \in Jobs /\ own.step = "done" /\ own.result = r
        /\ Leaves(w, e, own)
    BY <1>1, <1>3, EndedShape DEF Continues
  <2> HIDE DEF own
  <2>2. Continues(l(e, own), j) /\ l(e, own).step = "done" /\ l(e, own).result = r
    BY <2>1, LeftShape
  <2> HIDE DEF l
  <2>3. Told(l(e, own), e)
    BY <1>1, <1>3, <2>2 DEF Told, Continues, Complete, Browser, Type
  <2>4. JobOK(l(e, own), mode[w], e, used)
    BY <1>1, <2>2, <2>3, DoneOK DEF Modifies
  <2> QED BY <1>1, <1>3, <2>1, <2>4, CommandStep DEF Continues, l
<1>4. ASSUME h # None
      PROVE  LET e == [h EXCEPT !.login = "own"] IN
             /\ e \in Entries /\ e.type = h.type /\ e.login = "own" /\ e # None /\ SftpHasOptions(e)
  <2> DEFINE e == [h EXCEPT !.login = "own"]
  <2>1. e \in Entries /\ e.type = h.type /\ e.login = "own" /\ e.opts = h.opts
    BY <1>1, <1>4 DEF Entries, Accounts
  <2> QED BY <1>1, <1>4, <2>1, NoneAssumption DEF SftpHasOptions
<1>5. CASE h # None /\ \E r \in {"ok", "failed"} : Leaves(w, [h EXCEPT !.login = "own"], Ended(w, r))
  BY <1>2, <1>3, <1>4, <1>5
<1>6. CASE Leaves(w, h, Ended(w, "failed"))
  BY <1>1, <1>3, <1>6
<1>7. ASSUME Unsaved(w, Ended(w, "ok"))
      PROVE  SetupInv'
  <2> DEFINE own == Ended(w, "ok")
             m == Marked(own)
  <2>1. Continues(own, j) /\ own \in Jobs /\ own.step = "done" /\ own.result = "ok"
    BY <1>1, EndedShape DEF Continues
  <2>2. Unsaved(w, own)
    BY <1>7
  <2> HIDE DEF own
  <2>3. m.unsaved /\ m.step = "done" /\ m.result = "ok" /\ Continues(m, j)
    BY <2>1, MarkedShape
  <2> HIDE DEF m
  <2>4. Told(m, h)
    BY <1>1, <2>3 DEF Told, Continues, Verifying, Browser
  <2>5. JobOK(m, mode[w], h, used)
    BY <1>1, <2>3, <2>4, DoneOK DEF Modifies
  <2> QED BY <1>1, <2>1, <2>2, <2>5, UnsavedStep DEF Continues, m
<1> QED BY <1>5, <1>6, <1>7 DEF Password

-----------------------------------------------------------------------------
(* Questions, checks and rollbacks *)

\* A job that goes on to "check" or "undo" without writing.
LEMMA MovesOn ==
  ASSUME SetupInv, NEW w \in Windows, NEW s \in {"check", "undo"}, job[w] # None,
         JobOK(To(w, s), mode[w], Here(w), job[w].name \in stored),
         job' = [job EXCEPT ![w] = To(w, s)], UNCHANGED <<remotes, stored, cached, mode>>
  PROVE  SetupInv'
<1>1. To(w, s) \in Jobs /\ To(w, s).name = job[w].name
  BY JobType, ToShape DEF Continues, AllSteps
<1> QED BY <1>1, OwnStep DEF Here

\* An answer keeps the backend.
LEMMA ContinuedType ==
  ASSUME NEW w, Here(w) \in Entries, NEW e \in Continued(w), SftpHasOptions(Here(w)),
         job[w].kind \in {"OneDrive", "Teams"}
  PROVE  e \in Entries /\ e # None /\ e.type = Here(w).type /\ SftpHasOptions(e)
<1> DEFINE h == Here(w)
<1>1. \/ e = [h EXCEPT !.drive = Wanted(job[w].kind)]
      \/ e = h
      \/ \E login \in Accounts : e = [h EXCEPT !.login = login]
  BY DEF Continued
<1>2. e \in Entries /\ e.type = h.type /\ e.opts = h.opts
  BY <1>1 DEF Entries, Wanted, Drives
<1> QED BY <1>2, NoneAssumption DEF SftpHasOptions

LEMMA AnswerStep ==
  ASSUME SetupInv, NEW w \in Windows, Answer(w)
  PROVE  SetupInv'
<1> DEFINE j == job[w]
           used == j.name \in stored
           l(e, own) == Left(w, e, own)
<1>0. /\ j # None /\ j \in Jobs /\ j.kind \in AllKinds /\ "answer" \in StepsOf(j.kind)
      /\ JobOK(j, mode[w], Here(w), used) /\ j.step = "answer"
      /\ j.name \in Names /\ Here(w) \in Entries \cup {None} /\ SftpHasOptions(Here(w))
      /\ UNCHANGED <<stored, cached, mode>>
  BY AtCommand DEF Answer, window, AllSteps
<1>1. /\ j # None /\ j \in Jobs /\ j.kind \in {"OneDrive", "Teams"}
      /\ JobOK(j, mode[w], Here(w), used) /\ j.step = "answer"
      /\ j.name \in Names /\ Here(w) \in Entries \cup {None} /\ SftpHasOptions(Here(w))
      /\ UNCHANGED <<stored, cached, mode>>
  BY <1>0 DEF StepsOf, AllKinds
<1>2. /\ ~Modifies(j, mode[w])
      /\ j.touched \/ Here(w) = None \/ (Here(w).type = Backend(j.kind) /\ j.made)
  BY <1>1 DEF JobOK, Undisturbed, Modifies
<1>3. \A s \in {"check", "undo"} : /\ Continues(To(w, s), j) /\ To(w, s).step = s
                                   /\ To(w, s).made = j.made /\ To(w, s) \in Jobs
                                   /\ To(w, s).touched = j.touched
  BY <1>1, ToShape DEF Continues, AllSteps
<1>4. CASE job' = [job EXCEPT ![w] = To(w, "check")] /\ UNCHANGED remotes
  <2>1. To(w, "check").step \in StepsOf(To(w, "check").kind)
    BY <1>1, <1>3 DEF Continues, StepsOf
  <2>2. JobOK(To(w, "check"), mode[w], Here(w), used)
    BY <1>1, <1>2, <1>3, <2>1, GoesOnOK
  <2> QED BY <1>1, <1>4, <2>2, MovesOn
<1>5. CASE job' = [job EXCEPT ![w] = To(w, "undo")] /\ UNCHANGED remotes
  <2>1. JobOK(To(w, "undo"), mode[w], Here(w), used)
    BY <1>1, <1>2, <1>3, UndoOK
  <2> QED BY <1>1, <1>5, <2>1, MovesOn
<1>6. ASSUME Answerable(w), Here(w) # None, NEW e \in Continued(w),
             NEW own \in Jobs, Continues(own, j), own.made = j.made,
             own.step \in {"answer", "undo"}, Leaves(w, e, own)
      PROVE  SetupInv'
  <2>1. e \in Entries /\ e # None /\ e.type = Here(w).type /\ SftpHasOptions(e)
    BY <1>1, <1>6, ContinuedType
  <2>2. /\ Continues(l(e, own), j) /\ l(e, own).step = own.step
        /\ l(e, own).touched = j.touched /\ (j.touched \/ l(e, own).made)
    <3>1. /\ Continues(l(e, own), j) /\ l(e, own).step = own.step
          /\ l(e, own).made = (own.made \/ (Here(w) = None /\ e # None))
      BY <1>6, LeftShape
    <3> HIDE DEF l
    <3> QED BY <1>2, <1>6, <3>1 DEF Continues
  <2> HIDE DEF l
  <2>3. JobOK(l(e, own), mode[w], e, used)
    <3>1. CASE own.step = "answer"
      <4>1. l(e, own).step \in StepsOf(l(e, own).kind)
        BY <1>1, <2>2, <3>1 DEF Continues, StepsOf
      <4> QED BY <1>1, <1>2, <1>6, <2>1, <2>2, <3>1, <4>1, GoesOnOK
    <3>2. CASE own.step = "undo"
      BY <1>1, <1>2, <2>1, <2>2, <3>2, UndoOK
    <3> QED BY <1>6, <3>1, <3>2
  <2> QED BY <1>1, <1>6, <2>1, <2>3, CommandStep DEF Continues, l
<1>7. ASSUME Answerable(w), Here(w) # None, NEW e \in Continued(w), NEW r \in Replies,
             Leaves(w, e, [j EXCEPT !.reply = r, !.turns = @ + 1,
                                    !.chosen = @ \/ j.reply = "drive"])
      PROVE  SetupInv'
  <2> DEFINE own == [j EXCEPT !.reply = r, !.turns = @ + 1, !.chosen = @ \/ j.reply = "drive"]
  <2>1. j.turns + 1 \in 0 .. MaxTurns /\ (j.chosen \/ j.reply = "drive") \in BOOLEAN
    BY <1>1, <1>7, SetupAssumption DEF Answerable, Jobs
  <2>2. own \in Jobs
    BY <1>1, <2>1 DEF Jobs
  <2>3. own.made = j.made /\ own.step = "answer" /\ Continues(own, j)
    BY <1>1, <2>2 DEF Jobs, Continues
  <2> QED BY <1>6, <1>7, <2>2, <2>3
<1>8. ASSUME Answerable(w), Here(w) # None, NEW e \in Continued(w), Leaves(w, e, To(w, "undo"))
      PROVE  SetupInv'
  BY <1>3, <1>6, <1>8
<1> QED BY <1>4, <1>5, <1>7, <1>8 DEF Answer

LEMMA CheckStep ==
  ASSUME SetupInv, NEW w \in Windows, Check(w)
  PROVE  SetupInv'
<1> DEFINE j == job[w]
           h == Here(w)
           used == j.name \in stored
<1>1. /\ j # None /\ j \in Jobs /\ j.kind \in Browser \cup {"OneDrive", "Teams"}
      /\ JobOK(j, mode[w], h, used) /\ j.step = "check" /\ h = remotes[j.name]
      /\ UNCHANGED <<remotes, stored, cached, mode>>
  BY AtCommand DEF Check, window, StepsOf, AllSteps, AllKinds, Browser, Here
<1>2. /\ j.touched \/ h = None \/ h.type = Backend(j.kind)
      /\ j.touched \/ j.made \/ h = None \/ Modifies(j, mode[w])
      /\ Modifies(j, mode[w]) => ~j.made
  BY <1>1 DEF JobOK, Undisturbed, Browser
<1>3. ASSUME NEW r \in {"ok", "failed"}, job' = [job EXCEPT ![w] = Ended(w, r)],
             r = "ok" => Acceptable(w), r = "failed" => Modifies(j, mode[w])
      PROVE  SetupInv'
  <2> DEFINE own == Ended(w, r)
  <2>1. /\ Continues(own, j) /\ own \in Jobs /\ own.step = "done" /\ own.result = r
        /\ own.made = j.made /\ own.kind = j.kind
    BY <1>1, EndedShape DEF Continues
  <2> HIDE DEF own
  <2>2. ASSUME r = "ok" PROVE Told(own, h)
    <3>1. j.touched \/ Complete(h, own)
      <4>1. CASE j.kind \in Browser
        BY <1>2, <1>3, <2>1, <2>2, <4>1 DEF Acceptable, Reachable, Complete, Browser, Type, Continues
      <4>2. CASE j.kind = "OneDrive"
        BY <1>3, <2>1, <2>2, <4>2 DEF Acceptable, DriveVerified, Complete, Browser, Continues
      <4>3. CASE j.kind = "Teams"
        BY <1>3, <2>1, <2>2, <4>3 DEF Acceptable, LibraryVerified, Complete, Browser, Continues
      <4> QED BY <1>1, <4>1, <4>2, <4>3
    <3>2. own.kind # "Onedriver" /\ own.touched = j.touched /\ own.result = "ok"
      BY <1>1, <2>1, <2>2 DEF Continues, Browser
    <3> QED BY <3>1, <3>2 DEF Told
  <2>3. ASSUME r = "failed" PROVE Told(own, h)
    BY <1>2, <1>3, <2>1, <2>3 DEF Told
  <2>4. Told(own, h)
    BY <2>2, <2>3
  <2>5. JobOK(own, mode[w], h, used)
    BY <1>1, <1>2, <2>1, <2>4, DoneOK
  <2> QED BY <1>1, <1>3, <2>1, <2>5, OwnStep DEF Continues, own
<1>4. CASE job' = [job EXCEPT ![w] = To(w, "undo")] /\ ~Modifies(j, mode[w])
  <2>1. /\ Continues(To(w, "undo"), j) /\ To(w, "undo").step = "undo"
        /\ To(w, "undo").made = j.made /\ To(w, "undo").touched = j.touched
    BY <1>1, ToShape DEF Continues, AllSteps
  <2>2. JobOK(To(w, "undo"), mode[w], h, used)
    BY <1>1, <1>2, <1>4, <2>1, UndoOK DEF Browser
  <2> QED BY <1>1, <1>4, <2>2, MovesOn
<1> QED BY <1>3, <1>4 DEF Check, Rejected, Modifies

LEMMA UndoStep ==
  ASSUME SetupInv, NEW w \in Windows, Undo(w)
  PROVE  SetupInv'
<1> DEFINE j == job[w]
           used == j.name \in stored
           l(e, own) == Left(w, e, own)
<1>1. /\ j # None /\ j \in Jobs /\ j.kind \in {"Google", "Box", "Smb", "OneDrive", "Teams"}
      /\ JobOK(j, mode[w], Here(w), used) /\ j.step = "undo"
      /\ j.name \in Names /\ Here(w) \in Entries \cup {None} /\ SftpHasOptions(Here(w))
      /\ UNCHANGED <<stored, cached, mode>>
  BY AtCommand DEF Undo, window, StepsOf, AllSteps, AllKinds
<1>2. ~Modifies(j, mode[w])
  BY <1>1 DEF JobOK
<1>3. ASSUME NEW e \in {None, Here(w)}, NEW r \in {"failed", "leftover"},
             Leaves(w, e, Ended(w, r)), e = None \/ r = "leftover" \/ j.kind = "Smb"
      PROVE  SetupInv'
  <2> DEFINE own == Ended(w, r)
  <2>1. /\ Continues(own, j) /\ own \in Jobs /\ own.step = "done" /\ own.result = r
        /\ Leaves(w, e, own)
    BY <1>1, <1>3, EndedShape DEF Continues
  <2>2. e \in Entries \cup {None} /\ SftpHasOptions(e)
    BY <1>1, <1>3 DEF SftpHasOptions
  <2> HIDE DEF own
  <2>3. Continues(l(e, own), j) /\ l(e, own).step = "done" /\ l(e, own).result = r
    BY <2>1, LeftShape
  <2> HIDE DEF l
  <2>4. Told(l(e, own), e)
    BY <1>1, <1>3, <2>3 DEF Told, Continues, Browser
  <2>5. JobOK(l(e, own), mode[w], e, used)
    BY <1>1, <1>2, <2>3, <2>4, DoneOK
  <2> QED BY <1>1, <1>3, <2>1, <2>2, <2>5, CommandStep DEF Continues, l
<1>4. CASE Leaves(w, None, Ended(w, "failed"))
  BY <1>3, <1>4
<1>5. ASSUME NEW e \in {None, Here(w)}, Leaves(w, e, NotUndone(w))
      PROVE  SetupInv'
  <2>1. CASE j.kind = "Smb"
    BY <1>3, <1>5, <2>1 DEF NotUndone
  <2>2. CASE j.kind # "Smb"
    BY <1>3, <1>5, <2>2 DEF NotUndone
  <2> QED BY <2>1, <2>2
<1>6. ASSUME Unsaved(w, Ended(w, "failed"))
      PROVE  SetupInv'
  <2> DEFINE own == Ended(w, "failed")
             m == Marked(own)
  <2>1. Continues(own, j) /\ own \in Jobs /\ own.step = "done" /\ own.result = "failed"
    BY <1>1, EndedShape DEF Continues
  <2>2. Unsaved(w, own)
    BY <1>6
  <2> HIDE DEF own
  <2>3. m.unsaved /\ m.step = "done" /\ m.result = "failed" /\ Continues(m, j)
    BY <2>1, MarkedShape
  <2> HIDE DEF m
  <2>4. JobOK(m, mode[w], Here(w), used)
    BY <1>1, <1>2, <2>3, DoneOK DEF Told
  <2> QED BY <1>1, <2>1, <2>2, <2>4, UnsavedStep DEF Continues, m
<1> QED BY <1>4, <1>5, <1>6 DEF Undo

-----------------------------------------------------------------------------
(* The sign-in of onedriver *)

LEMMA OnedriverOK ==
  ASSUME NEW own \in Jobs, NEW m, NEW e, NEW used, own.kind = "Onedriver", own.draft = None,
         own.step \in {"look", "signIn", "isolate", "done"}, own.step = "look" => ~own.made,
         own.step = "done" /\ own.result = "ok" => Certified(own)
  PROVE  JobOK(own, m, e, used)
<1>1. own.step \in StepsOf(own.kind) /\ own.draft \in Drafts(own.kind)
  BY DEF StepsOf, Drafts
<1>2. own.step = "done" => Told(own, e)
  BY DEF Told, Browser
<1> QED BY <1>1, <1>2 DEF JobOK, Modifies

\* A new job of any kind
LEMMA NewJobOK ==
  ASSUME NEW kind \in AllKinds, NEW n \in Names \cup {None}, NEW d \in Drafts(kind),
         kind # "Onedriver" => n \in Names, NEW m, NEW e, NEW used
  PROVE  NewJob(kind, n, d) \in Jobs /\ JobOK(NewJob(kind, n, d), m, e, used)
<1> DEFINE own == NewJob(kind, n, d)
<1>1. d \in UNION {Drafts(k) : k \in AllKinds} /\ 0 \in 0 .. MaxTurns
  BY SetupAssumption
<1>2. own \in Jobs
  BY <1>1 DEF NewJob, Jobs, AllSteps
<1>3. own.kind = kind /\ own.name = n /\ own.draft = d /\ own.step = "look" /\ own.made = FALSE
  BY DEF NewJob
<1>4. own.step \in StepsOf(own.kind) /\ own.draft \in Drafts(own.kind)
  BY <1>3 DEF StepsOf
<1> HIDE DEF own
<1>5. Undisturbed(own, m, e, used)
  BY <1>3 DEF Undisturbed
<1>6. own.kind # "Onedriver" => own.name \in Names
  BY <1>3
<1>7. JobOK(own, m, e, used)
  BY <1>3, <1>4, <1>5, <1>6 DEF JobOK, Modifies
<1> QED BY <1>2, <1>7 DEF own

\* Every step of the sign-in keeps the invariant.
LEMMA OnedriverStep ==
  ASSUME SetupInv, NEW w \in Windows, Onedriver(w) \/ OtherMount(w)
  PROVE  SetupInv'
<1> DEFINE j == job[w]
<1>1. UNCHANGED <<remotes, stored, cached, mode>>
  BY DEF Onedriver, OtherMount, StartOnedriver, Observe, SignIn, Isolate, window
<1>2. ASSUME j # None, j.kind = "Onedriver"
      PROVE  /\ j \in Jobs /\ j.draft = None /\ (j.step = "look" => ~j.made)
             /\ j.step \in {"look", "signIn", "isolate", "done"}
             /\ j.step = "done" /\ j.result = "ok" => Certified(j)
  <2>1. j \in Jobs /\ JobOK(j, mode[w], remotes[j.name], j.name \in stored)
    BY <1>2, JobType
  <2> QED BY <1>2, <2>1 DEF JobOK, StepsOf, Drafts, Told
<1>3. CASE StartOnedriver(w)
  <2>1. PICK known \in BOOLEAN, inUse \in BOOLEAN :
          job' = [job EXCEPT ![w] = [NewJob("Onedriver", None, None)
                                      EXCEPT !.signedIn = known, !.overlap = inUse]]
    BY <1>3 DEF StartOnedriver
  <2> DEFINE new == NewJob("Onedriver", None, None)
             own == [new EXCEPT !.signedIn = known, !.overlap = inUse]
  <2>2. new \in Jobs
    BY NewJobOK DEF AllKinds, Drafts
  <2>3. new.kind = "Onedriver" /\ new.draft = None /\ new.step = "look" /\ new.made = FALSE
    BY DEF NewJob
  <2> HIDE DEF new
  <2>4. /\ own \in Jobs /\ own.kind = "Onedriver" /\ own.draft = None /\ own.step = "look"
        /\ own.made = FALSE
    BY <2>2, <2>3 DEF Jobs
  <2> HIDE DEF own
  <2>5. JobOK(own, mode[w], remotes[own.name], own.name \in stored)
    BY <2>4, OnedriverOK
  <2> QED BY <1>1, <2>1, <2>4, <2>5, OwnStep DEF own, new
<1>4. CASE j # None /\ j.kind = "Onedriver" /\ OnedriverFails(w)
  <2> DEFINE own == [Ended(w, "failed") EXCEPT !.signedIn = FALSE, !.overlap = FALSE]
  <2>1. /\ Ended(w, "failed") \in Jobs /\ Ended(w, "failed").kind = "Onedriver"
        /\ Ended(w, "failed").draft = None /\ Ended(w, "failed").step = "done"
        /\ Ended(w, "failed").result = "failed"
    BY <1>2, <1>4, EndedShape DEF Continues
  <2>2. /\ own \in Jobs /\ own.kind = "Onedriver" /\ own.draft = None /\ own.step = "done"
        /\ own.result = "failed"
    BY <2>1 DEF Jobs
  <2>3. job' = [job EXCEPT ![w] = own]
    BY <1>4 DEF OnedriverFails
  <2> HIDE DEF own
  <2>4. JobOK(own, mode[w], remotes[own.name], own.name \in stored)
    BY <2>2, OnedriverOK
  <2> QED BY <1>1, <2>2, <2>3, <2>4, OwnStep
<1>5. ASSUME NEW own \in Jobs, own.kind = "Onedriver", own.draft = None,
             own.step \in {"signIn", "isolate"}, job' = [job EXCEPT ![w] = own]
      PROVE  SetupInv'
  <2>1. JobOK(own, mode[w], remotes[own.name], own.name \in stored)
    BY <1>5, OnedriverOK
  <2> QED BY <1>1, <1>5, <2>1, OwnStep
<1>6. CASE Observe(w) /\ ~OnedriverFails(w)
  <2> DEFINE own == [j EXCEPT !.step = "signIn"]
  <2>1. j # None /\ j.kind = "Onedriver" /\ job' = [job EXCEPT ![w] = own]
    BY <1>6 DEF Observe, At
  <2>2. own \in Jobs /\ own.kind = "Onedriver" /\ own.draft = None /\ own.step = "signIn"
    BY <1>2, <2>1 DEF Jobs, AllSteps
  <2> QED BY <1>5, <2>1, <2>2
<1>7. CASE SignIn(w) /\ ~OnedriverFails(w)
  <2>1. PICK known \in {j.signedIn, TRUE} :
          job' = [job EXCEPT ![w].signedIn = known, ![w].step = "isolate"]
    BY <1>7 DEF SignIn
  <2>2. j # None /\ j.kind = "Onedriver" /\ j.step = "signIn"
    <3>1. At(w, "signIn")
      BY <1>7 DEF SignIn
    <3>2. j # None /\ j.step = "signIn" /\ j \in Jobs
          /\ JobOK(j, mode[w], remotes[j.name], j.name \in stored)
      BY <3>1, JobType DEF At
    <3> QED BY <3>2 DEF JobOK, StepsOf, Jobs, AllKinds
  <2> DEFINE own == [j EXCEPT !.signedIn = known, !.step = "isolate"]
  <2>3. job' = [job EXCEPT ![w] = own]
    BY <2>1 DEF SetupInv, TypeInv
  <2>4. own \in Jobs /\ own.kind = "Onedriver" /\ own.draft = None /\ own.step = "isolate"
    BY <1>2, <2>1, <2>2 DEF Jobs, AllSteps
  <2> QED BY <1>5, <2>3, <2>4
<1>8. CASE Isolate(w) /\ ~OnedriverFails(w)
  <2> DEFINE own == Ended(w, "ok")
  <2>1. j # None /\ j.kind = "Onedriver"
    <3>1. At(w, "isolate")
      BY <1>8 DEF Isolate
    <3>2. j # None /\ j.step = "isolate" /\ j \in Jobs
          /\ JobOK(j, mode[w], remotes[j.name], j.name \in stored)
      BY <3>1, JobType DEF At
    <3> QED BY <3>2 DEF JobOK, StepsOf, Jobs, AllKinds
  <2>2. j.signedIn /\ ~j.overlap /\ job' = [job EXCEPT ![w] = own]
    BY <1>8 DEF Isolate, Verified
  <2>3. /\ own \in Jobs /\ own.kind = "Onedriver" /\ own.draft = None /\ own.step = "done"
        /\ own.signedIn /\ ~own.overlap
    BY <1>2, <2>1, <2>2, EndedShape DEF Continues
  <2> HIDE DEF own
  <2>4. JobOK(own, mode[w], remotes[own.name], own.name \in stored)
    BY <2>3, OnedriverOK DEF Certified
  <2> QED BY <1>1, <2>2, <2>3, <2>4, OwnStep
<1>9. CASE OtherMount(w)
  <2>1. j # None /\ j.kind = "Onedriver"
    BY <1>9 DEF OtherMount, Idle
  <2> DEFINE own == [j EXCEPT !.overlap = ~j.overlap, !.touched = At(w, "done")]
  <2>2. job' = [job EXCEPT ![w] = own]
    BY <1>9 DEF OtherMount, SetupInv, TypeInv
  <2>3. /\ own \in Jobs /\ own.kind = "Onedriver" /\ own.draft = None
        /\ own.step = j.step /\ own.made = j.made /\ own.result = j.result
        /\ own.signedIn = j.signedIn /\ own.touched = (j.step = "done")
    <3>1. j \in Jobs /\ j.kind = "Onedriver" /\ j.draft = None
      BY <1>2, <2>1
    <3>2. At(w, "done") = (j.step = "done") /\ At(w, "done") \in BOOLEAN
      BY <2>1 DEF At
    <3>3. own \in Jobs
      <4>1. \A o, t \in BOOLEAN : [j EXCEPT !.overlap = o, !.touched = t] \in Jobs
        BY <3>1 DEF Jobs
      <4>2. (~j.overlap) \in BOOLEAN
        BY <3>1 DEF Jobs
      <4> QED BY <3>2, <4>1, <4>2
    <3>4. /\ own.kind = j.kind /\ own.draft = j.draft /\ own.step = j.step
          /\ own.made = j.made /\ own.result = j.result
      BY <3>1 DEF Jobs
    <3>5. own.signedIn = j.signedIn /\ own.touched = At(w, "done")
      BY <3>1 DEF Jobs
    <3> HIDE DEF own
    <3> QED BY <3>1, <3>2, <3>3, <3>4, <3>5
  <2> HIDE DEF own
  <2>4. JobOK(own, mode[w], remotes[own.name], own.name \in stored)
    BY <1>2, <2>1, <2>3, OnedriverOK DEF Certified
  <2> QED BY <1>1, <2>2, <2>3, <2>4, OwnStep
<1>10. CASE OnedriverFails(w) /\ Onedriver(w) /\ ~StartOnedriver(w)
  <2>1. j # None /\ j.kind = "Onedriver"
    <3>1. \E s \in {"look", "signIn", "isolate"} :
            At(w, s) /\ (s = "look" => j.kind = "Onedriver")
      BY <1>10 DEF Onedriver, Observe, SignIn, Isolate
    <3>2. j # None /\ j \in Jobs
          /\ JobOK(j, mode[w], remotes[j.name], j.name \in stored)
      BY <3>1, JobType DEF At
    <3> QED BY <3>1, <3>2 DEF JobOK, StepsOf, Jobs, AllKinds, At
  <2> QED BY <1>4, <1>10, <2>1
<1> QED BY <1>3, <1>6, <1>7, <1>8, <1>9, <1>10 DEF Onedriver

-----------------------------------------------------------------------------
(* The windows and the saved connections *)

LEMMA StartStep ==
  ASSUME SetupInv, NEW w \in Windows, Start(w)
  PROVE  SetupInv'
<1>1. PICK kind \in Kinds(w), n \in Names : \E d \in Drafts(kind) :
        /\ job' = [job EXCEPT ![w] = NewJob(kind, n, d)]
        /\ UNCHANGED <<remotes, stored, cached, mode>>
  BY DEF Start
<1>2. PICK d \in Drafts(kind) : /\ job' = [job EXCEPT ![w] = NewJob(kind, n, d)]
                                /\ UNCHANGED <<remotes, stored, cached, mode>>
  BY <1>1
<1>3. kind \in AllKinds
  BY PageTypes
<1>4. /\ NewJob(kind, n, d) \in Jobs
      /\ \A e, used : JobOK(NewJob(kind, n, d), mode[w], e, used)
  BY <1>3, NewJobOK
<1> QED BY <1>2, <1>4, OwnStep

LEMMA ReopenStep ==
  ASSUME SetupInv, NEW w \in Windows, Reopen(w)
  PROVE  SetupInv'
<1>1. PICK m \in Modes(w) : mode' = [mode EXCEPT ![w] = m]
  BY DEF Reopen
<1>2. m \in {"add", "modify", "manage"}
  BY PageTypes
<1>3. TypeInv' /\ job'[w] = None
  BY <1>1, <1>2 DEF Reopen, SetupInv, TypeInv
<1>4. \A v \in Windows : v # w => job'[v] = job[v] /\ mode'[v] = mode[v]
  BY <1>1 DEF Reopen, SetupInv, TypeInv
<1> QED BY <1>3, <1>4 DEF Reopen, SetupInv

LEMMA SaveStep ==
  ASSUME SetupInv, NEW w \in Windows, Save(w)
  PROVE  SetupInv'
<1>1. PICK n \in Names : /\ stored' = stored \cup {n} /\ cached' = [cached EXCEPT ![w] = stored']
                         /\ Touching(w, n, None)
                         /\ UNCHANGED <<remotes, mode>>
  BY DEF Save
<1>2. job' = [v \in Windows |-> IF v = w THEN None
                                ELSE IF job[v] # None /\ job[v].name = n
                                THEN [job[v] EXCEPT !.touched = TRUE] ELSE job[v]]
  BY <1>1 DEF Touching
<1>3. ASSUME NEW v \in Windows
      PROVE  /\ job'[v] \in Jobs \cup {None}
             /\ job'[v] # None =>
                  JobOK(job'[v], mode[v], remotes[job'[v].name], job'[v].name \in stored')
  <2>1. CASE v = w
    BY <1>2, <2>1
  <2>2. CASE v # w /\ job[v] # None /\ job[v].name = n
    <3>1. job[v] \in Jobs /\ JobOK(job[v], mode[v], remotes[job[v].name], job[v].name \in stored)
      BY <2>2, JobType
    <3>2. job'[v] = [job[v] EXCEPT !.touched = TRUE]
      BY <1>2, <2>2
    <3> QED BY <3>1, <3>2, TouchedOK
  <2>3. CASE v # w /\ ~(job[v] # None /\ job[v].name = n)
    <3>1. job'[v] = job[v] /\ job[v] \in Jobs \cup {None}
      BY <1>2, <2>3 DEF SetupInv, TypeInv
    <3>2. CASE job[v] # None
      <4>1. JobOK(job[v], mode[v], remotes[job[v].name], job[v].name \in stored)
        BY <3>2, JobType
      <4>2. (job[v].name \in stored') <=> (job[v].name \in stored)
        BY <1>1, <2>3, <3>2
      <4> QED BY <3>1, <4>1, <4>2
    <3> QED BY <3>1, <3>2
  <2> QED BY <2>1, <2>2, <2>3
<1>4. TypeInv'
  BY <1>1, <1>2, <1>3 DEF SetupInv, TypeInv
<1> QED BY <1>1, <1>3, <1>4 DEF SetupInv

LEMMA UnuseStep == SetupInv /\ Unuse => SetupInv'
<1> SUFFICES ASSUME SetupInv, Unuse PROVE SetupInv'
  OBVIOUS
<1>1. stored' \subseteq stored /\ UNCHANGED <<remotes, cached, mode, job>>
  BY DEF Unuse, window
<1>2. ASSUME NEW w \in Windows, job[w] # None
      PROVE  JobOK(job[w], mode[w], remotes[job[w].name], job[w].name \in stored')
  <2>1. JobOK(job[w], mode[w], remotes[job[w].name], job[w].name \in stored)
    BY <1>2, JobType
  <2> QED BY <1>1, <2>1 DEF JobOK, Undisturbed
<1> QED BY <1>1, <1>2 DEF SetupInv, TypeInv

LEMMA SetupInit == Init => SetupInv
<1> SUFFICES ASSUME Init PROVE SetupInv
  OBVIOUS
<1>1. Found \subseteq Entries \cup {None} /\ \A e \in Found : SftpHasOptions(e)
  BY SectionType, NoneAssumption DEF Found, Backends, Accounts, Drives, SftpHasOptions
<1>2. remotes \in [Names -> Entries \cup {None}] /\ \A n \in Names : SftpHasOptions(remotes[n])
  BY <1>1 DEF Init
<1>3. /\ stored \in SUBSET Names /\ cached \in [Windows -> SUBSET Names]
      /\ mode \in [Windows -> {"add", "modify", "manage"}]
      /\ job = [w \in Windows |-> None]
  BY DEF Init
<1> QED BY <1>2, <1>3 DEF SetupInv, TypeInv

LEMMA SetupStep == SetupInv /\ [Next]_vars => SetupInv'
<1> SUFFICES ASSUME SetupInv, [Next]_vars PROVE SetupInv'
  OBVIOUS
<1>1. ASSUME NEW w \in Windows, PointOut(w) \/ Start(w)
      PROVE  SetupInv'
  <2>1. CASE PointOut(w)
    BY <2>1 DEF PointOut, SetupInv, TypeInv
  <2> QED BY <1>1, <2>1, StartStep
<1>2. ASSUME NEW w \in Windows, Work(w)
      PROVE  SetupInv'
  BY <1>2, LookStep, LookRemoveStep, CheckStep, CreateStep, UpdateStep, PasswordStep,
     DeleteStep, AnswerStep, UndoStep DEF Work, Command
<1>3. ASSUME NEW w \in Windows, Finish(w)
      PROVE  SetupInv'
  BY <1>3, OwnStep DEF Finish
<1>4. ASSUME NEW w \in Windows, Reopen(w) \/ Save(w) \/ Onedriver(w) \/ OtherMount(w)
      PROVE  SetupInv'
  BY <1>4, ReopenStep, SaveStep, OnedriverStep
<1>5. CASE UNCHANGED vars
  BY <1>5 DEF vars, window, SetupInv, TypeInv
<1> QED BY <1>1, <1>2, <1>3, <1>4, <1>5, UnuseStep DEF Next

\* The inductive invariant holds for any windows, remotes, keys and pages.
THEOREM SetupInvariance == Spec => []SetupInv
BY SetupInit, SetupStep, PTL DEF Spec

\* The types of RemoteSetup, with the bound on the questions answered.
THEOREM SetupTypes == Spec => []TypeOK
<1>1. SetupInv => TypeOK
  <2> SUFFICES ASSUME SetupInv PROVE TypeOK
    OBVIOUS
  <2>1. ASSUME NEW w \in Windows, job[w] # None PROVE job[w].turns <= MaxTurns
    BY <2>1, JobType, SetupAssumption DEF Jobs
  <2> QED BY <2>1 DEF SetupInv, TypeInv, TypeOK
<1> QED BY <1>1, SetupInvariance, PTL

\* What a setup tells the user at its end is what rclone.conf then holds, unless
\* another window worked on the same name (apply_remote, setup_request and the
\* rollbacks of the sign-ins): for the setups that verify even when rclone did not
\* save a command, for SMB and a removal if it saved their last one.
THEOREM OutcomesTold == Spec => []OutcomeTold
<1>1. SetupInv => OutcomeTold
  <2> SUFFICES ASSUME SetupInv PROVE OutcomeTold
    OBVIOUS
  <2>1. ASSUME NEW w \in Windows, At(w, "done") PROVE Told(job[w], Here(w))
    BY <2>1, JobType DEF At, JobOK, Here
  <2> QED BY <2>1 DEF OutcomeTold, OkIsComplete, LeftoverReported, Told, At
<1> QED BY <1>1, SetupInvariance, PTL

-----------------------------------------------------------------------------
(* What the commands may take away *)

\* w turns the section of its job into e.
Leaving(w, e) == remotes' = [remotes EXCEPT ![job[w].name] = e]

\* A command that leaves a section of the same backend, or works on a name that
\* is its own to take away.
LEMMA CommandKeeps ==
  ASSUME SetupInv, NEW w \in Windows, Command(w)
  PROVE  /\ job[w] # None /\ job[w].name \in Names
         /\ \E e : Leaving(w, e)
                   /\ \/ Here(w) = None
                      \/ e # None /\ Type(e) = Type(Here(w))
                      \/ job[w].touched
                      \/ job[w].kind # "Remove" /\ job[w].made
                      \/ job[w].kind = "Remove" /\ job[w].name \notin stored
<1> DEFINE j == job[w]
           h == Here(w)
           Kept(e) == \/ h = None
                      \/ e # None /\ Type(e) = Type(h)
                      \/ j.touched
                      \/ j.kind # "Remove" /\ j.made
                      \/ j.kind = "Remove" /\ j.name \notin stored
<1>1. PICK s \in {"create", "update", "password", "delete", "answer", "undo"} :
        At(w, s)
  BY DEF Command, Create, Update, Password, Delete, Answer, Undo
<1>2. /\ j # None /\ j \in Jobs /\ j.step = s /\ JobOK(j, mode[w], h, j.name \in stored)
      /\ j.kind \in AllKinds \ {"Onedriver"} /\ s \in StepsOf(j.kind)
      /\ j.name \in Names /\ h \in Entries \cup {None} /\ SftpHasOptions(h)
  BY <1>1, AtCommand DEF AllSteps
<1>3. j.touched \/ Undisturbed(j, mode[w], h, j.name \in stored)
  BY <1>2 DEF JobOK
<1> SUFFICES \E d : Leaving(w, d) /\ Kept(d)
  BY <1>2
<1>4. ASSUME NEW e, NEW own, Leaves(w, e, own), Kept(e)
      PROVE  \E d : Leaving(w, d) /\ Kept(d)
  BY <1>4 DEF Leaves, Leaving
<1>5. Kept(h)
  OBVIOUS
<1>6. ASSUME remotes' = remotes PROVE \E d : Leaving(w, d) /\ Kept(d)
  <2>1. Leaving(w, h)
    BY <1>2, <1>6 DEF Leaving, Here, SetupInv, TypeInv
  <2> QED BY <1>5, <2>1
<1>7. CASE Create(w)
  <2>1. j.touched \/ h = None
    <3>1. j.step = "create"
      BY <1>2, <1>7 DEF Create, At
    <3> QED BY <1>3, <3>1 DEF Undisturbed
  <2>2. \A e : Kept(e)
    BY <2>1
  <2> HIDE DEF Kept
  <2> QED BY <1>4, <1>5, <1>7, <2>2 DEF Create, Unsaved
<1>8. CASE Update(w)
  <2>1. At(w, "update")
    BY <1>8 DEF Update
  <2>2. ASSUME h # None, NEW e \in Updated(w) PROVE Kept(e)
    <3>1. e # None /\ e.type = h.type
      BY <2>1, <2>2, UpdatedType
    <3> QED BY <2>2, <3>1 DEF Type
  <2> HIDE DEF Kept
  <2> QED BY <1>4, <1>5, <1>8, <2>2 DEF Update, Unsaved
<1>9. CASE Password(w)
  <2>1. ASSUME h # None PROVE Kept([h EXCEPT !.login = "own"])
    <3>1. [h EXCEPT !.login = "own"] \in Entries /\ [h EXCEPT !.login = "own"].type = h.type
      BY <1>2, <2>1 DEF Entries, Accounts
    <3> QED BY <2>1, <3>1, NoneAssumption DEF Type
  <2> HIDE DEF Kept
  <2> QED BY <1>4, <1>5, <1>9, <2>1 DEF Password, Unsaved
<1>10. CASE Answer(w)
  <2>1. j.kind \in {"OneDrive", "Teams"}
    <3>1. j.step = "answer"
      BY <1>2, <1>10 DEF Answer, At
    <3> QED BY <1>2, <3>1 DEF StepsOf, AllKinds
  <2>2. ASSUME h # None, NEW e \in Continued(w) PROVE Kept(e)
    <3>1. e # None /\ e.type = h.type
      BY <1>2, <2>1, <2>2, ContinuedType
    <3> QED BY <2>2, <3>1 DEF Type
  <2> HIDE DEF Kept
  <2> QED BY <1>4, <1>6, <1>10, <2>2 DEF Answer
<1>11. CASE Delete(w)
  <2>1. j.touched \/ (j.kind = "Remove" /\ j.name \notin stored)
    <3>1. j.step = "delete"
      BY <1>2, <1>11 DEF Delete, At
    <3>2. j.kind = "Remove"
      BY <1>2, <3>1 DEF StepsOf, AllKinds
    <3> QED BY <1>3, <3>1, <3>2 DEF Undisturbed
  <2>2. \A e : Kept(e)
    BY <2>1
  <2> HIDE DEF Kept
  <2> QED BY <1>4, <1>5, <1>11, <2>2 DEF Delete, Unsaved
<1>12. CASE Undo(w)
  <2>1. j.touched \/ h = None \/ (j.kind # "Remove" /\ j.made)
    <3>1. j.step = "undo"
      BY <1>2, <1>12 DEF Undo, At
    <3>2. j.kind # "Remove"
      BY <1>2, <3>1 DEF StepsOf
    <3> QED BY <1>3, <3>1, <3>2 DEF Undisturbed
  <2>2. \A e : Kept(e)
    BY <2>1
  <2> HIDE DEF Kept
  <2> QED BY <1>4, <1>5, <1>12, <2>2 DEF Undo, Unsaved
<1> QED BY <1>2, <1>7, <1>8, <1>9, <1>10, <1>11, <1>12 DEF Command

\* What OthersKept and UsedRemoteKept say of one step
OthersKeptNow ==
  \A n \in Names :
    (remotes[n] # None /\ Type(remotes'[n]) # Type(remotes[n])) =>
      \E w \in Windows : /\ job[w] # None /\ job[w].name = n
                         /\ job[w].kind = "Remove" \/ job[w].made \/ job[w].touched

UsedRemoteKeptNow ==
  \A n \in stored :
    (remotes[n] # None /\ remotes'[n] = None) =>
      \E w \in Windows : /\ job[w] # None /\ job[w].name = n
                         /\ job[w].touched \/ (job[w].kind # "Remove" /\ job[w].made)

LEMMA StepKeeps == SetupInv /\ [Next]_vars => OthersKeptNow /\ UsedRemoteKeptNow
<1> SUFFICES ASSUME SetupInv, [Next]_vars PROVE OthersKeptNow /\ UsedRemoteKeptNow
  OBVIOUS
<1>1. CASE remotes' = remotes
  BY <1>1 DEF OthersKeptNow, UsedRemoteKeptNow
<1>2. ASSUME NEW w \in Windows, Command(w)
      PROVE  OthersKeptNow /\ UsedRemoteKeptNow
  <2> DEFINE n == job[w].name
             h == Here(w)
  <2>1. PICK e : /\ job[w] # None /\ n \in Names /\ Leaving(w, e)
                 /\ \/ h = None
                    \/ e # None /\ Type(e) = Type(h)
                    \/ job[w].touched
                    \/ job[w].kind # "Remove" /\ job[w].made
                    \/ job[w].kind = "Remove" /\ n \notin stored
    BY <1>2, CommandKeeps
  <2>2. \A m \in Names : remotes'[m] = IF m = n THEN e ELSE remotes[m]
    BY <2>1 DEF Leaving, SetupInv, TypeInv
  <2>3. OthersKeptNow
    BY <2>1, <2>2 DEF OthersKeptNow, Here
  <2>4. UsedRemoteKeptNow
    BY <2>1, <2>2 DEF UsedRemoteKeptNow, Here, SetupInv, TypeInv
  <2> QED BY <2>3, <2>4
<1>3. ASSUME NEW w \in Windows, \/ PointOut(w) \/ Start(w) \/ Finish(w) \/ Reopen(w) \/ Save(w)
                                \/ Look(w) \/ LookRemove(w) \/ Check(w)
      PROVE  remotes' = remotes
  BY <1>3 DEF PointOut, Start, Finish, Reopen, Save, Look, LookRemove, Check
<1>4. ASSUME NEW w \in Windows, Onedriver(w) \/ OtherMount(w)
      PROVE  remotes' = remotes
  BY <1>4 DEF Onedriver, OtherMount, StartOnedriver, Observe, SignIn, Isolate
<1>5. Unuse \/ UNCHANGED vars => remotes' = remotes
  BY DEF Unuse, vars
<1> QED BY <1>1, <1>2, <1>3, <1>4, <1>5 DEF Next, Work

\* A setup or a removal takes away, or turns into another backend, only what it
\* created or was told to delete, or a name that another window worked on since it
\* was looked up: such a name it may take away (the rollbacks of failed setups).
THEOREM OthersAreKept == Spec => OthersKept
<1>1. SetupInv /\ [Next]_vars => [OthersKeptNow]_vars
  BY StepKeeps
<1>2. Spec => [][OthersKeptNow]_vars
  BY <1>1, SetupInvariance, PTL DEF Spec
<1> QED BY <1>2 DEF OthersKept, OthersKeptNow

\* A remote that a saved connection uses is not deleted, unless the connection was
\* saved after the removal read the document (remove_rclone_remote_result).
THEOREM UsedRemotesAreKept == Spec => UsedRemoteKept
<1>1. SetupInv /\ [Next]_vars => [UsedRemoteKeptNow]_vars
  BY StepKeeps
<1>2. Spec => [][UsedRemoteKeptNow]_vars
  BY <1>1, SetupInvariance, PTL DEF Spec
<1> QED BY <1>2 DEF UsedRemoteKept, UsedRemoteKeptNow
=============================================================================
