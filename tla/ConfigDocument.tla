---------------------------- MODULE ConfigDocument ----------------------------
(***************************************************************************)
(* The configuration document, shared by the applet and its settings       *)
(* windows (all processes), and by a user who may edit the file by hand.   *)
(* No lock protects it: an operation reads the file, changes its copy,     *)
(* validates all of it and writes all of it, and another process may have  *)
(* written in between.  Reorder alone starts from the copy the window read *)
(* when it was opened.  In Flatpak the write stages a file of one fixed    *)
(* name and renames it (HostVisibleConfigStorage::write); outside,         *)
(* cosmic-config replaces the file in one step, and a document of version  *)
(* 1 is migrated by whoever reads first.                                   *)
(***************************************************************************)
EXTENDS LegacyImport, FiniteSets

CONSTANTS Processes, Ids,
          Role,        \* "applet", "switch" (its task for the popup switch), or
                       \* what a window is for: "editor", "import", "reorder"
          Lines,       \* <<engine, command line>> of the services found
          Drafts,      \* connections the editor can produce
          MaxOps,      \* operations but Reorder, scans and edits by hand (bound; the code has none)
          Absent, Garbage

ASSUME DocumentAssumption == MaxOps \in Nat

VARIABLES
  sandboxed, \* running in Flatpak
  disk,      \* the file: Absent, Garbage or a document
  tmp,       \* the staged file, or None; Garbage when its write failed halfway
  legacy,    \* a document of version 1 exists
  proc,      \* the configuration each process holds, its operation and the copy
             \* that works on
  offers,    \* the preview on screen, and (history) whether it is true
  ops

vars == <<sandboxed, disk, tmp, legacy, proc, offers, ops>>

\* rules: everything validate looks at in one field or one connection only.
Connection == [id : Ids, kind : {"mount", "mirror", "rclone-onedrive"}, local : Paths \cup {Relative},
               side : Paths \cup {Relative, None}, login : BOOLEAN]
Document == [conns : Seq(Connection), pref : BOOLEAN, vpns : SUBSET {"detected"}, rules : BOOLEAN]

Empty == [conns |-> <<>>, pref |-> FALSE, vpns |-> {}, rules |-> TRUE]
Migrated == [Empty EXCEPT !.pref = TRUE]
NoOp == [kind |-> "none"]

\* A file that is missing or broken is no document.
ASSUME FileAssumption == \A d \in {Absent, Garbage, None} : d \notin Document

ASSUME LinesAssumption ==
  \A l \in Lines : /\ l[1] \in {"rclone", "onedriver"} /\ Len(l[2]) \in Nat
                   /\ \A i \in 1..Len(l[2]) : IsToken(l[2][i])

ASSUME DraftsAssumption == Drafts \subseteq Connection

Init ==
  /\ sandboxed \in BOOLEAN /\ disk \in {Absent, Empty} /\ tmp = None
  /\ legacy \in {FALSE, ~sandboxed}   \* Flatpak never looks for one
  /\ proc = [p \in Processes |-> [cached |-> Empty, copy |-> Empty, op |-> NoOp,
                                step |-> "idle", stale |-> FALSE]]
  /\ offers = [p \in Processes |-> None] /\ ops = 0

-----------------------------------------------------------------------------
(* validate *)

Mirrors == {"mirror", "rclone-onedrive"}

\* validate_online_mount, validate_offline_mirror and the path of the connection:
\* side is the cache of a mount (None: its own) or the recovery directory.
OwnPathsValid(c) ==
  /\ c.local \in Paths
  /\ IF c.kind \in Mirrors THEN c.side \in Paths ELSE c.side \in Paths \cup {None}
  /\ c.side # None => ~Overlap(c.local, c.side)

Targets(c) == {<<c.local, TRUE>>} \cup (IF c.kind \in Mirrors THEN {<<c.side, FALSE>>} ELSE {})

\* Local paths never overlap; recovery directories only count where a mirror of
\* OneDrive with rclone is involved.
Conflict(c, d) ==
  \E s \in Targets(c), t \in Targets(d) :
    /\ (s[2] /\ t[2]) \/ "rclone-onedrive" \in {c.kind, d.kind}
    /\ Overlap(s[1], t[1])

Valid(doc) ==
  /\ doc.rules
  /\ \A i \in 1..Len(doc.conns) : OwnPathsValid(doc.conns[i])
  /\ \A i, j \in 1..Len(doc.conns) :
       i < j => /\ doc.conns[i].id # doc.conns[j].id
                /\ ~Conflict(doc.conns[i], doc.conns[j])

-----------------------------------------------------------------------------
(* load *)

Readable(d) == d \notin {Absent, Garbage} /\ Valid(d)

\* Whoever finds no document but an old one writes the migrated document.
Migrates(d) == d = Absent /\ legacy /\ ~sandboxed

LoadedConfig(d) == IF Readable(d) THEN d ELSE IF Migrates(d) THEN Migrated ELSE Empty

\* No warnings; a failed migration (Storing) is one too.
LoadsWell(d) == Readable(d) \/ d = Absent

-----------------------------------------------------------------------------
(* The change each operation makes to its copy *)

Has(doc, id) == \E i \in 1..Len(doc.conns) : doc.conns[i].id = id
\* In a valid document at most one connection has the id.
Without(doc, id) ==
  IF Has(doc, id) THEN [doc EXCEPT !.conns = RemoveAt(@, CHOOSE i \in 1..Len(@) : @[i].id = id)] ELSE doc
With(doc, c) == [doc EXCEPT !.conns = Append(@, c)]
Changed(doc, id, c) == [doc EXCEPT !.conns = [i \in 1..Len(@) |-> IF @[i].id = id THEN c ELSE @[i]]]

\* save_validated_draft_with
Saved(doc, c) == IF Has(doc, c.id) THEN Changed(doc, c.id, c) ELSE With(doc, c)
\* confirm_import
Imported(doc, c) == IF Has(doc, c.id) THEN doc ELSE With(doc, c)
\* reorder_connection_with_storage
Reordered(doc) == [doc EXCEPT !.conns = Reverse(@)]
\* persist_online_popup_state_with
Switched(doc, id, on) ==
  [doc EXCEPT !.conns = [i \in 1..Len(@) |-> IF @[i].id = id THEN [@[i] EXCEPT !.login = on] ELSE @[i]]]

Update(op, doc) ==
  CASE op.kind = "Save" -> Saved(doc, op.conn)
    [] op.kind = "Import" -> Imported(doc, op.conn)
    [] op.kind = "Remove" -> Without(doc, op.conn.id)
    [] op.kind = "Popup" -> Switched(doc, op.id, op.on)
    [] op.kind = "Reorder" -> Reordered(doc)
    [] op.kind = "Pref" -> [doc EXCEPT !.pref = op.on]
    [] op.kind = "Vpn" -> [doc EXCEPT !.vpns = @ \cup {op.profile}]

-----------------------------------------------------------------------------
(* Starting an operation *)

\* validate_connection_edit, against the copy the window holds: no other mode
\* for a saved connection, no overlap, and the candidate document is valid.
EditAllowed(p, c) ==
  LET doc == proc[p].cached IN
  /\ \A i \in 1..Len(doc.conns) :
       IF doc.conns[i].id = c.id THEN doc.conns[i].kind = c.kind
       ELSE ~Overlap(doc.conns[i].local, c.local)
  /\ Valid(With(Without(doc, c.id), c))

\* A removal wants the connection as the window shows it, an import what its
\* preview found unoccupied, the popup switch an online mount.
StillThere(op, doc) ==
  CASE op.kind = "Remove" -> op.conn \in ToSet(doc.conns)
    [] op.kind = "Popup" -> \E c \in ToSet(doc.conns) : c.id = op.id /\ c.kind = "mount"
    [] OTHER -> TRUE

Operations(p) ==
  CASE Role[p] = "applet" -> {[kind |-> "Pref", on |-> on] : on \in BOOLEAN}
    [] Role[p] = "switch" -> {[kind |-> "Popup", id |-> id, on |-> on] : id \in Ids, on \in BOOLEAN}
    [] Role[p] = "editor" ->
         {[kind |-> "Save", conn |-> c] : c \in {d \in Drafts : EditAllowed(p, d)}}
         \cup {[kind |-> "Remove", conn |-> c] : c \in ToSet(proc[p].cached.conns)}
         \cup {[kind |-> "Vpn", profile |-> "detected"]}
    [] Role[p] = "import" ->
         IF offers[p] # None /\ ~offers[p].conflict
         THEN {[kind |-> "Import", conn |-> offers[p].conn]} ELSE {}
    [] OTHER -> {}

Idle(p) == proc[p].step = "idle"

\* Ends p's operation; cached becomes what the window holds from now on.
Ends(p, config) ==
  [proc EXCEPT ![p] = [cached |-> config, copy |-> Empty, op |-> NoOp, step |-> "idle", stale |-> FALSE]]

\* The switch keeps nothing.
Kept(p, config) == IF Role[p] = "switch" THEN proc[p].cached ELSE config

\* What follows once the configuration was loaded well.
Continues(p, op, config, nextStep) ==
  IF StillThere(op, config)
  THEN [proc EXCEPT ![p] = [@ EXCEPT !.copy = config, !.op = op, !.step = nextStep]]
  ELSE Ends(p, Kept(p, config))

\* Mutant of Start: the copy of the window is taken for the document.
StartCached(p) ==
  \E op \in Operations(p) :
    /\ Idle(p) /\ ops < MaxOps /\ ops' = ops + 1
    /\ proc' = Continues(p, op, proc[p].cached, "write")
    /\ UNCHANGED <<sandboxed, disk, tmp, legacy, offers>>

\* Every operation reloads first (load_runtime_config) and gives up if that warns.
Start(p) ==
  \E op \in Operations(p) :
    /\ Idle(p) /\ ops < MaxOps /\ ops' = ops + 1
    /\ LoadsWell(disk)
    /\ proc' = Continues(p, op, LoadedConfig(disk), IF Migrates(disk) THEN "migrate" ELSE "write")
    /\ UNCHANGED <<sandboxed, disk, tmp, legacy, offers>>

Reorder(p) ==
  /\ Idle(p) /\ Role[p] = "reorder" /\ Len(proc[p].cached.conns) > 1
  /\ proc' = Continues(p, [kind |-> "Reorder"], proc[p].cached, "write")
  /\ UNCHANGED <<sandboxed, disk, tmp, legacy, offers, ops>>

-----------------------------------------------------------------------------
(* Writing *)

\* p wrote: what the others have read is no longer what is in the file.
Others(p, mine) == [q \in Processes |-> IF q = p THEN mine[p]
                                        ELSE [mine[q] EXCEPT !.stale = ~Idle(q)]]

\* The migration is a write of its own; if it fails the reload has a warning,
\* which only an operation minds.
Migrate(p) ==
  LET reads == proc[p].op.kind = "Refresh" IN
  /\ proc[p].step = "migrate"
  /\ \/ disk' = Migrated
        /\ proc' = Others(p, IF reads THEN Ends(p, Migrated) ELSE [proc EXCEPT ![p].step = "write"])
     \/ UNCHANGED disk /\ proc' = Ends(p, IF reads THEN Migrated ELSE proc[p].cached)
  /\ UNCHANGED <<sandboxed, tmp, legacy, offers, ops>>

New(p) == Update(proc[p].op, proc[p].copy)

\* update_validated_with: nothing to do, or refused and the copy stays.
Unwritten(p) ==
  /\ proc[p].step = "write" /\ (New(p) = proc[p].copy \/ ~Valid(New(p)))
  /\ proc' = Ends(p, Kept(p, proc[p].copy))
  /\ UNCHANGED <<sandboxed, disk, tmp, legacy, offers, ops>>

\* Mutant of Writing: the document is not validated.
WritingUnvalidated(p) == proc[p].step = "write" /\ New(p) # proc[p].copy

Writing(p) == proc[p].step = "write" /\ New(p) # proc[p].copy /\ Valid(New(p))

Write(p) ==
  /\ Writing(p) /\ ~sandboxed
  /\ \/ disk' = New(p) /\ proc' = Others(p, Ends(p, Kept(p, New(p))))
     \/ UNCHANGED disk /\ proc' = Ends(p, Kept(p, proc[p].copy))
  /\ UNCHANGED <<sandboxed, tmp, legacy, offers, ops>>

\* A write that fails may have truncated the staged file, another's included.
Stage(p) ==
  /\ Writing(p) /\ sandboxed
  /\ \/ tmp' = New(p) /\ proc' = Others(p, [proc EXCEPT ![p].step = "rename"])
     \/ UNCHANGED tmp /\ proc' = Ends(p, Kept(p, proc[p].copy))
     \/ tmp' = Garbage /\ proc' = Others(p, Ends(p, Kept(p, proc[p].copy)))
  /\ UNCHANGED <<sandboxed, disk, legacy, offers, ops>>

\* The rename takes whatever is staged; a rename that fails removes it.
Rename(p) ==
  /\ proc[p].step = "rename"
  /\ \/ tmp # None /\ disk' = tmp /\ tmp' = None /\ proc' = Others(p, Ends(p, Kept(p, New(p))))
     \/ UNCHANGED disk /\ tmp' = None /\ proc' = Others(p, Ends(p, Kept(p, proc[p].copy)))
  /\ UNCHANGED <<sandboxed, legacy, offers, ops>>

-----------------------------------------------------------------------------
(* Reading, importing and the user *)

\* The popup opens, an operation completes, a window is opened: defaults stand
\* in for what cannot be read.
Refresh(p) ==
  /\ Idle(p) /\ Role[p] # "switch" /\ proc[p].cached # LoadedConfig(disk)
  /\ proc' = IF Migrates(disk) THEN [proc EXCEPT ![p] = [@ EXCEPT !.op = [kind |-> "Refresh"], !.step = "migrate"]]
             ELSE [proc EXCEPT ![p].cached = LoadedConfig(disk)]
  /\ UNCHANGED <<sandboxed, disk, tmp, legacy, offers, ops>>

\* What the services found lead to, and whether that is what they do.  Left
\* out: services that do not start, or are not spelled out.
True(l, offer) == (Starts(l[1], l[2]) /\ Spelled(l[2])) => Faithful(l[1], l[2], offer)

Found ==
  {[local |-> f[1].local, cache |-> f[1].cache, true |-> True(f[2], f[1])] :
     f \in {g \in {<<Offer(l[1], l[2]), l>> : l \in Lines} : g[1] # None}}

\* A new UUID.
Fresh(id) ==
  /\ \A d \in {disk, tmp} \ {Absent, Garbage, None} : ~Has(d, id)
  /\ \A q \in Processes : /\ ~Has(proc[q].cached, id) /\ ~Has(proc[q].copy, id)
                          /\ offers[q] # None => offers[q].conn.id # id
  /\ \A c \in Drafts : c.id # id

\* finish_import_scan: a new list with new connection ids; no active unit is ever known.
Scan(p) ==
  \E f \in Found, id \in Ids :
    /\ Idle(p) /\ Role[p] = "import" /\ ops < MaxOps /\ ops' = ops + 1
    /\ Fresh(id)
    /\ offers' = [offers EXCEPT ![p] =
         [conn |-> [id |-> id, kind |-> "mount", local |-> f.local, side |-> f.cache, login |-> FALSE],
          conflict |-> \E c \in ToSet(proc[p].cached.conns) : Overlap(c.local, f.local),
          true |-> f.true]]
    /\ UNCHANGED <<sandboxed, disk, tmp, legacy, proc>>

\* By hand: a broken file, a rule violated, or the file removed.
EditByHand ==
  /\ ops < MaxOps /\ ops' = ops + 1
  /\ disk' \in {Garbage, Absent} \cup
               (IF disk \in {Absent, Garbage} THEN {} ELSE {[disk EXCEPT !.rules = FALSE]})
  /\ proc' = [q \in Processes |-> [proc[q] EXCEPT !.stale = ~Idle(q)]]
  /\ UNCHANGED <<sandboxed, tmp, legacy, offers>>

Next ==
  \/ \E p \in Processes : Start(p) \/ Reorder(p) \/ Migrate(p) \/ Unwritten(p) \/ Write(p)
                          \/ Stage(p) \/ Rename(p) \/ Refresh(p) \/ Scan(p)
  \/ EditByHand

Spec == Init /\ [][Next]_vars

-----------------------------------------------------------------------------
Operation ==
  [kind : {"none", "Refresh", "Reorder"}] \cup [kind : {"Save", "Import", "Remove"}, conn : Connection]
  \cup [kind : {"Popup"}, id : Ids, on : BOOLEAN] \cup [kind : {"Pref"}, on : BOOLEAN]
  \cup [kind : {"Vpn"}, profile : {"detected"}]

TypeOK ==
  /\ sandboxed \in BOOLEAN /\ legacy \in BOOLEAN
  /\ disk \in Document \cup {Absent, Garbage} /\ tmp \in Document \cup {None, Garbage}
  /\ proc \in [Processes -> [cached : Document, copy : Document, op : Operation,
                            step : {"idle", "migrate", "write", "rename"}, stale : BOOLEAN]]
  /\ offers \in [Processes -> [conn : Connection, conflict : BOOLEAN, true : BOOLEAN] \cup {None}]
  /\ ops \in 0..MaxOps

Writes(p) == proc'[p].step # proc[p].step /\ disk' # disk

(* A write applies its operation to the document that is in the file: what     *)
(* other processes stored, and a file that cannot be read or is not valid,     *)
(* survive, and a migration only fills the place of a missing document.        *)
(* Exceptions: another process wrote between the read and the write of the     *)
(* operation, and Reorder, which starts from an older copy.                    *)
EditsKept ==
  [][\A p \in Processes :
       (Writes(p) /\ ~proc[p].stale /\ proc[p].op.kind # "Reorder") =>
         /\ LoadsWell(disk)
         /\ IF proc[p].step = "migrate" THEN disk = Absent
            ELSE disk' = Update(proc[p].op, LoadedConfig(disk))]_vars

\* Trees that different connections write to.
Trees(c) == {c.local} \cup (IF c.kind = "rclone-onedrive" THEN {c.side} ELSE {})

(* No configuration a process works with has two connections on overlapping    *)
(* local trees, nor one on the recovery tree of a OneDrive mirror with rclone, *)
(* whichever windows added them.                                               *)
TreesApart ==
  \A p \in Processes : LET conns == proc[p].cached.conns IN
    \A i, j \in 1..Len(conns) :
      i # j => \A s \in Trees(conns[i]), t \in Trees(conns[j]) : ~Overlap(s, t)

(* Whatever an import stores does what the imported service did, for services  *)
(* that start, name their options in full and have no value that looks like    *)
(* an option.                                                                  *)
ImportFaithful ==
  \A p \in Processes :
    (proc[p].op.kind = "Import" /\ Valid(New(p))) => offers[p].true

=============================================================================
