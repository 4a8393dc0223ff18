---------------------------- MODULE StorageProofs ----------------------------
(***************************************************************************)
(* Proofs about what is kept on disk.  ConfigDocument: every configuration *)
(* a process holds is valid, a write that nobody overtook applies its      *)
(* operation to what is in the file, and what an import stores does what   *)
(* the imported service did, whatever its command line (by induction from  *)
(* the right end of the line).  RecoveryRetention: recovered files and     *)
(* files of the user survive the cleanups of the runs that share a         *)
(* recovery root, for any retention and any length of the runs.            *)
(***************************************************************************)
EXTENDS RecoveryRetention, ConfigDocument, SequenceTheorems, WellFoundedInduction, TLAPS

-----------------------------------------------------------------------------
(* The document: the inductive invariant                                   *)

Shape(r) == r = [cached |-> r.cached, copy |-> r.copy, op |-> r.op, step |-> r.step,
                 stale |-> r.stale]

\* A process holds and works on valid documents only, and what it has staged is
\* valid too.
Sound(p) ==
  /\ Valid(proc[p].cached) /\ Valid(proc[p].copy)
  /\ proc[p].step = "rename" => Valid(New(p))

\* An operation nobody overtook works on what is in the file: it may still migrate
\* it, or its copy is what a load returns, and the staged file is its own.
Current(p) ==
  /\ proc[p].step = "migrate" => Migrates(disk)
  /\ (proc[p].step \in {"migrate", "write", "rename"} /\ proc[p].op.kind \notin {"Reorder", "Refresh"}) =>
       LoadsWell(disk) /\ proc[p].copy = LoadedConfig(disk)
  /\ proc[p].step = "rename" => tmp = New(p)

ProcessInv(p) ==
  /\ Shape(proc[p]) /\ Sound(p)
  /\ proc[p].op.kind = "Refresh" => proc[p].step = "migrate"
  /\ proc[p].stale \/ Current(p)

DocumentInv == proc = [p \in Processes |-> proc[p]] /\ \A p \in Processes : ProcessInv(p)

-----------------------------------------------------------------------------
(* Operators of the model                                                  *)

LEMMA DocumentTypes ==
  /\ Empty \in Document /\ Migrated \in Document
  /\ {Empty, Migrated} \cap {Absent, Garbage} = {}
<1>1. <<>> \in Seq(Connection)
  OBVIOUS
<1>2. Empty \in Document
  BY <1>1 DEF Empty, Document
<1>3. Migrated \in Document
  BY <1>2 DEF Migrated, Document
<1> QED BY <1>2, <1>3, FileAssumption

LEMMA EmptyValid == Valid(Empty) /\ Valid(Migrated)
  BY DEF Valid, Empty, Migrated

LEMMA LoadedValid ==
  ASSUME NEW d
  PROVE  Valid(LoadedConfig(d))
  BY EmptyValid DEF LoadedConfig, Readable

LEMMA OverlapSymmetric ==
  ASSUME NEW a, NEW b
  PROVE  Overlap(a, b) <=> Overlap(b, a)
  BY DEF Overlap

\* What a validation refuses includes every overlap of two trees that are written.
LEMMA TreesOfValid ==
  ASSUME NEW doc, Valid(doc), NEW i \in 1..Len(doc.conns), NEW j \in 1..Len(doc.conns), i # j,
         NEW s \in Trees(doc.conns[i]), NEW t \in Trees(doc.conns[j])
  PROVE  ~Overlap(s, t)
  <1>1. ASSUME NEW c, NEW d, ~Conflict(c, d), NEW u \in Trees(c), NEW v \in Trees(d)
        PROVE  ~Overlap(u, v)
    <2>1. /\ u = c.local \/ (c.kind = "rclone-onedrive" /\ u = c.side)
          /\ v = d.local \/ (d.kind = "rclone-onedrive" /\ v = d.side)
      BY <1>1 DEF Trees
    <2>2. <<c.local, TRUE>> \in Targets(c) /\ <<d.local, TRUE>> \in Targets(d)
      BY DEF Targets
    <2>3. /\ c.kind = "rclone-onedrive" => <<c.side, FALSE>> \in Targets(c)
          /\ d.kind = "rclone-onedrive" => <<d.side, FALSE>> \in Targets(d)
      BY DEF Targets, Mirrors
    <2>4. ASSUME NEW x \in Targets(c), NEW y \in Targets(d),
                 (x[2] /\ y[2]) \/ "rclone-onedrive" \in {c.kind, d.kind}
          PROVE  ~Overlap(x[1], y[1])
      BY <1>1, <2>4 DEF Conflict
    <2>5. CASE u = c.local /\ v = d.local
      BY <2>2, <2>4, <2>5
    <2>6. CASE u = c.local /\ d.kind = "rclone-onedrive" /\ v = d.side
      BY <2>2, <2>3, <2>4, <2>6
    <2>7. CASE c.kind = "rclone-onedrive" /\ u = c.side /\ v = d.local
      BY <2>2, <2>3, <2>4, <2>7
    <2>8. CASE /\ c.kind = "rclone-onedrive" /\ u = c.side
               /\ d.kind = "rclone-onedrive" /\ v = d.side
      BY <2>3, <2>4, <2>8
    <2>. QED
      BY <2>1, <2>5, <2>6, <2>7, <2>8
  <1>2. CASE i < j
    BY <1>1, <1>2 DEF Valid
  <1>3. CASE j < i
    <2>1. ~Conflict(doc.conns[j], doc.conns[i])
      BY <1>3 DEF Valid
    <2>. QED
      BY <1>1, <2>1, OverlapSymmetric
  <1>. QED
    BY <1>2, <1>3

-----------------------------------------------------------------------------
(* What a step does to a process                                           *)

file == <<sandboxed, disk, tmp, legacy>>

\* Nothing happened to it or to the file.
LEMMA Unmoved ==
  ASSUME NEW q \in Processes, ProcessInv(q), proc'[q] = proc[q], UNCHANGED file
  PROVE  ProcessInv(q)'
  BY DEF ProcessInv, Shape, Sound, Current, New, file, Migrates, LoadedConfig

\* Somebody else wrote: an operation under way is stale from now on.
LEMMA Overtaken ==
  ASSUME NEW q \in Processes, ProcessInv(q), proc'[q] = [proc[q] EXCEPT !.stale = ~Idle(q)]
  PROVE  ProcessInv(q)'
  <1>1. /\ proc'[q] = [cached |-> proc[q].cached, copy |-> proc[q].copy, op |-> proc[q].op,
                       step |-> proc[q].step, stale |-> ~Idle(q)]
    BY DEF ProcessInv, Shape
  <1>2. Shape(proc[q])' /\ Sound(q)'
    BY <1>1 DEF ProcessInv, Shape, Sound, New
  <1>3. proc[q].op.kind = "Refresh" => proc'[q].step = "migrate"
    BY <1>1 DEF ProcessInv
  <1>4. proc'[q].stale \/ Current(q)'
    <2>1. CASE Idle(q)
      BY <1>1, <2>1 DEF Current, Idle
    <2>2. CASE ~Idle(q)
      BY <1>1, <2>2
    <2>. QED
      BY <2>1, <2>2
  <1>. QED
    BY <1>1, <1>2, <1>3, <1>4 DEF ProcessInv

\* Its operation ended and it holds a valid configuration.
LEMMA EndedWell ==
  ASSUME NEW p \in Processes, NEW config, Valid(config),
         proc'[p] = [cached |-> config, copy |-> Empty, op |-> NoOp, step |-> "idle", stale |-> FALSE]
  PROVE  ProcessInv(p)'
  BY EmptyValid DEF ProcessInv, Shape, Sound, Current, NoOp

\* A step of p that leaves the file alone, and one that writes.
LEMMA OwnOnly ==
  ASSUME DocumentInv, NEW p \in Processes, NEW r, proc' = [proc EXCEPT ![p] = r],
         UNCHANGED file, proc'[p] = r => ProcessInv(p)'
  PROVE  DocumentInv'
  <1>1. proc'[p] = r /\ \A q \in Processes \ {p} : proc'[q] = proc[q]
    BY DEF DocumentInv
  <1>2. \A q \in Processes : ProcessInv(q)'
    BY <1>1, Unmoved DEF DocumentInv
  <1>3. proc' = [q \in Processes |-> proc'[q]]
    BY DEF DocumentInv
  <1>. QED
    BY <1>2, <1>3 DEF DocumentInv

LEMMA Overtaking ==
  ASSUME DocumentInv, NEW p \in Processes, NEW r, proc' = Others(p, [proc EXCEPT ![p] = r]),
         proc'[p] = r => ProcessInv(p)'
  PROVE  DocumentInv'
  <1>1. /\ proc'[p] = r
        /\ \A q \in Processes \ {p} : proc'[q] = [proc[q] EXCEPT !.stale = ~Idle(q)]
    BY DEF DocumentInv, Others
  <1>2. \A q \in Processes : ProcessInv(q)'
    BY <1>1, Overtaken DEF DocumentInv
  <1>3. proc' = [q \in Processes |-> proc'[q]]
    BY DEF Others
  <1>. QED
    BY <1>2, <1>3 DEF DocumentInv

LEMMA EndsOnly ==
  ASSUME DocumentInv, NEW p \in Processes, NEW config, Valid(config),
         proc' = Ends(p, config), UNCHANGED file
  PROVE  DocumentInv'
  BY OwnOnly, EndedWell DEF Ends

LEMMA EndsWriting ==
  ASSUME DocumentInv, NEW p \in Processes, NEW config, Valid(config),
         proc' = Others(p, Ends(p, config))
  PROVE  DocumentInv'
  BY Overtaking, EndedWell DEF Ends

LEMMA KeptValid ==
  ASSUME DocumentInv, NEW p \in Processes, NEW config, Valid(config)
  PROVE  Valid(Kept(p, config))
  BY DEF Kept, DocumentInv, ProcessInv, Sound

\* A process that begins an operation y, on the copy x or without one.
Working(r, x, y, z) == [r EXCEPT !.copy = x, !.op = y, !.step = z]
Reading(r, y, z) == [r EXCEPT !.op = y, !.step = z]

LEMMA Beginning ==
  ASSUME NEW r, Shape(r), NEW x, NEW y, NEW z
  PROVE  /\ Working(r, x, y, z) =
              [cached |-> r.cached, copy |-> x, op |-> y, step |-> z, stale |-> r.stale]
         /\ Reading(r, y, z) =
              [cached |-> r.cached, copy |-> r.copy, op |-> y, step |-> z, stale |-> r.stale]
  <1>. DEFINE a == r.cached
              b == r.copy
              c == r.op
              d == r.step
              e == r.stale
  <1>1. r = [cached |-> a, copy |-> b, op |-> c, step |-> d, stale |-> e]
    BY DEF Shape
  <1>. HIDE DEF a, b, c, d, e
  <1>2. ASSUME NEW w, w = [cached |-> a, copy |-> b, op |-> c, step |-> d, stale |-> e]
        PROVE  [w EXCEPT !.copy = x] = [cached |-> a, copy |-> x, op |-> c, step |-> d, stale |-> e]
    BY <1>2
  <1>3. ASSUME NEW w, NEW v, w = [cached |-> a, copy |-> v, op |-> c, step |-> d, stale |-> e]
        PROVE  [w EXCEPT !.op = y] = [cached |-> a, copy |-> v, op |-> y, step |-> d, stale |-> e]
    BY <1>3
  <1>4. ASSUME NEW w, NEW v, w = [cached |-> a, copy |-> v, op |-> y, step |-> d, stale |-> e]
        PROVE  [w EXCEPT !.step = z] = [cached |-> a, copy |-> v, op |-> y, step |-> z, stale |-> e]
    BY <1>4
  <1>5. [r EXCEPT !.copy = x, !.op = y, !.step = z] =
          [cached |-> a, copy |-> x, op |-> y, step |-> z, stale |-> e]
    <2>1. [r EXCEPT !.copy = x] = [cached |-> a, copy |-> x, op |-> c, step |-> d, stale |-> e]
      BY <1>1, <1>2
    <2>2. [[r EXCEPT !.copy = x] EXCEPT !.op = y] =
            [cached |-> a, copy |-> x, op |-> y, step |-> d, stale |-> e]
      BY <1>3, <2>1
    <2>3. [[[r EXCEPT !.copy = x] EXCEPT !.op = y] EXCEPT !.step = z] =
            [cached |-> a, copy |-> x, op |-> y, step |-> z, stale |-> e]
      BY <1>4, <2>2
    <2>. QED
      BY <2>3
  <1>6. [r EXCEPT !.op = y, !.step = z] =
          [cached |-> a, copy |-> b, op |-> y, step |-> z, stale |-> e]
    BY <1>1, <1>3, <1>4, Zenon
  <1>. QED
    BY <1>5, <1>6 DEF a, b, e, Working, Reading

-----------------------------------------------------------------------------
(* The steps                                                               *)

LEMMA OperationKinds ==
  ASSUME NEW p \in Processes, NEW op \in Operations(p)
  PROVE  op.kind # "Refresh"
  BY DEF Operations

\* A load that warns of nothing returns what is in the file.
LEMMA StartStep ==
  ASSUME DocumentInv, NEW p \in Processes, Start(p)
  PROVE  DocumentInv'
  <1>. DEFINE config == LoadedConfig(disk)
              step == IF Migrates(disk) THEN "migrate" ELSE "write"
  <1>1. PICK op \in Operations(p) :
          /\ LoadsWell(disk)
          /\ proc' = Continues(p, op, config, step)
          /\ UNCHANGED <<sandboxed, disk, tmp, legacy, offers>>
    BY DEF Start
  <1>2. Valid(config) /\ op.kind # "Refresh" /\ UNCHANGED file
    BY <1>1, LoadedValid, OperationKinds DEF file
  <1>3. CASE StillThere(op, config)
    <2>. DEFINE r == [proc[p] EXCEPT !.copy = config, !.op = op, !.step = step]
    <2>1. proc' = [proc EXCEPT ![p] = r] /\ r = Working(proc[p], config, op, step)
      BY <1>1, <1>3 DEF Continues, Working
    <2>2. r = [cached |-> proc[p].cached, copy |-> config, op |-> op, step |-> step,
               stale |-> proc[p].stale]
      BY <2>1, Beginning DEF DocumentInv, ProcessInv
    <2>. HIDE DEF r, config
    <2>3. proc'[p] = r => /\ Shape(proc[p])' /\ Sound(p)'
                          /\ proc'[p].op.kind # "Refresh"
      BY <1>2, <2>2 DEF Shape, Sound, DocumentInv, ProcessInv
    <2>4. proc'[p] = r => Current(p)'
      <3>1. Migrates(disk)' = Migrates(disk) /\ LoadsWell(disk)' = LoadsWell(disk)
            /\ LoadedConfig(disk)' = LoadedConfig(disk)
        BY <1>2 DEF file, Migrates, LoadedConfig
      <3>. QED
        BY <1>1, <2>2, <3>1 DEF Current, config
    <2>5. proc'[p] = r => ProcessInv(p)'
      BY <2>3, <2>4 DEF ProcessInv
    <2>. QED
      BY <1>2, <2>1, <2>5, OwnOnly
  <1>4. CASE ~StillThere(op, config)
    <2>1. proc' = Ends(p, Kept(p, config))
      BY <1>1, <1>4 DEF Continues
    <2>. QED
      BY <1>2, <2>1, KeptValid, EndsOnly
  <1>. QED
    BY <1>3, <1>4

LEMMA ReorderStep ==
  ASSUME DocumentInv, NEW p \in Processes, Reorder(p)
  PROVE  DocumentInv'
  <1>. DEFINE op == [kind |-> "Reorder"]
              r == [proc[p] EXCEPT !.copy = proc[p].cached, !.op = op, !.step = "write"]
  <1>1. /\ proc' = [proc EXCEPT ![p] = r] /\ UNCHANGED file
        /\ r = Working(proc[p], proc[p].cached, op, "write")
    BY DEF Reorder, Continues, StillThere, file, Working
  <1>2. r = [cached |-> proc[p].cached, copy |-> proc[p].cached, op |-> op, step |-> "write",
             stale |-> proc[p].stale]
    BY <1>1, Beginning DEF DocumentInv, ProcessInv
  <1>. HIDE DEF r
  <1>3. proc'[p] = r => ProcessInv(p)'
    BY <1>2 DEF ProcessInv, Shape, Sound, Current, DocumentInv
  <1>. QED
    BY <1>1, <1>3, OwnOnly

LEMMA MigrateStep ==
  ASSUME DocumentInv, NEW p \in Processes, Migrate(p)
  PROVE  DocumentInv'
  <1>1. proc[p].step = "migrate" /\ Valid(proc[p].cached) /\ Valid(Migrated)
    BY EmptyValid DEF Migrate, DocumentInv, ProcessInv, Sound
  <1>2. CASE disk' = Migrated /\ proc' = Others(p, Ends(p, Migrated))
    BY <1>1, <1>2, EndsWriting
  <1>3. CASE /\ proc[p].op.kind # "Refresh" /\ disk' = Migrated
             /\ proc' = Others(p, [proc EXCEPT ![p].step = "write"])
    <2>. DEFINE r == [proc[p] EXCEPT !.step = "write"]
    <2>1. proc' = Others(p, [proc EXCEPT ![p] = r])
      BY <1>3 DEF DocumentInv
    <2>2. r = [cached |-> proc[p].cached, copy |-> proc[p].copy, op |-> proc[p].op,
               step |-> "write", stale |-> proc[p].stale]
      BY DEF DocumentInv, ProcessInv, Shape
    <2>. HIDE DEF r
    <2>3. proc'[p] = r => /\ Shape(proc[p])' /\ Sound(p)'
                          /\ proc'[p].op.kind # "Refresh"
      <3>1. Valid(proc[p].copy)
        BY DEF DocumentInv, ProcessInv, Sound
      <3>2. proc'[p] = r => Shape(proc[p])'
        BY <2>2 DEF Shape
      <3>3. proc'[p] = r => Sound(p)'
        BY <1>1, <2>2, <3>1 DEF Sound
      <3>4. proc'[p] = r => proc'[p].op.kind # "Refresh"
        BY <1>3, <2>2
      <3>. QED
        BY <3>2, <3>3, <3>4
    <2>4. Readable(Migrated) /\ LoadedConfig(disk)' = Migrated /\ LoadsWell(disk)'
      BY <1>3, EmptyValid, DocumentTypes DEF Readable, LoadedConfig, LoadsWell
    <2>5. ASSUME ~proc[p].stale, proc[p].op.kind # "Reorder"
          PROVE  proc[p].copy = Migrated
      <3>1. Migrates(disk) /\ proc[p].copy = LoadedConfig(disk)
        BY <1>1, <1>3, <2>5 DEF DocumentInv, ProcessInv, Current
      <3>. QED
        BY <3>1 DEF LoadedConfig, Migrates, Readable
    <2>6. proc'[p] = r => proc'[p].stale \/ Current(p)'
      BY <2>2, <2>4, <2>5 DEF Current
    <2>7. proc'[p] = r => ProcessInv(p)'
      BY <2>3, <2>6 DEF ProcessInv
    <2>. QED
      BY <2>1, <2>7, Overtaking
  <1>4. CASE /\ disk' = disk
             /\ proc' = Ends(p, Migrated) \/ proc' = Ends(p, proc[p].cached)
    <2>1. UNCHANGED file
      BY <1>4 DEF Migrate, file
    <2>. QED
      BY <1>1, <1>4, <2>1, EndsOnly
  <1>. QED
    BY <1>2, <1>3, <1>4 DEF Migrate

LEMMA UnwrittenStep ==
  ASSUME DocumentInv, NEW p \in Processes, Unwritten(p)
  PROVE  DocumentInv'
  <1>1. Valid(proc[p].copy)
    BY DEF DocumentInv, ProcessInv, Sound
  <1>. QED
    BY <1>1, KeptValid, EndsOnly DEF Unwritten, file

LEMMA WriteStep ==
  ASSUME DocumentInv, NEW p \in Processes, Write(p)
  PROVE  DocumentInv'
  <1>1. Valid(proc[p].copy) /\ Valid(New(p))
    BY DEF DocumentInv, ProcessInv, Sound, Write, Writing
  <1>2. CASE proc' = Others(p, Ends(p, Kept(p, New(p))))
    BY <1>1, <1>2, KeptValid, EndsWriting
  <1>3. CASE disk' = disk /\ proc' = Ends(p, Kept(p, proc[p].copy))
    BY <1>1, <1>3, KeptValid, EndsOnly DEF Write, file
  <1>. QED
    BY <1>2, <1>3 DEF Write

LEMMA StageStep ==
  ASSUME DocumentInv, NEW p \in Processes, Stage(p)
  PROVE  DocumentInv'
  <1>1. proc[p].step = "write" /\ Valid(proc[p].copy) /\ Valid(New(p))
    BY DEF DocumentInv, ProcessInv, Sound, Stage, Writing
  <1>2. CASE tmp' = New(p) /\ proc' = Others(p, [proc EXCEPT ![p].step = "rename"])
    <2>. DEFINE r == [proc[p] EXCEPT !.step = "rename"]
    <2>1. proc' = Others(p, [proc EXCEPT ![p] = r])
      BY <1>2 DEF DocumentInv
    <2>2. r = [cached |-> proc[p].cached, copy |-> proc[p].copy, op |-> proc[p].op,
               step |-> "rename", stale |-> proc[p].stale]
      BY DEF DocumentInv, ProcessInv, Shape
    <2>. HIDE DEF r
    <2>3. proc'[p] = r => New(p)' = New(p)
      BY <2>2 DEF New
    <2>4. proc'[p] = r => /\ Shape(proc[p])' /\ Sound(p)'
                          /\ proc'[p].op.kind # "Refresh"
      BY <1>1, <2>2, <2>3 DEF Shape, Sound, DocumentInv, ProcessInv
    <2>5. proc'[p] = r => proc'[p].stale \/ Current(p)'
      <3>1. disk' = disk /\ LoadedConfig(disk)' = LoadedConfig(disk)
        BY DEF Stage, LoadedConfig, Migrates
      <3>2. proc[p].stale \/ Current(p)
        BY DEF DocumentInv, ProcessInv
      <3>. QED
        BY <1>1, <1>2, <2>2, <2>3, <3>1, <3>2 DEF Current
    <2>6. proc'[p] = r => ProcessInv(p)'
      BY <2>4, <2>5 DEF ProcessInv
    <2>. QED
      BY <2>1, <2>6, Overtaking
  <1>3. CASE tmp' = tmp /\ proc' = Ends(p, Kept(p, proc[p].copy))
    BY <1>1, <1>3, KeptValid, EndsOnly DEF Stage, file
  <1>4. CASE proc' = Others(p, Ends(p, Kept(p, proc[p].copy)))
    BY <1>1, <1>4, KeptValid, EndsWriting
  <1>. QED
    BY <1>2, <1>3, <1>4 DEF Stage

LEMMA RenameStep ==
  ASSUME DocumentInv, NEW p \in Processes, Rename(p)
  PROVE  DocumentInv'
  <1>1. Valid(proc[p].copy) /\ Valid(New(p))
    BY DEF DocumentInv, ProcessInv, Sound, Rename
  <1>. QED
    BY <1>1, KeptValid, EndsWriting DEF Rename

LEMMA RefreshStep ==
  ASSUME DocumentInv, NEW p \in Processes, Refresh(p)
  PROVE  DocumentInv'
  <1>. /\ Shape(proc[p]) /\ Valid(proc[p].cached) /\ Valid(proc[p].copy) /\ UNCHANGED file
       /\ proc[p].step = "idle" /\ proc[p].op.kind # "Refresh"
    BY DEF DocumentInv, ProcessInv, Sound, Refresh, Idle, file
  <1>1. CASE Migrates(disk)
    <2>. DEFINE op == [kind |-> "Refresh"]
                r == [proc[p] EXCEPT !.op = op, !.step = "migrate"]
    <2>1. /\ proc' = [proc EXCEPT ![p] = r] /\ op.kind = "Refresh"
          /\ r = Reading(proc[p], op, "migrate")
      BY <1>1 DEF Refresh, Reading
    <2>2. r = [cached |-> proc[p].cached, copy |-> proc[p].copy, op |-> op, step |-> "migrate",
               stale |-> proc[p].stale]
      BY <2>1, Beginning
    <2>3. Migrates(disk)'
      BY <1>1 DEF Migrates, file
    <2>. HIDE DEF r
    <2>4. proc'[p] = r => ProcessInv(p)'
      BY <2>1, <2>2, <2>3 DEF ProcessInv, Shape, Sound, Current
    <2>. QED
      BY <2>1, <2>4, OwnOnly
  <1>2. CASE ~Migrates(disk)
    <2>. DEFINE r == [proc[p] EXCEPT !.cached = LoadedConfig(disk)]
    <2>1. proc' = [proc EXCEPT ![p] = r]
      BY <1>2 DEF Refresh, DocumentInv
    <2>2. r = [cached |-> LoadedConfig(disk), copy |-> proc[p].copy, op |-> proc[p].op,
               step |-> proc[p].step, stale |-> proc[p].stale]
      BY DEF Shape
    <2>. HIDE DEF r
    <2>3. proc'[p] = r => ProcessInv(p)'
      BY <2>2, LoadedValid DEF ProcessInv, Shape, Sound, Current
    <2>. QED
      BY <2>1, <2>3, OwnOnly
  <1>. QED
    BY <1>1, <1>2

LEMMA EditByHandStep ==
  ASSUME DocumentInv, EditByHand
  PROVE  DocumentInv'
  <1>1. \A q \in Processes : proc'[q] = [proc[q] EXCEPT !.stale = ~Idle(q)]
    BY DEF EditByHand
  <1>2. \A q \in Processes : ProcessInv(q)'
    BY <1>1, Overtaken DEF DocumentInv
  <1>3. proc' = [q \in Processes |-> proc'[q]]
    BY DEF EditByHand
  <1>. QED
    BY <1>2, <1>3 DEF DocumentInv

-----------------------------------------------------------------------------
(* Theorems                                                                *)

LEMMA DocumentInit == Init => DocumentInv
  <1>. SUFFICES ASSUME Init
                PROVE  DocumentInv
    OBVIOUS
  <1>1. ASSUME NEW p \in Processes
        PROVE  ProcessInv(p)
    <2>1. proc[p] = [cached |-> Empty, copy |-> Empty, op |-> NoOp, step |-> "idle", stale |-> FALSE]
      BY DEF Init
    <2>2. NoOp.kind # "Refresh"
      BY DEF NoOp
    <2>. QED
      BY <2>1, <2>2, EmptyValid DEF ProcessInv, Shape, Sound, Current
  <1>2. proc = [p \in Processes |-> proc[p]]
    BY DEF Init
  <1>. QED
    BY <1>1, <1>2 DEF DocumentInv

LEMMA DocumentStep ==
  ASSUME DocumentInv, [Next]_vars
  PROVE  DocumentInv'
  <1>1. CASE Next
    <2>1. ASSUME NEW p \in Processes, Scan(p)
          PROVE  DocumentInv'
      <3>1. proc' = proc /\ UNCHANGED file
        BY <2>1 DEF Scan, file
      <3>. QED
        BY <3>1, Unmoved DEF DocumentInv
    <2>. QED
      BY <1>1, <2>1, StartStep, ReorderStep, MigrateStep, UnwrittenStep, WriteStep, StageStep,
         RenameStep, RefreshStep, EditByHandStep DEF Next
  <1>2. CASE UNCHANGED vars
    <2>1. proc' = proc /\ UNCHANGED file
      BY <1>2 DEF vars, file
    <2>. QED
      BY <2>1, Unmoved DEF DocumentInv
  <1>. QED
    BY <1>1, <1>2

\* Every configuration a process holds or works on is valid, and an operation that
\* nobody overtook works on what is in the file (load_runtime_config,
\* update_validated_with).
THEOREM DocumentInvariance == Spec => []DocumentInv
  BY DocumentInit, DocumentStep, PTL DEF Spec

\* No process ever works with a document in which two connections write to
\* overlapping trees, whatever it read, imported or was left by others.
THEOREM TreesAreApart == Spec => []TreesApart
  <1>1. DocumentInv => TreesApart
    BY TreesOfValid DEF DocumentInv, ProcessInv, Sound, TreesApart
  <1>. QED
    BY <1>1, DocumentInvariance, PTL

\* Who changes the file while an operation of p comes to its end is p itself.
LEMMA WritesOwn ==
  ASSUME DocumentInv, [Next]_vars, NEW p \in Processes, Writes(p)
  PROVE  Migrate(p) \/ Write(p) \/ Rename(p)
  <1>1. proc'[p].step # proc[p].step /\ disk' # disk /\ Shape(proc[p])
    BY DEF Writes, DocumentInv, ProcessInv
  <1>2. proc'[p] # [proc[p] EXCEPT !.stale = ~Idle(p)]
    BY <1>1 DEF Shape
  <1>3. ASSUME NEW q \in Processes \ {p}, NEW mine, proc' = Others(q, mine), mine[p] = proc[p]
        PROVE  FALSE
    BY <1>2, <1>3 DEF Others
  <1>4. ASSUME NEW q \in Processes \ {p}, NEW r
        PROVE  [proc EXCEPT ![q] = r][p] = proc[p]
    BY DEF DocumentInv
  <1>5. ASSUME NEW q \in Processes \ {p}, NEW config
        PROVE  Ends(q, config)[p] = proc[p]
    BY <1>4 DEF Ends
  <1>6. ASSUME NEW q \in Processes \ {p}, Migrate(q) \/ Write(q) \/ Rename(q)
        PROVE  FALSE
    <2>1. CASE Migrate(q)
      <3>1. \/ proc' = Others(q, Ends(q, Migrated))
            \/ proc' = Others(q, [proc EXCEPT ![q] = [proc[q] EXCEPT !.step = "write"]])
        BY <1>1, <2>1 DEF Migrate, DocumentInv
      <3>. QED
        BY <1>3, <1>4, <1>5, <3>1
    <2>2. CASE Write(q)
      BY <1>1, <1>3, <1>5, <2>2 DEF Write
    <2>3. CASE Rename(q)
      BY <1>1, <1>3, <1>5, <2>3 DEF Rename
    <2>. QED
      BY <1>6, <2>1, <2>2, <2>3
  <1>7. ~EditByHand
    BY <1>2 DEF EditByHand
  <1>8. \/ \E q \in Processes : Migrate(q) \/ Write(q) \/ Rename(q)
        \/ EditByHand
    BY <1>1 DEF Next, vars, Start, Reorder, Unwritten, Stage, Refresh, Scan
  <1>. QED
    BY <1>6, <1>7, <1>8

\* A write applies its operation to what is in the file, for any number of
\* processes that share it without a lock, unless another write came in between or
\* the operation is Reorder.
THEOREM EditsAreKept == Spec => EditsKept
  <1>. DEFINE Keeps == \A p \in Processes :
                (Writes(p) /\ ~proc[p].stale /\ proc[p].op.kind # "Reorder") =>
                  /\ LoadsWell(disk)
                  /\ IF proc[p].step = "migrate" THEN disk = Absent
                     ELSE disk' = Update(proc[p].op, LoadedConfig(disk))
  <1>1. DocumentInv /\ [Next]_vars => Keeps
    <2>. SUFFICES ASSUME DocumentInv, [Next]_vars, NEW p \in Processes,
                         Writes(p), ~proc[p].stale, proc[p].op.kind # "Reorder"
                  PROVE  /\ LoadsWell(disk)
                         /\ IF proc[p].step = "migrate" THEN disk = Absent
                            ELSE disk' = Update(proc[p].op, LoadedConfig(disk))
      OBVIOUS
    <2>. Current(p) /\ disk' # disk /\ (proc[p].op.kind = "Refresh" => proc[p].step = "migrate")
      BY DEF DocumentInv, ProcessInv, Writes
    <2>1. CASE Migrate(p)
      BY <2>1 DEF Migrate, Current, Migrates, LoadsWell
    <2>2. CASE Write(p)
      BY <2>2 DEF Write, Writing, Current, New
    <2>3. CASE Rename(p)
      BY <2>3 DEF Rename, Current, New
    <2>. QED
      BY <2>1, <2>2, <2>3, WritesOwn
  <1>2. DocumentInv /\ [Next]_vars => [Keeps]_vars
    BY <1>1
  <1>. HIDE DEF Keeps
  <1>3. Spec => [][Keeps]_vars
    BY <1>2, DocumentInvariance, PTL DEF Spec
  <1>. QED
    BY <1>3 DEF EditsKept, Keeps

-----------------------------------------------------------------------------
(* The import: induction along a command line                              *)

\* A set of naturals that is not empty has a least element.
LEMMA Least ==
  ASSUME NEW T, T \subseteq Nat, T # {}
  PROVE  \E m \in T : \A n \in T : m <= n
<1>1. \E m \in T : \A n \in T : ~ (<<n, m>> \in OpToRel(<, Nat))
  BY NatLessThanWellFounded, WFMin
<1>2. ASSUME NEW m \in T, NEW n \in T, n < m
      PROVE  <<n, m>> \in OpToRel(<, Nat)
  BY <1>2 DEF OpToRel
<1>3. \E m \in T : \A n \in T : ~ (n < m)
  BY <1>1, <1>2
<1> QED BY <1>3

\* Induction from the right end of a command line towards its first token.
LEMMA Backwards ==
  ASSUME NEW first \in Nat, NEW last \in Nat, NEW Good,
         \A i \in first..last : (\A j \in (i + 1)..last : j \in Good) => i \in Good
  PROVE  \A i \in first..last : i \in Good
<1> DEFINE Bad == {k \in Nat : last - k \in first..last /\ last - k \notin Good}
<1>1. ASSUME Bad # {}
      PROVE  FALSE
  <2>1. PICK k \in Bad : \A m \in Bad : k <= m
    BY <1>1, Least
  <2>2. ASSUME NEW j \in (last - k + 1)..last
        PROVE  j \in Good
    <3>1. last - j \in Nat /\ last - (last - j) = j /\ last - j < k
      OBVIOUS
    <3>2. last - j \notin Bad
      BY <2>1, <3>1
    <3> QED BY <3>1, <3>2, <2>1
  <2> QED BY <2>1, <2>2
<1>2. ASSUME NEW i \in first..last
      PROVE  i \in Good
  <2>1. last - i \in Nat /\ last - (last - i) = i
    OBVIOUS
  <2> QED BY <1>1, <2>1
<1> QED BY <1>2

\* F is computed by S from the right end, each value from the two next to it.
Computed(first, n, V, one, two, S, F) ==
  /\ F \in [first..(n + 2) -> V]
  /\ F[n + 1] = one /\ F[n + 2] = two
  /\ \A i \in first..n : F[i] = S[i][<<F[i + 1], F[i + 2]>>]

\* What is computed from the right end, each value from the two next to it, exists.
LEMMA Recursion ==
  ASSUME NEW first \in Nat, NEW n \in Nat, first <= n + 1, NEW V, NEW one \in V, NEW two \in V,
         NEW S \in [first..n -> [V \X V -> V]]
  PROVE  \E F : Computed(first, n, V, one, two, S, F)
<1> DEFINE From(m, F) == Computed(m, n, V, one, two, S, F)
           Good == {m \in first..(n + 1) : \E F : From(m, F)}
<1> USE DEF Computed
<1>1. ASSUME NEW m \in first..(n + 1), \A j \in (m + 1)..(n + 1) : j \in Good
      PROVE  m \in Good
  <2>1. CASE m = n + 1
    <3> DEFINE F == [i \in m..(n + 2) |-> IF i = n + 1 THEN one ELSE two]
    <3>1. From(m, F)
      BY <2>1
    <3> QED BY <3>1
  <2>2. CASE m # n + 1
    <3>0. m \in first..n /\ m + 1 \in (m + 1)..(n + 1)
      BY <2>2
    <3>1. m + 1 \in Good /\ m \in first..n
      BY <1>1, <3>0
    <3>2. PICK F : From(m + 1, F)
      BY <3>1
    <3> DEFINE G == [i \in m..(n + 2) |-> IF i = m THEN S[m][<<F[m + 1], F[m + 2]>>] ELSE F[i]]
    <3>3. F[m + 1] \in V /\ F[m + 2] \in V
      BY <3>1, <3>2
    <3>4. S[m][<<F[m + 1], F[m + 2]>>] \in V
      BY <3>1, <3>3
    <3>5. G \in [m..(n + 2) -> V] /\ G[n + 1] = one /\ G[n + 2] = two
      BY <3>1, <3>2, <3>4
    <3>6. ASSUME NEW i \in m..n
          PROVE  G[i] = S[i][<<G[i + 1], G[i + 2]>>]
      <4>1. i + 1 \in (m + 1)..(n + 2) /\ i + 2 \in (m + 1)..(n + 2)
        BY <3>1
      <4>2. G[i + 1] = F[i + 1] /\ G[i + 2] = F[i + 2]
        BY <3>1, <4>1
      <4>3. i = m \/ (i # m /\ i \in (m + 1)..n /\ i \in m..(n + 2))
        BY <3>1
      <4>4. CASE i = m
        <5>1. G[m] = S[m][<<F[m + 1], F[m + 2]>>]
          BY <3>1
        <5> QED BY <5>1, <4>2, <4>4
      <4>5. CASE i # m
        BY <3>2, <4>2, <4>3, <4>5
      <4> QED BY <4>4, <4>5
    <3>7. From(m, G)
      BY <3>5, <3>6
    <3> QED BY <3>7
  <2> QED BY <2>1, <2>2
<1> HIDE DEF Good
<1>2. \A m \in first..(n + 1) : m \in Good
  <2>1. n + 1 \in Nat
    OBVIOUS
  <2> QED BY <1>1, <2>1, Backwards, Zenon
<1>3. first \in Good
  BY <1>2
<1> QED BY <1>3 DEF Good

\* Whoever computes so stays within the type of the values.
LEMMA ComputedTypes ==
  ASSUME NEW first \in Nat, NEW n \in Nat, NEW V, NEW F, F[n + 1] \in V, F[n + 2] \in V,
         \A i \in first..n : (F[i + 1] \in V /\ F[i + 2] \in V) => F[i] \in V
  PROVE  \A i \in first..(n + 2) : F[i] \in V
<1> DEFINE last == n + 2
           Good == {i \in first..last : F[i] \in V}
<1>1. ASSUME NEW i \in first..last, \A j \in (i + 1)..last : j \in Good
      PROVE  i \in Good
  <2>1. CASE i \in first..n
    <3>1. i + 1 \in (i + 1)..last /\ i + 2 \in (i + 1)..last
      BY <2>1
    <3> QED BY <1>1, <2>1, <3>1
  <2>2. CASE i \notin first..n
    <3>1. i = n + 1 \/ i = n + 2
      BY <2>2
    <3> QED BY <3>1
  <2> QED BY <2>1, <2>2
<1>2. last \in Nat
  OBVIOUS
<1> HIDE DEF Good, last
<1>3. \A i \in first..last : i \in Good
  BY <1>1, <1>2, Backwards, Zenon
<1> QED BY <1>3 DEF Good, last

-----------------------------------------------------------------------------
(* What the code reads, and what the engine understands                    *)

Names == LongOptions \cup ShortOptions \cup {"text"}

IsLine(line) == Len(line) \in Nat /\ \A i \in 1..Len(line) : IsToken(line[i])

Preview == [ok : BOOLEAN, cache : Paths \cup {Relative, None}, listed : SUBSET Names,
            target : Paths \cup {Relative, None}]

\* Whatever the readers do to a preview of the rest is a preview.
LEMMA PreviewTypes ==
         /\ Nothing \in Preview /\ Refused \in Preview
         /\ \A token : PathOf(token) \in Paths \cup {Relative}
         /\ \A r \in Preview : /\ \A token : WithCache(token, r) \in Preview
                             /\ \A name \in Names : Listed(name, r) \in Preview
<1>1. \A token : PathOf(token) \in Paths \cup {Relative}
  BY DEF PathOf
<1>2. Nothing \in Preview /\ Refused \in Preview
  BY DEF Nothing, Refused, Preview
<1>3. ASSUME NEW r \in Preview, NEW token
      PROVE  WithCache(token, r) \in Preview
  BY <1>1 DEF WithCache, Preview
<1>4. ASSUME NEW r \in Preview, NEW name \in Names
      PROVE  Listed(name, r) \in Preview
  BY DEF Listed, Preview
<1> QED BY <1>1, <1>2, <1>3, <1>4

LEMMA TokenNames ==
  ASSUME NEW line, IsLine(line), NEW i \in 1..Len(line)
  PROVE  line[i].opt \in Names
<1>1. CASE line[i].opt \in LongOptions \cup ShortOptions
  BY <1>1 DEF Names
<1>2. CASE line[i] = Word(line[i].word)
  <2>1. Word(line[i].word).opt = "text"
    BY DEF Word
  <2> QED BY <1>2, <2>1 DEF Names
<1> QED BY <1>1, <1>2 DEF IsLine, IsToken

RcloneStep(line, i, one, two) ==
  LET next == IF HasValue(line, i) THEN two ELSE one IN
  CASE line[i].opt = "--config" ->
         IF i < Len(line) /\ line[i + 1] = Word(DefaultConf) THEN two ELSE Refused
    [] line[i].opt = "--cache-dir" /\ i < Len(line) -> WithCache(line[i + 1], two)
    [] line[i].opt = "--cache-dir" /\ i = Len(line) -> Listed("--cache-dir", one)
    [] line[i].opt = "--tuning" -> next
    [] line[i].opt = "text" -> Listed("text", one)
    [] line[i].opt \in ShortOptions -> Listed(line[i].opt, one)
    [] OTHER -> Listed(line[i].opt, next)

OnedriverStep(line, i, one, two) ==
  LET next == IF HasValue(line, i) THEN two ELSE one IN
  CASE line[i].opt = "--cache-dir" /\ i < Len(line) -> WithCache(line[i + 1], two)
    [] line[i].opt = "--cache-dir" /\ i = Len(line) -> Listed("--cache-dir", one)
    [] line[i].opt \in {"--config-file", "--auth-only"} -> next
    [] line[i].opt \in LongOptions \ {"--cache-dir", "--config-file", "--auth-only"} ->
         Listed(line[i].opt, next)
    [] OTHER -> IF one.target = None THEN [one EXCEPT !.target = PathOf(line[i])] ELSE one

\* So is each step of the two readers.
LEMMA StepTypes ==
  ASSUME NEW line, IsLine(line), NEW i \in 1..Len(line), NEW one \in Preview, NEW two \in Preview
  PROVE  RcloneStep(line, i, one, two) \in Preview /\ OnedriverStep(line, i, one, two) \in Preview
<1>1. line[i].opt \in Names /\ "text" \in Names /\ "--cache-dir" \in Names
  BY TokenNames DEF Names, LongOptions
<1>2. \A name \in Names : Listed(name, one) \in Preview /\ Listed(name, two) \in Preview
  BY PreviewTypes
<1>3. Refused \in Preview /\ \A token : WithCache(token, two) \in Preview
  BY PreviewTypes
<1>4. [one EXCEPT !.target = PathOf(line[i])] \in Preview
  BY PreviewTypes DEF Preview
<1>5. RcloneStep(line, i, one, two) \in Preview
  BY <1>1, <1>2, <1>3 DEF RcloneStep, IsLine, Names
<1>6. OnedriverStep(line, i, one, two) \in Preview
  BY <1>1, <1>2, <1>3, <1>4 DEF OnedriverStep, IsLine
<1> QED BY <1>5, <1>6

\* The unfolding of the two readers of the code.
IsRcloneReading(line, F) ==
  /\ F \in [3..(Len(line) + 2) -> Preview]
  /\ ReadRclone(line) = F[3]
  /\ F[Len(line) + 1] = Nothing /\ F[Len(line) + 2] = Nothing
  /\ \A i \in 3..Len(line) : F[i] = RcloneStep(line, i, F[i + 1], F[i + 2])

LEMMA RcloneReading ==
  ASSUME NEW line, IsLine(line), Len(line) >= 2
  PROVE  \E F : IsRcloneReading(line, F)
<1> DEFINE n == Len(line)
           first == 3
           Source(G, i) ==
             LET next == IF HasValue(line, i) THEN i + 2 ELSE i + 1 IN
             IF i > Len(line) THEN Nothing
             ELSE CASE line[i].opt = "--config" ->
                         IF i < Len(line) /\ line[i + 1] = Word(DefaultConf) THEN G[i + 2] ELSE Refused
                    [] line[i].opt = "--cache-dir" /\ i < Len(line) -> WithCache(line[i + 1], G[i + 2])
                    [] line[i].opt = "--cache-dir" /\ i = Len(line) -> Listed("--cache-dir", G[i + 1])
                    [] line[i].opt = "--tuning" -> G[next]
                    [] line[i].opt = "text" -> Listed("text", G[i + 1])
                    [] line[i].opt \in ShortOptions -> Listed(line[i].opt, G[i + 1])
                    [] OTHER -> Listed(line[i].opt, G[next])
           C == CHOOSE G : G = [i \in first..(Len(line) + 2) |-> Source(G, i)]
           S == [i \in first..n |-> [ab \in Preview \X Preview |-> RcloneStep(line, i, ab[1], ab[2])]]
<1>1. n \in Nat /\ n >= 2 /\ first \in Nat /\ first <= n + 1 /\ Nothing \in Preview
  BY PreviewTypes DEF IsLine
<1>2. ReadRclone(line) = C[first]
  BY DEF ReadRclone
<1>3. \A G, i : Source(G, i) = IF i > n THEN Nothing ELSE RcloneStep(line, i, G[i + 1], G[i + 2])
  <2> SUFFICES ASSUME NEW G, NEW i
               PROVE  Source(G, i) = IF i > n THEN Nothing ELSE RcloneStep(line, i, G[i + 1], G[i + 2])
    OBVIOUS
  <2>1. CASE HasValue(line, i)
    BY <2>1 DEF RcloneStep
  <2>2. CASE ~HasValue(line, i)
    BY <2>2 DEF RcloneStep
  <2> QED BY <2>1, <2>2
<1> HIDE DEF Source
<1>4. C = [i \in first..(n + 2) |-> Source(C, i)]
  <2>1. S \in [first..n -> [Preview \X Preview -> Preview]]
    BY <1>1, StepTypes
  <2> HIDE DEF S, n, first
  <2>2. PICK F : Computed(first, n, Preview, Nothing, Nothing, S, F)
    BY <1>1, <2>1, Recursion, Zenon
  <2> USE DEF S, n, first
  <2>3. ASSUME NEW i \in first..n
        PROVE  F[i] = RcloneStep(line, i, F[i + 1], F[i + 2])
    <3>1. F[i + 1] \in Preview /\ F[i + 2] \in Preview
      BY <1>1, <2>2 DEF Computed
    <3> QED BY <2>2, <3>1 DEF Computed
  <2>4. F = [i \in first..(n + 2) |-> Source(F, i)]
    BY <1>1, <1>3, <2>2, <2>3 DEF Computed
  <2> QED BY <2>4
<1> HIDE DEF C, S
<1>5. /\ C[n + 1] = Nothing /\ C[n + 2] = Nothing
      /\ \A i \in first..n : C[i] = RcloneStep(line, i, C[i + 1], C[i + 2])
  BY <1>1, <1>3, <1>4
<1>6. \A i \in first..n : (C[i + 1] \in Preview /\ C[i + 2] \in Preview) => C[i] \in Preview
  BY <1>1, <1>5, StepTypes
<1> HIDE DEF n, first
<1>7. \A i \in first..(n + 2) : C[i] \in Preview
  BY <1>1, <1>5, <1>6, ComputedTypes, Zenon
<1>8. C \in [first..(n + 2) -> Preview]
  BY <1>4, <1>7
<1>9. IsRcloneReading(line, C)
  BY <1>2, <1>5, <1>8, Zenon DEF IsRcloneReading, n, first
<1> QED BY <1>9

IsOnedriverReading(line, F) ==
  /\ F \in [1..(Len(line) + 2) -> Preview]
  /\ ReadOnedriver(line) = F[1]
  /\ F[Len(line) + 1] = Nothing /\ F[Len(line) + 2] = Nothing
  /\ \A i \in 1..Len(line) : F[i] = OnedriverStep(line, i, F[i + 1], F[i + 2])

LEMMA OnedriverReading ==
  ASSUME NEW line, IsLine(line)
  PROVE  \E F : IsOnedriverReading(line, F)
<1> DEFINE n == Len(line)
           first == 1
           Source(G, i) ==
             LET next == IF HasValue(line, i) THEN i + 2 ELSE i + 1 IN
             IF i > Len(line) THEN Nothing
             ELSE CASE line[i].opt = "--cache-dir" /\ i < Len(line) -> WithCache(line[i + 1], G[i + 2])
                    [] line[i].opt = "--cache-dir" /\ i = Len(line) -> Listed("--cache-dir", G[i + 1])
                    [] line[i].opt \in {"--config-file", "--auth-only"} -> G[next]
                    [] line[i].opt \in LongOptions \ {"--cache-dir", "--config-file", "--auth-only"} ->
                         Listed(line[i].opt, G[next])
                    [] OTHER -> IF G[i + 1].target = None
                                THEN [G[i + 1] EXCEPT !.target = PathOf(line[i])] ELSE G[i + 1]
           C == CHOOSE G : G = [i \in first..(Len(line) + 2) |-> Source(G, i)]
           S == [i \in first..n |-> [ab \in Preview \X Preview |-> OnedriverStep(line, i, ab[1], ab[2])]]
<1>1. n \in Nat /\ first \in Nat /\ first <= n + 1 /\ Nothing \in Preview
  BY PreviewTypes DEF IsLine
<1>2. ReadOnedriver(line) = C[first]
  BY DEF ReadOnedriver
<1>3. \A G, i : Source(G, i) = IF i > n THEN Nothing ELSE OnedriverStep(line, i, G[i + 1], G[i + 2])
  <2> SUFFICES ASSUME NEW G, NEW i
               PROVE  Source(G, i) = IF i > n THEN Nothing ELSE OnedriverStep(line, i, G[i + 1], G[i + 2])
    OBVIOUS
  <2>1. CASE HasValue(line, i)
    BY <2>1 DEF OnedriverStep
  <2>2. CASE ~HasValue(line, i)
    BY <2>2 DEF OnedriverStep
  <2> QED BY <2>1, <2>2
<1> HIDE DEF Source
<1>4. C = [i \in first..(n + 2) |-> Source(C, i)]
  <2>1. S \in [first..n -> [Preview \X Preview -> Preview]]
    BY <1>1, StepTypes
  <2> HIDE DEF S, n, first
  <2>2. PICK F : Computed(first, n, Preview, Nothing, Nothing, S, F)
    BY <1>1, <2>1, Recursion, Zenon
  <2> USE DEF S, n, first
  <2>3. ASSUME NEW i \in first..n
        PROVE  F[i] = OnedriverStep(line, i, F[i + 1], F[i + 2])
    <3>1. F[i + 1] \in Preview /\ F[i + 2] \in Preview
      BY <1>1, <2>2 DEF Computed
    <3> QED BY <2>2, <3>1 DEF Computed
  <2>4. F = [i \in first..(n + 2) |-> Source(F, i)]
    BY <1>1, <1>3, <2>2, <2>3 DEF Computed
  <2> QED BY <2>4
<1> HIDE DEF C, S
<1>5. /\ C[n + 1] = Nothing /\ C[n + 2] = Nothing
      /\ \A i \in first..n : C[i] = OnedriverStep(line, i, C[i + 1], C[i + 2])
  <2>1. ASSUME NEW i \in first..(n + 2)
        PROVE  C[i] = Source(C, i)
    BY <1>4, <2>1
  <2>2. n + 1 \in first..(n + 2) /\ n + 2 \in first..(n + 2) /\ n + 1 > n /\ n + 2 > n
    BY <1>1
  <2>3. C[n + 1] = Source(C, n + 1) /\ C[n + 2] = Source(C, n + 2)
    BY <2>1, <2>2
  <2>4. ASSUME NEW i \in first..n
        PROVE  C[i] = OnedriverStep(line, i, C[i + 1], C[i + 2])
    <3>1. i \in first..(n + 2) /\ ~(i > n)
      BY <1>1
    <3> QED BY <1>3, <2>1, <3>1
  <2> QED BY <1>3, <2>2, <2>3, <2>4
<1>6. \A i \in first..n : (C[i + 1] \in Preview /\ C[i + 2] \in Preview) => C[i] \in Preview
  BY <1>1, <1>5, StepTypes
<1> HIDE DEF n, first
<1>7. \A i \in first..(n + 2) : C[i] \in Preview
  BY <1>1, <1>5, <1>6, ComputedTypes, Zenon
<1>8. C \in [first..(n + 2) -> Preview]
  BY <1>4, <1>7
<1>9. IsOnedriverReading(line, C)
  BY <1>2, <1>5, <1>8, Zenon DEF IsOnedriverReading, n, first
<1> QED BY <1>9

-----------------------------------------------------------------------------
Words(line) == {line[i].word : i \in 1..Len(line)} \cup {<<>>, <<"joined">>, DefaultConf}

Understanding(line) == [words : Seq(Words(line)), cache : Words(line) \cup {None}, conf : Words(line),
                        others : SUBSET Names, ends : BOOLEAN]

MeaningStep(line, i, one, two) ==
  LET name == line[i].opt
      rest == IF name \in TakesValue THEN two ELSE one
      value == IF name \in TakesValue /\ i < Len(line) THEN line[i + 1].word ELSE <<>> IN
  IF name = "text" THEN [one EXCEPT !.words = <<line[i].word>> \o @]
  ELSE CASE name \in {"--cache-dir", "-c"} ->
              IF rest.cache = None THEN [rest EXCEPT !.cache = value] ELSE rest
         [] name = "--config" -> [rest EXCEPT !.conf = IF @ = DefaultConf THEN value ELSE @]
         [] name = "--config=" -> [rest EXCEPT !.conf = <<"joined">>,
                                               !.others = @ \cup {name}]
         [] name \in {"--flag", "--valued"} -> [rest EXCEPT !.others = @ \cup {name}]
         [] OTHER -> rest

\* The same for what the engines understand.
LEMMA MeaningTypes ==
  ASSUME NEW line, IsLine(line)
  PROVE  /\ \A b \in BOOLEAN : [Plain EXCEPT !.ends = b] \in Understanding(line)
         /\ \A i \in 1..Len(line), one \in Understanding(line), two \in Understanding(line) :
              MeaningStep(line, i, one, two) \in Understanding(line)
<1>1. <<>> \in Seq(Words(line)) /\ DefaultConf \in Words(line)
  BY DEF Words
<1>2. ASSUME NEW b \in BOOLEAN
      PROVE  [Plain EXCEPT !.ends = b] \in Understanding(line)
  BY <1>1 DEF Plain, Understanding
<1>3. ASSUME NEW i \in 1..Len(line), NEW one \in Understanding(line), NEW two \in Understanding(line)
      PROVE  MeaningStep(line, i, one, two) \in Understanding(line)
  <2> DEFINE name == line[i].opt
             rest == IF name \in TakesValue THEN two ELSE one
             value == IF name \in TakesValue /\ i < Len(line) THEN line[i + 1].word ELSE <<>>
  <2>1. name \in Names
    BY TokenNames
  <2>2. value \in Words(line) /\ line[i].word \in Words(line) /\ <<"joined">> \in Words(line)
    BY DEF Words, IsLine
  <2>3. rest \in Understanding(line)
    BY <1>3
  <2> HIDE DEF rest, value, name
  <2>4. [rest EXCEPT !.cache = value] \in Understanding(line)
    BY <2>2, <2>3 DEF Understanding
  <2>5. [rest EXCEPT !.conf = IF @ = DefaultConf THEN value ELSE @] \in Understanding(line)
    BY <2>2, <2>3 DEF Understanding
  <2>6. [rest EXCEPT !.others = @ \cup {name}] \in Understanding(line)
    BY <2>1, <2>3 DEF Understanding
  <2>7. [rest EXCEPT !.conf = <<"joined">>, !.others = @ \cup {name}] \in Understanding(line)
    BY <2>1, <2>2, <2>3 DEF Understanding
  <2>8. [one EXCEPT !.words = <<line[i].word>> \o @] \in Understanding(line)
    <3>1. one.words \in Seq(Words(line))
      BY DEF Understanding
    <3>2. <<line[i].word>> \o one.words \in Seq(Words(line))
      BY <2>2, <3>1
    <3> QED BY <3>2 DEF Understanding
  <2>9. MeaningStep(line, i, one, two)
          = IF name = "text" THEN [one EXCEPT !.words = <<line[i].word>> \o @]
            ELSE CASE name \in {"--cache-dir", "-c"} ->
                        IF rest.cache = None THEN [rest EXCEPT !.cache = value] ELSE rest
                   [] name = "--config" -> [rest EXCEPT !.conf = IF @ = DefaultConf THEN value ELSE @]
                   [] name = "--config=" -> [rest EXCEPT !.conf = <<"joined">>,
                                                         !.others = @ \cup {name}]
                   [] name \in {"--flag", "--valued"} -> [rest EXCEPT !.others = @ \cup {name}]
                   [] OTHER -> rest
    BY DEF MeaningStep, name, rest, value
  <2> QED BY <2>3, <2>4, <2>5, <2>6, <2>7, <2>8, <2>9
<1> QED BY <1>2, <1>3

IsMeaning(line, M) ==
  /\ M \in [1..(Len(line) + 2) -> Understanding(line)]
  /\ Meaning(line) = M[1]
  /\ M[Len(line) + 1] = [Plain EXCEPT !.ends = TRUE] /\ M[Len(line) + 2] = [Plain EXCEPT !.ends = FALSE]
  /\ \A i \in 1..Len(line) : M[i] = MeaningStep(line, i, M[i + 1], M[i + 2])

LEMMA MeaningUnfolds ==
  ASSUME NEW line, IsLine(line)
  PROVE  \E F : IsMeaning(line, F)
<1> DEFINE n == Len(line)
           first == 1
           Source(G, i) ==
             LET name == line[i].opt IN
             IF i > Len(line) THEN [Plain EXCEPT !.ends = i = Len(line) + 1]
             ELSE IF name = "text" THEN [G[i + 1] EXCEPT !.words = <<line[i].word>> \o @]
             ELSE LET rest == G[IF name \in TakesValue THEN i + 2 ELSE i + 1]
                      value == IF name \in TakesValue /\ i < Len(line) THEN line[i + 1].word ELSE <<>>
                  IN  CASE name \in {"--cache-dir", "-c"} ->
                             IF rest.cache = None THEN [rest EXCEPT !.cache = value] ELSE rest
                        [] name = "--config" -> [rest EXCEPT !.conf = IF @ = DefaultConf THEN value ELSE @]
                        [] name = "--config=" -> [rest EXCEPT !.conf = <<"joined">>,
                                                              !.others = @ \cup {name}]
                        [] name \in {"--flag", "--valued"} -> [rest EXCEPT !.others = @ \cup {name}]
                        [] OTHER -> rest
           C == CHOOSE G : G = [i \in first..(Len(line) + 2) |-> Source(G, i)]
           Types == Understanding(line)
           one == [Plain EXCEPT !.ends = TRUE]
           two == [Plain EXCEPT !.ends = FALSE]
           S == [i \in first..n |-> [ab \in Types \X Types |-> MeaningStep(line, i, ab[1], ab[2])]]
<1>1. n \in Nat /\ first \in Nat /\ first <= n + 1 /\ one \in Types /\ two \in Types
  <2>1. TRUE \in BOOLEAN /\ FALSE \in BOOLEAN
    OBVIOUS
  <2>2. one \in Types /\ two \in Types
    BY <2>1, MeaningTypes, Zenon
  <2> QED BY <2>2 DEF IsLine
<1>2. Meaning(line) = C[first]
  BY DEF Meaning
<1>3. \A G, i : Source(G, i) = IF i > n THEN [Plain EXCEPT !.ends = i = n + 1]
                               ELSE MeaningStep(line, i, G[i + 1], G[i + 2])
  <2> SUFFICES ASSUME NEW G, NEW i
               PROVE  Source(G, i) = IF i > n THEN [Plain EXCEPT !.ends = i = n + 1]
                                     ELSE MeaningStep(line, i, G[i + 1], G[i + 2])
    OBVIOUS
  <2>1. CASE line[i].opt \in TakesValue
    BY <2>1 DEF MeaningStep
  <2>2. CASE line[i].opt \notin TakesValue
    BY <2>2 DEF MeaningStep
  <2> QED BY <2>1, <2>2
<1> HIDE DEF Source
<1>4. \A G : Source(G, n + 1) = one /\ Source(G, n + 2) = two
  <2>1. n + 1 > n /\ n + 2 > n /\ (n + 1 = n + 1) = TRUE /\ (n + 2 = n + 1) = FALSE
    BY <1>1
  <2> QED BY <1>3, <2>1
<1>5. C = [i \in first..(n + 2) |-> Source(C, i)]
  <2>1. S \in [first..n -> [Types \X Types -> Types]]
    BY <1>1, MeaningTypes
  <2> HIDE DEF S, n, first, Types, one, two
  <2>2. PICK F : Computed(first, n, Types, one, two, S, F)
    BY <1>1, <2>1, Recursion, Zenon
  <2> USE DEF S, n, first, Types, one, two
  <2>3. ASSUME NEW i \in first..n
        PROVE  F[i] = MeaningStep(line, i, F[i + 1], F[i + 2])
    <3>1. F[i + 1] \in Types /\ F[i + 2] \in Types
      BY <1>1, <2>2 DEF Computed
    <3> QED BY <2>2, <3>1 DEF Computed
  <2>4. F = [i \in first..(n + 2) |-> Source(F, i)]
    <3>1. F \in [first..(n + 2) -> Types] /\ F[n + 1] = one /\ F[n + 2] = two
      BY <2>2 DEF Computed
    <3>2. ASSUME NEW i \in first..(n + 2)
          PROVE  F[i] = Source(F, i)
      <4>1. (i \in first..n /\ ~(i > n)) \/ i = n + 1 \/ i = n + 2
        BY <1>1
      <4> HIDE DEF one, two, n
      <4> QED BY <4>1, <1>3, <1>4, <2>3, <3>1
    <3> HIDE DEF Types
    <3> QED BY <3>1, <3>2
  <2> QED BY <2>4
<1> HIDE DEF C, S
<1>6. /\ C[n + 1] = one /\ C[n + 2] = two
      /\ \A i \in first..n : C[i] = MeaningStep(line, i, C[i + 1], C[i + 2])
  <2>1. ASSUME NEW i \in first..(n + 2)
        PROVE  C[i] = Source(C, i)
    BY <1>5, <2>1
  <2>2. n + 1 \in first..(n + 2) /\ n + 2 \in first..(n + 2) /\ n + 1 > n /\ n + 2 > n
    BY <1>1
  <2>3. C[n + 1] = Source(C, n + 1) /\ C[n + 2] = Source(C, n + 2)
    BY <2>1, <2>2
  <2>4. ASSUME NEW i \in first..n
        PROVE  C[i] = MeaningStep(line, i, C[i + 1], C[i + 2])
    <3>1. i \in first..(n + 2) /\ ~(i > n)
      BY <1>1
    <3> QED BY <1>3, <2>1, <3>1
  <2> QED BY <1>3, <2>2, <2>3, <2>4, <1>4
<1>7. \A i \in first..n : (C[i + 1] \in Types /\ C[i + 2] \in Types) => C[i] \in Types
  BY <1>1, <1>6, MeaningTypes
<1> HIDE DEF n, first, Types, one, two
<1>8. \A i \in first..(n + 2) : C[i] \in Types
  BY <1>1, <1>6, <1>7, ComputedTypes, Zenon
<1>9. C \in [first..(n + 2) -> Types]
  BY <1>5, <1>8
<1>10. IsMeaning(line, C)
  BY <1>2, <1>6, <1>9, Zenon DEF IsMeaning, n, first, Types, one, two
<1> QED BY <1>10

\* What an option adds to what the engine understands of the rest.
Added(name, m, rest, value) ==
  /\ m.words = rest.words /\ m.ends = rest.ends
  /\ m.cache = IF name \in {"--cache-dir", "-c"} /\ rest.cache = None THEN value ELSE rest.cache
  /\ name \notin {"--config", "--config="} => m.conf = rest.conf
  /\ (name = "--config" /\ value = DefaultConf /\ rest.conf = DefaultConf) => m.conf = DefaultConf
  /\ m.others \subseteq
       rest.others \cup (IF name \in {"--config=", "--flag", "--valued"} THEN {name} ELSE {})

\* What the token i adds.
Adds(line, i, m, one, two) ==
  LET name == line[i].opt
      rest == IF name \in TakesValue THEN two ELSE one
      value == IF name \in TakesValue /\ i < Len(line) THEN line[i + 1].word ELSE <<>>
  IN  /\ name = "text" => /\ m.words = <<line[i].word>> \o one.words /\ m.cache = one.cache
                          /\ m.conf = one.conf /\ m.others = one.others /\ m.ends = one.ends
      /\ name # "text" => Added(name, m, rest, value)

\* A step of Meaning, field by field.
LEMMA MeaningFields ==
  ASSUME NEW line, IsLine(line), NEW i \in 1..Len(line),
         NEW one \in Understanding(line), NEW two \in Understanding(line)
  PROVE  Adds(line, i, MeaningStep(line, i, one, two), one, two)
<1> DEFINE name == line[i].opt
           rest == IF name \in TakesValue THEN two ELSE one
           value == IF name \in TakesValue /\ i < Len(line) THEN line[i + 1].word ELSE <<>>
           m == MeaningStep(line, i, one, two)
<1>1. m = IF name = "text" THEN [one EXCEPT !.words = <<line[i].word>> \o @]
          ELSE CASE name \in {"--cache-dir", "-c"} ->
                      IF rest.cache = None THEN [rest EXCEPT !.cache = value] ELSE rest
                 [] name = "--config" -> [rest EXCEPT !.conf = IF @ = DefaultConf THEN value ELSE @]
                 [] name = "--config=" -> [rest EXCEPT !.conf = <<"joined">>, !.others = @ \cup {name}]
                 [] name \in {"--flag", "--valued"} -> [rest EXCEPT !.others = @ \cup {name}]
                 [] OTHER -> rest
  BY DEF MeaningStep
<1>2. rest \in Understanding(line)
  OBVIOUS
<1> SUFFICES Adds(line, i, m, one, two)
  OBVIOUS
<1>3. Adds(line, i, m, one, two) <=>
        (/\ name = "text" => /\ m.words = <<line[i].word>> \o one.words /\ m.cache = one.cache
                          /\ m.conf = one.conf /\ m.others = one.others /\ m.ends = one.ends
         /\ name # "text" => Added(name, m, rest, value))
  BY DEF Adds, name, rest, value, Added
<1> HIDE DEF name, rest, value, m
<1>4. CASE name = "text"
  <2>1. m = [one EXCEPT !.words = <<line[i].word>> \o @]
    BY <1>1, <1>4
  <2> DEFINE w == <<line[i].word>> \o one.words
  <2> HIDE DEF w
  <2>2. m = [one EXCEPT !.words = w]
    BY <2>1 DEF w
  <2>3. m.words = w /\ m.cache = one.cache /\ m.conf = one.conf /\ m.others = one.others /\ m.ends = one.ends
    BY <2>2 DEF Understanding
  <2> QED BY <1>4, <1>3, <2>3 DEF w
<1>5. CASE name \in {"--cache-dir", "-c"}
  <2>1. m = IF rest.cache = None THEN [rest EXCEPT !.cache = value] ELSE rest
    BY <1>1, <1>5
  <2>2. Added(name, m, rest, value)
    BY <1>2, <1>5, <2>1 DEF Understanding, Added
  <2>3. name # "text"
    BY <1>5
  <2> QED BY <1>3, <2>2, <2>3, Zenon
<1>6. CASE name = "--config"
  <2>1. m = [rest EXCEPT !.conf = IF @ = DefaultConf THEN value ELSE @]
    BY <1>1, <1>6
  <2>2. Added(name, m, rest, value)
    BY <1>2, <1>6, <2>1 DEF Understanding, Added
  <2>3. name # "text"
    BY <1>6
  <2> QED BY <1>3, <2>2, <2>3, Zenon
<1>7. CASE name = "--config="
  <2>1. m = [rest EXCEPT !.conf = <<"joined">>, !.others = @ \cup {name}]
    BY <1>1, <1>7
  <2>2. Added(name, m, rest, value)
    BY <1>2, <1>7, <2>1 DEF Understanding, Added
  <2>3. name # "text"
    BY <1>7
  <2> QED BY <1>3, <2>2, <2>3, Zenon
<1>8. CASE name \in {"--flag", "--valued"}
  <2>1. m = [rest EXCEPT !.others = @ \cup {name}]
    BY <1>1, <1>8
  <2>2. Added(name, m, rest, value)
    BY <1>2, <1>8, <2>1 DEF Understanding, Added
  <2>3. name # "text"
    BY <1>8
  <2> QED BY <1>3, <2>2, <2>3, Zenon
<1>9. CASE name \notin {"text", "--cache-dir", "-c", "--config", "--config=", "--flag", "--valued"}
  <2>1. m = rest
    BY <1>1, <1>9
  <2>2. Added(name, m, rest, value)
    BY <1>2, <1>9, <2>1 DEF Understanding, Added
  <2>3. name # "text"
    BY <1>9
  <2> QED BY <1>3, <2>2, <2>3, Zenon
<1> QED BY <1>4, <1>5, <1>6, <1>7, <1>8, <1>9

LEMMA ReadingFields ==
  ASSUME NEW r \in Preview
  PROVE  /\ \A token : LET w == WithCache(token, r) IN
              /\ w.ok = r.ok /\ w.listed = r.listed /\ w.target = r.target
              /\ w.cache = IF r.cache = None THEN PathOf(token) ELSE r.cache
         /\ \A name : LET l == Listed(name, r) IN
              /\ l.ok = r.ok /\ l.cache = r.cache /\ l.target = r.target
              /\ l.listed = r.listed \cup {name}
  BY DEF Preview, WithCache, Listed

\* The two ends of the line, and a value that is none.
SameCache(m, r) == r.cache = IF m.cache = None THEN None ELSE PathOf(Word(m.cache))

SameOptions(m, r) == /\ SameCache(m, r) /\ m.others \subseteq r.listed
                     /\ m.conf = DefaultConf \/ "--config=" \in r.listed

RcloneAgrees(m, r) == (m.words = <<>> /\ m.ends /\ r.ok) => SameOptions(m, r)

\* What the engine understands from the token i on, in terms of what follows it.
FromToken(line, M, i) ==
  LET name == line[i].opt
      value == line[i + 1].word
  IN  /\ name \in LongOptions \cup {"text"}
      /\ name = "text" => /\ line[i] = Word(line[i].word) /\ line[i].word # None
                          /\ M[i].words = <<line[i].word>> \o M[i + 1].words
                          /\ M[i].cache = M[i + 1].cache /\ M[i].conf = M[i + 1].conf
                          /\ M[i].others = M[i + 1].others /\ M[i].ends = M[i + 1].ends
      /\ name \notin TakesValue \cup {"text"} => Added(name, M[i], M[i + 1], <<>>)
      /\ (name \in TakesValue /\ M[i].ends) =>
           /\ i < Len(line) /\ line[i + 1] = Word(value) /\ value # None
           /\ Added(name, M[i], M[i + 2], value)

\* Where a line that is spelled out ends well, every token adds what it says.
LEMMA MeaningAt ==
  ASSUME NEW line, IsLine(line), Spelled(line), NEW M, IsMeaning(line, M), NEW i \in 1..Len(line)
  PROVE  FromToken(line, M, i)
<1>1. i + 1 \in 1..(Len(line) + 2) /\ i + 2 \in 1..(Len(line) + 2)
  BY DEF IsLine
<1>2. /\ M[i + 1] \in Understanding(line) /\ M[i + 2] \in Understanding(line)
      /\ Adds(line, i, M[i], M[i + 1], M[i + 2])
  BY <1>1, MeaningFields DEF IsMeaning
<1>3. ASSUME NEW j \in 1..Len(line)
      PROVE  /\ line[j].opt \in LongOptions \cup {"text"}
             /\ line[j].opt = "text" => line[j] = Word(line[j].word) /\ line[j].word # None
  <2>1. line[j].opt \in Names /\ line[j].opt \notin ShortOptions
    BY TokenNames DEF Spelled
  <2>2. "text" \notin LongOptions \cup ShortOptions
    BY DEF LongOptions, ShortOptions
  <2> QED BY <2>1, <2>2 DEF Names, IsLine, IsToken
<1>4. line[i].opt \notin {"-c"}
  BY DEF Spelled, ShortOptions
<1>5. i = Len(line) => M[i + 2].ends = FALSE
  BY DEF IsMeaning, Plain
<1>6. (line[i].opt \in TakesValue /\ i < Len(line)) => line[i + 1].opt = "text" /\ i + 1 \in 1..Len(line)
  <2>1. i < Len(line) => i + 1 \in 1..Len(line)
    BY DEF IsLine
  <2> QED BY <2>1 DEF Spelled
<1>7. "text" \notin TakesValue
  BY DEF TakesValue
<1>8. line[i].opt \in TakesValue /\ M[i].ends => i < Len(line)
  <2> SUFFICES ASSUME line[i].opt \in TakesValue, ~(i < Len(line))
               PROVE  ~M[i].ends
    OBVIOUS
  <2>1. i = Len(line)
    BY DEF IsLine
  <2>2. M[i].ends = M[i + 2].ends
    BY <1>2, <1>7 DEF Adds, Added
  <2> QED BY <1>5, <2>1, <2>2, Zenon
<1>9. /\ line[i].opt \in LongOptions \cup {"text"}
      /\ line[i].opt = "text" => line[i] = Word(line[i].word) /\ line[i].word # None
  BY <1>3
<1>10. (line[i].opt \in TakesValue /\ M[i].ends) =>
        line[i + 1] = Word(line[i + 1].word) /\ line[i + 1].word # None
  BY <1>3, <1>6, <1>8
<1>11. line[i].opt \notin TakesValue \cup {"text"} => Added(line[i].opt, M[i], M[i + 1], <<>>)
  BY <1>2 DEF Adds
<1>12. (line[i].opt \in TakesValue /\ i < Len(line)) => Added(line[i].opt, M[i], M[i + 2], line[i + 1].word)
  BY <1>2, <1>7 DEF Adds
<1>13. line[i].opt = "text" => /\ M[i].words = <<line[i].word>> \o M[i + 1].words
                              /\ M[i].cache = M[i + 1].cache /\ M[i].conf = M[i + 1].conf
                              /\ M[i].others = M[i + 1].others /\ M[i].ends = M[i + 1].ends
  BY <1>2 DEF Adds
<1> QED BY <1>8, <1>9, <1>10, <1>11, <1>12, <1>13, Zenon DEF FromToken

-----------------------------------------------------------------------------
(* rclone: both read the same                                              *)

LEMMA PathTypes ==
  ASSUME NEW token
  PROVE  PathOf(token) # None /\ PathOf(Word(token.word)) = PathOf(token)
  BY ImportAssumption DEF PathOf, Word

LEMMA WordFields ==
  ASSUME NEW w
  PROVE  Word(w).word = w /\ Word(w).opt = "text"
  BY DEF Word

LEMMA OneMore ==
  ASSUME NEW S, NEW w \in S, NEW s \in Seq(S)
  PROVE  /\ <<w>> \o s \in Seq(S) /\ Len(<<w>> \o s) = 1 + Len(s) /\ Len(s) \in Nat
         /\ <<w>> \o s # <<>> /\ (<<w>> \o s)[1] = w /\ (Len(s) = 0 <=> s = <<>>)
<1>1. <<w>> \in Seq(S) /\ Len(<<w>>) = 1 /\ <<w>>[1] = w
  OBVIOUS
<1>2. <<w>> \o s \in Seq(S) /\ Len(<<w>> \o s) = 1 + Len(s) /\ Len(s) \in Nat /\ (<<w>> \o s)[1] = w
  BY <1>1, ConcatProperties
<1>3. \A t \in Seq(S) : Len(t) = 0 <=> t = <<>>
  BY EmptySeq
<1> QED BY <1>2, <1>3

\* After a word there is one.
LEMMA WordIsThere ==
  ASSUME NEW line, IsLine(line), Spelled(line), NEW M, IsMeaning(line, M), NEW i \in 1..Len(line),
         line[i].opt = "text"
  PROVE  /\ M[i].words = <<line[i].word>> \o M[i + 1].words /\ M[i].words # <<>>
         /\ line[i].word \in Words(line) /\ M[i + 1].words \in Seq(Words(line))
<1>1. i + 1 \in 1..(Len(line) + 2)
  <2>1. Len(line) \in Nat
    BY DEF IsLine
  <2> QED BY <2>1
<1>2. M[i + 1].words \in Seq(Words(line)) /\ line[i].word \in Words(line)
  BY <1>1 DEF IsMeaning, Understanding, Words
<1>3. M[i].words = <<line[i].word>> \o M[i + 1].words
  <2>1. FromToken(line, M, i)
    BY MeaningAt
  <2> QED BY <2>1 DEF FromToken
<1> QED BY <1>2, <1>3, OneMore

\* A step of the reader, one kind of option at a time.
LEMMA RcloneStepCases ==
  ASSUME NEW line, Len(line) \in Nat, NEW i \in Nat, NEW one, NEW two
  PROVE  LET step == RcloneStep(line, i, one, two)
             name == line[i].opt
         IN  /\ name = "--config" =>
                  step = IF i < Len(line) /\ line[i + 1] = Word(DefaultConf) THEN two ELSE Refused
             /\ (name = "--cache-dir" /\ i < Len(line)) => step = WithCache(line[i + 1], two)
             /\ name = "--tuning" => step = IF HasValue(line, i) THEN two ELSE one
             /\ name \notin {"--config", "--cache-dir", "--tuning", "text"} \cup ShortOptions =>
                  step = Listed(name, IF HasValue(line, i) THEN two ELSE one)
<1> DEFINE step == RcloneStep(line, i, one, two)
           name == line[i].opt
           next == IF HasValue(line, i) THEN two ELSE one
           last == line[i + 1]
           n == Len(line)
<1>1. step = CASE name = "--config" -> IF i < n /\ last = Word(DefaultConf) THEN two ELSE Refused
               [] name = "--cache-dir" /\ i < n -> WithCache(last, two)
               [] name = "--cache-dir" /\ i = n -> Listed("--cache-dir", one)
               [] name = "--tuning" -> next
               [] name = "text" -> Listed("text", one)
               [] name \in ShortOptions -> Listed(name, one)
               [] OTHER -> Listed(name, next)
  BY DEF RcloneStep
<1>2. "--config" \notin ShortOptions /\ "--cache-dir" \notin ShortOptions /\ "--tuning" \notin ShortOptions
  BY DEF ShortOptions
<1>3. i \in Nat /\ n \in Nat
  OBVIOUS
<1> HIDE DEF step, name, next, last, n
<1>4. name = "--config" => step = IF i < n /\ last = Word(DefaultConf) THEN two ELSE Refused
  BY <1>1, <1>2
<1>5. (name = "--cache-dir" /\ i < n) => step = WithCache(last, two)
  <2> SUFFICES ASSUME name = "--cache-dir", i < n PROVE step = WithCache(last, two)
    OBVIOUS
  <2>1. i # n
    BY <1>3
  <2> QED BY <1>1, <1>2, <2>1
<1>6. name = "--tuning" => step = next
  BY <1>1, <1>2
<1>7. name \notin {"--config", "--cache-dir", "--tuning", "text"} \cup ShortOptions => step = Listed(name, next)
  BY <1>1
<1> QED BY <1>4, <1>5, <1>6, <1>7 DEF step, name, next, last, n

\* What the code reads of an option is what the engine understands of it, if both
\* skip the same tokens.
ReadsOption(name, value, r, after) ==
  /\ name \notin ShortOptions
  /\ name = "--cache-dir" => value # None /\ r = WithCache(Word(value), after)
  /\ name \in {"--config=", "--flag", "--valued"} => r = Listed(name, after)
  /\ name # "--cache-dir" => (r = after \/ r = Listed(name, after))

\* An option that both read in the same way keeps them in agreement.
LEMMA OptionCarries ==
  ASSUME NEW name, NEW value, NEW m, NEW rest, NEW r, NEW after \in Preview,
         Added(name, m, rest, value), ReadsOption(name, value, r, after),
         SameCache(rest, after), rest.others \subseteq after.listed
  PROVE  SameCache(m, r) /\ m.others \subseteq r.listed
<1>1. after.listed \subseteq r.listed
  BY ReadingFields DEF ReadsOption
<1>2. SameCache(m, r)
  <2>1. CASE name = "--cache-dir"
    <3>1. r.cache = IF after.cache = None THEN PathOf(Word(value)) ELSE after.cache
      BY <2>1, ReadingFields DEF ReadsOption
    <3>2. m.cache = IF rest.cache = None THEN value ELSE rest.cache
      BY <2>1 DEF Added
    <3>3. PathOf(Word(value)) # None /\ PathOf(Word(rest.cache)) # None /\ value # None
      BY <2>1, PathTypes DEF ReadsOption
    <3> QED BY <2>1, <3>1, <3>2, <3>3 DEF SameCache
  <2>2. CASE name # "--cache-dir"
    <3>1. r.cache = after.cache
      BY <2>2, ReadingFields DEF ReadsOption
    <3>2. m.cache = rest.cache
      BY <2>2 DEF Added, ShortOptions, ReadsOption
    <3> QED BY <3>1, <3>2 DEF SameCache
  <2> QED BY <2>1, <2>2
<1>3. m.others \subseteq r.listed
  <2>1. CASE name \in {"--config=", "--flag", "--valued"}
    <3>1. r.listed = after.listed \cup {name}
      BY <2>1, ReadingFields DEF ReadsOption
    <3> QED BY <2>1, <3>1 DEF Added
  <2>2. CASE name \notin {"--config=", "--flag", "--valued"}
    BY <1>1, <2>2 DEF Added
  <2> QED BY <2>1, <2>2
<1> QED BY <1>2, <1>3

LEMMA OptionFields ==
  ASSUME NEW name, NEW value, NEW r, NEW after \in Preview, ReadsOption(name, value, r, after)
  PROVE  r.ok = after.ok /\ r.target = after.target /\ after.listed \subseteq r.listed
  BY ReadingFields DEF ReadsOption

LEMMA RcloneOption ==
  ASSUME NEW name, NEW value, NEW m, NEW rest, NEW r, NEW after \in Preview,
         Added(name, m, rest, value), RcloneAgrees(rest, after), m.words = <<>>, m.ends = TRUE, r.ok = TRUE,
         ReadsOption(name, value, r, after), name = "--config" => value = DefaultConf
  PROVE  SameOptions(m, r)
<1>1. r.ok = after.ok /\ after.listed \subseteq r.listed
  BY OptionFields
<1>2. rest.words = <<>> /\ rest.ends = TRUE /\ after.ok = TRUE
  BY <1>1 DEF Added
<1>3. SameCache(rest, after) /\ rest.others \subseteq after.listed
      /\ (rest.conf = DefaultConf \/ "--config=" \in after.listed)
  BY <1>2 DEF RcloneAgrees, SameOptions
<1>4. m.conf = DefaultConf \/ "--config=" \in r.listed
  <2>1. CASE name = "--config="
    BY <2>1, ReadingFields DEF ReadsOption
  <2>2. CASE name # "--config="
    BY <1>1, <1>3, <2>2 DEF Added
  <2> QED BY <2>1, <2>2
<1> QED BY <1>3, <1>4, OptionCarries DEF SameOptions

\* Read and understood agree on a token if they do on those after it.
LEMMA RcloneStepAgrees ==
  ASSUME NEW line, IsLine(line), Spelled(line), NEW M, IsMeaning(line, M),
         NEW F, IsRcloneReading(line, F), NEW i \in 3..Len(line),
         RcloneAgrees(M[i + 1], F[i + 1]), RcloneAgrees(M[i + 2], F[i + 2])
  PROVE  RcloneAgrees(M[i], F[i])
<1> SUFFICES ASSUME M[i].words = <<>>, M[i].ends = TRUE, F[i].ok = TRUE
             PROVE  SameOptions(M[i], F[i])
  <2>1. i \in 1..(Len(line) + 2) /\ i \in 3..(Len(line) + 2)
    BY DEF IsLine
  <2>2. M[i].ends \in BOOLEAN /\ F[i].ok \in BOOLEAN
    BY <2>1 DEF IsMeaning, IsRcloneReading, Understanding, Preview
  <2> QED BY <2>2 DEF RcloneAgrees
<1> DEFINE name == line[i].opt
           value == line[i + 1].word
<1>1. /\ Len(line) \in Nat /\ i \in 1..Len(line)
      /\ F[i + 1] \in Preview /\ F[i + 2] \in Preview
      /\ F[i] = RcloneStep(line, i, F[i + 1], F[i + 2])
  BY DEF IsLine, IsRcloneReading
<1>2. FromToken(line, M, i) /\ name # "text" /\ name \in LongOptions
  <2>1. FromToken(line, M, i)
    BY <1>1, MeaningAt
  <2>2. name # "text"
    BY <1>1, WordIsThere
  <2> QED BY <2>1, <2>2 DEF FromToken
\* The same tokens are skipped.
<1>3. ASSUME name \notin TakesValue
      PROVE  Added(name, M[i], M[i + 1], <<>>) /\ ~HasValue(line, i)
  <2>1. Added(name, M[i], M[i + 1], <<>>)
    BY <1>2, <1>3 DEF FromToken
  <2>2. ASSUME HasValue(line, i)
        PROVE  FALSE
    <3>1. i < Len(line) /\ line[i + 1].opt \notin LongOptions /\ i + 1 \in 1..Len(line)
      BY <1>1, <2>2 DEF HasValue
    <3>2. FromToken(line, M, i + 1)
      BY <3>1, MeaningAt
    <3>3. line[i + 1].opt = "text"
      BY <3>1, <3>2 DEF FromToken
    <3>4. M[i + 1].words # <<>>
      BY <3>1, <3>3, WordIsThere
    <3> QED BY <2>1, <3>4 DEF Added
  <2> QED BY <2>1, <2>2
<1>4. ASSUME name \in TakesValue
      PROVE  /\ Added(name, M[i], M[i + 2], value) /\ HasValue(line, i)
             /\ i < Len(line) /\ line[i + 1] = Word(value) /\ value # None
  <2>1. /\ Added(name, M[i], M[i + 2], value)
        /\ i < Len(line) /\ line[i + 1] = Word(value) /\ value # None
    BY <1>2, <1>4, Zenon DEF FromToken
  <2>2. line[i + 1].opt = "text"
    BY <2>1, WordFields
  <2>3. "text" \notin LongOptions
    BY DEF LongOptions
  <2> QED BY <2>1, <2>2, <2>3 DEF HasValue
<1>5. name \notin ShortOptions
  BY <1>1 DEF Spelled
<1>6. /\ name = "--config" =>
           F[i] = IF i < Len(line) /\ line[i + 1] = Word(DefaultConf) THEN F[i + 2] ELSE Refused
      /\ (name = "--cache-dir" /\ i < Len(line)) => F[i] = WithCache(line[i + 1], F[i + 2])
      /\ name = "--tuning" => F[i] = IF HasValue(line, i) THEN F[i + 2] ELSE F[i + 1]
      /\ name \notin {"--config", "--cache-dir", "--tuning", "text"} \cup ShortOptions =>
           F[i] = Listed(name, IF HasValue(line, i) THEN F[i + 2] ELSE F[i + 1])
  BY <1>1, RcloneStepCases
<1>7. Refused.ok = FALSE
  BY DEF Refused, Nothing
<1>8. {"--config", "--cache-dir", "--tuning"} \subseteq TakesValue
  BY DEF TakesValue
<1> HIDE DEF name, value
<1>9. CASE name \notin TakesValue
  <2>1. F[i] = Listed(name, F[i + 1])
    BY <1>2, <1>3, <1>5, <1>6, <1>8, <1>9
  <2>2. ReadsOption(name, <<>>, F[i], F[i + 1])
    BY <1>5, <1>8, <1>9, <2>1 DEF ReadsOption
  <2>3. name = "--config" => <<>> = DefaultConf
    BY <1>8, <1>9
  <2>4. Added(name, M[i], M[i + 1], <<>>) /\ F[i + 1] \in Preview
    BY <1>1, <1>3, <1>9
  <2> QED BY <2>2, <2>3, <2>4, RcloneOption, Zenon
<1>10. CASE name \in TakesValue
  <2>1. name = "--config" => value = DefaultConf /\ F[i] = F[i + 2]
    <3> SUFFICES ASSUME name = "--config"
                 PROVE  value = DefaultConf /\ F[i] = F[i + 2]
      OBVIOUS
    <3>1. line[i + 1] = Word(DefaultConf) /\ F[i] = F[i + 2]
      BY <1>6, <1>7
    <3> QED BY <1>4, <1>10, <3>1, WordFields
  <2>2. name = "--cache-dir" => value # None /\ F[i] = WithCache(Word(value), F[i + 2])
    BY <1>4, <1>6, <1>10
  <2>3. name = "--tuning" => F[i] = F[i + 2]
    BY <1>4, <1>6, <1>10
  <2>4. name \notin {"--config", "--cache-dir", "--tuning"} => F[i] = Listed(name, F[i + 2])
    BY <1>2, <1>4, <1>5, <1>6, <1>10
  <2>5. ReadsOption(name, value, F[i], F[i + 2])
    BY <1>5, <2>1, <2>2, <2>3, <2>4 DEF ReadsOption
  <2>6. Added(name, M[i], M[i + 2], value) /\ F[i + 2] \in Preview
    BY <1>1, <1>4, <1>10
  <2>7. name = "--config" => value = DefaultConf
    BY <2>1
  <2> QED BY <2>5, <2>6, <2>7, RcloneOption, Zenon
<1> QED BY <1>9, <1>10

\* At both ends of the line nothing is left.
LEMMA EndsAgree ==
  ASSUME NEW line, NEW M, IsMeaning(line, M)
  PROVE  /\ M[Len(line) + 1].cache = None /\ M[Len(line) + 1].others = {}
         /\ M[Len(line) + 1].conf = DefaultConf /\ M[Len(line) + 1].words = <<>>
         /\ M[Len(line) + 2].ends = FALSE
         /\ Nothing.cache = None /\ Nothing.target = None
  BY DEF IsMeaning, Plain, Nothing

\* What the code reads is what rclone understands, wherever rclone has no word left.
LEMMA RcloneReads ==
  ASSUME NEW line, IsLine(line), Spelled(line), Len(line) >= 2, NEW M, IsMeaning(line, M),
         NEW F, IsRcloneReading(line, F)
  PROVE  RcloneAgrees(M[3], F[3])
<1> DEFINE first == 3
           last == Len(line) + 2
           Good == {i \in first..last : RcloneAgrees(M[i], F[i])}
<1>1. Len(line) \in Nat /\ first \in Nat /\ last \in Nat /\ first \in first..last
  BY DEF IsLine
<1>2. RcloneAgrees(M[Len(line) + 1], F[Len(line) + 1])
  BY EndsAgree DEF RcloneAgrees, SameOptions, IsRcloneReading, SameCache
<1>3. RcloneAgrees(M[Len(line) + 2], F[Len(line) + 2])
  BY EndsAgree, Zenon DEF RcloneAgrees
<1>4. ASSUME NEW i \in first..last, \A j \in (i + 1)..last : j \in Good
      PROVE  i \in Good
  <2>1. CASE i \in 3..Len(line)
    <3>1. i + 1 \in (i + 1)..last /\ i + 2 \in (i + 1)..last
      BY <1>1, <2>1
    <3>2. RcloneAgrees(M[i + 1], F[i + 1]) /\ RcloneAgrees(M[i + 2], F[i + 2])
      BY <1>4, <3>1
    <3> QED BY <2>1, <3>2, RcloneStepAgrees
  <2>2. CASE i \notin 3..Len(line)
    <3>1. i = Len(line) + 1 \/ i = Len(line) + 2
      BY <1>1, <2>2
    <3> QED BY <1>2, <1>3, <3>1
  <2> QED BY <2>1, <2>2
<1> HIDE DEF Good, first, last
<1>5. \A i \in first..last : i \in Good
  BY <1>1, <1>4, Backwards, Zenon
<1> QED BY <1>1, <1>5 DEF Good, first

-----------------------------------------------------------------------------
(* onedriver: both read the same                                           *)

\* onedriver wants one word: if there is at most one, the target is that word.
OnedriverAgrees(m, r) ==
  (m.ends /\ Len(m.words) <= 1) =>
    /\ SameCache(m, r) /\ m.others \subseteq r.listed
    /\ r.target # None => Len(m.words) = 1 /\ r.target = PathOf(Word(m.words[1]))

\* The same for onedriver.
LEMMA OnedriverStepCases ==
  ASSUME NEW line, Len(line) \in Nat, NEW i \in Nat, NEW one, NEW two
  PROVE  LET step == OnedriverStep(line, i, one, two)
             name == line[i].opt
             next == IF HasValue(line, i) THEN two ELSE one
         IN  /\ (name = "--cache-dir" /\ i < Len(line)) => step = WithCache(line[i + 1], two)
             /\ name \in {"--config-file", "--auth-only"} => step = next
             /\ name \in LongOptions \ {"--cache-dir", "--config-file", "--auth-only"} => step = Listed(name, next)
             /\ name = "text" =>
                  step = IF one.target = None THEN [one EXCEPT !.target = PathOf(line[i])] ELSE one
<1> DEFINE step == OnedriverStep(line, i, one, two)
           name == line[i].opt
           next == IF HasValue(line, i) THEN two ELSE one
           last == line[i + 1]
           n == Len(line)
           target == IF one.target = None THEN [one EXCEPT !.target = PathOf(line[i])] ELSE one
<1>1. step = CASE name = "--cache-dir" /\ i < n -> WithCache(last, two)
               [] name = "--cache-dir" /\ i = n -> Listed("--cache-dir", one)
               [] name \in {"--config-file", "--auth-only"} -> next
               [] name \in LongOptions \ {"--cache-dir", "--config-file", "--auth-only"} -> Listed(name, next)
               [] OTHER -> target
  BY DEF OnedriverStep
<1>2. "text" \notin LongOptions
  BY DEF LongOptions
<1>3. i \in Nat /\ n \in Nat
  OBVIOUS
<1> HIDE DEF step, name, next, last, n, target
<1>4. (name = "--cache-dir" /\ i < n) => step = WithCache(last, two)
  <2> SUFFICES ASSUME name = "--cache-dir", i < n PROVE step = WithCache(last, two)
    OBVIOUS
  <2>1. i # n
    BY <1>3
  <2> QED BY <1>1, <2>1
<1>5. name \in {"--config-file", "--auth-only"} => step = next
  BY <1>1
<1>6. name \in LongOptions \ {"--cache-dir", "--config-file", "--auth-only"} => step = Listed(name, next)
  BY <1>1
<1>7. name = "text" => step = target
  BY <1>1, <1>2
<1> QED BY <1>4, <1>5, <1>6, <1>7 DEF step, name, next, last, n, target

LEMMA OnedriverOption ==
  ASSUME NEW name, NEW value, NEW m, NEW rest, NEW r, NEW after \in Preview,
         Added(name, m, rest, value), OnedriverAgrees(rest, after), ReadsOption(name, value, r, after)
  PROVE  OnedriverAgrees(m, r)
<1> SUFFICES ASSUME m.ends, Len(m.words) <= 1
             PROVE  /\ SameCache(m, r) /\ m.others \subseteq r.listed
                    /\ r.target # None => Len(m.words) = 1 /\ r.target = PathOf(Word(m.words[1]))
  BY DEF OnedriverAgrees
<1>1. rest.words = m.words /\ rest.ends = m.ends
  BY DEF Added
<1>2. /\ SameCache(rest, after) /\ rest.others \subseteq after.listed
      /\ after.target # None => Len(rest.words) = 1 /\ after.target = PathOf(Word(rest.words[1]))
  BY <1>1, Zenon DEF OnedriverAgrees
<1>3. SameCache(m, r) /\ m.others \subseteq r.listed /\ r.target = after.target
  BY <1>2, OptionCarries, OptionFields
<1> QED BY <1>1, <1>2, <1>3

\* The word that the code takes for the value of an option without one.
LEMMA SkippedWord ==
  ASSUME NEW line, IsLine(line), Spelled(line), NEW M, IsMeaning(line, M), NEW i \in 1..Len(line),
         line[i].opt = "text", NEW r, OnedriverAgrees(M[i + 1], r)
  PROVE  OnedriverAgrees(M[i], r)
<1>1. FromToken(line, M, i)
  BY MeaningAt
<1>2. /\ M[i].cache = M[i + 1].cache /\ M[i].others = M[i + 1].others /\ M[i].ends = M[i + 1].ends
      /\ M[i].words = <<line[i].word>> \o M[i + 1].words
  BY <1>1 DEF FromToken
<1>3. line[i].word \in Words(line) /\ M[i + 1].words \in Seq(Words(line))
  BY WordIsThere
<1>4. Len(M[i].words) = 1 + Len(M[i + 1].words) /\ Len(M[i + 1].words) \in Nat
  BY <1>2, <1>3, OneMore
<1> SUFFICES ASSUME M[i].ends, Len(M[i].words) <= 1
             PROVE  /\ SameCache(M[i], r) /\ M[i].others \subseteq r.listed
                    /\ r.target # None => Len(M[i].words) = 1 /\ r.target = PathOf(Word(M[i].words[1]))
  BY DEF OnedriverAgrees
<1>5. Len(M[i + 1].words) = 0 /\ Len(M[i + 1].words) <= 1 /\ Len(M[i + 1].words) # 1
  <2>1. \A a, b : (b \in Nat /\ a = 1 + b /\ a <= 1) => (a = 1 /\ b = 0 /\ b <= 1 /\ b # 1)
    OBVIOUS
  <2>2. Len(M[i].words) <= 1
    OBVIOUS
  <2> QED BY <1>4, <2>1, <2>2, Zenon
<1>6. M[i + 1].ends
  BY <1>2, Zenon
<1>7. SameCache(M[i + 1], r) /\ M[i + 1].others \subseteq r.listed /\ r.target = None
  BY <1>5, <1>6 DEF OnedriverAgrees
<1> QED BY <1>2, <1>7 DEF SameCache

\* A word is the target.
LEMMA OnedriverWord ==
  ASSUME NEW line, IsLine(line), Spelled(line), NEW M, IsMeaning(line, M), NEW i \in 1..Len(line),
         line[i].opt = "text", NEW one \in Preview, OnedriverAgrees(M[i + 1], one), NEW r,
         r = IF one.target = None THEN [one EXCEPT !.target = PathOf(line[i])] ELSE one
  PROVE  OnedriverAgrees(M[i], r)
<1>1. FromToken(line, M, i)
  BY MeaningAt
<1>2. /\ M[i].cache = M[i + 1].cache /\ M[i].others = M[i + 1].others /\ M[i].ends = M[i + 1].ends
      /\ M[i].words = <<line[i].word>> \o M[i + 1].words
  BY <1>1 DEF FromToken
<1>3. line[i].word \in Words(line) /\ M[i + 1].words \in Seq(Words(line))
  BY WordIsThere
<1>4. Len(M[i].words) = 1 + Len(M[i + 1].words) /\ Len(M[i + 1].words) \in Nat
      /\ M[i].words[1] = line[i].word
  BY <1>2, <1>3, OneMore
<1> SUFFICES ASSUME M[i].ends, Len(M[i].words) <= 1
             PROVE  /\ SameCache(M[i], r) /\ M[i].others \subseteq r.listed
                    /\ r.target # None => Len(M[i].words) = 1 /\ r.target = PathOf(Word(M[i].words[1]))
  BY DEF OnedriverAgrees
<1>5. Len(M[i].words) = 1 /\ Len(M[i + 1].words) <= 1 /\ Len(M[i + 1].words) # 1
  <2>1. \A a, b : (b \in Nat /\ a = 1 + b /\ a <= 1) => (a = 1 /\ b = 0 /\ b <= 1 /\ b # 1)
    OBVIOUS
  <2>2. Len(M[i].words) <= 1
    OBVIOUS
  <2> QED BY <1>4, <2>1, <2>2, Zenon
<1>6. M[i + 1].ends
  BY <1>2, Zenon
<1>7. SameCache(M[i + 1], one) /\ M[i + 1].others \subseteq one.listed /\ one.target = None
  BY <1>5, <1>6 DEF OnedriverAgrees
<1>8. r.cache = one.cache /\ r.listed = one.listed /\ r.target = PathOf(line[i])
  BY <1>7 DEF Preview
<1>9. PathOf(Word(line[i].word)) = PathOf(line[i])
  BY PathTypes
<1> QED BY <1>2, <1>4, <1>5, <1>7, <1>8, <1>9 DEF SameCache

\* Read and understood agree on a token if they do on those after it.
LEMMA OnedriverStepAgrees ==
  ASSUME NEW line, IsLine(line), Spelled(line), NEW M, IsMeaning(line, M),
         NEW F, IsOnedriverReading(line, F), NEW i \in 1..Len(line),
         OnedriverAgrees(M[i + 1], F[i + 1]), OnedriverAgrees(M[i + 2], F[i + 2])
  PROVE  OnedriverAgrees(M[i], F[i])
<1> DEFINE name == line[i].opt
           value == line[i + 1].word
           next == IF HasValue(line, i) THEN F[i + 2] ELSE F[i + 1]
<1>1. Len(line) \in Nat /\ i \in Nat
  BY DEF IsLine
<1>2. /\ F[i + 1] \in Preview /\ F[i + 2] \in Preview
      /\ F[i] = OnedriverStep(line, i, F[i + 1], F[i + 2])
  BY <1>1 DEF IsOnedriverReading
<1>3. FromToken(line, M, i)
  BY MeaningAt
<1>4. name \in LongOptions \cup {"text"}
  BY <1>3 DEF FromToken
<1>5. name \notin ShortOptions
  BY DEF Spelled
<1>6. /\ (name = "--cache-dir" /\ i < Len(line)) => F[i] = WithCache(line[i + 1], F[i + 2])
      /\ name \in {"--config-file", "--auth-only"} => F[i] = next
      /\ name \in LongOptions \ {"--cache-dir", "--config-file", "--auth-only"} => F[i] = Listed(name, next)
      /\ name = "text" =>
           F[i] = IF F[i + 1].target = None THEN [F[i + 1] EXCEPT !.target = PathOf(line[i])] ELSE F[i + 1]
  BY <1>1, <1>2, OnedriverStepCases
<1>7. CASE name = "text"
  BY <1>2, <1>6, <1>7, OnedriverWord
<1>8. "--cache-dir" \in TakesValue /\ "text" \notin LongOptions
  BY DEF TakesValue, LongOptions
<1>9. CASE name \notin TakesValue \cup {"text"}
  <2>1. Added(name, M[i], M[i + 1], <<>>)
    BY <1>3, <1>9 DEF FromToken
  <2>2. OnedriverAgrees(M[i + 1], next)
    <3>1. CASE HasValue(line, i)
      <4>1. i + 1 \in 1..Len(line) /\ line[i + 1].opt \notin LongOptions /\ i + 1 + 1 = i + 2
        BY <1>1, <3>1 DEF HasValue
      <4>2. FromToken(line, M, i + 1)
        BY <4>1, MeaningAt
      <4>3. line[i + 1].opt = "text"
        BY <4>1, <4>2 DEF FromToken
      <4> QED BY <3>1, <4>1, <4>3, SkippedWord
    <3>2. CASE ~HasValue(line, i)
      BY <3>2
    <3> QED BY <3>1, <3>2
  <2>3. next \in Preview
    BY <1>2
  <2> HIDE DEF name, next
  <2>4. ReadsOption(name, <<>>, F[i], next)
    BY <1>4, <1>5, <1>6, <1>8, <1>9 DEF ReadsOption
  <2> QED BY <2>1, <2>2, <2>3, <2>4, OnedriverOption
<1>10. CASE name \in TakesValue
  <2>1. M[i].ends => /\ i < Len(line) /\ line[i + 1] = Word(value) /\ value # None
                     /\ Added(name, M[i], M[i + 2], value)
    BY <1>3, <1>10, Zenon DEF FromToken
  <2>2. CASE ~M[i].ends
    BY <2>2, Zenon DEF OnedriverAgrees
  <2>3. CASE M[i].ends
    <3>1. /\ i < Len(line) /\ line[i + 1] = Word(value) /\ value # None
          /\ Added(name, M[i], M[i + 2], value)
      BY <2>1, <2>3, Zenon
    <3>2. line[i + 1].opt = "text"
      BY <3>1, WordFields
    <3>3. HasValue(line, i)
      BY <1>8, <3>1, <3>2 DEF HasValue
    <3>4. next = F[i + 2] /\ "text" \notin TakesValue
      BY <3>3 DEF TakesValue
    <3> HIDE DEF name, next, value
    <3>5. ReadsOption(name, value, F[i], F[i + 2])
      BY <1>4, <1>5, <1>6, <1>10, <3>1, <3>4 DEF ReadsOption
    <3> QED BY <1>2, <3>1, <3>5, OnedriverOption
  <2> QED BY <2>2, <2>3, Zenon
<1> QED BY <1>7, <1>9, <1>10

\* What the code reads is what onedriver understands, from every token on.
LEMMA OnedriverReads ==
  ASSUME NEW line, IsLine(line), Spelled(line), NEW M, IsMeaning(line, M),
         NEW F, IsOnedriverReading(line, F)
  PROVE  OnedriverAgrees(M[1], F[1])
<1> DEFINE first == 1
           last == Len(line) + 2
           Good == {i \in first..last : OnedriverAgrees(M[i], F[i])}
<1>1. Len(line) \in Nat /\ first \in Nat /\ last \in Nat /\ first \in first..last
  BY DEF IsLine
<1>2. OnedriverAgrees(M[Len(line) + 1], F[Len(line) + 1])
  BY EndsAgree DEF OnedriverAgrees, IsOnedriverReading, SameCache
<1>3. OnedriverAgrees(M[Len(line) + 2], F[Len(line) + 2])
  BY EndsAgree, Zenon DEF OnedriverAgrees
<1>4. ASSUME NEW i \in first..last, \A j \in (i + 1)..last : j \in Good
      PROVE  i \in Good
  <2>1. CASE i \in 1..Len(line)
    <3>1. i + 1 \in (i + 1)..last /\ i + 2 \in (i + 1)..last
      BY <1>1, <2>1
    <3>2. OnedriverAgrees(M[i + 1], F[i + 1]) /\ OnedriverAgrees(M[i + 2], F[i + 2])
      BY <1>4, <3>1
    <3> QED BY <2>1, <3>2, OnedriverStepAgrees
  <2>2. CASE i \notin 1..Len(line)
    <3>1. i = Len(line) + 1 \/ i = Len(line) + 2
      BY <1>1, <2>2
    <3> QED BY <1>2, <1>3, <3>1
  <2> QED BY <2>1, <2>2
<1> HIDE DEF Good, first, last
<1>5. \A i \in first..last : i \in Good
  BY <1>1, <1>4, Backwards, Zenon
<1> QED BY <1>1, <1>5 DEF Good, first

-----------------------------------------------------------------------------
(* The replacement, and the offer                                          *)

LEMMA MeaningAdds ==
  ASSUME NEW line, IsLine(line), NEW M, IsMeaning(line, M), NEW i \in 1..Len(line)
  PROVE  Adds(line, i, M[i], M[i + 1], M[i + 2])
<1>1. i + 1 \in 1..(Len(line) + 2) /\ i + 2 \in 1..(Len(line) + 2)
  BY DEF IsLine
<1>2. /\ M[i + 1] \in Understanding(line) /\ M[i + 2] \in Understanding(line)
      /\ M[i] = MeaningStep(line, i, M[i + 1], M[i + 2])
  BY <1>1 DEF IsMeaning
<1> QED BY <1>2, MeaningFields

LEMMA OptionFieldsOf ==
  ASSUME NEW name
  PROVE  Option(name).opt = name /\ Option(name).word = <<>>
  BY DEF Option

\* What the engines understand of the command line of the managed units.
RcloneLine(remote, local, cache) ==
  <<Word(remote), Word(local), Option("--tuning"), Word(<<"value">>), Option("--cache-dir"), Word(cache)>>

OnedriverLine(local, cache) ==
  <<Option("--config-file"), Word(<<"value">>), Option("--cache-dir"), Word(cache), Word(local)>>

\* The unit the applet writes for rclone: its two words, and its cache.
LEMMA RcloneReplacement ==
  ASSUME NEW remote, NEW local, NEW cache, remote # None, local # None, cache # None
  PROVE  /\ Meaning(RcloneLine(remote, local, cache)).words = <<remote>> \o (<<local>> \o <<>>)
         /\ Meaning(RcloneLine(remote, local, cache)).cache = cache
<1> DEFINE line == RcloneLine(remote, local, cache)
<1>1. /\ Len(line) = 6 /\ line[1] = Word(remote) /\ line[2] = Word(local) /\ line[3] = Option("--tuning")
      /\ line[4] = Word(<<"value">>) /\ line[5] = Option("--cache-dir") /\ line[6] = Word(cache)
  BY DEF RcloneLine
<1> HIDE DEF line
<1>2. /\ line[1].opt = "text" /\ line[1].word = remote /\ line[2].opt = "text" /\ line[2].word = local
      /\ line[3].opt = "--tuning" /\ line[5].opt = "--cache-dir" /\ line[6].word = cache
  BY <1>1, WordFields, OptionFieldsOf
<1>3. IsLine(line)
  <2>1. ASSUME NEW i \in 1..6
        PROVE  IsToken(line[i])
    <3>1. \A w : w # None => IsToken(Word(w))
      BY WordFields DEF IsToken
    <3>2. \A name \in LongOptions : IsToken(Option(name))
      BY OptionFieldsOf DEF IsToken
    <3>3. <<"value">> # None /\ "--tuning" \in LongOptions /\ "--cache-dir" \in LongOptions
      BY ImportAssumption DEF LongOptions
    <3>4. i \in {1, 2, 3, 4, 5, 6}
      OBVIOUS
    <3> QED BY <1>1, <3>1, <3>2, <3>3, <3>4
  <2> QED BY <1>1, <2>1 DEF IsLine
<1>4. PICK M : IsMeaning(line, M)
  BY <1>3, MeaningUnfolds
<1>5. M[7].words = <<>> /\ M[7].cache = None
  <2>1. M[Len(line) + 1].words = <<>> /\ M[Len(line) + 1].cache = None
    BY <1>4, EndsAgree
  <2> QED BY <1>1, <2>1
<1>6. "--tuning" \in TakesValue /\ "--cache-dir" \in TakesValue /\ "text" \notin TakesValue
  BY DEF TakesValue
<1>7. /\ Adds(line, 5, M[5], M[6], M[7]) /\ Adds(line, 3, M[3], M[4], M[5])
      /\ Adds(line, 2, M[2], M[3], M[4]) /\ Adds(line, 1, M[1], M[2], M[3])
  <2>1. 5 + 1 = 6 /\ 5 + 2 = 7 /\ 3 + 1 = 4 /\ 3 + 2 = 5 /\ 2 + 1 = 3 /\ 2 + 2 = 4 /\ 1 + 1 = 2 /\ 1 + 2 = 3
    OBVIOUS
  <2>2. 5 \in 1..Len(line) /\ 3 \in 1..Len(line) /\ 2 \in 1..Len(line) /\ 1 \in 1..Len(line)
    BY <1>1
  <2> QED BY <1>3, <1>4, <2>1, <2>2, MeaningAdds
<1>8. M[5].words = <<>> /\ M[5].cache = cache
  BY <1>1, <1>2, <1>5, <1>6, <1>7 DEF Adds, Added
<1>9. M[3].words = <<>> /\ M[3].cache = cache
  BY <1>1, <1>2, <1>6, <1>7, <1>8 DEF Adds, Added
<1>10. M[2].words = <<local>> \o <<>> /\ M[2].cache = cache
  BY <1>2, <1>7, <1>9 DEF Adds
<1>11. M[1].words = <<remote>> \o M[2].words /\ M[1].cache = cache
  BY <1>2, <1>7, <1>10 DEF Adds
<1> QED BY <1>4, <1>10, <1>11 DEF IsMeaning, line

\* The unit the applet writes for onedriver.
LEMMA OnedriverReplacement ==
  ASSUME NEW local, NEW cache, local # None, cache # None
  PROVE  /\ Meaning(OnedriverLine(local, cache)).words = <<local>> \o <<>>
         /\ Meaning(OnedriverLine(local, cache)).cache = cache
<1> DEFINE line == OnedriverLine(local, cache)
<1>1. /\ Len(line) = 5 /\ line[1] = Option("--config-file") /\ line[2] = Word(<<"value">>)
      /\ line[3] = Option("--cache-dir") /\ line[4] = Word(cache) /\ line[5] = Word(local)
  BY DEF OnedriverLine
<1> HIDE DEF line
<1>2. /\ line[1].opt = "--config-file" /\ line[3].opt = "--cache-dir" /\ line[4].word = cache
      /\ line[5].opt = "text" /\ line[5].word = local
  BY <1>1, WordFields, OptionFieldsOf
<1>3. IsLine(line)
  <2>1. ASSUME NEW i \in 1..5
        PROVE  IsToken(line[i])
    <3>1. \A w : w # None => IsToken(Word(w))
      BY WordFields DEF IsToken
    <3>2. \A name \in LongOptions : IsToken(Option(name))
      BY OptionFieldsOf DEF IsToken
    <3>3. <<"value">> # None /\ "--config-file" \in LongOptions /\ "--cache-dir" \in LongOptions
      BY ImportAssumption DEF LongOptions
    <3>4. i \in {1, 2, 3, 4, 5}
      OBVIOUS
    <3> QED BY <1>1, <3>1, <3>2, <3>3, <3>4
  <2> QED BY <1>1, <2>1 DEF IsLine
<1>4. PICK M : IsMeaning(line, M)
  BY <1>3, MeaningUnfolds
<1>5. M[6].words = <<>> /\ M[6].cache = None
  <2>1. M[Len(line) + 1].words = <<>> /\ M[Len(line) + 1].cache = None
    BY <1>4, EndsAgree
  <2> QED BY <1>1, <2>1
<1>6. "--config-file" \in TakesValue /\ "--cache-dir" \in TakesValue /\ "text" \notin TakesValue
  BY DEF TakesValue
<1>7. Adds(line, 5, M[5], M[6], M[7]) /\ Adds(line, 3, M[3], M[4], M[5]) /\ Adds(line, 1, M[1], M[2], M[3])
  <2>1. 5 + 1 = 6 /\ 5 + 2 = 7 /\ 3 + 1 = 4 /\ 3 + 2 = 5 /\ 1 + 1 = 2 /\ 1 + 2 = 3
    OBVIOUS
  <2>2. 5 \in 1..Len(line) /\ 3 \in 1..Len(line) /\ 1 \in 1..Len(line)
    BY <1>1
  <2> QED BY <1>3, <1>4, <2>1, <2>2, MeaningAdds
<1>8. M[5].words = <<local>> \o <<>> /\ M[5].cache = None
  BY <1>2, <1>5, <1>7 DEF Adds
<1>9. M[3].words = M[5].words /\ M[3].cache = cache
  BY <1>1, <1>2, <1>6, <1>7, <1>8 DEF Adds, Added
<1>10. M[1].words = M[3].words /\ M[1].cache = cache
  BY <1>1, <1>2, <1>6, <1>7, <1>9 DEF Adds, Added
<1> QED BY <1>4, <1>8, <1>9, <1>10 DEF IsMeaning, line

LEMMA PathOfWord ==
  ASSUME NEW token, PathOf(token) \in Paths
  PROVE  token.word \in Paths /\ PathOf(token) = token.word
  BY ImportAssumption DEF PathOf

LEMMA SamePath ==
  ASSUME NEW m, NEW r, SameCache(m, r), m.cache \in Paths \cup {None}
  PROVE  r.cache = m.cache
  BY WordFields DEF SameCache, PathOf

\* The offer of a service of rclone.
LEMMA RcloneFaithful ==
  ASSUME NEW line, IsLine(line), Spelled(line), Starts("rclone", line),
         Offer("rclone", line) # None, Offer("rclone", line).local \in Paths
  PROVE  Faithful("rclone", line, Offer("rclone", line))
<1> DEFINE offer == Offer("rclone", line)
           read == ReadRclone(line)
<1>1. /\ Len(line) >= 2 /\ line[1].word \in DOMAIN Backends /\ read.ok
      /\ offer = [engine |-> "rclone", remote |-> line[1].word, local |-> PathOf(line[2]),
                  cache |-> read.cache, listed |-> read.listed]
  BY DEF Offer, IsLine
<1> HIDE DEF read, offer
<1>2. /\ offer.engine = "rclone" /\ offer.remote = line[1].word /\ offer.local = PathOf(line[2])
      /\ offer.cache = read.cache /\ offer.listed = read.listed
  BY <1>1
<1>3. offer.local = line[2].word /\ line[2].word \in Paths
  BY <1>2, PathOfWord DEF offer
<1>4. 1 \in 1..Len(line) /\ 2 \in 1..Len(line) /\ 1 + 1 = 2 /\ 2 + 1 = 3
  BY <1>1 DEF IsLine
<1>5. line[1].opt = "text" /\ line[1].word # None /\ line[2].opt = "text"
  <2>1. \A i \in 1..Len(line) : line[i].word # <<>> => line[i].opt = "text" /\ line[i].word # None
    BY WordFields, OptionFieldsOf DEF IsLine, IsToken
  <2> QED BY <1>1, <1>3, <1>4, <2>1, ImportAssumption DEF Relative
<1>6. PICK M : IsMeaning(line, M)
  BY MeaningUnfolds
<1>7. PICK F : IsRcloneReading(line, F)
  BY <1>1, RcloneReading
<1>8. RcloneAgrees(M[3], F[3]) /\ read = F[3]
  BY <1>1, <1>6, <1>7, RcloneReads DEF IsRcloneReading, read
<1>9. Meaning(line) = M[1] /\ M[1].ends /\ M[1].cache \in Paths \cup {None} /\ Len(M[1].words) = 2
  BY <1>6 DEF Starts, IsMeaning
<1>10. /\ M[1].words = <<line[1].word>> \o M[2].words /\ M[1].cache = M[2].cache /\ M[1].conf = M[2].conf
       /\ M[1].others = M[2].others /\ M[1].ends = M[2].ends
  <2>1. FromToken(line, M, 1)
    BY <1>4, <1>6, MeaningAt
  <2> QED BY <1>4, <1>5, <2>1 DEF FromToken
<1>11. /\ M[2].words = <<line[2].word>> \o M[3].words /\ M[2].cache = M[3].cache /\ M[2].conf = M[3].conf
       /\ M[2].others = M[3].others /\ M[2].ends = M[3].ends
  <2>1. FromToken(line, M, 2)
    BY <1>4, <1>6, MeaningAt
  <2> QED BY <1>4, <1>5, <2>1 DEF FromToken
<1>12. M[3].words = <<>>
  <2>1. /\ line[1].word \in Words(line) /\ M[2].words \in Seq(Words(line))
        /\ line[2].word \in Words(line) /\ M[3].words \in Seq(Words(line))
    BY <1>4, <1>5, <1>6, WordIsThere
  <2>2. Len(M[1].words) = 1 + Len(M[2].words) /\ Len(M[2].words) = 1 + Len(M[3].words)
        /\ Len(M[3].words) \in Nat /\ (Len(M[3].words) = 0 <=> M[3].words = <<>>)
    BY <1>10, <1>11, <2>1, OneMore
  <2>3. \A a, b, c : (c \in Nat /\ b = 1 + c /\ a = 1 + b /\ a = 2) => c = 0
    OBVIOUS
  <2> QED BY <1>9, <2>2, <2>3, Zenon
<1>13. M[3].ends
  BY <1>9, <1>10, <1>11, Zenon
<1>14. SameOptions(M[3], read)
  BY <1>1, <1>8, <1>12, <1>13, Zenon DEF RcloneAgrees
<1>15. read.cache = M[3].cache /\ M[3].cache \in Paths \cup {None}
  BY <1>9, <1>10, <1>11, <1>14, SamePath DEF SameOptions
<1> DEFINE cache == IF offer.cache = None THEN <<"default">> ELSE offer.cache
           new == Meaning(Replacement(offer, <<"default">>))
<1>16. cache # None /\ cache = IF M[1].cache = None THEN <<"default">> ELSE M[1].cache
  BY <1>2, <1>10, <1>11, <1>15, ImportAssumption
<1>17. new.words = <<offer.remote>> \o (<<offer.local>> \o <<>>) /\ new.cache = cache
  <2>1. Replacement(offer, <<"default">>) = RcloneLine(offer.remote, offer.local, cache)
    BY <1>2 DEF Replacement, RcloneLine
  <2>2. offer.remote # None /\ offer.local # None /\ cache # None
    BY <1>2, <1>3, <1>5, <1>16, ImportAssumption
  <2> HIDE DEF cache
  <2> DEFINE written == RcloneLine(offer.remote, offer.local, cache)
  <2>3. /\ Meaning(written).words = <<offer.remote>> \o (<<offer.local>> \o <<>>)
        /\ Meaning(written).cache = cache
    <3> HIDE DEF offer
    <3> QED BY <2>2, RcloneReplacement, Zenon
  <2> HIDE DEF written
  <2> QED BY <2>1, <2>3, Zenon DEF written, new
<1>18. new.words = M[1].words
  BY <1>2, <1>3, <1>10, <1>11, <1>12, <1>17
<1>19. M[1].conf = DefaultConf \/ "--config=" \in offer.listed
  BY <1>2, <1>10, <1>11, <1>14 DEF SameOptions
<1>20. M[1].others \subseteq offer.listed
  BY <1>2, <1>10, <1>11, <1>14 DEF SameOptions
<1> HIDE DEF cache, new
<1> QED BY <1>9, <1>16, <1>17, <1>18, <1>19, <1>20 DEF Faithful, new, offer

\* The offer of a service of onedriver.
LEMMA OnedriverFaithful ==
  ASSUME NEW line, IsLine(line), Spelled(line), Starts("onedriver", line),
         Offer("onedriver", line) # None, Offer("onedriver", line).local \in Paths
  PROVE  Faithful("onedriver", line, Offer("onedriver", line))
<1> DEFINE offer == Offer("onedriver", line)
           read == ReadOnedriver(line)
<1>1. /\ read.target # None
      /\ offer = [engine |-> "onedriver", remote |-> "onedrive", local |-> read.target,
                  cache |-> read.cache, listed |-> read.listed]
  BY DEF Offer
<1> HIDE DEF read, offer
<1>2. /\ offer.engine = "onedriver" /\ offer.local = read.target /\ offer.local \in Paths
      /\ offer.cache = read.cache /\ offer.listed = read.listed
  BY <1>1 DEF offer
<1>3. PICK M : IsMeaning(line, M)
  BY MeaningUnfolds
<1>4. PICK F : IsOnedriverReading(line, F)
  BY OnedriverReading
<1>5. OnedriverAgrees(M[1], F[1]) /\ read = F[1]
  BY <1>3, <1>4, OnedriverReads DEF IsOnedriverReading, read
<1>6. /\ Meaning(line) = M[1] /\ M[1].ends /\ M[1].cache \in Paths \cup {None}
      /\ Len(M[1].words) = 1 /\ M[1].words[1] \in Paths
  BY <1>3 DEF Starts, IsMeaning
<1>7. SameCache(M[1], read) /\ M[1].others \subseteq read.listed /\ read.target = PathOf(Word(M[1].words[1]))
  <2>1. Len(M[1].words) <= 1
    BY <1>6
  <2> QED BY <1>1, <1>5, <1>6, <2>1, Zenon DEF OnedriverAgrees
<1>8. read.cache = M[1].cache /\ read.target = M[1].words[1]
  BY <1>6, <1>7, SamePath, WordFields DEF PathOf
<1>9. M[1].words = <<offer.local>> \o <<>>
  <2>1. M[1].words \in Seq(Words(line))
    <3>1. 1 \in 1..(Len(line) + 2)
      BY DEF IsLine
    <3> QED BY <1>3, <3>1 DEF IsMeaning, Understanding
  <2>2. <<offer.local>> \o <<>> = <<offer.local>>
    OBVIOUS
  <2> QED BY <1>2, <1>6, <1>8, <2>1, <2>2
<1> DEFINE cache == IF offer.cache = None THEN <<"default">> ELSE offer.cache
           new == Meaning(Replacement(offer, <<"default">>))
<1>10. cache # None /\ cache = IF M[1].cache = None THEN <<"default">> ELSE M[1].cache
  BY <1>2, <1>8, ImportAssumption
<1>11. new.words = <<offer.local>> \o <<>> /\ new.cache = cache
  <2>1. Replacement(offer, <<"default">>) = OnedriverLine(offer.local, cache)
    BY <1>2 DEF Replacement, OnedriverLine
  <2>2. offer.local # None /\ cache # None
    BY <1>2, <1>10, ImportAssumption
  <2> HIDE DEF cache
  <2> QED BY <2>1, <2>2, OnedriverReplacement
<1>12. M[1].others \subseteq offer.listed
  BY <1>2, <1>7
<1> HIDE DEF cache, new
<1> QED BY <1>6, <1>9, <1>10, <1>11, <1>12 DEF Faithful, new, offer

\* Whatever the lines are: an offer whose paths are valid is true.
LEMMA OffersAreTrue ==
  ASSUME NEW l \in Lines, Offer(l[1], l[2]) # None, Offer(l[1], l[2]).local \in Paths
  PROVE  True(l, Offer(l[1], l[2]))
<1>1. l[1] \in {"rclone", "onedriver"} /\ IsLine(l[2])
  BY LinesAssumption DEF IsLine
<1>2. CASE l[1] = "rclone"
  BY <1>1, <1>2, RcloneFaithful DEF True
<1>3. CASE l[1] = "onedriver"
  BY <1>1, <1>3, OnedriverFaithful DEF True
<1> QED BY <1>1, <1>2, <1>3

-----------------------------------------------------------------------------
(* The import: the inductive invariant                                     *)

Process == [cached : Document, copy : Document, op : Operation,
            step : {"idle", "migrate", "write", "rename"}, stale : BOOLEAN]

\* What load_runtime_config returns is in the file or made up.
LEMMA LoadedFrom ==
  ASSUME NEW d
  PROVE  \/ LoadedConfig(d) \in {Empty, Migrated}
         \/ LoadedConfig(d) = d /\ d \notin {Absent, Garbage}
<1>1. CASE Readable(d)
  BY <1>1 DEF LoadedConfig, Readable
<1>2. CASE ~Readable(d)
  BY <1>2 DEF LoadedConfig
<1> QED BY <1>1, <1>2

\* Connections of T only, if those of the document and of the operation are.
LEMMA UpdateWithin ==
  ASSUME NEW T, T \subseteq Connection,
         \A x \in T, on \in BOOLEAN : [x EXCEPT !.login = on] \in T,
         NEW doc \in Document, doc.conns \in Seq(T),
         NEW op \in Operation, op.kind \notin {"none", "Refresh"},
         op.kind \in {"Save", "Import"} => op.conn \in T
  PROVE  Update(op, doc) \in Document /\ Update(op, doc).conns \in Seq(T)
<1> DEFINE s == doc.conns
<1>1. \A t : t \in Seq(T) => t \in Seq(Connection)
  OBVIOUS
<1>2. ASSUME NEW t \in Seq(T)
      PROVE  [doc EXCEPT !.conns = t] \in Document /\ [doc EXCEPT !.conns = t].conns = t
  BY <1>1 DEF Document
<1>3. Len(s) \in Nat /\ \A i \in 1..Len(s) : s[i] \in T
  OBVIOUS
<1>4. \A c \in T : Append(s, c) \in Seq(T)
  OBVIOUS
<1>5. CASE op.kind = "Save"
  <2>1. op.conn \in T
    BY <1>5
  <2> DEFINE f == [i \in 1..Len(s) |-> IF s[i].id = op.conn.id THEN op.conn ELSE s[i]]
  <2>2. f \in Seq(T)
    BY <1>3, <2>1
  <2>3. Update(op, doc) = [doc EXCEPT !.conns = f] \/ Update(op, doc) = [doc EXCEPT !.conns = Append(s, op.conn)]
    BY <1>5 DEF Update, Saved, Changed, With
  <2> HIDE DEF f, s
  <2> QED BY <1>2, <1>4, <2>1, <2>2, <2>3
<1>6. CASE op.kind = "Import"
  <2>1. op.conn \in T
    BY <1>6
  <2>2. Update(op, doc) = doc \/ Update(op, doc) = [doc EXCEPT !.conns = Append(s, op.conn)]
    BY <1>6 DEF Update, Imported, With
  <2> HIDE DEF s
  <2> QED BY <1>2, <1>4, <2>1, <2>2
<1>7. CASE op.kind = "Remove"
  <2>1. CASE ~Has(doc, op.conn.id)
    BY <1>7, <2>1 DEF Update, Without
  <2>2. CASE Has(doc, op.conn.id)
    <3> DEFINE k == CHOOSE i \in 1..Len(s) : s[i].id = op.conn.id
    <3>1. k \in 1..Len(s)
      BY <2>2 DEF Has
    <3>2. Update(op, doc) = [doc EXCEPT !.conns = RemoveAt(s, k)]
      BY <1>7, <2>2 DEF Update, Without
    <3> HIDE DEF k
    <3>3. SubSeq(s, 1, k - 1) \in Seq(T) /\ SubSeq(s, k + 1, Len(s)) \in Seq(T)
      BY <1>3, <3>1
    <3>4. RemoveAt(s, k) \in Seq(T)
      BY <3>3 DEF RemoveAt
    <3> HIDE DEF s
    <3> QED BY <1>2, <3>2, <3>4
  <2> QED BY <2>1, <2>2
<1>8. CASE op.kind = "Popup"
  <2>1. op.on \in BOOLEAN
    BY <1>8 DEF Operation
  <2> DEFINE f == [i \in 1..Len(s) |-> IF s[i].id = op.id THEN [s[i] EXCEPT !.login = op.on] ELSE s[i]]
  <2>2. f \in Seq(T)
    BY <1>3, <2>1
  <2>3. Update(op, doc) = [doc EXCEPT !.conns = f]
    BY <1>8 DEF Update, Switched
  <2> HIDE DEF f, s
  <2> QED BY <1>2, <2>2, <2>3
<1>9. CASE op.kind = "Reorder"
  <2>1. Reverse(s) \in Seq(T)
    BY <1>3 DEF Reverse
  <2>2. Update(op, doc) = [doc EXCEPT !.conns = Reverse(s)]
    BY <1>9 DEF Update, Reordered
  <2> HIDE DEF s
  <2> QED BY <1>2, <2>1, <2>2
<1>10. CASE op.kind = "Pref"
  <2>1. op.on \in BOOLEAN
    BY <1>10 DEF Operation
  <2>2. Update(op, doc) = [doc EXCEPT !.pref = op.on]
    BY <1>10 DEF Update
  <2> QED BY <2>1, <2>2 DEF Document
<1>11. CASE op.kind = "Vpn"
  <2>1. op.profile = "detected"
    BY <1>11 DEF Operation
  <2>2. Update(op, doc) = [doc EXCEPT !.vpns = @ \cup {op.profile}]
    BY <1>11 DEF Update
  <2> QED BY <2>1, <2>2 DEF Document
<1>12. op.kind \in {"Save", "Import", "Remove", "Popup", "Reorder", "Pref", "Vpn"}
  BY DEF Operation
<1> QED BY <1>5, <1>6, <1>7, <1>8, <1>9, <1>10, <1>11, <1>12

LEMMA UpdateTypes ==
  ASSUME NEW doc \in Document, NEW op \in Operation, op.kind \notin {"none", "Refresh"}
  PROVE  Update(op, doc) \in Document
<1>1. \A x \in Connection, on \in BOOLEAN : [x EXCEPT !.login = on] \in Connection
  BY DEF Connection
<1>2. doc.conns \in Seq(Connection)
  BY DEF Document
<1>3. op.kind \in {"Save", "Import"} => op.conn \in Connection
  BY DEF Operation
<1> QED BY <1>1, <1>2, <1>3, UpdateWithin

\* Documents with connections of T only, and the states that hold no other document.
Within(T) == {d \in Document : d.conns \in Seq(T)}

AllWithin(T) ==
  /\ disk \in Within(T) \cup {Absent, Garbage} /\ tmp \in Within(T) \cup {None, Garbage}
  /\ \A q \in Processes : proc[q].cached \in Within(T) /\ proc[q].copy \in Within(T)

\* What a process works on: an import stores the connection of its preview.
Occupied(r, offer) ==
  /\ r.step = "idle" <=> r.op.kind = "none"
  /\ r.op.kind = "Refresh" => r.step = "migrate"
  /\ r.op.kind = "Save" => r.op.conn \in Drafts
  /\ r.op.kind = "Import" => offer # None /\ r.op.conn = offer.conn

\* A connection with the id of c is at the same place (the popup only switches its login).
Alike(c) ==
  {x \in Connection : x.id = c.id => x.local = c.local /\ x.side = c.side /\ x.kind = c.kind}

\* An offer whose paths are valid is true; its id is of its own, so that a connection
\* found under it is what an earlier import of the same preview stored.
OfferInv(p) ==
  offers[p] # None =>
    /\ OwnPathsValid(offers[p].conn) => offers[p].true
    /\ AllWithin(Alike(offers[p].conn))
    /\ \A d \in Drafts : d.id # offers[p].conn.id
    /\ \A q \in Processes \ {p} : offers[q] # None => offers[q].conn.id # offers[p].conn.id

ImportInv == TypeOK /\ \A p \in Processes : Occupied(proc[p], offers[p]) /\ OfferInv(p)

\* The documents an action of p can take up.
Sources(p) ==
  {Empty, Migrated, proc[p].cached, proc[p].copy, LoadedConfig(disk)}
  \cup (IF proc[p].step \in {"write", "rename"} THEN {New(p)} ELSE {})

Results(p) ==
  {r \in Process : r.cached \in Sources(p) /\ r.copy \in Sources(p) /\ Occupied(r, offers[p])}

\* What every action of p but Scan does.
Moves(p) ==
  /\ proc' \in [Processes -> Process] /\ proc'[p] \in Results(p)
  /\ \A q \in Processes \ {p} : /\ proc'[q].cached = proc[q].cached /\ proc'[q].copy = proc[q].copy
                                /\ proc'[q].op = proc[q].op /\ proc'[q].step = proc[q].step
  /\ disk' \in {disk} \cup ({tmp} \ {None}) \cup Sources(p) /\ tmp' \in {tmp, None, Garbage} \cup Sources(p)
  /\ UNCHANGED <<sandboxed, legacy, offers>> /\ ops' \in 0..MaxOps

LEMMA WithinConnection == Within(Connection) = Document
  BY DEF Within, Document

\* Nothing else comes from an action if nothing else is held.
LEMMA SourcesWithin ==
  ASSUME TypeOK, NEW p \in Processes, Occupied(proc[p], offers[p]),
         NEW T, T \subseteq Connection, AllWithin(T),
         \A x \in T, on \in BOOLEAN : [x EXCEPT !.login = on] \in T,
         proc[p].op.kind \in {"Save", "Import"} => proc[p].op.conn \in T
  PROVE  Sources(p) \subseteq Within(T)
<1>1. <<>> \in Seq(T)
  OBVIOUS
<1>2. Empty \in Within(T) /\ Migrated \in Within(T)
  BY <1>1, DocumentTypes DEF Within, Empty, Migrated
<1>3. proc[p].cached \in Within(T) /\ proc[p].copy \in Within(T)
  BY DEF AllWithin
<1>4. LoadedConfig(disk) \in Within(T)
  BY <1>2, LoadedFrom DEF AllWithin
<1>5. ASSUME proc[p].step \in {"write", "rename"}
      PROVE  New(p) \in Within(T)
  <2>1. proc[p].op \in Operation /\ proc[p].op.kind \notin {"none", "Refresh"}
    BY <1>5 DEF TypeOK, Occupied
  <2>2. proc[p].copy \in Document /\ proc[p].copy.conns \in Seq(T)
    BY <1>3 DEF Within
  <2>3. /\ Update(proc[p].op, proc[p].copy) \in Document
        /\ Update(proc[p].op, proc[p].copy).conns \in Seq(T)
    BY <2>1, <2>2, UpdateWithin
  <2> QED BY <2>3 DEF New, Within
<1> QED BY <1>2, <1>3, <1>4, <1>5 DEF Sources

LEMMA TypesWithin ==
  ASSUME TypeOK
  PROVE  AllWithin(Connection)
<1>1. \A q \in Processes : proc[q] \in Process
  BY DEF TypeOK, Process
<1>2. \A q \in Processes : proc[q].cached \in Document /\ proc[q].copy \in Document
  BY <1>1 DEF Process
<1> QED BY <1>2, WithinConnection DEF AllWithin, TypeOK

LEMMA SourceTypes ==
  ASSUME TypeOK, NEW p \in Processes, Occupied(proc[p], offers[p])
  PROVE  Sources(p) \subseteq Document
<1>1. \A x \in Connection, on \in BOOLEAN : [x EXCEPT !.login = on] \in Connection
  BY DEF Connection
<1>2. proc[p].op.kind \in {"Save", "Import"} => proc[p].op.conn \in Connection
  BY DEF TypeOK, Operation
<1> QED BY <1>1, <1>2, TypesWithin, SourcesWithin, WithinConnection

\* What is stored under the id of an offer is the offer.
LEMMA AlikeStored ==
  ASSUME TypeOK, NEW p \in Processes, Occupied(proc[p], offers[p]), NEW q \in Processes,
         offers[q] # None, OfferInv(q)
  PROVE  Sources(p) \subseteq Within(Alike(offers[q].conn))
<1> DEFINE c == offers[q].conn
<1>1. \A x \in Alike(c), on \in BOOLEAN : [x EXCEPT !.login = on] \in Alike(c)
  <2>1. ASSUME NEW x \in Alike(c), NEW on \in BOOLEAN
        PROVE  [x EXCEPT !.login = on] \in Alike(c)
    <3> DEFINE y == [x EXCEPT !.login = on]
    <3>1. y \in Connection /\ y.id = x.id /\ y.local = x.local /\ y.side = x.side /\ y.kind = x.kind
      BY DEF Alike, Connection
    <3> HIDE DEF y, c
    <3>2. y \in Alike(c)
      BY <3>1 DEF Alike
    <3> QED BY <3>2 DEF y
  <2> QED BY <2>1
<1>2. ASSUME proc[p].op.kind = "Save"
      PROVE  proc[p].op.conn \in Alike(c)
  BY <1>2, DraftsAssumption DEF Occupied, OfferInv, Alike
<1>3. ASSUME proc[p].op.kind = "Import"
      PROVE  proc[p].op.conn \in Alike(c)
  <2>1. offers[p] # None /\ proc[p].op.conn = offers[p].conn
    BY <1>3 DEF Occupied
  <2>2. offers[p].conn \in Connection
    BY <2>1 DEF TypeOK
  <2>3. p = q \/ offers[p].conn.id # c.id
    BY <2>1 DEF OfferInv
  <2> QED BY <2>1, <2>2, <2>3 DEF Alike
<1>4. Alike(c) \subseteq Connection /\ AllWithin(Alike(c))
  BY DEF Alike, OfferInv
<1> HIDE DEF c
<1>5. proc[p].op.kind \in {"Save", "Import"} => proc[p].op.conn \in Alike(c)
  BY <1>2, <1>3
<1>6. Sources(p) \subseteq Within(Alike(c))
  BY <1>1, <1>4, <1>5, SourcesWithin
<1> QED BY <1>6 DEF c

LEMMA MovesWithin ==
  ASSUME NEW p \in Processes, Moves(p), NEW T, AllWithin(T), Sources(p) \subseteq Within(T)
  PROVE  AllWithin(T)'
<1>1. disk' \in Within(T) \cup {Absent, Garbage} /\ tmp' \in Within(T) \cup {None, Garbage}
  BY DEF Moves, AllWithin
<1>2. proc'[p].cached \in Within(T) /\ proc'[p].copy \in Within(T)
  BY DEF Moves, Results
<1>3. \A q \in Processes \ {p} : proc'[q].cached \in Within(T) /\ proc'[q].copy \in Within(T)
  BY DEF Moves, AllWithin
<1> QED BY <1>1, <1>2, <1>3 DEF AllWithin

\* Every action that moves so keeps the invariant.
LEMMA MovesKeep ==
  ASSUME ImportInv, NEW p \in Processes, Moves(p)
  PROVE  ImportInv'
<1>1. Occupied(proc[p], offers[p]) /\ TypeOK
  BY DEF ImportInv
<1>2. TypeOK'
  <2>1. disk' \in Document \cup {Absent, Garbage} /\ tmp' \in Document \cup {None, Garbage}
    BY <1>1, SourceTypes DEF Moves, TypeOK
  <2> QED BY <1>1, <2>1 DEF Moves, TypeOK, Process
<1>3. ASSUME NEW q \in Processes
      PROVE  Occupied(proc'[q], offers'[q])
  <2>1. CASE q = p
    BY <2>1 DEF Moves, Results
  <2>2. CASE q # p
    BY <2>2 DEF Moves, ImportInv, Occupied
  <2> QED BY <2>1, <2>2
<1>4. ASSUME NEW q \in Processes
      PROVE  OfferInv(q)'
  <2>1. offers' = offers /\ OfferInv(q)
    BY DEF Moves, ImportInv
  <2>2. offers[q] # None => AllWithin(Alike(offers[q].conn))'
    <3>1. ASSUME offers[q] # None
          PROVE  AllWithin(Alike(offers[q].conn))'
      <4> DEFINE T == Alike(offers[q].conn)
      <4>1. T' = T
        BY <2>1
      <4>2. AllWithin(T) /\ Sources(p) \subseteq Within(T)
        BY <1>1, <2>1, <3>1, AlikeStored DEF OfferInv
      <4> QED BY <4>1, <4>2, MovesWithin
    <3> QED BY <3>1
  <2> QED BY <2>1, <2>2 DEF OfferInv
<1> QED BY <1>2, <1>3, <1>4 DEF ImportInv

\* One process changed, and what the others have read may be out of date.
LEMMA OneChanged ==
  ASSUME TypeOK, NEW p \in Processes, NEW r \in Results(p),
         proc' = [proc EXCEPT ![p] = r] \/ proc' = Others(p, [proc EXCEPT ![p] = r])
  PROVE  /\ proc' \in [Processes -> Process] /\ proc'[p] \in Results(p)
         /\ \A q \in Processes \ {p} :
              /\ proc'[q].cached = proc[q].cached /\ proc'[q].copy = proc[q].copy
              /\ proc'[q].op = proc[q].op /\ proc'[q].step = proc[q].step
<1>1. proc \in [Processes -> Process] /\ r \in Process
  BY DEF TypeOK, Process, Results
<1>2. CASE proc' = [proc EXCEPT ![p] = r]
  BY <1>1, <1>2
<1>3. CASE proc' = Others(p, [proc EXCEPT ![p] = r])
  <2>1. proc' = [q \in Processes |-> IF q = p THEN r ELSE [proc[q] EXCEPT !.stale = ~Idle(q)]]
    BY <1>1, <1>3 DEF Others
  <2>2. ASSUME NEW q \in Processes
        PROVE  LET s == [proc[q] EXCEPT !.stale = ~Idle(q)] IN
               /\ s \in Process
               /\ s.cached = proc[q].cached /\ s.copy = proc[q].copy /\ s.op = proc[q].op
               /\ s.step = proc[q].step
    BY <1>1 DEF Process, Idle
  <2> QED BY <1>1, <2>1, <2>2
<1> QED BY <1>2, <1>3

Ended(config) == [cached |-> config, copy |-> Empty, op |-> NoOp, step |-> "idle", stale |-> FALSE]

\* How an operation ends.
LEMMA EndedResult ==
  ASSUME ImportInv, NEW p \in Processes, NEW config \in Sources(p)
  PROVE  Ended(config) \in Results(p) /\ Ends(p, config) = [proc EXCEPT ![p] = Ended(config)]
<1>1. Sources(p) \subseteq Document /\ Empty \in Sources(p)
  BY SourceTypes DEF ImportInv, Sources
<1>2. Ended(config) \in Process
  BY <1>1 DEF Ended, Process, NoOp, Operation
<1>3. Occupied(Ended(config), offers[p])
  BY DEF Ended, NoOp, Occupied
<1> QED BY <1>1, <1>2, <1>3 DEF Results, Ended, Ends

\* Every action ends with a configuration p had, read or made.
LEMMA KeptSource ==
  ASSUME NEW p \in Processes, NEW config \in Sources(p)
  PROVE  Kept(p, config) \in Sources(p)
  BY DEF Kept, Sources

\* Only the step changes, or the operation begins.
LEMMA ProgressResult ==
  ASSUME ImportInv, NEW p \in Processes, NEW config \in Sources(p), NEW op \in Operation,
         NEW step \in {"migrate", "write", "rename"},
         op.kind # "none", op.kind = "Refresh" => step = "migrate",
         op.kind = "Save" => op.conn \in Drafts,
         op.kind = "Import" => offers[p] # None /\ op.conn = offers[p].conn
  PROVE  [proc[p] EXCEPT !.copy = config, !.op = op, !.step = step] \in Results(p)
<1> DEFINE r == [proc[p] EXCEPT !.copy = config, !.op = op, !.step = step]
<1>1. proc[p] \in Process /\ Sources(p) \subseteq Document /\ proc[p].cached \in Sources(p)
  BY SourceTypes DEF ImportInv, TypeOK, Process, Sources
<1>2. /\ r \in Process
      /\ r.cached = proc[p].cached /\ r.copy = config /\ r.op = op /\ r.step = step
  BY <1>1 DEF Process
<1> HIDE DEF r
<1>3. Occupied(r, offers[p])
  BY <1>2 DEF Occupied
<1>4. r \in Results(p)
  BY <1>1, <1>2, <1>3 DEF Results
<1> QED BY <1>4 DEF r

\* What an operation may start with.
LEMMA OperationTypes ==
  ASSUME ImportInv, NEW p \in Processes, NEW op \in Operations(p)
  PROVE  /\ op \in Operation /\ op.kind \notin {"none", "Refresh"}
         /\ op.kind = "Save" => op.conn \in Drafts
         /\ op.kind = "Import" => offers[p] # None /\ op.conn = offers[p].conn
<1>1. proc[p].cached \in Document
  BY DEF ImportInv, TypeOK
<1>2. ASSUME NEW c \in ToSet(proc[p].cached.conns)
      PROVE  c \in Connection
  BY <1>1 DEF ToSet, Document
<1>3. CASE Role[p] = "applet"
  BY <1>3 DEF Operations, Operation
<1>4. CASE Role[p] = "switch"
  BY <1>4 DEF Operations, Operation
<1>5. CASE Role[p] = "editor"
  BY <1>2, <1>5, DraftsAssumption DEF Operations, Operation
<1>6. CASE Role[p] = "import"
  BY <1>6 DEF Operations, Operation, ImportInv, TypeOK
<1>7. Role[p] \in {"applet", "switch", "editor", "import"}
  BY DEF Operations
<1> QED BY <1>3, <1>4, <1>5, <1>6, <1>7

\* The operation begins with what it loaded, or ends at once.
LEMMA Beginnings ==
  ASSUME ImportInv, NEW p \in Processes, NEW op \in Operation, NEW config \in Sources(p),
         NEW step \in {"migrate", "write"}, proc' = Continues(p, op, config, step),
         op.kind \notin {"none", "Refresh"}, op.kind = "Save" => op.conn \in Drafts,
         op.kind = "Import" => offers[p] # None /\ op.conn = offers[p].conn
  PROVE  \E r \in Results(p) : proc' = [proc EXCEPT ![p] = r]
<1>1. CASE StillThere(op, config)
  <2> DEFINE r == [proc[p] EXCEPT !.copy = config, !.op = op, !.step = step]
  <2>1. r \in Results(p)
    BY ProgressResult
  <2>2. proc' = [proc EXCEPT ![p] = r]
    BY <1>1 DEF Continues, ImportInv, TypeOK
  <2> HIDE DEF r
  <2> QED BY <2>1, <2>2
<1>2. CASE ~StillThere(op, config)
  <2>1. proc' = Ends(p, Kept(p, config)) /\ Kept(p, config) \in Sources(p)
    BY <1>2, KeptSource DEF Continues
  <2> QED BY <2>1, EndedResult
<1> QED BY <1>1, <1>2

\* Every action of a process but the scan moves so.
LEMMA StepsMove ==
  ASSUME ImportInv, NEW p \in Processes,
         \/ Start(p) \/ Reorder(p) \/ Migrate(p) \/ Unwritten(p) \/ Write(p)
         \/ Stage(p) \/ Rename(p) \/ Refresh(p)
  PROVE  Moves(p)
<1>1. /\ TypeOK /\ Occupied(proc[p], offers[p]) /\ proc[p] \in Process /\ proc[p].op \in Operation
      /\ MaxOps \in Nat /\ ops \in 0..MaxOps
  BY DocumentAssumption DEF ImportInv, TypeOK, Process
<1>2. /\ {Migrated, proc[p].cached, proc[p].copy, LoadedConfig(disk)} \subseteq Sources(p)
      /\ Writing(p) \/ proc[p].step \in {"write", "rename"} => New(p) \in Sources(p)
  BY DEF Sources, Writing
<1>3. ASSUME NEW r \in Results(p),
             proc' = [proc EXCEPT ![p] = r] \/ proc' = Others(p, [proc EXCEPT ![p] = r]),
             disk' \in {disk} \cup ({tmp} \ {None}) \cup Sources(p), tmp' \in {tmp, None, Garbage} \cup Sources(p),
             UNCHANGED <<sandboxed, legacy, offers>>, ops' \in 0..MaxOps
      PROVE  Moves(p)
  BY <1>1, <1>3, OneChanged DEF Moves
<1>4. ASSUME NEW config \in Sources(p), proc' = Ends(p, config) \/ proc' = Others(p, Ends(p, config)),
             disk' \in {disk} \cup ({tmp} \ {None}) \cup Sources(p), tmp' \in {tmp, None, Garbage} \cup Sources(p),
             UNCHANGED <<sandboxed, legacy, offers, ops>>
      PROVE  Moves(p)
  BY <1>1, <1>3, <1>4, EndedResult
<1>5. ASSUME NEW step \in {"migrate", "write", "rename"}, NEW op \in Operation,
             op.kind # "none", op.kind = "Refresh" => step = "migrate",
             op = proc[p].op \/ op.kind = "Refresh"
      PROVE  [proc[p] EXCEPT !.op = op, !.step = step] \in Results(p)
  <2>1. [proc[p] EXCEPT !.op = op, !.step = step]
          = [proc[p] EXCEPT !.copy = proc[p].copy, !.op = op, !.step = step]
    BY <1>1 DEF Process
  <2>2. [proc[p] EXCEPT !.copy = proc[p].copy, !.op = op, !.step = step] \in Results(p)
    BY <1>1, <1>2, <1>5, ProgressResult DEF Occupied
  <2> QED BY <2>1, <2>2
<1>6. CASE Start(p)
  <2>1. PICK op \in Operations(p), step \in {"migrate", "write"} :
          proc' = Continues(p, op, LoadedConfig(disk), step)
    BY <1>6 DEF Start
  <2>2. \E r \in Results(p) : proc' = [proc EXCEPT ![p] = r]
    BY <1>2, <2>1, OperationTypes, Beginnings
  <2>3. ops' \in 0..MaxOps
    BY <1>1, <1>6 DEF Start
  <2> QED BY <1>3, <1>6, <2>2, <2>3 DEF Start
<1>7. CASE Reorder(p)
  <2> DEFINE op == [kind |-> "Reorder"]
  <2>1. /\ op \in Operation /\ op.kind = "Reorder"
        /\ proc' = Continues(p, op, proc[p].cached, "write")
    BY <1>7 DEF Reorder, Operation
  <2> HIDE DEF op
  <2>2. \E r \in Results(p) : proc' = [proc EXCEPT ![p] = r]
    BY <1>2, <2>1, Beginnings
  <2> QED BY <1>1, <1>3, <1>7, <2>2 DEF Reorder
<1>8. CASE Migrate(p)
  <2>1. CASE \E config \in {Migrated, proc[p].cached} :
               proc' = Ends(p, config) \/ proc' = Others(p, Ends(p, config))
    BY <1>2, <1>4, <1>8, <2>1 DEF Migrate
  <2>2. CASE /\ proc[p].op.kind # "Refresh"
             /\ proc' = Others(p, [proc EXCEPT ![p].step = "write"])
    <3> DEFINE r == [proc[p] EXCEPT !.op = proc[p].op, !.step = "write"]
    <3>1. r \in Results(p)
      BY <1>1, <1>5, <1>8, <2>2 DEF Migrate, Occupied
    <3>2. [proc EXCEPT ![p].step = "write"] = [proc EXCEPT ![p] = r]
      BY <1>1 DEF TypeOK, Process
    <3> HIDE DEF r
    <3> QED BY <1>1, <1>2, <1>3, <1>8, <2>2, <3>1, <3>2 DEF Migrate
  <2> QED BY <1>8, <2>1, <2>2 DEF Migrate
<1>9. CASE Unwritten(p)
  BY <1>2, <1>4, <1>9, KeptSource DEF Unwritten
<1>10. CASE Write(p)
  BY <1>2, <1>4, <1>10, KeptSource DEF Write
<1>11. CASE Stage(p)
  <2>1. CASE \/ proc' = Ends(p, Kept(p, proc[p].copy)) /\ tmp' = tmp
             \/ proc' = Others(p, Ends(p, Kept(p, proc[p].copy))) /\ tmp' = Garbage
    BY <1>2, <1>4, <1>11, <2>1, KeptSource DEF Stage
  <2>2. CASE tmp' = New(p) /\ proc' = Others(p, [proc EXCEPT ![p].step = "rename"])
    <3> DEFINE r == [proc[p] EXCEPT !.op = proc[p].op, !.step = "rename"]
    <3>1. r \in Results(p)
      BY <1>1, <1>5, <1>11 DEF Stage, Writing, Occupied
    <3>2. [proc EXCEPT ![p].step = "rename"] = [proc EXCEPT ![p] = r]
      BY <1>1 DEF TypeOK, Process
    <3> HIDE DEF r
    <3> QED BY <1>1, <1>2, <1>3, <1>11, <2>2, <3>1, <3>2 DEF Stage
  <2> QED BY <1>11, <2>1, <2>2 DEF Stage
<1>12. CASE Rename(p)
  BY <1>2, <1>4, <1>12, KeptSource DEF Rename
<1>13. CASE Refresh(p)
  <2>1. CASE Migrates(disk)
    <3> DEFINE op == [kind |-> "Refresh"]
               r == [proc[p] EXCEPT !.op = op, !.step = "migrate"]
    <3>1. op \in Operation /\ op.kind = "Refresh"
      BY DEF Operation
    <3>2. proc' = [proc EXCEPT ![p] = r]
      BY <1>1, <1>13, <2>1 DEF Refresh, TypeOK
    <3> HIDE DEF op
    <3>3. r \in Results(p)
      BY <1>5, <3>1
    <3> HIDE DEF r
    <3> QED BY <1>1, <1>3, <1>13, <3>2, <3>3 DEF Refresh
  <2>2. CASE ~Migrates(disk)
    <3> DEFINE r == [proc[p] EXCEPT !.cached = LoadedConfig(disk)]
    <3>1. proc' = [proc EXCEPT ![p] = r]
      BY <1>1, <1>13, <2>2 DEF Refresh, TypeOK
    <3>2. Sources(p) \subseteq Document
      BY <1>1, SourceTypes
    <3>3. /\ r \in Process
          /\ r.cached = LoadedConfig(disk) /\ r.copy = proc[p].copy /\ r.op = proc[p].op
          /\ r.step = proc[p].step
      BY <1>1, <1>2, <3>2 DEF Process
    <3> HIDE DEF r
    <3>4. r \in Results(p)
      BY <1>1, <1>2, <3>3 DEF Results, Occupied
    <3> QED BY <1>1, <1>3, <1>13, <3>1, <3>4 DEF Refresh
  <2> QED BY <2>1, <2>2
<1> QED BY <1>6, <1>7, <1>8, <1>9, <1>10, <1>11, <1>12, <1>13

\* The user changes the file, not what the processes hold.
LEMMA ByHandKeeps ==
  ASSUME ImportInv, EditByHand
  PROVE  ImportInv'
<1>1. TypeOK /\ proc \in [Processes -> Process]
  BY DEF ImportInv, TypeOK, Process
<1>2. ASSUME NEW q \in Processes
      PROVE  /\ proc'[q] \in Process
             /\ proc'[q].cached = proc[q].cached /\ proc'[q].copy = proc[q].copy
             /\ proc'[q].op = proc[q].op /\ proc'[q].step = proc[q].step
  <2>1. proc'[q] = [proc[q] EXCEPT !.stale = ~Idle(q)] /\ proc[q] \in Process
    BY <1>1 DEF EditByHand
  <2> QED BY <2>1 DEF Process, Idle
<1>3. proc' \in [Processes -> Process]
  <2>1. proc' = [q \in Processes |-> proc'[q]]
    BY DEF EditByHand
  <2> QED BY <1>2, <2>1
<1>4. ASSUME NEW T, AllWithin(T)
      PROVE  AllWithin(T)'
  <2>1. disk' \in Within(T) \cup {Absent, Garbage}
    <3> DEFINE broken == [disk EXCEPT !.rules = FALSE]
    <3>1. CASE disk \in {Absent, Garbage}
      BY <3>1 DEF EditByHand
    <3>2. CASE disk \in Within(T)
      <4>1. broken \in Document /\ broken.conns = disk.conns
        BY <3>2 DEF Within, Document
      <4>2. broken \in Within(T)
        BY <3>2, <4>1 DEF Within
      <4>3. disk' \in {Garbage, Absent} \cup {broken}
        BY DEF EditByHand
      <4> HIDE DEF broken
      <4> QED BY <4>2, <4>3
    <3> QED BY <1>4, <3>1, <3>2 DEF AllWithin
  <2> QED BY <1>2, <1>4, <2>1 DEF AllWithin, EditByHand
<1>5. TypeOK'
  <2>1. disk' \in Document \cup {Absent, Garbage}
    BY <1>1, <1>4, TypesWithin, WithinConnection DEF AllWithin
  <2>2. ops' \in 0..MaxOps
    BY <1>1, DocumentAssumption DEF EditByHand, TypeOK
  <2> QED BY <1>1, <1>3, <2>1, <2>2 DEF EditByHand, TypeOK, Process
<1>6. ASSUME NEW q \in Processes
      PROVE  Occupied(proc'[q], offers'[q]) /\ OfferInv(q)'
  <2>1. offers' = offers /\ Occupied(proc[q], offers[q]) /\ OfferInv(q)
    BY DEF EditByHand, ImportInv
  <2>2. Occupied(proc'[q], offers'[q])
    BY <1>2, <2>1 DEF Occupied
  <2>3. AllWithin(Alike(offers[q].conn)) => AllWithin(Alike(offers[q].conn))'
    <3> DEFINE T == Alike(offers[q].conn)
    <3>1. T' = T
      BY <2>1
    <3> QED BY <3>1, <1>4
  <2> QED BY <2>1, <2>2, <2>3 DEF OfferInv
<1> QED BY <1>5, <1>6 DEF ImportInv

\* What a preview offers is a connection, if not a valid one.
LEMMA OfferTypes ==
  ASSUME NEW l \in Lines, Offer(l[1], l[2]) # None
  PROVE  /\ Offer(l[1], l[2]).local \in Paths \cup {Relative}
         /\ Offer(l[1], l[2]).cache \in Paths \cup {Relative, None}
<1> DEFINE line == l[2]
<1>1. IsLine(line)
  BY LinesAssumption DEF IsLine
<1>2. CASE l[1] = "onedriver"
  <2> DEFINE read == ReadOnedriver(line)
  <2>1. /\ read.target # None
        /\ Offer(l[1], line) = [engine |-> "onedriver", remote |-> "onedrive", local |-> read.target,
                                cache |-> read.cache, listed |-> read.listed]
    BY <1>2 DEF Offer
  <2>2. PICK F : IsOnedriverReading(line, F)
    BY <1>1, OnedriverReading
  <2>3. read \in Preview
    <3>1. 1 \in 1..(Len(line) + 2)
      BY <1>1 DEF IsLine
    <3> QED BY <2>2, <3>1 DEF IsOnedriverReading
  <2> HIDE DEF read
  <2> QED BY <2>1, <2>3 DEF Preview
<1>3. CASE l[1] # "onedriver"
  <2> DEFINE read == ReadRclone(line)
  <2>1. /\ ~(Len(line) < 2)
        /\ Offer(l[1], line) = [engine |-> l[1], remote |-> line[1].word, local |-> PathOf(line[2]),
                                cache |-> read.cache, listed |-> read.listed]
    BY <1>3 DEF Offer
  <2>2. Len(line) >= 2 /\ 3 \in 3..(Len(line) + 2)
    BY <1>1, <2>1 DEF IsLine
  <2>3. PICK F : IsRcloneReading(line, F)
    BY <1>1, <2>2, RcloneReading
  <2>4. read \in Preview
    BY <2>2, <2>3 DEF IsRcloneReading
  <2> HIDE DEF read
  <2> QED BY <2>1, <2>4, PreviewTypes DEF Preview
<1> QED BY <1>2, <1>3

\* What the scan found: true, if its place is a path.
LEMMA FoundTypes ==
  ASSUME NEW f \in Found
  PROVE  /\ f.local \in Paths \cup {Relative} /\ f.cache \in Paths \cup {Relative, None}
         /\ f.true \in BOOLEAN
         /\ f.local \in Paths => f.true
<1>1. PICK l \in Lines : /\ Offer(l[1], l[2]) # None
                        /\ f = [local |-> Offer(l[1], l[2]).local, cache |-> Offer(l[1], l[2]).cache,
                               true |-> True(l, Offer(l[1], l[2]))]
  BY DEF Found
<1>2. True(l, Offer(l[1], l[2])) \in BOOLEAN
  BY DEF True
<1>3. Offer(l[1], l[2]).local \in Paths => True(l, Offer(l[1], l[2]))
  BY <1>1, OffersAreTrue
<1> QED BY <1>1, <1>2, <1>3, OfferTypes

\* Nobody holds a connection with a new id, so each is alike to the offer.
LEMMA FreshWithin ==
  ASSUME TypeOK, NEW c \in Connection, Fresh(c.id)
  PROVE  AllWithin(Alike(c))
<1>1. ASSUME NEW d \in Document, ~Has(d, c.id)
      PROVE  d \in Within(Alike(c))
  <2>1. d.conns \in Seq(Connection)
    BY DEF Document
  <2>2. \A i \in 1..Len(d.conns) : d.conns[i] \in Alike(c)
    BY <1>1, <2>1 DEF Has, Alike
  <2>3. d.conns \in Seq(Alike(c))
    BY <2>1, <2>2
  <2> QED BY <2>3 DEF Within
<1>2. disk \in Within(Alike(c)) \cup {Absent, Garbage}
  <2>1. CASE disk \in {Absent, Garbage}
    BY <2>1
  <2>2. CASE disk \in Document \ {Absent, Garbage}
    <3>1. disk # None
      BY <2>2, FileAssumption
    <3>2. ~Has(disk, c.id)
      BY <2>2, <3>1 DEF Fresh
    <3> QED BY <1>1, <2>2, <3>2
  <2> QED BY <2>1, <2>2 DEF TypeOK
<1>3. tmp \in Within(Alike(c)) \cup {None, Garbage}
  BY <1>1, FileAssumption DEF TypeOK, Fresh
<1>4. \A q \in Processes : proc[q].cached \in Within(Alike(c)) /\ proc[q].copy \in Within(Alike(c))
  BY <1>1 DEF TypeOK, Fresh
<1> QED BY <1>2, <1>3, <1>4 DEF AllWithin

\* A new offer has an id nobody has seen, and is true if its paths are valid.
LEMMA ScanKeeps ==
  ASSUME ImportInv, NEW p \in Processes, Scan(p)
  PROVE  ImportInv'
<1>1. PICK f \in Found, id \in Ids :
        /\ Fresh(id) /\ offers' = [offers EXCEPT ![p] =
             [conn |-> [id |-> id, kind |-> "mount", local |-> f.local, side |-> f.cache, login |-> FALSE],
              conflict |-> \E c \in ToSet(proc[p].cached.conns) : Overlap(c.local, f.local),
              true |-> f.true]]
  BY DEF Scan
<1> DEFINE conn == [id |-> id, kind |-> "mount", local |-> f.local, side |-> f.cache, login |-> FALSE]
           conflict == \E c \in ToSet(proc[p].cached.conns) : Overlap(c.local, f.local)
           offer == [conn |-> conn, conflict |-> conflict, true |-> f.true]
<1>2. conn \in Connection /\ conn.id = id /\ conn.local = f.local
  BY FoundTypes DEF Connection
<1>3. conflict \in BOOLEAN
  OBVIOUS
<1>4. offers' = [offers EXCEPT ![p] = offer]
  BY <1>1
<1> HIDE DEF conn, conflict
<1>5. /\ offer \in [conn : Connection, conflict : BOOLEAN, true : BOOLEAN]
      /\ offer.conn = conn /\ offer.true = f.true
  <2>1. f.true \in BOOLEAN
    BY FoundTypes
  <2> QED BY <1>2, <1>3, <2>1
<1> HIDE DEF offer
<1>6. TypeOK /\ UNCHANGED <<sandboxed, disk, tmp, legacy, proc>> /\ ops' \in 0..MaxOps /\ Idle(p)
  BY DocumentAssumption DEF Scan, ImportInv, TypeOK
<1>7. /\ offers' \in [Processes -> [conn : Connection, conflict : BOOLEAN, true : BOOLEAN] \cup {None}]
      /\ offers'[p] = offer /\ \A q \in Processes \ {p} : offers'[q] = offers[q]
  BY <1>4, <1>5, <1>6 DEF TypeOK
<1>8. TypeOK'
  BY <1>6, <1>7 DEF TypeOK
<1>9. \A T : AllWithin(T) => AllWithin(T)'
  BY <1>6 DEF AllWithin
<1>10. ASSUME NEW q \in Processes
       PROVE  Occupied(proc'[q], offers'[q])
  <2>1. Occupied(proc[q], offers[q])
    BY DEF ImportInv
  <2>2. CASE q = p
    BY <1>6, <2>1, <2>2 DEF Occupied, Idle
  <2>3. CASE q # p
    BY <1>6, <1>7, <2>1, <2>3
  <2> QED BY <2>2, <2>3
<1>11. OfferInv(p)'
  <2>1. OwnPathsValid(conn) => offer.true
    BY <1>2, <1>5, FoundTypes DEF OwnPathsValid
  <2>2. AllWithin(Alike(conn))'
    <3> DEFINE T == Alike(conn)
    <3>1. AllWithin(T)
      BY <1>1, <1>2, <1>6, FreshWithin
    <3>2. T' = T
      BY <1>6 DEF conn
    <3> QED BY <1>9, <3>1, <3>2
  <2>3. \A d \in Drafts : d.id # conn.id
    BY <1>1, <1>2 DEF Fresh
  <2>4. \A q \in Processes \ {p} : offers[q] # None => offers[q].conn.id # conn.id
    BY <1>1, <1>2 DEF Fresh
  <2> QED BY <1>5, <1>7, <2>1, <2>2, <2>3, <2>4 DEF OfferInv
<1>12. ASSUME NEW q \in Processes \ {p}
       PROVE  OfferInv(q)'
  <2>1. OfferInv(q) /\ offers'[q] = offers[q]
    BY <1>7 DEF ImportInv
  <2>2. AllWithin(Alike(offers[q].conn)) => AllWithin(Alike(offers[q].conn))'
    BY <1>6, <1>7, <1>9 DEF Alike
  <2>3. offers[q] # None => offer.conn.id # offers[q].conn.id
    BY <1>1, <1>2, <1>5 DEF Fresh
  <2> QED BY <1>7, <2>1, <2>2, <2>3 DEF OfferInv
<1> QED BY <1>8, <1>10, <1>11, <1>12 DEF ImportInv

LEMMA ImportInit == Init => ImportInv
<1> SUFFICES ASSUME Init PROVE ImportInv
  OBVIOUS
<1>1. Ended(Empty) \in Process /\ Ended(Empty).step = "idle" /\ Ended(Empty).op.kind = "none"
  BY DocumentTypes DEF Ended, Process, NoOp, Operation
<1>2. proc = [p \in Processes |-> Ended(Empty)]
  BY DEF Init, Ended
<1>3. TypeOK
  <2>1. proc \in [Processes -> Process]
    BY <1>1, <1>2
  <2>2. /\ disk \in Document \cup {Absent, Garbage} /\ tmp = None /\ ops = 0
        /\ sandboxed \in BOOLEAN /\ legacy \in BOOLEAN
        /\ offers = [p \in Processes |-> None]
    BY DocumentTypes DEF Init
  <2>3. ops \in 0..MaxOps
    BY <2>2, DocumentAssumption
  <2> QED BY <2>1, <2>2, <2>3 DEF TypeOK, Process
<1>4. ASSUME NEW p \in Processes
      PROVE  Occupied(proc[p], offers[p]) /\ OfferInv(p)
  <2>1. Occupied(proc[p], offers[p])
    BY <1>1, <1>2 DEF Occupied
  <2>2. OfferInv(p)
    BY DEF Init, OfferInv
  <2> QED BY <2>1, <2>2
<1> QED BY <1>3, <1>4 DEF ImportInv

LEMMA ImportStep ==
  ASSUME ImportInv, [Next]_vars
  PROVE  ImportInv'
<1>1. CASE UNCHANGED vars
  BY <1>1 DEF vars, ImportInv, TypeOK, Occupied, OfferInv, AllWithin
<1>2. CASE Next
  BY <1>2, StepsMove, MovesKeep, ScanKeeps, ByHandKeeps DEF Next
<1> QED BY <1>1, <1>2

\* An offer on screen is true if its paths are valid, and a connection stored under its
\* id, in the file or in any copy of any process, is that offer (finish_import_scan,
\* confirm_import).
THEOREM ImportInvariance == Spec => []ImportInv
  BY ImportInit, ImportStep, PTL DEF Spec

\* The file, the staged file and every copy of every process are documents, and every
\* operation is one of the window that runs it (config.rs, AppletConfig).
THEOREM DocumentsTyped == Spec => []TypeOK
<1>1. ImportInv => TypeOK
  BY DEF ImportInv
<1> QED BY <1>1, ImportInvariance, PTL

\* Whatever the command line of the imported service, the paths, the remotes and the
\* other processes: an import that is stored does what the service did
\* (preview_import, confirm_import, rclone_mount_plan, onedriver_mount_plan).
THEOREM ImportsAreFaithful == Spec => []ImportFaithful
<1>1. ASSUME ImportInv, NEW p \in Processes, proc[p].op.kind = "Import", Valid(New(p))
      PROVE  offers[p].true
  <2> DEFINE c == offers[p].conn
             doc == proc[p].copy
  <2>1. /\ offers[p] # None /\ proc[p].op.conn = c /\ c \in Connection
        /\ OwnPathsValid(c) => offers[p].true
        /\ doc \in Within(Alike(c))
    BY <1>1 DEF ImportInv, TypeOK, Occupied, OfferInv, AllWithin
  <2>2. doc.conns \in Seq(Alike(c)) /\ Len(doc.conns) \in Nat
    BY <2>1 DEF Within
  <2>3. New(p) = Imported(doc, c)
    BY <1>1, <2>1 DEF New, Update
  <2> HIDE DEF doc
  <2>4. CASE Has(doc, c.id)
    <3>1. PICK i \in 1..Len(doc.conns) : doc.conns[i].id = c.id
      BY <2>4 DEF Has
    <3>2. doc.conns[i] \in Alike(c)
      BY <2>2
    <3>3. OwnPathsValid(doc.conns[i])
      BY <1>1, <2>3, <2>4 DEF Imported, Valid
    <3>4. OwnPathsValid(c)
      BY <3>1, <3>2, <3>3 DEF Alike, OwnPathsValid
    <3> QED BY <2>1, <3>4
  <2>5. CASE ~Has(doc, c.id)
    <3> DEFINE s == Append(doc.conns, c)
    <3>1. New(p).conns = s
      BY <2>1, <2>3, <2>5 DEF Imported, With, Within, Document
    <3>2. Len(s) \in 1..Len(s) /\ s[Len(s)] = c
      BY <2>1, <2>2
    <3>3. OwnPathsValid(c)
      BY <1>1, <3>1, <3>2 DEF Valid
    <3> QED BY <2>1, <3>3
  <2> QED BY <2>4, <2>5
<1>2. ImportInv => ImportFaithful
  BY <1>1 DEF ImportFaithful
<1> QED BY <1>2, ImportInvariance, PTL

-----------------------------------------------------------------------------
(* The recovery directories                                                *)

USE RetentionAssumption

\* Every step keeps the variables in their types.
LEMMA TypeStep == RetentionTypeOK /\ [RetentionNext]_retentionVars => RetentionTypeOK'
<1> SUFFICES ASSUME RetentionTypeOK, [RetentionNext]_retentionVars PROVE RetentionTypeOK'
  OBVIOUS
<1> USE DEF RetentionTypeOK, Days, Stages, Files
<1>1. CASE Midnight
  BY <1>1 DEF Midnight, root
<1>2. ASSUME NEW c \in Conns, RunStep(c) PROVE RetentionTypeOK'
  <2>1. CASE Begin(c)
    BY <2>1 DEF Begin, At, Go, root
  <2>2. CASE Validate(c)
    BY <2>2 DEF Validate, At, Go, root
  <2>3. CASE StageMarker(c)
    BY <2>3 DEF StageMarker, At, Go
  <2>4. CASE PublishMarker(c)
    BY <2>4 DEF PublishMarker, At, Go
  <2>5. CASE Fail(c)
    BY <2>5 DEF Fail, Leave, Go
  <2>6. CASE Backup(c)
    BY <2>6 DEF Backup, At
  <2>7. CASE BeginCleanup(c)
    BY <2>7 DEF BeginCleanup, At, Go, root
  <2>8. CASE Delete(c)
    BY <2>8 DEF Delete, At, Go
  <2>9. CASE DeletePartly(c)
    <3>1. files' \in [Days -> SUBSET Files]
      BY <2>9 DEF DeletePartly
    <3>2. staging' \in [Days -> SUBSET (Conns \cup {Nobody})]
      BY <2>9 DEF DeletePartly
    <3>3. owner' \in [Days -> Conns \cup {Nobody}]
      BY <2>9 DEF DeletePartly
    <3>4. stage' \in [Conns -> Stages] /\ victim' = [victim EXCEPT ![c] = 0]
      BY <2>9 DEF DeletePartly, Go
    <3>5. faults' \in 0 .. MaxFaults /\ UNCHANGED <<now, day, cutoff>>
      BY <2>9 DEF DeletePartly
    <3> QED BY <3>1, <3>2, <3>3, <3>4, <3>5
  <2>10. CASE EndCleanup(c)
    BY <2>10 DEF EndCleanup, Leave, Go, root
  <2>11. CASE Kill(c)
    BY <2>11 DEF Kill, Leave, Go, root
  <2>12. ASSUME NEW d \in Days, FindExpired(c, d) PROVE RetentionTypeOK'
    BY <2>12 DEF FindExpired, At, Go, root
  <2> QED
    BY <1>2, <2>1, <2>2, <2>3, <2>4, <2>5, <2>6, <2>7, <2>8, <2>9, <2>10,
       <2>11, <2>12
    DEF RunStep
<1>3. CASE UNCHANGED retentionVars
  BY <1>3 DEF retentionVars, root
<1> QED BY <1>1, <1>2, <1>3 DEF RetentionNext

\* A file stays close to the name of its directory, and cutoffs stay cautious.
LEMMA ClockStep == RetentionTypeOK /\ ClockInv /\ [RetentionNext]_retentionVars => ClockInv'
<1> SUFFICES ASSUME RetentionTypeOK, ClockInv, [RetentionNext]_retentionVars PROVE ClockInv'
  OBVIOUS
<1> USE DEF RetentionTypeOK, ClockInv, Days, Files
<1>1. CASE Midnight
  BY <1>1 DEF Midnight, root
<1>2. ASSUME NEW c \in Conns, RunStep(c) PROVE ClockInv'
  <2>1. CASE Begin(c)
    BY <2>1 DEF Begin, At, Go, root
  <2>2. CASE Validate(c)
    BY <2>2 DEF Validate, At, Go, root
  <2>3. CASE StageMarker(c)
    BY <2>3 DEF StageMarker, At, Go
  <2>4. CASE PublishMarker(c)
    BY <2>4 DEF PublishMarker, At, Go
  <2>5. CASE Fail(c)
    BY <2>5 DEF Fail, Leave, Go
  <2>6. CASE Backup(c)
    <3>1. now <= day[c] + Span /\ day[c] \in Days
      BY <2>6 DEF Backup, At
    <3>2. \A d \in Days : \A f \in files'[d] : f.on <= d + Span
      <4> SUFFICES ASSUME NEW d \in Days, NEW f \in files'[d]
                   PROVE  f.on <= d + Span
        OBVIOUS
      <4>1. CASE f \in files[d]
        BY <4>1
      <4>2. CASE f \notin files[d]
        <5>1. d = day[c] /\ f = [by |-> c, on |-> now]
          BY <2>6, <4>2 DEF Backup
        <5> QED BY <5>1, <3>1
      <4> QED BY <4>1, <4>2
    <3> QED BY <2>6, <3>2 DEF Backup, At
  <2>7. CASE BeginCleanup(c)
    BY <2>7 DEF BeginCleanup, At, Go, root
  <2>8. CASE Delete(c)
    BY <2>8 DEF Delete, At, Go
  <2>9. CASE DeletePartly(c)
    BY <2>9 DEF DeletePartly, At, Go
  <2>10. CASE EndCleanup(c)
    BY <2>10 DEF EndCleanup, Leave, Go, root
  <2>11. CASE Kill(c)
    BY <2>11 DEF Kill, Leave, Go, root
  <2>12. ASSUME NEW d \in Days, FindExpired(c, d) PROVE ClockInv'
    BY <2>12 DEF FindExpired, Expired, At, Go, root
  <2> QED
    BY <1>2, <2>1, <2>2, <2>3, <2>4, <2>5, <2>6, <2>7, <2>8, <2>9, <2>10,
       <2>11, <2>12
    DEF RunStep
<1>3. CASE UNCHANGED retentionVars
  BY <1>3 DEF retentionVars, root
<1> QED BY <1>1, <1>2, <1>3 DEF RetentionNext

\* Directories that are owned, being claimed or being removed stay ours.
LEMMA UserStep == RetentionTypeOK /\ UserInv /\ [RetentionNext]_retentionVars => UserInv'
<1> SUFFICES ASSUME RetentionTypeOK, UserInv, [RetentionNext]_retentionVars PROVE UserInv'
  OBVIOUS
<1> USE DEF RetentionTypeOK, UserInv, NoUserFile, Days, Files
<1>1. CASE Midnight
  BY <1>1 DEF Midnight, root
<1>2. ASSUME NEW c \in Conns, RunStep(c) PROVE UserInv'
  <2>1. CASE Begin(c)
    BY <2>1 DEF Begin, At, Go, root
  <2>2. CASE Validate(c)
    BY <2>2 DEF Validate, OwnerAcceptable, At, Go, root
  <2>3. CASE StageMarker(c)
    BY <2>3 DEF StageMarker, At, Go
  <2>4. CASE PublishMarker(c)
    BY <2>4 DEF PublishMarker, At, Go
  <2>5. CASE Fail(c)
    BY <2>5 DEF Fail, Leave, Go
  <2>6. CASE Backup(c)
    BY <2>6 DEF Backup, At
  <2>7. CASE BeginCleanup(c)
    BY <2>7 DEF BeginCleanup, At, Go, root
  <2>8. CASE Delete(c)
    BY <2>8 DEF Delete, At, Go
  <2>9. CASE DeletePartly(c)
    <3>1. \A d \in Days : files'[d] \subseteq files[d]
      BY <2>9 DEF DeletePartly
    <3>2. \A d \in Days : owner'[d] # Nobody => owner[d] # Nobody
      BY <2>9 DEF DeletePartly
    <3>3. \A e \in Conns : stage'[e] \in {"stage", "publish", "delete"} =>
            stage'[e] = stage[e] /\ victim'[e] = victim[e]
      BY <2>9 DEF DeletePartly, Go
    <3>4. day' = day
      BY <2>9 DEF DeletePartly
    <3> QED BY <3>1, <3>2, <3>3, <3>4
  <2>10. CASE EndCleanup(c)
    BY <2>10 DEF EndCleanup, Leave, Go, root
  <2>11. CASE Kill(c)
    BY <2>11 DEF Kill, Leave, Go, root
  <2>12. ASSUME NEW d \in Days, FindExpired(c, d) PROVE UserInv'
    BY <2>12 DEF FindExpired, At, Go, root
  <2> QED
    BY <1>2, <2>1, <2>2, <2>3, <2>4, <2>5, <2>6, <2>7, <2>8, <2>9, <2>10,
       <2>11, <2>12
    DEF RunStep
<1>3. CASE UNCHANGED retentionVars
  BY <1>3 DEF retentionVars, root
<1> QED BY <1>1, <1>2, <1>3 DEF RetentionNext

\* The initial state satisfies the inductive invariant.
LEMMA RetentionBegins == RetentionInit => RetentionInv
<1> SUFFICES ASSUME RetentionInit PROVE RetentionInv
  OBVIOUS
<1>1. RetentionTypeOK
  BY DEF RetentionInit, RetentionTypeOK, Days, Stages, Files
<1>2. ClockInv
  BY DEF RetentionInit, ClockInv, Days
<1>3. UserInv
  BY DEF RetentionInit, UserInv
<1> QED BY <1>1, <1>2, <1>3 DEF RetentionInv

\* RetentionInv holds for any number of connections that share a root.
THEOREM RetentionInvariance == RetentionSpec => []RetentionInv
<1>1. RetentionInv /\ [RetentionNext]_retentionVars => RetentionInv'
  BY TypeStep, ClockStep, UserStep DEF RetentionInv
<1> QED BY RetentionBegins, <1>1, PTL DEF RetentionSpec

\* Only the two forms of remove_dir_all take files away, and only out of the
\* directory whose marker was checked.
LEMMA OnlyDeleteRemoves ==
  ASSUME RetentionTypeOK, [RetentionNext]_retentionVars, NEW d \in Days, NEW f \in Removed(d)
  PROVE  \E c \in Conns : At(c, "delete") /\ victim[c] = d
<1>1. CASE Midnight
  BY <1>1 DEF Midnight, root, Removed
<1>2. ASSUME NEW c \in Conns, RunStep(c)
      PROVE  At(c, "delete") /\ victim[c] = d
  <2>1. CASE Backup(c)
    BY <2>1 DEF Backup, Removed, RetentionTypeOK, Days
  <2>2. CASE Delete(c) \/ DeletePartly(c)
    BY <2>2 DEF Delete, DeletePartly, Removed, RetentionTypeOK, Days
  <2>3. CASE UNCHANGED files
    BY <2>3 DEF Removed
  <2> QED
    BY <1>2, <2>1, <2>2, <2>3
    DEF RunStep, Begin, Validate, StageMarker, PublishMarker, Fail,
        BeginCleanup, EndCleanup, Kill, FindExpired, root
<1>3. CASE UNCHANGED retentionVars
  BY <1>3 DEF retentionVars, root, Removed
<1> QED BY <1>1, <1>2, <1>3 DEF RetentionNext

\* No file is removed too early (KeptForRetention), for every retention, every
\* length of the runs and any number of connections that share the root.
THEOREM RetentionKept == RetentionSpec => KeptForRetention
<1> DEFINE Timely ==
      \A d \in Days : \A f \in Removed(d) : now - f.on >= Retention + 1 - Span
<1>1. RetentionInv /\ [RetentionNext]_retentionVars => [Timely]_retentionVars
  <2> SUFFICES ASSUME RetentionInv, [RetentionNext]_retentionVars,
                      NEW d \in Days, NEW f \in Removed(d)
               PROVE  now - f.on >= Retention + 1 - Span
    OBVIOUS
  <2>1. PICK c \in Conns : At(c, "delete") /\ victim[c] = d
    BY OnlyDeleteRemoves DEF RetentionInv
  <2>2. d < cutoff[c] /\ cutoff[c] <= now - Retention
    BY <2>1 DEF RetentionInv, ClockInv, At
  <2>3. f \in files[d]
    BY DEF Removed
  <2>4. f.on <= d + Span /\ f.on \in Int
    BY <2>3 DEF RetentionInv, ClockInv, RetentionTypeOK, Files, Days
  <2> QED BY <2>2, <2>4 DEF RetentionInv, RetentionTypeOK, Days
<1> QED BY RetentionInvariance, <1>1, PTL DEF RetentionSpec, KeptForRetention

\* Files of the user are never removed (UserFilesSurvive).
THEOREM UserFilesKept == RetentionSpec => UserFilesSurvive
<1> DEFINE Survive == \A d \in Days : \A f \in Removed(d) : f.by # User
<1>1. RetentionInv /\ [RetentionNext]_retentionVars => [Survive]_retentionVars
  <2> SUFFICES ASSUME RetentionInv, [RetentionNext]_retentionVars,
                      NEW d \in Days, NEW f \in Removed(d)
               PROVE  f.by # User
    OBVIOUS
  <2>1. PICK c \in Conns : At(c, "delete") /\ victim[c] = d
    BY OnlyDeleteRemoves DEF RetentionInv
  <2>2. NoUserFile(d)
    BY <2>1 DEF RetentionInv, UserInv, At
  <2> QED BY <2>2 DEF NoUserFile, Removed
<1> QED BY RetentionInvariance, <1>1, PTL DEF RetentionSpec, UserFilesSurvive

=============================================================================
