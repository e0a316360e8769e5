--------------------------- MODULE CatalogueProofs ---------------------------
(***************************************************************************)
(* What holds of the catalogue for any assets, mounts and contents, and    *)
(* any number of jobs, edits and crashes.                                  *)
(***************************************************************************)
EXTENDS Catalogue, TLAPS

\* Each operation names what it needs, and a copy is never onto its own source.
Shape(u) ==
  /\ u.op = "REPLICATE" => u.mount \in Mounts /\ u.source \in Mounts \ {u.mount}
  /\ u.op \in {"UPLOAD", "DELETE_REPLICA"} => u.mount \in Mounts
  /\ u.mark => u.op = "DELETE_ASSET"
  /\ u.content \in Versions \cup {None}

\* The row a linked job names is there, and no completed job has left its asset.
LinkHolds(u) ==
  u.linked =>
    /\ u.op = "REPLICATE" => replica[<<u.asset, u.source>>] # None
    /\ u.op = "DELETE_REPLICA" => replica[<<u.asset, u.mount>>] # None
    /\ u.op = "DELETE_ASSET" => asset[u.asset] # "none" /\ u.status # "COMPLETED"

TasksOK == \A t \in Created : Shape(tasks[t]) /\ LinkHolds(tasks[t])

\* Where the worker stands and what it has in hand go together.
Stage ==
  /\ at \in {"idle", "walked"} <=> cur = 0
  /\ cur # 0 => cur \in Created
  /\ at = "walked" => seen \in [Assets -> Maybe] /\ where \in Mounts
  /\ at \in {"stated", "copying", "copied", "registered"} => T.op \in {"REPLICATE", "UPLOAD"}
  /\ at \in {"stated", "copying", "copied"} =>
       /\ meta # None
       /\ T.op = "REPLICATE" => T.linked
       /\ T.op = "UPLOAD" => meta = T.content
  /\ at \in {"deleting", "dropped"} => T.op \in {"DELETE_REPLICA", "DELETE_ASSET"}
  /\ at = "deleting" => left \subseteq Doomed
  /\ at = "dropped" => left = {}
  /\ at = "cleaned" => T.op # "REPLICATE" /\ (T.op = "DELETE_ASSET" => ~T.linked)

\* A truncated file, strengthened: that of a copy under way is its target, and
\* only while nobody else has touched it; what the copy holds is not truncated.
Cuts ==
  /\ \A a \in Assets, m \in Mounts :
       files[<<a, m>>] = Cut => \/ a \in broken
                                \/ at = "copying" /\ <<a, m>> = Target /\ Target \notin stray
  /\ at = "copying" /\ held = Cut => T.asset \in broken

\* What the worker has found or done so far is still true of the files nobody
\* else has changed.
Seen ==
  /\ at \in {"stated", "copying"} /\ T.op = "REPLICATE" /\ Source \notin stray => files[Source] = meta
  /\ at = "copying" /\ (T.op = "REPLICATE" => Source \notin stray) => held = meta
  /\ at = "copied" /\ Target \notin stray => files[Target] = meta
  /\ at \in {"deleting", "dropped"} => \A p \in Touched \ stray : files[p] = None
  /\ at = "walked" => \A a \in Assets : <<a, where>> \notin stray => files[<<a, where>>] = seen[a]

IInv == CatalogueTypeOK /\ TasksOK /\ Stage /\ AssetKeepsReplica /\ PendingHasTask
          /\ Cuts /\ Seen /\ DriftIsExplained

LEMMA NonesDiffer == /\ None \notin Content \cup Task \cup Replica \cup Mounts
                     /\ Cut \notin Versions
BY CatalogueAssumption, NoneAssumption DEF Content

-----------------------------------------------------------------------------
LEMMA InitHolds == CatalogueInit => IInv
<1>. SUFFICES ASSUME CatalogueInit PROVE IInv
  OBVIOUS
<1>. USE DEF CatalogueInit
<1>1. CatalogueTypeOK
  <2>1. files \in [Paths -> Maybe] /\ replica \in [Paths -> Replica \cup {None}]
    BY DEF Maybe, Content, Replica
  <2>2. tasks \in [TaskIds -> Task \cup {None}] /\ asset \in [Assets -> {"none", "ACTIVE", "DELETE_PENDING"}]
    OBVIOUS
  <2>3. edits \in 0 .. MaxEdits /\ mishaps \in 0 .. MaxMishaps
    BY CatalogueAssumption
  <2>. QED
    BY <2>1, <2>2, <2>3 DEF CatalogueTypeOK, Maybe, Step
<1>2. TasksOK /\ Created = {}
  BY DEF TasksOK, Created
<1>3. Stage /\ Seen
  BY DEF Stage, Seen
<1>4. \A a \in Assets, m \in Mounts : <<a, m>> \in Paths
  BY DEF Paths
<1>5. \A p \in Paths : replica[p] # None <=> files[p] # None
  BY NonesDiffer DEF Replica, Content
<1>6. AssetKeepsReplica /\ PendingHasTask
  BY <1>4, <1>5 DEF AssetKeepsReplica, PendingHasTask, RowsOf
<1>7. Cuts
  BY <1>4, NonesDiffer DEF Cuts, Content
<1>8. DriftIsExplained
  BY DEF DriftIsExplained, Agree
<1>. QED
  BY <1>1, <1>2, <1>3, <1>6, <1>7, <1>8 DEF IInv

-----------------------------------------------------------------------------
(***************************************************************************)
(* Frames: what a step keeps by what it leaves alone.                      *)
(***************************************************************************)
LEMMA RowsStay ==
  ASSUME IInv, UNCHANGED <<rows, tasks>>
  PROVE  (TasksOK /\ AssetKeepsReplica /\ PendingHasTask)'
BY DEF IInv, rows, TasksOK, Created, Shape, LinkHolds, AssetKeepsReplica, RowsOf, PendingHasTask

\* The item in hand is still the same, as far as the worker looks at it.
SameHand ==
  cur # 0 => /\ cur \in Created'
             /\ \A f \in {"op", "asset", "mount", "source", "content", "linked"} :
                  tasks'[cur][f] = tasks[cur][f]

LEMMA HandStays ==
  ASSUME IInv, UNCHANGED <<files, replica, worker, history>>, SameHand
  PROVE  (Stage /\ Cuts /\ Seen /\ DriftIsExplained)'
<1>1. UNCHANGED <<files, replica, at, cur, meta, held, left, seen, where, stray, broken>>
  BY DEF worker, history
<1>2. cur # 0 => UNCHANGED <<T.op, T.asset, T.mount, T.source, T.content, T.linked>>
  BY <1>1 DEF SameHand, T
<1>3. Stage'
  <2>1. cur # 0 => UNCHANGED Doomed
    BY <1>1, <1>2 DEF Doomed, RowsOf
  <2>. QED
    BY <1>1, <1>2, <2>1 DEF IInv, Stage, SameHand
<1>4. at \notin {"idle", "walked"} <=> cur # 0
  BY DEF IInv, Stage
<1>5. cur # 0 => UNCHANGED <<Target, Source, Doomed>>
  BY <1>1, <1>2 DEF Target, Source, Doomed, RowsOf
<1>6. UNCHANGED Touched
  BY <1>1, <1>2, <1>4, <1>5 DEF Touched
<1>7. Cuts'
  BY <1>1, <1>2, <1>4, <1>5 DEF IInv, Cuts
<1>8. Seen'
  BY <1>1, <1>2, <1>4, <1>5, <1>6 DEF IInv, Seen
<1>9. DriftIsExplained'
  BY <1>1, <1>6 DEF IInv, DriftIsExplained, Agree
<1>. QED
  BY <1>3, <1>7, <1>8, <1>9

LEMMA TaskTyped ==
  ASSUME IInv, NEW t \in Created
  PROVE  tasks[t] \in Task /\ t \in TaskIds /\ tasks[t].asset \in Assets
BY DEF IInv, CatalogueTypeOK, Created, Task

LEMMA HandTyped ==
  ASSUME IInv, cur # 0
  PROVE  /\ cur \in Created /\ cur \in TaskIds /\ T = tasks[cur]
         /\ T \in Task /\ T.asset \in Assets /\ Shape(T) /\ LinkHolds(T)
         /\ T.op \in {"REPLICATE", "UPLOAD", "DELETE_REPLICA"} => Target \in Paths
         /\ T.op = "REPLICATE" => Source \in Paths /\ Source # Target
         /\ Doomed \subseteq Mounts \cup {None}
         /\ T.op \in {"DELETE_REPLICA", "DELETE_ASSET"} => Doomed \subseteq Mounts
BY TaskTyped DEF IInv, Stage, TasksOK, T, Shape, Target, Source, Paths, Doomed, RowsOf, Task

LEMMA TouchedTyped ==
  ASSUME IInv, cur # 0
  PROVE  Touched \subseteq Paths
BY HandTyped DEF Touched, IInv, Stage, Paths

\* Jobs keep what they are about, and no job that is to delete an asset still
\* linked to it completes.
SameJobs ==
  /\ tasks' \in [TaskIds -> Task \cup {None}]
  /\ Created' = Created
  /\ \A t \in Created :
       /\ \A f \in {"op", "asset", "mount", "source", "linked"} : tasks'[t][f] = tasks[t][f]
       /\ tasks'[t].content \in {tasks[t].content, None}
       /\ tasks'[t].mark => tasks[t].mark
       /\ tasks'[t].status = "COMPLETED" =>
            \/ tasks[t].status = "COMPLETED"
            \/ ~(tasks[t].op = "DELETE_ASSET" /\ tasks[t].linked)

LEMMA JobsStay ==
  ASSUME IInv, UNCHANGED <<rows>>, SameJobs
  PROVE  (TasksOK /\ AssetKeepsReplica /\ PendingHasTask)'
<1>1. UNCHANGED <<asset, replica>>
  BY DEF rows
<1>2. ASSUME NEW t \in Created PROVE Shape(tasks[t])' /\ LinkHolds(tasks[t])'
  <2>1. /\ tasks'[t].op = tasks[t].op /\ tasks'[t].asset = tasks[t].asset
        /\ tasks'[t].mount = tasks[t].mount /\ tasks'[t].source = tasks[t].source
        /\ tasks'[t].linked = tasks[t].linked
    BY DEF SameJobs
  <2>2. Shape(tasks[t]) /\ LinkHolds(tasks[t])
    BY DEF IInv, TasksOK
  <2>. QED
    BY <1>1, <2>1, <2>2 DEF SameJobs, Shape, LinkHolds
<1>3. AssetKeepsReplica'
  BY <1>1 DEF IInv, AssetKeepsReplica, RowsOf
<1>4. PendingHasTask'
  <2>. SUFFICES ASSUME NEW a \in Assets, asset[a] = "DELETE_PENDING"
                PROVE  \E t \in Created : /\ tasks'[t].op = "DELETE_ASSET" /\ tasks'[t].asset = a
                                          /\ tasks'[t].linked /\ tasks'[t].status # "COMPLETED"
    BY <1>1 DEF PendingHasTask, SameJobs
  <2>1. PICK t \in Created : /\ tasks[t].op = "DELETE_ASSET" /\ tasks[t].asset = a
                             /\ tasks[t].linked /\ tasks[t].status # "COMPLETED"
    BY DEF IInv, PendingHasTask
  <2>. QED
    BY <2>1 DEF SameJobs
<1>. QED
  BY <1>2, <1>3, <1>4 DEF TasksOK, SameJobs

\* A field of one job is set.
LEMMA SetStatus ==
  ASSUME IInv, NEW t \in Created, NEW s \in {"QUEUED", "RUNNING", "COMPLETED", "FAILED"},
         tasks' = [tasks EXCEPT ![t].status = s],
         s = "COMPLETED" => ~(tasks[t].op = "DELETE_ASSET" /\ tasks[t].linked)
  PROVE  SameJobs /\ SameHand
<1>1. tasks \in [TaskIds -> Task \cup {None}] /\ tasks[t] \in Task /\ t \in TaskIds
  BY TaskTyped DEF IInv, CatalogueTypeOK
<1>2. [tasks[t] EXCEPT !.status = s] \in Task
  BY <1>1 DEF Task
<1>3. tasks' \in [TaskIds -> Task \cup {None}] /\ Created' = Created
  BY <1>1, <1>2, NonesDiffer DEF Created
<1>4. \A u \in Created : tasks'[u] = IF u = t THEN [tasks[t] EXCEPT !.status = s] ELSE tasks[u]
  BY <1>1 DEF Created
<1>5. /\ \A f \in {"op", "asset", "mount", "source", "content", "linked", "mark"} : tasks'[t][f] = tasks[t][f]
      /\ tasks'[t].status = s
  BY <1>1, <1>4 DEF Task
<1>. QED
  BY <1>3, <1>4, <1>5 DEF SameJobs, SameHand, IInv, Stage

-----------------------------------------------------------------------------
(***************************************************************************)
(* Requests.                                                               *)
(***************************************************************************)
LEMMA TaskAdded ==
  ASSUME IInv, NEW new \in Task, Shape(new), LinkHolds(new), CreateTask(new),
         UNCHANGED <<disk, rows, worker, razing, history, bounds>>
  PROVE  IInv'
<1>1. PICK t \in TaskIds \ Created : tasks' = [tasks EXCEPT ![t] = new]
  BY DEF CreateTask
<1>2. UNCHANGED <<files, asset, replica, at, cur, meta, held, left, seen, where, razing, stray, broken, edits, mishaps>>
  BY DEF disk, rows, worker, history, bounds
<1>3. tasks \in [TaskIds -> Task \cup {None}]
  BY DEF IInv, CatalogueTypeOK
<1>4. Created' = Created \cup {t} /\ \A u \in Created : tasks'[u] = tasks[u]
  BY <1>1, <1>3, NonesDiffer DEF Created
<1>5. CatalogueTypeOK'
  BY <1>1, <1>2, <1>3 DEF IInv, CatalogueTypeOK
<1>6. TasksOK'
  BY <1>1, <1>2, <1>3, <1>4 DEF IInv, TasksOK, Shape, LinkHolds
<1>7. AssetKeepsReplica' /\ PendingHasTask'
  BY <1>2, <1>4 DEF IInv, AssetKeepsReplica, RowsOf, PendingHasTask
<1>8. SameHand
  BY <1>4 DEF IInv, Stage, SameHand
<1>9. (Stage /\ Cuts /\ Seen /\ DriftIsExplained)'
  BY <1>2, <1>8, HandStays DEF worker, history
<1>. QED
  BY <1>5, <1>6, <1>7, <1>9 DEF IInv

LEMMA RequestKeeps ==
  ASSUME IInv, Request
  PROVE  IInv'
<1>1. ASSUME NEW a \in Assets, NEW m \in Mounts, RequestReplicate(a, m) PROVE IInv'
  <2>1. PICK s \in SourcesFor(a, m) : CreateTask(NewTask("REPLICATE", a, m, s, None))
    BY <1>1 DEF RequestReplicate
  <2>2. s \in Mounts \ {m} /\ replica[<<a, s>>] # None
    BY <2>1 DEF SourcesFor, Available, RowsOf
  <2>3. NewTask("REPLICATE", a, m, s, None) \in Task
    BY <2>2 DEF NewTask, Task, Maybe
  <2>4. Shape(NewTask("REPLICATE", a, m, s, None)) /\ LinkHolds(NewTask("REPLICATE", a, m, s, None))
    BY <2>2 DEF NewTask, Shape, LinkHolds
  <2>. QED
    BY <1>1, <2>1, <2>3, <2>4, TaskAdded DEF RequestReplicate
<1>2. ASSUME NEW a \in Assets, NEW m \in Mounts, RequestUpload(a, m) PROVE IInv'
  <2>1. PICK v \in Versions : CreateTask(NewTask("UPLOAD", a, m, None, v))
    BY <1>2 DEF RequestUpload
  <2>2. NewTask("UPLOAD", a, m, None, v) \in Task
    BY DEF NewTask, Task, Maybe, Content
  <2>3. Shape(NewTask("UPLOAD", a, m, None, v)) /\ LinkHolds(NewTask("UPLOAD", a, m, None, v))
    BY DEF NewTask, Shape, LinkHolds
  <2>. QED
    BY <1>2, <2>1, <2>2, <2>3, TaskAdded DEF RequestUpload
<1>3. ASSUME NEW a \in Assets, NEW m \in Mounts, RequestDeleteReplica(a, m) PROVE IInv'
  <2>1. NewTask("DELETE_REPLICA", a, m, None, None) \in Task
    BY DEF NewTask, Task, Maybe
  <2>2. Shape(NewTask("DELETE_REPLICA", a, m, None, None))
        /\ LinkHolds(NewTask("DELETE_REPLICA", a, m, None, None))
    BY <1>3 DEF NewTask, Shape, LinkHolds, RequestDeleteReplica, RowsOf
  <2>. QED
    BY <1>3, <2>1, <2>2, TaskAdded DEF RequestDeleteReplica
<1>4. ASSUME NEW a \in Assets, DeleteEntry(a) PROVE IInv'
  <2>. DEFINE new == [NewTask("DELETE_ASSET", a, None, None, None) EXCEPT !.mark = TRUE]
  <2>1. new \in Task
    BY DEF NewTask, Task, Maybe
  <2>2. Shape(new) /\ LinkHolds(new)
    BY <1>4 DEF NewTask, Shape, LinkHolds, DeleteEntry
  <2>. QED
    BY <1>4, <2>1, <2>2, TaskAdded DEF DeleteEntry
<1>5. ASSUME NEW t \in TaskIds, MarkPending(t) PROVE IInv'
  <2>1. /\ UNCHANGED <<files, replica, at, cur, meta, held, left, seen, where, razing, stray, broken, edits, mishaps>>
        /\ t \in Created /\ tasks[t].mark /\ tasks[t].linked
        /\ asset' = [asset EXCEPT ![tasks[t].asset] = "DELETE_PENDING"]
        /\ tasks' = [tasks EXCEPT ![t].mark = FALSE]
    BY <1>5 DEF MarkPending, disk, worker, history, bounds
  <2>2. tasks \in [TaskIds -> Task \cup {None}] /\ tasks[t] \in Task /\ tasks[t].asset \in Assets
    BY <2>1, TaskTyped DEF IInv, CatalogueTypeOK
  <2>3. tasks[t].op = "DELETE_ASSET" /\ asset[tasks[t].asset] # "none" /\ tasks[t].status # "COMPLETED"
    BY <2>1 DEF IInv, TasksOK, Shape, LinkHolds
  <2>4. [tasks[t] EXCEPT !.mark = FALSE] \in Task
    BY <2>2 DEF Task
  <2>5. tasks' \in [TaskIds -> Task \cup {None}] /\ Created' = Created
    BY <2>1, <2>2, <2>4, NonesDiffer DEF Created
  <2>6. \A u \in Created : /\ u # t => tasks'[u] = tasks[u]
                           /\ \A f \in {"op", "asset", "mount", "source", "content", "linked", "status"} :
                                tasks'[u][f] = tasks[u][f]
                           /\ tasks'[t].mark = FALSE
    BY <2>1, <2>2 DEF Created, Task
  <2>7. asset' \in [Assets -> {"none", "ACTIVE", "DELETE_PENDING"}]
        /\ \A a \in Assets : asset'[a] # "none" <=> asset[a] # "none"
    BY <2>1, <2>2, <2>3 DEF IInv, CatalogueTypeOK
  <2>8. CatalogueTypeOK'
    BY <2>1, <2>5, <2>7 DEF IInv, CatalogueTypeOK
  <2>9. TasksOK'
    <3>. SUFFICES ASSUME NEW u \in Created PROVE Shape(tasks[u])' /\ LinkHolds(tasks[u])'
      BY <2>5 DEF TasksOK
    <3>1. Shape(tasks[u]) /\ LinkHolds(tasks[u]) /\ tasks[u].asset \in Assets
      BY TaskTyped DEF IInv, TasksOK
    <3>2. /\ tasks'[u].op = tasks[u].op /\ tasks'[u].asset = tasks[u].asset
          /\ tasks'[u].mount = tasks[u].mount /\ tasks'[u].source = tasks[u].source
          /\ tasks'[u].content = tasks[u].content /\ tasks'[u].linked = tasks[u].linked
          /\ tasks'[u].status = tasks[u].status
      BY <2>6
    <3>. QED
      BY <2>1, <2>6, <2>7, <3>1, <3>2 DEF Shape, LinkHolds
  <2>10. AssetKeepsReplica'
    BY <2>1, <2>7 DEF IInv, AssetKeepsReplica, RowsOf
  <2>11. PendingHasTask'
    <3>. SUFFICES ASSUME NEW a \in Assets, asset'[a] = "DELETE_PENDING"
                  PROVE  \E u \in Created : /\ tasks'[u].op = "DELETE_ASSET" /\ tasks'[u].asset = a
                                            /\ tasks'[u].linked /\ tasks'[u].status # "COMPLETED"
      BY <2>5 DEF PendingHasTask
    <3>1. CASE a = tasks[t].asset
      BY <2>1, <2>3, <2>6, <3>1
    <3>2. CASE a # tasks[t].asset
      <4>1. asset[a] = "DELETE_PENDING"
        BY <2>1, <2>2, <3>2 DEF IInv, CatalogueTypeOK
      <4>2. PICK u \in Created : /\ tasks[u].op = "DELETE_ASSET" /\ tasks[u].asset = a
                                 /\ tasks[u].linked /\ tasks[u].status # "COMPLETED"
        BY <4>1 DEF IInv, PendingHasTask
      <4>. QED
        BY <2>6, <4>2
    <3>. QED
      BY <3>1, <3>2
  <2>12. SameHand
    BY <2>5, <2>6 DEF SameHand, IInv, Stage
  <2>13. (Stage /\ Cuts /\ Seen /\ DriftIsExplained)'
    BY <2>1, <2>12, HandStays DEF worker, history
  <2>. QED
    BY <2>8, <2>9, <2>10, <2>11, <2>13 DEF IInv
<1>6. ASSUME NEW t \in TaskIds, Retry(t) PROVE IInv'
  <2>1. SameJobs /\ SameHand
    BY <1>6, SetStatus DEF Retry
  <2>2. CatalogueTypeOK'
    <3>1. mishaps' \in 0 .. MaxMishaps
      BY <1>6, CatalogueAssumption DEF Retry, IInv, CatalogueTypeOK
    <3>. QED
      BY <1>6, <2>1, <3>1 DEF Retry, SameJobs, IInv, CatalogueTypeOK, disk, rows, worker, history
  <2>. QED
    BY <1>6, <2>1, <2>2, JobsStay, HandStays DEF Retry, disk, rows, IInv
<1>. QED
  BY <1>1, <1>2, <1>3, <1>4, <1>5, <1>6 DEF Request

-----------------------------------------------------------------------------
(***************************************************************************)
(* Files changed by others: directories removed at once, and edits.        *)
(***************************************************************************)
LEMMA OthersChange ==
  ASSUME IInv, UNCHANGED <<rows, tasks, worker, broken>>,
         files' \in [Paths -> Maybe], stray' \subseteq Paths, stray \subseteq stray',
         \A p \in Paths \ stray' : files'[p] = files[p],
         \A p \in Paths : files'[p] = Cut => files[p] = Cut /\ (p \in stray' => p \in stray)
  PROVE  (TasksOK /\ Stage /\ AssetKeepsReplica /\ PendingHasTask /\ Cuts /\ Seen /\ DriftIsExplained)'
<1>1. UNCHANGED <<asset, replica, tasks, at, cur, meta, held, left, seen, where, broken>>
  BY DEF rows, worker
<1>2. (TasksOK /\ AssetKeepsReplica /\ PendingHasTask)'
  BY RowsStay
<1>3. UNCHANGED <<T, Target, Source, Doomed, Touched>>
  BY <1>1 DEF T, Target, Source, Doomed, RowsOf, Touched
<1>4. Stage'
  BY <1>1, <1>3 DEF IInv, Stage, Created
<1>5. cur # 0 => /\ T.asset \in Assets
                 /\ T.op \in {"REPLICATE", "UPLOAD", "DELETE_REPLICA"} => Target \in Paths
                 /\ T.op = "REPLICATE" => Source \in Paths
  BY HandTyped
<1>6. Cuts'
  BY <1>1, <1>3, <1>5 DEF IInv, Cuts, Paths, Stage
<1>7. Touched \subseteq Paths
  BY TouchedTyped DEF Touched, IInv, Stage
<1>8. Seen'
  <2>1. at \in {"stated", "copying"} /\ T.op = "REPLICATE" /\ Source \notin stray' => files'[Source] = meta
    BY <1>5 DEF IInv, Seen, Stage
  <2>2. at = "copying" /\ (T.op = "REPLICATE" => Source \notin stray') => held = meta
    BY DEF IInv, Seen
  <2>3. at = "copied" /\ Target \notin stray' => files'[Target] = meta
    BY <1>5 DEF IInv, Seen, Stage
  <2>4. at \in {"deleting", "dropped"} => \A p \in Touched \ stray' : files'[p] = None
    BY <1>7 DEF IInv, Seen
  <2>5. at = "walked" => \A a \in Assets : <<a, where>> \notin stray' => files'[<<a, where>>] = seen[a]
    BY DEF IInv, Seen, Stage, Paths
  <2>. QED
    BY <1>1, <1>3, <2>1, <2>2, <2>3, <2>4, <2>5 DEF Seen
<1>9. DriftIsExplained'
  BY <1>1, <1>3 DEF IInv, DriftIsExplained, Agree
<1>. QED
  BY <1>2, <1>4, <1>6, <1>8, <1>9

LEMMA RazeKeeps ==
  ASSUME IInv, Raze
  PROVE  IInv'
<1>1. ASSUME BeginRaze \/ RazeEnds PROVE IInv'
  <2>1. UNCHANGED <<disk, rows, tasks, worker, history, bounds>> /\ razing' \in {None, Mounts}
    BY <1>1 DEF BeginRaze, RazeEnds
  <2>2. CatalogueTypeOK'
    BY <2>1 DEF IInv, CatalogueTypeOK, disk, rows, worker, history, bounds
  <2>3. SameHand
    BY <2>1 DEF SameHand, IInv, Stage, Created
  <2>. QED
    BY <2>1, <2>2, <2>3, RowsStay, HandStays DEF IInv, disk, rows
<1>2. ASSUME NEW m \in Mounts, RazeMount(m) PROVE IInv'
  <2>1. /\ files' = [p \in Paths |-> IF p[2] = m THEN None ELSE files[p]]
        /\ stray' = stray \cup FilesOn(m)
        /\ razing' \in {None} \cup SUBSET Mounts
        /\ UNCHANGED <<rows, tasks, worker, broken, bounds>>
    BY <1>2 DEF RazeMount, IInv, CatalogueTypeOK
  <2>2. files \in [Paths -> Maybe] /\ stray \subseteq Paths
    BY DEF IInv, CatalogueTypeOK
  <2>3. files' \in [Paths -> Maybe] /\ stray' \subseteq Paths /\ stray \subseteq stray'
    BY <2>1, <2>2 DEF FilesOn, Maybe
  <2>4. \A p \in Paths \ stray' : files'[p] = files[p]
    BY <2>1 DEF FilesOn
  <2>5. \A p \in Paths : files'[p] = Cut => files[p] = Cut /\ (p \in stray' => p \in stray)
    BY <2>1, NonesDiffer DEF FilesOn, Content
  <2>6. CatalogueTypeOK'
    BY <2>1, <2>3 DEF IInv, CatalogueTypeOK, rows, worker, bounds
  <2>. QED
    BY <2>1, <2>3, <2>4, <2>5, <2>6, OthersChange DEF IInv
<1>. QED
  BY <1>1, <1>2 DEF Raze

LEMMA EditKeeps ==
  ASSUME IInv, NEW a \in Assets, NEW m \in Mounts, Edit(a, m)
  PROVE  IInv'
<1>1. PICK c \in (Versions \cup {None}) \ {files[<<a, m>>]} : files' = [files EXCEPT ![<<a, m>>] = c]
  BY DEF Edit
<1>2. stray' = stray \cup {<<a, m>>} /\ UNCHANGED <<rows, tasks, worker, razing, broken, mishaps>>
  BY DEF Edit
<1>3. files \in [Paths -> Maybe] /\ stray \subseteq Paths /\ <<a, m>> \in Paths
  BY DEF IInv, CatalogueTypeOK, Paths
<1>4. files' \in [Paths -> Maybe] /\ stray' \subseteq Paths /\ stray \subseteq stray'
  BY <1>1, <1>2, <1>3 DEF Maybe, Content
<1>5. \A p \in Paths \ stray' : files'[p] = files[p]
  BY <1>1, <1>2, <1>3
<1>6. \A p \in Paths : files'[p] = Cut => files[p] = Cut /\ (p \in stray' => p \in stray)
  BY <1>1, <1>2, <1>3, NonesDiffer DEF Content
<1>7. edits' \in 0 .. MaxEdits
  BY CatalogueAssumption DEF Edit, IInv, CatalogueTypeOK
<1>8. CatalogueTypeOK'
  BY <1>2, <1>4, <1>7 DEF IInv, CatalogueTypeOK, rows, worker
<1>. QED
  BY <1>2, <1>4, <1>5, <1>6, <1>8, OthersChange DEF IInv

-----------------------------------------------------------------------------
(***************************************************************************)
(* The worker takes an item up and lays it down.                           *)
(***************************************************************************)
LEMMA BeginKeeps ==
  ASSUME IInv, NEW t \in TaskIds, Begin(t)
  PROVE  IInv'
<1>1. /\ at = "idle" /\ t \in Created /\ at' = "begun" /\ cur' = t
      /\ tasks' = [tasks EXCEPT ![t].status = "RUNNING"]
      /\ UNCHANGED <<files, asset, replica, meta, held, left, seen, where, razing, stray, broken, edits, mishaps>>
  BY DEF Begin, disk, rows, history, bounds
<1>2. SameJobs
  BY <1>1, SetStatus
<1>3. CatalogueTypeOK'
  BY <1>1, <1>2 DEF IInv, CatalogueTypeOK, SameJobs, Step
<1>4. Stage'
  BY <1>1, <1>2 DEF Stage, SameJobs, Created, TaskIds
<1>5. Cuts' /\ Seen'
  BY <1>1 DEF IInv, Cuts, Seen
<1>6. cur = 0
  BY <1>1 DEF IInv, Stage
<1>7. DriftIsExplained'
  BY <1>1, <1>6 DEF IInv, DriftIsExplained, Agree, Touched
<1>. QED
  BY <1>1, <1>2, <1>3, <1>4, <1>5, <1>7, JobsStay DEF IInv, rows

\* What is left when the worker lets go of an item it may have half done.
LEMMA LayDown ==
  ASSUME IInv, Idle, UNCHANGED <<disk, rows>>,
         stray' = IF cur = 0 THEN stray ELSE stray \cup Touched,
         broken' = IF at = "copying" THEN broken \cup {T.asset} ELSE broken
  PROVE  (Stage /\ Cuts /\ Seen /\ DriftIsExplained)'
<1>1. /\ at' = "idle" /\ cur' = 0 /\ UNCHANGED <<files, replica>>
  BY DEF Idle, disk, rows
<1>2. Stage' /\ Seen'
  BY <1>1 DEF Stage, Seen
<1>3. \A a \in Assets, m \in Mounts : at = "copying" /\ <<a, m>> = Target => a = T.asset
  BY DEF Target
<1>4. Cuts'
  BY <1>1, <1>3 DEF IInv, Cuts
<1>5. DriftIsExplained'
  BY <1>1 DEF IInv, DriftIsExplained, Agree
<1>. QED
  BY <1>2, <1>4, <1>5

LEMMA FailKeeps ==
  ASSUME IInv, Fail
  PROVE  IInv'
<1>1. /\ cur # 0
      /\ tasks' = [tasks EXCEPT ![cur].status = "FAILED"]
      /\ stray' = stray \cup Touched
      /\ broken' = IF at = "copying" THEN broken \cup {T.asset} ELSE broken
      /\ Idle
      /\ UNCHANGED <<disk, rows, razing>>
  BY DEF Fail
<1>2. SameJobs
  BY <1>1, HandTyped, SetStatus
<1>3. CatalogueTypeOK'
  <2>1. edits' \in 0 .. MaxEdits /\ mishaps' \in 0 .. MaxMishaps
    BY CatalogueAssumption DEF Fail, bounds, IInv, CatalogueTypeOK
  <2>2. stray' \subseteq Paths /\ broken' \subseteq Assets
    BY <1>1, HandTyped, TouchedTyped DEF IInv, CatalogueTypeOK
  <2>. QED
    BY <1>1, <1>2, <2>1, <2>2 DEF IInv, CatalogueTypeOK, SameJobs, Idle, Step, Maybe, disk, rows
<1>. QED
  BY <1>1, <1>2, <1>3, JobsStay, LayDown DEF IInv

LEMMA CrashKeeps ==
  ASSUME IInv, Crash
  PROVE  IInv'
<1>1. /\ tasks' = [t \in TaskIds |->
              IF t \notin Created THEN None
              ELSE [tasks[t] EXCEPT !.mark = FALSE,
                                    !.status = IF t = cur THEN "QUEUED" ELSE @]]
      /\ stray' = (IF cur = 0 THEN stray ELSE stray \cup Touched)
      /\ broken' = IF at = "copying" THEN broken \cup {T.asset} ELSE broken
      /\ Idle
      /\ UNCHANGED <<disk, rows, edits>>
      /\ razing' = None
      /\ mishaps < MaxMishaps /\ mishaps' = mishaps + 1
  BY DEF Crash
<1>2. SameJobs
  <2>1. \A t \in Created : tasks[t] \in Task /\ t \in TaskIds
    BY TaskTyped
  <2>2. ASSUME NEW t \in Created PROVE tasks'[t] \in Task
    <3>1. tasks'[t] = [tasks[t] EXCEPT !.mark = FALSE,
                                       !.status = IF t = cur THEN "QUEUED" ELSE tasks[t].status]
      BY <1>1, <2>1
    <3>2. tasks[t] \in Task
      BY <2>1
    <3>. QED
      BY <3>1, <3>2 DEF Task
  <2>3. tasks' \in [TaskIds -> Task \cup {None}] /\ Created' = Created
    BY <1>1, <2>1, <2>2, NonesDiffer DEF Created
  <2>4. ASSUME NEW t \in Created
        PROVE  /\ \A f \in {"op", "asset", "mount", "source", "linked", "content"} : tasks'[t][f] = tasks[t][f]
               /\ tasks'[t].mark => tasks[t].mark
               /\ tasks'[t].status = "COMPLETED" => tasks[t].status = "COMPLETED"
    BY <1>1, <2>1 DEF Task
  <2>. QED
    BY <2>3, <2>4 DEF SameJobs
<1>3. CatalogueTypeOK'
  <2>1. mishaps' \in 0 .. MaxMishaps
    <3>1. MaxMishaps \in Nat /\ mishaps \in 0 .. MaxMishaps
      BY CatalogueAssumption DEF IInv, CatalogueTypeOK
    <3>2. mishaps < MaxMishaps /\ mishaps' = mishaps + 1
      BY <1>1
    <3>. QED
      BY <3>1, <3>2
  <2>2. stray' \subseteq Paths /\ broken' \subseteq Assets
    BY <1>1, HandTyped, TouchedTyped DEF IInv, CatalogueTypeOK, Stage
  <2>. QED
    BY <1>1, <1>2, <2>1, <2>2 DEF IInv, CatalogueTypeOK, SameJobs, Idle, Step, Maybe, disk, rows
<1>. QED
  BY <1>1, <1>2, <1>3, JobsStay, LayDown DEF IInv

LEMMA FinishKeeps ==
  ASSUME IInv, Finish
  PROVE  IInv'
<1>1. /\ at \in {"registered", "cleaned"}
      /\ at = "registered" => T.op = "REPLICATE"
      /\ tasks' = [tasks EXCEPT ![cur].status = "COMPLETED"]
      /\ Idle
      /\ UNCHANGED <<disk, rows, razing, history, bounds>>
  BY DEF Finish
<1>2. cur # 0 /\ ~(T.op = "DELETE_ASSET" /\ T.linked)
  BY <1>1 DEF IInv, Stage
<1>3. SameJobs
  BY <1>1, <1>2, HandTyped, SetStatus
<1>4. CatalogueTypeOK'
  BY <1>1, <1>3 DEF IInv, CatalogueTypeOK, SameJobs, Idle, Step, Maybe, disk, rows, history, bounds
<1>5. Touched = {}
  BY <1>1 DEF Touched
<1>6. (Stage /\ Cuts /\ Seen /\ DriftIsExplained)'
  BY <1>1, <1>5, LayDown DEF history
<1>. QED
  BY <1>1, <1>3, <1>4, <1>6, JobsStay DEF IInv

-----------------------------------------------------------------------------
(***************************************************************************)
(* Copies.                                                                 *)
(***************************************************************************)
LEMMA StatSourceKeeps ==
  ASSUME IInv, StatSource
  PROVE  IInv'
<1>1. /\ at = "begun" /\ at' = "stated"
      /\ UNCHANGED <<files, asset, replica, tasks, cur, held, left, seen, where, razing, stray, broken, edits, mishaps>>
      /\ \/ T.op = "REPLICATE" /\ T.linked /\ files[Source] # None /\ meta' = files[Source]
         \/ T.op = "UPLOAD" /\ T.content # None /\ meta' = T.content
  BY DEF StatSource, Goto, disk, rows, history, bounds
<1>2. cur # 0
  BY <1>1 DEF IInv, Stage
<1>3. meta' \in Maybe /\ meta' # None
  BY <1>1, <1>2, HandTyped DEF IInv, CatalogueTypeOK, Task
<1>4. CatalogueTypeOK'
  BY <1>1, <1>3 DEF IInv, CatalogueTypeOK, Step
<1>5. UNCHANGED <<T, Target, Source, Doomed>>
  BY <1>1 DEF T, Target, Source, Doomed, RowsOf
<1>6. Stage'
  BY <1>1, <1>2, <1>3, <1>5 DEF IInv, Stage, Created
<1>7. Cuts' /\ Seen'
  BY <1>1, <1>5 DEF IInv, Cuts, Seen
<1>8. DriftIsExplained'
  BY <1>1, <1>2 DEF IInv, DriftIsExplained, Agree, Touched
<1>. QED
  BY <1>1, <1>4, <1>6, <1>7, <1>8, RowsStay DEF IInv, rows

LEMMA OpenTargetKeeps ==
  ASSUME IInv, OpenTarget
  PROVE  IInv'
<1>1. /\ at = "stated" /\ at' = "copying"
      /\ held' = (IF T.op = "REPLICATE" THEN files[Source] ELSE T.content)
      /\ held' # None
      /\ files' = [files EXCEPT ![Target] = Cut]
      /\ stray' = stray \ {Target}
      /\ UNCHANGED <<asset, replica, tasks, cur, meta, left, seen, where, razing, broken, edits, mishaps>>
  BY DEF OpenTarget, Goto, rows, bounds
<1>2. cur # 0 /\ T.op \in {"REPLICATE", "UPLOAD"}
  BY <1>1 DEF IInv, Stage
<1>3. /\ files \in [Paths -> Maybe] /\ stray \subseteq Paths /\ Target \in Paths
      /\ T \in Task /\ Shape(T)
      /\ T.op = "REPLICATE" => Source \in Paths /\ Source # Target
  BY <1>2, HandTyped DEF IInv, CatalogueTypeOK
<1>4. CatalogueTypeOK'
  <2>1. files' \in [Paths -> Maybe] /\ held' \in Maybe
    BY <1>1, <1>3 DEF Maybe, Content, Task
  <2>. QED
    BY <1>1, <1>3, <2>1 DEF IInv, CatalogueTypeOK, Step
<1>5. UNCHANGED <<T, Target, Source, Doomed>>
  BY <1>1 DEF T, Target, Source, Doomed, RowsOf
<1>6. Stage'
  BY <1>1, <1>2, <1>5 DEF IInv, Stage, Created
<1>7. Cuts'
  <2>1. ASSUME NEW a \in Assets, NEW m \in Mounts, files'[<<a, m>>] = Cut, <<a, m>> # Target
        PROVE  a \in broken
    BY <1>1, <1>3, <2>1 DEF IInv, Cuts, Paths
  <2>2. held' = Cut => T.asset \in broken
    <3>1. CASE T.op = "REPLICATE"
      BY <1>1, <1>3, <3>1 DEF IInv, Cuts, Source, Paths
    <3>2. CASE T.op = "UPLOAD"
      BY <1>1, <1>3, <3>2, NonesDiffer DEF Shape, Content
    <3>. QED
      BY <1>2, <3>1, <3>2
  <2>. QED
    BY <1>1, <1>5, <2>1, <2>2 DEF Cuts
<1>8. Seen'
  BY <1>1, <1>2, <1>3, <1>5 DEF IInv, Seen, Stage
<1>9. DriftIsExplained'
  <2>1. Touched' = {Target} /\ Touched = {}
    BY <1>1, <1>5 DEF Touched
  <2>. QED
    BY <1>1, <1>2, <1>3, <2>1 DEF IInv, DriftIsExplained, Agree
<1>. QED
  BY <1>1, <1>4, <1>6, <1>7, <1>8, <1>9, RowsStay DEF IInv, rows

LEMMA CopyEndsKeeps ==
  ASSUME IInv, CopyEnds
  PROVE  IInv'
<1>1. /\ at = "copying" /\ at' = "copied" /\ held' = None
      /\ stray' = IF T.op = "REPLICATE" /\ Source \in stray THEN stray \cup {Target} ELSE stray
      /\ UNCHANGED <<asset, replica, tasks, cur, meta, left, seen, where, razing, broken, edits, mishaps>>
  BY DEF CopyEnds, Goto, rows, bounds
<1>2. PICK c \in Arrives : files' = [files EXCEPT ![Target] = c]
  BY DEF CopyEnds
<1>3. cur # 0 /\ T.op \in {"REPLICATE", "UPLOAD"}
  BY <1>1 DEF IInv, Stage
<1>4. /\ files \in [Paths -> Maybe] /\ stray \subseteq Paths /\ Target \in Paths
      /\ T.op = "REPLICATE" => Source \in Paths /\ Source # Target
      /\ held \in Maybe
  BY <1>3, HandTyped DEF IInv, CatalogueTypeOK
<1>5. \/ c = held
      \/ T.op = "REPLICATE" /\ c = files[Source]
      \/ Target \in stray /\ c = files[Target]
  BY DEF Arrives
<1>6. CatalogueTypeOK'
  <2>1. files' \in [Paths -> Maybe] /\ held' \in Maybe /\ stray' \subseteq Paths
    BY <1>1, <1>2, <1>4, <1>5 DEF Maybe
  <2>. QED
    BY <1>1, <2>1 DEF IInv, CatalogueTypeOK, Step
<1>7. UNCHANGED <<T, Target, Source, Doomed>>
  BY <1>1 DEF T, Target, Source, Doomed, RowsOf
<1>8. Stage'
  BY <1>1, <1>3, <1>7 DEF IInv, Stage, Created
<1>9. Cuts'
  <2>1. ASSUME NEW a \in Assets, NEW m \in Mounts, files'[<<a, m>>] = Cut PROVE a \in broken
    <3>1. CASE <<a, m>> # Target
      BY <1>2, <1>4, <2>1, <3>1 DEF IInv, Cuts, Paths
    <3>2. CASE <<a, m>> = Target
      <4>1. c = Cut /\ a = T.asset
        BY <1>2, <1>4, <2>1, <3>2 DEF Target
      <4>2. CASE c = held
        BY <1>1, <4>1, <4>2 DEF IInv, Cuts
      <4>3. CASE T.op = "REPLICATE" /\ c = files[Source]
        BY <1>4, <4>1, <4>3 DEF IInv, Cuts, Source, Paths
      <4>4. CASE Target \in stray /\ c = files[Target]
        BY <3>2, <4>1, <4>4 DEF IInv, Cuts
      <4>. QED
        BY <1>5, <4>2, <4>3, <4>4
    <3>. QED
      BY <3>1, <3>2
  <2>. QED
    BY <1>1, <2>1 DEF Cuts
<1>10. Seen'
  <2>1. Target \notin stray' => files'[Target] = meta
    BY <1>1, <1>2, <1>3, <1>4, <1>5 DEF IInv, Seen
  <2>. QED
    BY <1>1, <1>7, <2>1 DEF Seen
<1>11. DriftIsExplained'
  <2>1. Touched' = {Target} /\ Touched = {Target}
    BY <1>1, <1>7 DEF Touched
  <2>. QED
    BY <1>1, <1>2, <1>3, <1>4, <2>1 DEF IInv, DriftIsExplained, Agree
<1>. QED
  BY <1>1, <1>6, <1>8, <1>9, <1>10, <1>11, RowsStay DEF IInv, rows

LEMMA RegisterKeeps ==
  ASSUME IInv, Register
  PROVE  IInv'
<1>1. /\ at = "copied" /\ at' = "registered" /\ meta' = None
      /\ replica' = [replica EXCEPT ![Target] = [state |-> "AVAILABLE", content |-> meta]]
      /\ asset' = IF T.op = "UPLOAD" THEN [asset EXCEPT ![T.asset] = "ACTIVE"] ELSE asset
      /\ UNCHANGED <<files, tasks, cur, held, left, seen, where, razing, stray, broken, edits, mishaps>>
  BY DEF Register, Goto, disk, history, bounds
<1>2. /\ cur # 0 /\ T.op \in {"REPLICATE", "UPLOAD"} /\ meta # None
      /\ T.op = "REPLICATE" => T.linked
  BY <1>1 DEF IInv, Stage
<1>3. /\ Target \in Paths /\ T.asset \in Assets /\ T.mount \in Mounts
      /\ T.op = "REPLICATE" /\ T.linked => replica[Source] # None /\ T.source \in Mounts
      /\ replica \in [Paths -> Replica \cup {None}]
      /\ asset \in [Assets -> {"none", "ACTIVE", "DELETE_PENDING"}]
  BY <1>2, HandTyped DEF IInv, CatalogueTypeOK, Shape, LinkHolds, Source
<1>4. [state |-> "AVAILABLE", content |-> meta] \in Replica
  BY <1>2 DEF IInv, CatalogueTypeOK, Maybe, Replica
<1>5. CatalogueTypeOK'
  <2>1. replica' \in [Paths -> Replica \cup {None}]
        /\ asset' \in [Assets -> {"none", "ACTIVE", "DELETE_PENDING"}]
    BY <1>1, <1>3, <1>4
  <2>. QED
    BY <1>1, <2>1 DEF IInv, CatalogueTypeOK, Step, Maybe
<1>6. /\ \A p \in Paths : replica'[p] # None <=> replica[p] # None \/ p = Target
      /\ \A a \in Assets : asset'[a] # "none" <=> asset[a] # "none" \/ (a = T.asset /\ T.op = "UPLOAD")
      /\ \A a \in Assets : asset'[a] = "DELETE_PENDING" => asset[a] = "DELETE_PENDING"
  BY <1>1, <1>3, <1>4, NonesDiffer
<1>7. TasksOK'
  <2>. SUFFICES ASSUME NEW t \in Created PROVE Shape(tasks[t])' /\ LinkHolds(tasks[t])'
    BY <1>1 DEF TasksOK, Created
  <2>1. tasks[t].asset \in Assets /\ Shape(tasks[t]) /\ LinkHolds(tasks[t])
    BY TaskTyped DEF IInv, TasksOK
  <2>. QED
    BY <1>1, <1>6, <2>1 DEF Shape, LinkHolds, Paths
<1>8. AssetKeepsReplica'
  <2>. SUFFICES ASSUME NEW a \in Assets PROVE asset'[a] # "none" <=> \E m \in Mounts : replica'[<<a, m>>] # None
    BY DEF AssetKeepsReplica, RowsOf
  <2>1. asset[a] # "none" <=> \E m \in Mounts : replica[<<a, m>>] # None
    BY DEF IInv, AssetKeepsReplica, RowsOf
  <2>2. CASE a # T.asset
    BY <1>6, <2>1, <2>2 DEF Target, Paths
  <2>3. CASE a = T.asset
    <3>1. asset'[a] # "none"
      BY <1>2, <1>3, <1>6, <2>1, <2>3 DEF Source
    <3>2. replica'[<<a, T.mount>>] # None
      BY <1>3, <1>6, <2>3 DEF Target
    <3>. QED
      BY <1>3, <3>1, <3>2
  <2>. QED
    BY <2>2, <2>3
<1>9. PendingHasTask'
  BY <1>1, <1>6 DEF IInv, PendingHasTask, Created
<1>10. Stage' /\ Cuts' /\ Seen'
  <2>1. UNCHANGED <<T, Target>>
    BY <1>1 DEF T, Target
  <2>. QED
    BY <1>1, <1>2, <2>1 DEF IInv, Stage, Cuts, Seen, Created
<1>11. DriftIsExplained'
  <2>1. Touched' = {} /\ Touched = {Target}
    BY <1>1 DEF Touched
  <2>2. Target \notin stray => files[Target] = meta
    BY <1>1 DEF IInv, Seen
  <2>. QED
    BY <1>1, <1>2, <1>3, <2>1, <2>2 DEF IInv, DriftIsExplained, Agree
<1>. QED
  BY <1>5, <1>7, <1>8, <1>9, <1>10, <1>11 DEF IInv

LEMMA CleanStagingKeeps ==
  ASSUME IInv, CleanStaging
  PROVE  IInv'
<1>1. /\ at = "registered" /\ at' = "cleaned" /\ T.op = "UPLOAD"
      /\ tasks' = [tasks EXCEPT ![cur].content = None]
      /\ UNCHANGED <<files, asset, replica, cur, meta, held, left, seen, where, razing, stray, broken, edits, mishaps>>
  BY DEF CleanStaging, Goto, disk, rows, history, bounds
<1>2. cur # 0
  BY <1>1 DEF IInv, Stage
<1>3. tasks \in [TaskIds -> Task \cup {None}] /\ T \in Task /\ T = tasks[cur] /\ cur \in TaskIds /\ cur \in Created
  BY <1>2, HandTyped DEF IInv, CatalogueTypeOK
<1>4. [T EXCEPT !.content = None] \in Task
  BY <1>3 DEF Task, Maybe
<1>5. tasks' \in [TaskIds -> Task \cup {None}] /\ Created' = Created
  BY <1>1, <1>3, <1>4, NonesDiffer DEF Created
<1>6. /\ \A u \in Created \ {cur} : tasks'[u] = tasks[u]
      /\ tasks'[cur] = [T EXCEPT !.content = None]
  BY <1>1, <1>3 DEF Created
<1>7. /\ \A f \in {"op", "asset", "mount", "source", "linked", "mark", "status"} : tasks'[cur][f] = tasks[cur][f]
      /\ tasks'[cur].content = None
  BY <1>3, <1>6 DEF Task
<1>8. SameJobs
  BY <1>5, <1>6, <1>7 DEF SameJobs
<1>9. CatalogueTypeOK'
  BY <1>1, <1>5 DEF IInv, CatalogueTypeOK, Step
<1>10. Stage' /\ Cuts' /\ Seen'
  BY <1>1, <1>2, <1>3, <1>5, <1>7 DEF IInv, Stage, Cuts, Seen, T
<1>11. DriftIsExplained'
  BY <1>1, <1>2 DEF IInv, DriftIsExplained, Agree, Touched
<1>. QED
  BY <1>1, <1>8, <1>9, <1>10, <1>11, JobsStay DEF IInv, rows

-----------------------------------------------------------------------------
(***************************************************************************)
(* Deletions.                                                              *)
(***************************************************************************)
LEMMA BeginDeletionKeeps ==
  ASSUME IInv, BeginDeletion
  PROVE  IInv'
<1>1. /\ at = "begun" /\ at' = "deleting" /\ T.op \in {"DELETE_REPLICA", "DELETE_ASSET"}
      /\ left' = Doomed
      /\ UNCHANGED <<files, asset, replica, tasks, cur, meta, held, seen, where, razing, stray, broken, edits, mishaps>>
  BY DEF BeginDeletion, Goto, disk, rows, history, bounds
<1>2. cur # 0 /\ Doomed \subseteq Mounts
  BY <1>1, HandTyped DEF IInv, Stage
<1>3. CatalogueTypeOK'
  BY <1>1, <1>2 DEF IInv, CatalogueTypeOK, Step
<1>4. UNCHANGED <<T, Target, Source, Doomed>>
  BY <1>1 DEF T, Target, Source, Doomed, RowsOf
<1>5. Touched' = {} /\ Touched = {}
  BY <1>1, <1>4 DEF Touched
<1>6. Stage' /\ Cuts' /\ Seen'
  BY <1>1, <1>2, <1>4, <1>5 DEF IInv, Stage, Cuts, Seen, Created
<1>7. DriftIsExplained'
  BY <1>1, <1>2, <1>5 DEF IInv, DriftIsExplained, Agree
<1>. QED
  BY <1>1, <1>3, <1>6, <1>7, RowsStay DEF IInv, rows

LEMMA DeleteFileKeeps ==
  ASSUME IInv, NEW m \in Mounts, DeleteFile(m)
  PROVE  IInv'
<1>1. /\ at = "deleting" /\ m \in left
      /\ files' = [files EXCEPT ![<<T.asset, m>>] = None]
      /\ stray' = stray \ {<<T.asset, m>>}
      /\ left' = left \ {m}
      /\ at' = (IF left' = {} THEN "dropped" ELSE at)
      /\ UNCHANGED <<asset, replica, tasks, cur, meta, held, seen, where, razing, broken, edits, mishaps>>
  BY DEF DeleteFile, rows, bounds
<1>2. /\ cur # 0 /\ T.asset \in Assets /\ left \subseteq Doomed
      /\ T.op \in {"DELETE_REPLICA", "DELETE_ASSET"}
      /\ files \in [Paths -> Maybe] /\ <<T.asset, m>> \in Paths
  BY <1>1, HandTyped DEF IInv, Stage, CatalogueTypeOK, Paths
<1>3. CatalogueTypeOK'
  <2>1. files' \in [Paths -> Maybe]
    BY <1>1, <1>2 DEF Maybe
  <2>. QED
    BY <1>1, <2>1 DEF IInv, CatalogueTypeOK, Step
<1>4. UNCHANGED <<T, Target, Source, Doomed>>
  BY <1>1 DEF T, Target, Source, Doomed, RowsOf
<1>5. at' \in {"deleting", "dropped"}
  BY <1>1
<1>6. Touched' = Touched \cup {<<T.asset, m>>}
  <2>1. Touched = {T.asset} \X (Doomed \ left)
    BY <1>1 DEF Touched
  <2>2. Touched' = {T.asset} \X (Doomed \ left')
    BY <1>4, <1>5 DEF Touched
  <2>3. Doomed \ left' = (Doomed \ left) \cup {m}
    BY <1>1, <1>2
  <2>. QED
    BY <2>1, <2>2, <2>3
<1>7. Stage'
  BY <1>1, <1>2, <1>4, <1>5 DEF IInv, Stage, Created
<1>8. Cuts'
  BY <1>1, <1>2, <1>4, <1>5, NonesDiffer DEF IInv, Cuts, Content, Paths
<1>9. Seen'
  <2>1. \A p \in Touched' \ stray' : files'[p] = None
    <3>. SUFFICES ASSUME NEW p \in Touched' \ stray' PROVE files'[p] = None
      OBVIOUS
    <3>1. CASE p = <<T.asset, m>>
      BY <1>1, <1>2, <3>1
    <3>2. CASE p # <<T.asset, m>>
      <4>1. p \in Touched \ stray /\ p \in Paths
        BY <1>1, <1>2, <1>6, <3>2, TouchedTyped
      <4>. QED
        BY <1>1, <1>2, <3>2, <4>1 DEF IInv, Seen
    <3>. QED
      BY <3>1, <3>2
  <2>. QED
    BY <1>5, <2>1 DEF Seen
<1>10. DriftIsExplained'
  <2>. SUFFICES ASSUME NEW p \in Paths, p \notin stray', p \notin Touched' PROVE Agree(p)'
    BY <1>1, <1>2 DEF DriftIsExplained
  <2>1. p # <<T.asset, m>> /\ p \notin stray /\ p \notin Touched
    BY <1>1, <1>6
  <2>2. files'[p] = files[p]
    BY <1>1, <1>2, <2>1
  <2>. QED
    BY <1>1, <1>2, <2>1, <2>2 DEF IInv, DriftIsExplained, Agree
<1>. QED
  BY <1>1, <1>3, <1>7, <1>8, <1>9, <1>10, RowsStay DEF IInv, rows

LEMMA DropRowsKeeps ==
  ASSUME IInv, DropRows
  PROVE  IInv'
<1>. DEFINE gone == {T.asset} \X Doomed
            assetsGone == {T.asset} \cap AssetsWithout(gone)
<1>1. /\ at = "dropped" /\ at' = "cleaned"
      /\ replica' = [p \in Paths |-> IF p \in gone THEN None ELSE replica[p]]
      /\ asset' = [a \in Assets |-> IF a \in assetsGone THEN "none" ELSE asset[a]]
      /\ tasks' = Unlink(gone, assetsGone)
      /\ UNCHANGED <<files, cur, meta, held, left, seen, where, razing, stray, broken, edits, mishaps>>
  BY DEF DropRows, Goto, disk, history, bounds
<1>2. /\ cur # 0 /\ cur \in Created /\ T = tasks[cur] /\ T.asset \in Assets
      /\ T.op \in {"DELETE_REPLICA", "DELETE_ASSET"} /\ Doomed \subseteq Mounts /\ left = {}
  BY <1>1, HandTyped DEF IInv, Stage
<1>3. /\ tasks \in [TaskIds -> Task \cup {None}]
      /\ replica \in [Paths -> Replica \cup {None}]
      /\ asset \in [Assets -> {"none", "ACTIVE", "DELETE_PENDING"}]
      /\ \A t \in Created : tasks[t] \in Task /\ t \in TaskIds
  BY TaskTyped DEF IInv, CatalogueTypeOK
<1>4. gone \subseteq Paths
  BY <1>2 DEF Paths
<1>5. /\ \A p \in Paths : replica'[p] = IF p \in gone THEN None ELSE replica[p]
      /\ \A a \in Assets : asset'[a] = IF a \in assetsGone THEN "none" ELSE asset[a]
  BY <1>1
<1>6. \A a \in Assets, m \in Mounts : <<a, m>> \in gone <=> a = T.asset /\ m \in Doomed
  OBVIOUS
<1>7. T.asset \in assetsGone <=> \A m \in Mounts : replica'[<<T.asset, m>>] = None
  BY <1>2, <1>5 DEF AssetsWithout, RowsOf, Paths
<1>. HIDE DEF gone, assetsGone
<1>8. \A t \in Created : tasks'[t] = IF Names(tasks[t], gone, assetsGone)
                                     THEN [tasks[t] EXCEPT !.linked = FALSE] ELSE tasks[t]
  BY <1>1, <1>3 DEF Unlink
<1>9. \A t \in Created :
        /\ tasks'[t] \in Task
        /\ \A f \in {"op", "asset", "mount", "source", "content", "mark", "status"} : tasks'[t][f] = tasks[t][f]
        /\ tasks'[t].linked <=> tasks[t].linked /\ ~Names(tasks[t], gone, assetsGone)
  <2>. TAKE t \in Created
  <2>1. tasks[t] \in Task /\ tasks[t].linked \in BOOLEAN
    BY <1>3 DEF Task
  <2>2. CASE Names(tasks[t], gone, assetsGone)
    <3>1. tasks'[t] = [tasks[t] EXCEPT !.linked = FALSE]
      BY <1>8, <2>2
    <3>2. tasks'[t] \in Task /\ ~tasks'[t].linked
      BY <2>1, <3>1 DEF Task
    <3>3. \A f \in {"op", "asset", "mount", "source", "content", "mark", "status"} : tasks'[t][f] = tasks[t][f]
      BY <2>1, <3>1 DEF Task
    <3>. QED
      BY <2>2, <3>2, <3>3
  <2>3. CASE ~Names(tasks[t], gone, assetsGone)
    BY <1>8, <2>1, <2>3
  <2>. QED
    BY <2>2, <2>3
<1>10. tasks' \in [TaskIds -> Task \cup {None}] /\ Created' = Created
  <2>1. \A t \in TaskIds \ Created : tasks'[t] = None
    BY <1>1 DEF Unlink, Created
  <2>2. tasks' = [t \in TaskIds |-> tasks'[t]]
    BY <1>1 DEF Unlink
  <2>. QED
    BY <1>9, <2>1, <2>2, NonesDiffer DEF Created
<1>11. CatalogueTypeOK'
  <2>1. replica' \in [Paths -> Replica \cup {None}]
        /\ asset' \in [Assets -> {"none", "ACTIVE", "DELETE_PENDING"}]
    BY <1>1, <1>3
  <2>. QED
    BY <1>1, <1>10, <2>1 DEF IInv, CatalogueTypeOK, Step
<1>12. TasksOK'
  <2>. SUFFICES ASSUME NEW t \in Created PROVE Shape(tasks[t])' /\ LinkHolds(tasks[t])'
    BY <1>10 DEF TasksOK
  <2>1. tasks[t].asset \in Assets /\ Shape(tasks[t]) /\ LinkHolds(tasks[t])
    BY TaskTyped DEF IInv, TasksOK
  <2>2. /\ tasks'[t].op = tasks[t].op /\ tasks'[t].asset = tasks[t].asset
        /\ tasks'[t].mount = tasks[t].mount /\ tasks'[t].source = tasks[t].source
        /\ tasks'[t].content = tasks[t].content /\ tasks'[t].mark = tasks[t].mark
        /\ tasks'[t].status = tasks[t].status
        /\ tasks'[t].linked => tasks[t].linked /\ ~Names(tasks[t], gone, assetsGone)
    BY <1>9
  <2>3. Shape(tasks[t])'
    BY <2>1, <2>2 DEF Shape
  <2>4. LinkHolds(tasks[t])'
    BY <1>5, <2>1, <2>2 DEF Shape, LinkHolds, Names, Paths
  <2>. QED
    BY <2>3, <2>4
<1>13. AssetKeepsReplica'
  <2>. SUFFICES ASSUME NEW a \in Assets PROVE asset'[a] # "none" <=> \E m \in Mounts : replica'[<<a, m>>] # None
    BY DEF AssetKeepsReplica, RowsOf
  <2>1. asset[a] # "none" <=> \E m \in Mounts : replica[<<a, m>>] # None
    BY DEF IInv, AssetKeepsReplica, RowsOf
  <2>2. \A m \in Mounts : <<a, m>> \in Paths
    BY DEF Paths
  <2>3. CASE a # T.asset
    <3>1. a \notin assetsGone
      BY <2>3 DEF assetsGone
    <3>. QED
      BY <1>5, <1>6, <2>1, <2>2, <2>3, <3>1
  <2>4. CASE a = T.asset
    BY <1>5, <1>7, <2>1, <2>2, <2>4
  <2>. QED
    BY <2>3, <2>4
<1>14. PendingHasTask'
  <2>. SUFFICES ASSUME NEW a \in Assets, asset'[a] = "DELETE_PENDING"
                PROVE  \E t \in Created : /\ tasks'[t].op = "DELETE_ASSET" /\ tasks'[t].asset = a
                                          /\ tasks'[t].linked /\ tasks'[t].status # "COMPLETED"
    BY <1>10 DEF PendingHasTask
  <2>1. asset[a] = "DELETE_PENDING" /\ a \notin assetsGone
    BY <1>5
  <2>2. PICK t \in Created : /\ tasks[t].op = "DELETE_ASSET" /\ tasks[t].asset = a
                             /\ tasks[t].linked /\ tasks[t].status # "COMPLETED"
    BY <2>1 DEF IInv, PendingHasTask
  <2>3. ~Names(tasks[t], gone, assetsGone)
    BY <2>1, <2>2 DEF Names
  <2>. QED
    BY <1>9, <2>2, <2>3
<1>15. /\ cur \in Created' /\ tasks'[cur].op = T.op
       /\ T.op = "DELETE_ASSET" => ~tasks'[cur].linked
  <2>1. T.op = "DELETE_ASSET" => T.asset \in assetsGone
    BY <1>2, <1>5, <1>6, <1>7 DEF Doomed, RowsOf, Paths
  <2>. QED
    BY <1>2, <1>9, <1>10, <2>1 DEF Names
<1>16. Stage' /\ Cuts' /\ Seen'
  BY <1>1, <1>2, <1>15 DEF IInv, Stage, Cuts, Seen, T
<1>17. DriftIsExplained'
  <2>1. Touched' = {} /\ Touched = gone
    BY <1>1, <1>2 DEF Touched, gone
  <2>. SUFFICES ASSUME NEW p \in Paths, p \notin stray PROVE Agree(p)'
    BY <1>1, <2>1 DEF DriftIsExplained
  <2>2. CASE p \in gone
    BY <1>1, <1>5, <2>1, <2>2 DEF IInv, Seen, Agree
  <2>3. CASE p \notin gone
    BY <1>1, <1>2, <1>5, <2>1, <2>3 DEF IInv, DriftIsExplained, Agree
  <2>. QED
    BY <2>2, <2>3
<1>. QED
  BY <1>11, <1>12, <1>13, <1>14, <1>16, <1>17 DEF IInv

-----------------------------------------------------------------------------
(***************************************************************************)
(* Scans.                                                                  *)
(***************************************************************************)
LEMMA WalkKeeps ==
  ASSUME IInv, NEW m \in Mounts, Walk(m)
  PROVE  IInv'
<1>1. /\ at = "idle" /\ at' = "walked" /\ where' = m
      /\ seen' = [a \in Assets |-> files[<<a, m>>]]
      /\ UNCHANGED <<files, asset, replica, tasks, cur, meta, held, left, razing, stray, broken, edits, mishaps>>
  BY DEF Walk, disk, rows, history, bounds
<1>2. cur = 0
  BY <1>1 DEF IInv, Stage
<1>3. seen' \in [Assets -> Maybe]
  BY <1>1 DEF IInv, CatalogueTypeOK, Paths
<1>4. CatalogueTypeOK'
  BY <1>1, <1>3 DEF IInv, CatalogueTypeOK, Step
<1>5. Stage' /\ Cuts' /\ Seen'
  BY <1>1, <1>2, <1>3 DEF IInv, Stage, Cuts, Seen
<1>6. DriftIsExplained'
  BY <1>1, <1>2 DEF IInv, DriftIsExplained, Agree
<1>. QED
  BY <1>1, <1>4, <1>5, <1>6, RowsStay DEF IInv, rows

LEMMA IndexKeeps ==
  ASSUME IInv, Index
  PROVE  IInv'
<1>1. /\ at = "walked"
      /\ asset' = [a \in Assets |-> IF seen[a] # None THEN "ACTIVE" ELSE asset[a]]
      /\ replica' = [p \in Paths |->
           IF p[2] # where THEN replica[p]
           ELSE IF seen[p[1]] # None THEN [state |-> "AVAILABLE", content |-> seen[p[1]]]
           ELSE Missing(replica[p])]
      /\ stray' = {p \in stray : p[2] # where \/ files[p] # seen[p[1]]}
      /\ Idle
      /\ UNCHANGED <<files, tasks, razing, broken, edits, mishaps>>
  BY DEF Index, disk, bounds
<1>2. cur = 0 /\ seen \in [Assets -> Maybe] /\ where \in Mounts
  BY <1>1 DEF IInv, Stage
<1>3. /\ replica \in [Paths -> Replica \cup {None}]
      /\ asset \in [Assets -> {"none", "ACTIVE", "DELETE_PENDING"}]
      /\ stray \subseteq Paths
  BY DEF IInv, CatalogueTypeOK
<1>4. \A p \in Paths : p[1] \in Assets /\ p[2] \in Mounts /\ p = <<p[1], p[2]>>
  BY DEF Paths
<1>5. ASSUME NEW row \in Replica PROVE Missing(row) = [state |-> "MISSING", content |-> row.content] /\ Missing(row) \in Replica
  <2>1. row # None
    BY NonesDiffer
  <2>. QED
    BY <2>1 DEF Missing, Replica
<1>6. Missing(None) = None
  BY DEF Missing
<1>7. \A a \in Assets : seen[a] # None => [state |-> "AVAILABLE", content |-> seen[a]] \in Replica
  BY <1>2 DEF Replica, Maybe
<1>8. ASSUME NEW p \in Paths
      PROVE  /\ replica'[p] \in Replica \cup {None}
             /\ replica'[p] # None <=> replica[p] # None \/ (p[2] = where /\ seen[p[1]] # None)
  <2>1. CASE p[2] # where
    BY <1>1, <1>3, <2>1
  <2>2. CASE p[2] = where /\ seen[p[1]] # None
    BY <1>1, <1>4, <1>7, <2>2, NonesDiffer
  <2>3. CASE p[2] = where /\ seen[p[1]] = None
    <3>1. replica'[p] = Missing(replica[p])
      BY <1>1, <2>3
    <3>. QED
      BY <1>3, <1>5, <1>6, <2>3, <3>1, NonesDiffer
  <2>. QED
    BY <2>1, <2>2, <2>3
<1>9. replica' \in [Paths -> Replica \cup {None}]
      /\ asset' \in [Assets -> {"none", "ACTIVE", "DELETE_PENDING"}]
  <2>1. replica' = [p \in Paths |-> replica'[p]]
    BY <1>1
  <2>. QED
    BY <1>1, <1>3, <1>8, <2>1
<1>10. CatalogueTypeOK'
  <2>1. at' \in Step /\ cur' = 0 /\ meta' = None /\ held' = None /\ left' = {} /\ seen' = None /\ where' = None
    BY <1>1 DEF Idle, Step
  <2>. QED
    BY <1>1, <1>9, <2>1 DEF IInv, CatalogueTypeOK, Maybe
<1>11. /\ \A a \in Assets : asset'[a] = IF seen[a] # None THEN "ACTIVE" ELSE asset[a]
       /\ \A a \in Assets, m \in Mounts :
            replica'[<<a, m>>] # None <=> replica[<<a, m>>] # None \/ (m = where /\ seen[a] # None)
  BY <1>1, <1>8 DEF Paths
<1>12. TasksOK'
  <2>. SUFFICES ASSUME NEW t \in Created PROVE Shape(tasks[t])' /\ LinkHolds(tasks[t])'
    BY <1>1 DEF TasksOK, Created
  <2>1. tasks[t].asset \in Assets /\ Shape(tasks[t]) /\ LinkHolds(tasks[t])
    BY TaskTyped DEF IInv, TasksOK
  <2>2. tasks' = tasks
    BY <1>1
  <2>3. Shape(tasks[t])'
    BY <2>1, <2>2 DEF Shape
  <2>4. LinkHolds(tasks[t])'
    BY <1>11, <2>1, <2>2 DEF Shape, LinkHolds
  <2>. QED
    BY <2>3, <2>4
<1>13. AssetKeepsReplica'
  <2>. SUFFICES ASSUME NEW a \in Assets PROVE asset'[a] # "none" <=> \E m \in Mounts : replica'[<<a, m>>] # None
    BY DEF AssetKeepsReplica, RowsOf
  <2>1. asset[a] # "none" <=> \E m \in Mounts : replica[<<a, m>>] # None
    BY DEF IInv, AssetKeepsReplica, RowsOf
  <2>. QED
    BY <1>2, <1>11, <2>1
<1>14. PendingHasTask'
  BY <1>1, <1>11 DEF IInv, PendingHasTask, Created
<1>15. Stage' /\ Cuts' /\ Seen'
  BY <1>1 DEF Idle, IInv, Stage, Cuts, Seen
<1>16. DriftIsExplained'
  <2>. SUFFICES ASSUME NEW p \in Paths, p \notin stray' PROVE Agree(p)'
    BY DEF DriftIsExplained
  <2>1. CASE p[2] # where
    BY <1>1, <1>2, <2>1 DEF IInv, DriftIsExplained, Agree
  <2>2. CASE p[2] = where
    <3>1. files[p] = seen[p[1]]
      <4>1. p \notin stray => files[p] = seen[p[1]]
        BY <1>1, <1>4, <2>2 DEF IInv, Seen
      <4>. QED
        BY <1>1, <2>2, <4>1
    <3>2. CASE seen[p[1]] # None
      BY <1>1, <2>2, <3>1, <3>2 DEF Agree
    <3>3. CASE seen[p[1]] = None
      <4>1. replica'[p] = Missing(replica[p])
        BY <1>1, <2>2, <3>3
      <4>2. replica'[p] = None \/ replica'[p] = [state |-> "MISSING", content |-> replica'[p].content]
        <5>1. CASE replica[p] = None
          BY <1>6, <4>1, <5>1
        <5>2. CASE replica[p] # None
          BY <1>3, <1>5, <4>1, <5>2
        <5>. QED
          BY <5>1, <5>2
      <4>. QED
        BY <1>1, <3>1, <3>3, <4>2 DEF Agree
    <3>. QED
      BY <3>2, <3>3
  <2>. QED
    BY <2>1, <2>2
<1>. QED
  BY <1>10, <1>12, <1>13, <1>14, <1>15, <1>16 DEF IInv

-----------------------------------------------------------------------------
LEMMA StepKeeps == IInv /\ [CatalogueNext]_vars => IInv'
<1>. SUFFICES ASSUME IInv, [CatalogueNext]_vars PROVE IInv'
  OBVIOUS
<1>1. CASE Request
  BY <1>1, RequestKeeps
<1>2. CASE Raze
  BY <1>2, RazeKeeps
<1>3. CASE Execute
  BY <1>3, StatSourceKeeps, OpenTargetKeeps, CopyEndsKeeps, RegisterKeeps, CleanStagingKeeps,
     BeginDeletionKeeps, DropRowsKeeps, FinishKeeps, DeleteFileKeeps DEF Execute
<1>4. CASE Fail \/ Crash \/ Index
  BY <1>4, FailKeeps, CrashKeeps, IndexKeeps
<1>5. CASE \E t \in TaskIds : Begin(t)
  BY <1>5, BeginKeeps
<1>6. CASE \E m \in Mounts : Walk(m)
  BY <1>6, WalkKeeps
<1>7. CASE \E a \in Assets, m \in Mounts : Edit(a, m)
  BY <1>7, EditKeeps
<1>8. CASE UNCHANGED vars
  <2>1. UNCHANGED <<disk, rows, tasks, worker, razing, history, bounds>>
    BY <1>8 DEF vars
  <2>2. CatalogueTypeOK'
    BY <2>1 DEF IInv, CatalogueTypeOK, disk, rows, worker, history, bounds
  <2>3. SameHand
    BY <2>1 DEF SameHand, IInv, Stage, Created
  <2>. QED
    BY <2>1, <2>2, <2>3, RowsStay, HandStays DEF IInv, disk, rows
<1>. QED
  BY <1>1, <1>2, <1>3, <1>4, <1>5, <1>6, <1>7, <1>8 DEF CatalogueNext

THEOREM Invariance == CatalogueSpec => []IInv
BY InitHolds, StepKeeps, PTL DEF CatalogueSpec

\* Every variable of the catalogue keeps its type, for any assets, mounts and bounds.
THEOREM CatalogueTyped == CatalogueSpec => []CatalogueTypeOK
<1>1. IInv => CatalogueTypeOK
  BY DEF IInv
<1>. QED
  BY <1>1, Invariance, PTL

\* Assets and replicas come and go together: no scan, upload or deletion leaves
\* an asset without a row of asset_replicas, or a row without its asset.
THEOREM AssetsKeepReplicas == CatalogueSpec => []AssetKeepsReplica
<1>1. IInv => AssetKeepsReplica
  BY DEF IInv
<1>. QED
  BY <1>1, Invariance, PTL

\* Rows and files differ only where somebody else changed a file, or an item was
\* stopped half-way, and no scan has come by since.
THEOREM DriftsAreExplained == CatalogueSpec => []DriftIsExplained
<1>1. IInv => DriftIsExplained
  BY DEF IInv
<1>. QED
  BY <1>1, Invariance, PTL

\* Completed copies leave no truncated file.
THEOREM CutsAreInterruptions == CatalogueSpec => []CutIsFromInterruption
<1>1. IInv => CutIsFromInterruption
  BY DEF IInv, Cuts, CutIsFromInterruption, Target
<1>. QED
  BY <1>1, Invariance, PTL

\* DELETE_PENDING is never without a job that has still to delete the asset.
THEOREM PendingHaveTasks == CatalogueSpec => []PendingHasTask
<1>1. IInv => PendingHasTask
  BY DEF IInv
<1>. QED
  BY <1>1, Invariance, PTL
=============================================================================
