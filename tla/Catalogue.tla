------------------------------ MODULE Catalogue ------------------------------
(***************************************************************************)
(* The catalogue of assets and replicas, and the files it describes        *)
(* (services/center/internal/assets).  A row of asset_replicas says that a *)
(* mount holds a file with a given content; copies, uploads and deletions  *)
(* change the file first and the row afterwards, in a transaction of its   *)
(* own, and a scan rewrites the rows of a mount from what it finds there.  *)
(*                                                                         *)
(* All of that is done by the one worker of the job engine, one item at a  *)
(* time.  What runs beside it: the handlers that plan jobs from the rows   *)
(* as they are when the user asks, the handler that deletes a directory at *)
(* once, and whoever changes the files without the program.  The worker    *)
(* may be stopped between any two of its steps.                            *)
(*                                                                         *)
(* A job is one item here and its queue has no order (JobEngine has both); *)
(* the assets share one directory; sizes and times of modification are the *)
(* content they tell apart.                                                *)
(***************************************************************************)
EXTENDS Naturals, FiniteSets

CONSTANTS
  Assets,     \* logical paths of one library
  Mounts,     \* writable mounts of that library, LOCAL unless
  Nas,        \* ... they are on a NAS
  Versions,   \* contents a file may have
  Cut,        \* what a copy that was broken off leaves
  None,       \* no file, no row, no task
  MaxTasks,   \* bound: jobs that are ever created
  MaxEdits,   \* bound: changes made behind the program's back
  MaxMishaps  \* bound: crashes, calls that fail by themselves, failed jobs retried

ASSUME CatalogueAssumption ==
  /\ Nas \subseteq Mounts
  /\ Mounts # {} /\ IsFiniteSet(Mounts)
  /\ Cut \notin Versions
  /\ None \notin Versions /\ None # Cut
  /\ {MaxTasks, MaxEdits, MaxMishaps} \subseteq Nat

Content == Versions \cup {Cut}
Maybe   == Content \cup {None}
Paths   == Assets \X Mounts
TaskIds == 1 .. MaxTasks

VARIABLES
  files,       \* what is on the mounts
  asset,       \* assets.lifecycle_state, "none" when there is no row
  replica,     \* rows of asset_replicas: state, and the content last recorded
  tasks,       \* job items; `linked` while the row they name is that same row
  at,          \* where the worker stands
  cur,         \* the item it executes (0: none)
  meta,        \* what StatFile found
  held,        \* what the opened source holds
  left,        \* mounts whose file is still to be deleted
  seen,        \* what the scan has found on the mount it walks
  where,       \* that mount
  razing,      \* mounts a directory removal has yet to visit, None when none is on
  stray,       \* history: paths changed, or left half done, since rows and files agreed
  broken,      \* history: assets a copy of which was broken off
  edits, mishaps

disk    == <<files>>
rows    == <<asset, replica>>
worker  == <<at, cur, meta, held, left, seen, where>>
history == <<stray, broken>>
bounds  == <<edits, mishaps>>
vars    == <<disk, rows, tasks, worker, razing, history, bounds>>

Replica == [state : {"AVAILABLE", "MISSING"}, content : Content]

\* mount: the target; source: the mount copied from; content: the staged bytes;
\* mark: DeleteEntry has yet to set DELETE_PENDING.
Task == [op : {"REPLICATE", "UPLOAD", "DELETE_REPLICA", "DELETE_ASSET"},
         asset : Assets, mount : Mounts \cup {None}, source : Mounts \cup {None},
         content : Maybe,
         status : {"QUEUED", "RUNNING", "COMPLETED", "FAILED"},
         linked : BOOLEAN, mark : BOOLEAN]

Step == {"idle", "begun", "stated", "copying", "copied", "registered", "cleaned",
         "deleting", "dropped", "walked"}

ASSUME NoneAssumption == None \notin Replica \cup Task \cup Mounts

RowsOf(a)   == {m \in Mounts : replica[<<a, m>>] # None}
Available(a) == {m \in RowsOf(a) : replica[<<a, m>>].state = "AVAILABLE"}
Created     == {t \in TaskIds : tasks[t] # None}

\* The catalogue as a scan of every mount has left it.
CatalogueInit ==
  /\ files \in [Paths -> Versions \cup {None}]
  /\ asset = [a \in Assets |-> IF \E m \in Mounts : files[<<a, m>>] # None THEN "ACTIVE" ELSE "none"]
  /\ replica = [p \in Paths |-> IF files[p] = None THEN None
                                ELSE [state |-> "AVAILABLE", content |-> files[p]]]
  /\ tasks = [t \in TaskIds |-> None]
  /\ at = "idle" /\ cur = 0 /\ meta = None /\ held = None /\ left = {}
  /\ seen = None /\ where = None /\ razing = None
  /\ stray = {} /\ broken = {}
  /\ edits = 0 /\ mishaps = 0

-----------------------------------------------------------------------------
(***************************************************************************)
(* Requests.  The handler plans from the rows it reads and creates the job *)
(* in a transaction that refuses links to rows that have gone, so nothing  *)
(* lies between the plan and the job that could not lie after both.        *)
(***************************************************************************)
NewTask(op, a, m, s, c) ==
  [op |-> op, asset |-> a, mount |-> m, source |-> s, content |-> c,
   status |-> "QUEUED", linked |-> TRUE, mark |-> FALSE]

CreateTask(new) ==
  \E t \in TaskIds \ Created :
    /\ \A u \in TaskIds : u < t => u \in Created
    /\ tasks' = [tasks EXCEPT ![t] = new]

\* LOCAL sources are preferred to those on a NAS; the target has no AVAILABLE replica.
SourcesFor(a, m) ==
  LET others == Available(a) \ {m} IN IF others \ Nas # {} THEN others \ Nas ELSE others

RequestReplicate(a, m) ==
  /\ asset[a] # "none"
  /\ m \notin Available(a)
  /\ \E s \in SourcesFor(a, m) : CreateTask(NewTask("REPLICATE", a, m, s, None))
  /\ UNCHANGED <<disk, rows, worker, razing, history, bounds>>

\* The bytes are staged on the server before the job is created.
RequestUpload(a, m) ==
  /\ \E v \in Versions : CreateTask(NewTask("UPLOAD", a, m, None, v))
  /\ UNCHANGED <<disk, rows, worker, razing, history, bounds>>

RequestDeleteReplica(a, m) ==
  /\ m \in RowsOf(a)
  /\ CreateTask(NewTask("DELETE_REPLICA", a, m, None, None))
  /\ UNCHANGED <<disk, rows, worker, razing, history, bounds>>

\* Mutant: the second statement names the asset by its path.
MarkPendingByPath(t) ==
  /\ t \in Created
  /\ tasks[t].mark
  /\ asset' = [asset EXCEPT ![tasks[t].asset] = "DELETE_PENDING"]
  /\ tasks' = [tasks EXCEPT ![t].mark = FALSE]
  /\ UNCHANGED <<disk, replica, worker, razing, history, bounds>>

\* DeleteEntry creates the job first and marks the asset in a second statement,
\* which names the row by its id.
DeleteEntry(a) ==
  /\ asset[a] # "none"
  /\ CreateTask([NewTask("DELETE_ASSET", a, None, None, None) EXCEPT !.mark = TRUE])
  /\ UNCHANGED <<disk, rows, worker, razing, history, bounds>>

MarkPending(t) ==
  /\ t \in Created
  /\ tasks[t].mark
  /\ tasks[t].linked
  /\ asset' = [asset EXCEPT ![tasks[t].asset] = "DELETE_PENDING"]
  /\ tasks' = [tasks EXCEPT ![t].mark = FALSE]
  /\ UNCHANGED <<disk, replica, worker, razing, history, bounds>>

Retry(t) ==
  /\ t \in Created
  /\ tasks[t].status = "FAILED"
  /\ mishaps < MaxMishaps
  /\ mishaps' = mishaps + 1
  /\ tasks' = [tasks EXCEPT ![t].status = "QUEUED"]
  /\ UNCHANGED <<disk, rows, worker, razing, history, edits>>

-----------------------------------------------------------------------------
(***************************************************************************)
(* Directories are deleted by the handler itself: after a check that no    *)
(* asset lies in it, it is removed mount by mount.  A local directory that *)
(* is not empty is refused (os.Remove); one on a NAS goes with all that is *)
(* in it (smb2 RemoveAll).                                                 *)
(***************************************************************************)
BeginRaze ==
  /\ razing = None
  /\ \A a \in Assets : asset[a] = "none"
  /\ razing' = Mounts
  /\ UNCHANGED <<disk, rows, tasks, worker, history, bounds>>

FilesOn(m) == {p \in Paths : p[2] = m /\ files[p] # None}

RazeMount(m) ==
  /\ razing # None
  /\ m \in razing
  /\ m \in Nas \/ FilesOn(m) = {}
  /\ files' = [p \in Paths |-> IF p[2] = m THEN None ELSE files[p]]
  /\ stray' = stray \cup FilesOn(m)
  /\ razing' = razing \ {m}
  /\ UNCHANGED <<rows, tasks, worker, broken, bounds>>

RazeEnds ==
  /\ razing # None
  /\ razing = {} \/ \E m \in razing \ Nas : FilesOn(m) # {}
  /\ razing' = None
  /\ UNCHANGED <<disk, rows, tasks, worker, history, bounds>>

-----------------------------------------------------------------------------
(***************************************************************************)
(* The worker.  A crash or an error leaves the files as they are and rolls *)
(* the transaction of a scan back; a crash has the item executed again     *)
(* from its first step.                                                    *)
(***************************************************************************)
T      == tasks[cur]
Target == <<T.asset, T.mount>>
Source == <<T.asset, T.source>>

Idle == /\ at' = "idle" /\ cur' = 0 /\ meta' = None /\ held' = None /\ left' = {}
        /\ seen' = None /\ where' = None

Goto(step) == at' = step /\ UNCHANGED <<cur, seen, where>>

\* The mounts a deletion is about.
Doomed == IF T.op = "DELETE_REPLICA" THEN {T.mount} ELSE RowsOf(T.asset)

\* Paths the item in hand has changed ahead of their rows.
Touched ==
  IF at \in {"copying", "copied"} THEN {Target}
  ELSE IF at \in {"deleting", "dropped"} THEN {T.asset} \X (Doomed \ left)
  ELSE {}

Begin(t) ==
  /\ at = "idle"
  /\ t \in Created
  /\ tasks[t].status = "QUEUED"
  /\ tasks' = [tasks EXCEPT ![t].status = "RUNNING"]
  /\ at' = "begun" /\ cur' = t
  /\ UNCHANGED <<disk, rows, meta, held, left, seen, where, razing, history, bounds>>

\* The item ends in error: the row it names has gone and its link with it, a
\* file is not there (a NAS refuses to remove it, a local disk does not), or
\* the call fails by itself, which an interrupt of the job amounts to as well.
Refused ==
  \/ at = "begun" /\ T.op # "UPLOAD" /\ ~T.linked
  \/ at = "begun" /\ T.op = "UPLOAD" /\ T.content = None
  \/ at = "begun" /\ T.op = "REPLICATE" /\ files[Source] = None
  \/ at = "stated" /\ T.op = "REPLICATE" /\ files[Source] = None
  \/ at = "deleting" /\ \E m \in left \cap Nas : files[<<T.asset, m>>] = None

Fail ==
  /\ cur # 0
  /\ \/ Refused /\ UNCHANGED bounds
     \/ /\ mishaps < MaxMishaps
        /\ mishaps' = mishaps + 1 /\ UNCHANGED edits
  /\ tasks' = [tasks EXCEPT ![cur].status = "FAILED"]
  /\ stray' = stray \cup Touched
  /\ broken' = IF at = "copying" THEN broken \cup {T.asset} ELSE broken
  /\ Idle
  /\ UNCHANGED <<disk, rows, razing>>

Crash ==
  /\ mishaps < MaxMishaps
  /\ mishaps' = mishaps + 1
  /\ tasks' = [t \in TaskIds |->
       IF t \notin Created THEN None
       ELSE [tasks[t] EXCEPT !.mark = FALSE,
                             !.status = IF t = cur THEN "QUEUED" ELSE @]]
  /\ stray' = IF cur = 0 THEN stray ELSE stray \cup Touched
  /\ broken' = IF at = "copying" THEN broken \cup {T.asset} ELSE broken
  /\ razing' = None
  /\ Idle
  /\ UNCHANGED <<disk, rows, edits>>

Finish ==
  /\ \/ at = "registered" /\ T.op = "REPLICATE"
     \/ at = "cleaned"
  /\ tasks' = [tasks EXCEPT ![cur].status = "COMPLETED"]
  /\ Idle
  /\ UNCHANGED <<disk, rows, razing, history, bounds>>

(***************************************************************************)
(* Copies: ExecuteReplicaSync, ExecuteFileCenterUploadJobItem.             *)
(***************************************************************************)
\* Mutant: a source that is not there is not noticed.
StatSourceUnchecked ==
  /\ at = "begun"
  /\ \/ T.op = "REPLICATE" /\ T.linked /\ meta' = files[Source]
     \/ T.op = "UPLOAD" /\ T.content # None /\ meta' = T.content
  /\ Goto("stated")
  /\ UNCHANGED <<disk, rows, tasks, held, left, razing, history, bounds>>

StatSource ==
  /\ at = "begun"
  /\ \/ /\ T.op = "REPLICATE" /\ T.linked
        /\ files[Source] # None
        /\ meta' = files[Source]
     \/ /\ T.op = "UPLOAD" /\ T.content # None
        /\ meta' = T.content
  /\ Goto("stated")
  /\ UNCHANGED <<disk, rows, tasks, held, left, razing, history, bounds>>

\* The source is opened, then the target created or truncated.
OpenTarget ==
  /\ at = "stated"
  /\ held' = IF T.op = "REPLICATE" THEN files[Source] ELSE T.content
  /\ held' # None
  /\ files' = [files EXCEPT ![Target] = Cut]
  /\ stray' = stray \ {Target}
  /\ Goto("copying")
  /\ UNCHANGED <<rows, tasks, meta, left, razing, broken, bounds>>

\* Mutant: the error of the copy is ignored.
ArrivesUnchecked == {held, Cut}

\* What arrives is what was opened, or what the source has become meanwhile; a
\* target somebody changed or removed under the copy may stay that way.
Arrives ==
  {held} \cup (IF T.op = "REPLICATE" THEN {files[Source]} \ {None} ELSE {})
         \cup (IF Target \in stray THEN {files[Target]} ELSE {})

CopyEnds ==
  /\ at = "copying"
  /\ \E c \in Arrives : files' = [files EXCEPT ![Target] = c]
  /\ stray' = IF T.op = "REPLICATE" /\ Source \in stray THEN stray \cup {Target} ELSE stray
  /\ held' = None
  /\ Goto("copied")
  /\ UNCHANGED <<rows, tasks, meta, left, razing, broken, bounds>>

\* The row is given the size and time found before the copy; an upload makes
\* its asset ACTIVE, whatever it was.
Register ==
  /\ at = "copied"
  /\ replica' = [replica EXCEPT ![Target] = [state |-> "AVAILABLE", content |-> meta]]
  /\ asset' = IF T.op = "UPLOAD" THEN [asset EXCEPT ![T.asset] = "ACTIVE"] ELSE asset
  /\ meta' = None
  /\ Goto("registered")
  /\ UNCHANGED <<disk, tasks, held, left, razing, history, bounds>>

CleanStaging ==
  /\ at = "registered" /\ T.op = "UPLOAD"
  /\ tasks' = [tasks EXCEPT ![cur].content = None]
  /\ Goto("cleaned")
  /\ UNCHANGED <<disk, rows, meta, held, left, razing, history, bounds>>

(***************************************************************************)
(* Deletions: ExecuteReplicaDeletion, ExecuteAssetDeletion.                *)
(***************************************************************************)
BeginDeletion ==
  /\ at = "begun" /\ T.op \in {"DELETE_REPLICA", "DELETE_ASSET"}
  /\ T.linked
  /\ left' = Doomed
  /\ Goto("deleting")
  /\ UNCHANGED <<disk, rows, tasks, meta, held, razing, history, bounds>>

DeleteFile(m) ==
  /\ at = "deleting"
  /\ m \in left
  /\ m \in Nas => files[<<T.asset, m>>] # None
  /\ files' = [files EXCEPT ![<<T.asset, m>>] = None]
  /\ stray' = stray \ {<<T.asset, m>>}
  /\ left' = left \ {m}
  /\ at' = IF left' = {} THEN "dropped" ELSE at
  /\ UNCHANGED <<rows, tasks, cur, meta, held, seen, where, razing, broken, bounds>>

\* Mutant: only AVAILABLE rows keep an asset.
AssetsWithoutAvailable(gone) ==
  {a \in Assets : \A m \in Available(a) : <<a, m>> \in gone}

\* Deleting the last row of an asset, in whatever state, deletes the asset.
AssetsWithout(gone) ==
  {a \in Assets : \A m \in RowsOf(a) : <<a, m>> \in gone}

\* The links of every job to a row go with the row.
Names(u, gone, assetsGone) ==
  \/ u.op = "REPLICATE" /\ <<u.asset, u.source>> \in gone
  \/ u.op = "DELETE_REPLICA" /\ <<u.asset, u.mount>> \in gone
  \/ u.op = "DELETE_ASSET" /\ u.asset \in assetsGone

Unlink(gone, assetsGone) ==
  [t \in TaskIds |->
    IF t \in Created /\ Names(tasks[t], gone, assetsGone)
    THEN [tasks[t] EXCEPT !.linked = FALSE] ELSE tasks[t]]

DropRows ==
  /\ at = "dropped"
  /\ LET gone == {T.asset} \X Doomed
         assetsGone == {T.asset} \cap AssetsWithout(gone)
     IN /\ replica' = [p \in Paths |-> IF p \in gone THEN None ELSE replica[p]]
        /\ asset' = [a \in Assets |-> IF a \in assetsGone THEN "none" ELSE asset[a]]
        /\ tasks' = Unlink(gone, assetsGone)
  /\ Goto("cleaned")
  /\ UNCHANGED <<disk, meta, held, left, razing, history, bounds>>

(***************************************************************************)
(* Scans: SyncMount, and syncDirectoryTarget for the one directory here.   *)
(***************************************************************************)
Walk(m) ==
  /\ at = "idle"
  /\ seen' = [a \in Assets |-> files[<<a, m>>]]
  /\ where' = m
  /\ at' = "walked"
  /\ UNCHANGED <<disk, rows, tasks, cur, meta, held, left, razing, history, bounds>>

\* Mutant: rows of files that are gone are left alone.
MissingIgnored(row) == row

Missing(row) == IF row = None THEN None ELSE [row EXCEPT !.state = "MISSING"]

Index ==
  /\ at = "walked"
  /\ asset' = [a \in Assets |-> IF seen[a] # None THEN "ACTIVE" ELSE asset[a]]
  /\ replica' = [p \in Paths |->
       IF p[2] # where THEN replica[p]
       ELSE IF seen[p[1]] # None THEN [state |-> "AVAILABLE", content |-> seen[p[1]]]
       ELSE Missing(replica[p])]
  /\ stray' = {p \in stray : p[2] # where \/ files[p] # seen[p[1]]}
  /\ Idle
  /\ UNCHANGED <<disk, tasks, razing, broken, bounds>>

-----------------------------------------------------------------------------
\* Somebody writes or removes a file on a mount.
Edit(a, m) ==
  /\ edits < MaxEdits
  /\ edits' = edits + 1
  /\ \E c \in (Versions \cup {None}) \ {files[<<a, m>>]} : files' = [files EXCEPT ![<<a, m>>] = c]
  /\ stray' = stray \cup {<<a, m>>}
  /\ UNCHANGED <<rows, tasks, worker, razing, broken, mishaps>>

Request ==
  \/ \E a \in Assets, m \in Mounts :
       RequestReplicate(a, m) \/ RequestUpload(a, m) \/ RequestDeleteReplica(a, m)
  \/ \E a \in Assets : DeleteEntry(a)
  \/ \E t \in TaskIds : MarkPending(t) \/ Retry(t)

Raze == BeginRaze \/ RazeEnds \/ \E m \in Mounts : RazeMount(m)

Execute ==
  \/ StatSource \/ OpenTarget \/ CopyEnds \/ Register \/ CleanStaging
  \/ BeginDeletion \/ DropRows \/ Finish
  \/ \E m \in Mounts : DeleteFile(m)

CatalogueNext ==
  \/ Request \/ Raze \/ Execute \/ Fail \/ Crash
  \/ \E t \in TaskIds : Begin(t)
  \/ \E m \in Mounts : Walk(m)
  \/ Index
  \/ \E a \in Assets, m \in Mounts : Edit(a, m)

CatalogueSpec == CatalogueInit /\ [][CatalogueNext]_vars

-----------------------------------------------------------------------------
CatalogueTypeOK ==
  /\ files \in [Paths -> Maybe]
  /\ asset \in [Assets -> {"none", "ACTIVE", "DELETE_PENDING"}]
  /\ replica \in [Paths -> Replica \cup {None}]
  /\ tasks \in [TaskIds -> Task \cup {None}]
  /\ at \in Step /\ cur \in TaskIds \cup {0}
  /\ meta \in Maybe /\ held \in Maybe /\ left \subseteq Mounts
  /\ seen \in {None} \cup [Assets -> Maybe] /\ where \in Mounts \cup {None}
  /\ razing \in {None} \cup SUBSET Mounts
  /\ stray \subseteq Paths /\ broken \subseteq Assets
  /\ edits \in 0 .. MaxEdits /\ mishaps \in 0 .. MaxMishaps

\* An asset is in the catalogue exactly while it has a replica there, whatever
\* scans, uploads and deletions of replicas and assets come between.
AssetKeepsReplica == \A a \in Assets : asset[a] # "none" <=> RowsOf(a) # {}

Agree(p) ==
  IF files[p] = None
  THEN replica[p] = None \/ replica[p] = [state |-> "MISSING", content |-> replica[p].content]
  ELSE replica[p] = [state |-> "AVAILABLE", content |-> files[p]]

\* Rows and files differ only where somebody else changed a file, where an item
\* is at work, or where one was stopped half-way and no scan has come by since:
\* an item that completes leaves the two in agreement.
DriftIsExplained ==
  \A p \in Paths \ (stray \cup (IF cur = 0 THEN {} ELSE Touched)) : Agree(p)

\* A truncated file is the work of a copy of that asset that is going on or was
\* broken off; no copy that completed leaves one.
CutIsFromInterruption ==
  \A a \in Assets, m \in Mounts :
    files[<<a, m>>] = Cut => a \in broken \/ (at = "copying" /\ T.asset = a)

\* An asset that waits for its deletion has a job that has not yet deleted it.
PendingHasTask ==
  \A a \in Assets : asset[a] = "DELETE_PENDING" =>
    \E t \in Created : /\ tasks[t].op = "DELETE_ASSET" /\ tasks[t].asset = a
                       /\ tasks[t].linked /\ tasks[t].status # "COMPLETED"
=============================================================================
