---------------------------- MODULE UnitBackups ----------------------------
(***************************************************************************)
(* The backups the orchestrator keeps of a unit, and the one selected for  *)
(* a restore: units/<unit>/backups/<id>/ with a manifest and an artifact,  *)
(* and restore-selection.json beside them.  Uploads save on the event      *)
(* loop, one after the other; every other request runs in the thread pool. *)
(* A temporary file is one step: nobody reads it before its rename.        *)
(*                                                                         *)
(* Sources: orchestrator_core/units_state.py, orchestrator_api/api_v2.py,  *)
(* takctl/services/orchestrator_backup.py.                                 *)
(***************************************************************************)
EXTENDS Naturals

CONSTANTS
  Ids,         \* backup ids
  Contents,    \* what a manifest and its artifact may describe
  Loop,        \* the event loop
  Pool,        \* threads of the pool
  NoId,
  Missing,     \* a file that does not exist
  MaxOps,      \* bound: requests
  MaxCrashes   \* bound: restarts of the orchestrator

ASSUME BackupConstants ==
  /\ NoId \notin Ids /\ Missing \notin Contents /\ Loop \notin Pool
  /\ MaxOps \in Nat /\ MaxCrashes \in Nat

NoReq == [id |-> NoId, content |-> Missing, listed |-> {}, saw |-> NoId]

Threads == Pool \cup {Loop}
Files == {"manifest", "artifact"}
Tmps == {"manifest.tmp", "artifact.tmp"}

VARIABLES
  dir,       \* ids whose directory exists
  file,      \* content of each file of each backup
  selected,  \* restore-selection.json
  selTmp,    \* its temporary file, which every request shares
  pc,        \* where each thread is
  req,       \* its request: the backup, what it saves, the files its rmtree is
             \* still to remove, the selection its delete read
  made,      \* ids in use, here or on a node
  cut,       \* history: ids a save of which stopped half way
  loose,     \* history: ids with a delete that a select met or that stopped half way
  met,       \* history: threads whose delete a select overtook
  ops, crashes

store == <<dir, file>>
history == <<cut, loose, met>>
counts == <<ops, crashes>>
backups == <<store, selected, selTmp, req, made, history>>

Saving == {"mkdir", "write1", "rename1", "write2", "rename2"}
Selecting == {"check", "write", "rename"}
Deleting == {"list", "unlink", "unselect"}

SavesOf(b) == {t \in Threads : pc[t] \in Saving /\ req[t].id = b}
SelectsOf(b) == {t \in Threads : pc[t] \in Selecting \ {"check"} /\ req[t].id = b}
DeletesOf(b) == {t \in Threads : pc[t] \in Deleting /\ req[t].id = b}

BackupsInit ==
  /\ dir = {} /\ file = [b \in Ids |-> [f \in Files \cup Tmps |-> Missing]]
  /\ selected = NoId /\ selTmp = NoId
  /\ pc = [t \in Threads |-> "idle"] /\ req = [t \in Threads |-> NoReq]
  /\ made = {} /\ cut = {} /\ loose = {} /\ met = {}
  /\ ops = 0 /\ crashes = 0

At(t, here) == pc[t] = here
Goto(t, there) == pc' = [pc EXCEPT ![t] = there]
Request(t, there) == At(t, "idle") /\ ops < MaxOps /\ ops' = ops + 1 /\ Goto(t, there)

\* A step within a request, and its end, when what it had in memory is gone.
Pass(t, there) == Goto(t, there) /\ UNCHANGED req
Done(t) == Goto(t, "idle") /\ req' = [req EXCEPT ![t] = NoReq]
Then(t, there) == IF there = "idle" THEN Done(t) ELSE Pass(t, there)

-----------------------------------------------------------------------------
(* Saving a backup.                                                        *)

\* unit_backup_upload: the id stands in the archive's manifest, so an upload may
\* repeat one; without it the request fails (api_v2.py:492 lacks an import).  An
\* archive still on its way from a node nobody has yet.
Upload(b, c) ==
  /\ SavesOf(b) = {} /\ Request(Loop, "mkdir")
  /\ req' = [req EXCEPT ![Loop].id = b, ![Loop].content = c]
  /\ made' = made \cup {b}
  /\ UNCHANGED <<store, selected, selTmp, history, crashes>>

\* node_create_backup: the node makes a backup under an id of its own, and the
\* artifact is downloaded; or either request fails.
NodeMakes(t, b, c) ==
  /\ At(t, "node") /\ b \notin made /\ Goto(t, "mkdir")
  /\ req' = [req EXCEPT ![t].id = b, ![t].content = c]
  /\ made' = made \cup {b}
  /\ UNCHANGED <<store, selected, selTmp, history, counts>>
NodeFails(t) ==
  /\ At(t, "node") /\ Done(t)
  /\ UNCHANGED <<store, selected, selTmp, made, history, counts>>

MakeDir(t) ==
  /\ At(t, "mkdir") /\ Pass(t, "write1")
  /\ dir' = dir \cup {req[t].id}
  /\ UNCHANGED <<file, selected, selTmp, made, history, counts>>

\* The save fails and leaves what it did so far.
Break(t) == Done(t) /\ cut' = cut \cup {req[t].id} /\ UNCHANGED file

\* The temporary file, unless the directory is gone.
WriteTmp(t, here, tmp, there) ==
  /\ At(t, here)
  /\ IF req[t].id \in dir
     THEN /\ Pass(t, there) /\ UNCHANGED cut
          /\ file' = [file EXCEPT ![req[t].id][tmp] = req[t].content]
     ELSE Break(t)
  /\ UNCHANGED <<dir, selected, selTmp, made, loose, met, counts>>

\* Slip (mutant): a file that exists is kept.
InstallNew(t, here, tmp, f, there) ==
  /\ At(t, here)
  /\ IF file[req[t].id][tmp] # Missing
     THEN /\ Then(t, there) /\ UNCHANGED cut
          /\ file' = [file EXCEPT
                        ![req[t].id][f] = IF @ = Missing THEN file[req[t].id][tmp] ELSE @,
                        ![req[t].id][tmp] = Missing]
     ELSE Break(t)
  /\ UNCHANGED <<dir, selected, selTmp, made, loose, met, counts>>

\* The rename, unless a delete removed the temporary file.
Install(t, here, tmp, f, there) ==
  /\ At(t, here)
  /\ IF file[req[t].id][tmp] # Missing
     THEN /\ Then(t, there) /\ UNCHANGED cut
          /\ file' = [file EXCEPT ![req[t].id][f] = file[req[t].id][tmp],
                                  ![req[t].id][tmp] = Missing]
     ELSE Break(t)
  /\ UNCHANGED <<dir, selected, selTmp, made, loose, met, counts>>

Save(t) ==
  \/ MakeDir(t)
  \/ WriteTmp(t, "write1", "manifest.tmp", "rename1")
  \/ Install(t, "rename1", "manifest.tmp", "manifest", "write2")
  \/ WriteTmp(t, "write2", "artifact.tmp", "rename2")
  \/ Install(t, "rename2", "artifact.tmp", "artifact", "idle")

-----------------------------------------------------------------------------
(* Selecting a backup for the restore.                                     *)

Select(t, b) ==
  /\ Request(t, "check")
  /\ req' = [req EXCEPT ![t].id = b]
  /\ UNCHANGED <<store, selected, selTmp, made, history, crashes>>

\* Slip (mutant): only the directory is asked for.
CheckDir(t) ==
  /\ At(t, "check")
  /\ Then(t, IF req[t].id \in dir THEN "write" ELSE "idle")
  /\ loose' = IF DeletesOf(req[t].id) # {} THEN loose \cup {req[t].id} ELSE loose
  /\ UNCHANGED <<store, selected, selTmp, made, cut, met, counts>>

\* get_unit_backup: the artifact has to be there.
Check(t) ==
  /\ At(t, "check")
  /\ Then(t, IF file[req[t].id]["artifact"] # Missing THEN "write" ELSE "idle")
  /\ loose' = IF DeletesOf(req[t].id) # {} THEN loose \cup {req[t].id} ELSE loose
  /\ UNCHANGED <<store, selected, selTmp, made, cut, met, counts>>

WriteSelection(t) ==
  /\ At(t, "write") /\ Pass(t, "rename")
  /\ selTmp' = req[t].id
  /\ UNCHANGED <<store, selected, made, history, counts>>

\* Whatever the shared temporary file holds; nothing if another rename took it.
InstallSelection(t) ==
  /\ At(t, "rename") /\ Done(t)
  /\ IF selTmp # NoId
     THEN /\ selected' = selTmp /\ selTmp' = NoId
          /\ met' = met \cup {u \in Threads : pc[u] \in Deleting}
     ELSE UNCHANGED <<selected, selTmp, met>>
  /\ UNCHANGED <<store, made, cut, loose, counts>>

ClearRequest(t) ==
  /\ Request(t, "clear")
  /\ UNCHANGED <<store, selected, selTmp, req, made, history, crashes>>

\* clear_unit_restore_backup_selection, on request or at the end of a delete.
Clear(t) ==
  /\ pc[t] \in {"clear", "unselect"} /\ Done(t)
  /\ selected' = NoId /\ met' = met \ {t}
  /\ UNCHANGED <<store, selTmp, made, cut, loose, counts>>

-----------------------------------------------------------------------------
(* Deleting a backup: 404 if it has no directory.                          *)

\* delete_unit_backup reads the selection before it removes anything.
Delete(t, b) ==
  /\ b \in dir /\ Request(t, "list")
  /\ req' = [req EXCEPT ![t].id = b, ![t].saw = selected]
  /\ loose' = IF SelectsOf(b) # {} THEN loose \cup {b} ELSE loose
  /\ UNCHANGED <<store, selected, selTmp, made, cut, met, crashes>>

\* rmtree raises: the request ends where it is.
Raise(t) == Done(t) /\ loose' = loose \cup {req[t].id} /\ met' = met \ {t}

Has(b) == {f \in Files \cup Tmps : file[b][f] # Missing}

\* rmtree lists the directory first,
List(t) ==
  /\ At(t, "list")
  /\ IF req[t].id \in dir
     THEN /\ Goto(t, "unlink") /\ UNCHANGED <<loose, met>>
          /\ req' = [req EXCEPT ![t].listed = Has(req[t].id)]
     ELSE Raise(t)
  /\ UNCHANGED <<store, selected, selTmp, made, cut, counts>>

\* then removes what it listed, in the order of the listing.  A file that is
\* gone by then is an error before Python 3.13 and none since.
Unlink(t, f) ==
  /\ At(t, "unlink") /\ f \in req[t].listed
  /\ file' = [file EXCEPT ![req[t].id][f] = Missing]
  /\ \/ req' = [req EXCEPT ![t].listed = @ \ {f}] /\ UNCHANGED <<pc, loose, met>>
     \/ f \notin Has(req[t].id) /\ Raise(t)
  /\ UNCHANGED <<dir, selected, selTmp, made, cut, counts>>

\* Slip (mutant): the selection is cleared whatever it was.
RemoveDirClears(t) ==
  /\ At(t, "unlink") /\ req[t].listed = {}
  /\ IF req[t].id \in dir /\ Has(req[t].id) = {}
     THEN dir' = dir \ {req[t].id} /\ Pass(t, "unselect") /\ UNCHANGED <<loose, met>>
     ELSE Raise(t) /\ UNCHANGED dir
  /\ UNCHANGED <<file, selected, selTmp, made, cut, counts>>

\* A directory a save has put a file in again cannot be removed.
RemoveDir(t) ==
  /\ At(t, "unlink") /\ req[t].listed = {}
  /\ IF req[t].id \in dir /\ Has(req[t].id) = {}
     THEN /\ dir' = dir \ {req[t].id} /\ UNCHANGED loose
          /\ IF req[t].saw = req[t].id
             THEN Pass(t, "unselect") /\ UNCHANGED met
             ELSE Done(t) /\ met' = met \ {t}
     ELSE Raise(t) /\ UNCHANGED dir
  /\ UNCHANGED <<file, selected, selTmp, made, cut, counts>>

-----------------------------------------------------------------------------
(* What delete_unit and a restart of the orchestrator do to all this.      *)

\* The unit's directory is moved away with everything in it.
LoseBackups ==
  /\ dir' = {} /\ file' = [b \in Ids |-> [f \in Files \cup Tmps |-> Missing]]
  /\ selected' = NoId /\ selTmp' = NoId
  /\ loose' = loose \cup {req[t].id : t \in {u \in Threads : pc[u] \in Deleting \cup Selecting}}
  /\ UNCHANGED <<req, made, cut, met>>

\* Every request ends where it is.
CutBackups ==
  /\ req' = [t \in Threads |-> NoReq] /\ met' = {}
  /\ cut' = cut \cup {req[t].id : t \in {u \in Threads : pc[u] \in Saving}}
  /\ loose' = loose \cup {req[t].id : t \in {u \in Threads : pc[u] \in Deleting}}
  /\ UNCHANGED <<store, selected, selTmp, made>>

BackupStep(t) ==
  \/ Save(t)
  \/ ClearRequest(t) \/ Clear(t)
  \/ \E b \in Ids : Select(t, b) \/ Delete(t, b)
  \/ Check(t) \/ WriteSelection(t) \/ InstallSelection(t)
  \/ List(t) \/ (\E f \in Files \cup Tmps : Unlink(t, f)) \/ RemoveDir(t)

-----------------------------------------------------------------------------
(* Every variable of the backups has its type.                             *)
BackupsTypeOK ==
  /\ dir \subseteq Ids
  /\ file \in [Ids -> [Files \cup Tmps -> Contents \cup {Missing}]]
  /\ selected \in Ids \cup {NoId} /\ selTmp \in Ids \cup {NoId}
  /\ req \in [Threads -> [id : Ids \cup {NoId}, content : Contents \cup {Missing},
                          listed : SUBSET (Files \cup Tmps), saw : Ids \cup {NoId}]]
  /\ made \subseteq Ids /\ cut \subseteq Ids /\ loose \subseteq Ids
  /\ met \subseteq Threads

(* A manifest and an artifact found together are of one save, unless a     *)
(* save is under way or one stopped half way: deletes that race a save may *)
(* make it fail or leave it in pieces, and never pair two backups else.    *)
OneBackup ==
  \A b \in Ids \ cut :
    SavesOf(b) = {} /\ Missing \notin {file[b][f] : f \in Files}
      => file[b]["manifest"] = file[b]["artifact"]

(* The backup selected for the restore can be restored, unless a delete of *)
(* it is under way, was cut short, or ran beside a select of it.           *)
SelectedExists ==
  selected \notin loose \cup {NoId} /\ DeletesOf(selected) = {}
    => file[selected]["artifact"] # Missing

(* A selection is withdrawn only on request or with its backup, unless it  *)
(* was made while the delete of another backup ran.                        *)
MayWithdraw ==
  \/ selected \notin dir'
  \/ \E t \in Pool : At(t, "clear") \/ (At(t, "unselect") /\ (req[t].id = selected \/ t \in met))
=============================================================================
