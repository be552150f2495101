---------------------------- MODULE DocsPipeline ----------------------------
(***************************************************************************)
(* The document pipeline of takctl: uploads queue PDFs, one background     *)
(* worker thread turns each into chunks, deletes remove them, and the      *)
(* command line import (takctl-docs-sync-documents) queues and drains on   *)
(* its own.  Every one of them shares the registry file of DocsRegistry.   *)
(*                                                                         *)
(* Sources: services/docs_jobs.py, services/docs_ingest.py,                *)
(* web/api/documents.py, bin/takctl-docs-sync-documents.                   *)
(***************************************************************************)
EXTENDS DocsRegistry

CONSTANTS
  Hashes,      \* contents of PDFs, told apart by sha256
  Workers,     \* ids of threads running _worker_main
  Loop,        \* the event loop of the web process: uploads run on it
  Deleters,    \* thread pool threads running api_delete_doc
  Syncs,       \* processes running takctl-docs-sync-documents
  NoThread, NoDoc, NoHash,
  Uploading,   \* whether anyone uploads through the web page
  MaxCrashes,  \* bound: restarts of the web process
  MaxDeletes   \* bound: delete requests

ASSUME Constants ==
  /\ Docs \subseteq Nat /\ NoDoc \notin Docs /\ NoHash \notin Hashes
  /\ Procs = Workers \cup {Loop} \cup Deleters \cup Syncs
  /\ Loop \notin Workers \cup Deleters \cup Syncs
  /\ Workers \cap Deleters = {} /\ Workers \cap Syncs = {} /\ Deleters \cap Syncs = {}
  /\ NoThread \notin Workers
  /\ Uploading \in BOOLEAN
  /\ MaxCrashes \in Nat /\ MaxDeletes \in Nat

Runners == Workers \cup Syncs       \* run process_queued_pdf
Queuers == {Loop} \cup Syncs        \* run queue_uploaded_pdf
Web == Workers \cup {Loop} \cup Deleters

VARIABLES
  pc,        \* where each process is
  doc,       \* the document it works on
  manifest,  \* derived/<id>/manifest.json: its status, or "absent" if unreadable
  raw,       \* documents whose raw/<id>/original.pdf exists
  chunks,    \* documents whose derived/<id>/chunks.jsonl exists
  chunked,   \* history: documents whose chunks were ever written
  sha,       \* sha256 of each document
  worker,    \* _worker_thread: the thread last started, or NoThread
  zip,       \* the upload under way is a ZIP of several PDFs
  gaveUp,    \* history: documents process_queued_pdf last raised on
  crashes, deletes

pipeVars == <<pc, doc, manifest, raw, chunks, chunked, sha, worker, zip, gaveUp,
              crashes, deletes>>
files == <<manifest, raw, chunks, chunked, sha>>
vars == <<json, tmp, phase, fd, snap, overlap, pc, doc, manifest, raw, chunks,
          chunked, sha, worker, zip, gaveUp, crashes, deletes>>

RestPC(p) == IF p \in Workers THEN "off" ELSE IF p \in Syncs THEN "import" ELSE "idle"

Init ==
  /\ RegInit
  /\ pc = [p \in Procs |-> RestPC(p)]
  /\ doc = [p \in Procs |-> NoDoc]
  /\ manifest = [d \in Docs |-> "absent"]
  /\ raw = {} /\ chunks = {} /\ chunked = {}
  /\ sha = [d \in Docs |-> NoHash]
  /\ worker = NoThread
  /\ zip = FALSE
  /\ gaveUp = {}
  /\ crashes = 0 /\ deletes = 0

Goto(p, l) == pc' = [pc EXCEPT ![p] = l]

\* Between two documents a process holds none.
AtRest == {"off", "idle", "import", "queued", "scan", "dead"}
Leave(p, l) ==
  /\ Goto(p, l)
  /\ doc' = [doc EXCEPT ![p] = IF l \in AtRest THEN NoDoc ELSE @]

-----------------------------------------------------------------------------
(* start_docs_worker, whole under _worker_lock.                            *)

Alive(t) == t # NoThread /\ pc[t] # "off"

\* Slip (mutant): the running thread is not looked at.
StartWorkerUnchecked(pcs) ==
  \E t \in Workers : pc[t] = "off" /\ worker' = t /\ pc' = [pcs EXCEPT ![t] = "scan"]

\* The thread id started, if one is started; from then on it runs.
StartWorker(pcs) ==
  IF Alive(worker) THEN pc' = pcs /\ UNCHANGED worker
  ELSE \E t \in Workers :
         /\ pc[t] = "off"
         /\ worker' = t
         /\ pc' = [pcs EXCEPT ![t] = "scan"]

\* api_list_docs and api_get_doc, on a thread pool thread.
Poll ==
  /\ ~Alive(worker)
  /\ StartWorker(pc)
  /\ UNCHANGED <<regVars, doc, files, zip, gaveUp, crashes, deletes>>

-----------------------------------------------------------------------------
(* The registry updates of the pipeline, step by step.                     *)

Updating == {"queueing", "markProcessing", "markReady", "markFailed", "unlist"}

NewRegistry(p) ==
  LET reg == Load(json) IN
  CASE pc[p] = "queueing" -> Upsert(reg, doc[p], "queued")
    [] pc[p] = "markProcessing" -> Upsert(reg, doc[p], "processing")
    [] pc[p] = "markReady" -> Upsert(reg, doc[p], "ready")
    [] pc[p] = "markFailed" -> Upsert(reg, doc[p], "failed")
    [] OTHER -> Remove(reg, doc[p])

\* Where the caller goes on once the update is saved.
AfterSave(p) ==
  CASE pc[p] = "queueing" -> "queued"
    [] pc[p] = "markProcessing" -> "extract"
    [] pc[p] \in {"markReady", "markFailed"} -> "scan"
    [] OTHER -> "idle"

\* An exception out of process_queued_pdf: the worker swallows it, the import dies.
RunnerRaised(p) == IF p \in Workers THEN "scan" ELSE "dead"

\* Where the caller goes on when save_docs_registry raises.  A failure to mark
\* ready is handled like a failure to extract; a PDF upload answers 500; a ZIP
\* upload records the member as failed; the import's handler names a module
\* docs_ingest.py does not import, so the import dies of a NameError.
AfterRaise(p) ==
  CASE pc[p] = "queueing" /\ p = Loop -> IF zip THEN "queued" ELSE "idle"
    [] pc[p] = "queueing" /\ p # Loop -> "dead"
    [] pc[p] = "markReady" -> "manifestFailed"
    [] pc[p] \in {"markProcessing", "markFailed"} -> RunnerRaised(p)
    [] OTHER -> "idle"

RegistryLoad(p) ==
  /\ pc[p] \in Updating
  /\ Begin(p, NewRegistry(p))
  /\ UNCHANGED pipeVars

RegistryWrite(p) == (OpenTmp(p) \/ WriteTmp(p)) /\ UNCHANGED pipeVars

RegistrySaved(p) ==
  /\ Replace(p)
  /\ Leave(p, AfterSave(p))
  /\ UNCHANGED <<files, worker, zip, gaveUp, crashes, deletes>>

RegistryRaised(p) ==
  /\ ReplaceRaises(p)
  /\ Leave(p, AfterRaise(p))
  /\ gaveUp' = IF pc[p] \in {"markProcessing", "markFailed"} THEN gaveUp \cup {doc[p]}
                                                            ELSE gaveUp
  /\ UNCHANGED <<files, worker, zip, crashes, deletes>>

RegistrySteps(p) ==
  RegistryLoad(p) \/ RegistryWrite(p) \/ RegistrySaved(p) \/ RegistryRaised(p)

-----------------------------------------------------------------------------
(* queue_uploaded_pdf, on the event loop or in the import process.         *)

\* Slip (mutant): only finished documents are compared.
ExistingReady(h) == {d \in Docs : sha[d] = h /\ Load(json)[d] = "ready"}

\* _find_existing_active_doc_by_sha256
Existing(h) ==
  {d \in Docs : sha[d] = h /\ Load(json)[d] \in {"queued", "processing", "ready"}}

\* The content is looked up; without a match a new id is drawn.  Ids and upload
\* times have one-second resolution, so a new id may sort anywhere.
CheckDuplicate(p, h) ==
  /\ IF Existing(h) # {}
     THEN /\ Goto(p, IF p = Loop THEN "queued" ELSE "import")
          /\ UNCHANGED <<doc, sha>>
     ELSE \E d \in {x \in Docs : sha[x] = NoHash} :
            /\ doc' = [doc EXCEPT ![p] = d]
            /\ sha' = [sha EXCEPT ![d] = h]
            /\ Goto(p, "files")
  /\ UNCHANGED <<regVars, manifest, raw, chunks, chunked, worker, gaveUp, crashes, deletes>>

UploadPdf(h) == Uploading /\ pc[Loop] = "idle" /\ CheckDuplicate(Loop, h) /\ zip' = FALSE
UploadZip(h) == Uploading /\ pc[Loop] = "idle" /\ CheckDuplicate(Loop, h) /\ zip' = TRUE
NextMember(h) == pc[Loop] = "queued" /\ zip /\ CheckDuplicate(Loop, h) /\ UNCHANGED zip
ImportFile(p, h) == pc[p] = "import" /\ CheckDuplicate(p, h) /\ UNCHANGED zip

\* The raw copy, manifest, status and section placeholder of a new document,
\* which nobody else can name before it is in the registry.
WriteQueuedFiles(p) ==
  /\ pc[p] = "files"
  /\ raw' = raw \cup {doc[p]}
  /\ manifest' = [manifest EXCEPT ![doc[p]] = "queued"]
  /\ Goto(p, "queueing")
  /\ UNCHANGED <<regVars, doc, chunks, chunked, sha, worker, zip, gaveUp, crashes, deletes>>

\* The upload handler starts the worker and answers.
UploadDone ==
  /\ pc[Loop] = "queued"
  /\ StartWorker([pc EXCEPT ![Loop] = "idle"])
  /\ UNCHANGED <<regVars, doc, files, zip, gaveUp, crashes, deletes>>

\* The import goes on with the next file, or has none left and drains.
ImportNext(p) ==
  /\ p \in Syncs
  /\ \/ pc[p] = "queued" /\ Goto(p, "import")
     \/ pc[p] = "import" /\ Goto(p, "scan")
  /\ UNCHANGED <<regVars, doc, files, worker, zip, gaveUp, crashes, deletes>>

-----------------------------------------------------------------------------
(* _worker_main and drain_docs_queue.                                      *)

\* Slip (mutant): a document a restart left as processing is not taken up again.
CandidatesQueued == {d \in Docs : Load(json)[d] = "queued"}

\* _queue_candidates: the status filter and the sort by upload time and id.
Candidates == {d \in Docs : Load(json)[d] \in {"queued", "processing"}}
Head == CHOOSE d \in Candidates : \A x \in Candidates : d <= x

Scan(p) ==
  /\ pc[p] = "scan"
  /\ IF Candidates = {}
     THEN Goto(p, IF p \in Workers THEN "finally" ELSE "dead") /\ UNCHANGED doc
     ELSE Goto(p, "take") /\ doc' = [doc EXCEPT ![p] = Head]
  /\ UNCHANGED <<regVars, files, worker, zip, gaveUp, crashes, deletes>>

\* The worker's finally block, under _worker_lock.
WorkerExit(t) ==
  /\ pc[t] = "finally"
  /\ worker' = NoThread
  /\ Goto(t, "off")
  /\ UNCHANGED <<regVars, doc, files, zip, gaveUp, crashes, deletes>>

\* A write under derived/<id> raises when an rmtree takes the directory away
\* between mkdir and rename.
RmtreeRace(d) == \E q \in Deleters : pc[q] = "rmDerived" /\ doc[q] = d

\* Two runners on one document collide on the .tmp names of its files: a write
\* may raise, or leave text that does not parse.
Shares(p) == \E q \in Runners \ {p} : doc[q] = doc[p]

\* process_queued_pdf, lines 683-689: manifest and source must exist.
Take(p) ==
  /\ pc[p] = "take"
  /\ IF manifest[doc[p]] = "absent" \/ doc[p] \notin raw
     THEN Leave(p, RunnerRaised(p)) /\ gaveUp' = gaveUp \cup {doc[p]}
     ELSE Leave(p, "manifestProcessing") /\ gaveUp' = gaveUp \ {doc[p]}
  /\ UNCHANGED <<regVars, files, worker, zip, crashes, deletes>>

\* write_manifest and write_status; the derived directory is recreated.
WriteManifest(p, from, status, to) ==
  /\ pc[p] = from
  /\ \E content \in {status, "absent"} :
       /\ content = status \/ Shares(p)
       /\ manifest' = [manifest EXCEPT ![doc[p]] = content]
  /\ Leave(p, to)
  /\ UNCHANGED <<regVars, raw, chunks, chunked, sha, worker, zip, gaveUp, crashes, deletes>>

\* One of the two raises, the second with the manifest written; under onError
\* "manifestFailed" inside process_queued_pdf's try.
WriteRaises(p, from, status, onError) ==
  /\ pc[p] = from
  /\ RmtreeRace(doc[p]) \/ Shares(p)
  /\ \E content \in {manifest[doc[p]], status, "absent"} :
       /\ content = "absent" => Shares(p) \/ manifest[doc[p]] = "absent"
       /\ manifest' = [manifest EXCEPT ![doc[p]] = content]
  /\ Leave(p, onError)
  /\ gaveUp' = IF onError = "manifestFailed" THEN gaveUp ELSE gaveUp \cup {doc[p]}
  /\ UNCHANGED <<regVars, raw, chunks, chunked, sha, worker, zip, crashes, deletes>>

ManifestProcessing(p) ==
  \/ WriteManifest(p, "manifestProcessing", "processing", "markProcessing")
  \/ WriteRaises(p, "manifestProcessing", "processing", RunnerRaised(p))
ManifestReady(p) ==
  \/ WriteManifest(p, "manifestReady", "ready", "markReady")
  \/ WriteRaises(p, "manifestReady", "ready", "manifestFailed")
ManifestFailed(p) ==
  \/ WriteManifest(p, "manifestFailed", "failed", "markFailed")
  \/ WriteRaises(p, "manifestFailed", "failed", RunnerRaised(p))

\* Slip (mutant): a failed extraction goes on as if there were chunks.
ExtractUnchecked(p) ==
  /\ pc[p] = "extract"
  /\ \/ doc[p] \in raw /\ Goto(p, "chunk")
     \/ Goto(p, "manifestReady")
  /\ UNCHANGED <<regVars, doc, files, worker, zip, gaveUp, crashes, deletes>>

\* Text extraction and OCR succeed or raise; without the source they raise.
Extract(p) ==
  /\ pc[p] = "extract"
  /\ \/ doc[p] \in raw /\ Goto(p, "chunk")
     \/ Goto(p, "manifestFailed")
  /\ UNCHANGED <<regVars, doc, files, worker, zip, gaveUp, crashes, deletes>>

\* Slip (mutant): the registry is updated but the manifest is not.
WriteChunksOnly(p) ==
  /\ pc[p] = "chunk"
  /\ chunks' = chunks \cup {doc[p]}
  /\ chunked' = chunked \cup {doc[p]}
  /\ Goto(p, "markReady")
  /\ UNCHANGED <<regVars, doc, manifest, raw, sha, worker, zip, gaveUp, crashes, deletes>>

\* write_chunks, lines 715-717: the last output before the document is ready.
WriteChunks(p) ==
  /\ pc[p] = "chunk"
  /\ \/ /\ chunks' = chunks \cup {doc[p]}
        /\ chunked' = chunked \cup {doc[p]}
        /\ Goto(p, "manifestReady")
     \/ /\ RmtreeRace(doc[p]) \/ Shares(p)
        /\ Goto(p, "manifestFailed")
        /\ UNCHANGED <<chunks, chunked>>
  /\ UNCHANGED <<regVars, doc, manifest, raw, sha, worker, zip, gaveUp, crashes, deletes>>

-----------------------------------------------------------------------------
(* api_delete_doc.                                                         *)

DeleteLookup(q, d) ==
  /\ pc[q] = "idle" /\ deletes < MaxDeletes
  /\ Load(json)[d] # "absent"
  /\ doc' = [doc EXCEPT ![q] = d]
  /\ deletes' = deletes + 1
  /\ Goto(q, "unlink")
  /\ UNCHANGED <<regVars, files, worker, zip, gaveUp, crashes>>

UnlinkManifest(q) ==
  /\ pc[q] = "unlink"
  /\ manifest' = [manifest EXCEPT ![doc[q]] = "absent"]
  /\ Goto(q, "rmRaw")
  /\ UNCHANGED <<regVars, doc, raw, chunks, chunked, sha, worker, zip, gaveUp, crashes, deletes>>

RmRaw(q) ==
  /\ pc[q] = "rmRaw"
  /\ raw' = raw \ {doc[q]}
  /\ Goto(q, "rmDerived")
  /\ UNCHANGED <<regVars, doc, manifest, chunks, chunked, sha, worker, zip, gaveUp, crashes,
                 deletes>>

RmDerived(q) ==
  /\ pc[q] = "rmDerived"
  /\ manifest' = [manifest EXCEPT ![doc[q]] = "absent"]
  /\ chunks' = chunks \ {doc[q]}
  /\ Goto(q, "unlist")
  /\ UNCHANGED <<regVars, doc, raw, chunked, sha, worker, zip, gaveUp, crashes, deletes>>

-----------------------------------------------------------------------------
\* systemd restarts the web process: its threads and _worker_thread are gone.
WebRestart ==
  /\ crashes < MaxCrashes
  /\ crashes' = crashes + 1
  /\ Kill(Web)
  /\ pc' = [p \in Procs |-> IF p \in Web THEN RestPC(p) ELSE pc[p]]
  /\ doc' = [p \in Procs |-> IF p \in Web THEN NoDoc ELSE doc[p]]
  /\ worker' = NoThread
  /\ zip' = FALSE
  /\ UNCHANGED <<files, gaveUp, deletes>>

UploadStep ==
  \/ WriteQueuedFiles(Loop) \/ UploadDone \/ RegistrySteps(Loop)

Upload == \E h \in Hashes : UploadPdf(h) \/ UploadZip(h) \/ NextMember(h)

RunnerStep(p) ==
  \/ Scan(p) \/ Take(p) \/ ManifestProcessing(p) \/ Extract(p) \/ WriteChunks(p)
  \/ ManifestReady(p) \/ ManifestFailed(p) \/ RegistrySteps(p)

WorkerStep(t) == RunnerStep(t) \/ WorkerExit(t)

SyncStep(p) ==
  \/ ImportNext(p) \/ WriteQueuedFiles(p) \/ RunnerStep(p)

DeleteStep(q) == UnlinkManifest(q) \/ RmRaw(q) \/ RmDerived(q) \/ RegistrySteps(q)

Next ==
  \/ Upload \/ UploadStep \/ Poll \/ WebRestart
  \/ \E t \in Workers : WorkerStep(t)
  \/ \E p \in Syncs : SyncStep(p) \/ \E h \in Hashes : ImportFile(p, h)
  \/ \E q \in Deleters : DeleteStep(q) \/ \E d \in Docs : DeleteLookup(q, d)

Spec == Init /\ [][Next]_vars

\* Running threads and handlers keep running, and someone keeps opening the
\* documents page (Poll): nothing in the program itself wakes an idle worker.
Fairness ==
  /\ WF_vars(UploadStep) /\ WF_vars(Poll)
  /\ \A t \in Workers : WF_vars(WorkerStep(t))
  /\ \A p \in Syncs : WF_vars(SyncStep(p))
  /\ \A q \in Deleters : WF_vars(DeleteStep(q))

FairSpec == Spec /\ Fairness
-----------------------------------------------------------------------------
(* Types: every value the pipeline's variables take.                       *)
Labels == {"off", "idle", "import", "dead", "files", "queueing", "queued", "scan", "take",
           "manifestProcessing", "markProcessing", "extract", "chunk", "manifestReady",
           "markReady", "manifestFailed", "markFailed", "finally", "unlink", "rmRaw",
           "rmDerived", "unlist"}

TypeOK ==
  /\ RegTypeOK
  /\ pc \in [Procs -> Labels]
  /\ doc \in [Procs -> Docs \cup {NoDoc}]
  /\ manifest \in [Docs -> Entry]
  /\ raw \subseteq Docs /\ chunks \subseteq Docs /\ chunked \subseteq Docs
  /\ sha \in [Docs -> Hashes \cup {NoHash}]
  /\ worker \in Workers \cup {NoThread}
  /\ zip \in BOOLEAN
  /\ gaveUp \subseteq Docs
  /\ crashes \in 0..MaxCrashes /\ deletes \in 0..MaxDeletes

(* A running worker is the one _worker_thread names, so there is at most   *)
(* one, whatever polls, uploads and restarts race its exit.                *)
OneWorker == \A t \in Workers : pc[t] # "off" => worker = t

(* A document the registry shows as ready had its chunks written, whatever *)
(* stale or clobbered copy of the registry was saved.                      *)
ReadyWasChunked == \A d \in Docs : Load(json)[d] = "ready" => d \in chunked

(* While registry updates have not overlapped, a document leaves the       *)
(* registry only through a delete request.                                 *)
LeavesByDelete ==
  [][\A d \in Docs :
       ~overlap' /\ Load(json)[d] # "absent" /\ Load(json')[d] = "absent"
         => \E q \in Deleters : pc[q] = "unlist" /\ doc[q] = d]_vars

(* With uploads alone, no import and no deletes, and no overlap of         *)
(* registry updates, two documents that count for the duplicate check      *)
(* differ.  (A delete takes a document off the registry that the worker    *)
(* puts back, and its content may have been uploaded again in between.)    *)
NoDuplicateContent ==
  \A d, e \in Docs :
    ~overlap /\ d # e /\ {Load(json)[d], Load(json)[e]} \subseteq {"queued", "processing", "ready"}
      => sha[d] # sha[e]

WorkingOn(d) == \E p \in Runners : doc[p] = d

(* While registry updates have not overlapped and no import runs, registry *)
(* and manifest agree on a finished document nobody works on, whatever a   *)
(* restart cut short.                                                      *)
TerminalAgrees ==
  \A d \in Docs : ~overlap /\ Load(json)[d] \in {"ready", "failed"} /\ ~WorkingOn(d)
     => manifest[d] = Load(json)[d] \/ (deletes > 0 /\ manifest[d] = "absent")

(* docs_jobs.py:43, process_queued_pdf is expected to persist failed state *)
(* itself: a document it raised on is registered as failed (or deleted).   *)
FailurePersisted == \A d \in gaveUp : Load(json)[d] \in {"failed", "absent"}

(* Every registered document is eventually finished, through restarts,     *)
(* lost updates and failed saves.                                          *)
QueueDrains ==
  \A d \in Docs : Load(json)[d] \in {"queued", "processing"}
                     ~> Load(json)[d] \notin {"queued", "processing"}
=============================================================================
