------------------------- MODULE DocsPipelineProofs -------------------------
(***************************************************************************)
(* The document pipeline for any number of documents, contents, threads,   *)
(* delete requests and restarts: its types, at most one worker thread, and *)
(* no document registered as ready without chunks; and, as long as no two  *)
(* registry updates were under way together, that only a delete takes a    *)
(* document off the registry, that uploads register no content twice, and  *)
(* that registry and manifest agree on what is finished.                   *)
(***************************************************************************)
EXTENDS DocsPipeline, DocsRegistryProofs, WellFoundedInduction

(* A process in the middle of a document knows which one, and is inside a  *)
(* registry update only where the pipeline makes one.                      *)
HasDoc ==
  \A p \in Procs : /\ pc[p] \notin AtRest \cup {"finally"} => doc[p] \in Docs
                   /\ phase[p] # "idle" => pc[p] \in Updating

(* No copy of the registry, saved or about to be, shows a ready document   *)
(* without chunks, and none is about to be marked ready.                   *)
Sound(reg) == \A d \in Docs : reg[d] = "ready" => d \in chunked
AllSound ==
  /\ json \in Registries => Sound(json)
  /\ tmp \in Registries => Sound(tmp)
  /\ \A p \in Procs : Sound(snap[p])
  /\ \A p \in Procs : pc[p] \in {"manifestReady", "markReady"} => doc[p] \in chunked

PipeInv == TypeOK /\ HasDoc /\ OneWorker /\ AllSound

(* Only the listed processes of the web service and the import exist.      *)
LEMMA ProcessIds == /\ Workers \subseteq Procs /\ Loop \in Procs
                    /\ Deleters \subseteq Procs /\ Syncs \subseteq Procs
                    /\ Web \subseteq Procs /\ Loop \notin Workers
                    /\ \A p \in Deleters \cup Syncs : p \notin Workers
  BY Constants DEF Web

(* The empty registry, and what docs.json is read as, show nothing ready   *)
(* that has no chunks.                                                     *)
LEMMA LoadSound == AllSound => Sound(Load(json)) /\ Sound(EmptyRegistry)
  BY DEF AllSound, Sound, Load, EmptyRegistry

(* A queue that is not empty has a head, which is one of its documents.    *)
LEMMA HeadInQueue == Candidates # {} => Head \in Candidates
<1>1. Candidates \subseteq Docs /\ Docs \subseteq Nat
  BY Constants DEF Candidates
<1>2. ASSUME Candidates # {}
      PROVE  \E d \in Candidates : \A x \in Candidates : d <= x
  <2> DEFINE R == OpToRel(<, Nat)
  <2>1. IsWellFoundedOn(R, Nat)
    BY NatLessThanWellFounded
  <2>2. \A x, y \in Nat : <<y, x>> \notin R => x <= y
    BY DEF OpToRel
  <2> HIDE DEF R
  <2>3. \E d \in Candidates : \A x \in Candidates : <<x, d>> \notin R
    BY <1>1, <1>2, <2>1, WFMin
  <2>4. QED
    BY <1>1, <2>2, <2>3
<1>3. QED
  BY <1>1, <1>2 DEF Head

LEMMA HeadIsDoc == Candidates # {} => Head \in Docs
  BY HeadInQueue DEF Candidates

-----------------------------------------------------------------------------
(* Registry updates.  Each keeps the pipeline's own variables, except the  *)
(* last, which moves its process on.                                       *)

LEMMA NewTyped ==
  ASSUME PipeInv, NEW p \in Procs, pc[p] \in Updating
  PROVE  NewRegistry(p) \in Registries /\ Sound(NewRegistry(p))
<1>1. doc[p] \in Docs
  BY DEF PipeInv, HasDoc, Updating, AtRest
<1>2. Load(json) \in Registries /\ Sound(Load(json))
  BY LoadTyped, LoadSound DEF PipeInv
<1>3. NewRegistry(p) \in Registries
  BY <1>1, <1>2, OperationsTyped DEF NewRegistry, Statuses
<1>4. pc[p] = "markReady" => doc[p] \in chunked
  BY DEF PipeInv, AllSound
<1>5. \A d \in Docs : NewRegistry(p)[d] = "ready" => Load(json)[d] = "ready" \/ d \in chunked
  BY <1>1, <1>2, <1>4 DEF NewRegistry, Upsert, Remove, Registries
<1>6. QED
  BY <1>2, <1>3, <1>5 DEF Sound

(* A registry update in progress: types and soundness of every copy.       *)
LEMMA RegistryKept ==
  ASSUME PipeInv, NEW p \in Procs, NEW P \in SUBSET Procs, chunked' = chunked,
         \/ pc[p] \in Updating /\ Begin(p, NewRegistry(p))
         \/ OpenTmp(p) \/ WriteTmp(p) \/ Replace(p) \/ ReplaceRaises(p) \/ Kill(P)
  PROVE  /\ RegTypeOK'
         /\ json' \in Registries => Sound(json)'
         /\ tmp' \in Registries => Sound(tmp)'
         /\ \A q \in Procs : Sound(snap[q])'
<1>1. RegTypeOK
  BY DEF PipeInv, TypeOK
<1>2. RegTypeOK'
  <2>1. CASE pc[p] \in Updating /\ Begin(p, NewRegistry(p))
    BY <1>1, <2>1, NewTyped, StepTyped
  <2>2. CASE OpenTmp(p) \/ WriteTmp(p) \/ Replace(p) \/ ReplaceRaises(p) \/ Kill(P)
    BY <1>1, <2>2, EmptyTyped, StepTyped
  <2>3. QED
    BY <2>1, <2>2
<1>3. /\ json \in Registries => Sound(json)
      /\ tmp \in Registries => Sound(tmp)
      /\ \A q \in Procs : Sound(snap[q])
      /\ Sound(EmptyRegistry)
  BY LoadSound DEF PipeInv, AllSound
<1>4. json' \in {json, tmp, snap[p], Torn}
  BY DEF Begin, OpenTmp, WriteTmp, Overwrite, Replace, ReplaceRaises, Kill
<1>5. tmp' \in {tmp, Blank, NoFile, snap[p], Torn}
  BY DEF Begin, OpenTmp, WriteTmp, Overwrite, Replace, ReplaceRaises, Kill
<1>6. \A q \in Procs : \/ snap'[q] \in {snap[q], EmptyRegistry}
                       \/ pc[p] \in Updating /\ snap'[q] = NewRegistry(p)
  <2>1. snap \in [Procs -> Registries]
    BY <1>1 DEF RegTypeOK
  <2>2. CASE pc[p] \in Updating /\ Begin(p, NewRegistry(p))
    BY <2>1, <2>2 DEF Begin
  <2>3. CASE OpenTmp(p) \/ WriteTmp(p)
    BY <2>3 DEF OpenTmp, WriteTmp
  <2>4. CASE Replace(p) \/ ReplaceRaises(p)
    BY <2>1, <2>4 DEF Replace, ReplaceRaises, EndWindow
  <2>5. CASE Kill(P)
    BY <2>1, <2>5 DEF Kill
  <2>6. QED
    BY <2>2, <2>3, <2>4, <2>5
<1>7. \A r \in Registries : Sound(r) => Sound(r)'
  BY DEF Sound
<1>8. \A q \in Procs : Sound(snap'[q])
  BY <1>3, <1>6, NewTyped
<1>9. QED
  BY <1>2, <1>3, <1>4, <1>5, <1>8, FileValues DEF Sound

(* A step that leaves the registry alone keeps its copies sound.           *)
LEMMA RegistryUnchanged ==
  ASSUME PipeInv, UNCHANGED regVars, chunked \subseteq chunked',
         \A p \in Procs : pc'[p] \in {"manifestReady", "markReady"} => doc'[p] \in chunked'
  PROVE  RegTypeOK' /\ AllSound'
  BY DEF PipeInv, TypeOK, RegTypeOK, AllSound, Sound, regVars

(* Starting the worker starts one only when none runs.                     *)
LEMMA StartKeepsOneWorker ==
  ASSUME PipeInv, NEW pcs \in [Procs -> Labels], \A t \in Workers : pcs[t] = pc[t],
         StartWorker(pcs)
  PROVE  /\ OneWorker'
         /\ pc' \in [Procs -> Labels] /\ worker' \in Workers \cup {NoThread}
         /\ \A p \in Procs : pc'[p] = pcs[p] \/ (pcs[p] = "off" /\ pc'[p] = "scan")
<1>1. CASE Alive(worker)
  BY <1>1 DEF PipeInv, TypeOK, OneWorker, StartWorker
<1>2. CASE ~Alive(worker)
  <2>1. PICK t \in Workers : worker' = t /\ pc' = [pcs EXCEPT ![t] = "scan"]
    BY <1>2 DEF StartWorker
  <2>2. \A u \in Workers : pc[u] = "off"
    BY <1>2, Constants DEF PipeInv, OneWorker, Alive
  <2>3. QED
    BY <2>1, <2>2, ProcessIds DEF OneWorker, Labels
<1>3. QED
  BY <1>1, <1>2

(* GET requests: only the worker moves.                                    *)
LEMMA PollKeeps == PipeInv /\ Poll => PipeInv'
<1> SUFFICES ASSUME PipeInv, Poll PROVE PipeInv'
  OBVIOUS
<1>1. pc \in [Procs -> Labels] /\ StartWorker(pc)
  BY DEF Poll, PipeInv, TypeOK
<1>2. /\ OneWorker'
      /\ pc' \in [Procs -> Labels] /\ worker' \in Workers \cup {NoThread}
      /\ \A p \in Procs : pc'[p] = pc[p] \/ (pc[p] = "off" /\ pc'[p] = "scan")
  BY <1>1, StartKeepsOneWorker
<1>3. RegTypeOK' /\ AllSound'
  BY <1>2, RegistryUnchanged DEF Poll, files, PipeInv, AllSound
<1>4. TypeOK' /\ HasDoc'
  BY <1>2, <1>3 DEF Poll, files, regVars, PipeInv, TypeOK, HasDoc, AtRest, Updating
<1>5. QED
  BY <1>2, <1>3, <1>4 DEF PipeInv

(* The upload handler starts the worker and is idle again.                 *)
LEMMA UploadDoneKeeps == PipeInv /\ UploadDone => PipeInv'
<1> SUFFICES ASSUME PipeInv, UploadDone PROVE PipeInv'
  OBVIOUS
<1> DEFINE pcs == [pc EXCEPT ![Loop] = "idle"]
<1>1. pcs \in [Procs -> Labels] /\ StartWorker(pcs) /\ \A t \in Workers : pcs[t] = pc[t]
  BY ProcessIds DEF UploadDone, PipeInv, TypeOK, Labels
<1>2. /\ OneWorker'
      /\ pc' \in [Procs -> Labels] /\ worker' \in Workers \cup {NoThread}
      /\ \A p \in Procs : pc'[p] = pcs[p] \/ (pcs[p] = "off" /\ pc'[p] = "scan")
  BY <1>1, StartKeepsOneWorker
<1>3. RegTypeOK' /\ AllSound'
  BY <1>2, RegistryUnchanged DEF UploadDone, files, PipeInv, TypeOK, AllSound
<1>4. TypeOK'
  BY <1>2, <1>3 DEF UploadDone, files, PipeInv, TypeOK
<1>5. HasDoc'
  <2>1. \A p \in Procs : p # Loop => pcs[p] = pc[p]
    BY DEF PipeInv, TypeOK
  <2>2. pcs[Loop] = "idle" /\ pc[Loop] = "queued" /\ UNCHANGED <<phase, doc>>
    BY ProcessIds DEF UploadDone, regVars, PipeInv, TypeOK
  <2>3. QED
    BY <1>2, <2>1, <2>2, ProcessIds DEF PipeInv, HasDoc, AtRest, Updating
<1>6. QED
  BY <1>2, <1>3, <1>4, <1>5 DEF PipeInv

-----------------------------------------------------------------------------
(* The remaining steps, one lemma per actor.                               *)

LEMMA RegistryStepsKeep ==
  ASSUME PipeInv, NEW p \in Procs, RegistrySteps(p)
  PROVE  PipeInv'
<1>1. CASE RegistryLoad(p) \/ RegistryWrite(p)
  <2>1. UNCHANGED pipeVars
    BY <1>1 DEF RegistryLoad, RegistryWrite
  <2>2. /\ RegTypeOK'
        /\ json' \in Registries => Sound(json)'
        /\ tmp' \in Registries => Sound(tmp)'
        /\ \A q \in Procs : Sound(snap[q])'
    BY <1>1, <2>1, RegistryKept DEF RegistryLoad, RegistryWrite, pipeVars
  <2>3. HasDoc'
    <3>1. pc[p] \in Updating /\ phase \in [Procs -> Phases]
      BY <1>1 DEF RegistryLoad, RegistryWrite, OpenTmp, WriteTmp, PipeInv, HasDoc, TypeOK,
                  RegTypeOK
    <3>2. \A q \in Procs \ {p} : phase'[q] = phase[q]
      BY <1>1, <3>1 DEF RegistryLoad, RegistryWrite, Begin, OpenTmp, WriteTmp
    <3>3. QED
      BY <2>1, <3>1, <3>2 DEF pipeVars, PipeInv, HasDoc
  <2>4. QED
    BY <2>1, <2>2, <2>3 DEF pipeVars, PipeInv, TypeOK, OneWorker, AllSound
<1>2. CASE RegistrySaved(p) \/ RegistryRaised(p)
  <2>1. /\ pc[p] \in Updating /\ UNCHANGED <<files, worker, zip, crashes, deletes>>
        /\ phase' = [phase EXCEPT ![p] = "idle"]
    BY <1>2 DEF RegistrySaved, RegistryRaised, Replace, ReplaceRaises, EndWindow, PipeInv,
                HasDoc
  <2>2. PICK l \in Labels \ {"off", "finally", "manifestReady", "markReady"} : Leave(p, l)
    <3>1. AfterSave(p) \in Labels \ {"off", "finally", "manifestReady", "markReady"}
      BY DEF AfterSave, Labels
    <3>2. AfterRaise(p) \in Labels \ {"off", "finally", "manifestReady", "markReady"}
      BY DEF AfterRaise, RunnerRaised, Labels
    <3>3. QED
      BY <1>2, <3>1, <3>2 DEF RegistrySaved, RegistryRaised
  <2>3. /\ RegTypeOK'
        /\ json' \in Registries => Sound(json)'
        /\ tmp' \in Registries => Sound(tmp)'
        /\ \A q \in Procs : Sound(snap[q])'
    BY <1>2, <2>1, RegistryKept DEF RegistrySaved, RegistryRaised, files
  <2>4. gaveUp' \subseteq Docs
    <3>1. doc[p] \in Docs
      BY <2>1 DEF PipeInv, HasDoc, Updating, AtRest
    <3>2. QED
      BY <1>2, <3>1 DEF RegistrySaved, RegistryRaised, PipeInv, TypeOK
  <2>5. TypeOK'
    BY <2>1, <2>2, <2>3, <2>4 DEF PipeInv, TypeOK, Leave, Goto, files
  <2>6. HasDoc'
    BY <2>1, <2>2 DEF PipeInv, TypeOK, RegTypeOK, HasDoc, Leave, Goto, Updating, AtRest
  <2>7. OneWorker'
    BY <2>1, <2>2 DEF PipeInv, TypeOK, OneWorker, Leave, Goto, Updating
  <2>8. AllSound'
    BY <2>1, <2>2, <2>3 DEF PipeInv, TypeOK, AllSound, Leave, Goto, files
  <2>9. QED
    BY <2>5, <2>6, <2>7, <2>8 DEF PipeInv
<1>3. QED
  BY <1>1, <1>2 DEF RegistrySteps

(* The uploads and the import up to the registry update.                   *)
LEMMA QueueingKeeps ==
  ASSUME PipeInv, NEW p \in Procs \ Workers,
         \/ \E h \in Hashes : /\ pc[p] \in {"idle", "queued", "import"}
                             /\ CheckDuplicate(p, h) /\ zip' \in BOOLEAN
         \/ WriteQueuedFiles(p)
         \/ ImportNext(p)
  PROVE  PipeInv'
<1> USE DEF Goto, PipeInv, TypeOK
<1>1. /\ UNCHANGED <<regVars, chunks, chunked, worker, gaveUp, crashes, deletes>>
      /\ pc[p] \in {"idle", "queued", "import", "files"}
  BY DEF CheckDuplicate, WriteQueuedFiles, ImportNext, files
<1>2. PICK l \in {"queued", "import", "files", "queueing", "scan"} :
        /\ Goto(p, l)
        /\ l \in {"queueing", "files"} => doc'[p] \in Docs
        /\ \A q \in Procs \ {p} : doc'[q] = doc[q]
        /\ doc' \in [Procs -> Docs \cup {NoDoc}]
        /\ manifest' \in [Docs -> Entry] /\ raw' \subseteq Docs /\ zip' \in BOOLEAN
        /\ sha' \in [Docs -> Hashes \cup {NoHash}]
  <2>1. CASE \E h \in Hashes : CheckDuplicate(p, h) /\ zip' \in BOOLEAN
    <3>1. PICK h \in Hashes : CheckDuplicate(p, h) /\ zip' \in BOOLEAN
      BY <2>1
    <3>2. CASE Existing(h) # {}
      BY <3>1, <3>2 DEF CheckDuplicate
    <3>3. CASE Existing(h) = {}
      BY <3>1, <3>3 DEF CheckDuplicate
    <3>4. QED
      BY <3>2, <3>3
  <2>2. CASE WriteQueuedFiles(p)
    <3>1. doc[p] \in Docs
      BY <2>2 DEF WriteQueuedFiles, HasDoc, AtRest
    <3>2. QED
      BY <2>2, <3>1 DEF WriteQueuedFiles, Entry, Statuses
  <2>3. CASE ImportNext(p)
    BY <2>3 DEF ImportNext, files
  <2>4. QED
    BY <2>1, <2>2, <2>3
<1>3. /\ pc' \in [Procs -> Labels] /\ pc'[p] = l
      /\ \A q \in Procs \ {p} : pc'[q] = pc[q]
  BY <1>2 DEF Labels
<1>4. RegTypeOK' /\ AllSound'
  BY <1>1, <1>2, <1>3, RegistryUnchanged DEF AllSound
<1>5. TypeOK'
  BY <1>1, <1>2, <1>3, <1>4
<1>6. HasDoc'
  BY <1>1, <1>2, <1>3 DEF HasDoc, AtRest, regVars, Updating
<1>7. OneWorker'
  BY <1>1, <1>2, <1>3 DEF OneWorker
<1>8. QED
  BY <1>4, <1>5, <1>6, <1>7
(* Any other step of one process that is not inside a registry update.     *)
LEMMA MoveKeeps ==
  ASSUME PipeInv, NEW p \in Procs, pc[p] \notin Updating \cup {"off"},
         NEW l \in Labels \ {"off"}, Goto(p, l),
         UNCHANGED <<regVars, sha, worker, zip, crashes>>,
         manifest' \in [Docs -> Entry], raw' \subseteq Docs, chunks' \subseteq Docs,
         chunked' \subseteq Docs, gaveUp' \subseteq Docs, deletes' \in 0..MaxDeletes,
         chunked \subseteq chunked',
         doc' \in [Procs -> Docs \cup {NoDoc}],
         \A q \in Procs \ {p} : doc'[q] = doc[q],
         l \notin AtRest \cup {"finally"} => doc'[p] \in Docs,
         l \in {"manifestReady", "markReady"} => doc'[p] \in chunked'
  PROVE  PipeInv'
<1>1. /\ pc' \in [Procs -> Labels] /\ pc'[p] = l
      /\ \A q \in Procs \ {p} : pc'[q] = pc[q]
  BY DEF Goto, PipeInv, TypeOK
<1>2. RegTypeOK' /\ AllSound'
  <2>1. \A q \in Procs : pc'[q] \in {"manifestReady", "markReady"} => doc'[q] \in chunked'
    BY <1>1 DEF PipeInv, AllSound
  <2>2. QED
    BY <2>1, RegistryUnchanged
<1>3. TypeOK'
  BY <1>1, <1>2 DEF PipeInv, TypeOK
<1>4. HasDoc'
  BY <1>1 DEF PipeInv, HasDoc, regVars
<1>5. OneWorker'
  BY <1>1, ProcessIds DEF PipeInv, OneWorker
<1>6. QED
  BY <1>2, <1>3, <1>4, <1>5 DEF PipeInv

(* A process with a document goes on to l, and may drop the document.      *)
LEMMA LeaveTyped ==
  ASSUME PipeInv, NEW p \in Procs, NEW l \in Labels, Leave(p, l), doc[p] \in Docs
  PROVE  /\ Goto(p, l)
         /\ doc' \in [Procs -> Docs \cup {NoDoc}]
         /\ \A q \in Procs \ {p} : doc'[q] = doc[q]
         /\ l \notin AtRest => doc'[p] = doc[p]
  BY DEF Leave, PipeInv, TypeOK

(* The runner's steps outside the registry updates.                        *)
LEMMA RunnerKeeps ==
  ASSUME PipeInv, NEW p \in Procs,
         Scan(p) \/ Take(p) \/ ManifestProcessing(p) \/ Extract(p) \/ WriteChunks(p)
           \/ ManifestReady(p) \/ ManifestFailed(p)
  PROVE  PipeInv'
<1> USE DEF PipeInv, TypeOK
<1>1. CASE Scan(p)
  <2>1. CASE Candidates = {}
    <3>1. PICK l \in {"finally", "dead"} : Goto(p, l) /\ UNCHANGED doc
      BY <1>1, <2>1 DEF Scan
    <3>2. QED
      BY <1>1, <3>1, MoveKeeps DEF Scan, files, Labels, AtRest, Updating
  <2>2. CASE Candidates # {}
    <3>1. Goto(p, "take") /\ doc' = [doc EXCEPT ![p] = Head] /\ Head \in Docs
      BY <1>1, <2>2, HeadIsDoc DEF Scan
    <3>2. QED
      BY <1>1, <3>1, MoveKeeps DEF Scan, files, Labels, Updating
  <2>3. QED
    BY <2>1, <2>2
<1>2. CASE Take(p)
  <2>1. doc[p] \in Docs
    BY <1>2 DEF Take, HasDoc, AtRest
  <2>2. PICK l \in {"scan", "dead", "manifestProcessing"} : Leave(p, l)
    BY <1>2 DEF Take, RunnerRaised
  <2>3. gaveUp' \subseteq Docs
    BY <1>2, <2>1 DEF Take
  <2>4. QED
    BY <1>2, <2>1, <2>2, <2>3, LeaveTyped, MoveKeeps DEF Take, files, Labels, AtRest, Updating
<1>3. CASE Extract(p)
  <2>1. doc[p] \in Docs
    BY <1>3 DEF Extract, HasDoc, AtRest
  <2>2. PICK l \in {"chunk", "manifestFailed"} : Goto(p, l)
    BY <1>3 DEF Extract
  <2>3. QED
    BY <1>3, <2>1, <2>2, MoveKeeps DEF Extract, files, Labels, Updating
<1>4. CASE WriteChunks(p)
  <2>1. doc[p] \in Docs
    BY <1>4 DEF WriteChunks, HasDoc, AtRest
  <2>2. PICK l \in {"manifestReady", "manifestFailed"} :
          /\ Goto(p, l) /\ chunks' \subseteq Docs /\ chunked' \subseteq Docs
          /\ chunked \subseteq chunked' /\ (l = "manifestReady" => doc[p] \in chunked')
    BY <1>4, <2>1 DEF WriteChunks
  <2>3. QED
    BY <1>4, <2>1, <2>2, MoveKeeps DEF WriteChunks, Labels, Updating
<1>5. ASSUME NEW from \in {"manifestProcessing", "manifestReady", "manifestFailed"},
             NEW l \in {"markProcessing", "markReady", "markFailed", "scan", "dead",
                         "manifestFailed"},
             NEW status \in Statuses,
             (l = "markReady") => (from = "manifestReady"),
             WriteManifest(p, from, status, l) \/ WriteRaises(p, from, status, l)
      PROVE  PipeInv'
  <2>1. doc[p] \in Docs
    BY <1>5 DEF WriteManifest, WriteRaises, HasDoc, AtRest
  <2>2. /\ pc[p] = from /\ Leave(p, l)
        /\ UNCHANGED <<regVars, raw, chunks, chunked, sha, worker, zip, crashes, deletes>>
    BY <1>5 DEF WriteManifest, WriteRaises
  <2>3. l = "markReady" => doc[p] \in chunked
    BY <1>5, <2>2 DEF AllSound
  <2>4. manifest' \in [Docs -> Entry] /\ gaveUp' \subseteq Docs
    BY <1>5, <2>1 DEF WriteManifest, WriteRaises, Entry
  <2>5. QED
    BY <2>1, <2>2, <2>3, <2>4, LeaveTyped, MoveKeeps DEF Labels, AtRest, Updating
<1>6. CASE ManifestProcessing(p) \/ ManifestReady(p) \/ ManifestFailed(p)
  BY <1>5, <1>6 DEF ManifestProcessing, ManifestReady, ManifestFailed, RunnerRaised, Statuses
<1>7. QED
  BY <1>1, <1>2, <1>3, <1>4, <1>6

(* The worker's exit: it was the one thread, and there is none now.        *)
LEMMA WorkerExitKeeps ==
  ASSUME PipeInv, NEW t \in Workers, WorkerExit(t)
  PROVE  PipeInv'
<1>1. t \in Procs
  BY ProcessIds
<1>2. /\ pc' \in [Procs -> Labels] /\ pc'[t] = "off" /\ pc[t] = "finally"
      /\ \A q \in Procs \ {t} : pc'[q] = pc[q]
  BY <1>1 DEF WorkerExit, Goto, PipeInv, TypeOK, Labels
<1>3. OneWorker'
  BY <1>2, ProcessIds DEF PipeInv, OneWorker
<1>4. RegTypeOK' /\ AllSound'
  <2>1. \A q \in Procs : pc'[q] \in {"manifestReady", "markReady"} => doc'[q] \in chunked'
    BY <1>2 DEF PipeInv, AllSound, WorkerExit, files
  <2>2. QED
    BY <2>1, RegistryUnchanged DEF WorkerExit, files
<1>5. TypeOK'
  BY <1>2, <1>4 DEF PipeInv, TypeOK, WorkerExit, files
<1>6. HasDoc'
  BY <1>2 DEF PipeInv, HasDoc, WorkerExit, regVars, AtRest, Updating
<1>7. QED
  BY <1>3, <1>4, <1>5, <1>6 DEF PipeInv

(* The delete handler before it takes the document off the registry.       *)
LEMMA DeleteKeeps ==
  ASSUME PipeInv, NEW q \in Deleters,
         \/ \E d \in Docs : DeleteLookup(q, d)
         \/ UnlinkManifest(q) \/ RmRaw(q) \/ RmDerived(q)
  PROVE  PipeInv'
<1> USE DEF PipeInv, TypeOK
<1>0. q \in Procs
  BY ProcessIds
<1>1. ASSUME NEW d \in Docs, DeleteLookup(q, d)
      PROVE  PipeInv'
  <2>1. deletes' \in 0..MaxDeletes
    BY <1>1, Constants DEF DeleteLookup
  <2>2. QED
    BY <1>0, <1>1, <2>1, MoveKeeps DEF DeleteLookup, files, Labels, Updating
<1>2. CASE UnlinkManifest(q) \/ RmRaw(q) \/ RmDerived(q)
  <2>1. doc[q] \in Docs /\ pc[q] \in {"unlink", "rmRaw", "rmDerived"}
    BY <1>0, <1>2 DEF UnlinkManifest, RmRaw, RmDerived, HasDoc, AtRest
  <2>2. manifest' \in [Docs -> Entry] /\ raw' \subseteq Docs /\ chunks' \subseteq Docs
    BY <1>2, <2>1 DEF UnlinkManifest, RmRaw, RmDerived, Entry
  <2>3. PICK l \in {"rmRaw", "rmDerived", "unlist"} : Goto(q, l)
    BY <1>2 DEF UnlinkManifest, RmRaw, RmDerived
  <2>4. UNCHANGED <<regVars, doc, chunked, sha, worker, zip, gaveUp, crashes, deletes>>
    BY <1>2 DEF UnlinkManifest, RmRaw, RmDerived
  <2>5. QED
    BY <1>0, <2>1, <2>2, <2>3, <2>4, MoveKeeps DEF Labels, Updating
<1>3. QED
  BY <1>1, <1>2

(* A restart ends every thread of the web process, and the worker's id.    *)
LEMMA RestartKeeps == PipeInv /\ WebRestart => PipeInv'
<1> SUFFICES ASSUME PipeInv, WebRestart PROVE PipeInv'
  OBVIOUS
<1>1. /\ pc' \in [Procs -> Labels] /\ doc' \in [Procs -> Docs \cup {NoDoc}]
      /\ \A p \in Web : pc'[p] \in {"off", "idle", "import"} /\ phase'[p] = "idle"
      /\ \A p \in Procs \ Web : /\ pc'[p] = pc[p] /\ doc'[p] = doc[p]
                               /\ phase'[p] = phase[p]
  BY ProcessIds DEF WebRestart, Kill, RestPC, Labels, PipeInv, TypeOK
<1>2. \A t \in Workers : pc'[t] = "off"
  BY ProcessIds DEF WebRestart, RestPC, Web
<1>3. /\ RegTypeOK'
      /\ json' \in Registries => Sound(json)'
      /\ tmp' \in Registries => Sound(tmp)'
      /\ \A q \in Procs : Sound(snap[q])'
  BY ProcessIds, RegistryKept DEF WebRestart, files
<1>4. TypeOK'
  <2>1. crashes' \in 0..MaxCrashes
    BY Constants DEF WebRestart, PipeInv, TypeOK
  <2>2. QED
    BY <1>1, <1>3, <2>1 DEF WebRestart, files, PipeInv, TypeOK
<1>5. HasDoc'
  BY <1>1 DEF PipeInv, HasDoc, AtRest
<1>6. OneWorker'
  BY <1>2 DEF OneWorker
<1>7. AllSound'
  <2>1. UNCHANGED chunked
    BY DEF WebRestart, files
  <2>2. \A p \in Procs : pc'[p] \in {"manifestReady", "markReady"} => doc'[p] \in chunked'
    BY <1>1, <2>1 DEF PipeInv, AllSound
  <2>3. QED
    BY <1>3, <2>2 DEF AllSound
<1>8. QED
  BY <1>4, <1>5, <1>6, <1>7 DEF PipeInv

-----------------------------------------------------------------------------
(* PipeInv is an inductive invariant.                                      *)

LEMMA InitSafe == Init => PipeInv
<1> SUFFICES ASSUME Init PROVE PipeInv
  OBVIOUS
<1>1. RegTypeOK
  BY EmptyTyped DEF Init, RegInit, RegTypeOK, Phases
<1>2. \A p \in Procs : pc[p] \in {"off", "import", "idle"}
  BY DEF Init, RestPC
<1>3. TypeOK
  <2>1. pc \in [Procs -> Labels] /\ doc \in [Procs -> Docs \cup {NoDoc}]
    BY <1>2 DEF Init, Labels
  <2>2. /\ manifest \in [Docs -> Entry] /\ sha \in [Docs -> Hashes \cup {NoHash}]
        /\ worker \in Workers \cup {NoThread} /\ zip \in BOOLEAN
    BY DEF Init, Entry
  <2>3. crashes \in 0..MaxCrashes /\ deletes \in 0..MaxDeletes
    BY Constants DEF Init
  <2>4. raw \subseteq Docs /\ chunks \subseteq Docs /\ chunked \subseteq Docs
          /\ gaveUp \subseteq Docs
    BY DEF Init
  <2>5. QED
    BY <1>1, <2>1, <2>2, <2>3, <2>4 DEF TypeOK
<1>4. HasDoc
  BY <1>2 DEF Init, RegInit, HasDoc, AtRest
<1>5. OneWorker
  BY ProcessIds DEF Init, OneWorker, RestPC
<1>6. AllSound
  BY <1>2, FileValues DEF Init, RegInit, AllSound, Sound, EmptyRegistry
<1>7. QED
  BY <1>3, <1>4, <1>5, <1>6 DEF PipeInv

LEMMA StepSafe == PipeInv /\ [Next]_vars => PipeInv'
<1> SUFFICES ASSUME PipeInv, [Next]_vars PROVE PipeInv'
  OBVIOUS
<1> USE ProcessIds
<1>1. CASE Upload
  <2>1. PICK h \in Hashes : UploadPdf(h) \/ UploadZip(h) \/ NextMember(h)
    BY <1>1 DEF Upload
  <2>2. CheckDuplicate(Loop, h) /\ pc[Loop] \in {"idle", "queued"} /\ zip' \in BOOLEAN
    BY <2>1 DEF UploadPdf, UploadZip, NextMember, PipeInv, TypeOK
  <2>3. QED
    BY <2>2, QueueingKeeps
<1>2. CASE UploadStep
  BY <1>2, UploadDoneKeeps, QueueingKeeps, RegistryStepsKeep DEF UploadStep
<1>3. CASE Poll \/ WebRestart
  BY <1>3, PollKeeps, RestartKeeps
<1>4. ASSUME NEW p \in Procs, RunnerStep(p) PROVE PipeInv'
  BY <1>4, RunnerKeeps, RegistryStepsKeep DEF RunnerStep
<1>5. ASSUME NEW t \in Workers, WorkerStep(t) PROVE PipeInv'
  BY <1>4, <1>5, WorkerExitKeeps DEF WorkerStep
<1>6. ASSUME NEW p \in Syncs, SyncStep(p) \/ \E h \in Hashes : ImportFile(p, h)
      PROVE  PipeInv'
  <2>1. p \in Procs \ Workers /\ (zip' = zip => zip' \in BOOLEAN)
    BY <1>6 DEF PipeInv, TypeOK
  <2>2. CASE SyncStep(p)
    BY <1>4, <2>1, <2>2, QueueingKeeps DEF SyncStep
  <2>3. CASE \E h \in Hashes : ImportFile(p, h)
    BY <2>1, <2>3, QueueingKeeps DEF ImportFile
  <2>4. QED
    BY <1>6, <2>2, <2>3
<1>7. ASSUME NEW q \in Deleters, DeleteStep(q) \/ \E d \in Docs : DeleteLookup(q, d)
      PROVE  PipeInv'
  BY <1>7, DeleteKeeps, RegistryStepsKeep DEF DeleteStep
<1>8. CASE UNCHANGED vars
  BY <1>8 DEF vars, PipeInv, TypeOK, RegTypeOK, HasDoc, OneWorker, AllSound, Sound
<1>9. QED
  BY <1>1, <1>2, <1>3, <1>5, <1>6, <1>7, <1>8 DEF Next

THEOREM PipelineSafe == Spec => []PipeInv
  BY InitSafe, StepSafe, PTL DEF Spec

(* Type correctness of the whole pipeline, registry file included.         *)
THEOREM TypeCorrect == Spec => []TypeOK
  BY PipelineSafe, PTL DEF PipeInv

(* start_docs_worker and _worker_main keep at most one thread running.     *)
THEOREM SingleWorker == Spec => []OneWorker
  BY PipelineSafe, PTL DEF PipeInv

(* However registry updates interleave, collide on docs.tmp or are cut     *)
(* short, no document is registered as ready that never had chunks.        *)
THEOREM ReadyChunked == Spec => []ReadyWasChunked
<1>1. PipeInv => ReadyWasChunked
  BY LoadSound DEF PipeInv, ReadyWasChunked, Sound
<1>2. QED
  BY <1>1, PipelineSafe, PTL

-----------------------------------------------------------------------------
(* Who may be where, and what a single step changes.                       *)

RunPlaces == {"scan", "take", "manifestProcessing", "markProcessing", "extract", "chunk",
              "manifestReady", "markReady", "manifestFailed", "markFailed"}
DeletePlaces == {"unlink", "rmRaw", "rmDerived", "unlist"}
QueuePlaces == {"files", "queueing", "queued"}

(* Every process is at a place of its own program, and holds no document   *)
(* between two of them.                                                    *)
Roles ==
  /\ pc[Loop] \in QueuePlaces \cup {"idle"}
  /\ \A q \in Deleters : /\ pc[q] \in DeletePlaces \cup {"idle"}
                         /\ pc[q] # "idle" => deletes > 0
  /\ \A t \in Workers : pc[t] \in RunPlaces \cup {"off", "finally"}
  /\ \A s \in Syncs : pc[s] \in RunPlaces \cup QueuePlaces \cup {"import", "dead"}
  /\ \A p \in Procs : pc[p] \in AtRest \cup {"finally"} => doc[p] = NoDoc

(* The steps inside a registry update, which process p takes.              *)
Updates(p) == RegistryLoad(p) \/ RegistryWrite(p) \/ RegistrySaved(p) \/ RegistryRaised(p)

(* The steps of a runner outside of them.                                  *)
Runs(p) ==
  \/ Scan(p) \/ Take(p) \/ ManifestProcessing(p) \/ Extract(p) \/ WriteChunks(p)
  \/ ManifestReady(p) \/ ManifestFailed(p)

(* Steps that look up contents, for an upload or an import.                *)
Looks(p) ==
  /\ \E h \in Hashes : CheckDuplicate(p, h)
  /\ \/ p = Loop /\ pc[p] \in {"idle", "queued"}
     \/ p \in Syncs /\ pc[p] = "import"

Deletes(q) ==
  \/ \E d \in Docs : DeleteLookup(q, d)
  \/ UnlinkManifest(q) \/ RmRaw(q) \/ RmDerived(q)

(* Every step is one of these.                                             *)
LEMMA StepIs ==
  ASSUME [Next]_vars
  PROVE  \/ UNCHANGED vars \/ Poll \/ WebRestart \/ UploadDone
         \/ \E p \in Procs : Updates(p)
         \/ \E p \in Queuers : Looks(p) \/ WriteQueuedFiles(p)
         \/ \E p \in Syncs : ImportNext(p)
         \/ \E p \in Runners : Runs(p)
         \/ \E t \in Workers : WorkerExit(t)
         \/ \E q \in Deleters : Deletes(q)
<1>1. CASE Upload
  BY <1>1 DEF Upload, UploadPdf, UploadZip, NextMember, Looks, Queuers
<1>2. CASE UploadStep
  BY <1>2, ProcessIds DEF UploadStep, RegistrySteps, Updates, Queuers
<1>3. ASSUME NEW p \in Runners, RunnerStep(p)
      PROVE  Updates(p) \/ Runs(p)
  BY <1>3 DEF RunnerStep, RegistrySteps, Updates, Runs
<1>4. ASSUME NEW t \in Workers, WorkerStep(t)
      PROVE  t \in Runners /\ t \in Procs /\ (Updates(t) \/ Runs(t) \/ WorkerExit(t))
  BY <1>3, <1>4, ProcessIds DEF WorkerStep, Runners
<1>5. ASSUME NEW p \in Syncs, SyncStep(p) \/ \E h \in Hashes : ImportFile(p, h)
      PROVE  /\ p \in Runners /\ p \in Procs /\ p \in Queuers
             /\ \/ Updates(p) \/ Runs(p) \/ ImportNext(p) \/ WriteQueuedFiles(p)
                \/ Looks(p)
  <2>1. p \in Runners /\ p \in Procs /\ p \in Queuers
    BY ProcessIds DEF Runners, Queuers
  <2>2. CASE SyncStep(p)
    BY <1>3, <2>1, <2>2 DEF SyncStep
  <2>3. CASE \E h \in Hashes : ImportFile(p, h)
    BY <2>1, <2>3 DEF ImportFile, Looks
  <2>4. QED
    BY <1>5, <2>1, <2>2, <2>3
<1>6. ASSUME NEW q \in Deleters, DeleteStep(q) \/ \E d \in Docs : DeleteLookup(q, d)
      PROVE  q \in Procs /\ (Updates(q) \/ Deletes(q))
  BY <1>6, ProcessIds DEF DeleteStep, RegistrySteps, Updates, Deletes
<1>7. CASE Poll \/ WebRestart \/ UNCHANGED vars
  BY <1>7
<1>8. QED
  BY <1>1, <1>2, <1>4, <1>5, <1>6, <1>7 DEF Next

(* What each of them does to the registry file.                            *)
RegistryDoes(p) ==
  \/ RegistryLoad(p) \/ OpenTmp(p) \/ WriteTmp(p) \/ RegistrySaved(p) \/ ReplaceRaises(p)

LEMMA RegistryStep ==
  ASSUME [Next]_vars
  PROVE  UNCHANGED regVars \/ Kill(Web) \/ \E p \in Procs : RegistryDoes(p)
<1>1. CASE UNCHANGED vars \/ Poll \/ UploadDone
  BY <1>1 DEF vars, regVars, Poll, UploadDone
<1>2. CASE WebRestart
  BY <1>2 DEF WebRestart
<1>3. ASSUME NEW p \in Procs, Updates(p) PROVE RegistryDoes(p)
  BY <1>3 DEF Updates, RegistryWrite, RegistryRaised, RegistryDoes
<1>4. ASSUME NEW p, Looks(p) \/ WriteQueuedFiles(p) \/ ImportNext(p) \/ Runs(p)
                      \/ WorkerExit(p) \/ Deletes(p)
      PROVE  UNCHANGED regVars
  <2>1. CASE Looks(p) \/ WriteQueuedFiles(p) \/ ImportNext(p) \/ WorkerExit(p) \/ Deletes(p)
    BY <2>1 DEF Looks, CheckDuplicate, WriteQueuedFiles, ImportNext, WorkerExit, Deletes,
                DeleteLookup, UnlinkManifest, RmRaw, RmDerived
  <2>2. CASE Runs(p)
    BY <2>2 DEF Runs, Scan, Take, ManifestProcessing, Extract, WriteChunks, ManifestReady,
                ManifestFailed, WriteManifest, WriteRaises
  <2>3. QED
    BY <1>4, <2>1, <2>2
<1>5. QED
  BY <1>1, <1>2, <1>3, <1>4, StepIs

(* Where process p may go on to, and with what document.                   *)
Place(p, l) ==
  /\ p = Loop => l \in QueuePlaces \cup {"idle"}
  /\ p \in Deleters => l \in DeletePlaces \cup {"idle"}
  /\ p \in Workers => l \in RunPlaces \cup {"off", "finally"}
  /\ p \in Syncs => l \in RunPlaces \cup QueuePlaces \cup {"import", "dead"}

(* A process p goes on to l; the others stay where they are.               *)
Moves(p, l) ==
  /\ Goto(p, l) /\ Place(p, l)
  /\ \A q \in Procs \ {p} : doc'[q] = doc[q]
  /\ l \in AtRest \cup {"finally"} => doc'[p] = NoDoc
  /\ deletes' \in {deletes, deletes + 1}

LEMMA MoveKeepsRoles ==
  ASSUME PipeInv, Roles, NEW p \in Procs, NEW l \in Labels, Moves(p, l),
         p \in Deleters => l = "idle" \/ deletes' > 0
  PROVE  Roles'
<1>1. pc' = [pc EXCEPT ![p] = l] /\ pc \in [Procs -> Labels]
  BY DEF Moves, Goto, PipeInv, TypeOK
<1>2. deletes \in Nat /\ deletes' \in {deletes, deletes + 1}
  BY Constants DEF Moves, PipeInv, TypeOK
<1>3. deletes > 0 => deletes' > 0
  BY <1>2
<1>4. /\ pc'[Loop] \in QueuePlaces \cup {"idle"}
      /\ \A q \in Deleters : pc'[q] \in DeletePlaces \cup {"idle"}
      /\ \A t \in Workers : pc'[t] \in RunPlaces \cup {"off", "finally"}
      /\ \A s \in Syncs : pc'[s] \in RunPlaces \cup QueuePlaces \cup {"import", "dead"}
  BY <1>1, ProcessIds DEF Moves, Place, Roles
<1>5. \A q \in Deleters : pc'[q] # "idle" => deletes' > 0
  BY <1>1, <1>3, ProcessIds DEF Roles
<1>6. \A q \in Procs : pc'[q] \in AtRest \cup {"finally"} => doc'[q] = NoDoc
  BY <1>1 DEF Moves, Roles
<1>7. QED
  BY <1>4, <1>5, <1>6 DEF Roles

(* The end of a registry update, saved or not.                             *)
LEMMA UpdateMoves ==
  ASSUME PipeInv, Roles, NEW p \in Procs, RegistrySaved(p) \/ RegistryRaised(p)
  PROVE  /\ \E l \in Labels : Moves(p, l) /\ (p \in Deleters => l = "idle")
         /\ pc[p] \in Updating
         /\ UNCHANGED <<sha, manifest, deletes>>
<1>1. /\ pc[p] \in Updating /\ deletes \in Nat
      /\ doc \in [Procs -> Docs \cup {NoDoc}]
      /\ UNCHANGED <<sha, manifest, deletes>>
  BY Constants DEF RegistrySaved, RegistryRaised, Replace, ReplaceRaises, EndWindow, PipeInv,
                   TypeOK, HasDoc, files
<1>2. ASSUME NEW l \in Labels, Leave(p, l), Place(p, l), l # "finally"
      PROVE  Moves(p, l)
  <2>1. deletes' \in {deletes, deletes + 1}
    BY <1>1
  <2>2. QED
    BY <1>1, <1>2, <2>1 DEF Moves, Leave
<1>3. CASE RegistrySaved(p)
  <2>1. AfterSave(p) \in Labels /\ Leave(p, AfterSave(p)) /\ AfterSave(p) # "finally"
    BY <1>3 DEF RegistrySaved, AfterSave, Labels
  <2>2. Place(p, AfterSave(p)) /\ (p \in Deleters => AfterSave(p) = "idle")
    BY <1>1, ProcessIds, Constants DEF Roles, Place, AfterSave, Updating, RunPlaces, QueuePlaces,
                                       DeletePlaces
  <2>3. QED
    BY <1>1, <1>2, <2>1, <2>2
<1>4. CASE RegistryRaised(p)
  <2>1. AfterRaise(p) \in Labels /\ Leave(p, AfterRaise(p)) /\ AfterRaise(p) # "finally"
    BY <1>4 DEF RegistryRaised, AfterRaise, RunnerRaised, Labels
  <2>2. Place(p, AfterRaise(p)) /\ (p \in Deleters => AfterRaise(p) = "idle")
    <3>1. p = Loop => AfterRaise(p) \in {"queued", "idle"}
      <4>1. p = Loop => pc[p] = "queueing"
        BY <1>1 DEF Roles, Updating, QueuePlaces
      <4>2. zip \in BOOLEAN
        BY DEF PipeInv, TypeOK
      <4>3. QED
        BY <4>1, <4>2 DEF AfterRaise
    <3>2. p \in Deleters => AfterRaise(p) = "idle"
      BY <1>1 DEF Roles, AfterRaise, Updating, DeletePlaces
    <3>3. p \in Workers => AfterRaise(p) \in {"manifestFailed", "scan"}
      BY <1>1 DEF Roles, AfterRaise, RunnerRaised, Updating, RunPlaces
    <3>4. p \in Syncs => AfterRaise(p) \in {"manifestFailed", "scan", "dead"}
      BY <1>1, Constants DEF Roles, AfterRaise, RunnerRaised, Updating, RunPlaces, QueuePlaces
    <3>5. QED
      BY <3>1, <3>2, <3>3, <3>4 DEF Place, RunPlaces, QueuePlaces
  <2>3. QED
    BY <1>1, <1>2, <2>1, <2>2
<1>5. QED
  BY <1>3, <1>4

(* The places between two registry updates: one step of process p there.   *)
LEMMA QueueMoves ==
  ASSUME PipeInv, Roles, NEW p \in Queuers, Looks(p) \/ WriteQueuedFiles(p) \/ ImportNext(p)
  PROVE  \E l \in Labels : Moves(p, l)
<1>1. p \in Procs /\ p \notin Workers /\ p \notin Deleters /\ (p = Loop => p \notin Syncs)
  BY ProcessIds, Constants DEF Queuers
<1>2. /\ deletes' = deletes /\ doc \in [Procs -> Docs \cup {NoDoc}]
      /\ pc[p] \in AtRest => doc[p] = NoDoc
  BY <1>1 DEF Looks, CheckDuplicate, WriteQueuedFiles, ImportNext, PipeInv, TypeOK, Roles
<1>3. CASE Looks(p)
  <2>1. PICK h \in Hashes : CheckDuplicate(p, h)
    BY <1>3 DEF Looks
  <2>2. pc[p] \in AtRest /\ (p # Loop => p \in Syncs)
    BY <1>3 DEF Looks, AtRest
  <2>3. CASE Existing(h) # {}
    <3>1. PICK l \in {"queued", "import"} :
            Goto(p, l) /\ UNCHANGED doc /\ (p = Loop => l = "queued")
      BY <2>1, <2>3 DEF CheckDuplicate
    <3>2. Place(p, l) /\ l \in Labels
      BY <1>1, <3>1 DEF Place, QueuePlaces, Labels
    <3>3. QED
      BY <1>2, <2>2, <3>1, <3>2 DEF Moves
  <2>4. CASE Existing(h) = {}
    <3>1. Goto(p, "files") /\ \A q \in Procs \ {p} : doc'[q] = doc[q]
      BY <1>2, <2>1, <2>4 DEF CheckDuplicate
    <3>2. Place(p, "files") /\ "files" \in Labels
      BY <1>1 DEF Place, QueuePlaces, Labels
    <3>3. QED
      BY <1>2, <3>1, <3>2 DEF Moves, AtRest
  <2>5. QED
    BY <2>3, <2>4
<1>4. CASE WriteQueuedFiles(p)
  <2>1. Goto(p, "queueing") /\ UNCHANGED doc
    BY <1>4 DEF WriteQueuedFiles
  <2>2. Place(p, "queueing") /\ "queueing" \in Labels
    BY <1>1 DEF Place, QueuePlaces, Labels
  <2>3. QED
    BY <1>2, <2>1, <2>2 DEF Moves, AtRest
<1>5. CASE ImportNext(p)
  <2>1. PICK l \in {"import", "scan"} : Goto(p, l)
    BY <1>5 DEF ImportNext
  <2>2. UNCHANGED doc /\ pc[p] \in AtRest /\ p # Loop
    BY <1>5, Constants DEF ImportNext, AtRest
  <2>3. Place(p, l) /\ l \in Labels
    BY <1>1, <2>1, <2>2 DEF Place, RunPlaces, QueuePlaces, Labels
  <2>4. QED
    BY <1>2, <2>1, <2>2, <2>3 DEF Moves
<1>6. QED
  BY <1>3, <1>4, <1>5

LEMMA RunMoves ==
  ASSUME PipeInv, Roles, NEW p \in Runners, Runs(p)
  PROVE  \E l \in Labels : Moves(p, l)
<1>1. /\ p \in Procs /\ p \notin Deleters /\ p # Loop
      /\ p \in Workers => p \notin Syncs
      /\ p \in Syncs => p \notin Workers
  BY ProcessIds, Constants DEF Runners
<1>2. doc \in [Procs -> Docs \cup {NoDoc}] /\ (pc[p] \in AtRest => doc[p] = NoDoc)
  BY <1>1 DEF PipeInv, TypeOK, Roles
<1>3. ASSUME NEW l \in RunPlaces \cup {"finally", "dead"},
             p \in Workers => l # "dead", p \in Syncs => l # "finally"
      PROVE  Place(p, l) /\ l \in Labels
  BY <1>1, <1>3 DEF Place, RunPlaces, Labels
<1>4. ASSUME NEW l \in RunPlaces \cup {"dead"}, Leave(p, l),
             p \in Workers => l # "dead", UNCHANGED deletes
      PROVE  \E m \in Labels : Moves(p, m)
  <2>1. Moves(p, l) /\ l \in Labels
    BY <1>1, <1>2, <1>3, <1>4 DEF Moves, Leave, RunPlaces
  <2>2. QED
    BY <2>1
<1>5. CASE Scan(p)
  <2>1. PICK l \in {"finally", "dead", "take"} :
          /\ Goto(p, l) /\ UNCHANGED deletes
          /\ l = "take" => \A q \in Procs \ {p} : doc'[q] = doc[q]
          /\ l # "take" => /\ UNCHANGED doc
                           /\ l = IF p \in Workers THEN "finally" ELSE "dead"
    BY <1>2, <1>5 DEF Scan
  <2>2. pc[p] \in AtRest
    BY <1>5 DEF Scan, AtRest
  <2>3. Place(p, l) /\ l \in Labels
    BY <1>1, <1>3, <2>1 DEF RunPlaces
  <2>4. QED
    BY <1>2, <2>1, <2>2, <2>3 DEF Moves, AtRest
<1>6. CASE Take(p)
  <2>1. PICK l \in {"scan", "dead", "manifestProcessing"} :
          Leave(p, l) /\ UNCHANGED deletes /\ (p \in Workers => l # "dead")
    BY <1>6 DEF Take, RunnerRaised
  <2>2. QED
    BY <1>4, <2>1 DEF RunPlaces
<1>7. CASE Extract(p) \/ WriteChunks(p)
  <2>1. PICK l \in {"chunk", "manifestFailed", "manifestReady"} :
          Goto(p, l) /\ UNCHANGED deletes /\ UNCHANGED doc
    BY <1>7 DEF Extract, WriteChunks
  <2>2. Place(p, l) /\ l \in Labels
    BY <1>3, <2>1 DEF RunPlaces
  <2>3. QED
    BY <2>1, <2>2 DEF Moves, AtRest
<1>8. CASE ManifestProcessing(p) \/ ManifestReady(p) \/ ManifestFailed(p)
  <2>1. PICK l \in {"markProcessing", "markReady", "markFailed", "scan", "dead",
                    "manifestFailed"} :
          Leave(p, l) /\ UNCHANGED deletes /\ (p \in Workers => l # "dead")
    BY <1>8 DEF ManifestProcessing, ManifestReady, ManifestFailed, WriteManifest, WriteRaises,
                RunnerRaised
  <2>2. QED
    BY <1>4, <2>1 DEF RunPlaces
<1>9. QED
  BY <1>5, <1>6, <1>7, <1>8 DEF Runs

LEMMA DeleteMoves ==
  ASSUME PipeInv, Roles, NEW q \in Deleters, Deletes(q)
  PROVE  \E l \in Labels : Moves(q, l) /\ deletes' > 0
<1>1. /\ q \in Procs /\ q \notin Workers /\ q \notin Syncs /\ q # Loop
      /\ deletes \in Nat /\ doc \in [Procs -> Docs \cup {NoDoc}]
  BY ProcessIds, Constants DEF PipeInv, TypeOK
<1>2. PICK l \in DeletePlaces : Goto(q, l)
  BY DEF Deletes, DeleteLookup, UnlinkManifest, RmRaw, RmDerived, DeletePlaces
<1>3. \A p \in Procs \ {q} : doc'[p] = doc[p]
  BY <1>1 DEF Deletes, DeleteLookup, UnlinkManifest, RmRaw, RmDerived
<1>4. deletes' \in {deletes, deletes + 1} /\ deletes' > 0
  BY <1>1 DEF Deletes, DeleteLookup, UnlinkManifest, RmRaw, RmDerived, Roles
<1>5. Place(q, l) /\ l \in Labels /\ l \notin AtRest \cup {"finally"}
  BY <1>1 DEF Place, DeletePlaces, Labels, AtRest
<1>6. QED
  BY <1>2, <1>3, <1>4, <1>5 DEF Moves

LEMMA ExitMoves ==
  ASSUME PipeInv, Roles, NEW t \in Workers, WorkerExit(t)
  PROVE  Moves(t, "off") /\ "off" \in Labels
<1>1. t \in Procs /\ t \notin Deleters /\ t \notin Syncs /\ t # Loop
  BY ProcessIds, Constants
<1>2. Goto(t, "off") /\ doc' = doc /\ doc[t] = NoDoc /\ deletes' = deletes
  BY <1>1 DEF WorkerExit, Roles, files
<1>3. QED
  BY <1>1, <1>2 DEF Moves, Place, Labels

(* A worker that is started is the only other thing Poll and an upload     *)
(* that ends change.                                                       *)
LEMMA StartMoves ==
  ASSUME PipeInv, Roles, Poll \/ UploadDone
  PROVE  /\ UNCHANGED <<regVars, files, doc, deletes>>
         /\ \A p \in Procs :
              \/ pc'[p] = pc[p]
              \/ p = Loop /\ pc[p] = "queued" /\ pc'[p] = "idle"
              \/ p \in Workers /\ pc[p] = "off" /\ pc'[p] = "scan"
<1>1. UNCHANGED <<regVars, files, doc, deletes>> /\ pc \in [Procs -> Labels]
  BY DEF Poll, UploadDone, PipeInv, TypeOK
<1>2. PICK pcs \in [Procs -> Labels] :
        /\ StartWorker(pcs)
        /\ pcs = pc \/ (pc[Loop] = "queued" /\ pcs = [pc EXCEPT ![Loop] = "idle"])
  <2>1. CASE Poll
    BY <1>1, <2>1 DEF Poll
  <2>2. CASE UploadDone
    <3>1. [pc EXCEPT ![Loop] = "idle"] \in [Procs -> Labels]
      BY <1>1 DEF Labels
    <3>2. QED
      BY <2>2, <3>1 DEF UploadDone
  <2>3. QED
    BY <2>1, <2>2
<1>3. \A t \in Workers : pcs[t] = pc[t]
  BY <1>1, <1>2, ProcessIds
<1>4. \/ pc' = pcs
      \/ \E t \in Workers : pc[t] = "off" /\ pc' = [pcs EXCEPT ![t] = "scan"]
  BY <1>2 DEF StartWorker
<1>5. QED
  BY <1>1, <1>2, <1>3, <1>4, ProcessIds

(* A restart leaves every process of the web service at its place of rest. *)
LEMMA RestartMoves ==
  ASSUME PipeInv, WebRestart
  PROVE  /\ \A p \in Web : /\ doc'[p] = NoDoc
                           /\ pc'[p] = IF p \in Workers THEN "off" ELSE "idle"
         /\ \A p \in Procs \ Web : pc'[p] = pc[p] /\ doc'[p] = doc[p]
         /\ Kill(Web) /\ UNCHANGED <<files, deletes>>
<1>1. \A p \in Web : p \in Procs /\ p \notin Syncs
  BY ProcessIds, Constants DEF Web
<1>2. QED
  BY <1>1 DEF WebRestart, RestPC

LEMMA RolesNext == PipeInv /\ Roles /\ [Next]_vars => Roles'
<1> SUFFICES ASSUME PipeInv, Roles, [Next]_vars PROVE Roles'
  OBVIOUS
<1>1. CASE UNCHANGED vars
  BY <1>1 DEF vars, Roles
<1>2. CASE Poll \/ UploadDone
  <2>1. /\ UNCHANGED <<doc, deletes>>
        /\ \A p \in Procs :
             \/ pc'[p] = pc[p]
             \/ p = Loop /\ pc[p] = "queued" /\ pc'[p] = "idle"
             \/ p \in Workers /\ pc[p] = "off" /\ pc'[p] = "scan"
    BY <1>2, StartMoves
  <2>2. /\ \A p \in Deleters \cup Syncs : p \in Procs /\ p # Loop /\ p \notin Workers
        /\ \A p \in Workers : p # Loop
    BY ProcessIds, Constants
  <2>3. QED
    BY <2>1, <2>2, ProcessIds DEF Roles, RunPlaces, QueuePlaces, AtRest
<1>3. CASE WebRestart
  <2>1. /\ Loop \in Web /\ Loop \notin Workers
        /\ \A p \in Deleters : p \in Web /\ p \notin Workers
        /\ \A p \in Workers : p \in Web
        /\ \A p \in Syncs : p \in Procs \ Web
    BY ProcessIds, Constants DEF Web
  <2>2. deletes' = deletes
    BY <1>3 DEF WebRestart
  <2>3. QED
    BY <1>3, <2>1, <2>2, RestartMoves DEF Roles
<1>4. ASSUME NEW p \in Procs, Updates(p)
      PROVE  Roles'
  <2>1. CASE RegistryLoad(p) \/ RegistryWrite(p)
    BY <2>1 DEF RegistryLoad, RegistryWrite, pipeVars, Roles
  <2>2. CASE RegistrySaved(p) \/ RegistryRaised(p)
    BY <2>2, UpdateMoves, MoveKeepsRoles
  <2>3. QED
    BY <1>4, <2>1, <2>2 DEF Updates
<1>5. ASSUME NEW p \in Queuers, Looks(p) \/ WriteQueuedFiles(p) \/ ImportNext(p)
      PROVE  Roles'
  BY <1>5, QueueMoves, MoveKeepsRoles, ProcessIds, Constants DEF Queuers
<1>6. ASSUME NEW p \in Runners, Runs(p)
      PROVE  Roles'
  BY <1>6, RunMoves, MoveKeepsRoles, ProcessIds, Constants DEF Runners
<1>7. ASSUME NEW t \in Workers, WorkerExit(t)
      PROVE  Roles'
  BY <1>7, ExitMoves, MoveKeepsRoles, ProcessIds, Constants
<1>8. ASSUME NEW q \in Deleters, Deletes(q)
      PROVE  Roles'
  BY <1>8, DeleteMoves, MoveKeepsRoles, ProcessIds
<1>9. \A p \in Syncs : p \in Queuers
  BY DEF Queuers
<1>10. QED
  BY <1>1, <1>2, <1>3, <1>4, <1>5, <1>6, <1>7, <1>8, <1>9, StepIs

(* Inside a registry update nothing but the registry moves a process, and  *)
(* until its end it keeps its place and its document.                      *)
LEMMA WindowHolds ==
  ASSUME PipeInv, Roles, [Next]_vars, NEW q \in Procs, phase'[q] # "idle"
  PROVE  pc'[q] = pc[q] /\ doc'[q] = doc[q] /\ pc[q] \in Updating
<1>1. CASE UNCHANGED vars
  BY <1>1 DEF vars, PipeInv, HasDoc
<1>2. CASE Poll \/ UploadDone
  <2>1. phase'[q] = phase[q] /\ doc'[q] = doc[q]
    BY <1>2, StartMoves DEF regVars
  <2>2. pc[q] \in Updating
    BY <2>1 DEF PipeInv, HasDoc
  <2>3. QED
    BY <1>2, <2>1, <2>2, StartMoves DEF Updating
<1>3. CASE WebRestart
  <2>1. q \in Procs \ Web /\ phase'[q] = phase[q]
    BY <1>3 DEF WebRestart, Kill
  <2>2. QED
    BY <1>3, <2>1, RestartMoves DEF PipeInv, HasDoc
<1>4. ASSUME NEW p \in Procs, Updates(p)
      PROVE  pc'[q] = pc[q] /\ doc'[q] = doc[q] /\ pc[q] \in Updating
  <2>0. phase \in [Procs -> Phases]
    BY DEF PipeInv, TypeOK, RegTypeOK
  <2>1. CASE RegistryLoad(p)
    <3>1. UNCHANGED <<pc, doc>>
      BY <2>1 DEF RegistryLoad, pipeVars
    <3>2. q = p \/ phase'[q] = phase[q]
      BY <2>0, <2>1 DEF RegistryLoad, Begin
    <3>3. QED
      BY <2>1, <3>1, <3>2 DEF RegistryLoad, PipeInv, HasDoc
  <2>2. CASE RegistryWrite(p)
    <3>1. UNCHANGED <<pc, doc>>
      BY <2>2 DEF RegistryWrite, pipeVars
    <3>2. phase[q] # "idle"
      BY <2>0, <2>2 DEF RegistryWrite, OpenTmp, WriteTmp
    <3>3. QED
      BY <3>1, <3>2 DEF PipeInv, HasDoc
  <2>3. CASE RegistrySaved(p) \/ RegistryRaised(p)
    <3>1. phase' = [phase EXCEPT ![p] = "idle"]
      BY <2>3 DEF RegistrySaved, RegistryRaised, Replace, ReplaceRaises, EndWindow
    <3>2. q # p /\ phase[q] # "idle"
      BY <2>0, <3>1
    <3>3. pc'[q] = pc[q] /\ doc'[q] = doc[q]
      BY <2>3, <3>2, UpdateMoves DEF Moves, Goto, PipeInv, TypeOK
    <3>4. QED
      BY <3>2, <3>3 DEF PipeInv, HasDoc
  <2>4. QED
    BY <1>4, <2>1, <2>2, <2>3 DEF Updates
<1>5. ASSUME NEW p \in Procs, pc[p] \notin Updating, UNCHANGED regVars,
             \E l \in Labels : Moves(p, l)
      PROVE  pc'[q] = pc[q] /\ doc'[q] = doc[q] /\ pc[q] \in Updating
  <2>1. pc[q] \in Updating /\ q # p
    BY <1>5 DEF regVars, PipeInv, HasDoc
  <2>2. QED
    BY <1>5, <2>1 DEF Moves, Goto, PipeInv, TypeOK
<1>6. ASSUME NEW p, Looks(p) \/ WriteQueuedFiles(p) \/ ImportNext(p) \/ WorkerExit(p)
                      \/ Deletes(p)
      PROVE  pc[p] \notin Updating /\ UNCHANGED regVars
  BY <1>6 DEF Looks, CheckDuplicate, WriteQueuedFiles, ImportNext, WorkerExit, Deletes,
              DeleteLookup, UnlinkManifest, RmRaw, RmDerived, Updating
<1>7. ASSUME NEW p, Runs(p)
      PROVE  pc[p] \notin Updating /\ UNCHANGED regVars
  BY <1>7 DEF Runs, Scan, Take, ManifestProcessing, Extract, WriteChunks, ManifestReady,
              ManifestFailed, WriteManifest, WriteRaises, Updating
<1>8. ASSUME NEW p \in Queuers, Looks(p) \/ WriteQueuedFiles(p) \/ ImportNext(p)
      PROVE  pc'[q] = pc[q] /\ doc'[q] = doc[q] /\ pc[q] \in Updating
  BY <1>5, <1>6, <1>8, QueueMoves, ProcessIds DEF Queuers
<1>9. ASSUME NEW p \in Runners, Runs(p)
      PROVE  pc'[q] = pc[q] /\ doc'[q] = doc[q] /\ pc[q] \in Updating
  BY <1>5, <1>7, <1>9, RunMoves, ProcessIds DEF Runners
<1>10. ASSUME NEW t \in Workers, WorkerExit(t)
       PROVE  pc'[q] = pc[q] /\ doc'[q] = doc[q] /\ pc[q] \in Updating
  BY <1>5, <1>6, <1>10, ExitMoves, ProcessIds
<1>11. ASSUME NEW d \in Deleters, Deletes(d)
       PROVE  pc'[q] = pc[q] /\ doc'[q] = doc[q] /\ pc[q] \in Updating
  BY <1>5, <1>6, <1>11, DeleteMoves, ProcessIds
<1>12. \A p \in Syncs : p \in Queuers
  BY DEF Queuers
<1>13. QED
  BY <1>1, <1>2, <1>3, <1>4, <1>8, <1>9, <1>10, <1>11, <1>12, StepIs

-----------------------------------------------------------------------------
(* As long as no two registry updates have met, the one under way is about *)
(* to save its change of what docs.json still holds.                       *)
AlonePhase(p) ==
  /\ phase[p] = "opened" => fd[p] = "tmp" /\ tmp = Blank
  /\ phase[p] = "written" => tmp = snap[p]
  /\ phase[p] # "idle" => snap[p] = NewRegistry(p)

Alone ==
  ~overlap =>
    /\ json \in Registries
    /\ \A p, q \in Procs : phase[p] # "idle" /\ phase[q] # "idle" => p = q
    /\ \A p \in Procs : AlonePhase(p)

(* A step that docs.json survives leaves the change to be saved as it is.  *)
LEMMA ChangeStays ==
  ASSUME PipeInv, Roles, [Next]_vars, NEW p \in Procs, phase'[p] # "idle", json' = json
  PROVE  NewRegistry(p)' = NewRegistry(p)
  BY WindowHolds DEF NewRegistry

LEMMA OverlapStood == [Next]_vars /\ ~overlap' => ~overlap
<1> SUFFICES ASSUME [Next]_vars, ~overlap' PROVE ~overlap
  OBVIOUS
<1>1. ASSUME NEW p \in Procs, RegistryDoes(p) PROVE ~overlap
  BY <1>1 DEF RegistryDoes, RegistryLoad, RegistrySaved, Begin, OpenTmp, WriteTmp, Replace,
              ReplaceRaises, EndWindow
<1>2. QED
  BY <1>1, RegistryStep DEF regVars, Kill

LEMMA AloneNext == PipeInv /\ Roles /\ Alone /\ [Next]_vars => Alone'
<1> SUFFICES ASSUME PipeInv, Roles, Alone, [Next]_vars, ~overlap' PROVE Alone!2'
  BY DEF Alone
<1>1. Alone!2 /\ RegTypeOK
  BY OverlapStood DEF Alone, PipeInv, TypeOK
<1>2. CASE UNCHANGED regVars
  BY <1>1, <1>2, ChangeStays DEF regVars, AlonePhase
<1>3. CASE Kill(Web)
  BY <1>1, <1>3, ChangeStays DEF Kill, RegTypeOK, Phases, AlonePhase
<1>4. ASSUME NEW p \in Procs, RegistryDoes(p)
      PROVE  Alone!2'
  <2>1. CASE RegistryLoad(p)
    <3>1. \A q \in Procs \ {p} : phase[q] = "idle" /\ phase'[q] = "idle"
      BY <1>1, <2>1 DEF RegistryLoad, Begin, RegTypeOK
    <3>2. /\ json' = json /\ phase'[p] = "loaded" /\ snap'[p] = NewRegistry(p)
      BY <1>1, <2>1 DEF RegistryLoad, Begin, RegTypeOK
    <3>3. QED
      BY <1>1, <3>1, <3>2, ChangeStays DEF AlonePhase
  <2>2. CASE OpenTmp(p)
    <3>1. /\ phase' = [phase EXCEPT ![p] = "opened"] /\ fd' = [fd EXCEPT ![p] = "tmp"]
          /\ tmp' = Blank /\ phase[p] = "loaded" /\ UNCHANGED <<json, snap>>
      BY <2>2 DEF OpenTmp
    <3>2. \A q \in Procs \ {p} : phase[q] = "idle" /\ phase'[q] = "idle"
      BY <1>1, <3>1 DEF RegTypeOK
    <3>3. fd'[p] = "tmp" /\ phase'[p] = "opened" /\ snap'[p] = NewRegistry(p)
      BY <1>1, <3>1 DEF RegTypeOK, AlonePhase
    <3>4. QED
      BY <1>1, <3>1, <3>2, <3>3, ChangeStays DEF AlonePhase
  <2>3. CASE WriteTmp(p)
    <3>1. fd[p] = "tmp" /\ tmp = Blank /\ phase[p] = "opened"
      BY <1>1, <2>3 DEF WriteTmp, AlonePhase
    <3>2. tmp' = snap[p] /\ UNCHANGED <<json, snap>> /\ phase' = [phase EXCEPT ![p] = "written"]
      BY <2>3, <3>1 DEF WriteTmp, Overwrite
    <3>3. \A q \in Procs \ {p} : phase[q] = "idle" /\ phase'[q] = "idle"
      BY <1>1, <3>1, <3>2 DEF RegTypeOK
    <3>4. phase'[p] = "written" /\ snap'[p] = NewRegistry(p)
      BY <1>1, <3>1, <3>2 DEF RegTypeOK, AlonePhase
    <3>5. QED
      BY <1>1, <3>2, <3>3, <3>4, ChangeStays DEF AlonePhase
  <2>4. CASE RegistrySaved(p)
    <3>1. json' = snap[p] /\ phase[p] = "written" /\ phase' = [phase EXCEPT ![p] = "idle"]
      BY <1>1, <2>4 DEF RegistrySaved, Replace, EndWindow, AlonePhase
    <3>2. \A q \in Procs : phase'[q] = "idle"
      BY <1>1, <3>1 DEF RegTypeOK
    <3>3. snap[p] \in Registries
      BY <1>1 DEF RegTypeOK
    <3>4. QED
      BY <3>1, <3>2, <3>3 DEF AlonePhase
  <2>5. CASE ReplaceRaises(p)
    <3>1. json' = json /\ phase[p] = "written" /\ phase' = [phase EXCEPT ![p] = "idle"]
      BY <2>5 DEF ReplaceRaises, EndWindow
    <3>2. \A q \in Procs : phase'[q] = "idle"
      BY <1>1, <3>1 DEF RegTypeOK
    <3>3. QED
      BY <1>1, <3>1, <3>2 DEF AlonePhase
  <2>6. QED
    BY <1>4, <2>1, <2>2, <2>3, <2>4, <2>5 DEF RegistryDoes
<1>5. QED
  BY <1>2, <1>3, <1>4, RegistryStep

(* The status an update gives its document.                                *)
Marks(l) ==
  CASE l = "queueing" -> "queued" [] l = "markProcessing" -> "processing"
    [] l = "markReady" -> "ready" [] l = "markFailed" -> "failed" [] OTHER -> "absent"

(* Until updates have met, docs.json changes only when an update is saved, *)
(* and then only in the entry of the document its process works on.        *)
LEMMA Saved ==
  ASSUME PipeInv, Roles, Alone, [Next]_vars, ~overlap'
  PROVE  /\ ~overlap /\ json \in Registries /\ Load(json) = json
         /\ \/ json' = json
            \/ \E p \in Procs : /\ RegistrySaved(p) /\ pc[p] \in Updating /\ doc[p] \in Docs
                                /\ json' = [json EXCEPT ![doc[p]] = Marks(pc[p])]
<1>1. ~overlap /\ Alone!2 /\ Load(json) = json
  BY OverlapStood DEF Alone, Load
<1>2. CASE UNCHANGED regVars \/ Kill(Web)
  BY <1>1, <1>2 DEF regVars, Kill
<1>3. ASSUME NEW p \in Procs, RegistryDoes(p), json' # json
      PROVE  /\ RegistrySaved(p) /\ pc[p] \in Updating /\ doc[p] \in Docs
             /\ json' = [json EXCEPT ![doc[p]] = Marks(pc[p])]
  <2>1. ~WriteTmp(p)
    BY <1>1, <1>3 DEF WriteTmp, AlonePhase
  <2>2. RegistrySaved(p)
    BY <1>3, <2>1 DEF RegistryDoes, RegistryLoad, Begin, OpenTmp, ReplaceRaises
  <2>3. phase[p] = "written" /\ json' = tmp
    BY <2>2 DEF RegistrySaved, Replace, EndWindow
  <2>4. json' = NewRegistry(p) /\ pc[p] \in Updating
    BY <1>1, <2>3 DEF AlonePhase, PipeInv, HasDoc
  <2>5. doc[p] \in Docs
    BY <2>4 DEF PipeInv, HasDoc, Updating, AtRest
  <2>6. NewRegistry(p) = [json EXCEPT ![doc[p]] = Marks(pc[p])]
    BY <1>1, <2>4 DEF NewRegistry, Marks, Upsert, Remove, Updating
  <2>7. QED
    BY <2>2, <2>4, <2>5, <2>6
<1>4. QED
  BY <1>1, <1>2, <1>3, RegistryStep

LEMMA AloneInit == Init => Roles /\ Alone
<1> SUFFICES ASSUME Init PROVE Roles /\ Alone
  OBVIOUS
<1>1. /\ pc[Loop] = "idle" /\ \A p \in Procs : doc[p] = NoDoc
      /\ \A t \in Workers : pc[t] = "off"
      /\ \A q \in Deleters : pc[q] = "idle"
      /\ \A s \in Syncs : pc[s] = "import"
  BY ProcessIds, Constants DEF Init, RestPC
<1>2. Roles
  BY <1>1 DEF Roles
<1>3. Alone
  BY EmptyTyped DEF Init, RegInit, Alone, AlonePhase
<1>4. QED
  BY <1>2, <1>3

(* The pipeline's processes and the registry update under way relate so.   *)
LEMMA PipelineAlone == Spec => [](PipeInv /\ Roles /\ Alone)
<1>1. Init => PipeInv /\ Roles /\ Alone
  BY InitSafe, AloneInit
<1>2. PipeInv /\ Roles /\ Alone /\ [Next]_vars => (PipeInv /\ Roles /\ Alone)'
  BY StepSafe, RolesNext, AloneNext
<1>3. QED
  BY <1>1, <1>2, PTL DEF Spec

(* For any documents, contents, processes, crashes and deletes: while      *)
(* registry updates have not overlapped, api_delete_doc's own update is    *)
(* the only way a document leaves docs.json.                               *)
THEOREM LeavesOnlyByDelete == Spec => LeavesByDelete
<1>1. ASSUME PipeInv, Roles, Alone, [Next]_vars, NEW d \in Docs, ~overlap',
             Load(json)[d] # "absent", Load(json')[d] = "absent"
      PROVE  \E q \in Deleters : pc[q] = "unlist" /\ doc[q] = d
  <2>1. json \in Registries /\ Load(json) = json /\ json' # json
    BY <1>1, Saved
  <2>2. PICK p \in Procs : /\ pc[p] \in Updating /\ doc[p] \in Docs
                           /\ json' = [json EXCEPT ![doc[p]] = Marks(pc[p])]
    BY <1>1, <2>1, Saved
  <2>3. Marks(pc[p]) \in Entry
    BY DEF Marks, Entry, Statuses
  <2>4. json' \in Registries
    BY <2>1, <2>2, <2>3 DEF Registries
  <2>5. Load(json') = json'
    BY <2>4 DEF Load
  <2>6. doc[p] = d /\ Marks(pc[p]) = "absent"
    BY <1>1, <2>1, <2>2, <2>5 DEF Registries
  <2>7. pc[p] = "unlist"
    BY <2>2, <2>6 DEF Marks, Updating
  <2>8. p \in Deleters
    <3>1. p # Loop /\ p \notin Workers /\ p \notin Syncs
      BY <1>1, <2>7 DEF Roles, RunPlaces, QueuePlaces
    <3>2. QED
      BY <2>2, <3>1, Constants
  <2>9. QED
    BY <2>6, <2>7, <2>8
<1>2. PipeInv /\ Roles /\ Alone /\ [Next]_vars =>
        [\A d \in Docs :
           ~overlap' /\ Load(json)[d] # "absent" /\ Load(json')[d] = "absent"
             => \E q \in Deleters : pc[q] = "unlist" /\ doc[q] = d]_vars
  BY <1>1
<1>3. QED
  BY <1>2, PipelineAlone, PTL DEF Spec, LeavesByDelete

-----------------------------------------------------------------------------
(* How documents change hands: a step takes one up, hands a content a new  *)
(* id, or only puts documents down.                                        *)

PutsDown ==
  /\ UNCHANGED sha
  /\ \A p \in Procs : /\ doc'[p] \in {doc[p], NoDoc}
                      /\ pc'[p] \in {"files", "queueing"} =>
                           pc[p] \in {"files", "queueing"} /\ doc'[p] = doc[p]

TakesUp(p, d) ==
  /\ p \in Runners \cup Deleters
  /\ Load(json)[d] # "absent" /\ (p \in Runners => d \in Candidates)
  /\ doc' = [doc EXCEPT ![p] = d]
  /\ pc' = [pc EXCEPT ![p] = IF p \in Runners THEN "take" ELSE "unlink"]
  /\ deletes' \in {deletes, deletes + 1}
  /\ UNCHANGED <<regVars, files>>

Names(p, h, d) ==
  /\ p \in Queuers /\ Existing(h) = {} /\ sha[d] = NoHash
  /\ p = Loop => pc[p] \in {"idle", "queued"}
  /\ doc' = [doc EXCEPT ![p] = d]
  /\ sha' = [sha EXCEPT ![d] = h]
  /\ pc' = [pc EXCEPT ![p] = "files"]
  /\ UNCHANGED <<regVars, manifest, deletes>>

LEMMA HandsOver ==
  ASSUME PipeInv, Roles, [Next]_vars
  PROVE  \/ PutsDown
         \/ \E p \in Procs, d \in Docs : TakesUp(p, d)
         \/ \E p \in Procs, h \in Hashes, d \in Docs : Names(p, h, d)
<1>0. pc \in [Procs -> Labels] /\ doc \in [Procs -> Docs \cup {NoDoc}]
  BY DEF PipeInv, TypeOK
<1>1. CASE UNCHANGED vars
  BY <1>1 DEF vars, PutsDown
<1>2. CASE Poll \/ UploadDone
  <2>1. UNCHANGED <<files, doc>>
    BY <1>2, StartMoves
  <2>2. \A p \in Procs : pc'[p] \in {"files", "queueing"} => pc[p] = pc'[p]
    BY <1>2, StartMoves
  <2>3. QED
    BY <2>1, <2>2 DEF files, PutsDown
<1>3. CASE WebRestart
  BY <1>3, RestartMoves, ProcessIds DEF files, PutsDown
<1>4. ASSUME NEW p \in Procs, NEW l \in Labels \ {"files", "queueing"}, Goto(p, l),
             \A q \in Procs \ {p} : doc'[q] = doc[q], doc'[p] \in {doc[p], NoDoc},
             UNCHANGED sha
      PROVE  PutsDown
  BY <1>0, <1>4 DEF PutsDown, Goto
<1>5. ASSUME NEW p \in Procs, Updates(p)
      PROVE  PutsDown
  <2>1. CASE RegistryLoad(p) \/ RegistryWrite(p)
    BY <2>1 DEF RegistryLoad, RegistryWrite, pipeVars, PutsDown
  <2>2. CASE RegistrySaved(p) \/ RegistryRaised(p)
    <3>1. PICK l \in Labels \ {"files", "queueing"} : Leave(p, l)
      <4>1. AfterSave(p) \in Labels \ {"files", "queueing"}
        BY DEF AfterSave, Labels
      <4>2. AfterRaise(p) \in Labels \ {"files", "queueing"}
        BY DEF AfterRaise, RunnerRaised, Labels
      <4>3. QED
        BY <2>2, <4>1, <4>2 DEF RegistrySaved, RegistryRaised
    <3>2. UNCHANGED sha
      BY <2>2 DEF RegistrySaved, RegistryRaised, files
    <3>3. QED
      BY <1>0, <1>4, <3>1, <3>2 DEF Leave
  <2>3. QED
    BY <1>5, <2>1, <2>2 DEF Updates
<1>6. ASSUME NEW p \in Queuers, Looks(p)
      PROVE  PutsDown \/ \E h \in Hashes, d \in Docs : Names(p, h, d)
  <2>1. PICK h \in Hashes : CheckDuplicate(p, h)
    BY <1>6 DEF Looks
  <2>2. p \in Procs /\ (p = Loop => pc[p] \in {"idle", "queued"})
    BY <1>6, ProcessIds, Constants DEF Looks, Queuers
  <2>3. CASE Existing(h) # {}
    <3>1. PICK l \in {"queued", "import"} : Goto(p, l)
      BY <2>1, <2>3 DEF CheckDuplicate
    <3>2. UNCHANGED <<doc, sha>> /\ l \in Labels \ {"files", "queueing"}
      BY <2>1, <2>3 DEF CheckDuplicate, Labels
    <3>3. QED
      BY <1>4, <2>2, <3>1, <3>2
  <2>4. CASE Existing(h) = {}
    <3>1. PICK d \in Docs : /\ sha[d] = NoHash
                            /\ doc' = [doc EXCEPT ![p] = d] /\ sha' = [sha EXCEPT ![d] = h]
                            /\ Goto(p, "files")
      BY <2>1, <2>4 DEF CheckDuplicate
    <3>2. Names(p, h, d)
      BY <2>1, <2>2, <2>4, <3>1, <1>6 DEF Names, CheckDuplicate, Goto
    <3>3. QED
      BY <3>2
  <2>5. QED
    BY <2>3, <2>4
<1>7. ASSUME NEW p \in Queuers, WriteQueuedFiles(p)
      PROVE  PutsDown
  BY <1>0, <1>7, ProcessIds DEF WriteQueuedFiles, Goto, PutsDown, Queuers
<1>8. ASSUME NEW p \in Syncs, ImportNext(p)
      PROVE  PutsDown
  <2>1. PICK l \in {"import", "scan"} : Goto(p, l)
    BY <1>8 DEF ImportNext
  <2>2. p \in Procs /\ UNCHANGED <<doc, sha>> /\ l \in Labels \ {"files", "queueing"}
    BY <1>8, ProcessIds DEF ImportNext, files, Labels
  <2>3. QED
    BY <1>4, <2>1, <2>2
<1>9. ASSUME NEW p \in Runners, Runs(p)
      PROVE  PutsDown \/ \E d \in Docs : TakesUp(p, d)
  <2>0. p \in Procs
    BY ProcessIds DEF Runners
  <2>1. CASE Scan(p)
    <3>1. CASE Candidates = {}
      <4>1. PICK l \in {"finally", "dead"} : Goto(p, l)
        BY <2>1, <3>1 DEF Scan
      <4>2. UNCHANGED <<doc, sha>> /\ l \in Labels \ {"files", "queueing"}
        BY <2>1, <3>1 DEF Scan, files, Labels
      <4>3. QED
        BY <1>4, <2>0, <4>1, <4>2
    <3>2. CASE Candidates # {}
      <4>1. Head \in Docs /\ Head \in Candidates
        BY <3>2, HeadInQueue, HeadIsDoc
      <4>2. Load(json)[Head] # "absent"
        BY <4>1 DEF Candidates
      <4>3. TakesUp(p, Head)
        BY <1>9, <2>1, <3>2, <4>1, <4>2 DEF TakesUp, Scan, Goto
      <4>4. QED
        BY <4>1, <4>3
    <3>3. QED
      BY <3>1, <3>2
  <2>2. CASE Extract(p) \/ WriteChunks(p)
    <3>1. PICK l \in {"chunk", "manifestReady", "manifestFailed"} : Goto(p, l)
      BY <2>2 DEF Extract, WriteChunks
    <3>2. UNCHANGED <<doc, sha>> /\ l \in Labels \ {"files", "queueing"}
      BY <2>2 DEF Extract, WriteChunks, files, Labels
    <3>3. QED
      BY <1>4, <2>0, <3>1, <3>2
  <2>3. CASE Take(p) \/ ManifestProcessing(p) \/ ManifestReady(p) \/ ManifestFailed(p)
    <3>1. PICK l \in {"scan", "dead", "manifestProcessing", "markProcessing", "markReady",
                      "markFailed", "manifestFailed"} : Leave(p, l)
      BY <2>3 DEF Take, ManifestProcessing, ManifestReady, ManifestFailed, WriteManifest,
                  WriteRaises, RunnerRaised
    <3>2. UNCHANGED sha /\ l \in Labels \ {"files", "queueing"}
      BY <2>3 DEF Take, ManifestProcessing, ManifestReady, ManifestFailed, WriteManifest,
                  WriteRaises, files, Labels
    <3>3. QED
      BY <1>0, <1>4, <2>0, <3>1, <3>2 DEF Leave
  <2>4. QED
    BY <1>9, <2>1, <2>2, <2>3 DEF Runs
<1>10. ASSUME NEW t \in Workers, WorkerExit(t)
       PROVE  PutsDown
  BY <1>0, <1>4, <1>10, ProcessIds DEF WorkerExit, files, Labels
<1>11. ASSUME NEW q \in Deleters, Deletes(q)
       PROVE  PutsDown \/ \E d \in Docs : TakesUp(q, d)
  <2>1. q \in Procs /\ q \notin Runners
    BY ProcessIds, Constants DEF Runners
  <2>2. ASSUME NEW d \in Docs, DeleteLookup(q, d)
        PROVE  TakesUp(q, d)
    BY <2>1, <2>2 DEF TakesUp, DeleteLookup, Goto
  <2>3. CASE UnlinkManifest(q) \/ RmRaw(q) \/ RmDerived(q)
    <3>1. PICK l \in {"rmRaw", "rmDerived", "unlist"} : Goto(q, l)
      BY <2>3 DEF UnlinkManifest, RmRaw, RmDerived
    <3>2. UNCHANGED <<doc, sha>> /\ l \in Labels \ {"files", "queueing"}
      BY <2>3 DEF UnlinkManifest, RmRaw, RmDerived, Labels
    <3>3. QED
      BY <1>4, <2>1, <3>1, <3>2
  <2>4. QED
    BY <1>11, <2>2, <2>3 DEF Deletes
<1>12. /\ \A p \in Queuers : p \in Procs
       /\ \A p \in Runners : p \in Procs
       /\ \A q \in Deleters : q \in Procs
  BY ProcessIds DEF Queuers, Runners
<1>13. QED
  BY <1>1, <1>2, <1>3, <1>5, <1>6, <1>7, <1>8, <1>9, <1>10, <1>11, <1>12, StepIs

(* The document of a new upload is nobody else's, and in no registry.      *)
Fresh ==
  ~overlap =>
    /\ \A d \in Docs : json[d] # "absent" => sha[d] # NoHash
    /\ \A p \in Procs : doc[p] \in Docs => sha[doc[p]] # NoHash
    /\ \A p \in Procs : pc[p] \in {"files", "queueing"} =>
         json[doc[p]] = "absent" /\ \A q \in Procs \ {p} : doc[q] # doc[p]

(* A saved update moves its process on.                                    *)
LEMMA SavedMoves ==
  ASSUME PipeInv, NEW p \in Procs, RegistrySaved(p)
  PROVE  /\ pc' = [pc EXCEPT ![p] = AfterSave(p)]
         /\ doc'[p] = IF AfterSave(p) \in AtRest THEN NoDoc ELSE doc[p]
         /\ \A q \in Procs \ {p} : doc'[q] = doc[q] /\ pc'[q] = pc[q]
         /\ AfterSave(p) \in {"queued", "extract", "scan", "idle"}
         /\ UNCHANGED <<files, deletes>>
  BY DEF RegistrySaved, Leave, Goto, AfterSave, PipeInv, TypeOK

LEMMA FreshNext == PipeInv /\ Roles /\ Alone /\ Fresh /\ [Next]_vars => Fresh'
<1> SUFFICES ASSUME PipeInv, Roles, Alone, Fresh, [Next]_vars, ~overlap' PROVE Fresh!2'
  BY DEF Fresh
<1>1. /\ ~overlap /\ Fresh!2 /\ Load(json) = json /\ json \in Registries
      /\ sha \in [Docs -> Hashes \cup {NoHash}] /\ NoDoc \notin Docs /\ NoHash \notin Hashes
      /\ doc \in [Procs -> Docs \cup {NoDoc}] /\ pc \in [Procs -> Labels]
  BY Saved, Constants DEF Fresh, PipeInv, TypeOK
<1>2. \A p \in Procs : pc[p] \in {"files", "queueing"} => doc[p] \in Docs
  BY DEF PipeInv, HasDoc, AtRest
<1>3. CASE PutsDown
  <2>1. ASSUME NEW d \in Docs, json'[d] # "absent" PROVE sha'[d] # NoHash
    <3>1. json[d] # "absent" \/ \E p \in Procs : doc[p] = d
      BY <1>1, <2>1, Saved DEF Registries
    <3>2. QED
      BY <1>1, <1>3, <3>1 DEF PutsDown
  <2>2. \A p \in Procs : doc'[p] \in Docs => sha'[doc'[p]] # NoHash
    BY <1>1, <1>3 DEF PutsDown
  <2>3. ASSUME NEW p \in Procs, pc'[p] \in {"files", "queueing"}
        PROVE  json'[doc'[p]] = "absent" /\ \A q \in Procs \ {p} : doc'[q] # doc'[p]
    <3>1. pc[p] \in {"files", "queueing"} /\ doc'[p] = doc[p] /\ doc[p] \in Docs
      BY <1>2, <1>3, <2>3 DEF PutsDown
    <3>2. \A q \in Procs \ {p} : doc[q] # doc[p]
      BY <1>1, <3>1
    <3>3. \A q \in Procs \ {p} : doc'[q] # doc'[p]
      BY <1>1, <1>3, <3>1, <3>2 DEF PutsDown
    <3>4. ~RegistrySaved(p)
      BY <1>1, <2>3, SavedMoves
    <3>5. json'[doc[p]] = json[doc[p]]
      BY <1>1, <3>1, <3>2, <3>4, Saved DEF Registries
    <3>6. QED
      BY <1>1, <3>1, <3>3, <3>5
  <2>4. QED
    BY <2>1, <2>2, <2>3
<1>4. ASSUME NEW p \in Procs, NEW d \in Docs, TakesUp(p, d)
      PROVE  Fresh!2'
  <2>1. /\ UNCHANGED <<json, sha>> /\ doc' = [doc EXCEPT ![p] = d] /\ json[d] # "absent"
        /\ \A q \in Procs : pc'[q] \in {"files", "queueing"} => q # p /\ pc'[q] = pc[q]
    BY <1>1, <1>4 DEF TakesUp, regVars, files
  <2>2. QED
    BY <1>1, <1>2, <2>1
<1>5. ASSUME NEW p \in Procs, NEW h \in Hashes, NEW d \in Docs, Names(p, h, d)
      PROVE  Fresh!2'
  <2>1. /\ json' = json /\ sha[d] = NoHash /\ doc' = [doc EXCEPT ![p] = d]
        /\ sha' = [sha EXCEPT ![d] = h] /\ pc' = [pc EXCEPT ![p] = "files"]
    BY <1>5 DEF Names, regVars
  <2>2. json[d] = "absent" /\ \A q \in Procs : doc[q] # d
    BY <1>1, <2>1
  <2>3. \A e \in Docs : json'[e] # "absent" => sha'[e] # NoHash
    BY <1>1, <2>1, <2>2
  <2>4. \A q \in Procs : doc'[q] \in Docs => sha'[doc'[q]] # NoHash
    BY <1>1, <2>1
  <2>5. ASSUME NEW q \in Procs, pc'[q] \in {"files", "queueing"}
        PROVE  json'[doc'[q]] = "absent" /\ \A r \in Procs \ {q} : doc'[r] # doc'[q]
    BY <1>1, <1>2, <2>1, <2>2, <2>5
  <2>6. QED
    BY <2>3, <2>4, <2>5
<1>6. QED
  BY <1>3, <1>4, <1>5, HandsOver

LEMMA FreshInit == Init => Fresh
<1>1. Init => /\ json = EmptyRegistry
              /\ \A p \in Procs : doc[p] = NoDoc /\ pc[p] \in {"off", "import", "idle"}
  BY DEF Init, RegInit, RestPC
<1>2. QED
  BY <1>1, Constants DEF Fresh, EmptyRegistry

(* The web process alone: no import runs beside it.                        *)
NoImport == Syncs = {}

(* Of the worker threads only one has a document.                          *)
LEMMA OneRunner ==
  ASSUME PipeInv, Roles, NoImport, NEW t \in Runners, NEW u \in Runners,
         doc[t] \in Docs, doc[u] \in Docs
  PROVE  t = u
<1>1. t \in Workers /\ u \in Workers
  BY DEF NoImport, Runners
<1>2. pc[t] # "off" /\ pc[u] # "off"
  BY <1>1, ProcessIds, Constants DEF Roles, AtRest
<1>3. QED
  BY <1>1, <1>2 DEF PipeInv, OneWorker

-----------------------------------------------------------------------------
(* Uploads alone, without an import and without deletes: a delete takes a  *)
(* document off the registry that the worker may put back, and the same    *)
(* content may have been uploaded again in between.                        *)
UploadsOnly == Syncs = {} /\ Deleters = {}

Counted(d) == json[d] \in {"queued", "processing", "ready"}

(* The contents that count for the duplicate check differ, also from that  *)
(* of the upload under way; what the worker holds counts.                  *)
Distinct ==
  ~overlap =>
    /\ \A d, e \in Docs : d # e /\ Counted(d) /\ Counted(e) => sha[d] # sha[e]
    /\ pc[Loop] \in {"files", "queueing"} =>
         \A e \in Docs : Counted(e) => sha[e] # sha[doc[Loop]]
    /\ \A t \in Workers : doc[t] \in Docs => json[doc[t]] \in {"queued", "processing"}

LEMMA DistinctInit == Init => Distinct
<1>1. Init => /\ json = EmptyRegistry /\ pc[Loop] = "idle"
              /\ \A p \in Procs : doc[p] = NoDoc
  BY ProcessIds, Constants DEF Init, RegInit, RestPC
<1>2. QED
  BY <1>1, ProcessIds, Constants DEF Distinct, Counted, EmptyRegistry

(* A saved update of the upload or of the worker.                          *)
LEMMA DistinctSaved ==
  ASSUME PipeInv, Roles, Alone, Fresh, UploadsOnly, ~overlap, Distinct!2,
         NEW p \in Procs, RegistrySaved(p), pc[p] \in Updating, doc[p] \in Docs,
         json \in Registries, json' = [json EXCEPT ![doc[p]] = Marks(pc[p])]
  PROVE  Distinct!2'
<1>1. /\ sha' = sha /\ NoDoc \notin Docs
      /\ pc' = [pc EXCEPT ![p] = AfterSave(p)] /\ pc \in [Procs -> Labels]
      /\ doc'[p] = IF AfterSave(p) \in AtRest THEN NoDoc ELSE doc[p]
      /\ \A q \in Procs \ {p} : doc'[q] = doc[q] /\ pc'[q] = pc[q]
  BY SavedMoves, Constants DEF files, PipeInv, TypeOK
<1>2. \A d \in Docs : json'[d] = IF d = doc[p] THEN Marks(pc[p]) ELSE json[d]
  BY DEF Registries
<1>3. CASE p = Loop
  <2>1. pc[p] = "queueing" /\ AfterSave(p) = "queued" /\ Marks(pc[p]) = "queued"
    BY <1>3 DEF Roles, QueuePlaces, Updating, AfterSave, Marks
  <2>2. \A q \in Procs \ {p} : doc[q] # doc[p]
    BY <2>1 DEF Fresh
  <2>3. \A e \in Docs : e # doc[p] /\ Counted(e)' => Counted(e) /\ sha[e] # sha[doc[p]]
    BY <1>2, <1>3, <2>1 DEF Counted
  <2>4. \A d, e \in Docs : d # e /\ Counted(d)' /\ Counted(e)' => sha[d] # sha[e]
    BY <2>3
  <2>5. \A t \in Workers : t \in Procs /\ t # Loop
    BY ProcessIds
  <2>6. \A t \in Workers : doc'[t] \in Docs => json'[doc'[t]] \in {"queued", "processing"}
    BY <1>1, <1>2, <1>3, <2>2, <2>5
  <2>7. pc'[Loop] = "queued"
    BY <1>1, <1>3, <2>1
  <2>8. QED
    BY <1>1, <2>4, <2>6, <2>7
<1>4. CASE p \in Workers
  <2>1. json[doc[p]] \in {"queued", "processing"} /\ p # Loop
    BY <1>4, ProcessIds
  <2>2. \A e \in Docs : Counted(e)' => Counted(e)
    BY <1>2, <2>1 DEF Counted
  <2>3. \A d, e \in Docs : d # e /\ Counted(d)' /\ Counted(e)' => sha[d] # sha[e]
    BY <2>2
  <2>4. pc'[Loop] = pc[Loop] /\ doc'[Loop] = doc[Loop]
    BY <1>1, <2>1, ProcessIds
  <2>5. doc'[p] \in Docs => pc[p] = "markProcessing"
    BY <1>1, <1>4 DEF AfterSave, AtRest, Updating, Roles, RunPlaces
  <2>6. ASSUME NEW t \in Workers, doc'[t] \in Docs
        PROVE  json'[doc'[t]] \in {"queued", "processing"}
    <3>1. t \in Procs /\ t \in Runners /\ p \in Runners /\ doc[t] \in Docs /\ NoImport
      BY <1>1, <1>4, <2>6, ProcessIds DEF Runners, UploadsOnly, NoImport
    <3>2. t = p
      BY <3>1, OneRunner
    <3>3. QED
      BY <1>1, <1>2, <2>5, <2>6, <3>2 DEF Marks
  <2>7. QED
    BY <1>1, <2>2, <2>3, <2>4, <2>6
<1>5. QED
  BY <1>3, <1>4, Constants DEF UploadsOnly

LEMMA DistinctNext ==
  ASSUME PipeInv, Roles, Alone, Fresh, Distinct, UploadsOnly, [Next]_vars
  PROVE  Distinct'
<1> SUFFICES ASSUME ~overlap' PROVE Distinct!2'
  BY DEF Distinct
<1>1. /\ ~overlap /\ Distinct!2 /\ Load(json) = json /\ json \in Registries
      /\ NoDoc \notin Docs /\ sha \in [Docs -> Hashes \cup {NoHash}]
      /\ doc \in [Procs -> Docs \cup {NoDoc}] /\ pc \in [Procs -> Labels]
  BY Saved, Constants DEF Distinct, PipeInv, TypeOK
<1>2. \A t \in Workers : t \in Procs /\ t # Loop
  BY ProcessIds
<1>3. CASE PutsDown
  <2>1. CASE json' = json
    BY <1>1, <1>2, <1>3, <2>1, ProcessIds DEF PutsDown, Counted
  <2>2. CASE json' # json
    BY <1>1, <2>2, Saved, DistinctSaved
  <2>3. QED
    BY <2>1, <2>2
<1>4. ASSUME NEW p \in Procs, NEW d \in Docs, TakesUp(p, d)
      PROVE  Distinct!2'
  <2>1. p \in Workers /\ d \in Candidates
    BY <1>4 DEF TakesUp, UploadsOnly, Runners
  <2>2. json[d] \in {"queued", "processing"} /\ UNCHANGED <<json, sha>>
    BY <1>1, <1>4, <2>1 DEF Candidates, TakesUp, regVars, files
  <2>3. doc' = [doc EXCEPT ![p] = d] /\ doc'[Loop] = doc[Loop] /\ pc'[Loop] = pc[Loop]
    BY <1>1, <1>2, <1>4, <2>1, ProcessIds DEF TakesUp
  <2>4. QED
    BY <1>1, <1>2, <2>2, <2>3 DEF Counted
<1>5. ASSUME NEW p \in Procs, NEW h \in Hashes, NEW d \in Docs, Names(p, h, d)
      PROVE  Distinct!2'
  <2>1. p = Loop
    BY <1>5 DEF Names, Queuers, UploadsOnly
  <2>2. /\ json' = json /\ sha[d] = NoHash /\ doc' = [doc EXCEPT ![Loop] = d]
        /\ sha' = [sha EXCEPT ![d] = h]
        /\ \A e \in Docs : Counted(e) => sha[e] # h
    BY <1>1, <1>5, <2>1 DEF Names, regVars, Existing, Counted
  <2>3. ~Counted(d)
    BY <1>1, <2>2 DEF Fresh, Counted
  <2>4. \A e \in Docs : Counted(e)' => Counted(e) /\ e # d /\ sha'[e] = sha[e]
    BY <1>1, <2>2, <2>3 DEF Counted
  <2>5. doc'[Loop] = d /\ sha'[d] = h /\ \A t \in Workers : doc'[t] = doc[t]
    BY <1>1, <1>2, <2>2, ProcessIds
  <2>6. QED
    BY <1>1, <2>2, <2>4, <2>5
<1>6. QED
  BY <1>3, <1>4, <1>5, HandsOver

(* For any number of documents, contents, worker threads and restarts: as  *)
(* long as registry updates do not overlap, uploads never register one     *)
(* content twice among the documents that count for the duplicate check.   *)
THEOREM ContentOnce == UploadsOnly => (Spec => []NoDuplicateContent)
<1> SUFFICES ASSUME UploadsOnly PROVE Spec => []NoDuplicateContent
  OBVIOUS
<1> DEFINE Inv == PipeInv /\ Roles /\ Alone /\ Fresh /\ Distinct
<1>1. Init => Inv
  BY InitSafe, AloneInit, FreshInit, DistinctInit
<1>2. Inv /\ [Next]_vars => Inv'
  BY StepSafe, RolesNext, AloneNext, FreshNext, DistinctNext
<1>3. Inv => NoDuplicateContent
  BY DEF Alone, Load, Distinct, Counted, NoDuplicateContent
<1>4. QED
  BY <1>1, <1>2, <1>3, PTL DEF Spec

-----------------------------------------------------------------------------
(* Registry and manifest of finished documents, without an import beside   *)
(* the worker: two runners on one document collide on the names of its     *)
(* temporary files, and may leave a manifest that does not parse.          *)

(* How a manifest changes: the worker writes the status it is about to     *)
(* register, or raises when it has written one, an upload writes that of a *)
(* new document, and a delete removes it.                                  *)
RunnerWrites(p) ==
  /\ p \in Runners
  /\ \E content \in Entry, l \in Labels :
       /\ manifest' = [manifest EXCEPT ![doc[p]] = content] /\ Leave(p, l)
       /\ \/ Shares(p)
          \/ (l = "markReady" => content = "ready") /\ (l = "markFailed" => content = "failed")

UploadWrites(p) ==
  /\ p \in Queuers /\ pc[p] = "files"
  /\ manifest' = [manifest EXCEPT ![doc[p]] = "queued"]
  /\ pc' = [pc EXCEPT ![p] = "queueing"] /\ UNCHANGED doc

DeleteWrites(q) ==
  /\ q \in Deleters /\ deletes > 0
  /\ manifest' = [manifest EXCEPT ![doc[q]] = "absent"]
  /\ \E l \in DeletePlaces : pc' = [pc EXCEPT ![q] = l]
  /\ UNCHANGED doc

Writes(p) ==
  /\ doc[p] \in Docs
  /\ UNCHANGED <<regVars, deletes>>
  /\ RunnerWrites(p) \/ UploadWrites(p) \/ DeleteWrites(p)

\* No manifest is written, and no runner comes to register a final status.
NoManifest ==
  /\ UNCHANGED manifest
  /\ \A t \in Runners :
       pc'[t] \in {"markReady", "markFailed"} => pc'[t] = pc[t] /\ doc'[t] = doc[t]
  /\ deletes' \in {deletes, deletes + 1}

LEMMA ManifestStep ==
  ASSUME PipeInv, Roles, [Next]_vars
  PROVE  NoManifest \/ \E p \in Procs : Writes(p)
<1>0. /\ pc \in [Procs -> Labels] /\ \A t \in Runners : t \in Procs
      /\ doc \in [Procs -> Docs \cup {NoDoc}]
  BY ProcessIds DEF Runners, PipeInv, TypeOK
<1>1. CASE UNCHANGED vars
  BY <1>1 DEF vars, NoManifest
<1>2. CASE Poll \/ UploadDone
  <2>1. \A t \in Procs : pc'[t] \in {"markReady", "markFailed"} => pc'[t] = pc[t]
    BY <1>2, StartMoves
  <2>2. UNCHANGED <<manifest, doc, deletes>>
    BY <1>2, StartMoves DEF files
  <2>3. QED
    BY <1>0, <2>1, <2>2 DEF NoManifest
<1>3. CASE WebRestart
  <2>1. UNCHANGED <<manifest, deletes>>
    BY <1>3, RestartMoves DEF files
  <2>2. \A t \in Procs : pc'[t] \in {"markReady", "markFailed"} => t \notin Web
    BY <1>3, RestartMoves
  <2>3. QED
    BY <1>0, <1>3, <2>1, <2>2, RestartMoves DEF NoManifest
<1>4. ASSUME NEW p \in Procs, NEW l \in Labels \ {"markReady", "markFailed"}, Goto(p, l),
             \A q \in Procs \ {p} : doc'[q] = doc[q], UNCHANGED manifest,
             deletes' \in {deletes, deletes + 1}
      PROVE  NoManifest
  BY <1>0, <1>4 DEF NoManifest, Goto
<1>5. ASSUME NEW p \in Procs, Updates(p)
      PROVE  NoManifest
  <2>1. CASE RegistryLoad(p) \/ RegistryWrite(p)
    BY <2>1 DEF RegistryLoad, RegistryWrite, pipeVars, NoManifest
  <2>2. CASE RegistrySaved(p) \/ RegistryRaised(p)
    <3>1. PICK l \in Labels \ {"markReady", "markFailed"} : Leave(p, l)
      <4>1. AfterSave(p) \in Labels \ {"markReady", "markFailed"}
        BY DEF AfterSave, Labels
      <4>2. AfterRaise(p) \in Labels \ {"markReady", "markFailed"}
        BY DEF AfterRaise, RunnerRaised, Labels
      <4>3. QED
        BY <2>2, <4>1, <4>2 DEF RegistrySaved, RegistryRaised
    <3>2. UNCHANGED <<manifest, deletes>>
      BY <2>2, UpdateMoves
    <3>3. QED
      BY <1>0, <1>4, <3>1, <3>2 DEF Leave
  <2>3. QED
    BY <1>5, <2>1, <2>2 DEF Updates
<1>6. ASSUME NEW p \in Queuers, Looks(p)
      PROVE  NoManifest
  <2>1. PICK h \in Hashes : CheckDuplicate(p, h)
    BY <1>6 DEF Looks
  <2>2. PICK l \in {"queued", "import", "files"} : Goto(p, l)
    BY <2>1 DEF CheckDuplicate
  <2>3. /\ p \in Procs /\ l \in Labels \ {"markReady", "markFailed"}
        /\ UNCHANGED <<manifest, deletes>> /\ \A q \in Procs \ {p} : doc'[q] = doc[q]
    BY <1>0, <2>1, ProcessIds DEF CheckDuplicate, Queuers, Labels
  <2>4. QED
    BY <1>4, <2>2, <2>3
<1>7. ASSUME NEW p \in Queuers, WriteQueuedFiles(p)
      PROVE  p \in Procs /\ Writes(p)
  <2>1. p \in Procs
    BY ProcessIds DEF Queuers
  <2>2. doc[p] \in Docs
    BY <1>7, <2>1 DEF WriteQueuedFiles, PipeInv, HasDoc, AtRest
  <2>3. QED
    BY <1>7, <2>1, <2>2 DEF WriteQueuedFiles, Goto, Writes, UploadWrites
<1>8. ASSUME NEW p \in Syncs, ImportNext(p)
      PROVE  NoManifest
  <2>1. PICK l \in {"import", "scan"} : Goto(p, l)
    BY <1>8 DEF ImportNext
  <2>2. /\ p \in Procs /\ l \in Labels \ {"markReady", "markFailed"}
        /\ UNCHANGED <<manifest, deletes, doc>>
    BY <1>8, ProcessIds DEF ImportNext, files, Labels
  <2>3. QED
    BY <1>4, <2>1, <2>2
<1>9. ASSUME NEW p \in Runners, Runs(p)
      PROVE  NoManifest \/ Writes(p)
  <2>1. CASE Scan(p) \/ Extract(p) \/ WriteChunks(p)
    <3>1. PICK l \in {"finally", "dead", "take", "chunk", "manifestFailed", "manifestReady"} :
            Goto(p, l)
      BY <2>1 DEF Scan, Extract, WriteChunks
    <3>2. /\ l \in Labels \ {"markReady", "markFailed"} /\ UNCHANGED <<manifest, deletes>>
          /\ \A q \in Procs \ {p} : doc'[q] = doc[q]
      BY <1>0, <2>1 DEF Scan, Extract, WriteChunks, files, Labels
    <3>3. QED
      BY <1>0, <1>4, <3>1, <3>2
  <2>2. CASE Take(p)
    <3>1. PICK l \in {"scan", "dead", "manifestProcessing"} : Leave(p, l)
      BY <2>2 DEF Take, RunnerRaised
    <3>2. /\ l \in Labels \ {"markReady", "markFailed"} /\ UNCHANGED <<manifest, deletes>>
          /\ \A q \in Procs \ {p} : doc'[q] = doc[q] /\ Goto(p, l)
      BY <1>0, <2>2, <3>1 DEF Take, files, Labels, Leave
    <3>3. QED
      BY <1>0, <1>4, <3>1, <3>2 DEF Leave
  <2>3. ASSUME NEW from \in {"manifestProcessing", "manifestReady", "manifestFailed"},
               NEW status \in Statuses, NEW l \in {"scan", "dead", "manifestFailed"},
               WriteRaises(p, from, status, l)
        PROVE  Writes(p)
    <3>1. doc[p] \in Docs /\ manifest[doc[p]] \in Entry
      BY <1>0, <2>3 DEF WriteRaises, PipeInv, TypeOK, Entry, HasDoc, AtRest
    <3>2. PICK content \in {manifest[doc[p]], status, "absent"} :
            manifest' = [manifest EXCEPT ![doc[p]] = content]
      BY <2>3 DEF WriteRaises
    <3>3. content \in Entry
      BY <3>1, <3>2 DEF Entry
    <3>4. RunnerWrites(p)
      BY <1>9, <2>3, <3>2, <3>3 DEF RunnerWrites, WriteRaises, Labels
    <3>5. QED
      BY <2>3, <3>1, <3>4 DEF Writes, WriteRaises
  <2>4. ASSUME NEW from \in {"manifestProcessing", "manifestReady", "manifestFailed"},
               NEW status \in Statuses,
               NEW l \in {"markProcessing", "markReady", "markFailed"},
               l = "markReady" => status = "ready", l = "markFailed" => status = "failed",
               WriteManifest(p, from, status, l)
        PROVE  Writes(p)
    <3>1. doc[p] \in Docs
      BY <1>0, <2>4 DEF WriteManifest, PipeInv, HasDoc, AtRest
    <3>2. l \in Labels /\ Leave(p, l)
      BY <2>4 DEF WriteManifest, Labels
    <3>3. PICK content \in {status, "absent"} :
            /\ content = status \/ Shares(p)
            /\ manifest' = [manifest EXCEPT ![doc[p]] = content]
      BY <2>4 DEF WriteManifest
    <3>4. content \in Entry
      BY <3>3 DEF Entry
    <3>5. RunnerWrites(p)
      BY <1>9, <2>4, <3>2, <3>3, <3>4 DEF RunnerWrites
    <3>6. QED
      BY <2>4, <3>1, <3>5 DEF Writes, WriteManifest
  <2>5. CASE ManifestProcessing(p) \/ ManifestReady(p) \/ ManifestFailed(p)
    BY <2>3, <2>4, <2>5 DEF ManifestProcessing, ManifestReady, ManifestFailed, RunnerRaised,
                            Statuses
  <2>6. QED
    BY <1>9, <2>1, <2>2, <2>5 DEF Runs
<1>10. ASSUME NEW t \in Workers, WorkerExit(t)
       PROVE  NoManifest
  BY <1>4, <1>10, ProcessIds DEF WorkerExit, files, Labels
<1>11. ASSUME NEW q \in Deleters, Deletes(q)
       PROVE  q \in Procs /\ (NoManifest \/ Writes(q))
  <2>1. q \in Procs
    BY ProcessIds
  <2>2. CASE \E d \in Docs : DeleteLookup(q, d)
    BY <1>0, <1>4, <2>1, <2>2 DEF DeleteLookup, files, Labels
  <2>3. CASE RmRaw(q)
    BY <1>4, <2>1, <2>3 DEF RmRaw, Labels
  <2>4. CASE UnlinkManifest(q) \/ RmDerived(q)
    <3>1. doc[q] \in Docs /\ deletes > 0
      BY <2>1, <2>4 DEF UnlinkManifest, RmDerived, PipeInv, HasDoc, AtRest, Roles
    <3>2. QED
      BY <1>11, <2>1, <2>4, <3>1 DEF UnlinkManifest, RmDerived, Goto, Writes, DeleteWrites,
                                     DeletePlaces
  <2>5. QED
    BY <1>11, <2>1, <2>2, <2>3, <2>4 DEF Deletes
<1>12. \A p \in Queuers \cup Runners : p \in Procs
  BY ProcessIds DEF Queuers, Runners
<1>13. QED
  BY <1>1, <1>2, <1>3, <1>5, <1>6, <1>7, <1>8, <1>9, <1>10, <1>11, <1>12, StepIs

Gone(d) == deletes > 0 /\ manifest[d] = "absent"

(* What the worker holds is not registered as finished, and the manifest   *)
(* says what it is about to register; so it does when the worker is done.  *)
Terminal ==
  ~overlap =>
    /\ \A d \in Docs : json[d] \in {"ready", "failed"} /\ ~WorkingOn(d)
                         => manifest[d] = json[d] \/ Gone(d)
    /\ \A t \in Runners : doc[t] \in Docs =>
         /\ json[doc[t]] \notin {"ready", "failed"}
         /\ pc[t] = "markReady" => manifest[doc[t]] = "ready" \/ Gone(doc[t])
         /\ pc[t] = "markFailed" => manifest[doc[t]] = "failed" \/ Gone(doc[t])

LEMMA TerminalInit == Init => Terminal
<1>1. Init => /\ json = EmptyRegistry
              /\ \A p \in Procs : doc[p] = NoDoc
  BY DEF Init, RegInit
<1>2. \A t \in Runners : t \in Procs
  BY ProcessIds DEF Runners
<1>3. QED
  BY <1>1, <1>2, Constants DEF Terminal, EmptyRegistry

(* A step that writes a manifest.                                          *)
LEMMA TerminalWritten ==
  ASSUME PipeInv, Roles, Fresh, NoImport, ~overlap, Terminal!2, NEW p \in Procs, Writes(p)
  PROVE  Terminal!2'
<1>1. /\ doc[p] \in Docs /\ UNCHANGED <<json, deletes>> /\ deletes \in Nat
      /\ manifest \in [Docs -> Entry] /\ pc \in [Procs -> Labels]
      /\ doc \in [Procs -> Docs \cup {NoDoc}] /\ NoDoc \notin Docs
      /\ \A t \in Runners : t \in Procs
      /\ doc' = doc => \A d \in Docs : WorkingOn(d)' <=> WorkingOn(d)
  BY ProcessIds, Constants DEF Writes, regVars, WorkingOn, Runners, PipeInv, TypeOK
<1>2. CASE RunnerWrites(p)
  <2>1. PICK content \in Entry, l \in Labels :
          /\ manifest' = [manifest EXCEPT ![doc[p]] = content]
          /\ Leave(p, l)
          /\ \/ Shares(p)
             \/ (l = "markReady" => content = "ready") /\ (l = "markFailed" => content = "failed")
    BY <1>2 DEF RunnerWrites
  <2>2. /\ p \in Runners /\ json[doc[p]] \notin {"ready", "failed"}
        /\ \A t \in Runners : doc[t] = doc[p] => t = p
    BY <1>1, <1>2, OneRunner DEF RunnerWrites
  <2>3. ~Shares(p)
    BY <2>2 DEF Shares
  <2>4. \A d \in Docs : d # doc[p] => manifest'[d] = manifest[d]
    BY <1>1, <2>1
  <2>5. \A t \in Runners : t # p => doc[t] \notin Docs /\ doc'[t] = doc[t]
    BY <1>1, <2>1, <2>2, OneRunner DEF Leave
  <2>6. doc'[p] \in {doc[p], NoDoc} /\ pc'[p] = l
    BY <1>1, <2>1, <2>2 DEF Leave, Goto
  <2>7. /\ pc'[p] = "markReady" => manifest'[doc[p]] = "ready"
        /\ pc'[p] = "markFailed" => manifest'[doc[p]] = "failed"
    BY <1>1, <2>1, <2>3, <2>6
  <2>8. \A d \in Docs : d # doc[p] /\ WorkingOn(d) => WorkingOn(d)'
    BY <1>1, <2>5 DEF WorkingOn
  <2>9. \A d \in Docs : json'[d] \in {"ready", "failed"} /\ ~WorkingOn(d)'
                          => manifest'[d] = json'[d] \/ Gone(d)'
    BY <1>1, <2>2, <2>4, <2>8 DEF Gone
  <2>10. \A t \in Runners : doc'[t] \in Docs => t = p /\ doc'[t] = doc[p]
    BY <1>1, <2>5, <2>6
  <2>11. QED
    BY <1>1, <2>2, <2>7, <2>9, <2>10
<1>3. CASE UploadWrites(p)
  <2>1. /\ manifest' = [manifest EXCEPT ![doc[p]] = "queued"] /\ pc[p] = "files"
        /\ pc' = [pc EXCEPT ![p] = "queueing"] /\ p \notin Runners /\ doc' = doc
    BY <1>3, Constants DEF UploadWrites, Queuers, Runners, NoImport
  <2>2. json[doc[p]] = "absent" /\ \A q \in Procs \ {p} : doc[q] # doc[p]
    BY <2>1 DEF Fresh
  <2>3. \A d \in Docs : d # doc[p] => manifest'[d] = manifest[d]
    BY <1>1, <2>1
  <2>4. \A t \in Runners : doc[t] # doc[p] /\ pc'[t] = pc[t] /\ doc'[t] = doc[t]
    BY <1>1, <2>1, <2>2
  <2>5. \A d \in Docs : WorkingOn(d)' <=> WorkingOn(d)
    BY <1>1, <2>1
  <2>6. QED
    BY <1>1, <2>2, <2>3, <2>4, <2>5 DEF Gone
<1>4. CASE DeleteWrites(p)
  <2>1. PICK l \in DeletePlaces : pc' = [pc EXCEPT ![p] = l]
    BY <1>4 DEF DeleteWrites
  <2>2. /\ manifest' = [manifest EXCEPT ![doc[p]] = "absent"] /\ deletes > 0
        /\ p \notin Runners /\ doc' = doc
    BY <1>4, Constants DEF DeleteWrites, Runners
  <2>3. \A d \in Docs : manifest'[d] = manifest[d] \/ Gone(d)'
    BY <1>1, <2>2 DEF Gone
  <2>4. \A d \in Docs : Gone(d) => Gone(d)'
    BY <1>1, <2>2 DEF Gone
  <2>5. \A t \in Runners : pc'[t] = pc[t] /\ doc'[t] = doc[t]
    BY <1>1, <2>1, <2>2
  <2>6. QED
    BY <1>1, <2>2, <2>3, <2>4, <2>5
<1>5. QED
  BY <1>2, <1>3, <1>4 DEF Writes

(* A step that leaves the manifests alone.                                 *)
LEMMA TerminalKept ==
  ASSUME PipeInv, Roles, Alone, Fresh, NoImport, [Next]_vars, ~overlap', ~overlap, Terminal!2,
         NoManifest
  PROVE  Terminal!2'
<1>1. /\ Load(json) = json /\ json \in Registries /\ deletes \in Nat /\ NoDoc \notin Docs
      /\ doc \in [Procs -> Docs \cup {NoDoc}] /\ pc \in [Procs -> Labels]
      /\ \A t \in Runners : t \in Procs
  BY Saved, ProcessIds, Constants DEF Runners, PipeInv, TypeOK
<1>2. \A d \in Docs : manifest'[d] = manifest[d] /\ (Gone(d) => Gone(d)')
  BY <1>1 DEF NoManifest, Gone
<1>3. \A t \in Runners : pc'[t] \in {"markReady", "markFailed"} =>
                           pc'[t] = pc[t] /\ doc'[t] = doc[t]
  BY DEF NoManifest
<1>4. CASE PutsDown
  <2>1. \A t \in Runners : doc'[t] \in Docs => doc'[t] = doc[t]
    BY <1>1, <1>4 DEF PutsDown
  <2>2. ASSUME NEW d \in Docs, ~WorkingOn(d)', json[d] \in {"ready", "failed"}
        PROVE  manifest[d] = json[d] \/ Gone(d)
    BY <2>2 DEF WorkingOn
  <2>3. CASE json' = json
    BY <1>2, <1>3, <2>1, <2>2, <2>3
  <2>4. CASE json' # json
    <3>1. PICK p \in Procs : /\ RegistrySaved(p) /\ pc[p] \in Updating /\ doc[p] \in Docs
                             /\ json' = [json EXCEPT ![doc[p]] = Marks(pc[p])]
      BY <2>4, Saved
    <3>2. \A d \in Docs : json'[d] = IF d = doc[p] THEN Marks(pc[p]) ELSE json[d]
      BY <1>1, <3>1 DEF Registries
    <3>3. Marks(pc[p]) \in {"ready", "failed"} => pc[p] \in {"markReady", "markFailed"}
      BY <3>1 DEF Marks, Updating
    <3>4. pc[p] \in {"markReady", "markFailed"} => p \in Runners /\ doc'[p] = NoDoc
      <4>1. pc[p] \in {"markReady", "markFailed"} => p \notin Deleters /\ p # Loop
        BY DEF Roles, DeletePlaces, QueuePlaces
      <4>2. pc[p] \in {"markReady", "markFailed"} => doc'[p] = NoDoc
        BY <3>1, SavedMoves DEF AfterSave, AtRest
      <4>3. QED
        BY <4>1, <4>2, Constants DEF Runners
    <3>5. ASSUME NEW d \in Docs, json'[d] \in {"ready", "failed"}, ~WorkingOn(d)'
          PROVE  manifest'[d] = json'[d] \/ Gone(d)'
      <4>1. CASE d # doc[p]
        BY <1>2, <2>2, <3>2, <3>5, <4>1
      <4>2. CASE d = doc[p]
        BY <1>2, <3>1, <3>2, <3>3, <3>4, <3>5, <4>2 DEF Marks
      <4>3. QED
        BY <4>1, <4>2
    <3>6. ASSUME NEW t \in Runners, doc'[t] \in Docs
          PROVE  /\ json'[doc'[t]] \notin {"ready", "failed"}
                 /\ pc'[t] = "markReady" => manifest'[doc'[t]] = "ready" \/ Gone(doc[t])'
                 /\ pc'[t] = "markFailed" => manifest'[doc'[t]] = "failed" \/ Gone(doc[t])'
      <4>1. doc'[t] = doc[t] /\ doc[t] \in Docs
        BY <2>1, <3>6
      <4>2. json'[doc[t]] \notin {"ready", "failed"}
        <5>1. CASE doc[t] # doc[p]
          BY <3>2, <4>1, <5>1
        <5>2. CASE doc[t] = doc[p]
          <6>1. pc[p] \in {"markReady", "markFailed"} => t = p
            BY <3>1, <3>4, <4>1, OneRunner
          <6>2. pc[p] \notin {"markReady", "markFailed"}
            BY <1>1, <3>4, <3>6, <6>1
          <6>3. QED
            BY <3>2, <3>3, <4>1, <5>2, <6>2
        <5>3. QED
          BY <5>1, <5>2
      <4>3. QED
        BY <1>2, <1>3, <4>1, <4>2
    <3>7. QED
      BY <3>5, <3>6
  <2>5. QED
    BY <2>3, <2>4
<1>5. ASSUME NEW p \in Procs, NEW d \in Docs, TakesUp(p, d)
      PROVE  Terminal!2'
  <2>1. json' = json /\ doc' = [doc EXCEPT ![p] = d]
    BY <1>5 DEF TakesUp, regVars
  <2>2. p \in Runners => json[d] \in {"queued", "processing"} /\ pc'[p] = "take"
    BY <1>1, <1>5 DEF TakesUp, Candidates
  <2>3. ASSUME NEW e \in Docs, ~WorkingOn(e)', json[e] \in {"ready", "failed"}
        PROVE  manifest[e] = json[e] \/ Gone(e)
    <3>1. \A t \in Runners : t # p => doc'[t] = doc[t]
      BY <1>1, <2>1
    <3>2. ~WorkingOn(e)
      <4>1. ASSUME NEW t \in Runners, doc[t] = e PROVE FALSE
        BY <2>3, <3>1, <4>1 DEF WorkingOn
      <4>2. QED
        BY <4>1 DEF WorkingOn
    <3>3. QED
      BY <2>3, <3>2
  <2>4. \A t \in Runners : t # p => doc'[t] = doc[t] /\ pc'[t] = pc[t]
    BY <1>1, <1>5 DEF TakesUp
  <2>5. p \in Runners => doc'[p] = d
    BY <1>1, <2>1
  <2>6. QED
    BY <1>2, <2>1, <2>2, <2>3, <2>4, <2>5
<1>6. ASSUME NEW p \in Procs, NEW h \in Hashes, NEW d \in Docs, Names(p, h, d)
      PROVE  Terminal!2'
  <2>1. json' = json /\ p \notin Runners
    BY <1>6, Constants DEF Names, regVars, Queuers, Runners, NoImport
  <2>2. \A t \in Runners : doc'[t] = doc[t] /\ pc'[t] = pc[t]
    BY <1>1, <1>6, <2>1 DEF Names
  <2>3. \A e \in Docs : WorkingOn(e)' <=> WorkingOn(e)
    BY <2>2 DEF WorkingOn
  <2>4. QED
    BY <1>2, <2>1, <2>2, <2>3
<1>7. QED
  BY <1>4, <1>5, <1>6, HandsOver

LEMMA TerminalNext ==
  ASSUME PipeInv, Roles, Alone, Fresh, Terminal, NoImport, [Next]_vars
  PROVE  Terminal'
<1> SUFFICES ASSUME ~overlap' PROVE Terminal!2'
  BY DEF Terminal
<1>1. ~overlap /\ Terminal!2
  BY OverlapStood DEF Terminal
<1>2. QED
  BY <1>1, ManifestStep, TerminalWritten, TerminalKept

(* For any documents, uploads, deletes and restarts: while registry        *)
(* updates have not overlapped, process_queued_pdf leaves the same final   *)
(* status in docs.json and in the manifest, unless a delete took it away.  *)
THEOREM FinishedAgree == NoImport => (Spec => []TerminalAgrees)
<1> SUFFICES ASSUME NoImport PROVE Spec => []TerminalAgrees
  OBVIOUS
<1> DEFINE Inv == PipeInv /\ Roles /\ Alone /\ Fresh /\ Terminal
<1>1. Init => Inv
  BY InitSafe, AloneInit, FreshInit, TerminalInit
<1>2. Inv /\ [Next]_vars => Inv'
  BY StepSafe, RolesNext, AloneNext, FreshNext, TerminalNext
<1>3. Inv => TerminalAgrees
  BY DEF Alone, Load, Terminal, Gone, TerminalAgrees
<1>4. QED
  BY <1>1, <1>2, <1>3, PTL DEF Spec
=============================================================================
