# Formal models of TAKS

TAKS deploys and runs TAK servers: an orchestrator launches nodes on EC2 and
keeps one record per node; each node runs *takctl* (a web application and
command line tools around TAK Server, documents, onboarding and chat) and
*Martine* (an assistant on XMPP, Mumble and CoT).  Nearly all state is in small
JSON files that threads, processes and cron-like tools share **without locks**,
and it is there that the behaviour is hard to test.  This directory holds TLA+
models of those parts, TLC runs that check them on small instances, and TLAPS
proofs of what holds for any number of documents, nodes, users and threads.

To check a run: `tlc -workers 2 -config MCDocsWeb.cfg MCDocsPipeline`.
To check the proofs: `tlapm DocsPipelineProofs.tla`.
`PROJECT.json` lists the runs, the mutants that show each property can fail, the
lines every definition was translated from, the hazards and the theorems.

## 1. Inventory

Paths are below `src/`.  "Hard" names what a unit test hardly reaches.

### Modelled

**Document registry** (`takctl/takctl/services/docs_registry.py`).
State: `docs.json`, and `docs.tmp` while it is replaced.
Operations: `upsert_doc`, `delete_doc_entry`, `reindex_docs`, each a read of the
whole file, a change of the copy, a write to `docs.tmp` and a rename.
Callers: the web process (event loop, thread pool, worker thread) and two command
line tools.  Hard: updates that meet lose one another; all of them use one
temporary name, so two may mix their text, or one rename the other's file away.
Correct: an update that is alone is atomic, whatever is killed in its middle.

**Document pipeline** (`services/docs_jobs.py`, `services/docs_ingest.py`,
`web/api/documents.py`, `bin/takctl-docs-sync-documents`).
State: per document the raw PDF, the manifest, the chunks and the registry entry;
in the web process the worker thread.  Operations: upload of a PDF or a ZIP,
start of the worker, `process_queued_pdf`, delete, command line import.
Hard: the worker leaves while a document is queued; a restart in the middle of a
document; a delete of the document being processed; an import that drains the
queue beside the worker.  Correct: one worker; no content queued twice; registry
and manifest agree; only what was chunked is ready; the queue drains.

**Node records** (`orchestrator/orchestrator_core/nodes_state.py`).
State: one file `nodes/<id>.json`, written in place.  Operations: `get_node`,
`upsert_node`, `touch_heartbeat`, `delete_node`.  Hard: a write cut by a restart, a
reader of a file just truncated, two updates that meet.  Correct: a record that
no two updates met on and no restart cut parses.

**Node lifecycle** (`orchestrator/orchestrator_api/api_v2.py`, `orchestrator_core/core.py`,
`default_bundle/install/taks-heartbeat.sh`).
State: the records above, the instances in EC2, the names in Route 53, the
requests under way.  Operations: launch, terminate, snooze, wake, delete,
heartbeat.  Hard: the instance of a request is found by *any one* matching
attribute, and EC2 gives released addresses to others; a request stops half
way; a DNS name left wrong must be repaired.  Correct: a request acts on its own
node's instance; a heartbeat does not change which instance a record names; DNS
converges.

**XMPP bookmark queue** (`takctl/takctl/onboarding/xmpp_bookmarks.py`,
`bin/takctl-xmpp-bookmarks-sync`).
State: `pending/<user>.json`, `done/<user>.json`, the bookmarks on the server.
Operations: enqueue (replaces the user's file), and a run that lists, publishes,
files under `done/`, unlinks, or writes a failed job back.  Hard: a job that is
replaced while it is published; two runs at once; a publish that fails half way.
Correct: the last job of a user is not lost; what is filed as done is on the
server.

**Martine's XMPP inviter** (`martine/bin/martine-xmpp-inviter`).
State: `state.json` (notices sent, offset in the transcript) and its copy in memory;
the transcript `current.jsonl`, which the voice service appends to.  Operations:
a tick every 30 s relays new lines and sends each user a hello and an invite a
room.  Hard: what was sent is saved later; a kill or a lost connection in
between; a file that appears late or is emptied.  Correct: nothing is passed
over or replayed; what is repeated is bounded by what was cut; all goes out in the end.

**Units, their backups and their bundles** (`orchestrator_core/units_state.py`, `bundles.py`,
`bundle_verify.py`, `unit_bootstrap.py`, `orchestrator_api/units_v2.py`,
`unit_bootstrap_v2.py`, `bundles_v2.py`, the backup handlers of `api_v2.py`).
State: of each unit `unit.json`, the bootstrap files, `orchestrator-node.conf` with the
secret its nodes share, the backups with their manifests and artifacts, the selection
for a restore, and the archive new nodes fetch.  Operations: create, edit, seed,
build, launch, back up, select, delete.  Hard: two files of one backup replaced
one after the other; a selection validated, then written; a delete that reads the
selection first; a secret looked for and then made; an archive written in place
while a node downloads it; a launch that checks one tree and ships another.
The secret's file is an ordinary bootstrap file, which an operator may save or delete.
Correct: a backup's two files are of one save; the backup selected exists; no bundle
has a placeholder in it; the orchestrator keeps the secret a bundle was built with
unless somebody removes or replaces it.

**Onboarding of users** (`takctl/takctl/api/onboarding_identity.py`,
`services/ldap_user_store.py`, `onboarding/store_filejson.py`,
`onboarding/import_jobs.py`, `onboarding/import_users.py`).
State: the account and its groups in LDAP, the identity file that knows the
password, the card tokens, and the job file of each import.  Operations: create,
update, issue a card, delete, and an import that does the same row after row in a
thread of its own.  Hard: one user lives in three stores nobody locks; every
LDAP call may fail, and some failures are swallowed; requests and import rows for one
user overlap.  Correct: the password on file is the account's; nothing survives
an account; the groups are the ones asked for; an import ends.

**Martine's voice service** (`martine/voice/mumble_ingest.py`, `segmenter.py`, `main.py`).
State: the queue of sound (4096 chunks), the segment of each speaker, all in memory.
Operations: Mumble's callback queues a chunk or drops it; one loop joins chunks to segments,
cuts a segment that is long or whose speaker fell silent, and transcribes it, which
blocks the loop.  Hard: silence is judged by the clock against stamps that wait in the queue;
the rest of a long transmission goes on in a segment of its own.  Correct: every chunk
queued is in one segment, in order; a cut is where the speaker paused or spoke too
long; nothing stays behind.

**Martine's CoT client** (`martine/chat/cot_tls_client.py`).
State: a file for each device, with the hello sent and the assignment seeded.  Operations: every
30 s the devices TAK Server saw are greeted, and seeded with the chat groups of their user's
assignment, if that is not the one on file.  Hard: the file is written, in place, after the
messages; any error ends the session; assignments change.  Correct: hellos are bounded by
the times the client was cut off; what the file says was sent; every device is served in the end.

### Left out

The **tak-installer**, the **orchestrator installer** and the bundle's install
scripts run once, one step after another, and call system tools.
**Configuration, login and pages** are read-mostly.  **LLM reports, replay, the Martine agent and its
tools** transform text.  **Room policy** is a pure derivation whose result is an
input of the bookmark queue.  Front ends, prompts and policies are data.

## 2. Modules

```
AtomicRegistry            what the registry promises
   ^ implemented by (property AtomicSpec, theorem ImplementsAtomic)
DocsRegistry              docs.json, step by step
   ^ EXTENDS
DocsPipeline              uploads, worker, deletes, import, restarts

NodeRecords               nodes/<id>.json, step by step
   ^ EXTENDS
NodeLifecycle             operator requests and heartbeats, EC2, Route 53

XmppBookmarks             pending/ and done/ and the server

XmppInviter               ticks, transcript, state.json
VoiceSegments             queue of sound, segments, transcription
CotClient                 polls, hellos, seeding, a file a device
   ^ all three EXTENDS
Martine                   the daemons of Martine

UnitBackups               backups of a unit and the one selected
   ^ EXTENDS
UnitBundles               the unit, its secret, its bundle, a node that boots from it

Onboarding                requests and import jobs about users, LDAP, identity files

MC<Module>, *.cfg         instances for TLC
<Module>Proofs            theorems
```

Processes, documents, nodes and addresses are CONSTANTS with named assumptions.
History variables (`overlap`, `cut`, `disturbed`, `crossed`, `chunked`, `gaveUp`,
`wanted`, `sent`, `relayed`, `begun`, `heard`, `paused`, `waited`, `done`, `greeted`,
`seeded`, `missed`; `loose`, `met`, `era`, `late`, `spoiled`, `behind`
of the units; `unsure`, `loose`, `granted`, `clung`, `cut` of the onboarding) record what happened; no guard but a bound reads one (what a bundle or a request is said to be of, its `era`, is history too).  Operators commented "Slip
(mutant)" are bugs somebody might make; nothing uses them but the mutation check.

### DocsRegistry

One update is `Begin` (read and change), `OpenTmp` (truncates `docs.tmp`),
`WriteTmp`, `Replace` or, when another process renamed the file first,
`ReplaceRaises`.  A descriptor follows its inode: after another's rename a writer
writes into `docs.json` itself.  Text of two writers on one inode may be `Torn`.
What does not parse loads as the empty registry, as `load_docs_registry` has it,
and so does a missing file.  Of an entry only the status is kept.
`AtomicRegistry` promises one value and whole operations until two updates meet,
since the code takes no lock; its `met` is the history variable `overlap`.

### DocsPipeline

`pc` is the place of a process in its handler, one label per step another process
can come before.

| Code | Actions |
|---|---|
| `queue_uploaded_pdf` | `UploadPdf`, `UploadZip`/`NextMember`, `ImportFile` (all `CheckDuplicate`), `WriteQueuedFiles`, registry steps |
| upload handler's end, `start_docs_worker` | `UploadDone`, `StartWorker`, `Poll` (the GET handlers) |
| `_worker_main`, `drain_docs_queue` | `Scan`, `WorkerExit` |
| `process_queued_pdf` | `Take`, `ManifestProcessing`, `Extract`, `WriteChunks`, `ManifestReady`, `ManifestFailed`, registry steps |
| `api_delete_doc` | `DeleteLookup`, `UnlinkManifest`, `RmRaw`, `RmDerived`, registry steps |
| systemd | `WebRestart` (`takctl-web.service`, Restart=on-failure) |

Every exception has its way: inside the `try` of `process_queued_pdf` to
`manifestFailed`, outside to the worker (which swallows it) or to the import
(which dies, since its handler names a module the file does not import).  Text,
sections, OCR and the intermediate states of `status.json` are left out.  `write_manifest` and `write_status` are one
step, of which the second may raise with the manifest written (`WriteRaises`).

### NodeRecords and NodeLifecycle

`upsert_node` is read, open (truncates), write; a file that is unlinked in between
leaves the writer with a descriptor of a deleted file.  Of a record the model keeps
what the code acts on: instance id, whether the name is set, both addresses.
A request is a record of `job`: `CallEc2`, `WaitForNetwork`, `UpsertDns`, `UpsertNode`;
a heartbeat is `UpsertNode`, then `ReconcileDns` or `SkipDns`.  `Boot` is EC2.
`Resolved` is `_resolve_instance_for_node_record`; EC2 lists instances in any order,
so any match may be the first.  Assumed: a Route 53 zone is configured and nodes
are named `unit.suffix`.  EC2 and Route 53 are external and modelled from how
`core.py` calls them.  Left out: `nodes_register` (`api_v2.py:831-855`, `api_v1.py:210-238`), with which an operator
may write anything into a record, another node's instance and address too, and v1's heartbeat
(`api_v1.py:241-257`), which merges like v2's and reconciles no DNS.  Nothing in the repository calls
either; what the runs and theorems say of records and targets is of an orchestrator they are not sent to.

### XmppBookmarks

`Enqueue` replaces the user's file.  A run is `List` (the first `--limit` files),
then for each file `Load`, one `PublishRoom` or `RetractRoom` per request, `FileDone`,
`Unlink`; any of them may `Fail`, after which `ReadAgain` and `WriteBack` are the two
halves of the error path.  Both files are written through temporary names of their own
and so are atomic.  Which rooms exist and who gets them is an input.

### XmppInviter

The daemon is one coroutine, so an action is the code between two awaits that
touch the state: `Tick` (what is wanted, any set of invites, as policy, LDAP and jobs
change), `NothingNew`, `InitOffset` or `ReadLines`, `RelayLine`, `RelayDone` (saves), `Notify`,
`TickDone` (saves).  `Disconnect` saves what memory has, as `amain` does, and exits; `Kill`
does not; systemd starts the daemon again.  A line is atomic: the voice service
writes it and its end at once.  Offsets count lines of one length.  A message is
sent when it is handed to the connection; what a dying connection loses is not modelled,
nor are presence, the joining of rooms, and failing saves or any other exception the loop catches
around a whole tick (lines 784-785): a tick that fails every time, as with a full disk, repeats its lines for ever.  Nothing in the
repository empties the transcript; `Empty` is there because the code is prepared for it.

### VoiceSegments

| Code | Actions |
|---|---|
| `_on_sound_received_for_channel` | `Hear`; a chunk a full queue refuses changes nothing |
| `poll`, `push_chunk` | `Take`, `TimedOut` |
| `safe_flush_ready`, every quarter of a second | `FlushReady`, `TooSoon` |
| `_process_segments` | `Transcribe`; the loop goes on when `work` is empty, `Around` |
| `main`: signals and errors | `StopVoice`; all is in memory |

A chunk is a number, and all chunks last as long.  Time is `Pass`, which ages the chunks and
segments there are up to `Silence`; it may pass between any two steps, as it does while a
transcription takes long.  A segment that is too short goes no further and counts as done.  Assumed, as shipped
(`voice/config.py:81-83`): the shortest segment is not longer than the longest, and silence is not 0; and that there are finitely many speakers.
Left out: the Mumble connections, one bot a channel, that are lost and made again (their channel, session and
speaker make the key of a segment), and the text, which `XmppInviter` has arrive in the transcript.

### CotClient

| Code | Actions |
|---|---|
| TAK Server's tables, onboarding | `ComeOrGo`, `Assign` |
| `main`, `session_loop` | `Connect`, `Polled`, `Lose` (any exception, or a kill) |
| `list_recent_client_devices` | `PollDevices` |
| `maybe_process_recent_devices` | `LookAt`, `SayHello`, `Seed` (one message), `Seeded` |
| `save_device_state`, `write_json` | `OpenRecord` (empties the file), `WriteRecord` |

An empty file reads as none, as in `read_json`.  An assignment is the hash of what it is derived from; one
without groups is `NoPlan`, as is one whose derivation failed.  The seeding of groups is behind a flag that is off as shipped;
the model has it on.  Left out: questions and their answers (they keep no state), presence, and a device whose
user changes (its file is then another).

### Martine

The daemons are processes that share nothing but the transcript, which the voice service appends to and the
inviter reads; `XmppInviter` has lines appended at any time.  What is said of one thus
holds whatever the others do, and a behaviour of `MartineSpec` is that of one of them (`daemon`), the others standing still:
the states to check are the sum of theirs and not the product.

### UnitBackups and UnitBundles

Creating a unit, saving a file and an upload run on the event loop, one after the
other; every other handler runs in the thread pool, step by step.

| Code | Actions |
|---|---|
| `save_unit_backup` (upload, or the copy of a node's backup) | `Upload`, `NodeBacksUp`, `MakeDir`, `WriteTmp`, `Install` (manifest, then artifact) |
| `select_unit_restore_backup`, `clear_...` | `Select`, `Check`, `WriteSelection`, `InstallSelection`, `ClearRequest`, `Clear` |
| `delete_unit_backup` | `Delete` (reads the selection), `List`, `Unlink` (rmtree), `RemoveDir`, `Clear` |
| `create_unit`, `_seed_new_unit_bootstrap` | `Create`, `WriteRecord`, `SeedNew` |
| `ensure_unit_orchestrator_secret` | `FindSecret`, `Generate` |
| `save_unit_bootstrap_file`, `delete_unit_bootstrap_file` | `SaveFile`, `DeleteFile`; on `orchestrator-node.conf` `SaveSecret`, `DeleteSecret` |
| `delete_unit` | `DeleteUnit` |
| build (v1 and v2), launch, readiness | `Start`, `Materialize`, `Refuse`, `Ready`, `OpenArchive`, `CloseArchive`; `Boot` is cloud-init |
| `seed_unit_bootstrap_critical` | `Plan`, `Merge` (reads a file and merges), `Put` (writes the whole of it), `Seeded`, `Report` |

The tree of a bundle is its critical keys and its secret; a small file is read or
written in one step.  A file holds several keys (`FileOf`), as `certs.conf` does, is saved with any text, and is
written whole: a seed that was overtaken puts the old values of *all* its keys back, which is what `behind` marks.
`Placeholder` stands for all that verification refuses: CHANGEME, an empty value, a weak password.  Secrets are numbers
given out once; an operator may save a new one, an old one, or a file without one.  `era` counts how often the secret
was removed or replaced: by an operator's save or delete, by `delete_unit`, or by a request that found none and
makes one although another came meanwhile (`late`).  A bundle is of the era in which its request got the secret.
A manifest and an artifact are their content, so that the two can disagree.  An id may be uploaded again, as it
stands in the archive (an upload whose archive names none fails, since `api_v2.py:492` uses `re` and the module does not
import it); one a node makes is fresh.

Left out: edits of the parents' files (`Inherited` is fixed); a critical key, or the secret, that an operator saves in
another file than the one it belongs in; a secret inherited from a parent, which a bundle would carry only if the unit's own file
is deleted while the bundle is made, and which counts as none; the seeding of `default_policy_id`, which verification does not ask
for; archives built by v1 under a name other than the unit's.

### Onboarding

Every LDAP command and every file operation is a step of `RequestStep`; an LDAP
command works or fails (`Call`).

| Code | Actions |
|---|---|
| `get_user`, and the password it makes necessary | `Look` |
| `LdapUserStore.ensure_user` | `Ensure`, `Add`, `Passwd` |
| `set_groups`, `ensure_group` | `ListGroups`, `Leave`, `Join`, `FoundGroup` |
| `upsert_identity` | `Confirm`, `Merge`, `Draft`, `Install` |
| `create_card_token` | `Card` |
| the delete handler | `Wipe`, `Sweep`, `ListGroups`, `Leave`, `Drop` |
| `create_import_job`, `run_job`, its loop over rows | `CreateJob`, `Run`, `NextRow`, `Report`, `EndJob` |

`Found` is false when LDAP fails, as `get_user` has it.  `unsure` holds the users
whose last request failed, overlapped another, or set the file's password by hand;
a reset or a deletion that runs alone takes a user out again.  Passwords are numbers given out once.
`Ensure` folds what `ensure_user` modifies of an entry it finds (mail, admin), and the certificate and second
`ensure_user` of a create; their failure is that of the next call.  A `.json.tmp` is opened and written as one step
(`Draft`): writers that met may leave an identity file that does not parse, of a user who is `unsure` then.
Left out: the import that `/api/onboarding/import/apply` runs within its request, row by row like a job's but with no
job file, selections and the bookmark jobs they enqueue (see XmppBookmarks), certificates, previews and dry runs, the
`userauth_file` store (one external command), and the expiry of a card.

## 3. Runs

| Run | Asks | Bounds |
|---|---|---|
| `docs_registry_pair` | two processes, any operations, crashes: parses, renames, implements `AtomicRegistry` | 2 documents, 2 processes: an overlap needs two, and a lost entry a second document |
| `docs_web` | uploads, worker, one restart: `OneWorker`, `NoDuplicateContent`, `QueueDrains` | 2 documents, 2 contents, 2 worker ids (the second starts while the first is leaving), 1 restart |
| `docs_delete` | one delete racing uploads and the worker, one restart: `TerminalAgrees`, `LeavesByDelete` | the same, and 1 delete |
| `docs_sync` | the import drains beside the worker: `ReadyWasChunked` | 2 documents; no page upload |
| `docs_failure` | **violated**: `FailurePersisted` | 1 delete |
| `node_targets` | two nodes, addresses handed on: `OwnTarget`, `BeatsKeepInstance` | 2 instances and 2 public addresses, the least with which one is recycled; 4 requests: launch, launch, and two that release and look up (`TargetsOwn` of section 5 has no bound) |
| `node_dns` | two threads on one record, a restart, an address in the heartbeat: `RecordParses`, `DnsConverges` | 1 instance, 2 addresses, 3 requests, 1 restart |
| `node_dns_shipped` | **violated**: `DnsConverges` with the heartbeat the bundle ships | no restart |
| `xmpp_queue` | two users, two runs: `LatestKept`, `ServerAsDone`, `HusksFromCrossing` | 3 jobs: one published, one that replaces it, one after; 1 room, to publish, to retract, or not available |
| `martine`, inviter | `SentAtMost`, `RelayedAtMost`, `NoSilentLoss`, `InOrder`, `NoReplay`, `EveryLine`, `EveryNotice` | 1 user (users are served one after another), 2 rooms, 3 lines: one before the offset is set, two in a relay; 1 kill, 1 lost connection, 1 emptied file |
| `martine`, voice | `EachOnce`, `CutAtPause`, `EveryChunk` | 2 speakers, 4 chunks, a queue of 2; a segment is long with 2 chunks and too short with 1, so that a long one, its rest, a short one and a drop all happen; 1 stop |
| `martine`, CoT | `GreetedAtMost`, `SeededWhole`, `DevicesServed` | 2 devices, 2 assignments of 2 messages; 4 changes: two to have a device with an assignment, two more to change it; 1 session lost |
| `units` | `OneBackup`, `SelectedExists`, `SelectionKept`, `ConfiguredOnly`, `SecretAgrees`, `NodeWhole`, `EditKept` | 2 backups, 2 contents, 2 threads and the event loop; 3 keys, two in one file, the third in another and inherited; 4 requests (a backup needs a create, a build and a boot before it), 1 restart |
| `onboarding` | `PasswordOnFile`, `NothingKept`, `GroupsAsGranted`, `JobsEnd` | 2 users, of whom requests name one (`Asked`) and the import both, so that one is met by a request and by the import and the other is the last member of the group; 1 group; 1 thread beside the job's, which is what two requests of one user need to overlap; 3 requests and jobs; 1 failed call or restart (`MaxFaults`) |

Most properties are conditional on a history variable: "as long as no two updates
met".  They are the strongest statements that hold of code without locks: the race itself does what the hazard
says, and is not a violation; what the property adds is that nothing *else* does, a crash, an error, a
restart or another request.  `overlap`, `crossed`, `loose`, `met`, `spoiled`, `behind`, `unsure`, `waited` and `clung` are such
conditions, each raised only where the race is.  `SecretAgrees` needs none but the era, which
ends where the secret goes.  The condition is never met by accident: in every run each is violated by at
least one mutant while its condition holds, and dropping the condition violates
the property on the unchanged code.

Types are left to the theorems of section 5, which show them for every instance.

Deadlock is checked in the document, bookmark, Martine and onboarding runs (whose `Ended` is the
takctl that has nothing left to do).  It is not in the node and unit runs:
with all requests used up, the orchestrator just waits.

### The two disagreements with the repository's own words

* `docs_failure`: `docs_jobs.py:43` says "process_queued_pdf is expected to persist
  failed state itself".  It raises at `docs_ingest.py:686-689` before it persists
  anything; the document stays queued and the worker takes it again.
* `node_dns_shipped`: `api_v2.py:889-892` and `core.py:232-233` have the heartbeat
  repair the DNS name.  `taks-heartbeat.sh:276-284` sends no `public_ip`, without which
  the handler does nothing; a name that a race left wrong stays wrong.

## 4. Fairness

* `DocsPipeline!FairSpec`: a thread or handler that can go on does (WF of each
  process's steps).  `Poll` is fair too, an assumption on the users: nothing in the
  program wakes an idle worker after a restart, only a request to the documents
  pages does.  Uploads, deletes and restarts are not fair.
* `NodeLifecycle!FairSpec`: requests are served, EC2 boots what it started; a node's
  heartbeat timer fires every 30 s (`taks-heartbeat.timer`) and finds a thread again
  and again (SF, as threads are busy at times), and Route 53 does not refuse for ever
  (SF of `ReconcileDns`, since `SkipDns` competes with it).  Operators are not fair.
* `Martine!MartineSpec`: the loop of the voice service goes on, as a transcription ends, and time passes (WF); the
  CoT client goes on and begins a session again (WF; `main` retries, systemd has `Restart=always`);
  the inviter's coroutine goes on (WF), systemd restarts it
  (`Restart=on-failure`), and it ticks again and again for each invite (SF; `POLL_SEC`, and
  the policy is derived anew every `RECONCILE_SEC`).  Kills and lost connections are
  finitely many; a connection lost in every relay would repeat its first lines for ever.
* `Onboarding!Spec`: the thread of a job is scheduled until it ends (WF of `JobStep`), and so every LDAP call
  returns, with a result or an error: an assumption on the LDAP server, as the `subprocess.run` at
  `ldap_user_store.py:293` has no timeout and a call that hangs hangs the job.
  Operators, and the threads that serve their requests, are not fair.
* `UnitBackups` and `UnitBundles` state none: nothing in them has to happen.
* `XmppBookmarks` states no fairness: no schedule for the sync is in the repository.

## 5. Proofs

Every theorem is of `Spec`, for all values of the constants that meet the named
assumptions (`FileValues`, `Constants`, `RecordValues`, `LifecycleConstants`,
`BookmarkConstants`, `InviterConstants`, `CotConstants`, `VoiceConstants`, `NoSegmentIsNone`,
`BackupConstants`, `BundleConstants`; `UserAssumption`, `ThreadAssumption`, `RowAssumption` and
`BoundAssumption` of the onboarding: sentinels differ from data, the processes are partitioned
by role).  Each module proves inductive invariants, a step per action, and
derives its theorems from them.

* **DocsRegistryProofs.**  The invariant behind `NeverTornAlone` has to say where
  every process is: without an overlap at most one is not idle, and what `docs.tmp`
  holds and where its descriptor points follow from its phase (`Blank` once
  opened, the snapshot once written).  A crash leaves a stale `docs.tmp`, which the
  next open truncates.  From it: `RegTyped`, `NeverTorn`, `SavesSucceed`,
  `ImplementsAtomic`: until updates meet a rename maps to one operation of
  `AtomicRegistry`, the begin that meets another update to `Meet`, everything else to a
  stutter; and `SoleNeverMeets`, which makes it unconditional for one process.
* **DocsPipelineProofs.**  `TypeCorrect`; `SingleWorker` (`_worker_thread` is
  assigned and cleared under the lock, so it names the one thread that is not off);
  `ReadyChunked`, whose invariant is that no *snapshot* any process is about to write
  shows as ready a document that was never chunked, and no process is at or
  past the ready manifest for one: stale and torn copies cannot break it.

  What holds while registry updates have not overlapped rests on four more invariants.  `Roles`: every
  process is at a place of its own program, and holds no document between two of them.  `Alone`: one
  update is under way at most, and what it is about to save is its change of what `docs.json` *still*
  holds; so `docs.json` changes only when an update is saved, and only in the entry of one document (lemma
  `Saved`).  `LeavesOnlyByDelete` follows, for any processes.  `Fresh`: the document an upload
  has just named is in no registry and nobody else's.  `Distinct`: the contents that count for the
  duplicate check differ, also from the one being uploaded, and what the worker holds counts; from it
  `ContentOnce`.  `Terminal`: what the worker holds is not registered as finished, and the manifest already says what
  it is about to register, unless a delete has removed it; from it `FinishedAgree`.

  Two of these theorems have hypotheses, which are not technical.  `ContentOnce` assumes `UploadsOnly`: a delete
  takes a document off the registry while the worker has it, the worker's next mark puts it back, and the
  same content may have been uploaded in between (TLC shows it with one delete).  `FinishedAgree`
  assumes `NoImport`: an import beside the worker may process the same document, and the two collide
  on the names of its temporary files.
* **NodeLifecycleProofs.**  `NodesTyped`; `RecordsParse` and `BeatsSafe` from
  `NodeInv`: on a node without overlap at most one thread updates the record, a
  record that does not parse is being written by one or was cut, and what a thread read
  is still what the file holds (`Undisturbed`); `RepairsOnlyByDelete`.
  `TargetsOwn` (with the heartbeat the bundle ships, which names no public address) from `TargetInv`: no two
  instances share an address, and for a node nothing has disturbed (`NodeOwn`) there is one live instance and
  one operator request at most, every id a request, a draft or the file names is of an instance of the node, and
  their addresses are the live instance's or none.  The exceptions are part of the invariant: while a launch is
  under way the file still has the last instance's addresses, and while a snooze is, the released public one
  (`RecordsFit`); both go with the write, which nobody met (`WriteOwn`).  The proof showed that an
  earlier form of `OwnTarget` was wrong beyond the run's four requests.  After a terminate the record keeps the
  dead instance's addresses, so that a snooze may stop the instance of another node that was given one of them, and the
  record then *names* that instance; the other node's record in turn keeps an address it no longer
  has.  `disturbed` therefore also holds both nodes of a request that went astray.  The hypothesis is needed: with
  a public address in the heartbeat, one that was under way when its node was snoozed writes the released address back,
  and the node's next wake may start another node's instance (TLC shows it with `SendsPublicIp = TRUE`).
* **XmppBookmarksProofs.**  `BookmarksTyped`, `LastJobKept`, `DoneIsOnServer`,
  `HusksCross` from `QueueInv`, which relates for a user nobody crossed the pending file,
  what the one run that has the file listed holds, what it has still to publish and what
  the server has by then (`Straight`).
* **XmppInviterProofs.**  `InviterTyped`, `NoticesOnce`, `LinesOnce`, `NothingLost`,
  `LinesInOrder`, `HistoryStays` from `InviterInv`.  It has to say what a relay under way holds
  (`AsRead`, or `Emptied` since), that a notice not remembered was sent at most once a
  kill, and that of the lines beyond the offset each was sent once more often than
  those still queued behind it: that is what makes a repeated relay a prefix.
* **OnboardingProofs.**  `OnboardingTyped` and `NothingOutlives`.  The invariant `Kept` has two
  parts.  `Base`: the types, which kind of request can be at which step (`Placed`), and that
  a job's thread is within its file (`JobPlaced`); the password a step needs is there because of
  it.  `KeptFor(u)`, for a user no deletion overlapped: a user without an entry has neither
  password nor card; a deletion has the user to itself, finds no password on file past `Wipe` and
  no card past `Sweep`; and whoever is about to write a file of the user has the entry there,
  which only that deletion could remove.  Since a deletion
  removes the account last, a deletion that breaks off leaves `entry` as it was: the property then
  says nothing of the user, and the next deletion starts from `Wipe` again.

  `PasswordsAgree` and `GroupsGranted` have an invariant of their own, `Certain`.  For each user it says that a
  request that takes itself to be alone with the user is, and that one that is not has made the user
  `unsure` (`Lone`); that of a user nobody is at work on and who is not unsure the password on file is the
  account's and the groups are those granted and those that clung (`Told`); and what the account, the draft,
  the file and the groups are at each step of the request that is alone (`Filed`, `Joined`).  The proof shows it
  action by action, and that a request for somebody else changes nothing of it.

* **MartineProofs.**  `CotTyped`, `GreetedOnce` and `SeededOnFile` from `CotInv`.  It says what the client knows of a
  device: what is in memory while it is at the device, and what is on file otherwise; a device it does not know
  to be greeted was greeted no more often than the client was cut off at it, which a file emptied and not written
  keeps true, since that is a cut; and what is in memory and not marked as changed is what is on file.

  `VoiceTyped`, `ChunksOnce` and `CutsAtPauses` from `VoiceInv`.  For each speaker three borders, out <= cut <=
  grown <= heard, divide the chunks among what went out, what was cut, what grows and what waits (`Held`).  `Clock`
  relates the age of the segment that grows to the time since the speaker's last chunk: when none is queued they
  differ only if that chunk waited there, and so a segment that fell silent away from a pause did so beside one
  that waited.  `Rest` says
  what the rest of a long transmission goes on from.  Of a speaker at most one cut segment waits to be
  transcribed (`WorkInv`), although a flush cuts the segments of several speakers in any order: such an order
  of a finite set has each of them once, so none is lost.  Both properties are stated with sets of chunks and the order
  within a segment, not with sequences joined or filtered, about which the prover would need induction.

  `EachAsAlone`: each daemon runs in `MartineSpec` as in its own specification, so that the theorems about the
  inviter, the voice service and the CoT client hold of the three together.

* **UnitsProofs.**  A step leaves the backups alone, or the unit and its bundle, or is one of four that touch both
  (`NextCases`); each invariant is about one half.  `UnitsTyped` has, beside the types, that a request at a backup knows
  which (`Named`).  `Configured`: the archive, what a node booted and a tree about to be archived have every
  critical key (`BundlesConfigured`).  `Wholes`: unless a build met a build or a boot, or was cut, one build at
  most is writing the archive, no node is booting then, and otherwise the archive is whole (`NodesWhole`).  `Past`: no
  tree is of an era to come.  `Secrets`: where a request generates a secret, and none has come since it looked, there is
  none; and every tree of the present era, under way or shipped, has the one on file (`SecretsAgree`).  That none of the era is left
  when it ends (`EraEnds`) is what an operator's save or delete of the secret and a late request have in common
  (`Replaces`).  `Edits`: the text a thread is about to put, and is not behind with, has what its file has now, and
  placeholders where that has nothing (`Fills`), for all keys of the file (`EditsKeep`).  `Saves`: which files
  of a backup each step of a save may have replaced (`Half`), and that they are of one save when none is under way
  (`BackupsPaired`).  `Selects` and `Withdraws`: what a select has checked, and what a delete read the selection to be,
  are still so at the step that uses it (`SelectionExists`, `SelectionsKeep`).

Only model-checked: `QueueDrains`, `DnsConverges`, `EveryLine`, `EveryNotice`,
`EveryChunk`, `DevicesServed` and `JobsEnd` (liveness under fairness is beyond the prover), and the two properties of
the runs that find a violation.  Every invariant and action property of the passing runs is proved, `ContentOnce`,
`FinishedAgree` and `TargetsOwn` under the hypotheses named above.  No module uses a RECURSIVE operator.

## 6. Plan

The parts that hold state and are left: selections and packages of the onboarding, the restore of a backup on a
node, the Mumble connections of the voice service, and the ordering and rollback of the installer's Mumble action.

Theorems to come: those of the modules to come, and which of the hypotheses above can be weaker, as
`ContentOnce` for contents whose documents no delete removes.
