---------------------------- MODULE UnitBundles ----------------------------
(***************************************************************************)
(* A unit in the orchestrator: its record, its bootstrap files, the secret *)
(* its node and the orchestrator share, and the bundle a new node boots    *)
(* from; and, of UnitBackups, its backups.  Creating a unit and saving a   *)
(* file run on the event loop, everything else in the thread pool.         *)
(*                                                                         *)
(* The tree a bundle is made of is abstracted to its critical keys and the *)
(* secret, and a small file is read or written in one step.  The secret's  *)
(* file is one of the bootstrap files: an operator may save or delete it.  *)
(*                                                                         *)
(* Sources: orchestrator_core/units_state.py, bundles.py,                  *)
(* bundle_verify.py, unit_bootstrap.py; orchestrator_api/units_v2.py,      *)
(* unit_bootstrap_v2.py, bundles_v2.py, api_v2.py.                         *)
(***************************************************************************)
EXTENDS UnitBackups

CONSTANTS
  Keys,          \* critical bootstrap keys
  Confs,         \* the files that hold them
  FileOf,        \* the file of each key
  Values,        \* what an operator may set them to
  Placeholder,   \* CHANGEME, or another value a bundle may not have: none, a weak password
  Absent,
  Inherited,     \* what the unit's parents set them to
  NoBundle

\* What a file may hold for a key, and the trees bundles are made of.
Settings == Values \cup {Placeholder, Absent}
Trees == [conf : [Keys -> Settings], whole : BOOLEAN, secret : Nat, era : Nat]

ASSUME BundleConstants ==
  /\ {Placeholder, Absent} \cap Values = {} /\ Placeholder # Absent
  /\ Inherited \in [Keys -> Settings] /\ FileOf \in [Keys -> Confs]
  /\ NoBundle \notin Trees

NoSecret == 0

\* A file is what it has for its keys.
KeysOf(f) == {k \in Keys : FileOf[k] = f}
Texts(f) == [KeysOf(f) -> Settings]

VARIABLES
  exists,    \* unit.json is there
  conf,      \* the unit's own value of each key
  secret,    \* orchestrator-node.conf
  issued,    \* secrets generated so far
  archive,   \* <unit>.tar.gz under its public name
  booting,   \* a node was launched and has not yet fetched the bundle
  node,      \* the bundle it installed
  job,       \* what each thread is at: the tree it materialized, the keys it is
             \* still to seed, a file with its text merged, the secret it got
  era,       \* history: how often the secret was removed or replaced
  late,      \* history: threads that generate a secret though one came since they looked
  spoiled,   \* history: a build ran into a boot or another build, or was cut
  behind     \* history: threads that put a file that was changed since they read it

unit == <<exists, conf, secret, issued>>
bundle == <<archive, booting, node>>
marks == <<era, late, spoiled, behind>>
vars == <<backups, counts, pc, unit, bundle, job, marks>>

Tasks == {"create", "check", "launch", "build", "plan", "after", "backup"}

NoText == [k \in Keys |-> Absent]

\* A job's era is the one in which it got the secret.
NoJob == [task |-> "none", tree |-> NoBundle, left |-> {}, file |-> Absent, text |-> NoText,
          own |-> NoSecret, era |-> 0]

Init ==
  /\ BackupsInit
  /\ exists = FALSE /\ conf = NoText
  /\ secret = NoSecret /\ issued = 0
  /\ archive = NoBundle /\ booting = FALSE /\ node = NoBundle
  /\ job = [t \in Threads |-> NoJob]
  /\ era = 0 /\ late = {} /\ spoiled = FALSE /\ behind = {}

Begin(t, do, there) == Request(t, there) /\ job' = [job EXCEPT ![t].task = do]
Finish(t) == Goto(t, "idle") /\ job' = [job EXCEPT ![t] = NoJob]

\* A file of the unit's is written,
Write(f, w) == conf' = [k \in Keys |-> IF k \in KeysOf(f) THEN w[k] ELSE conf[k]]

\* and there may be threads that have read it, and are to put it.
Putting(f) == {t \in Threads : At(t, "put") /\ job[t].file = f}
Overtake(f) == behind' = behind \cup Putting(f)

-----------------------------------------------------------------------------
(* The unit and its files.                                                 *)

\* POST /units: 409 if there is a unit.json.
Create ==
  /\ ~exists /\ Begin(Loop, "create", "record")
  /\ UNCHANGED <<backups, crashes, unit, bundle, marks>>

WriteRecord ==
  /\ At(Loop, "record") /\ Goto(Loop, "seed")
  /\ exists' = TRUE /\ job' = [job EXCEPT ![Loop].left = Keys]
  /\ UNCHANGED <<backups, counts, conf, secret, issued, bundle, marks>>

\* _seed_new_unit_bootstrap, file by file, whatever they held.
SeedNew(f) ==
  /\ At(Loop, "seed") /\ job[Loop].left \cap KeysOf(f) # {}
  /\ Write(f, [k \in Keys |-> Placeholder]) /\ Overtake(f)
  /\ job' = [job EXCEPT ![Loop].left = @ \ KeysOf(f)]
  /\ Goto(Loop, IF job[Loop].left \subseteq KeysOf(f) THEN "ensure" ELSE "seed")
  /\ UNCHANGED <<backups, counts, exists, secret, issued, bundle, era, late, spoiled>>

\* save_unit_bootstrap_file: any text; the unit need not exist.
SaveFile(f, w) ==
  /\ Request(Loop, "idle")
  /\ Write(f, w) /\ Overtake(f)
  /\ UNCHANGED <<backups, crashes, exists, secret, issued, bundle, job, era, late, spoiled>>

\* delete_unit_bootstrap_file: 404 if it is not there.
DeleteFile(t, f) ==
  /\ (\E k \in KeysOf(f) : conf[k] # Absent) /\ Request(t, "idle")
  /\ Write(f, NoText) /\ Overtake(f)
  /\ UNCHANGED <<backups, crashes, exists, secret, issued, bundle, job, era, late, spoiled>>

\* delete_unit: the directory goes to the quarantine.
DeleteUnit(t) ==
  /\ exists \/ secret # NoSecret \/ dir # {} \/ conf # NoText
  /\ Request(t, "idle")
  /\ exists' = FALSE /\ conf' = NoText /\ secret' = NoSecret
  /\ era' = era + 1 /\ late' = {}
  /\ behind' = behind \cup {u \in Threads : At(u, "put")}
  /\ LoseBackups
  /\ UNCHANGED <<crashes, issued, bundle, job, spoiled>>

-----------------------------------------------------------------------------
(* The secret: ensure_unit_orchestrator_secret, and an operator's edits.   *)

\* save_unit_bootstrap_file on the secret's file: a text without a secret, one
\* with a secret there has been, or one with a new one.
SaveSecret(s) ==
  /\ Request(Loop, "idle")
  /\ secret' = s /\ issued' = IF s > issued THEN s ELSE issued
  /\ era' = IF s = secret THEN era ELSE era + 1
  /\ late' = IF s = NoSecret THEN {} ELSE {t \in Threads : At(t, "generate")}
  /\ UNCHANGED <<backups, crashes, exists, conf, bundle, job, spoiled, behind>>

\* delete_unit_bootstrap_file on it.
DeleteSecret(t) ==
  /\ secret # NoSecret /\ Request(t, "idle")
  /\ secret' = NoSecret /\ era' = era + 1 /\ late' = {}
  /\ UNCHANGED <<backups, crashes, exists, conf, issued, bundle, job, spoiled, behind>>

\* What a request goes on with, when it has the secret.
Secured(t, own, since) ==
  CASE job[t].task = "create" -> Finish(t)
    [] job[t].task = "backup" ->
         Goto(t, "node") /\ job' = [job EXCEPT ![t].own = own, ![t].era = since]
    [] OTHER -> Goto(t, "read") /\ job' = [job EXCEPT ![t].own = own, ![t].era = since]

\* Slip (mutant): a new unit gets a new secret.
FindSecretAnew(t) ==
  /\ At(t, "ensure")
  /\ IF secret = NoSecret \/ job[t].task = "create"
     THEN Goto(t, "generate") /\ UNCHANGED job
     ELSE Secured(t, secret, era)
  /\ UNCHANGED <<backups, counts, unit, bundle, marks>>

\* No file, or none with a secret in it: one will be made.
FindSecret(t) ==
  /\ At(t, "ensure")
  /\ IF secret = NoSecret
     THEN Goto(t, "generate") /\ UNCHANGED job
     ELSE Secured(t, secret, era)
  /\ UNCHANGED <<backups, counts, unit, bundle, marks>>

\* Nobody looks again: one that came in the meantime is replaced.
Generate(t) ==
  /\ At(t, "generate")
  /\ issued' = issued + 1 /\ secret' = issued + 1
  /\ era' = IF t \in late THEN era + 1 ELSE era
  /\ late' = {u \in Threads \ {t} : At(u, "generate")}
  /\ Secured(t, issued + 1, era')
  /\ UNCHANGED <<backups, counts, exists, conf, bundle, spoiled, behind>>

-----------------------------------------------------------------------------
(* Materializing the tree, and what each request does with it.             *)

\* The requests that begin with the secret: a build, a launch, the seeding of
\* what is missing, and a backup the node is asked for.
Start(t, do) ==
  /\ do = "backup" => node # NoBundle
  /\ Begin(t, do, "ensure")
  /\ UNCHANGED <<backups, crashes, unit, bundle, marks>>

\* effective_bootstrap_for_bundle: the unit's own value before its parents'.
Effective(k) == IF conf[k] # Absent THEN conf[k] ELSE Inherited[k]

\* A parent's secret, where the unit's own is gone by now, counts as none.
Materialize(t) ==
  /\ At(t, "read") /\ Goto(t, "verify")
  /\ job' = [job EXCEPT ![t].tree = [conf |-> [k \in Keys |-> Effective(k)], whole |-> TRUE,
                                     secret |-> secret, era |-> job[t].era]]
  /\ UNCHANGED <<backups, counts, unit, bundle, marks>>

\* Slip (mutant): a launch trusts its readiness check.
VerifiedBefore(t) ==
  job[t].task = "launch" \/ \A k \in Keys : job[t].tree.conf[k] \in Values

\* verify_bundle_tree: every critical key has a value of the operator's.
Verified(t) == \A k \in Keys : job[t].tree.conf[k] \in Values

Building(t) == job[t].task \in {"launch", "build"}

\* The request is refused; seeding a unit goes by what is missing.
Refuse(t) ==
  /\ At(t, "verify") /\ (Building(t) \/ job[t].task = "check") /\ ~Verified(t)
  /\ Finish(t)
  /\ UNCHANGED <<backups, counts, unit, bundle, marks>>

\* The readiness of a launch is checked on a tree of its own.
Ready(t) ==
  /\ At(t, "verify") /\ job[t].task = "check" /\ Verified(t)
  /\ job' = [job EXCEPT ![t] = [NoJob EXCEPT !.task = "launch"]] /\ Goto(t, "ensure")
  /\ UNCHANGED <<backups, counts, unit, bundle, marks>>

\* Slip (mutant): the archive is opened before the tree is verified.
OpenArchiveFirst(t) ==
  /\ At(t, "verify") /\ Building(t)
  /\ IF Verified(t) THEN Goto(t, "close") /\ UNCHANGED job ELSE Finish(t)
  /\ archive' = [job[t].tree EXCEPT !.whole = FALSE]
  /\ spoiled' = (spoiled \/ (Verified(t) /\ (booting \/ \E u \in Threads : At(u, "close"))))
  /\ UNCHANGED <<backups, counts, unit, booting, node, era, late, behind>>

\* The archive is written in place, under the name it is served by.
OpenArchive(t) ==
  /\ At(t, "verify") /\ Building(t) /\ Verified(t)
  /\ Goto(t, "close")
  /\ archive' = [job[t].tree EXCEPT !.whole = FALSE]
  /\ spoiled' = (spoiled \/ booting \/ \E u \in Threads : At(u, "close"))
  /\ UNCHANGED <<backups, counts, unit, booting, node, job, era, late, behind>>

\* A launch then starts an instance, if AWS lets it.
CloseArchive(t) ==
  /\ At(t, "close") /\ Finish(t)
  /\ archive' = [job[t].tree EXCEPT !.whole = ~\E u \in Threads \ {t} : At(u, "close")]
  /\ \/ UNCHANGED booting
     \/ job[t].task = "launch" /\ booting' = TRUE
  /\ UNCHANGED <<backups, counts, unit, node, marks>>

\* cloud-init fetches whatever is served under the name, and starts it.
Boot ==
  /\ booting /\ booting' = FALSE
  /\ node' = archive
  /\ UNCHANGED <<backups, counts, pc, unit, archive, job, marks>>

-----------------------------------------------------------------------------
(* seed_unit_bootstrap_critical.                                           *)

\* Only keys the tree does not have at all are planned for.
Plan(t) ==
  /\ At(t, "verify") /\ job[t].task = "plan" /\ Goto(t, "merge")
  /\ job' = [job EXCEPT ![t] = [NoJob EXCEPT !.task = "plan",
                                 !.left = {k \in Keys : job[t].tree.conf[k] = Absent}]]
  /\ UNCHANGED <<backups, counts, unit, bundle, marks>>

\* What of a thread's plan is for a file, and what a merge adds of it.
Planned(t, f) == job[t].left \cap KeysOf(f)
Added(t, f) == {k \in Planned(t, f) : conf[k] = Absent}

\* A file's text, as it is now and with placeholders for some keys.
Merged(f, added) ==
  [k \in Keys |->
     IF k \in added THEN Placeholder ELSE IF k \in KeysOf(f) THEN conf[k] ELSE Absent]

\* Slip (mutant): the plan is written whatever the file holds by now.
MergeBlindly(t, f) ==
  /\ At(t, "merge") /\ Planned(t, f) # {} /\ Goto(t, "put")
  /\ job' = [job EXCEPT ![t].left = @ \ KeysOf(f), ![t].file = f,
                        ![t].text = Merged(f, Planned(t, f))]
  /\ behind' = behind \ {t}
  /\ UNCHANGED <<backups, counts, unit, bundle, era, late, spoiled>>

\* _merge_seed_content: a key the file has by now is left alone, and a file
\* with nothing to add is not written.
Merge(t, f) ==
  /\ At(t, "merge") /\ Planned(t, f) # {}
  /\ IF Added(t, f) # {}
     THEN /\ Goto(t, "put")
          /\ job' = [job EXCEPT ![t].left = @ \ KeysOf(f), ![t].file = f,
                                ![t].text = Merged(f, Added(t, f))]
     ELSE UNCHANGED pc /\ job' = [job EXCEPT ![t].left = @ \ KeysOf(f)]
  /\ behind' = behind \ {t}
  /\ UNCHANGED <<backups, counts, unit, bundle, era, late, spoiled>>

\* write_local_file: the whole file, as it was read and merged.
Put(t) ==
  /\ At(t, "put") /\ Goto(t, "merge")
  /\ Write(job[t].file, job[t].text)
  /\ behind' = (behind \cup Putting(job[t].file)) \ {t}
  /\ job' = [job EXCEPT ![t].file = Absent, ![t].text = NoText]
  /\ UNCHANGED <<backups, counts, exists, secret, issued, bundle, era, late, spoiled>>

\* Then the readiness is reported again, from a tree of its own.
Seeded(t) ==
  /\ At(t, "merge") /\ job[t].left = {} /\ Goto(t, "ensure")
  /\ job' = [job EXCEPT ![t].task = "after"]
  /\ UNCHANGED <<backups, counts, unit, bundle, marks>>
Report(t) ==
  /\ At(t, "verify") /\ job[t].task = "after" /\ Finish(t)
  /\ UNCHANGED <<backups, counts, unit, bundle, marks>>

-----------------------------------------------------------------------------

\* The node checks the secret it is asked with against its own.
NodeBacksUp(t, b, c) ==
  /\ NodeMakes(t, b, c) /\ node.whole /\ node.secret = job[t].own
  /\ job' = [job EXCEPT ![t] = NoJob]
  /\ UNCHANGED <<unit, bundle, marks>>
NodeRefuses(t) ==
  /\ NodeFails(t)
  /\ job' = [job EXCEPT ![t] = NoJob]
  /\ UNCHANGED <<unit, bundle, marks>>

\* What was in memory is gone, and what a request was at stays as it is.
Restart ==
  /\ crashes < MaxCrashes /\ crashes' = crashes + 1
  /\ pc' = [t \in Threads |-> "idle"] /\ job' = [t \in Threads |-> NoJob]
  /\ spoiled' = (spoiled \/ \E t \in Threads : At(t, "close"))
  /\ late' = {} /\ behind' = {}
  /\ CutBackups
  /\ UNCHANGED <<ops, unit, bundle, era>>

UnitStep(t) ==
  \/ DeleteUnit(t) \/ \E do \in {"build", "check", "plan", "backup"} : Start(t, do)
  \/ Materialize(t) \/ Refuse(t) \/ Ready(t) \/ OpenArchive(t) \/ CloseArchive(t)
  \/ Plan(t) \/ Put(t) \/ Seeded(t) \/ Report(t)
  \/ DeleteSecret(t) \/ \E f \in Confs : DeleteFile(t, f) \/ Merge(t, f)
  \/ NodeRefuses(t) \/ \E b \in Ids, c \in Contents : NodeBacksUp(t, b, c)

Backups ==
  /\ \/ \E b \in Ids, c \in Contents : Upload(b, c)
     \/ Save(Loop)
     \/ \E t \in Pool : BackupStep(t)
  /\ UNCHANGED <<unit, bundle, job, marks>>

Next ==
  \/ Create \/ WriteRecord
  \/ \E f \in Confs : SeedNew(f) \/ \E w \in Texts(f) : SaveFile(f, w)
  \/ \E s \in 0..(issued + 1) : SaveSecret(s)
  \/ \E t \in Threads : FindSecret(t) \/ Generate(t)
  \/ \E t \in Pool : UnitStep(t)
  \/ Boot
  \/ Backups
  \/ Restart

Spec == Init /\ [][Next]_vars

-----------------------------------------------------------------------------
Bundles == Trees \cup {NoBundle}
Jobs == [task : Tasks \cup {"none"}, tree : Bundles, left : SUBSET Keys,
         file : Confs \cup {Absent}, text : [Keys -> Settings], own : Nat, era : Nat]
UnitSteps == {"record", "seed", "ensure", "generate", "read", "verify", "close",
              "merge", "put", "node", "clear", "idle"}

(* Every variable has its type, and a step of a request has what it needs. *)
TypeOK ==
  /\ BackupsTypeOK
  /\ pc \in [Threads -> UnitSteps \cup Saving \cup Selecting \cup Deleting]
  /\ ops \in Nat /\ crashes \in Nat
  /\ exists \in BOOLEAN /\ conf \in [Keys -> Settings]
  /\ issued \in Nat /\ secret \in 0..issued
  /\ archive \in Bundles /\ booting \in BOOLEAN /\ node \in Bundles
  /\ job \in [Threads -> Jobs]
  /\ era \in Nat /\ late \subseteq Threads /\ spoiled \in BOOLEAN /\ behind \subseteq Threads
  /\ \A t \in Threads :
       /\ pc[t] \in {"verify", "close"} => job[t].tree # NoBundle
       /\ pc[t] = "put" => job[t].file \in Confs

Shipped == {archive, node} \ {NoBundle}

(* No bundle goes out with a critical key missing or still a placeholder,  *)
(* whatever is edited between the readiness check, the build and the boot. *)
ConfiguredOnly == \A a \in Shipped : \A k \in Keys : a.conf[k] \in Values

(* The orchestrator and a bundle hold the same secret from when the bundle *)
(* looked for it: until the unit is deleted, an operator removes it or     *)
(* saves another, or a request that found none replaces one that came      *)
(* since.  Nothing else replaces it, and what is built then agrees again.  *)
SecretAgrees == \A a \in Shipped : a.era = era => a.secret = secret

(* A node boots from a whole archive unless a build ran into its boot or   *)
(* another build, or a restart cut one: a build that fails does no harm.   *)
NodeWhole == node # NoBundle /\ ~spoiled => node.whole

(* What a file holds for a key changes only by a request, by creating the  *)
(* unit over it, or by a seed: which puts a placeholder where there was    *)
(* nothing, unless the file was changed since the seed read it.            *)
EditKept ==
  [][\A k \in Keys : conf'[k] # conf[k] =>
       \/ ops' # ops \/ At(Loop, "seed")
       \/ conf[k] = Absent /\ conf'[k] = Placeholder
       \/ \E t \in behind : At(t, "put") /\ job[t].file = FileOf[k]]_vars

(* A selection is withdrawn only on request or with its backup, unless it  *)
(* was made while the delete of another backup ran.                        *)
SelectionKept == [][selected # NoId /\ selected' = NoId => MayWithdraw]_vars
=============================================================================
