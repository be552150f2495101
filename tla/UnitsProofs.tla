----------------------------- MODULE UnitsProofs -----------------------------
(***************************************************************************)
(* What holds of a unit, its bundle and its backups for any keys, ids,     *)
(* threads and bounds.  A step of Next either leaves the backups alone, or *)
(* leaves the unit and the bundle alone, or is one of four that touch both *)
(* (NextCases); each invariant is about one of the two halves.             *)
(***************************************************************************)
EXTENDS UnitBundles, TLAPS

BackupPlaces == Saving \cup Selecting \cup Deleting
UnitPlaces == {"record", "seed", "ensure", "generate", "read", "verify", "close",
               "merge", "put", "node"}

\* The steps that leave the backups alone.
UnitOnly(t) ==
  \/ t = Loop /\ (Create \/ WriteRecord)
  \/ t = Loop /\ \E f \in Confs : SeedNew(f) \/ \E w \in Texts(f) : SaveFile(f, w)
  \/ t = Loop /\ \E s \in 0..(issued + 1) : SaveSecret(s)
  \/ FindSecret(t) \/ Generate(t)
  \/ t \in Pool /\ \E do \in {"build", "check", "plan", "backup"} : Start(t, do)
  \/ t \in Pool /\ (Materialize(t) \/ Refuse(t) \/ Ready(t))
  \/ t \in Pool /\ (OpenArchive(t) \/ CloseArchive(t))
  \/ t \in Pool /\ (Plan(t) \/ Put(t) \/ Seeded(t) \/ Report(t))
  \/ t \in Pool /\ (DeleteSecret(t) \/ \E f \in Confs : DeleteFile(t, f) \/ Merge(t, f))

LEMMA NextCases ==
  ASSUME [Next]_vars
  PROVE  \/ \E t \in Threads : UnitOnly(t)
         \/ Boot \/ Backups \/ Restart
         \/ \E t \in Pool : DeleteUnit(t)
         \/ \E t \in Pool : NodeRefuses(t) \/ \E b \in Ids, c \in Contents : NodeBacksUp(t, b, c)
         \/ UNCHANGED vars
  <1>1. ASSUME NEW t \in Pool, UnitStep(t)
        PROVE  \/ UnitOnly(t) \/ DeleteUnit(t) \/ NodeRefuses(t)
               \/ \E b \in Ids, c \in Contents : NodeBacksUp(t, b, c)
    BY <1>1 DEF UnitStep, UnitOnly
  <1>2. Loop \in Threads /\ Pool \subseteq Threads
    BY DEF Threads
  <1>3. \/ Create \/ WriteRecord
        \/ \E f \in Confs : SeedNew(f) \/ \E w \in Texts(f) : SaveFile(f, w)
        \/ \E s \in 0..(issued + 1) : SaveSecret(s)
        => UnitOnly(Loop)
    BY DEF UnitOnly
  <1>4. \A t \in Threads : FindSecret(t) \/ Generate(t) => UnitOnly(t)
    BY DEF UnitOnly
  <1> QED BY <1>1, <1>2, <1>3, <1>4 DEF Next

-----------------------------------------------------------------------------
(* The types.                                                              *)
Requests == [id : Ids \cup {NoId}, content : Contents \cup {Missing},
             listed : SUBSET (Files \cup Tmps), saw : Ids \cup {NoId}]
Contained == [Files \cup Tmps -> Contents \cup {Missing}]

LEMMA NoReqTyped == NoReq \in Requests
  BY DEF NoReq, Requests

LEMMA NoJobTyped == NoJob \in Jobs /\ NoBundle \in Bundles /\ NoJob.task = "none"
  BY DEF NoJob, Jobs, Bundles, NoSecret, NoText, Settings

\* Where a thread is, and what its job then has.
JobTyped(t) ==
  /\ pc[t] \in UnitSteps \cup Saving \cup Selecting \cup Deleting
  /\ job[t] \in Jobs
  /\ pc[t] \in {"verify", "close"} => job[t].tree # NoBundle
  /\ pc[t] = "put" => job[t].file \in Confs

ThreadsTyped ==
  /\ pc = [t \in Threads |-> pc[t]] /\ job = [t \in Threads |-> job[t]]
  /\ \A t \in Threads : JobTyped(t)

StoresTyped ==
  /\ ops \in Nat /\ crashes \in Nat
  /\ exists \in BOOLEAN /\ conf \in [Keys -> Settings]
  /\ issued \in Nat /\ secret \in 0..issued
  /\ archive \in Bundles /\ booting \in BOOLEAN /\ node \in Bundles
  /\ era \in Nat /\ late \subseteq Threads /\ spoiled \in BOOLEAN /\ behind \subseteq Threads

LEMMA TypeParts == TypeOK <=> BackupsTypeOK /\ ThreadsTyped /\ StoresTyped
  BY DEF TypeOK, ThreadsTyped, JobTyped, StoresTyped

LEMMA InitTyped == Init => TypeOK
  <1> SUFFICES ASSUME Init PROVE TypeOK
    OBVIOUS
  <1> USE DEF Init, BackupsInit
  <1>1. BackupsTypeOK
    BY NoReqTyped DEF BackupsTypeOK, Requests
  <1>2. ThreadsTyped
    BY NoJobTyped DEF ThreadsTyped, JobTyped, UnitSteps
  <1>3. StoresTyped
    <2>1. ops \in Nat /\ crashes \in Nat /\ issued \in Nat /\ era \in Nat /\ secret \in 0..issued
      BY DEF NoSecret
    <2>2. conf \in [Keys -> Settings] /\ behind \subseteq Threads /\ late \subseteq Threads
      BY DEF NoText, Settings
    <2>3. archive \in Bundles /\ node \in Bundles
      BY NoJobTyped
    <2>4. exists \in BOOLEAN /\ booting \in BOOLEAN /\ spoiled \in BOOLEAN
      OBVIOUS
    <2> QED BY <2>1, <2>2, <2>3, <2>4 DEF StoresTyped
  <1> QED BY <1>1, <1>2, <1>3, TypeParts

\* One thread goes to another place with another job.
LEMMA ThreadMoves ==
  ASSUME ThreadsTyped, NEW t \in Threads, NEW l \in UnitSteps \cup BackupPlaces, NEW j \in Jobs,
         pc' = [pc EXCEPT ![t] = l], job' = [job EXCEPT ![t] = j],
         l \in {"verify", "close"} => j.tree # NoBundle,
         l = "put" => j.file \in Confs
  PROVE  ThreadsTyped'
  <1>1. \A u \in Threads : /\ pc'[u] = IF u = t THEN l ELSE pc[u]
                           /\ job'[u] = IF u = t THEN j ELSE job[u]
    BY DEF ThreadsTyped
  <1>2. \A u \in Threads : JobTyped(u)'
    BY <1>1 DEF ThreadsTyped, JobTyped, BackupPlaces
  <1> QED BY <1>2 DEF ThreadsTyped

\* The fields of a job.
LEMMA JobFields ==
  ASSUME TypeOK, NEW t \in Threads
  PROVE  /\ job[t] \in Jobs /\ job[t].task \in Tasks \cup {"none"} /\ job[t].tree \in Bundles
         /\ job[t].left \subseteq Keys /\ job[t].file \in Confs \cup {Absent}
         /\ job[t].text \in [Keys -> Settings]
         /\ job[t].own \in Nat /\ job[t].era \in Nat
         /\ pc[t] \in {"verify", "close"} => job[t].tree # NoBundle
         /\ pc[t] = "put" => job[t].file \in Confs
  BY DEF TypeOK, Jobs

LEMMA JobWith ==
  ASSUME NEW j \in Jobs
  PROVE  /\ \A x \in Tasks : [j EXCEPT !.task = x] \in Jobs
                            /\ [j EXCEPT !.task = x].tree = j.tree
         /\ \A x \in SUBSET Keys : [j EXCEPT !.left = x] \in Jobs
         /\ \A f \in Confs \cup {Absent}, w \in [Keys -> Settings] :
              [j EXCEPT !.file = f, !.text = w] \in Jobs
         /\ \A x \in SUBSET Keys, f \in Confs, w \in [Keys -> Settings] :
              /\ [j EXCEPT !.left = x, !.file = f, !.text = w] \in Jobs
              /\ [j EXCEPT !.left = x, !.file = f, !.text = w].file = f
              /\ [j EXCEPT !.left = x, !.file = f, !.text = w].text = w
         /\ \A o \in Nat, e \in Nat : [j EXCEPT !.own = o, !.era = e] \in Jobs
         /\ \A x \in Bundles : [j EXCEPT !.tree = x] \in Jobs /\ [j EXCEPT !.tree = x].tree = x
  BY DEF Jobs

\* A step of t's that leaves the backups alone: where t goes, with which job.
Moves(t, l, j) ==
  /\ pc' = [pc EXCEPT ![t] = l] /\ job' = [job EXCEPT ![t] = j]
  /\ l \in UnitPlaces \cup {"idle"} /\ j \in Jobs
  /\ l \in {"verify", "close"} => j.tree # NoBundle
  /\ l = "put" => j.file \in Confs

UnitMoves(t) ==
  /\ UNCHANGED <<backups, crashes>>
  /\ pc[t] \in UnitPlaces \cup {"idle"}
  /\ \E l, j : Moves(t, l, j)

LEMMA UnitMovesTyped ==
  ASSUME TypeOK, NEW t \in Threads, UnitMoves(t), StoresTyped'
  PROVE  TypeOK'
  <1>1. PICK l, j : Moves(t, l, j)
    BY DEF UnitMoves
  <1>2. l \in UnitSteps \cup BackupPlaces
    BY <1>1 DEF Moves, UnitPlaces, UnitSteps
  <1>3. ThreadsTyped'
    BY <1>1, <1>2, TypeParts, ThreadMoves DEF Moves
  <1>4. BackupsTypeOK'
    BY TypeParts DEF UnitMoves, backups, store, history, BackupsTypeOK
  <1>5. TypeOK' <=> BackupsTypeOK' /\ ThreadsTyped' /\ StoresTyped'
    BY TypeParts, PTL
  <1> QED BY <1>3, <1>4, <1>5

\* What is written to a file leaves a text of each.
LEMMA Written ==
  ASSUME conf \in [Keys -> Settings], NEW f \in Confs, NEW w,
         \A k \in KeysOf(f) : w[k] \in Settings, Write(f, w)
  PROVE  /\ conf' \in [Keys -> Settings]
         /\ \A k \in Keys : conf'[k] = IF k \in KeysOf(f) THEN w[k] ELSE conf[k]
  BY DEF Write

LEMMA FileSteps ==
  ASSUME TypeOK, NEW t \in Threads,
         \/ t = Loop /\ (Create \/ WriteRecord)
         \/ t = Loop /\ \E f \in Confs : SeedNew(f) \/ \E w \in Texts(f) : SaveFile(f, w)
         \/ \E f \in Confs : DeleteFile(t, f)
  PROVE  UnitMoves(t) /\ StoresTyped'
  <1>1. job \in [Threads -> Jobs] /\ pc \in [Threads -> UnitSteps \cup BackupPlaces]
    BY DEF TypeOK, BackupPlaces
  <1>2. StoresTyped
    BY TypeParts
  <1>3. CASE t = Loop /\ Create
    <2> DEFINE j == [job[t] EXCEPT !.task = "create"]
    <2>1. j \in Jobs
      BY <1>1, JobWith DEF Tasks
    <2>2. Moves(t, "record", j) /\ pc[t] = "idle"
      BY <1>3, <2>1 DEF Create, Begin, Request, At, Goto, Moves, UnitPlaces
    <2>3. StoresTyped'
      BY <1>2, <1>3 DEF Create, Begin, Request, StoresTyped, unit, bundle, marks
    <2> QED BY <1>3, <2>2, <2>3 DEF UnitMoves, Create
  <1>4. CASE t = Loop /\ WriteRecord
    <2> DEFINE j == [job[t] EXCEPT !.left = Keys]
    <2>1. j \in Jobs
      BY <1>1, JobWith
    <2>2. Moves(t, "seed", j) /\ pc[t] = "record"
      BY <1>4, <2>1 DEF WriteRecord, At, Goto, Moves, UnitPlaces
    <2>3. StoresTyped'
      BY <1>2, <1>4 DEF WriteRecord, StoresTyped, counts, bundle, marks
    <2> QED BY <1>4, <2>2, <2>3 DEF UnitMoves, WriteRecord, counts, UnitPlaces
  <1>5. ASSUME t = Loop, NEW f \in Confs, SeedNew(f) PROVE UnitMoves(t) /\ StoresTyped'
    <2> DEFINE j == [job[t] EXCEPT !.left = @ \ KeysOf(f)]
               l == IF job[Loop].left \subseteq KeysOf(f) THEN "ensure" ELSE "seed"
    <2>1. j \in Jobs
      BY <1>1, JobWith, JobFields
    <2>2. l \in {"ensure", "seed"}
      OBVIOUS
    <2> HIDE DEF l
    <2>3. Moves(t, l, j) /\ pc[t] = "seed"
      BY <1>5, <2>1, <2>2 DEF SeedNew, At, Goto, Moves, UnitPlaces, l
    <2>4. conf' \in [Keys -> Settings]
      BY <1>2, <1>5, Written DEF SeedNew, StoresTyped, Settings, KeysOf
    <2>5. StoresTyped'
      BY <1>2, <1>5, <2>4 DEF SeedNew, StoresTyped, counts, bundle, Overtake, Putting
    <2> QED BY <1>5, <2>3, <2>5 DEF UnitMoves, SeedNew, counts, UnitPlaces
  <1>6. ASSUME t = Loop, NEW f \in Confs, NEW w \in Texts(f), SaveFile(f, w)
        PROVE  UnitMoves(t) /\ StoresTyped'
    <2>1. Moves(t, "idle", job[t]) /\ pc[t] = "idle"
      BY <1>1, <1>6 DEF SaveFile, Request, At, Goto, Moves, UnitPlaces
    <2>2. conf' \in [Keys -> Settings]
      BY <1>2, <1>6, Written DEF SaveFile, StoresTyped, Texts
    <2>3. behind' \subseteq Threads /\ ops' \in Nat
      BY <1>2, <1>6 DEF SaveFile, Request, StoresTyped, Overtake, Putting
    <2>4. StoresTyped'
      BY <1>2, <1>6, <2>2, <2>3 DEF SaveFile, StoresTyped, bundle
    <2> QED BY <1>6, <2>1, <2>4 DEF UnitMoves, SaveFile
  <1>7. ASSUME NEW f \in Confs, DeleteFile(t, f) PROVE UnitMoves(t) /\ StoresTyped'
    <2>1. Moves(t, "idle", job[t]) /\ pc[t] = "idle"
      BY <1>1, <1>7 DEF DeleteFile, Request, At, Goto, Moves, UnitPlaces
    <2>2. conf' \in [Keys -> Settings]
      BY <1>2, <1>7, Written DEF DeleteFile, StoresTyped, Settings, NoText, KeysOf
    <2>3. behind' \subseteq Threads /\ ops' \in Nat
      BY <1>2, <1>7 DEF DeleteFile, Request, StoresTyped, Overtake, Putting
    <2>4. StoresTyped'
      BY <1>2, <1>7, <2>2, <2>3 DEF DeleteFile, StoresTyped, bundle
    <2> QED BY <1>7, <2>1, <2>4 DEF UnitMoves, DeleteFile
  <1> QED BY <1>3, <1>4, <1>5, <1>6, <1>7

\* Where a request goes that has the secret.
LEMMA SecuredMoves ==
  ASSUME TypeOK, NEW t \in Threads, NEW own \in Nat, NEW since \in Nat, Secured(t, own, since)
  PROVE  \/ Moves(t, "idle", NoJob) /\ job[t].task = "create"
         \/ Moves(t, "node", [job[t] EXCEPT !.own = own, !.era = since])
         \/ Moves(t, "read", [job[t] EXCEPT !.own = own, !.era = since])
  <1> DEFINE j == [job[t] EXCEPT !.own = own, !.era = since]
  <1>1. j \in Jobs
    BY JobFields, JobWith
  <1>2. \/ job[t].task = "create" /\ Finish(t)
        \/ Goto(t, "node") /\ job' = [job EXCEPT ![t] = j]
        \/ Goto(t, "read") /\ job' = [job EXCEPT ![t] = j]
    <2>1. job' = [job EXCEPT ![t].own = own, ![t].era = since] => job' = [job EXCEPT ![t] = j]
      BY DEF TypeOK
    <2> QED BY <2>1 DEF Secured
  <1> HIDE DEF j
  <1>3. \/ Moves(t, "idle", NoJob) /\ job[t].task = "create"
        \/ Moves(t, "node", j) \/ Moves(t, "read", j)
    BY <1>1, <1>2, NoJobTyped DEF Moves, Finish, Goto, UnitPlaces
  <1> QED BY <1>3 DEF j

LEMMA SecretSteps ==
  ASSUME TypeOK, NEW t \in Threads, FindSecret(t) \/ Generate(t)
  PROVE  UnitMoves(t) /\ StoresTyped'
  <1>1. StoresTyped /\ job[t] \in Jobs /\ job \in [Threads -> Jobs]
    BY TypeParts, JobFields DEF TypeOK
  <1>2. CASE FindSecret(t) /\ secret = NoSecret
    <2>1. Goto(t, "generate") /\ job' = [job EXCEPT ![t] = job[t]]
      BY <1>1, <1>2 DEF FindSecret
    <2>2. Moves(t, "generate", job[t])
      BY <1>1, <2>1 DEF Moves, Goto, UnitPlaces
    <2> QED BY <1>1, <1>2, <2>2
         DEF FindSecret, At, UnitMoves, StoresTyped, counts, unit, bundle, marks, UnitPlaces
  <1>3. CASE FindSecret(t) /\ secret # NoSecret
    <2>1. Secured(t, secret, era)
      BY <1>3 DEF FindSecret
    <2>2. secret \in Nat /\ era \in Nat
      BY <1>1 DEF StoresTyped
    <2>3. \E l, j : Moves(t, l, j)
      BY <2>1, <2>2, SecuredMoves
    <2> QED BY <1>1, <1>3, <2>3
         DEF FindSecret, At, UnitMoves, StoresTyped, counts, unit, bundle, marks, UnitPlaces
  <1>4. CASE Generate(t)
    <2>1. issued + 1 \in Nat /\ era' \in Nat
      BY <1>1, <1>4 DEF StoresTyped, Generate
    <2>2. \E l, j : Moves(t, l, j)
      BY <1>4, <2>1, SecuredMoves DEF Generate
    <2>3. issued' \in Nat /\ secret' \in 0..issued' /\ late' \subseteq Threads
      BY <1>1, <1>4 DEF Generate, StoresTyped
    <2> QED BY <1>1, <1>4, <2>1, <2>2, <2>3
         DEF Generate, At, UnitMoves, StoresTyped, counts, bundle, UnitPlaces
  <1> QED BY <1>2, <1>3, <1>4

\* An operator saves or deletes the secret's file.
LEMMA SecretEdits ==
  ASSUME TypeOK, NEW t \in Threads,
         (t = Loop /\ \E s \in 0..(issued + 1) : SaveSecret(s)) \/ DeleteSecret(t)
  PROVE  UnitMoves(t) /\ StoresTyped'
  <1>1. StoresTyped /\ job \in [Threads -> Jobs]
    BY TypeParts DEF TypeOK
  <1>2. ASSUME t = Loop, NEW s \in 0..(issued + 1), SaveSecret(s)
        PROVE  UnitMoves(t) /\ StoresTyped'
    <2>1. Moves(t, "idle", job[t]) /\ pc[t] = "idle"
      BY <1>1, <1>2 DEF SaveSecret, Request, At, Goto, Moves
    <2>2. issued' \in Nat /\ secret' \in 0..issued' /\ era' \in Nat
      BY <1>1, <1>2 DEF SaveSecret, StoresTyped
    <2>3. late' \subseteq Threads /\ ops' \in Nat
      BY <1>1, <1>2 DEF SaveSecret, Request, StoresTyped
    <2> QED BY <1>1, <1>2, <2>1, <2>2, <2>3 DEF UnitMoves, SaveSecret, StoresTyped, bundle
  <1>3. ASSUME DeleteSecret(t) PROVE UnitMoves(t) /\ StoresTyped'
    <2>1. Moves(t, "idle", job[t]) /\ pc[t] = "idle"
      BY <1>1, <1>3 DEF DeleteSecret, Request, At, Goto, Moves
    <2>2. secret' \in 0..issued' /\ era' \in Nat /\ late' \subseteq Threads /\ ops' \in Nat
      BY <1>1, <1>3 DEF DeleteSecret, Request, StoresTyped, NoSecret
    <2> QED BY <1>1, <1>3, <2>1, <2>2 DEF UnitMoves, DeleteSecret, StoresTyped, bundle
  <1> QED BY <1>2, <1>3

\* The tree a bundle is made of.
LEMMA TreeTyped ==
  /\ \A a \in Bundles \ {NoBundle} : a \in Trees
  /\ \A a \in Trees : a # NoBundle
  /\ Trees \subseteq Bundles
  /\ \A a \in Trees, w \in BOOLEAN :
       /\ [a EXCEPT !.whole = w] \in Trees /\ [a EXCEPT !.whole = w].whole = w
       /\ [a EXCEPT !.whole = w].conf = a.conf /\ [a EXCEPT !.whole = w].secret = a.secret
       /\ [a EXCEPT !.whole = w].era = a.era
  BY BundleConstants DEF Bundles, Trees

\* A value of the operator's, or none, is what a key may hold.
LEMMA EffectiveTyped ==
  ASSUME StoresTyped, NEW k \in Keys PROVE Effective(k) \in Settings
  BY BundleConstants DEF StoresTyped, Effective, Settings

LEMMA TreeSteps ==
  ASSUME TypeOK, NEW t \in Threads,
         \/ \E do \in {"build", "check", "plan", "backup"} : Start(t, do)
         \/ Materialize(t) \/ Refuse(t) \/ Ready(t) \/ OpenArchive(t) \/ CloseArchive(t)
  PROVE  UnitMoves(t) /\ StoresTyped'
  <1>1. StoresTyped /\ job[t] \in Jobs /\ job \in [Threads -> Jobs]
    BY TypeParts, JobFields DEF TypeOK
  <1>2. ASSUME NEW do \in {"build", "check", "plan", "backup"}, Start(t, do)
        PROVE  UnitMoves(t) /\ StoresTyped'
    <2> DEFINE j == [job[t] EXCEPT !.task = do]
    <2>1. j \in Jobs
      BY <1>1, JobWith DEF Tasks
    <2>2. job' = [job EXCEPT ![t] = j] /\ pc[t] = "idle" /\ pc' = [pc EXCEPT ![t] = "ensure"]
      BY <1>1, <1>2 DEF Start, Begin, Request, At, Goto
    <2> HIDE DEF j
    <2>3. Moves(t, "ensure", j)
      BY <2>1, <2>2 DEF Moves, UnitPlaces
    <2> QED BY <1>1, <1>2, <2>2, <2>3
         DEF Start, Begin, Request, UnitMoves, StoresTyped, unit, bundle, marks
  <1>3. CASE Materialize(t)
    <2> DEFINE a == [conf |-> [k \in Keys |-> Effective(k)], whole |-> TRUE,
                     secret |-> secret, era |-> job[t].era]
               j == [job[t] EXCEPT !.tree = a]
    <2>1. a \in Trees
      <3>1. [k \in Keys |-> Effective(k)] \in [Keys -> Settings]
        BY <1>1, EffectiveTyped
      <3>2. secret \in Nat /\ job[t].era \in Nat
        BY <1>1, JobFields DEF StoresTyped
      <3> QED BY <3>1, <3>2 DEF Trees
    <2>2. job' = [job EXCEPT ![t] = j]
      BY <1>1, <1>3 DEF Materialize
    <2> HIDE DEF a
    <2>3. a # NoBundle
      BY <2>1, TreeTyped
    <2>4. j \in Jobs /\ j.tree = a
      <3>1. job[t] \in Jobs /\ a \in Bundles
        BY <1>1, <2>1, TreeTyped
      <3> QED BY <3>1 DEF Jobs
    <2> HIDE DEF j
    <2>5. Moves(t, "verify", j) /\ pc[t] = "read"
      BY <1>3, <2>2, <2>3, <2>4 DEF Materialize, Goto, At, Moves, UnitPlaces
    <2> QED BY <1>1, <1>3, <2>5
         DEF Materialize, UnitMoves, StoresTyped, counts, unit, bundle, marks, UnitPlaces
  <1>4. CASE Refuse(t)
    <2>1. Moves(t, "idle", NoJob) /\ pc[t] = "verify"
      BY <1>4, NoJobTyped DEF Refuse, Finish, Goto, At, Moves
    <2> QED BY <1>1, <1>4, <2>1
         DEF Refuse, UnitMoves, StoresTyped, counts, unit, bundle, marks, UnitPlaces
  <1>5. CASE Ready(t)
    <2> DEFINE j == [NoJob EXCEPT !.task = "launch"]
    <2>1. j \in Jobs
      BY NoJobTyped, JobWith DEF Tasks
    <2>2. Moves(t, "ensure", j) /\ pc[t] = "verify"
      BY <1>5, <2>1 DEF Ready, Goto, At, Moves, UnitPlaces
    <2> QED BY <1>1, <1>5, <2>2
         DEF Ready, UnitMoves, StoresTyped, counts, unit, bundle, marks, UnitPlaces
  <1>6. ASSUME OpenArchive(t) \/ CloseArchive(t)
        PROVE  job[t].tree \in Trees /\ job[t].tree # NoBundle
    BY <1>6, JobFields, TreeTyped DEF OpenArchive, CloseArchive, At
  <1>7. CASE OpenArchive(t)
    <2>1. Moves(t, "close", job[t]) /\ pc[t] = "verify"
      BY <1>1, <1>6, <1>7 DEF OpenArchive, Goto, At, Moves, UnitPlaces
    <2>2. archive' \in Bundles /\ spoiled' \in BOOLEAN
      BY <1>1, <1>6, <1>7, TreeTyped DEF OpenArchive
    <2> QED BY <1>1, <1>7, <2>1, <2>2
         DEF OpenArchive, UnitMoves, StoresTyped, counts, unit, UnitPlaces
  <1>8. CASE CloseArchive(t)
    <2>1. Moves(t, "idle", NoJob) /\ pc[t] = "close"
      BY <1>8, NoJobTyped DEF CloseArchive, Finish, Goto, At, Moves
    <2>2. archive' \in Bundles /\ booting' \in BOOLEAN
      <3> DEFINE w == ~\E u \in Threads \ {t} : At(u, "close")
      <3>1. w \in BOOLEAN /\ archive' = [job[t].tree EXCEPT !.whole = w]
        BY <1>8 DEF CloseArchive
      <3> HIDE DEF w
      <3>2. archive' \in Bundles
        BY <3>1, <1>6, <1>8, TreeTyped
      <3>3. booting' \in BOOLEAN
        BY <1>1, <1>8 DEF CloseArchive, StoresTyped
      <3> QED BY <3>2, <3>3
    <2> QED BY <1>1, <1>8, <2>1, <2>2
         DEF CloseArchive, UnitMoves, StoresTyped, counts, unit, marks, UnitPlaces
  <1> QED BY <1>2, <1>3, <1>4, <1>5, <1>7, <1>8

LEMMA SeedSteps ==
  ASSUME TypeOK, NEW t \in Threads,
         Plan(t) \/ Put(t) \/ Seeded(t) \/ Report(t) \/ \E f \in Confs : Merge(t, f)
  PROVE  UnitMoves(t) /\ StoresTyped'
  <1>1. StoresTyped /\ job[t] \in Jobs /\ job \in [Threads -> Jobs]
        /\ pc \in [Threads -> UnitSteps \cup BackupPlaces]
    BY TypeParts, JobFields DEF TypeOK, BackupPlaces
  <1>2. CASE Plan(t)
    <2> DEFINE left == {k \in Keys : job[t].tree.conf[k] = Absent}
               j == [[NoJob EXCEPT !.task = "plan"] EXCEPT !.left = left]
    <2>1. j \in Jobs
      BY NoJobTyped, JobWith DEF Tasks
    <2>2. job' = [job EXCEPT ![t] = j] /\ pc[t] = "verify" /\ pc' = [pc EXCEPT ![t] = "merge"]
      BY <1>2 DEF Plan, Goto, At, NoJob
    <2> HIDE DEF j
    <2>3. Moves(t, "merge", j)
      BY <2>1, <2>2 DEF Moves, UnitPlaces
    <2> QED BY <1>1, <1>2, <2>2, <2>3
         DEF Plan, UnitMoves, StoresTyped, counts, unit, bundle, marks, UnitPlaces
  <1>3. CASE Put(t)
    <2> DEFINE j == [job[t] EXCEPT !.file = Absent, !.text = NoText]
    <2>1. NoText \in [Keys -> Settings]
      BY DEF NoText, Settings
    <2>2. j \in Jobs
      BY <1>1, <2>1, JobWith
    <2>3. Moves(t, "merge", j) /\ pc[t] = "put"
      BY <1>1, <1>3, <2>2 DEF Put, Goto, At, Moves, UnitPlaces
    <2>4. conf' \in [Keys -> Settings]
      BY <1>1, <1>3, <2>3, JobFields, Written DEF Put, StoresTyped, KeysOf
    <2>5. behind' \subseteq Threads
      BY <1>1, <1>3 DEF Put, StoresTyped, Putting
    <2> QED BY <1>1, <1>3, <2>3, <2>4, <2>5
         DEF Put, UnitMoves, StoresTyped, counts, bundle, UnitPlaces
  <1>4. CASE Seeded(t)
    <2> DEFINE j == [job[t] EXCEPT !.task = "after"]
    <2>1. j \in Jobs
      BY <1>1, JobWith DEF Tasks
    <2>2. Moves(t, "ensure", j) /\ pc[t] = "merge"
      BY <1>1, <1>4, <2>1 DEF Seeded, Goto, At, Moves, UnitPlaces
    <2> QED BY <1>1, <1>4, <2>2
         DEF Seeded, UnitMoves, StoresTyped, counts, unit, bundle, marks, UnitPlaces
  <1>5. CASE Report(t)
    <2>1. Moves(t, "idle", NoJob) /\ pc[t] = "verify"
      BY <1>5, NoJobTyped DEF Report, Finish, Goto, At, Moves
    <2> QED BY <1>1, <1>5, <2>1
         DEF Report, UnitMoves, StoresTyped, counts, unit, bundle, marks, UnitPlaces
  <1>6. ASSUME NEW f \in Confs, Merge(t, f) PROVE UnitMoves(t) /\ StoresTyped'
    <2> DEFINE left == job[t].left \ KeysOf(f)
    <2>1. left \in SUBSET Keys /\ pc[t] = "merge" /\ behind' \subseteq Threads
      BY <1>1, <1>6, JobFields DEF Merge, At, StoresTyped
    <2>2. StoresTyped'
      BY <1>1, <1>6, <2>1 DEF Merge, StoresTyped, counts, unit, bundle
    <2>3. CASE Added(t, f) # {}
      <3> DEFINE w == Merged(f, Added(t, f))
                 j == [job[t] EXCEPT !.left = left, !.file = f, !.text = w]
      <3>1. w \in [Keys -> Settings]
        BY <1>1 DEF Merged, StoresTyped, Settings
      <3> HIDE DEF w, left
      <3>2. job[t] \in Jobs /\ f \in Confs /\ left \in SUBSET Keys
        BY <1>1, <1>6, <2>1
      <3>3. j \in Jobs /\ j.file = f
        BY <3>1, <3>2 DEF Jobs
      <3>4. job' = [job EXCEPT ![t] = j] /\ pc' = [pc EXCEPT ![t] = "put"]
        BY <1>1, <1>6, <2>3 DEF Merge, Goto, w, left
      <3> HIDE DEF j
      <3>5. Moves(t, "put", j)
        BY <3>3, <3>4 DEF Moves, UnitPlaces
      <3> QED BY <1>6, <2>1, <2>2, <3>5 DEF Merge, UnitMoves, counts, UnitPlaces
    <2>4. CASE Added(t, f) = {}
      <3> DEFINE j == [job[t] EXCEPT !.left = left]
      <3>1. j \in Jobs
        BY <1>1, <2>1, JobWith
      <3>2. pc' = [pc EXCEPT ![t] = "merge"]
        BY <1>1, <1>6, <2>1, <2>4 DEF Merge
      <3>3. Moves(t, "merge", j)
        BY <1>1, <1>6, <2>4, <3>1, <3>2 DEF Merge, Moves, UnitPlaces
      <3> QED BY <1>6, <2>1, <2>2, <3>3 DEF Merge, UnitMoves, counts, UnitPlaces
    <2> QED BY <2>3, <2>4
  <1> QED BY <1>2, <1>3, <1>4, <1>5, <1>6

LEMMA UnitOnlyMoves ==
  ASSUME TypeOK, NEW t \in Threads, UnitOnly(t) PROVE UnitMoves(t) /\ TypeOK'
  <1>1. UnitMoves(t) /\ StoresTyped'
    BY FileSteps, SecretSteps, SecretEdits, TreeSteps, SeedSteps DEF UnitOnly
  <1> QED BY <1>1, UnitMovesTyped

-----------------------------------------------------------------------------
(* The types of the backups.                                               *)

StoredTyped ==
  /\ dir \subseteq Ids /\ file \in [Ids -> Contained]
  /\ selected \in Ids \cup {NoId} /\ selTmp \in Ids \cup {NoId}
  /\ made \subseteq Ids /\ cut \subseteq Ids /\ loose \subseteq Ids /\ met \subseteq Threads

LEMMA BackupParts == BackupsTypeOK <=> StoredTyped /\ req \in [Threads -> Requests]
  BY DEF BackupsTypeOK, StoredTyped, Contained, Requests

\* A request that is at something is about a backup.
Named(t) == pc[t] \in BackupPlaces => req[t].id \in Ids

UnitsTyped == TypeOK /\ \A t \in Threads : Named(t)

LEMMA RequestFields ==
  ASSUME UnitsTyped, NEW t \in Threads
  PROVE  /\ req[t] \in Requests /\ req[t].id \in Ids \cup {NoId}
         /\ req[t].content \in Contents \cup {Missing}
         /\ req[t].listed \subseteq Files \cup Tmps /\ req[t].saw \in Ids \cup {NoId}
         /\ pc[t] \in BackupPlaces => req[t].id \in Ids
  BY DEF UnitsTyped, Named, TypeOK, BackupsTypeOK, Requests

\* The stores, as the steps of a thread of typed state find them.
LEMMA Stored ==
  ASSUME UnitsTyped
  PROVE  /\ StoredTyped /\ StoresTyped /\ ops \in Nat
         /\ req \in [Threads -> Requests] /\ job \in [Threads -> Jobs]
         /\ pc \in [Threads -> UnitSteps \cup BackupPlaces]
  BY TypeParts, BackupParts DEF UnitsTyped, StoresTyped, TypeOK, BackupPlaces

LEMMA RequestWith ==
  ASSUME NEW r \in Requests
  PROVE  /\ \A b \in Ids : [r EXCEPT !.id = b] \in Requests /\ [r EXCEPT !.id = b].id = b
         /\ \A b \in Ids, c \in Contents :
              /\ [r EXCEPT !.id = b, !.content = c] \in Requests
              /\ [r EXCEPT !.id = b, !.content = c].id = b
              /\ [r EXCEPT !.id = b, !.content = c].content = c
         /\ \A b \in Ids, i \in Ids \cup {NoId} :
              /\ [r EXCEPT !.id = b, !.saw = i] \in Requests
              /\ [r EXCEPT !.id = b, !.saw = i].id = b /\ [r EXCEPT !.id = b, !.saw = i].saw = i
         /\ \A l \in SUBSET (Files \cup Tmps) :
              /\ [r EXCEPT !.listed = l] \in Requests
              /\ [r EXCEPT !.listed = l].id = r.id /\ [r EXCEPT !.listed = l].saw = r.saw
  BY DEF Requests

\* A step of t's on the backups: where t goes, with which request.
Serves(t, l, r) ==
  /\ pc' = [pc EXCEPT ![t] = l] /\ req' = [req EXCEPT ![t] = r]
  /\ l \in BackupPlaces \cup {"idle", "clear"} /\ r \in Requests
  /\ l \in BackupPlaces => r.id \in Ids

BackupMoves(t) ==
  (\E l, r : Serves(t, l, r)) /\ StoredTyped' /\ ops' \in Nat /\ UNCHANGED crashes

LEMMA ServesTyped ==
  ASSUME UnitsTyped, NEW t \in Threads, NEW l, NEW r, NEW j \in Jobs, Serves(t, l, r),
         job' = [job EXCEPT ![t] = j], StoredTyped', StoresTyped'
  PROVE  UnitsTyped'
  <1>1. ThreadsTyped'
    <2>1. l \in UnitSteps \cup BackupPlaces /\ l \notin {"verify", "close", "put"}
      BY DEF Serves, UnitSteps, BackupPlaces, Saving, Selecting, Deleting
    <2>2. ThreadsTyped /\ pc' = [pc EXCEPT ![t] = l]
      BY TypeParts DEF UnitsTyped, Serves
    <2> QED BY <2>1, <2>2, ThreadMoves
  <1>2. req' \in [Threads -> Requests]
    BY Stored DEF Serves
  <1>3. \A u \in Threads : Named(u)'
    <2> TAKE u \in Threads
    <2>1. pc'[u] = (IF u = t THEN l ELSE pc[u]) /\ req'[u] = (IF u = t THEN r ELSE req[u])
      BY Stored DEF Serves
    <2>2. Named(u)
      BY DEF UnitsTyped
    <2> QED BY <2>1, <2>2 DEF Named, Serves
  <1>4. (TypeOK <=> BackupsTypeOK /\ ThreadsTyped /\ StoresTyped)'
    BY TypeParts, PTL
  <1>5. (BackupsTypeOK <=> StoredTyped /\ req \in [Threads -> Requests])'
    BY BackupParts, PTL
  <1> QED BY <1>1, <1>2, <1>3, <1>4, <1>5 DEF UnitsTyped

LEMMA BackupMovesTyped ==
  ASSUME UnitsTyped, NEW t \in Threads, BackupMoves(t), UNCHANGED <<unit, bundle, job, marks>>
  PROVE  UnitsTyped'
  <1>1. PICK l, r : Serves(t, l, r)
    BY DEF BackupMoves
  <1>2. job' = [job EXCEPT ![t] = job[t]] /\ job[t] \in Jobs
    BY Stored
  <1>3. StoresTyped'
    BY Stored DEF BackupMoves, StoresTyped, unit, bundle, marks
  <1> QED BY <1>1, <1>2, <1>3, ServesTyped DEF BackupMoves

\* A thread's request ends, goes on as it is, or begins or goes on as r.
LEMMA Ends ==
  ASSUME UnitsTyped, NEW t \in Threads, Done(t) PROVE Serves(t, "idle", NoReq)
  BY NoReqTyped DEF Done, Goto, Serves, BackupPlaces, Saving, Selecting, Deleting

LEMMA Passes ==
  ASSUME UnitsTyped, NEW t \in Threads, NEW l \in BackupPlaces, pc[t] \in BackupPlaces, Pass(t, l)
  PROVE  Serves(t, l, req[t])
  BY Stored, RequestFields DEF Pass, Goto, Serves

LEMMA Asks ==
  ASSUME UnitsTyped, NEW t \in Threads, NEW l \in BackupPlaces, NEW r \in Requests, r.id \in Ids,
         Goto(t, l), req' = [req EXCEPT ![t] = r]
  PROVE  Serves(t, l, r)
  BY DEF Goto, Serves

\* One file is written, or moved over another.
Puts(b, f, x) ==
  \A c \in Ids, g \in Files \cup Tmps : file'[c][g] = IF c = b /\ g = f THEN x ELSE file[c][g]

Renames(b, tmp, f) ==
  \A c \in Ids, g \in Files \cup Tmps :
    file'[c][g] = IF c = b /\ g = tmp THEN Missing
                  ELSE IF c = b /\ g = f THEN file[b][tmp] ELSE file[c][g]

LEMMA FilePut ==
  ASSUME file \in [Ids -> Contained], NEW b \in Ids, NEW f \in Files \cup Tmps,
         NEW x \in Contents \cup {Missing}, file' = [file EXCEPT ![b][f] = x]
  PROVE  file' \in [Ids -> Contained] /\ Puts(b, f, x)
  BY DEF Contained, Puts

LEMMA FileMoved ==
  ASSUME file \in [Ids -> Contained], NEW b \in Ids, NEW f \in Files, NEW tmp \in Tmps,
         file' = [file EXCEPT ![b][f] = file[b][tmp], ![b][tmp] = Missing]
  PROVE  file' \in [Ids -> Contained] /\ Renames(b, tmp, f)
  <1> DEFINE x == file[b][tmp]
  <1>1. x \in Contents \cup {Missing}
    BY DEF Contained
  <1>2. f # tmp /\ f \in Files \cup Tmps /\ tmp \in Files \cup Tmps
    BY DEF Files, Tmps
  <1>3. file' = [file EXCEPT ![b] = [file[b] EXCEPT ![f] = x, ![tmp] = Missing]]
    OBVIOUS
  <1> HIDE DEF x
  <1>4. [file[b] EXCEPT ![f] = x, ![tmp] = Missing] \in Contained
    BY <1>1, <1>2 DEF Contained
  <1>5. Renames(b, tmp, f)
    <2>1. \A c \in Ids \ {b} : file'[c] = file[c]
      BY <1>3
    <2>2. file'[b] = [file[b] EXCEPT ![f] = x, ![tmp] = Missing]
      BY <1>3
    <2>3. \A g \in Files \cup Tmps :
            file'[b][g] = IF g = tmp THEN Missing ELSE IF g = f THEN x ELSE file[b][g]
      BY <2>2, <1>2 DEF Contained
    <2> QED BY <2>1, <2>3 DEF Renames, x
  <1> QED BY <1>3, <1>4, <1>5

-----------------------------------------------------------------------------
(* What each step on the backups does.                                     *)

LEMMA Places ==
  /\ {"mkdir", "write1", "rename1", "write2", "rename2"} = Saving
  /\ {"check", "write", "rename"} = Selecting /\ {"list", "unlink", "unselect"} = Deleting
  /\ Saving \cap Selecting = {} /\ Saving \cap Deleting = {} /\ Selecting \cap Deleting = {}
  /\ BackupPlaces = Saving \cup Selecting \cup Deleting
  /\ UnitPlaces \cap BackupPlaces = {} /\ "idle" \notin BackupPlaces /\ "clear" \notin BackupPlaces
  /\ "manifest" \in Files /\ "artifact" \in Files /\ Files \cap Tmps = {}
  /\ "manifest.tmp" \in Tmps /\ "artifact.tmp" \in Tmps
  /\ "manifest" # "artifact" /\ "manifest.tmp" # "artifact.tmp"
  BY DEF Saving, Selecting, Deleting, BackupPlaces, UnitPlaces, Files, Tmps

LEMMA UploadMoves ==
  ASSUME UnitsTyped, NEW b \in Ids, NEW c \in Contents, Upload(b, c)
  PROVE  /\ BackupMoves(Loop) /\ pc[Loop] = "idle"
         /\ Serves(Loop, "mkdir", [req[Loop] EXCEPT !.id = b, !.content = c])
  <1> DEFINE r == [req[Loop] EXCEPT !.id = b, !.content = c]
  <1>1. Loop \in Threads
    BY DEF Threads
  <1>2. r \in Requests /\ r.id = b
    BY <1>1, RequestFields DEF Requests
  <1>3. req' = [req EXCEPT ![Loop] = r] /\ Goto(Loop, "mkdir") /\ pc[Loop] = "idle"
    BY <1>1, Stored DEF Upload, Request, At
  <1> HIDE DEF r
  <1>4. Serves(Loop, "mkdir", r)
    BY <1>1, <1>2, <1>3, Asks, Places
  <1>5. StoredTyped' /\ ops' \in Nat /\ UNCHANGED crashes
    BY Stored DEF Upload, Request, StoredTyped, store, history
  <1> QED BY <1>3, <1>4, <1>5 DEF BackupMoves, r

LEMMA NodeMakesMoves ==
  ASSUME UnitsTyped, NEW t \in Threads, NEW b \in Ids, NEW c \in Contents, NodeMakes(t, b, c)
  PROVE  /\ BackupMoves(t) /\ pc[t] = "node"
         /\ Serves(t, "mkdir", [req[t] EXCEPT !.id = b, !.content = c])
  <1> DEFINE r == [req[t] EXCEPT !.id = b, !.content = c]
  <1>1. r \in Requests /\ r.id = b
    BY RequestFields DEF Requests
  <1>2. req' = [req EXCEPT ![t] = r] /\ Goto(t, "mkdir") /\ pc[t] = "node"
    BY Stored DEF NodeMakes, At
  <1> HIDE DEF r
  <1>3. Serves(t, "mkdir", r)
    BY <1>1, <1>2, Asks, Places
  <1>4. StoredTyped' /\ ops' \in Nat /\ UNCHANGED crashes
    BY Stored DEF NodeMakes, StoredTyped, store, history, counts
  <1> QED BY <1>2, <1>3, <1>4 DEF BackupMoves, r

LEMMA NodeFailsMoves ==
  ASSUME UnitsTyped, NEW t \in Threads, NodeFails(t)
  PROVE  BackupMoves(t) /\ pc[t] = "node" /\ Serves(t, "idle", NoReq)
  <1>1. Serves(t, "idle", NoReq)
    BY Ends DEF NodeFails
  <1>2. StoredTyped' /\ ops' \in Nat /\ UNCHANGED crashes
    BY Stored DEF NodeFails, StoredTyped, store, history, counts
  <1> QED BY <1>1, <1>2 DEF NodeFails, At, BackupMoves

LEMMA MakeDirMoves ==
  ASSUME UnitsTyped, NEW t \in Threads, MakeDir(t)
  PROVE  BackupMoves(t) /\ pc[t] = "mkdir" /\ Serves(t, "write1", req[t])
  <1>1. pc[t] = "mkdir" /\ Serves(t, "write1", req[t])
    BY Passes, Places DEF MakeDir, At
  <1>2. req[t].id \in Ids
    BY <1>1, RequestFields, Places
  <1>3. StoredTyped' /\ ops' \in Nat /\ UNCHANGED crashes
    BY <1>2, Stored DEF MakeDir, StoredTyped, history, counts
  <1> QED BY <1>1, <1>3 DEF BackupMoves

\* A save that fails.
Breaks(t) == Serves(t, "idle", NoReq) /\ file' = file /\ cut' = cut \cup {req[t].id}

LEMMA WriteTmpMoves ==
  ASSUME UnitsTyped, NEW t \in Threads, NEW here \in Saving, NEW tmp \in Tmps, NEW there \in Saving,
         WriteTmp(t, here, tmp, there)
  PROVE  /\ BackupMoves(t) /\ pc[t] = here /\ req[t].id \in Ids
         /\ \/ Breaks(t)
            \/ /\ Serves(t, there, req[t]) /\ cut' = cut
               /\ Puts(req[t].id, tmp, req[t].content)
  <1>1. pc[t] = here /\ req[t].id \in Ids
    BY RequestFields, Places DEF WriteTmp, At
  <1>2. CASE req[t].id \in dir
    <2>1. Serves(t, there, req[t])
      BY <1>1, <1>2, Passes, Places DEF WriteTmp
    <2>2. file' \in [Ids -> Contained] /\ Puts(req[t].id, tmp, req[t].content)
      <3>1. file' = [file EXCEPT ![req[t].id][tmp] = req[t].content] /\ file \in [Ids -> Contained]
        BY <1>2, Stored DEF WriteTmp, StoredTyped
      <3>2. req[t].content \in Contents \cup {Missing}
        BY RequestFields
      <3> QED BY <1>1, <3>1, <3>2, FilePut
    <2>3. StoredTyped' /\ ops' \in Nat /\ UNCHANGED crashes
      BY <1>2, <2>2, Stored DEF WriteTmp, StoredTyped, counts
    <2> QED BY <1>1, <1>2, <2>1, <2>2, <2>3 DEF BackupMoves, WriteTmp
  <1>3. CASE req[t].id \notin dir
    <2>1. Breaks(t)
      BY <1>3, Ends DEF WriteTmp, Break, Breaks
    <2>2. StoredTyped' /\ ops' \in Nat /\ UNCHANGED crashes
      BY <1>1, <1>3, Stored DEF WriteTmp, Break, StoredTyped, counts
    <2> QED BY <1>1, <2>1, <2>2 DEF BackupMoves, Breaks
  <1> QED BY <1>2, <1>3

LEMMA InstallMoves ==
  ASSUME UnitsTyped, NEW t \in Threads, NEW here \in Saving, NEW tmp \in Tmps, NEW f \in Files,
         NEW there \in Saving \cup {"idle"}, Install(t, here, tmp, f, there)
  PROVE  /\ BackupMoves(t) /\ pc[t] = here /\ req[t].id \in Ids
         /\ \/ Breaks(t)
            \/ /\ file[req[t].id][tmp] # Missing
               /\ Serves(t, there, IF there = "idle" THEN NoReq ELSE req[t]) /\ cut' = cut
               /\ Renames(req[t].id, tmp, f)
  <1>1. pc[t] = here /\ req[t].id \in Ids
    BY RequestFields, Places DEF Install, At
  <1>2. CASE file[req[t].id][tmp] # Missing
    <2>1. Serves(t, there, IF there = "idle" THEN NoReq ELSE req[t])
      <3>1. CASE there = "idle"
        BY <1>2, <3>1, Ends DEF Install, Then
      <3>2. CASE there # "idle"
        BY <1>1, <1>2, <3>2, Passes, Places DEF Install, Then
      <3> QED BY <3>1, <3>2
    <2>2. file' \in [Ids -> Contained] /\ Renames(req[t].id, tmp, f)
      BY <1>1, <1>2, Stored, FileMoved DEF Install, StoredTyped
    <2>3. StoredTyped' /\ ops' \in Nat /\ UNCHANGED crashes
      BY <1>2, <2>2, Stored DEF Install, StoredTyped, counts
    <2> QED BY <1>1, <1>2, <2>1, <2>2, <2>3 DEF BackupMoves, Install
  <1>3. CASE file[req[t].id][tmp] = Missing
    <2>1. Breaks(t)
      BY <1>3, Ends DEF Install, Break, Breaks
    <2>2. StoredTyped' /\ ops' \in Nat /\ UNCHANGED crashes
      BY <1>1, <1>3, Stored DEF Install, Break, StoredTyped, counts
    <2> QED BY <1>1, <2>1, <2>2 DEF BackupMoves, Breaks
  <1> QED BY <1>2, <1>3

LEMMA SelectMoves ==
  ASSUME UnitsTyped, NEW t \in Threads, NEW b \in Ids, Select(t, b)
  PROVE  BackupMoves(t) /\ pc[t] = "idle" /\ Serves(t, "check", [req[t] EXCEPT !.id = b])
  <1> DEFINE r == [req[t] EXCEPT !.id = b]
  <1>1. r \in Requests /\ r.id = b
    BY RequestFields DEF Requests
  <1>2. req' = [req EXCEPT ![t] = r] /\ Goto(t, "check") /\ pc[t] = "idle"
    BY Stored DEF Select, Request, At
  <1> HIDE DEF r
  <1>3. Serves(t, "check", r)
    BY <1>1, <1>2, Asks, Places
  <1>4. StoredTyped' /\ ops' \in Nat /\ UNCHANGED crashes
    BY Stored DEF Select, Request, StoredTyped, store, history
  <1> QED BY <1>2, <1>3, <1>4 DEF BackupMoves, r

LEMMA CheckMoves ==
  ASSUME UnitsTyped, NEW t \in Threads, Check(t)
  PROVE  /\ BackupMoves(t) /\ pc[t] = "check" /\ req[t].id \in Ids
         /\ \/ Serves(t, "write", req[t]) /\ file[req[t].id]["artifact"] # Missing
            \/ Serves(t, "idle", NoReq)
  <1>1. pc[t] = "check" /\ req[t].id \in Ids
    BY RequestFields, Places DEF Check, At
  <1>2. \/ Serves(t, "write", req[t]) /\ file[req[t].id]["artifact"] # Missing
        \/ Serves(t, "idle", NoReq)
    BY <1>1, Ends, Passes, Places DEF Check, Then
  <1>3. StoredTyped' /\ ops' \in Nat /\ UNCHANGED crashes
    BY <1>1, Stored DEF Check, StoredTyped, store, counts
  <1> QED BY <1>1, <1>2, <1>3 DEF BackupMoves

LEMMA WriteSelectionMoves ==
  ASSUME UnitsTyped, NEW t \in Threads, WriteSelection(t)
  PROVE  /\ BackupMoves(t) /\ pc[t] = "write" /\ req[t].id \in Ids
         /\ Serves(t, "rename", req[t])
  <1>1. pc[t] = "write" /\ req[t].id \in Ids
    BY RequestFields, Places DEF WriteSelection, At
  <1>2. Serves(t, "rename", req[t])
    BY <1>1, Passes, Places DEF WriteSelection
  <1>3. StoredTyped' /\ ops' \in Nat /\ UNCHANGED crashes
    BY <1>1, Stored DEF WriteSelection, StoredTyped, store, history, counts
  <1> QED BY <1>1, <1>2, <1>3 DEF BackupMoves

LEMMA InstallSelectionMoves ==
  ASSUME UnitsTyped, NEW t \in Threads, InstallSelection(t)
  PROVE  BackupMoves(t) /\ pc[t] = "rename" /\ Serves(t, "idle", NoReq)
  <1>1. Serves(t, "idle", NoReq)
    BY Ends DEF InstallSelection
  <1>2. StoredTyped' /\ ops' \in Nat /\ UNCHANGED crashes
    BY Stored DEF InstallSelection, StoredTyped, store, counts
  <1> QED BY <1>1, <1>2 DEF InstallSelection, At, BackupMoves

LEMMA ClearMoves ==
  ASSUME UnitsTyped, NEW t \in Threads, ClearRequest(t) \/ Clear(t)
  PROVE  /\ BackupMoves(t)
         /\ ClearRequest(t) => pc[t] = "idle" /\ Serves(t, "clear", req[t])
         /\ Clear(t) => pc[t] \in {"clear", "unselect"} /\ Serves(t, "idle", NoReq)
  <1>1. CASE ClearRequest(t)
    <2>1. pc[t] = "idle" /\ Serves(t, "clear", req[t])
      BY <1>1, Stored, RequestFields, Places DEF ClearRequest, Request, At, Goto, Serves
    <2>2. StoredTyped' /\ ops' \in Nat /\ UNCHANGED crashes
      BY <1>1, Stored DEF ClearRequest, Request, StoredTyped, store, history
    <2>3. ~Clear(t)
      BY <2>1 DEF Clear
    <2> QED BY <2>1, <2>2, <2>3 DEF BackupMoves
  <1>2. CASE Clear(t)
    <2>1. pc[t] \in {"clear", "unselect"} /\ Serves(t, "idle", NoReq)
      BY <1>2, Ends DEF Clear
    <2>2. StoredTyped' /\ ops' \in Nat /\ UNCHANGED crashes
      BY <1>2, Stored DEF Clear, StoredTyped, store, counts
    <2>3. ~ClearRequest(t)
      BY <2>1 DEF ClearRequest, Request, At
    <2> QED BY <2>1, <2>2, <2>3 DEF BackupMoves
  <1> QED BY <1>1, <1>2

LEMMA DeleteMoves ==
  ASSUME UnitsTyped, NEW t \in Threads, NEW b \in Ids, Delete(t, b)
  PROVE  /\ BackupMoves(t) /\ pc[t] = "idle"
         /\ Serves(t, "list", [req[t] EXCEPT !.id = b, !.saw = selected])
  <1> DEFINE r == [req[t] EXCEPT !.id = b, !.saw = selected]
  <1>1. r \in Requests /\ r.id = b
    BY RequestFields, Stored DEF Requests, StoredTyped
  <1>2. req' = [req EXCEPT ![t] = r] /\ Goto(t, "list") /\ pc[t] = "idle"
    BY Stored DEF Delete, Request, At
  <1> HIDE DEF r
  <1>3. Serves(t, "list", r)
    BY <1>1, <1>2, Asks, Places
  <1>4. StoredTyped' /\ ops' \in Nat /\ UNCHANGED crashes
    BY Stored DEF Delete, Request, StoredTyped, store
  <1> QED BY <1>2, <1>3, <1>4 DEF BackupMoves, r

\* A delete that fails.
Raises(t) ==
  Serves(t, "idle", NoReq) /\ loose' = loose \cup {req[t].id} /\ met' = met \ {t}

LEMMA ListMoves ==
  ASSUME UnitsTyped, NEW t \in Threads, List(t)
  PROVE  /\ BackupMoves(t) /\ pc[t] = "list" /\ req[t].id \in Ids
         /\ \/ Raises(t)
            \/ /\ UNCHANGED <<loose, met>>
               /\ Serves(t, "unlink", [req[t] EXCEPT !.listed = Has(req[t].id)])
  <1>1. pc[t] = "list" /\ req[t].id \in Ids
    BY RequestFields, Places DEF List, At
  <1>2. CASE req[t].id \in dir
    <2> DEFINE r == [req[t] EXCEPT !.listed = Has(req[t].id)]
    <2>1. r \in Requests /\ r.id = req[t].id
      BY RequestFields DEF Requests, Has
    <2>2. req' = [req EXCEPT ![t] = r] /\ Goto(t, "unlink")
      BY <1>2, Stored DEF List
    <2> HIDE DEF r
    <2>3. Serves(t, "unlink", r)
      BY <1>1, <2>1, <2>2, Asks, Places
    <2>4. StoredTyped' /\ ops' \in Nat /\ UNCHANGED crashes
      BY <1>2, Stored DEF List, StoredTyped, store, counts
    <2> QED BY <1>1, <1>2, <2>3, <2>4 DEF BackupMoves, List, r
  <1>3. CASE req[t].id \notin dir
    <2>1. Raises(t)
      BY <1>3, Ends DEF List, Raise, Raises
    <2>2. StoredTyped' /\ ops' \in Nat /\ UNCHANGED crashes
      BY <1>1, <1>3, Stored DEF List, Raise, StoredTyped, store, counts
    <2> QED BY <1>1, <2>1, <2>2 DEF BackupMoves, Raises
  <1> QED BY <1>2, <1>3

LEMMA UnlinkMoves ==
  ASSUME UnitsTyped, NEW t \in Threads, NEW f \in Files \cup Tmps, Unlink(t, f)
  PROVE  /\ BackupMoves(t) /\ pc[t] = "unlink" /\ req[t].id \in Ids
         /\ Puts(req[t].id, f, Missing)
         /\ \/ Raises(t)
            \/ /\ UNCHANGED <<loose, met>>
               /\ Serves(t, "unlink", [req[t] EXCEPT !.listed = @ \ {f}])
  <1>1. pc[t] = "unlink" /\ req[t].id \in Ids
    BY RequestFields, Places DEF Unlink, At
  <1>2. file' \in [Ids -> Contained] /\ Puts(req[t].id, f, Missing)
    BY <1>1, Stored, FilePut DEF Unlink, StoredTyped
  <1>3. CASE UNCHANGED <<pc, loose, met>> /\ req' = [req EXCEPT ![t].listed = @ \ {f}]
    <2> DEFINE r == [req[t] EXCEPT !.listed = @ \ {f}]
    <2>1. r \in Requests /\ r.id = req[t].id
      BY RequestFields DEF Requests
    <2>2. req' = [req EXCEPT ![t] = r] /\ Goto(t, "unlink")
      BY <1>1, <1>3, Stored DEF Goto
    <2> HIDE DEF r
    <2>3. Serves(t, "unlink", r)
      BY <1>1, <2>1, <2>2, Asks, Places
    <2>4. StoredTyped' /\ ops' \in Nat /\ UNCHANGED crashes
      BY <1>2, <1>3, Stored DEF Unlink, StoredTyped, counts
    <2> QED BY <1>1, <1>2, <1>3, <2>3, <2>4 DEF BackupMoves, r
  <1>4. CASE Raise(t)
    <2>1. Raises(t)
      BY <1>4, Ends DEF Raise, Raises
    <2>2. StoredTyped' /\ ops' \in Nat /\ UNCHANGED crashes
      BY <1>1, <1>2, <1>4, Stored DEF Unlink, Raise, StoredTyped, counts
    <2> QED BY <1>1, <1>2, <2>1, <2>2 DEF BackupMoves, Raises
  <1> QED BY <1>3, <1>4 DEF Unlink

LEMMA RemoveDirMoves ==
  ASSUME UnitsTyped, NEW t \in Threads, RemoveDir(t)
  PROVE  /\ BackupMoves(t) /\ pc[t] = "unlink" /\ req[t].id \in Ids
         /\ \/ Raises(t)
            \/ /\ req[t].saw = req[t].id /\ UNCHANGED <<loose, met>>
               /\ Serves(t, "unselect", req[t])
            \/ /\ req[t].saw # req[t].id /\ UNCHANGED loose /\ met' = met \ {t}
               /\ Serves(t, "idle", NoReq)
  <1>1. pc[t] = "unlink" /\ req[t].id \in Ids
    BY RequestFields, Places DEF RemoveDir, At
  <1>2. CASE Raise(t)
    <2>1. Raises(t)
      BY <1>2, Ends DEF Raise, Raises
    <2>2. StoredTyped' /\ ops' \in Nat /\ UNCHANGED crashes
      BY <1>1, <1>2, Stored DEF RemoveDir, Raise, StoredTyped, counts
    <2> QED BY <1>1, <2>1, <2>2 DEF BackupMoves, Raises
  <1>3. CASE ~Raise(t)
    <2>1. StoredTyped' /\ ops' \in Nat /\ UNCHANGED crashes
      BY <1>1, <1>3, Stored DEF RemoveDir, StoredTyped, counts
    <2>2. \/ /\ req[t].saw = req[t].id /\ UNCHANGED <<loose, met>>
             /\ Serves(t, "unselect", req[t])
          \/ /\ req[t].saw # req[t].id /\ UNCHANGED loose /\ met' = met \ {t}
             /\ Serves(t, "idle", NoReq)
      BY <1>1, <1>3, Ends, Passes, Places DEF RemoveDir
    <2> QED BY <1>1, <2>1, <2>2 DEF BackupMoves
  <1> QED BY <1>2, <1>3

-----------------------------------------------------------------------------
(* Every step keeps the types.                                             *)

LEMMA UnitOnlyTyped ==
  ASSUME UnitsTyped, NEW t \in Threads, UnitOnly(t) PROVE UnitsTyped'
  <1>1. UnitMoves(t) /\ TypeOK'
    BY UnitOnlyMoves DEF UnitsTyped
  <1>2. \A u \in Threads : Named(u)'
    <2> TAKE u \in Threads
    <2>1. PICK l, j : Moves(t, l, j)
      BY <1>1 DEF UnitMoves
    <2>2. req' = req /\ pc'[u] = (IF u = t THEN l ELSE pc[u]) /\ l \notin BackupPlaces
      BY <1>1, <2>1, Stored, Places DEF UnitMoves, Moves, backups
    <2> QED BY <2>2 DEF Named, UnitsTyped
  <1> QED BY <1>1, <1>2 DEF UnitsTyped

LEMMA BackupStepMoves ==
  ASSUME UnitsTyped, NEW t \in Threads, BackupStep(t) PROVE BackupMoves(t)
  <1>1. Save(t) => BackupMoves(t)
    BY MakeDirMoves, WriteTmpMoves, InstallMoves, Places DEF Save
  <1>2. ClearRequest(t) \/ Clear(t) => BackupMoves(t)
    BY ClearMoves
  <1>3. \A b \in Ids : Select(t, b) \/ Delete(t, b) => BackupMoves(t)
    BY SelectMoves, DeleteMoves
  <1>4. Check(t) \/ WriteSelection(t) \/ InstallSelection(t) => BackupMoves(t)
    BY CheckMoves, WriteSelectionMoves, InstallSelectionMoves
  <1>5. List(t) \/ RemoveDir(t) \/ (\E f \in Files \cup Tmps : Unlink(t, f)) => BackupMoves(t)
    BY ListMoves, UnlinkMoves, RemoveDirMoves
  <1> QED BY <1>1, <1>2, <1>3, <1>4, <1>5 DEF BackupStep

LEMMA BackupsTyped ==
  ASSUME UnitsTyped, Backups PROVE UnitsTyped'
  <1>1. \E t \in Threads : BackupMoves(t)
    BY UploadMoves, BackupStepMoves DEF Backups, Threads, BackupStep
  <1> QED BY <1>1, BackupMovesTyped DEF Backups

LEMMA NodeTyped ==
  ASSUME UnitsTyped, NEW t \in Threads,
         NodeRefuses(t) \/ \E b \in Ids, c \in Contents : NodeBacksUp(t, b, c)
  PROVE  UnitsTyped'
  <1>1. BackupMoves(t) /\ job' = [job EXCEPT ![t] = NoJob] /\ UNCHANGED <<unit, bundle, marks>>
    BY NodeFailsMoves, NodeMakesMoves DEF NodeRefuses, NodeBacksUp
  <1>2. PICK l, r : Serves(t, l, r)
    BY <1>1 DEF BackupMoves
  <1>3. StoresTyped'
    BY <1>1, Stored DEF BackupMoves, StoresTyped, unit, bundle, marks
  <1> QED BY <1>1, <1>2, <1>3, NoJobTyped, ServesTyped DEF BackupMoves

LEMMA DeleteUnitTyped ==
  ASSUME UnitsTyped, NEW t \in Threads, DeleteUnit(t) PROVE UnitsTyped'
  <1>1. Serves(t, "idle", req[t])
    BY Stored, RequestFields, Places DEF DeleteUnit, Request, Goto, LoseBackups, Serves
  <1>2. job' = [job EXCEPT ![t] = job[t]] /\ job[t] \in Jobs
    BY Stored DEF DeleteUnit
  <1>3. StoredTyped'
    <2>1. {req[u].id : u \in {v \in Threads : pc[v] \in Deleting \cup Selecting}} \subseteq Ids
      BY RequestFields, Places
    <2>2. [b \in Ids |-> [f \in Files \cup Tmps |-> Missing]] \in [Ids -> Contained]
      BY DEF Contained
    <2> QED BY <2>1, <2>2, Stored DEF DeleteUnit, LoseBackups, StoredTyped
  <1>4. StoresTyped'
    <2>1. conf' \in [Keys -> Settings]
      BY DEF DeleteUnit, NoText, Settings
    <2>2. secret' \in 0..issued' /\ issued' \in Nat /\ era' \in Nat /\ ops' \in Nat
      BY Stored DEF DeleteUnit, Request, StoresTyped, NoSecret
    <2>3. late' \subseteq Threads /\ behind' \subseteq Threads
      BY Stored DEF DeleteUnit, StoresTyped
    <2> QED BY <2>1, <2>2, <2>3, Stored DEF DeleteUnit, StoresTyped, bundle
  <1> QED BY <1>1, <1>2, <1>3, <1>4, ServesTyped

LEMMA RestartTyped ==
  ASSUME UnitsTyped, Restart PROVE UnitsTyped'
  <1>1. StoredTyped'
    <2>1. {req[t].id : t \in {u \in Threads : pc[u] \in Saving}} \subseteq Ids
      BY RequestFields, Places
    <2>2. {req[t].id : t \in {u \in Threads : pc[u] \in Deleting}} \subseteq Ids
      BY RequestFields, Places
    <2> QED BY <2>1, <2>2, Stored DEF Restart, CutBackups, StoredTyped, store
  <1>2. StoresTyped'
    BY Stored DEF Restart, StoresTyped, unit, bundle
  <1>3. ThreadsTyped'
    BY NoJobTyped DEF Restart, ThreadsTyped, JobTyped, UnitSteps
  <1>4. req' \in [Threads -> Requests]
    BY NoReqTyped DEF Restart, CutBackups
  <1>5. \A t \in Threads : Named(t)'
    BY Places DEF Restart, Named
  <1>6. (TypeOK <=> BackupsTypeOK /\ ThreadsTyped /\ StoresTyped)'
    BY TypeParts, PTL
  <1>7. (BackupsTypeOK <=> StoredTyped /\ req \in [Threads -> Requests])'
    BY BackupParts, PTL
  <1> QED BY <1>1, <1>2, <1>3, <1>4, <1>5, <1>6, <1>7 DEF UnitsTyped

LEMMA BootTyped ==
  ASSUME UnitsTyped, Boot PROVE UnitsTyped'
  <1>1. StoresTyped'
    BY Stored DEF Boot, StoresTyped, counts, unit, marks
  <1>2. ThreadsTyped'
    BY TypeParts DEF UnitsTyped, Boot, ThreadsTyped, JobTyped
  <1>3. BackupsTypeOK' /\ \A t \in Threads : Named(t)'
    BY DEF UnitsTyped, TypeOK, Boot, BackupsTypeOK, Named, backups, store, history
  <1>4. (TypeOK <=> BackupsTypeOK /\ ThreadsTyped /\ StoresTyped)'
    BY TypeParts, PTL
  <1> QED BY <1>1, <1>2, <1>3, <1>4 DEF UnitsTyped

LEMMA StutterTyped ==
  ASSUME UnitsTyped, UNCHANGED vars PROVE UnitsTyped'
  <1>1. TypeOK'
    BY DEF UnitsTyped, TypeOK, BackupsTypeOK, vars, backups, counts, unit, bundle, marks, store,
           history
  <1>2. \A t \in Threads : Named(t)'
    BY DEF UnitsTyped, Named, vars, backups
  <1> QED BY <1>1, <1>2 DEF UnitsTyped

LEMMA InitUnits == Init => UnitsTyped
  <1>1. Init => \A t \in Threads : Named(t)
    BY Places DEF Init, BackupsInit, Named
  <1> QED BY <1>1, InitTyped DEF UnitsTyped

LEMMA NextUnits == UnitsTyped /\ [Next]_vars => UnitsTyped'
  BY NextCases, UnitOnlyTyped, BackupsTyped, NodeTyped, DeleteUnitTyped, RestartTyped,
     BootTyped, StutterTyped DEF Threads

(* Every variable of a unit keeps its type, a thread that verifies or      *)
(* writes a bundle has a tree to do it with, and one that is at a backup   *)
(* knows which: the requests of units_state.py and bundles.py.             *)
THEOREM UnitsTypes == Spec => []TypeOK
  <1>1. UnitsTyped => TypeOK
    BY DEF UnitsTyped
  <1> QED BY <1>1, InitUnits, NextUnits, PTL DEF Spec

-----------------------------------------------------------------------------
(* The secret and the bundle: the steps that matter to them, and Quiet for *)
(* all the others.  Replaces is what an operator does to the secret.       *)
Hot == {"generate", "read", "verify", "close"}

Quiet ==
  /\ UNCHANGED <<secret, bundle, era, late, spoiled>>
  /\ \A u \in Threads : /\ pc'[u] \in Hot => pc'[u] = pc[u] /\ job'[u] = job[u]
                        /\ pc[u] = "close" => pc'[u] = "close"

Quietly(t, l) ==
  /\ pc' = [pc EXCEPT ![t] = l] /\ l \notin Hot /\ pc[t] # "close"
  /\ \A u \in Threads \ {t} : job'[u] = job[u]
  /\ UNCHANGED <<secret, bundle, era, late, spoiled>>

Replaces ==
  /\ pc' = pc /\ job' = job /\ UNCHANGED <<bundle, spoiled>>
  /\ era' = era + 1 \/ (era' = era /\ secret' = secret)
  /\ \A u \in Threads : pc[u] = "generate" /\ u \notin late' => secret' = NoSecret

LEMMA Replacing ==
  ASSUME UnitsTyped
  PROVE  /\ \A t \in Threads : DeleteUnit(t) \/ DeleteSecret(t) => Replaces
         /\ \A s \in Nat : SaveSecret(s) => Replaces
  <1>1. pc \in [Threads -> UnitSteps \cup BackupPlaces] /\ Loop \in Threads
    BY Stored DEF Threads
  <1>2. ASSUME NEW t \in Threads, DeleteUnit(t) \/ DeleteSecret(t) PROVE Replaces
    BY <1>1, <1>2 DEF DeleteUnit, DeleteSecret, Request, At, Goto, Replaces
  <1>3. ASSUME NEW s \in Nat, SaveSecret(s) PROVE Replaces
    <2>1. pc' = pc /\ job' = job /\ UNCHANGED <<bundle, spoiled>>
      BY <1>1, <1>3 DEF SaveSecret, Request, At, Goto
    <2>2. \A u \in Threads : pc[u] = "generate" /\ u \notin late' => secret' = NoSecret
      BY <1>3 DEF SaveSecret, At
    <2> QED BY <1>3, <2>1, <2>2 DEF SaveSecret, Replaces
  <1> QED BY <1>2, <1>3

LEMMA QuietlyQuiet ==
  ASSUME UnitsTyped, NEW t \in Threads, NEW l, Quietly(t, l) PROVE Quiet
  BY Stored DEF Quietly, Quiet, Hot

LEMMA QuietUnit ==
  ASSUME UnitsTyped, NEW t \in Threads, UnitOnly(t)
  PROVE  Quiet \/ Replaces \/ FindSecret(t) \/ Generate(t)
         \/ Materialize(t) \/ OpenArchive(t) \/ CloseArchive(t)
  <1>1. job \in [Threads -> Jobs] /\ pc \in [Threads -> UnitSteps \cup BackupPlaces]
    BY Stored
  <1> USE DEF Hot
  <1>2. t = Loop /\ Create => Quietly(t, "record")
    BY <1>1 DEF Create, Begin, Request, At, Goto, Quietly, unit, marks
  <1>3. t = Loop /\ WriteRecord => Quietly(t, "seed")
    BY <1>1 DEF WriteRecord, At, Goto, Quietly, marks
  <1>4. ASSUME NEW f \in Confs, t = Loop, SeedNew(f) PROVE \E l : Quietly(t, l)
    <2> DEFINE l == IF job[Loop].left \subseteq KeysOf(f) THEN "ensure" ELSE "seed"
    <2>1. Quietly(t, l)
      BY <1>1, <1>4 DEF SeedNew, At, Goto, Quietly
    <2> QED BY <2>1
  <1>5. ASSUME NEW f \in Confs, NEW w \in Texts(f), t = Loop, SaveFile(f, w)
        PROVE  Quietly(t, "idle")
    BY <1>1, <1>5 DEF SaveFile, Request, At, Goto, Quietly
  <1>6. ASSUME NEW do, Start(t, do) PROVE Quietly(t, "ensure")
    BY <1>1, <1>6 DEF Start, Begin, Request, At, Goto, Quietly, unit, marks
  <1>7. Refuse(t) => Quietly(t, "idle")
    BY <1>1 DEF Refuse, Finish, At, Goto, Quietly, unit, marks
  <1>8. Ready(t) => Quietly(t, "ensure")
    BY <1>1 DEF Ready, At, Goto, Quietly, unit, marks
  <1>9. Plan(t) => Quietly(t, "merge")
    BY <1>1 DEF Plan, At, Goto, Quietly, unit, marks
  <1>10. Put(t) => Quietly(t, "merge")
    BY <1>1 DEF Put, At, Goto, Quietly
  <1>11. Seeded(t) => Quietly(t, "ensure")
    BY <1>1 DEF Seeded, At, Goto, Quietly, unit, marks
  <1>12. Report(t) => Quietly(t, "idle")
    BY <1>1 DEF Report, Finish, At, Goto, Quietly, unit, marks
  <1>13. ASSUME NEW f \in Confs, DeleteFile(t, f) PROVE Quietly(t, "idle")
    BY <1>1, <1>13 DEF DeleteFile, Request, At, Goto, Quietly
  <1>14. ASSUME NEW f \in Confs, Merge(t, f) PROVE Quietly(t, "put") \/ Quietly(t, "merge")
    BY <1>1, <1>14 DEF Merge, At, Goto, Quietly, unit
  <1>15. DeleteSecret(t) => Replaces
    BY Replacing
  <1>16. ASSUME NEW s \in 0..(issued + 1), SaveSecret(s) PROVE Replaces
    <2>1. s \in Nat
      BY Stored DEF StoresTyped
    <2> QED BY <1>16, <2>1, Replacing
  <1> QED BY <1>2, <1>3, <1>4, <1>5, <1>6, <1>7, <1>8, <1>9, <1>10, <1>11, <1>12, <1>13, <1>14,
             <1>15, <1>16, QuietlyQuiet DEF UnitOnly

LEMMA QuietBackups ==
  ASSUME UnitsTyped, NEW t \in Threads, BackupMoves(t), pc[t] \notin Hot,
         \A u \in Threads \ {t} : job'[u] = job[u],
         UNCHANGED <<unit, bundle, marks>>
  PROVE  Quiet
  <1>1. PICK l, r : Serves(t, l, r)
    BY DEF BackupMoves
  <1>2. Quietly(t, l)
    BY <1>1, Places DEF Serves, Quietly, Hot, unit, marks, UnitPlaces
  <1> QED BY <1>2, QuietlyQuiet

\* Where a step on the backups begins.
LEMMA BackupFrom ==
  ASSUME UnitsTyped, NEW t \in Threads, BackupStep(t)
  PROVE  pc[t] \in BackupPlaces \cup {"idle", "clear"}
  <1>1. Save(t) => pc[t] \in Saving
    BY DEF Save, MakeDir, WriteTmp, Install, At, Saving
  <1>2. BackupStep(t) /\ ~Save(t) => pc[t] \in Selecting \cup Deleting \cup {"idle", "clear"}
    BY DEF BackupStep, ClearRequest, Clear, Select, Delete, Check, WriteSelection,
           InstallSelection, List, Unlink, RemoveDir, Request, At, Selecting, Deleting
  <1> QED BY <1>1, <1>2, Places

LEMMA QuietCases ==
  ASSUME UnitsTyped, [Next]_vars
  PROVE  \/ Quiet \/ Boot \/ Restart \/ Replaces
         \/ \E t \in Threads : \/ FindSecret(t) \/ Generate(t) \/ Materialize(t)
                               \/ OpenArchive(t) \/ CloseArchive(t)
  <1>1. Pool \subseteq Threads /\ Loop \in Threads
    BY DEF Threads
  <1>2. Backups => Quiet
    <2>1. ASSUME NEW b \in Ids, NEW c \in Contents, Upload(b, c), Backups PROVE Quiet
      BY <1>1, <2>1, UploadMoves, QuietBackups DEF Backups, Hot
    <2>2. ASSUME NEW t \in Threads, BackupStep(t), Backups PROVE Quiet
      <3>1. pc[t] \notin Hot
        BY <2>2, BackupFrom, Places DEF Hot, UnitPlaces
      <3> QED BY <2>2, <3>1, BackupStepMoves, QuietBackups DEF Backups
    <2> QED BY <1>1, <2>1, <2>2 DEF Backups, BackupStep
  <1>3. ASSUME NEW t \in Threads,
               NodeRefuses(t) \/ \E b \in Ids, c \in Contents : NodeBacksUp(t, b, c)
        PROVE  Quiet
    <2>1. BackupMoves(t) /\ pc[t] = "node"
      BY <1>3, NodeFailsMoves, NodeMakesMoves DEF NodeRefuses, NodeBacksUp
    <2>2. UNCHANGED <<unit, bundle, marks>> /\ \A u \in Threads \ {t} : job'[u] = job[u]
      BY <1>3, Stored DEF NodeRefuses, NodeBacksUp
    <2> QED BY <2>1, <2>2, QuietBackups DEF Hot
  <1>4. UNCHANGED vars => Quiet
    BY DEF vars, unit, marks, Quiet
  <1> QED BY <1>1, <1>2, <1>3, <1>4, NextCases, QuietUnit, Replacing

Others(t) == \A u \in Threads \ {t} : pc'[u] = pc[u] /\ job'[u] = job[u]

LEMMA Finds ==
  ASSUME UnitsTyped, NEW t \in Threads, FindSecret(t)
  PROVE  /\ Others(t) /\ pc[t] = "ensure" /\ UNCHANGED <<secret, bundle, era, late, spoiled>>
         /\ \/ secret = NoSecret /\ pc'[t] = "generate"
            \/ /\ secret # NoSecret /\ pc'[t] \in {"idle", "node", "read"}
               /\ pc'[t] = "read" => job'[t].era = era
  <1>1. job \in [Threads -> Jobs] /\ pc \in [Threads -> UnitSteps \cup BackupPlaces]
    BY Stored
  <1>2. pc[t] = "ensure" /\ UNCHANGED <<secret, bundle, era, late, spoiled>>
    BY DEF FindSecret, At, unit, marks
  <1>3. CASE secret = NoSecret
    BY <1>1, <1>2, <1>3 DEF FindSecret, Goto, Others
  <1>4. CASE secret # NoSecret
    <2>1. secret \in Nat /\ era \in Nat /\ Secured(t, secret, era)
      BY <1>4, Stored DEF StoresTyped, FindSecret
    <2>2. \/ Moves(t, "idle", NoJob)
          \/ Moves(t, "node", [job[t] EXCEPT !.own = secret, !.era = era])
          \/ Moves(t, "read", [job[t] EXCEPT !.own = secret, !.era = era])
      BY <2>1, SecuredMoves DEF UnitsTyped
    <2>3. [job[t] EXCEPT !.own = secret, !.era = era].era = era
      BY <1>1 DEF Jobs
    <2>4. Others(t) /\ pc'[t] \in {"idle", "node", "read"} /\ (pc'[t] = "read" => job'[t].era = era)
      BY <1>1, <2>2, <2>3 DEF Moves, Others
    <2> QED BY <1>2, <1>4, <2>4
  <1> QED BY <1>3, <1>4

LEMMA Generates ==
  ASSUME UnitsTyped, NEW t \in Threads, Generate(t)
  PROVE  /\ Others(t) /\ pc[t] = "generate" /\ UNCHANGED <<bundle, spoiled>>
         /\ secret' \in Nat \ {NoSecret}
         /\ era' = IF t \in late THEN era + 1 ELSE era
         /\ late' = {u \in Threads \ {t} : At(u, "generate")}
         /\ pc'[t] \in {"idle", "node", "read"}
         /\ pc'[t] = "read" => job'[t].era = era'
  <1>1. job \in [Threads -> Jobs] /\ pc \in [Threads -> UnitSteps \cup BackupPlaces]
    BY Stored
  <1>2. issued + 1 \in Nat /\ issued + 1 # NoSecret /\ era' \in Nat
    BY Stored DEF StoresTyped, NoSecret, Generate
  <1>3. Secured(t, issued + 1, era') /\ secret' = issued + 1 /\ pc[t] = "generate"
        /\ UNCHANGED <<bundle, spoiled>>
    BY DEF Generate, At
  <1> DEFINE j == [job[t] EXCEPT !.own = issued + 1, !.era = era']
  <1>4. Moves(t, "idle", NoJob) \/ Moves(t, "node", j) \/ Moves(t, "read", j)
    BY <1>2, <1>3, SecuredMoves DEF UnitsTyped
  <1>5. j.era = era'
    BY <1>1 DEF Jobs
  <1> HIDE DEF j
  <1>6. /\ Others(t) /\ pc'[t] \in {"idle", "node", "read"}
        /\ pc'[t] = "read" => job'[t].era = era'
    BY <1>1, <1>4, <1>5 DEF Moves, Others
  <1> QED BY <1>2, <1>3, <1>6 DEF Generate

LEMMA Materializes ==
  ASSUME UnitsTyped, NEW t \in Threads, Materialize(t)
  PROVE  /\ Others(t) /\ pc[t] = "read" /\ UNCHANGED <<secret, bundle, era, late, spoiled>>
         /\ pc'[t] = "verify" /\ job'[t].tree.secret = secret /\ job'[t].tree.era = job[t].era
  BY Stored DEF Materialize, At, Goto, Others, unit, marks, Jobs

LEMMA Opens ==
  ASSUME UnitsTyped, NEW t \in Threads, OpenArchive(t)
  PROVE  /\ Others(t) /\ pc[t] = "verify" /\ UNCHANGED <<secret, booting, node, era, late>>
         /\ pc'[t] = "close" /\ job'[t] = job[t] /\ Verified(t) /\ job[t].tree \in Trees
         /\ archive' \in Trees /\ archive' # NoBundle
         /\ archive'.conf = job[t].tree.conf
         /\ archive'.secret = job[t].tree.secret /\ archive'.era = job[t].tree.era
         /\ spoiled' = (spoiled \/ booting \/ \E u \in Threads : At(u, "close"))
  <1>1. job[t].tree \in Trees
    BY JobFields, TreeTyped DEF UnitsTyped, OpenArchive, At
  <1>2. archive' = [job[t].tree EXCEPT !.whole = FALSE]
    BY DEF OpenArchive
  <1>3. /\ archive' \in Trees /\ archive' # NoBundle /\ archive'.conf = job[t].tree.conf
        /\ archive'.secret = job[t].tree.secret /\ archive'.era = job[t].tree.era
    BY <1>1, <1>2, TreeTyped
  <1>4. /\ Others(t) /\ pc[t] = "verify" /\ pc'[t] = "close" /\ job'[t] = job[t]
        /\ UNCHANGED <<secret, booting, node, era, late>> /\ Verified(t)
        /\ spoiled' = (spoiled \/ booting \/ \E u \in Threads : At(u, "close"))
    BY Stored DEF OpenArchive, At, Goto, Others, unit
  <1> QED BY <1>1, <1>3, <1>4

LEMMA Closes ==
  ASSUME UnitsTyped, NEW t \in Threads, CloseArchive(t)
  PROVE  /\ Others(t) /\ pc[t] = "close" /\ UNCHANGED <<secret, node, era, late, spoiled>>
         /\ pc'[t] = "idle" /\ job[t].tree \in Trees /\ archive' \in Trees /\ archive' # NoBundle
         /\ archive'.conf = job[t].tree.conf
         /\ archive'.secret = job[t].tree.secret /\ archive'.era = job[t].tree.era
         /\ (\A u \in Threads \ {t} : ~At(u, "close")) => archive'.whole
  <1> DEFINE w == ~\E u \in Threads \ {t} : At(u, "close")
  <1>1. job[t].tree \in Trees
    BY JobFields, TreeTyped DEF UnitsTyped, CloseArchive, At
  <1>2. archive' = [job[t].tree EXCEPT !.whole = w] /\ w \in BOOLEAN
    BY DEF CloseArchive
  <1>3. (\A u \in Threads \ {t} : ~At(u, "close")) => w
    OBVIOUS
  <1> HIDE DEF w
  <1>4. /\ archive' \in Trees /\ archive' # NoBundle /\ archive'.conf = job[t].tree.conf
        /\ archive'.secret = job[t].tree.secret /\ archive'.era = job[t].tree.era
        /\ archive'.whole = w
    BY <1>1, <1>2, TreeTyped
  <1>5. /\ Others(t) /\ pc[t] = "close" /\ pc'[t] = "idle"
        /\ UNCHANGED <<secret, node, era, late, spoiled>>
    BY Stored DEF CloseArchive, At, Finish, Goto, Others, unit, marks
  <1> QED BY <1>1, <1>3, <1>4, <1>5

LEMMA Deletes ==
  ASSUME NEW t \in Threads, UnitsTyped, DeleteUnit(t)
  PROVE  /\ pc' = pc /\ job' = job
         /\ behind' = behind \cup {u \in Threads : At(u, "put")}
  BY Stored DEF DeleteUnit, Request, At, Goto

LEMMA Restarts ==
  ASSUME Restart
  PROVE  /\ \A t \in Threads : pc'[t] = "idle"
         /\ UNCHANGED <<secret, conf, bundle, era>>
         /\ spoiled' = (spoiled \/ \E t \in Threads : At(t, "close"))
  BY DEF Restart, unit

LEMMA Boots ==
  ASSUME Boot
  PROVE  /\ pc' = pc /\ job' = job /\ UNCHANGED <<secret, conf, archive, era, late, spoiled>>
         /\ booting /\ booting' = FALSE /\ node' = archive
  BY DEF Boot, unit, marks

-----------------------------------------------------------------------------
(* No bundle with a key left to set.                                       *)
Configured ==
  ConfiguredOnly /\ \A t \in Threads : pc[t] = "close" => Verified(t)

LEMMA ConfiguredKept ==
  ASSUME UnitsTyped, Configured, [Next]_vars PROVE Configured'
  <1> DEFINE Good(a) == a # NoBundle => \A k \in Keys : a.conf[k] \in Values
  <1>1. ConfiguredOnly <=> Good(archive) /\ Good(node)
    BY DEF ConfiguredOnly, Shipped
  <1>2. ConfiguredOnly' <=> Good(archive') /\ Good(node')
    BY DEF ConfiguredOnly, Shipped
  <1>3. CASE Quiet
    BY <1>3, Stored DEF Quiet, Hot, Configured, ConfiguredOnly, Shipped, Verified, bundle
  <1>4. ASSUME NEW t \in Threads, FindSecret(t) \/ Generate(t) \/ Materialize(t)
        PROVE  Configured'
    <2>1. UNCHANGED bundle /\ Others(t) /\ pc'[t] # "close"
      BY <1>4, Finds, Generates, Materializes
    <2> QED BY <2>1 DEF Configured, ConfiguredOnly, Shipped, Verified, bundle, Others
  <1>5. ASSUME NEW t \in Threads, OpenArchive(t) PROVE Configured'
    <2>1. /\ Others(t) /\ job'[t] = job[t] /\ Verified(t) /\ node' = node
          /\ archive'.conf = job[t].tree.conf
      BY <1>5, Opens
    <2>2. Good(archive') /\ Good(node')
      BY <1>1, <2>1 DEF Verified, Configured
    <2> QED BY <1>2, <2>1, <2>2 DEF Configured, Verified, Others
  <1>6. ASSUME NEW t \in Threads, CloseArchive(t) PROVE Configured'
    <2>1. /\ Others(t) /\ pc'[t] = "idle" /\ Verified(t) /\ node' = node
          /\ archive'.conf = job[t].tree.conf
      BY <1>6, Closes DEF Configured
    <2>2. Good(archive') /\ Good(node')
      BY <1>1, <2>1 DEF Verified, Configured
    <2> QED BY <1>2, <2>1, <2>2 DEF Configured, Verified, Others
  <1>7. CASE Replaces
    BY <1>7 DEF Replaces, Configured, ConfiguredOnly, Shipped, Verified, bundle
  <1>8. CASE Boot
    <2>1. Good(archive') /\ Good(node')
      BY <1>1, <1>8, Boots DEF Configured
    <2> QED BY <1>2, <1>8, <2>1, Boots DEF Configured, Verified
  <1>9. CASE Restart
    BY <1>9, Restarts DEF Configured, ConfiguredOnly, Shipped, bundle
  <1> QED BY <1>3, <1>4, <1>5, <1>6, <1>7, <1>8, <1>9, QuietCases

(* No bundle goes out, and no node installs one, with a critical key still *)
(* missing or a placeholder, whoever edits the unit's files between the    *)
(* readiness check, verify_bundle_tree and the boot.                       *)
THEOREM BundlesConfigured == Spec => []ConfiguredOnly
  <1>1. Init => Configured
    BY DEF Init, BackupsInit, Configured, ConfiguredOnly, Shipped
  <1>2. UnitsTyped /\ Configured /\ [Next]_vars => Configured'
    BY ConfiguredKept
  <1>3. Configured => ConfiguredOnly
    BY DEF Configured
  <1> QED BY <1>1, <1>2, <1>3, InitUnits, NextUnits, PTL DEF Spec

-----------------------------------------------------------------------------
(* Whole archives.                                                         *)
Wholes ==
  ~spoiled =>
    /\ \A t, u \in Threads : pc[t] = "close" /\ pc[u] = "close" => t = u
    /\ archive # NoBundle /\ (\A t \in Threads : pc[t] # "close") => archive.whole
    /\ booting => \A t \in Threads : pc[t] # "close"
    /\ node # NoBundle => node.whole

LEMMA WholesKept ==
  ASSUME UnitsTyped, Wholes, [Next]_vars PROVE Wholes'
  <1>1. CASE Quiet
    BY <1>1, Stored DEF Quiet, Hot, Wholes, bundle
  <1>2. ASSUME NEW t \in Threads, FindSecret(t) \/ Generate(t) \/ Materialize(t)
        PROVE  Wholes'
    <2>1. UNCHANGED <<bundle, spoiled>> /\ Others(t) /\ pc[t] # "close" /\ pc'[t] # "close"
      BY <1>2, Finds, Generates, Materializes
    <2> QED BY <2>1 DEF Wholes, bundle, Others
  <1>3. ASSUME NEW t \in Threads, OpenArchive(t) PROVE Wholes'
    <2>1. /\ Others(t) /\ pc'[t] = "close" /\ UNCHANGED <<booting, node>>
          /\ spoiled' = (spoiled \/ booting \/ \E u \in Threads : At(u, "close"))
      BY <1>3, Opens
    <2> QED BY <2>1, Stored DEF Wholes, Others, At, StoresTyped
  <1>4. ASSUME NEW t \in Threads, CloseArchive(t) PROVE Wholes'
    <2>1. /\ Others(t) /\ pc[t] = "close" /\ pc'[t] = "idle" /\ UNCHANGED <<node, spoiled>>
          /\ (\A u \in Threads \ {t} : ~At(u, "close")) => archive'.whole
      BY <1>4, Closes
    <2> QED BY <2>1 DEF Wholes, Others, At
  <1>5. CASE Replaces
    BY <1>5 DEF Replaces, Wholes, bundle
  <1>6. CASE Boot
    BY <1>6, Boots DEF Wholes
  <1>7. CASE Restart
    BY <1>7, Restarts, Stored DEF Wholes, bundle, At, StoresTyped
  <1> QED BY <1>1, <1>2, <1>3, <1>4, <1>5, <1>6, <1>7, QuietCases

(* A node boots from a whole archive, for any number of threads building   *)
(* bundles, unless a build ran into its boot or another build, or a        *)
(* restart cut one: nothing else build_bundle does, failing included,      *)
(* leaves a torn archive under the public name.                            *)
THEOREM NodesWhole == Spec => []NodeWhole
  <1>1. Init => Wholes
    BY DEF Init, BackupsInit, Wholes
  <1>2. UnitsTyped /\ Wholes /\ [Next]_vars => Wholes'
    BY WholesKept
  <1>3. Wholes => NodeWhole
    BY DEF Wholes, NodeWhole
  <1> QED BY <1>1, <1>2, <1>3, InitUnits, NextUnits, PTL DEF Spec

-----------------------------------------------------------------------------
(* The secret.                                                             *)

\* Nothing is of an era to come.
Past ==
  /\ \A t \in Threads : pc[t] = "read" => job[t].era \leq era
  /\ \A t \in Threads : pc[t] \in {"verify", "close"} => job[t].tree.era \leq era
  /\ archive # NoBundle => archive.era \leq era
  /\ node # NoBundle => node.era \leq era

Holds(a, since, held) == a.era = since => a.secret = held /\ held # NoSecret

\* A thread that generates a secret, and is not late, replaces none.
Secrets ==
  /\ \A t \in Threads \ late : pc[t] = "generate" => secret = NoSecret
  /\ \A t \in Threads : pc[t] = "read" /\ job[t].era = era => secret # NoSecret
  /\ \A t \in Threads : pc[t] \in {"verify", "close"} => Holds(job[t].tree, era, secret)
  /\ archive # NoBundle => Holds(archive, era, secret)
  /\ node # NoBundle => Holds(node, era, secret)

\* An era ends, and nothing is of the one that begins.
LEMMA EraEnds ==
  ASSUME UnitsTyped, Past
  PROVE  /\ \A t \in Threads :
              /\ pc[t] = "read" => job[t].era \leq era + 1 /\ job[t].era # era + 1
              /\ pc[t] \in {"verify", "close"} =>
                   job[t].tree.era \leq era + 1 /\ job[t].tree.era # era + 1
         /\ archive # NoBundle => archive.era \leq era + 1 /\ archive.era # era + 1
         /\ node # NoBundle => node.era \leq era + 1 /\ node.era # era + 1
  <1>1. era \in Nat
    BY Stored DEF StoresTyped
  <1>2. \A t \in Threads : /\ job[t].era \in Nat
                           /\ pc[t] \in {"verify", "close"} => job[t].tree.era \in Nat
    BY JobFields, TreeTyped DEF UnitsTyped, Trees
  <1>3. (archive # NoBundle => archive.era \in Nat) /\ (node # NoBundle => node.era \in Nat)
    BY Stored, TreeTyped DEF StoresTyped, Trees
  <1> QED BY <1>1, <1>2, <1>3 DEF Past

LEMMA PastKept ==
  ASSUME UnitsTyped, Past, [Next]_vars PROVE Past'
  <1>1. era \in Nat
    BY Stored DEF StoresTyped
  <1>2. CASE Quiet
    BY <1>2, Stored DEF Quiet, Hot, Past, bundle
  <1>3. ASSUME NEW t \in Threads, FindSecret(t) \/ Materialize(t) PROVE Past'
    <2>1. UNCHANGED <<bundle, era>> /\ Others(t)
      BY <1>3, Finds, Materializes
    <2>2. /\ pc'[t] = "read" => job'[t].era \leq era
          /\ pc'[t] = "verify" => job'[t].tree.era \leq era
          /\ pc'[t] # "close"
      BY <1>1, <1>3, Finds, Materializes DEF Past
    <2> QED BY <2>1, <2>2 DEF Past, bundle, Others
  <1>4. ASSUME NEW t \in Threads, Generate(t) PROVE Past'
    <2>1. /\ UNCHANGED bundle /\ Others(t) /\ pc'[t] \notin {"verify", "close"}
          /\ pc'[t] = "read" => job'[t].era = era'
          /\ era' = IF t \in late THEN era + 1 ELSE era
      BY <1>4, Generates
    <2>2. era' \leq era' /\ era' \in {era, era + 1}
      BY <1>1, <2>1
    <2> QED BY <2>1, <2>2, EraEnds DEF Past, bundle, Others
  <1>5. ASSUME NEW t \in Threads, OpenArchive(t) PROVE Past'
    <2>1. /\ Others(t) /\ pc[t] = "verify" /\ pc'[t] = "close" /\ job'[t] = job[t]
          /\ UNCHANGED <<node, era>> /\ archive'.era = job[t].tree.era
      BY <1>5, Opens
    <2> QED BY <2>1 DEF Past, Others
  <1>6. ASSUME NEW t \in Threads, CloseArchive(t) PROVE Past'
    <2>1. /\ Others(t) /\ pc[t] = "close" /\ pc'[t] = "idle"
          /\ UNCHANGED <<node, era>> /\ archive'.era = job[t].tree.era
      BY <1>6, Closes
    <2> QED BY <2>1 DEF Past, Others
  <1>7. CASE Replaces
    BY <1>7, EraEnds DEF Replaces, Past, bundle
  <1>8. CASE Boot
    BY <1>8, Boots DEF Past
  <1>9. CASE Restart
    BY <1>9, Restarts DEF Past, bundle
  <1> QED BY <1>2, <1>3, <1>4, <1>5, <1>6, <1>7, <1>8, <1>9, QuietCases

LEMMA SecretsKept ==
  ASSUME UnitsTyped, Past, Secrets, [Next]_vars PROVE Secrets'
  <1>1. CASE Quiet
    BY <1>1, Stored DEF Quiet, Hot, Secrets, Holds, bundle
  <1>2. ASSUME NEW t \in Threads, FindSecret(t) PROVE Secrets'
    <2>1. Others(t) /\ UNCHANGED <<secret, bundle, era, late>>
      BY <1>2, Finds
    <2>2. CASE secret = NoSecret /\ pc'[t] = "generate"
      BY <2>1, <2>2 DEF Secrets, Holds, bundle, Others
    <2>3. CASE secret # NoSecret /\ pc'[t] \in {"idle", "node", "read"}
      BY <2>1, <2>3 DEF Secrets, Holds, bundle, Others
    <2> QED BY <1>2, <2>2, <2>3, Finds
  <1>3. ASSUME NEW t \in Threads, Generate(t) PROVE Secrets'
    <2>1. /\ Others(t) /\ pc[t] = "generate" /\ UNCHANGED bundle /\ secret' # NoSecret
          /\ era' = IF t \in late THEN era + 1 ELSE era
          /\ late' = {u \in Threads \ {t} : At(u, "generate")}
          /\ pc'[t] \in {"idle", "node", "read"}
      BY <1>3, Generates
    <2>2. \A u \in Threads \ late' : pc'[u] # "generate"
      BY <2>1 DEF Others, At
    <2>3. CASE t \notin late
      <3>1. secret = NoSecret /\ era' = era
        BY <2>1, <2>3 DEF Secrets
      <3> QED BY <2>1, <2>2, <3>1 DEF Secrets, Holds, bundle, Others
    <2>4. CASE t \in late
      BY <2>1, <2>2, <2>4, EraEnds DEF Secrets, Holds, bundle, Others
    <2> QED BY <2>3, <2>4
  <1>4. ASSUME NEW t \in Threads, Materialize(t) PROVE Secrets'
    <2>1. /\ Others(t) /\ pc[t] = "read" /\ UNCHANGED <<secret, bundle, era, late>>
          /\ pc'[t] = "verify" /\ job'[t].tree.secret = secret
          /\ job'[t].tree.era = job[t].era
      BY <1>4, Materializes
    <2> QED BY <2>1 DEF Secrets, Holds, bundle, Others
  <1>5. ASSUME NEW t \in Threads, OpenArchive(t) PROVE Secrets'
    <2>1. /\ Others(t) /\ pc[t] = "verify" /\ pc'[t] = "close" /\ job'[t] = job[t]
          /\ UNCHANGED <<secret, node, era, late>>
          /\ archive'.secret = job[t].tree.secret /\ archive'.era = job[t].tree.era
      BY <1>5, Opens
    <2> QED BY <2>1 DEF Secrets, Holds, Others
  <1>6. ASSUME NEW t \in Threads, CloseArchive(t) PROVE Secrets'
    <2>1. /\ Others(t) /\ pc[t] = "close" /\ pc'[t] = "idle"
          /\ UNCHANGED <<secret, node, era, late>>
          /\ archive'.secret = job[t].tree.secret /\ archive'.era = job[t].tree.era
      BY <1>6, Closes
    <2> QED BY <2>1 DEF Secrets, Holds, Others
  <1>7. CASE Replaces
    <2>1. CASE era' = era + 1
      BY <1>7, <2>1, EraEnds DEF Replaces, Secrets, Holds, bundle
    <2>2. CASE era' = era /\ secret' = secret
      BY <1>7, <2>2 DEF Replaces, Secrets, Holds, bundle
    <2> QED BY <1>7, <2>1, <2>2 DEF Replaces
  <1>8. CASE Boot
    BY <1>8, Boots DEF Secrets, Holds
  <1>9. CASE Restart
    BY <1>9, Restarts DEF Secrets, Holds, bundle
  <1> QED BY <1>1, <1>2, <1>3, <1>4, <1>5, <1>6, <1>7, <1>8, <1>9, QuietCases

(* The orchestrator holds the secret a bundle was built with, for any      *)
(* number of requests that ensure one, until the unit is deleted, an       *)
(* operator deletes the secret's file or saves another, or a request       *)
(* replaces one that came since it found none: no other request touches it *)
(* (ensure_unit_orchestrator_secret), and what is built with the next one  *)
(* agrees again.                                                           *)
THEOREM SecretsAgree == Spec => []SecretAgrees
  <1>1. Init => Past /\ Secrets
    BY DEF Init, BackupsInit, Past, Secrets
  <1>2. UnitsTyped /\ Past /\ Secrets /\ [Next]_vars => Past' /\ Secrets'
    BY PastKept, SecretsKept
  <1>3. Secrets => SecretAgrees
    BY DEF Secrets, Holds, SecretAgrees, Shipped
  <1> QED BY <1>1, <1>2, <1>3, InitUnits, NextUnits, PTL DEF Spec

-----------------------------------------------------------------------------
(* What an operator saved.                                                 *)

\* What a merge does to a key.
Fills(old, new) == new = old \/ (old = Absent /\ new = Placeholder)

\* A thread that is to put a file, which was not changed since it was read, adds
\* to it and changes nothing.
Edits ==
  /\ pc[Loop] \notin {"merge", "put"}
  /\ \A t \in Threads \ behind : pc[t] = "put" =>
       \A k \in KeysOf(job[t].file) : Fills(conf[k], job[t].text[k])

MayChange(k) ==
  \/ ops' # ops \/ At(Loop, "seed")
  \/ conf[k] = Absent /\ conf'[k] = Placeholder
  \/ \E t \in behind : At(t, "put") /\ job[t].file = FileOf[k]

KeptApart == \A k \in Keys : conf'[k] # conf[k] => MayChange(k)

\* The steps that touch neither a file nor a plan to.
Aside ==
  /\ UNCHANGED <<conf, behind>> /\ pc'[Loop] \notin {"merge", "put"}
  /\ \A u \in Threads : pc'[u] = "put" => pc[u] = "put" /\ job'[u] = job[u]

Asidely(t, l) ==
  /\ pc' = [pc EXCEPT ![t] = l] /\ l # "put" /\ (l = "merge" => t \in Pool)
  /\ \A u \in Threads \ {t} : job'[u] = job[u]
  /\ UNCHANGED <<conf, behind>>

LEMMA AsidelyAside ==
  ASSUME UnitsTyped, Edits, NEW t \in Threads, NEW l, Asidely(t, l) PROVE Aside
  BY Stored, BackupConstants DEF Asidely, Aside, Edits, Threads

LEMMA AsideUnit ==
  ASSUME UnitsTyped, Edits, NEW t \in Threads, UnitOnly(t)
  PROVE  \/ Aside
         \/ \E f \in Confs : \/ t = Loop /\ (SeedNew(f) \/ \E w \in Texts(f) : SaveFile(f, w))
                             \/ t \in Pool /\ (DeleteFile(t, f) \/ Merge(t, f))
         \/ t \in Pool /\ Put(t)
  <1>1. job \in [Threads -> Jobs] /\ pc \in [Threads -> UnitSteps \cup BackupPlaces]
    BY Stored
  <1>2. t = Loop /\ Create => Asidely(t, "record")
    BY <1>1 DEF Create, Begin, Request, At, Goto, Asidely, unit, marks
  <1>3. t = Loop /\ WriteRecord => Asidely(t, "seed")
    BY <1>1 DEF WriteRecord, At, Goto, Asidely, marks
  <1>4. FindSecret(t) \/ Generate(t) => \E l : Asidely(t, l)
    <2>1. ASSUME NEW own \in Nat, NEW since \in Nat, Secured(t, own, since)
          PROVE  \E l \in {"idle", "node", "read"} : /\ pc' = [pc EXCEPT ![t] = l]
                                                   /\ \A u \in Threads \ {t} : job'[u] = job[u]
      <3>1. TypeOK /\ \A l, j : Moves(t, l, j) => /\ pc' = [pc EXCEPT ![t] = l]
                                                  /\ job' = [job EXCEPT ![t] = j]
        BY DEF Moves, UnitsTyped
      <3>2. \E j : \E l \in {"idle", "node", "read"} : Moves(t, l, j)
        BY <2>1, <3>1, SecuredMoves
      <3>3. PICK l \in {"idle", "node", "read"} :
              pc' = [pc EXCEPT ![t] = l] /\ \E j : job' = [job EXCEPT ![t] = j]
        BY <3>1, <3>2
      <3>4. \A u \in Threads \ {t} : job'[u] = job[u]
        BY <1>1, <3>3
      <3> QED BY <3>3, <3>4
    <2>2. secret \in Nat /\ era \in Nat /\ issued + 1 \in Nat
      BY <1>1, Stored DEF StoresTyped
    <2>3. FindSecret(t) /\ secret = NoSecret => Asidely(t, "generate")
      BY <1>1 DEF FindSecret, Goto, Asidely, unit, marks
    <2>4. FindSecret(t) /\ secret # NoSecret =>
            Secured(t, secret, era) /\ UNCHANGED <<conf, behind>>
      BY DEF FindSecret, unit, marks
    <2>5. Generate(t) => Secured(t, issued + 1, era') /\ era' \in Nat /\ UNCHANGED <<conf, behind>>
      BY <2>2 DEF Generate
    <2> QED BY <2>1, <2>2, <2>3, <2>4, <2>5 DEF Asidely
  <1>5. ASSUME NEW do, Start(t, do) PROVE Asidely(t, "ensure")
    BY <1>1, <1>5 DEF Start, Begin, Request, At, Goto, Asidely, unit, marks
  <1>6. Materialize(t) => Asidely(t, "verify")
    BY <1>1 DEF Materialize, Goto, Asidely, unit, marks
  <1>7. Refuse(t) \/ Report(t) => Asidely(t, "idle")
    BY <1>1 DEF Refuse, Report, Finish, Goto, Asidely, unit, marks
  <1>8. Ready(t) \/ Seeded(t) => Asidely(t, "ensure")
    BY <1>1 DEF Ready, Seeded, Goto, Asidely, unit, marks
  <1>9. OpenArchive(t) => Asidely(t, "close")
    BY <1>1 DEF OpenArchive, Goto, Asidely, unit
  <1>10. CloseArchive(t) => Asidely(t, "idle")
    BY <1>1 DEF CloseArchive, Finish, Goto, Asidely, unit, marks
  <1>11. t \in Pool /\ Plan(t) => Asidely(t, "merge")
    BY <1>1 DEF Plan, Goto, Asidely, unit, marks
  <1>12. \A l : Asidely(t, l) => Aside
    BY AsidelyAside
  <1> HIDE DEF Aside, Asidely
  <1>13. CASE \/ t = Loop /\ (Create \/ WriteRecord)
              \/ FindSecret(t) \/ Generate(t)
              \/ \E do \in {"build", "check", "plan", "backup"} : Start(t, do)
              \/ Materialize(t) \/ Refuse(t) \/ Ready(t) \/ OpenArchive(t) \/ CloseArchive(t)
              \/ t \in Pool /\ (Plan(t) \/ Seeded(t) \/ Report(t))
    BY <1>2, <1>3, <1>4, <1>5, <1>6, <1>7, <1>8, <1>9, <1>10, <1>11, <1>12, <1>13
  <1>14. CASE (t = Loop /\ \E s \in 0..(issued + 1) : SaveSecret(s)) \/ DeleteSecret(t)
    <2>1. pc' = [pc EXCEPT ![t] = "idle"] /\ job' = job /\ UNCHANGED <<conf, behind>>
      BY <1>14 DEF SaveSecret, DeleteSecret, Request, Goto
    <2> QED BY <2>1, <1>12 DEF Asidely
  <1>15. CASE t = Loop /\ \E f \in Confs : SeedNew(f) \/ \E w \in Texts(f) : SaveFile(f, w)
    BY <1>15
  <1>16. CASE t \in Pool /\ \E f \in Confs : DeleteFile(t, f) \/ Merge(t, f)
    BY <1>16
  <1> QED BY <1>13, <1>14, <1>15, <1>16 DEF UnitOnly

LEMMA AsideBackups ==
  ASSUME UnitsTyped, Edits, NEW t \in Threads, BackupMoves(t),
         \A u \in Threads \ {t} : job'[u] = job[u], UNCHANGED <<unit, bundle, marks>>
  PROVE  Aside
  <1>1. PICK l, r : Serves(t, l, r)
    BY DEF BackupMoves
  <1>2. l \notin {"put", "merge"}
    BY <1>1, Places DEF Serves, UnitPlaces
  <1>3. Asidely(t, l)
    BY <1>1, <1>2 DEF Serves, Asidely, unit, marks
  <1> QED BY <1>3, AsidelyAside

LEMMA AsideCases ==
  ASSUME UnitsTyped, Edits, [Next]_vars
  PROVE  \/ Aside \/ Restart
         \/ \E f \in Confs : SeedNew(f) \/ \E w \in Texts(f) : SaveFile(f, w)
         \/ \E t \in Pool : \/ DeleteUnit(t) \/ Put(t)
                            \/ \E f \in Confs : DeleteFile(t, f) \/ Merge(t, f)
  <1>1. Pool \subseteq Threads /\ Loop \in Threads
    BY DEF Threads
  <1>2. Backups => Aside
    BY <1>1, UploadMoves, BackupStepMoves, AsideBackups DEF Backups, BackupStep
  <1>3. ASSUME NEW t \in Pool,
               NodeRefuses(t) \/ \E b \in Ids, c \in Contents : NodeBacksUp(t, b, c)
        PROVE  Aside
    <2>1. BackupMoves(t)
      BY <1>1, <1>3, NodeFailsMoves, NodeMakesMoves DEF NodeRefuses, NodeBacksUp
    <2>2. UNCHANGED <<unit, bundle, marks>> /\ \A u \in Threads \ {t} : job'[u] = job[u]
      BY <1>1, <1>3, Stored DEF NodeRefuses, NodeBacksUp
    <2> QED BY <1>1, <2>1, <2>2, AsideBackups
  <1>4. Boot => Aside
    BY <1>1 DEF Boot, unit, marks, Aside, Edits
  <1>5. UNCHANGED vars => Aside
    BY <1>1 DEF vars, unit, marks, Aside, Edits
  <1> QED BY <1>1, <1>2, <1>3, <1>4, <1>5, NextCases, AsideUnit

\* A file is changed, and who is to put it is behind.
LEMMA Overtaken ==
  ASSUME UnitsTyped, Edits, NEW f \in Confs, \A k \in Keys \ KeysOf(f) : conf'[k] = conf[k],
         pc'[Loop] \notin {"merge", "put"},
         \A u \in Threads : pc'[u] = "put" =>
           /\ pc[u] = "put" /\ job'[u] = job[u]
           /\ u \in behind \cup Putting(f) => u \in behind'
  PROVE  Edits'
  <1> SUFFICES ASSUME NEW t \in Threads \ behind', pc'[t] = "put", NEW k \in KeysOf(job'[t].file)
               PROVE  Fills(conf'[k], job'[t].text[k])
    BY DEF Edits
  <1>1. job'[t] = job[t] /\ pc[t] = "put" /\ t \notin behind /\ job[t].file # f
    BY DEF Putting, At
  <1>2. k \in Keys /\ k \notin KeysOf(f)
    BY <1>1 DEF KeysOf
  <1> QED BY <1>1, <1>2 DEF Edits

LEMMA EditsKept ==
  ASSUME UnitsTyped, Edits, [Next]_vars
  PROVE  Edits' /\ KeptApart
  <1>1. /\ job \in [Threads -> Jobs] /\ pc \in [Threads -> UnitSteps \cup BackupPlaces]
        /\ conf \in [Keys -> Settings] /\ behind \subseteq Threads /\ ops \in Nat
        /\ \A t \in Threads : pc[t] = "put" => job[t].file \in Confs
    BY Stored, JobFields DEF StoresTyped, UnitsTyped
  <1>2. Threads = Pool \cup {Loop} /\ Loop \notin Pool
    BY BackupConstants DEF Threads
  <1>3. CASE Aside
    BY <1>1, <1>3 DEF Aside, Edits, KeptApart
  <1>4. CASE Restart
    BY <1>1, <1>2, <1>4, Restarts DEF Edits, KeptApart
  <1>5. ASSUME NEW f \in Confs, SeedNew(f) PROVE Edits' /\ KeptApart
    <2>1. /\ pc[Loop] = "seed" /\ behind' = behind \cup Putting(f)
          /\ pc'[Loop] \in {"ensure", "seed"}
          /\ \A u \in Pool : pc'[u] = pc[u] /\ job'[u] = job[u]
      BY <1>1, <1>2, <1>5 DEF SeedNew, At, Goto, Overtake
    <2>2. \A k \in Keys \ KeysOf(f) : conf'[k] = conf[k]
      BY <1>5 DEF SeedNew, Write
    <2>3. Edits'
      BY <1>2, <2>1, <2>2, Overtaken
    <2> QED BY <2>1, <2>3 DEF KeptApart, MayChange, At
  <1>6. ASSUME NEW f \in Confs, NEW w,
               SaveFile(f, w) \/ \E t \in Pool : DeleteFile(t, f)
        PROVE  Edits' /\ KeptApart
    <2>1. /\ pc' = pc /\ job' = job /\ behind' = behind \cup Putting(f) /\ ops' = ops + 1
          /\ \A k \in Keys \ KeysOf(f) : conf'[k] = conf[k]
      BY <1>1, <1>2, <1>6 DEF SaveFile, DeleteFile, Request, At, Goto, Overtake, Write
    <2>2. Edits'
      BY <2>1, Overtaken DEF Edits
    <2> QED BY <1>1, <2>1, <2>2 DEF KeptApart, MayChange
  <1>7. ASSUME NEW t \in Pool, NEW f \in Confs, Merge(t, f) PROVE Edits' /\ KeptApart
    <2>1. /\ \A u \in Threads \ {t} : pc'[u] = pc[u] /\ job'[u] = job[u]
          /\ conf' = conf /\ behind' = behind \ {t} /\ pc[t] = "merge"
      BY <1>1, <1>2, <1>7 DEF Merge, At, Goto, unit
    <2>2. pc'[t] = "put" => job'[t].file = f /\ job'[t].text = Merged(f, Added(t, f))
      <3>1. CASE Added(t, f) # {}
        BY <1>1, <1>2, <1>7, <3>1 DEF Merge, Jobs
      <3>2. CASE Added(t, f) = {}
        BY <1>7, <2>1, <3>2 DEF Merge
      <3> QED BY <3>1, <3>2
    <2>3. \A k \in KeysOf(f) : Fills(conf[k], Merged(f, Added(t, f))[k])
      BY DEF Fills, Merged, Added, Planned, KeysOf
    <2> QED BY <1>2, <2>1, <2>2, <2>3 DEF Edits, KeptApart
  <1>8. ASSUME NEW t \in Pool, Put(t) PROVE Edits' /\ KeptApart
    <2> DEFINE f == job[t].file
    <2>1. /\ \A u \in Threads \ {t} : pc'[u] = pc[u] /\ job'[u] = job[u]
          /\ pc[t] = "put" /\ pc'[t] = "merge" /\ behind' = (behind \cup Putting(f)) \ {t}
          /\ Write(f, job[t].text)
      BY <1>1, <1>2, <1>8 DEF Put, At, Goto
    <2>2. f \in Confs
      BY <1>1, <1>2, <2>1
    <2> HIDE DEF f
    <2>3. \A k \in Keys : conf'[k] = IF k \in KeysOf(f) THEN job[t].text[k] ELSE conf[k]
      BY <2>1 DEF Write
    <2>4. Edits'
      BY <1>2, <2>1, <2>2, <2>3, Overtaken DEF Edits
    <2>5. ASSUME NEW k \in KeysOf(f) PROVE conf'[k] # conf[k] => MayChange(k)
      <3>1. k \in Keys /\ FileOf[k] = f
        BY DEF KeysOf
      <3>2. CASE t \in behind
        BY <2>1, <3>1, <3>2 DEF MayChange, At, f
      <3>3. CASE t \notin behind
        BY <1>2, <2>1, <2>3, <3>1, <3>3 DEF MayChange, Edits, Fills, f
      <3> QED BY <3>2, <3>3
    <2> QED BY <2>3, <2>4, <2>5 DEF KeptApart
  <1>9. ASSUME NEW t \in Pool, DeleteUnit(t) PROVE Edits' /\ KeptApart
    <2>1. /\ pc' = pc /\ job' = job /\ ops' = ops + 1
          /\ behind' = behind \cup {u \in Threads : At(u, "put")}
      BY <1>2, <1>9, Deletes DEF DeleteUnit, Request
    <2> QED BY <1>1, <2>1 DEF Edits, KeptApart, MayChange, At
  <1> QED BY <1>3, <1>4, <1>5, <1>6, <1>7, <1>8, <1>9, AsideCases

(* What an operator saved stays until another request or a creation writes *)
(* over it: seed_unit_bootstrap_critical, by any number of threads and     *)
(* over files with any number of keys, only adds placeholders where there  *)
(* was nothing, unless its file was changed since it was read.             *)
THEOREM EditsKeep == Spec => EditKept
  <1>1. Init => Edits
    BY DEF Init, BackupsInit, Edits, Threads
  <1>2. UnitsTyped /\ Edits /\ [Next]_vars => Edits'
    BY EditsKept
  <1>3. UnitsTyped /\ Edits /\ [Next]_vars =>
          [\A k \in Keys : conf'[k] # conf[k] =>
             \/ ops' # ops \/ At(Loop, "seed")
             \/ conf[k] = Absent /\ conf'[k] = Placeholder
             \/ \E t \in behind : At(t, "put") /\ job[t].file = FileOf[k]]_vars
    BY EditsKept DEF KeptApart, MayChange
  <1> QED BY <1>1, <1>2, <1>3, InitUnits, NextUnits, PTL DEF Spec, EditKept

-----------------------------------------------------------------------------
(* The steps on the backups, one by one, and Unmoved for all the others.   *)

\* Threads at one of these places stay there, and nobody gets there.
Steady(S) ==
  \A u \in Threads : pc[u] \in S \/ pc'[u] \in S => pc'[u] = pc[u] /\ req'[u] = req[u]

Unmoved ==
  UNCHANGED <<store, selected, selTmp, made, history>> /\ Steady(BackupPlaces)

LEMMA ServesAt ==
  ASSUME UnitsTyped, NEW t \in Threads, NEW l, NEW r, Serves(t, l, r)
  PROVE  /\ pc'[t] = l /\ req'[t] = r
         /\ \A u \in Threads \ {t} : pc'[u] = pc[u] /\ req'[u] = req[u]
  BY Stored DEF Serves

LEMMA ServesSteady ==
  ASSUME UnitsTyped, NEW t \in Threads, NEW l, NEW r, Serves(t, l, r), NEW S,
         pc[t] \notin S, l \notin S
  PROVE  Steady(S)
  BY ServesAt DEF Steady

LEMMA BackupCases ==
  ASSUME UnitsTyped, [Next]_vars
  PROVE  \/ Unmoved \/ Restart
         \/ \E b \in Ids, c \in Contents : Upload(b, c)
         \/ \E t \in Threads : Save(t)
         \/ \E t \in Pool : DeleteUnit(t)
         \/ \E t \in Pool, b \in Ids, c \in Contents : NodeMakes(t, b, c)
         \/ \E t \in Pool, b \in Ids : Select(t, b) \/ Delete(t, b)
         \/ \E t \in Pool : Check(t) \/ WriteSelection(t) \/ InstallSelection(t) \/ Clear(t)
         \/ \E t \in Pool : List(t) \/ RemoveDir(t)
         \/ \E t \in Pool, f \in Files \cup Tmps : Unlink(t, f)
  <1>1. Pool \subseteq Threads /\ Loop \in Threads
    BY DEF Threads
  <1>2. ASSUME NEW t \in Threads, UnitOnly(t) PROVE Unmoved
    <2>1. UnitMoves(t)
      BY <1>2, UnitOnlyMoves DEF UnitsTyped
    <2>2. PICK l, j : Moves(t, l, j)
      BY <2>1 DEF UnitMoves
    <2>3. l \notin BackupPlaces /\ pc[t] \notin BackupPlaces
      BY <2>1, <2>2, Places DEF UnitMoves, Moves
    <2> QED BY <2>1, <2>2, <2>3, Stored DEF UnitMoves, Moves, Unmoved, Steady, backups
  <1>3. Boot \/ UNCHANGED vars => Unmoved
    BY DEF Boot, vars, backups, Unmoved, Steady
  <1>4. ASSUME NEW t \in Pool, NodeRefuses(t) PROVE Unmoved
    <2>1. Serves(t, "idle", NoReq) /\ pc[t] = "node"
      BY <1>1, <1>4, NodeFailsMoves DEF NodeRefuses
    <2>2. Steady(BackupPlaces)
      BY <1>1, <2>1, ServesSteady, Places DEF UnitPlaces
    <2> QED BY <1>4, <2>2 DEF NodeRefuses, NodeFails, Unmoved
  <1>5. ASSUME NEW t \in Pool, ClearRequest(t) PROVE Unmoved
    <2>1. Serves(t, "clear", req[t]) /\ pc[t] = "idle"
      BY <1>1, <1>5, ClearMoves
    <2>2. Steady(BackupPlaces)
      BY <1>1, <2>1, ServesSteady, Places
    <2> QED BY <1>5, <2>2 DEF ClearRequest, Unmoved
  <1>6. Backups => \/ \E b \in Ids, c \in Contents : Upload(b, c)
                   \/ \E t \in Threads : Save(t)
                   \/ \E t \in Pool : BackupStep(t)
    BY <1>1 DEF Backups
  <1>7. ASSUME NEW t \in Pool, BackupStep(t)
        PROVE  \/ Save(t) \/ ClearRequest(t) \/ Clear(t)
               \/ \E b \in Ids : Select(t, b) \/ Delete(t, b)
               \/ Check(t) \/ WriteSelection(t) \/ InstallSelection(t)
               \/ List(t) \/ (\E f \in Files \cup Tmps : Unlink(t, f)) \/ RemoveDir(t)
    BY <1>7 DEF BackupStep
  <1>8. ASSUME NEW t \in Pool, NEW b \in Ids, NEW c \in Contents, NodeBacksUp(t, b, c)
        PROVE  NodeMakes(t, b, c)
    BY <1>8 DEF NodeBacksUp
  <1> QED BY <1>1, <1>2, <1>3, <1>4, <1>5, <1>6, <1>7, <1>8, NextCases

-----------------------------------------------------------------------------
(* One backup's manifest and artifact.                                     *)
Twins(F) ==
  F["manifest"] # Missing /\ F["artifact"] # Missing => F["manifest"] = F["artifact"]

\* What a save that is at l and saves c has made of the backup's files.
Half(l, c, F) ==
  /\ l \in {"mkdir", "write1", "rename1"} => Twins(F)
  /\ l = "rename1" => F["manifest.tmp"] \in {c, Missing}
  /\ l \in {"write2", "rename2"} => F["manifest"] \in {c, Missing}
  /\ l = "rename2" => F["artifact.tmp"] \in {c, Missing}

Saves ==
  /\ \A t \in Threads : pc[t] \in Saving => req[t].id \in made
  /\ \A t, u \in Threads :
       pc[t] \in Saving /\ pc[u] \in Saving /\ req[t].id = req[u].id => t = u
  /\ \A b \in Ids \ cut :
       /\ (\A t \in Threads : ~(pc[t] \in Saving /\ req[t].id = b)) => Twins(file[b])
       /\ \A t \in Threads :
            pc[t] \in Saving /\ req[t].id = b => Half(pc[t], req[t].content, file[b])

\* Files a delete removes.
Fewer(F, G) == \A f \in Files \cup Tmps : G[f] \in {F[f], Missing}

LEMMA FewerHalf ==
  ASSUME NEW F, NEW G, Fewer(F, G)
  PROVE  /\ Twins(F) => Twins(G)
         /\ \A l, c : Half(l, c, F) => Half(l, c, G)
  <1>1. \A f \in {"manifest", "artifact", "manifest.tmp", "artifact.tmp"} : G[f] \in {F[f], Missing}
    BY DEF Fewer, Files, Tmps
  <1> QED BY <1>1 DEF Twins, Half

\* The steps that save nothing.
LEMMA SavesSteady ==
  ASSUME UnitsTyped, Saves, Steady(Saving), made \subseteq made', cut \subseteq cut',
         \A b \in Ids : Fewer(file[b], file'[b])
  PROVE  Saves'
  <1>1. \A t \in Threads : pc'[t] \in Saving => /\ pc[t] \in Saving /\ pc'[t] = pc[t]
                                               /\ req'[t] = req[t]
    BY DEF Steady
  <1>2. \A t \in Threads : pc[t] \in Saving => pc'[t] = pc[t] /\ req'[t] = req[t]
    BY DEF Steady
  <1>3. ASSUME NEW b \in Ids \ cut'
        PROVE  /\ (\A t \in Threads : ~(pc'[t] \in Saving /\ req'[t].id = b)) => Twins(file'[b])
               /\ \A t \in Threads : pc'[t] \in Saving /\ req'[t].id = b
                                       => Half(pc'[t], req'[t].content, file'[b])
    BY <1>1, <1>2, <1>3, FewerHalf DEF Saves
  <1> QED BY <1>1, <1>3 DEF Saves

\* A save begins that is the only one of its backup.
LEMMA SaveBegins ==
  ASSUME UnitsTyped, Saves, NEW t \in Threads, NEW r, Serves(t, "mkdir", r), pc[t] \notin Saving,
         \A u \in Threads : ~(pc[u] \in Saving /\ req[u].id = r.id),
         made' = made \cup {r.id}, cut' = cut, file' = file
  PROVE  Saves'
  <1>1. /\ pc'[t] = "mkdir" /\ req'[t] = r
        /\ \A u \in Threads \ {t} : pc'[u] = pc[u] /\ req'[u] = req[u]
    BY ServesAt
  <1>2. "mkdir" \in Saving
    BY Places
  <1>3. ASSUME NEW b \in Ids \ cut
        PROVE  /\ (\A u \in Threads : ~(pc'[u] \in Saving /\ req'[u].id = b)) => Twins(file[b])
               /\ \A u \in Threads : pc'[u] \in Saving /\ req'[u].id = b
                                       => Half(pc'[u], req'[u].content, file[b])
    <2>1. CASE b # r.id
      BY <1>1, <1>2, <1>3, <2>1 DEF Saves
    <2>2. CASE b = r.id
      <3>1. Twins(file[b])
        BY <1>3, <2>2 DEF Saves
      <3>2. Half("mkdir", r.content, file[b])
        BY <3>1 DEF Half
      <3> QED BY <1>1, <1>2, <2>2, <3>1, <3>2
    <2> QED BY <2>1, <2>2
  <1> QED BY <1>1, <1>2, <1>3 DEF Saves

\* A save goes on, or ends.
LEMMA SaverMoves ==
  ASSUME UnitsTyped, Saves, NEW t \in Threads, pc[t] \in Saving, NEW l, NEW r, Serves(t, l, r),
         made' = made, cut \subseteq cut',
         \A c \in Ids \ {req[t].id} : Fewer(file[c], file'[c]),
         l \in Saving => r = req[t],
         req[t].id \notin cut' =>
           IF l \in Saving THEN Half(l, req[t].content, file'[req[t].id])
                           ELSE Twins(file'[req[t].id])
  PROVE  Saves'
  <1>1. /\ pc'[t] = l /\ req'[t] = r
        /\ \A u \in Threads \ {t} : pc'[u] = pc[u] /\ req'[u] = req[u]
    BY ServesAt
  <1>2. ASSUME NEW b \in Ids \ cut'
        PROVE  /\ (\A u \in Threads : ~(pc'[u] \in Saving /\ req'[u].id = b)) => Twins(file'[b])
               /\ \A u \in Threads : pc'[u] \in Saving /\ req'[u].id = b
                                       => Half(pc'[u], req'[u].content, file'[b])
    <2>1. CASE b # req[t].id
      <3>1. b \in Ids \ cut /\ Fewer(file[b], file'[b])
        BY <1>2, <2>1
      <3>2. /\ (\A u \in Threads : ~(pc[u] \in Saving /\ req[u].id = b)) => Twins(file[b])
            /\ \A u \in Threads : pc[u] \in Saving /\ req[u].id = b
                                    => Half(pc[u], req[u].content, file[b])
        BY <3>1 DEF Saves
      <3>3. /\ (\A u \in Threads : ~(pc[u] \in Saving /\ req[u].id = b)) => Twins(file'[b])
            /\ \A u \in Threads : pc[u] \in Saving /\ req[u].id = b
                                    => Half(pc[u], req[u].content, file'[b])
        BY <3>1, <3>2, FewerHalf
      <3> QED BY <1>1, <2>1, <3>3
    <2>2. CASE b = req[t].id
      <3>1. \A u \in Threads \ {t} : ~(pc'[u] \in Saving /\ req'[u].id = b)
        BY <1>1, <2>2 DEF Saves
      <3>2. IF l \in Saving THEN Half(l, req[t].content, file'[b]) ELSE Twins(file'[b])
        BY <1>2, <2>2
      <3> QED BY <1>1, <2>2, <3>1, <3>2
    <2> QED BY <2>1, <2>2
  <1>3. \A u \in Threads : pc'[u] \in Saving => pc[u] \in Saving /\ req'[u] = req[u]
    BY <1>1
  <1> QED BY <1>2, <1>3 DEF Saves

LEMMA SaveSaves ==
  ASSUME UnitsTyped, Saves, NEW t \in Threads, Save(t) PROVE Saves'
  <1> DEFINE b == req[t].id
             F == file[b]
             c == req[t].content
  <1>1. ASSUME NEW l \in Saving, pc[t] = l, b \in Ids, b \notin cut PROVE Half(l, c, F)
    BY <1>1 DEF Saves
  <1>2. "idle" \notin Saving
    BY Places
  <1>3. CASE MakeDir(t)
    <2>1. /\ pc[t] = "mkdir" /\ Serves(t, "write1", req[t])
          /\ file' = file /\ made' = made /\ cut' = cut
      BY <1>3, MakeDirMoves DEF MakeDir, history
    <2>2. b \in Ids
      BY <2>1, RequestFields, Places
    <2>3. b \notin cut' => Half("write1", c, file'[b])
      BY <1>1, <2>1, <2>2, Places DEF Half
    <2>4. \A d \in Ids : Fewer(file[d], file'[d])
      BY <2>1 DEF Fewer
    <2> QED BY <2>1, <2>3, <2>4, SaverMoves, Places
  <1>4. ASSUME NEW here \in Saving, pc[t] = here, made' = made, Breaks(t) PROVE Saves'
    <2>1. Serves(t, "idle", NoReq) /\ cut \subseteq cut' /\ b \in cut'
          /\ \A d \in Ids : Fewer(file[d], file'[d])
      BY <1>4 DEF Breaks, Fewer
    <2> QED BY <1>2, <1>4, <2>1, SaverMoves
  <1>5. ASSUME NEW here \in Saving, NEW tmp \in Tmps, NEW there \in Saving,
               WriteTmp(t, here, tmp, there),
               \A G : /\ Half(here, c, F) /\ G[tmp] = c
                      /\ \A f \in (Files \cup Tmps) \ {tmp} : G[f] = F[f]
                      => Half(there, c, G)
        PROVE  Saves'
    <2>1. /\ pc[t] = here /\ b \in Ids /\ made' = made
          /\ Breaks(t) \/ (Serves(t, there, req[t]) /\ cut' = cut /\ Puts(b, tmp, c))
      <3>1. WriteTmp(t, here, tmp, there)
        BY <1>5
      <3>2. made' = made
        BY <3>1 DEF WriteTmp
      <3> QED BY <3>1, <3>2, WriteTmpMoves
    <2>2. CASE Serves(t, there, req[t]) /\ cut' = cut /\ Puts(b, tmp, c)
      <3>1. \A d \in Ids \ {b} : Fewer(file[d], file'[d])
        BY <2>2 DEF Puts, Fewer
      <3>2. file'[b][tmp] = c /\ \A f \in (Files \cup Tmps) \ {tmp} : file'[b][f] = F[f]
        BY <2>1, <2>2 DEF Puts
      <3>3. b \notin cut' => Half(there, c, file'[b])
        BY <1>1, <1>5, <2>1, <2>2, <3>2
      <3> QED BY <2>1, <2>2, <3>1, <3>3, SaverMoves
    <2> QED BY <1>4, <2>1, <2>2
  <1>6. ASSUME NEW here \in Saving, NEW tmp \in Tmps, NEW f \in Files,
               NEW there \in Saving \cup {"idle"}, Install(t, here, tmp, f, there),
               \A G : /\ Half(here, c, F) /\ G[f] = F[tmp] /\ G[tmp] = Missing
                      /\ \A g \in (Files \cup Tmps) \ {tmp, f} : G[g] = F[g]
                      => IF there \in Saving THEN Half(there, c, G) ELSE Twins(G)
        PROVE  Saves'
    <2>1. /\ pc[t] = here /\ b \in Ids /\ made' = made
          /\ \/ Breaks(t)
             \/ /\ Serves(t, there, IF there = "idle" THEN NoReq ELSE req[t]) /\ cut' = cut
                /\ Renames(b, tmp, f)
      BY <1>6, InstallMoves DEF Install
    <2>2. CASE /\ Serves(t, there, IF there = "idle" THEN NoReq ELSE req[t]) /\ cut' = cut
               /\ Renames(b, tmp, f)
      <3>1. \A d \in Ids \ {b} : Fewer(file[d], file'[d])
        BY <2>2 DEF Renames, Fewer
      <3>2. /\ file'[b][f] = F[tmp] /\ file'[b][tmp] = Missing
            /\ \A g \in (Files \cup Tmps) \ {tmp, f} : file'[b][g] = F[g]
        BY <2>1, <2>2, Places DEF Renames
      <3>3. b \notin cut' =>
              IF there \in Saving THEN Half(there, c, file'[b]) ELSE Twins(file'[b])
        BY <1>1, <1>6, <2>1, <2>2, <3>2
      <3>4. there \in Saving => (IF there = "idle" THEN NoReq ELSE req[t]) = req[t]
        BY <1>2
      <3> QED BY <2>1, <2>2, <3>1, <3>3, <3>4, SaverMoves
    <2> QED BY <1>4, <2>1, <2>2
  <1>7. WriteTmp(t, "write1", "manifest.tmp", "rename1") => Saves'
    <2>1. \A G : /\ Half("write1", c, F) /\ G["manifest.tmp"] = c
                 /\ \A f \in (Files \cup Tmps) \ {"manifest.tmp"} : G[f] = F[f]
                 => Half("rename1", c, G)
      BY Places DEF Half, Twins
    <2> HIDE DEF F, c
    <2> QED BY <1>5, <2>1, Places
  <1>8. WriteTmp(t, "write2", "artifact.tmp", "rename2") => Saves'
    <2>1. \A G : /\ Half("write2", c, F) /\ G["artifact.tmp"] = c
                 /\ \A f \in (Files \cup Tmps) \ {"artifact.tmp"} : G[f] = F[f]
                 => Half("rename2", c, G)
      BY Places DEF Half, Twins
    <2> HIDE DEF F, c
    <2> QED BY <1>5, <2>1, Places
  <1>9. Install(t, "rename1", "manifest.tmp", "manifest", "write2") => Saves'
    <2>1. \A G : /\ Half("rename1", c, F) /\ G["manifest"] = F["manifest.tmp"]
                 /\ G["manifest.tmp"] = Missing
                 /\ \A g \in (Files \cup Tmps) \ {"manifest.tmp", "manifest"} : G[g] = F[g]
                 => IF "write2" \in Saving THEN Half("write2", c, G) ELSE Twins(G)
      BY Places DEF Half
    <2> HIDE DEF F, c
    <2> QED BY <1>6, <2>1, Places
  <1>10. Install(t, "rename2", "artifact.tmp", "artifact", "idle") => Saves'
    <2>1. \A G : /\ Half("rename2", c, F) /\ G["artifact"] = F["artifact.tmp"]
                 /\ G["artifact.tmp"] = Missing
                 /\ \A g \in (Files \cup Tmps) \ {"artifact.tmp", "artifact"} : G[g] = F[g]
                 => IF "idle" \in Saving THEN Half("idle", c, G) ELSE Twins(G)
      <3>1. "manifest" \in (Files \cup Tmps) \ {"artifact.tmp", "artifact"}
        BY Places
      <3> QED BY <1>2, <3>1 DEF Half, Twins
    <2> HIDE DEF F, c
    <2> QED BY <1>6, <2>1, Places
  <1> QED BY <1>3, <1>7, <1>8, <1>9, <1>10 DEF Save

LEMMA SavesKept ==
  ASSUME UnitsTyped, Saves, [Next]_vars PROVE Saves'
  <1>1. Pool \subseteq Threads /\ Loop \in Threads
    BY DEF Threads
  <1>2. \A b \in Ids : Fewer(file[b], file[b])
    BY DEF Fewer
  <1>3. CASE Unmoved
    <2>1. Steady(Saving)
      BY <1>3, Places DEF Unmoved, Steady
    <2> QED BY <1>2, <1>3, <2>1, SavesSteady DEF Unmoved, store, history
  <1>4. CASE Restart
    <2>1. /\ \A t \in Threads : pc'[t] = "idle"
          /\ file' = file /\ cut \subseteq cut'
          /\ \A t \in Threads : pc[t] \in Saving => req[t].id \in cut'
      BY <1>4 DEF Restart, CutBackups, store
    <2>2. "idle" \notin Saving
      BY Places
    <2>3. \A b \in Ids \ cut' : Twins(file[b])
      BY <2>1 DEF Saves
    <2> QED BY <2>1, <2>2, <2>3 DEF Saves
  <1>5. ASSUME NEW b \in Ids, NEW c \in Contents, Upload(b, c) PROVE Saves'
    <2> DEFINE r == [req[Loop] EXCEPT !.id = b, !.content = c]
    <2>1. Serves(Loop, "mkdir", r) /\ pc[Loop] = "idle"
      BY <1>5, UploadMoves
    <2>2. r.id = b
      BY <1>1, RequestFields DEF Requests
    <2> HIDE DEF r
    <2>3. \A u \in Threads : ~(pc[u] \in Saving /\ req[u].id = r.id)
      BY <1>5, <2>2 DEF Upload, SavesOf
    <2>4. made' = made \cup {r.id} /\ cut' = cut /\ file' = file
      BY <1>5, <2>2 DEF Upload, store, history
    <2> QED BY <1>1, <2>1, <2>3, <2>4, SaveBegins, Places
  <1>6. ASSUME NEW t \in Pool, NEW b \in Ids, NEW c \in Contents, NodeMakes(t, b, c) PROVE Saves'
    <2> DEFINE r == [req[t] EXCEPT !.id = b, !.content = c]
    <2>1. Serves(t, "mkdir", r) /\ pc[t] = "node"
      BY <1>1, <1>6, NodeMakesMoves
    <2>2. r.id = b
      BY <1>1, RequestFields DEF Requests
    <2> HIDE DEF r
    <2>3. \A u \in Threads : ~(pc[u] \in Saving /\ req[u].id = r.id)
      BY <1>6, <2>2 DEF NodeMakes, Saves
    <2>4. made' = made \cup {r.id} /\ cut' = cut /\ file' = file
      BY <1>6, <2>2 DEF NodeMakes, store, history
    <2>5. "node" \notin Saving
      BY Places DEF UnitPlaces
    <2> QED BY <1>1, <2>1, <2>3, <2>4, <2>5, SaveBegins
  <1>7. ASSUME NEW t \in Threads, NEW l, NEW r, Serves(t, l, r),
               pc[t] \notin Saving, l \notin Saving, made' = made, cut' = cut,
               \A b \in Ids : Fewer(file[b], file'[b])
        PROVE  Saves'
    BY <1>7, ServesSteady, SavesSteady
  <1>8. ASSUME NEW t \in Pool, NEW b \in Ids, Select(t, b) \/ Delete(t, b) PROVE Saves'
    <2>1. made' = made /\ cut' = cut /\ file' = file /\ pc[t] = "idle"
      BY <1>8 DEF Select, Delete, Request, At, store, history
    <2>2. \E l, r : Serves(t, l, r) /\ l \notin Saving
      BY <1>1, <1>8, SelectMoves, DeleteMoves, Places
    <2> QED BY <1>1, <1>2, <1>7, <2>1, <2>2, Places
  <1>9. ASSUME NEW t \in Pool, Check(t) \/ WriteSelection(t) \/ InstallSelection(t) \/ Clear(t)
        PROVE  Saves'
    <2>1. made' = made /\ cut' = cut /\ file' = file
      BY <1>9 DEF Check, WriteSelection, InstallSelection, Clear, store, history
    <2>2. pc[t] \notin Saving /\ \E l, r : Serves(t, l, r) /\ l \notin Saving
      BY <1>1, <1>9, CheckMoves, WriteSelectionMoves, InstallSelectionMoves, ClearMoves, Places
    <2> QED BY <1>1, <1>2, <1>7, <2>1, <2>2
  <1>10. ASSUME NEW t \in Pool, List(t) \/ RemoveDir(t) PROVE Saves'
    <2>1. made' = made /\ cut' = cut /\ file' = file
      BY <1>10 DEF List, RemoveDir, store
    <2>2. pc[t] \notin Saving /\ \E l, r : Serves(t, l, r) /\ l \notin Saving
      BY <1>1, <1>10, ListMoves, RemoveDirMoves, Places DEF Raises
    <2> QED BY <1>1, <1>2, <1>7, <2>1, <2>2
  <1>11. ASSUME NEW t \in Pool, NEW f \in Files \cup Tmps, Unlink(t, f) PROVE Saves'
    <2>1. made' = made /\ cut' = cut /\ Puts(req[t].id, f, Missing)
      BY <1>1, <1>11, UnlinkMoves DEF Unlink
    <2>2. \A b \in Ids : Fewer(file[b], file'[b])
      BY <2>1 DEF Puts, Fewer
    <2>3. pc[t] \notin Saving /\ \E l, r : Serves(t, l, r) /\ l \notin Saving
      BY <1>1, <1>11, UnlinkMoves, Places DEF Raises
    <2> QED BY <1>1, <1>7, <2>1, <2>2, <2>3
  <1>12. ASSUME NEW t \in Pool, DeleteUnit(t) PROVE Saves'
    <2>1. pc' = pc /\ req' = req /\ made' = made /\ cut' = cut
      BY <1>1, <1>12, Deletes DEF DeleteUnit, LoseBackups
    <2>2. \A b \in Ids : Fewer(file[b], file'[b])
      BY <1>12 DEF DeleteUnit, LoseBackups, Fewer
    <2>3. Steady(Saving)
      BY <2>1 DEF Steady
    <2> QED BY <2>1, <2>2, <2>3, SavesSteady
  <1> QED BY <1>3, <1>4, <1>5, <1>6, <1>8, <1>9, <1>10, <1>11, <1>12, SaveSaves, BackupCases

(* A manifest and an artifact found together are of one save, for any      *)
(* number of uploads, node backups, deletes and deletes of the unit beside *)
(* each other, unless a save of them is under way or stopped half way.     *)
THEOREM BackupsPaired == Spec => []OneBackup
  <1>1. Init => Saves
    BY Places DEF Init, BackupsInit, Saves, Twins
  <1>2. UnitsTyped /\ Saves /\ [Next]_vars => Saves'
    BY SavesKept
  <1>3. Saves => OneBackup
    <2> SUFFICES ASSUME Saves, NEW b \in Ids \ cut, SavesOf(b) = {},
                        Missing \notin {file[b][f] : f \in Files}
                 PROVE  file[b]["manifest"] = file[b]["artifact"]
      BY DEF OneBackup
    <2>1. Twins(file[b])
      BY DEF Saves, SavesOf
    <2> QED BY <2>1, Places DEF Twins
  <1> QED BY <1>1, <1>2, <1>3, InitUnits, NextUnits, PTL DEF Spec

-----------------------------------------------------------------------------
(* The selection.                                                          *)
Choosing == {"write", "rename"}
Removing(t, b) == pc[t] \in Deleting /\ req[t].id = b

Selects ==
  /\ \A t \in Threads : pc[t] \in Choosing /\ req[t].id \notin loose =>
       /\ file[req[t].id]["artifact"] # Missing
       /\ \A d \in Threads : ~Removing(d, req[t].id)
  /\ selTmp # NoId /\ (\E t \in Threads : pc[t] = "rename") =>
       \E w \in Threads : pc[w] = "rename" /\ req[w].id = selTmp
  /\ selected \notin loose \cup {NoId} /\ (\A d \in Threads : ~Removing(d, selected)) =>
       file[selected]["artifact"] # Missing
  /\ \A d \in Threads : Removing(d, selected) /\ selected \notin loose => req[d].saw = selected

\* A delete whose thread no select overtook goes by what the selection is, or
\* was until it was cleared.
Withdraws ==
  \A d \in Threads :
    /\ pc[d] \in Deleting /\ d \notin met => selected \in {NoId, req[d].saw}
    /\ pc[d] = "unselect" => req[d].saw = req[d].id

Withdrawn == selected # NoId /\ selected' = NoId

LEMMA ChoosingPlaces ==
  /\ Choosing \subseteq Selecting /\ Choosing \cap Deleting = {} /\ Choosing \cap Saving = {}
  /\ "idle" \notin Choosing /\ "clear" \notin Choosing /\ "check" \notin Choosing
  /\ "rename" \in Choosing /\ "write" \in Choosing
  BY Places DEF Choosing, Selecting

\* The steps that neither select nor delete.
SelectsFrame ==
  /\ Steady(Choosing) /\ Steady(Deleting)
  /\ selected' = selected /\ selTmp' = selTmp /\ loose \subseteq loose' /\ met' = met
  /\ \A b \in Ids : file[b]["artifact"] # Missing => file'[b]["artifact"] # Missing

LEMMA SelectsSteady ==
  ASSUME UnitsTyped, Selects, Withdraws, SelectsFrame
  PROVE  Selects' /\ Withdraws' /\ ~Withdrawn
  <1>1. \A t \in Threads : /\ pc'[t] \in Choosing <=> pc[t] \in Choosing
                           /\ pc'[t] \in Choosing => pc'[t] = pc[t] /\ req'[t] = req[t]
    BY DEF SelectsFrame, Steady
  <1>2. \A t \in Threads : /\ pc'[t] \in Deleting <=> pc[t] \in Deleting
                           /\ pc'[t] \in Deleting => pc'[t] = pc[t] /\ req'[t] = req[t]
    BY DEF SelectsFrame, Steady
  <1>3. \A t \in Threads : pc[t] \in Choosing => req[t].id \in Ids
    BY RequestFields, ChoosingPlaces, Places
  <1>5. selected \in Ids \cup {NoId}
    BY Stored DEF StoredTyped
  <1>6. Selects'
    <2>1. \A t \in Threads : pc'[t] \in Choosing /\ req'[t].id \notin loose' =>
            /\ file'[req'[t].id]["artifact"] # Missing
            /\ \A d \in Threads : ~(pc'[d] \in Deleting /\ req'[d].id = req'[t].id)
      BY <1>1, <1>2, <1>3 DEF Selects, SelectsFrame, Removing
    <2>2. selTmp' # NoId /\ (\E t \in Threads : pc'[t] = "rename") =>
            \E w \in Threads : pc'[w] = "rename" /\ req'[w].id = selTmp'
      BY <1>1, ChoosingPlaces DEF Selects, SelectsFrame
    <2>3. selected' \notin loose' \cup {NoId}
          /\ (\A d \in Threads : ~(pc'[d] \in Deleting /\ req'[d].id = selected')) =>
            file'[selected']["artifact"] # Missing
      BY <1>2, <1>5 DEF Selects, SelectsFrame, Removing
    <2>4. \A d \in Threads :
            pc'[d] \in Deleting /\ req'[d].id = selected' /\ selected' \notin loose'
              => req'[d].saw = selected'
      BY <1>2 DEF Selects, SelectsFrame, Removing
    <2> QED BY <2>1, <2>2, <2>3, <2>4 DEF Selects, Removing
  <1>7. Withdraws'
    BY <1>2, Places DEF Withdraws, SelectsFrame
  <1> QED BY <1>6, <1>7 DEF SelectsFrame, Withdrawn

\* A thread that neither selects nor deletes, before or after its step.
LEMMA FrameServes ==
  ASSUME UnitsTyped, NEW t \in Threads, NEW l, NEW r, Serves(t, l, r),
         {pc[t], l} \cap (Choosing \cup Deleting) = {},
         UNCHANGED <<selected, selTmp, met>>, loose \subseteq loose',
         \A b \in Ids : file[b]["artifact"] # Missing => file'[b]["artifact"] # Missing
  PROVE  SelectsFrame
  <1>1. Steady(Choosing)
    BY ServesSteady
  <1>2. Steady(Deleting)
    BY ServesSteady
  <1> QED BY <1>1, <1>2 DEF SelectsFrame

LEMMA SaveFrame ==
  ASSUME UnitsTyped, NEW t \in Threads, Save(t) PROVE SelectsFrame
  <1>1. UNCHANGED <<selected, selTmp, loose, met>>
    BY DEF Save, MakeDir, WriteTmp, Install, history
  <1>2. {"idle"} \cap (Choosing \cup Deleting) = {} /\ Saving \cap (Choosing \cup Deleting) = {}
    BY Places, ChoosingPlaces
  <1>3. CASE MakeDir(t)
    <2>1. pc[t] \in Saving /\ Serves(t, "write1", req[t]) /\ file' = file
      BY <1>3, MakeDirMoves, Places DEF MakeDir
    <2>2. {pc[t], "write1"} \cap (Choosing \cup Deleting) = {}
      BY <1>2, <2>1, Places
    <2> QED BY <1>1, <2>1, <2>2, FrameServes
  <1>4. ASSUME Breaks(t), pc[t] \in Saving PROVE SelectsFrame
    <2>1. {pc[t], "idle"} \cap (Choosing \cup Deleting) = {}
      BY <1>2, <1>4
    <2> QED BY <1>1, <1>4, <2>1, FrameServes DEF Breaks
  <1>5. ASSUME NEW here \in Saving, NEW tmp \in Tmps, NEW there \in Saving,
               WriteTmp(t, here, tmp, there)
        PROVE  SelectsFrame
    <2>1. /\ pc[t] = here
          /\ \/ Breaks(t)
             \/ /\ Serves(t, there, req[t]) /\ cut' = cut
                /\ Puts(req[t].id, tmp, req[t].content)
      BY <1>5, WriteTmpMoves
    <2>2. CASE Serves(t, there, req[t]) /\ Puts(req[t].id, tmp, req[t].content)
      <3>1. {pc[t], there} \cap (Choosing \cup Deleting) = {}
        BY <1>2, <1>5, <2>1
      <3>2. \A b \in Ids : file'[b]["artifact"] = file[b]["artifact"]
        BY <2>2, Places DEF Puts
      <3> QED BY <1>1, <2>2, <3>1, <3>2, FrameServes
    <2> QED BY <1>4, <2>1, <2>2
  <1>6. ASSUME NEW here \in Saving, NEW tmp \in Tmps, NEW f \in Files,
               NEW there \in Saving \cup {"idle"}, Install(t, here, tmp, f, there)
        PROVE  SelectsFrame
    <2> DEFINE r == IF there = "idle" THEN NoReq ELSE req[t]
    <2>1. /\ pc[t] = here
          /\ \/ Breaks(t)
             \/ /\ file[req[t].id][tmp] # Missing /\ Serves(t, there, r)
                /\ Renames(req[t].id, tmp, f)
      BY <1>6, InstallMoves
    <2> HIDE DEF r
    <2>2. CASE /\ file[req[t].id][tmp] # Missing /\ Serves(t, there, r)
               /\ Renames(req[t].id, tmp, f)
      <3>1. {pc[t], there} \cap (Choosing \cup Deleting) = {}
        BY <1>2, <1>6, <2>1
      <3>2. \A b \in Ids : file[b]["artifact"] # Missing => file'[b]["artifact"] # Missing
        BY <2>2, Places DEF Renames
      <3> QED BY <1>1, <2>2, <3>1, <3>2, FrameServes
    <2> QED BY <1>4, <2>1, <2>2
  <1> QED BY <1>3, <1>5, <1>6, Places DEF Save

\* A delete goes on, or ends.
LEMMA DeleterMoves ==
  ASSUME UnitsTyped, Selects, Withdraws, NEW t \in Threads, NEW l, NEW r, Serves(t, l, r),
         pc[t] \in Deleting, l \in Deleting \cup {"idle"},
         l \in Deleting => r.id = req[t].id /\ r.saw = req[t].saw /\ met' = met,
         l = "unselect" => r.saw = r.id,
         l = "idle" => req[t].id \in loose' \/ req[t].saw # req[t].id,
         selected' = selected, selTmp' = selTmp, loose \subseteq loose', met \ {t} \subseteq met',
         \A c \in Ids \ {req[t].id} : file'[c]["artifact"] = file[c]["artifact"]
  PROVE  Selects' /\ Withdraws' /\ ~Withdrawn
  <1> DEFINE b == req[t].id
  <1>1. /\ pc'[t] = l /\ req'[t] = r
        /\ \A u \in Threads \ {t} : pc'[u] = pc[u] /\ req'[u] = req[u]
    BY ServesAt
  <1>2. /\ pc[t] \notin Choosing /\ l \notin Choosing
        /\ "idle" \notin Deleting /\ "rename" \notin Deleting
    BY Places, ChoosingPlaces
  <1>3. \A u \in Threads : pc[u] \in Choosing => req[u].id \in Ids
    BY RequestFields, ChoosingPlaces, Places
  <1>4. selected \in Ids \cup {NoId}
    BY Stored DEF StoredTyped
  <1>5. Selects'
    <2>1. \A u \in Threads : pc'[u] \in Choosing /\ req'[u].id \notin loose' =>
            /\ file'[req'[u].id]["artifact"] # Missing
            /\ \A d \in Threads : ~(pc'[d] \in Deleting /\ req'[d].id = req'[u].id)
      <3> SUFFICES ASSUME NEW u \in Threads, pc'[u] \in Choosing, req'[u].id \notin loose'
                   PROVE  /\ file'[req'[u].id]["artifact"] # Missing
                          /\ \A d \in Threads : ~(pc'[d] \in Deleting /\ req'[d].id = req'[u].id)
        OBVIOUS
      <3>1. u # t /\ pc[u] \in Choosing /\ req'[u] = req[u] /\ req[u].id \notin loose
        BY <1>1, <1>2
      <3>2. /\ file[req[u].id]["artifact"] # Missing
            /\ \A d \in Threads : ~(pc[d] \in Deleting /\ req[d].id = req[u].id)
        BY <3>1 DEF Selects, Removing
      <3>3. req[u].id \in Ids \ {req[t].id}
        BY <1>3, <3>1, <3>2
      <3> QED BY <1>1, <1>2, <3>1, <3>2, <3>3
    <2>2. selTmp' # NoId /\ (\E u \in Threads : pc'[u] = "rename") =>
            \E w \in Threads : pc'[w] = "rename" /\ req'[w].id = selTmp'
      BY <1>1, <1>2, ChoosingPlaces DEF Selects
    <2>3. selected' \notin loose' \cup {NoId}
          /\ (\A d \in Threads : ~(pc'[d] \in Deleting /\ req'[d].id = selected')) =>
            file'[selected']["artifact"] # Missing
      <3> SUFFICES ASSUME selected \notin loose' \cup {NoId},
                          \A d \in Threads : ~(pc'[d] \in Deleting /\ req'[d].id = selected)
                   PROVE  file'[selected]["artifact"] # Missing
        OBVIOUS
      <3>1. selected # b
        BY <1>1 DEF Selects, Removing
      <3>2. \A d \in Threads : ~Removing(d, selected)
        BY <1>1, <3>1 DEF Removing
      <3> QED BY <1>4, <3>1, <3>2 DEF Selects
    <2>4. \A d \in Threads :
            pc'[d] \in Deleting /\ req'[d].id = selected' /\ selected' \notin loose'
              => req'[d].saw = selected'
      BY <1>1, <1>2 DEF Selects, Removing
    <2> QED BY <2>1, <2>2, <2>3, <2>4 DEF Selects, Removing
  <1>6. Withdraws'
    BY <1>1, <1>2, Places DEF Withdraws
  <1> QED BY <1>5, <1>6 DEF Withdrawn

\* A thread that selects goes on, or ends, with the selection as it was.
LEMMA SelecterMoves ==
  ASSUME UnitsTyped, Selects, Withdraws, NEW t \in Threads, NEW l, NEW r, Serves(t, l, r),
         pc[t] \in {"check", "write"}, l \in Choosing,
         r = req[t], selected' = selected, loose \subseteq loose', met' = met, file' = file,
         l = "write" => selTmp' = selTmp,
         l = "rename" => selTmp' = req[t].id,
         req[t].id \notin loose' => /\ file[req[t].id]["artifact"] # Missing
                                    /\ \A d \in Threads : ~Removing(d, req[t].id)
  PROVE  Selects' /\ Withdraws' /\ ~Withdrawn
  <1>1. /\ pc'[t] = l /\ req'[t] = req[t]
        /\ \A u \in Threads \ {t} : pc'[u] = pc[u] /\ req'[u] = req[u]
    BY ServesAt
  <1>2. /\ pc[t] \notin Deleting /\ l \notin Deleting /\ l \in {"write", "rename"} /\ l # "unselect"
        /\ pc[t] # "rename"
    BY Places, ChoosingPlaces DEF Choosing
  <1>3. \A b : \A d \in Threads : (pc'[d] \in Deleting /\ req'[d].id = b) <=> Removing(d, b)
    BY <1>1, <1>2 DEF Removing
  <1>4. \A u \in Threads : pc'[u] \in Choosing /\ req'[u].id \notin loose' =>
          /\ file[req'[u].id]["artifact"] # Missing
          /\ \A d \in Threads : ~Removing(d, req'[u].id)
    BY <1>1 DEF Selects
  <1>5. selTmp' # NoId /\ (\E u \in Threads : pc'[u] = "rename") =>
          \E w \in Threads : pc'[w] = "rename" /\ req'[w].id = selTmp'
    <2>1. CASE l = "write"
      BY <1>1, <1>2, <2>1 DEF Selects
    <2>2. CASE l = "rename"
      BY <1>1, <2>2
    <2> QED BY <1>2, <2>1, <2>2
  <1>6. \A d \in Threads : Removing(d, selected) => req'[d] = req[d]
    BY <1>1
  <1>7. Selects'
    <2>1. \A d \in Threads :
            pc'[d] \in Deleting /\ req'[d].id = selected' /\ selected' \notin loose'
              => req'[d].saw = selected'
      BY <1>3, <1>6 DEF Selects
    <2>2. selected' \notin loose' \cup {NoId}
          /\ (\A d \in Threads : ~(pc'[d] \in Deleting /\ req'[d].id = selected')) =>
            file'[selected']["artifact"] # Missing
      <3> SUFFICES ASSUME selected \notin loose' \cup {NoId},
                          \A d \in Threads : ~(pc'[d] \in Deleting /\ req'[d].id = selected)
                   PROVE  file[selected]["artifact"] # Missing
        OBVIOUS
      <3>1. \A d \in Threads : ~Removing(d, selected)
        BY <1>3
      <3> QED BY <3>1 DEF Selects
    <2>3. \A u \in Threads : pc'[u] \in Choosing /\ req'[u].id \notin loose' =>
            /\ file'[req'[u].id]["artifact"] # Missing
            /\ \A d \in Threads : ~(pc'[d] \in Deleting /\ req'[d].id = req'[u].id)
      BY <1>3, <1>4
    <2> QED BY <1>5, <2>1, <2>2, <2>3 DEF Selects, Removing
  <1>8. Withdraws'
    BY <1>1, <1>2 DEF Withdraws
  <1> QED BY <1>7, <1>8 DEF Withdrawn

\* The rename of the temporary file another request may have written.
LEMMA InstallSelects ==
  ASSUME UnitsTyped, Selects, Withdraws, NEW t \in Threads, InstallSelection(t)
  PROVE  Selects' /\ Withdraws' /\ ~Withdrawn
  <1>1. /\ pc[t] = "rename" /\ pc'[t] = "idle" /\ loose' = loose /\ file' = file
        /\ \A u \in Threads \ {t} : pc'[u] = pc[u] /\ req'[u] = req[u]
    BY InstallSelectionMoves, ServesAt DEF InstallSelection, store
  <1>2. "rename" \notin Deleting /\ "idle" \notin Deleting /\ "idle" \notin Choosing
        /\ "rename" \in Choosing /\ "unselect" \in Deleting
    BY Places, ChoosingPlaces
  <1>3. \A b : \A d \in Threads : (pc'[d] \in Deleting /\ req'[d].id = b) <=> Removing(d, b)
    BY <1>1, <1>2 DEF Removing
  <1>4. \A d \in Threads : pc'[d] \in Deleting => pc'[d] = pc[d] /\ req'[d] = req[d]
    BY <1>1, <1>2
  <1>5. \A u \in Threads : pc'[u] \in Choosing /\ req'[u].id \notin loose' =>
          /\ file'[req'[u].id]["artifact"] # Missing
          /\ \A d \in Threads : ~(pc'[d] \in Deleting /\ req'[d].id = req'[u].id)
    BY <1>1, <1>2, <1>3 DEF Selects
  <1>6. CASE selTmp = NoId
    <2>1. selected' = selected /\ selTmp' = selTmp /\ met' = met
      BY <1>6 DEF InstallSelection
    <2>2. Selects'
      <3>1. \A d \in Threads :
              pc'[d] \in Deleting /\ req'[d].id = selected' /\ selected' \notin loose'
                => req'[d].saw = selected'
        BY <1>1, <1>3, <1>4, <2>1 DEF Selects
      <3>2. selected' \notin loose' \cup {NoId}
            /\ (\A d \in Threads : ~(pc'[d] \in Deleting /\ req'[d].id = selected')) =>
              file'[selected']["artifact"] # Missing
        BY <1>1, <1>3, <2>1 DEF Selects
      <3> QED BY <1>5, <1>6, <2>1, <3>1, <3>2 DEF Selects, Removing
    <2>3. Withdraws'
      BY <1>2, <1>4, <2>1 DEF Withdraws
    <2> QED BY <2>1, <2>2, <2>3 DEF Withdrawn
  <1>7. CASE selTmp # NoId
    <2>1. /\ selected' = selTmp /\ selTmp' = NoId
          /\ met' = met \cup {u \in Threads : pc[u] \in Deleting}
      BY <1>7 DEF InstallSelection
    <2>2. PICK w \in Threads : pc[w] = "rename" /\ req[w].id = selTmp
      BY <1>1, <1>7 DEF Selects
    <2>3. selTmp \notin loose => /\ file[selTmp]["artifact"] # Missing
                                 /\ \A d \in Threads : ~Removing(d, selTmp)
      BY <1>2, <2>2 DEF Selects
    <2>4. Selects'
      <3>1. \A d \in Threads :
              pc'[d] \in Deleting /\ req'[d].id = selected' /\ selected' \notin loose'
                => req'[d].saw = selected'
        BY <1>1, <1>3, <2>1, <2>3
      <3>2. selected' \notin loose' \cup {NoId}
            /\ (\A d \in Threads : ~(pc'[d] \in Deleting /\ req'[d].id = selected')) =>
              file'[selected']["artifact"] # Missing
        BY <1>1, <2>1, <2>3
      <3> QED BY <1>5, <2>1, <3>1, <3>2 DEF Selects, Removing
    <2>5. Withdraws'
      BY <1>2, <1>4, <2>1 DEF Withdraws
    <2> QED BY <1>7, <2>1, <2>4, <2>5 DEF Withdrawn
  <1> QED BY <1>6, <1>7

\* The selection is cleared.
LEMMA ClearSelects ==
  ASSUME UnitsTyped, Selects, Withdraws, NEW t \in Pool, Clear(t)
  PROVE  Selects' /\ Withdraws' /\ (Withdrawn => MayWithdraw)
  <1>1. t \in Threads
    BY DEF Threads
  <1>2. /\ pc[t] \in {"clear", "unselect"} /\ pc'[t] = "idle" /\ loose' = loose /\ file' = file
        /\ selected' = NoId /\ selTmp' = selTmp /\ met' = met \ {t}
        /\ \A u \in Threads \ {t} : pc'[u] = pc[u] /\ req'[u] = req[u]
    BY <1>1, ClearMoves, ServesAt DEF Clear, store
  <1>3. /\ "idle" \notin Deleting /\ "idle" \notin Choosing /\ "clear" \notin Choosing
        /\ "unselect" \notin Choosing /\ "unselect" \in Deleting /\ "clear" # "rename"
    BY Places, ChoosingPlaces DEF Choosing
  <1>4. \A u \in Threads : pc[u] \in BackupPlaces => req[u].id # NoId
    BY RequestFields, BackupConstants
  <1>5. \A b : \A d \in Threads :
          (pc'[d] \in Deleting /\ req'[d].id = b) => Removing(d, b) /\ b # NoId
    BY <1>2, <1>3, <1>4, Places DEF Removing
  <1>6. Selects'
    <2>1. \A u \in Threads : pc'[u] \in Choosing /\ req'[u].id \notin loose' =>
            /\ file'[req'[u].id]["artifact"] # Missing
            /\ \A d \in Threads : ~(pc'[d] \in Deleting /\ req'[d].id = req'[u].id)
      BY <1>2, <1>3, <1>5 DEF Selects
    <2>2. selTmp' # NoId /\ (\E u \in Threads : pc'[u] = "rename") =>
            \E w \in Threads : pc'[w] = "rename" /\ req'[w].id = selTmp'
      BY <1>2, <1>3 DEF Selects
    <2>3. \A d \in Threads : ~(pc'[d] \in Deleting /\ req'[d].id = selected')
      BY <1>2, <1>5
    <2> QED BY <1>2, <2>1, <2>2, <2>3 DEF Selects, Removing
  <1>7. Withdraws'
    BY <1>2, <1>3 DEF Withdraws
  <1>8. Withdrawn => MayWithdraw
    BY <1>1, <1>2, <1>3 DEF Withdrawn, MayWithdraw, Withdraws, At
  <1> QED BY <1>6, <1>7, <1>8

\* A delete begins.
LEMMA DeleteSelects ==
  ASSUME UnitsTyped, Selects, Withdraws, NEW t \in Threads, NEW b \in Ids, Delete(t, b)
  PROVE  Selects' /\ Withdraws' /\ ~Withdrawn
  <1> DEFINE r == [req[t] EXCEPT !.id = b, !.saw = selected]
  <1>1. r.id = b /\ r.saw = selected
    BY RequestFields DEF Requests
  <1>2. pc[t] = "idle" /\ Serves(t, "list", r)
    BY DeleteMoves
  <1> HIDE DEF r
  <1>3. /\ pc'[t] = "list" /\ req'[t] = r
        /\ \A u \in Threads \ {t} : pc'[u] = pc[u] /\ req'[u] = req[u]
        /\ UNCHANGED <<file, selected, selTmp, met>>
        /\ loose' = IF SelectsOf(b) # {} THEN loose \cup {b} ELSE loose
    BY <1>2, ServesAt DEF Delete, store
  <1>4. /\ "list" \notin Choosing /\ "list" # "unselect" /\ "rename" \in Choosing
        /\ Selecting \ {"check"} = Choosing
    BY Places, ChoosingPlaces DEF Choosing, Selecting
  <1>5. \A u \in Threads : pc'[u] \in Choosing => u # t /\ pc[u] \in Choosing /\ req'[u] = req[u]
    BY <1>3, <1>4
  <1>6. \A u \in Threads : pc[u] \in Choosing /\ req[u].id = b => b \in loose'
    BY <1>3, <1>4 DEF SelectsOf
  <1>7. Selects'
    <2>1. \A u \in Threads : pc'[u] \in Choosing /\ req'[u].id \notin loose' =>
            /\ file'[req'[u].id]["artifact"] # Missing
            /\ \A d \in Threads : ~(pc'[d] \in Deleting /\ req'[d].id = req'[u].id)
      BY <1>1, <1>3, <1>5, <1>6 DEF Selects, Removing
    <2>2. selTmp' # NoId /\ (\E u \in Threads : pc'[u] = "rename") =>
            \E w \in Threads : pc'[w] = "rename" /\ req'[w].id = selTmp'
      BY <1>2, <1>3, <1>4, <1>5 DEF Selects
    <2>3. selected' \notin loose' \cup {NoId}
          /\ (\A d \in Threads : ~(pc'[d] \in Deleting /\ req'[d].id = selected')) =>
            file'[selected']["artifact"] # Missing
      BY <1>2, <1>3, Places DEF Selects, Removing
    <2>4. \A d \in Threads :
            pc'[d] \in Deleting /\ req'[d].id = selected' /\ selected' \notin loose'
              => req'[d].saw = selected'
      BY <1>1, <1>3 DEF Selects, Removing
    <2> QED BY <2>1, <2>2, <2>3, <2>4 DEF Selects, Removing
  <1>8. Withdraws'
    BY <1>1, <1>3, <1>4 DEF Withdraws
  <1> QED BY <1>3, <1>7, <1>8 DEF Withdrawn

LEMMA SelectsKept ==
  ASSUME UnitsTyped, Selects, Withdraws, [Next]_vars
  PROVE  Selects' /\ Withdraws' /\ (Withdrawn => MayWithdraw)
  <1>1. Pool \subseteq Threads /\ Loop \in Threads
    BY DEF Threads
  <1>2. CASE Unmoved
    <2>1. Steady(Choosing) /\ Steady(Deleting)
      BY <1>2, Places, ChoosingPlaces DEF Unmoved, Steady
    <2>2. SelectsFrame
      BY <1>2, <2>1 DEF Unmoved, SelectsFrame, store, history
    <2> QED BY <2>2, SelectsSteady
  <1>3. CASE Restart
    <2>1. /\ \A t \in Threads : pc'[t] = "idle"
          /\ UNCHANGED <<file, selected, selTmp>> /\ loose \subseteq loose'
          /\ \A t \in Threads : pc[t] \in Deleting => req[t].id \in loose'
      BY <1>3 DEF Restart, CutBackups, store
    <2>2. /\ "idle" \notin Choosing /\ "idle" \notin Deleting
          /\ "idle" # "rename" /\ "idle" # "unselect"
      BY Places, ChoosingPlaces
    <2>3. selected \notin loose' \cup {NoId} => \A d \in Threads : ~Removing(d, selected)
      BY <2>1 DEF Removing
    <2>4. selected \notin loose' \cup {NoId} => file[selected]["artifact"] # Missing
      BY <2>1, <2>3 DEF Selects
    <2>5. Selects'
      BY <2>1, <2>2, <2>4 DEF Selects, Removing
    <2> QED BY <2>1, <2>2, <2>5 DEF Withdraws, Withdrawn
  <1>4. ASSUME NEW b \in Ids, NEW c \in Contents, Upload(b, c)
        PROVE  Selects' /\ Withdraws' /\ ~Withdrawn
    <2>1. Serves(Loop, "mkdir", [req[Loop] EXCEPT !.id = b, !.content = c]) /\ pc[Loop] = "idle"
      BY <1>4, UploadMoves
    <2>2. {pc[Loop], "mkdir"} \cap (Choosing \cup Deleting) = {}
      BY <2>1, Places, ChoosingPlaces
    <2>3. SelectsFrame
      BY <1>1, <1>4, <2>1, <2>2, FrameServes DEF Upload, store, history
    <2> QED BY <2>3, SelectsSteady
  <1>5. ASSUME NEW t \in Pool, NEW b \in Ids, NEW c \in Contents, NodeMakes(t, b, c)
        PROVE  Selects' /\ Withdraws' /\ ~Withdrawn
    <2>1. Serves(t, "mkdir", [req[t] EXCEPT !.id = b, !.content = c]) /\ pc[t] = "node"
      BY <1>1, <1>5, NodeMakesMoves
    <2>2. {pc[t], "mkdir"} \cap (Choosing \cup Deleting) = {}
      BY <2>1, Places, ChoosingPlaces DEF UnitPlaces
    <2>3. SelectsFrame
      BY <1>1, <1>5, <2>1, <2>2, FrameServes DEF NodeMakes, store, history
    <2> QED BY <2>3, SelectsSteady
  <1>6. ASSUME NEW t \in Threads, Save(t) PROVE Selects' /\ Withdraws' /\ ~Withdrawn
    BY <1>6, SaveFrame, SelectsSteady
  <1>7. ASSUME NEW t \in Pool, NEW b \in Ids, Select(t, b)
        PROVE  Selects' /\ Withdraws' /\ ~Withdrawn
    <2>1. Serves(t, "check", [req[t] EXCEPT !.id = b]) /\ pc[t] = "idle"
      BY <1>1, <1>7, SelectMoves
    <2>2. {pc[t], "check"} \cap (Choosing \cup Deleting) = {}
      BY <2>1, Places, ChoosingPlaces
    <2>3. SelectsFrame
      BY <1>1, <1>7, <2>1, <2>2, FrameServes DEF Select, store, history
    <2> QED BY <2>3, SelectsSteady
  <1>8. ASSUME NEW t \in Pool, Check(t) PROVE Selects' /\ Withdraws' /\ ~Withdrawn
    <2>1. /\ pc[t] = "check" /\ UNCHANGED <<file, selected, selTmp, met>> /\ loose \subseteq loose'
          /\ DeletesOf(req[t].id) # {} => req[t].id \in loose'
      BY <1>8 DEF Check, At, store
    <2>2. CASE Serves(t, "write", req[t]) /\ file[req[t].id]["artifact"] # Missing
      <3>1. req[t].id \notin loose' => \A d \in Threads : ~Removing(d, req[t].id)
        BY <2>1 DEF DeletesOf, Removing
      <3> QED BY <1>1, <2>1, <2>2, <3>1, SelecterMoves, ChoosingPlaces
    <2>3. CASE Serves(t, "idle", NoReq)
      <3>1. {pc[t], "idle"} \cap (Choosing \cup Deleting) = {}
        BY <2>1, Places, ChoosingPlaces
      <3>2. SelectsFrame
        BY <1>1, <2>1, <2>3, <3>1, FrameServes
      <3> QED BY <3>2, SelectsSteady
    <2> QED BY <1>1, <1>8, <2>2, <2>3, CheckMoves
  <1>9. ASSUME NEW t \in Pool, WriteSelection(t) PROVE Selects' /\ Withdraws' /\ ~Withdrawn
    <2>1. /\ pc[t] = "write" /\ Serves(t, "rename", req[t])
          /\ UNCHANGED <<file, selected, loose, met>> /\ selTmp' = req[t].id
      BY <1>1, <1>9, WriteSelectionMoves DEF WriteSelection, store, history
    <2>2. req[t].id \notin loose' => /\ file[req[t].id]["artifact"] # Missing
                                     /\ \A d \in Threads : ~Removing(d, req[t].id)
      BY <1>1, <2>1, ChoosingPlaces DEF Selects
    <2> QED BY <1>1, <2>1, <2>2, SelecterMoves, ChoosingPlaces
  <1>10. ASSUME NEW t \in Pool, List(t) PROVE Selects' /\ Withdraws' /\ ~Withdrawn
    <2> DEFINE r == [req[t] EXCEPT !.listed = Has(req[t].id)]
    <2>1. r.id = req[t].id /\ r.saw = req[t].saw
      BY <1>1, RequestFields DEF Requests
    <2> HIDE DEF r
    <2>2. UNCHANGED <<file, selected, selTmp>> /\ pc[t] \in Deleting
      BY <1>10, Places DEF List, At, store
    <2>3. CASE Raises(t)
      BY <1>1, <2>2, <2>3, DeleterMoves, Places DEF Raises
    <2>4. CASE UNCHANGED <<loose, met>> /\ Serves(t, "unlink", r)
      BY <1>1, <2>1, <2>2, <2>4, DeleterMoves, Places
    <2> QED BY <1>1, <1>10, <2>3, <2>4, ListMoves DEF r
  <1>11. ASSUME NEW t \in Pool, NEW f \in Files \cup Tmps, Unlink(t, f)
         PROVE  Selects' /\ Withdraws' /\ ~Withdrawn
    <2> DEFINE r == [req[t] EXCEPT !.listed = @ \ {f}]
    <2>1. r.id = req[t].id /\ r.saw = req[t].saw
      BY <1>1, RequestFields DEF Requests
    <2> HIDE DEF r
    <2>2. UNCHANGED <<selected, selTmp>> /\ pc[t] \in Deleting /\ Puts(req[t].id, f, Missing)
      BY <1>1, <1>11, UnlinkMoves, Places DEF Unlink
    <2>3. \A c \in Ids \ {req[t].id} : file'[c]["artifact"] = file[c]["artifact"]
      BY <2>2, Places DEF Puts
    <2>4. CASE Raises(t)
      BY <1>1, <2>2, <2>3, <2>4, DeleterMoves, Places DEF Raises
    <2>5. CASE UNCHANGED <<loose, met>> /\ Serves(t, "unlink", r)
      BY <1>1, <2>1, <2>2, <2>3, <2>5, DeleterMoves, Places
    <2> QED BY <1>1, <1>11, <2>4, <2>5, UnlinkMoves DEF r
  <1>12. ASSUME NEW t \in Pool, RemoveDir(t) PROVE Selects' /\ Withdraws' /\ ~Withdrawn
    <2>1. UNCHANGED <<file, selected, selTmp>> /\ pc[t] \in Deleting
      BY <1>12, Places DEF RemoveDir, At
    <2>2. CASE Raises(t)
      BY <1>1, <2>1, <2>2, DeleterMoves, Places DEF Raises
    <2>3. CASE /\ req[t].saw = req[t].id /\ UNCHANGED <<loose, met>>
               /\ Serves(t, "unselect", req[t])
      BY <1>1, <2>1, <2>3, DeleterMoves, Places
    <2>4. CASE /\ req[t].saw # req[t].id /\ UNCHANGED loose /\ met' = met \ {t}
               /\ Serves(t, "idle", NoReq)
      BY <1>1, <2>1, <2>4, DeleterMoves, Places
    <2> QED BY <1>1, <1>12, <2>2, <2>3, <2>4, RemoveDirMoves
  <1>13. ASSUME NEW t \in Pool, DeleteUnit(t)
         PROVE  Selects' /\ Withdraws' /\ (Withdrawn => MayWithdraw)
    <2>1. /\ pc' = pc /\ req' = req /\ selected' = NoId /\ selTmp' = NoId /\ loose \subseteq loose'
          /\ dir' = {}
          /\ \A u \in Threads : pc[u] \in Deleting \cup Selecting => req[u].id \in loose'
      BY <1>1, <1>13, Deletes DEF DeleteUnit, LoseBackups
    <2>2. \A u \in Threads : pc[u] \in Deleting => req[u].id # NoId
      BY RequestFields, BackupConstants, Places
    <2>3. Selects'
      BY <2>1, <2>2, ChoosingPlaces DEF Selects, Removing
    <2> QED BY <2>1, <2>3 DEF Withdraws, MayWithdraw
  <1> QED BY <1>1, <1>2, <1>3, <1>4, <1>5, <1>6, <1>7, <1>8, <1>9, <1>10, <1>11, <1>12, <1>13,
             InstallSelects, ClearSelects, DeleteSelects, BackupCases

LEMMA InitSelects == Init => Selects /\ Withdraws
  BY Places, ChoosingPlaces DEF Init, BackupsInit, Selects, Withdraws, Removing

(* The backup selected for the restore is there, for any number of         *)
(* selects, deletes, uploads and deletes of the unit, and whichever        *)
(* request's temporary selection file a rename installs: unless a delete   *)
(* of it is under way, was cut short, or ran beside a select of it.        *)
THEOREM SelectionExists == Spec => []SelectedExists
  <1>1. UnitsTyped /\ Selects /\ Withdraws /\ [Next]_vars => Selects' /\ Withdraws'
    BY SelectsKept
  <1>2. Selects => SelectedExists
    BY DEF Selects, SelectedExists, DeletesOf, Removing
  <1> QED BY <1>1, <1>2, InitSelects, InitUnits, NextUnits, PTL DEF Spec

(* Only a request to clear it, its backup's end, or a delete that a select *)
(* overtook withdraws a selection: delete_unit_backup reads the selection  *)
(* before it removes anything, and clears it after.                        *)
THEOREM SelectionsKeep == Spec => SelectionKept
  <1>1. UnitsTyped /\ Selects /\ Withdraws /\ [Next]_vars => Selects' /\ Withdraws'
    BY SelectsKept
  <1>2. UnitsTyped /\ Selects /\ Withdraws /\ [Next]_vars =>
          [selected # NoId /\ selected' = NoId => MayWithdraw]_vars
    BY SelectsKept DEF Withdrawn
  <1> QED BY <1>1, <1>2, InitSelects, InitUnits, NextUnits, PTL DEF Spec, SelectionKept
=============================================================================
