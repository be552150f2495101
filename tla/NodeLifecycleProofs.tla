------------------------- MODULE NodeLifecycleProofs -------------------------
(***************************************************************************)
(* What holds of the node records for every number of nodes, request       *)
(* threads, instances and addresses: types, what heartbeats and requests   *)
(* may and may not do to a record, and whose instance a request acts on.   *)
(***************************************************************************)
EXTENDS NodeLifecycle, TLAPS

(* Where a request stands: what its thread holds at each point.            *)
Placed ==
  \A t \in Threads :
    /\ job[t].op = "none" => job[t].at = "none"
    /\ job[t].at = "wait" => job[t].iid \in Instances
    /\ job[t].pub = Placeholder => job[t].op = "snooze"
    /\ stage[t] # "idle" => job[t].at = "upsert" /\ job[t].node = target[t]

(* Two updates of one record leave its node in overlap.                    *)
OneUpdate ==
  \A t, u \in Threads :
    t # u /\ stage[t] # "idle" /\ stage[u] # "idle" /\ target[t] = target[u]
      => target[t] \in overlap

(* What an update nothing met has read still stands, and the file it has   *)
(* open is the one it truncated.                                           *)
Undisturbed ==
  \A t \in Threads :
    /\ stage[t] = "unlinked" => target[t] \in overlap
    /\ stage[t] = "opened" /\ target[t] \notin overlap => file[target[t]] = Blank
    /\ stage[t] = "read" /\ target[t] \notin overlap /\ job[t].op = "beat"
         => merged[t].iid = Current(target[t]).iid

NodeInv == TypeOK /\ Placed /\ OneUpdate /\ Undisturbed /\ RecordParses

-----------------------------------------------------------------------------
LEMMA FreshRecord == Fresh \in Records
  BY DEF Fresh, Records

LEMMA NoJobTyped == NoJob \in Jobs
  <1>1. (CHOOSE n \in Nodes : TRUE) \in Nodes
    BY RecordValues
  <1> QED BY <1>1, FreshRecord DEF NoJob, Jobs

LEMMA CurrentRecord ==
  ASSUME NEW n \in Nodes, Readable(n) PROVE Current(n) \in Records
  BY FreshRecord DEF Readable, Current

\* A request that is not a snooze holds no placeholder, and what any request
\* merges into a record is a record.
LEMMA PatchedRecord ==
  ASSUME NEW j \in Jobs, NEW rec \in Records, j.pub = Placeholder => j.op = "snooze"
  PROVE  Patched(j, rec) \in Records
  <1>1. j.op # "snooze" => j.pub \in Publics \cup {NoAddr}
    BY DEF Jobs
  <1>2. CASE j.op = "launch"
    BY <1>1, <1>2 DEF Patched, Records, Jobs
  <1>3. CASE j.op = "wake"
    BY <1>1, <1>3 DEF Patched, Records, Jobs
  <1>4. CASE j.op = "snooze"
    BY <1>4 DEF Patched, Records, Jobs
  <1>5. CASE j.op = "terminate"
    BY <1>5 DEF Patched, Records, Jobs
  <1>6. CASE j.op \notin {"launch", "wake", "snooze", "terminate"}
    BY <1>1, <1>6 DEF Patched, Records, Jobs
  <1> QED BY <1>2, <1>3, <1>4, <1>5, <1>6

LEMMA PatchedBeat ==
  ASSUME NEW j, NEW rec \in Records, j.op = "beat"
  PROVE  Patched(j, rec).iid = rec.iid
  BY DEF Patched, Records

LEMMA ResolvedInstance ==
  ASSUME TypeOK, NEW t \in Threads, NEW i \in Resolved(job[t].rec, job[t].node)
  PROVE  i \in Instances
  <1>1. job[t].rec \in Records
    BY DEF TypeOK, Jobs
  <1> QED BY <1>1 DEF Resolved, Matches, Records

-----------------------------------------------------------------------------
LEMMA InitHolds == Init => NodeInv
  <1> SUFFICES ASSUME Init PROVE NodeInv
    OBVIOUS
  <1> USE DEF Init, RecInit
  <1>1. (CHOOSE n \in Nodes : TRUE) \in Nodes
    BY RecordValues
  <1>2. RecTypeOK
    BY <1>1, FreshRecord DEF RecTypeOK, Stages
  <1>3. inst \in [Instances -> InstanceRecords]
    BY <1>1 DEF InstanceRecords
  <1>4. TypeOK
    BY <1>2, <1>3, NoJobTyped, LifecycleConstants DEF TypeOK
  <1>5. Placed
    BY RecordValues, LifecycleConstants DEF Placed, NoJob
  <1>6. OneUpdate /\ Undisturbed /\ RecordParses
    BY DEF OneUpdate, Undisturbed, RecordParses, Readable
  <1> QED BY <1>4, <1>5, <1>6 DEF NodeInv
-----------------------------------------------------------------------------
(* Steps that leave the record files alone: only types and Placed are      *)
(* theirs to keep.                                                         *)

\* A request that starts, goes on or ends without touching its record.
MovesJob(t) ==
  /\ UNCHANGED recVars
  /\ stage[t] = "idle" \/ UNCHANGED job
  /\ \E j \in Jobs :
       /\ job' = [job EXCEPT ![t] = j]
       /\ j.op = "none" => j.at = "none"
       /\ j.at = "wait" => j.iid \in Instances
       /\ j.pub = Placeholder => j.op = "snooze"

LEMMA MovesJobKeeps ==
  ASSUME NodeInv, NEW t \in Threads, MovesJob(t),
         inst' \in [Instances -> InstanceRecords],
         dns' \in [Nodes -> Publics \cup {NoAddr, Placeholder}],
         disturbed' \subseteq Nodes, ops' \in 0..MaxOps, restarts' \in 0..MaxRestarts
  PROVE  NodeInv'
  <1>1. UNCHANGED recVars
    BY DEF MovesJob
  <1> USE <1>1 DEF recVars
  <1>2. PICK j \in Jobs :
          /\ job' = [job EXCEPT ![t] = j]
          /\ j.op = "none" => j.at = "none"
          /\ j.at = "wait" => j.iid \in Instances
          /\ j.pub = Placeholder => j.op = "snooze"
    BY DEF MovesJob
  <1>3. TypeOK'
    BY <1>2 DEF NodeInv, TypeOK, RecTypeOK
  <1>4. Placed'
    BY <1>2 DEF NodeInv, TypeOK, Placed, MovesJob
  <1>5. OneUpdate' /\ RecordParses'
    BY DEF NodeInv, OneUpdate, RecordParses, Readable
  <1>6. Undisturbed'
    BY <1>2 DEF NodeInv, TypeOK, Undisturbed, Current, MovesJob
  <1> QED BY <1>3, <1>4, <1>5, <1>6 DEF NodeInv

LEMMA JobTyped == ASSUME NodeInv, NEW t \in Threads PROVE job[t] \in Jobs
  BY DEF NodeInv, TypeOK

\* Outside upsert_node a thread holds no record.
LEMMA Elsewhere ==
  ASSUME NodeInv, NEW t \in Threads, job[t].at # "upsert" PROVE stage[t] = "idle"
  BY DEF NodeInv, Placed

LEMMA StartKeeps ==
  ASSUME NodeInv, NEW t \in Threads, NEW n \in Nodes, NEW alone, Start(t, n, alone)
  PROVE  /\ UNCHANGED recVars /\ stage[t] = "idle" /\ job[t].op = "none"
         /\ dns' \in [Nodes -> Publics \cup {NoAddr, Placeholder}]
         /\ disturbed' \subseteq Nodes /\ ops' \in 0..MaxOps /\ restarts' \in 0..MaxRestarts
  <1>1. job[t].at = "none"
    BY DEF NodeInv, Placed, Start
  <1> QED BY <1>1, Elsewhere, LifecycleConstants DEF NodeInv, TypeOK, Start

LEMMA LaunchKeeps ==
  ASSUME NodeInv, NEW t \in Threads, NEW n \in Nodes, NodesLaunch(t, n) PROVE NodeInv'
  <1>1. PICK i \in Instances :
          /\ inst' = [inst EXCEPT ![i].state = "pending", ![i].node = n]
          /\ job' = [job EXCEPT ![t].op = "launch", ![t].at = "wait", ![t].node = n,
                                ![t].iid = i, ![t].rec = Named]
    BY DEF NodesLaunch
  <1>2. Start(t, n, ~Serving(n) /\ LaunchedFor(n) = {})
    BY DEF NodesLaunch
  <1>3. inst' \in [Instances -> InstanceRecords]
    <2>1. inst \in [Instances -> InstanceRecords]
      BY DEF NodeInv, TypeOK, InstanceRecords
    <2>2. [inst[i] EXCEPT !.state = "pending", !.node = n] \in InstanceRecords
      BY <2>1 DEF InstanceRecords
    <2> QED BY <1>1, <2>1, <2>2
  <1> DEFINE j == [job[t] EXCEPT !.op = "launch", !.at = "wait", !.node = n, !.iid = i,
                                 !.rec = Named]
  <1>4. j \in Jobs /\ j.op = "launch" /\ j.iid = i /\ j.pub = job[t].pub
    <2>1. Named \in Records
      BY FreshRecord DEF Named, Records
    <2> QED BY <2>1, JobTyped DEF Jobs
  <1>5. job' = [job EXCEPT ![t] = j]
    BY <1>1
  <1>6. job[t].pub # Placeholder
    BY <1>2, StartKeeps DEF NodeInv, Placed
  <1>7. MovesJob(t)
    BY <1>2, <1>4, <1>5, <1>6, StartKeeps DEF MovesJob
  <1> QED BY <1>2, <1>3, <1>7, StartKeeps, MovesJobKeeps

LEMMA OnRecordKeeps ==
  ASSUME NodeInv, NEW t \in Threads, NEW n \in Nodes, NEW op \in {"terminate", "snooze", "wake"},
         OnRecord(t, n, op)
  PROVE  NodeInv'
  <1> DEFINE j == [job[t] EXCEPT !.op = op, !.at = "aws", !.node = n, !.rec = file[n]]
  <1>1. Start(t, n, ~Operating(n)) /\ job' = [job EXCEPT ![t] = j]
        /\ inst' = inst /\ file[n] \in Records
    BY DEF OnRecord
  <1>2. j \in Jobs /\ j.op = op /\ j.at = "aws" /\ j.pub = job[t].pub
    BY <1>1, JobTyped DEF Jobs
  <1>3. job[t].pub # Placeholder
    BY <1>1, StartKeeps DEF NodeInv, Placed
  <1>4. MovesJob(t)
    BY <1>1, <1>2, <1>3, StartKeeps DEF MovesJob
  <1>5. inst' \in [Instances -> InstanceRecords]
    BY <1>1 DEF NodeInv, TypeOK
  <1> QED BY <1>1, <1>4, <1>5, StartKeeps, MovesJobKeeps
\* What a request may end as.
LEMMA EndKeeps ==
  ASSUME NodeInv, NEW t \in Threads, UNCHANGED recVars, stage[t] = "idle",
         job' = [job EXCEPT ![t] = NoJob]
  PROVE  MovesJob(t)
  BY NoJobTyped, RecordValues, LifecycleConstants DEF MovesJob, NoJob

LEMMA FailKeeps ==
  ASSUME NodeInv, NEW t \in Threads, UNCHANGED recVars, stage[t] = "idle", Fail(t)
  PROVE  /\ MovesJob(t) /\ disturbed' \subseteq Nodes
         /\ ops' \in 0..MaxOps /\ restarts' \in 0..MaxRestarts
  <1>1. job[t].node \in Nodes
    BY JobTyped DEF Jobs
  <1> QED BY <1>1, EndKeeps DEF Fail, NodeInv, TypeOK

LEMMA AstrayNodes ==
  ASSUME TypeOK, NEW t \in Threads, NEW i \in Instances
  PROVE  Astray(job[t].node, i) \subseteq Nodes
  BY DEF Astray, TypeOK, Jobs, InstanceRecords

LEMMA CallEc2Keeps ==
  ASSUME NodeInv, NEW t \in Threads, CallEc2(t) PROVE NodeInv'
  <1>1. UNCHANGED recVars /\ stage[t] = "idle" /\ UNCHANGED <<dns, ops, restarts>>
    BY Elsewhere DEF CallEc2
  <1>2. disturbed' \subseteq Nodes
    BY AstrayNodes, ResolvedInstance DEF CallEc2, NodeInv, TypeOK
  <1>3. ASSUME job' = [job EXCEPT ![t] = NoJob], UNCHANGED inst PROVE NodeInv'
    BY <1>1, <1>2, <1>3, EndKeeps, MovesJobKeeps DEF NodeInv, TypeOK
  <1>4. ASSUME NEW i \in Resolved(job[t].rec, job[t].node),
               \/ /\ job[t].op = "terminate"
                  /\ inst' = Terminated(i)
                  /\ job' = [job EXCEPT ![t].at = "upsert", ![t].iid = i]
               \/ /\ job[t].op = "snooze" /\ Live(i)
                  /\ inst' = Stopped(i)
                  /\ job' = [job EXCEPT ![t].at = IF job[t].rec.named THEN "dns" ELSE "upsert",
                                        ![t].iid = i, ![t].pub = Placeholder]
               \/ /\ job[t].op = "wake" /\ Live(i)
                  /\ inst' = Started(i)
                  /\ job' = [job EXCEPT ![t].at = "wait", ![t].iid = i]
        PROVE  NodeInv'
    <2>1. i \in Instances
      BY <1>4, ResolvedInstance DEF NodeInv
    <2>2. inst' \in [Instances -> InstanceRecords]
      BY <1>4, <2>1 DEF NodeInv, TypeOK, InstanceRecords, Terminated, Stopped, Started
    <2>3. job[t] \in Jobs /\ job[t].op # "none"
          /\ (job[t].pub = Placeholder => job[t].op = "snooze")
      BY JobTyped DEF NodeInv, Placed, CallEc2
    <2>4. MovesJob(t)
      <3>1. CASE job[t].op = "terminate"
        <4> DEFINE j == [job[t] EXCEPT !.at = "upsert", !.iid = i]
        <4>1. j \in Jobs /\ j.op = "terminate" /\ j.at = "upsert" /\ j.pub = job[t].pub
          BY <2>1, <2>3, <3>1 DEF Jobs
        <4>2. job' = [job EXCEPT ![t] = j]
          BY <1>4, <3>1
        <4> QED BY <1>1, <2>3, <3>1, <4>1, <4>2 DEF MovesJob
      <3>2. CASE job[t].op = "snooze"
        <4> DEFINE j == [job[t] EXCEPT !.at = IF job[t].rec.named THEN "dns" ELSE "upsert",
                                       !.iid = i, !.pub = Placeholder]
        <4>1. j \in Jobs /\ j.op = "snooze" /\ j.at \in {"dns", "upsert"}
          BY <2>1, <2>3, <3>2 DEF Jobs
        <4>2. job' = [job EXCEPT ![t] = j]
          BY <1>4, <3>2
        <4> QED BY <1>1, <4>1, <4>2 DEF MovesJob
      <3>3. CASE job[t].op = "wake"
        <4> DEFINE j == [job[t] EXCEPT !.at = "wait", !.iid = i]
        <4>1. j \in Jobs /\ j.op = "wake" /\ j.iid = i /\ j.pub = job[t].pub
          BY <2>1, <2>3, <3>3 DEF Jobs
        <4>2. job' = [job EXCEPT ![t] = j]
          BY <1>4, <3>3
        <4> QED BY <1>1, <2>1, <2>3, <3>3, <4>1, <4>2 DEF MovesJob
      <3> QED BY <1>4, <3>1, <3>2, <3>3
    <2> QED BY <1>1, <1>2, <2>2, <2>4, MovesJobKeeps DEF NodeInv, TypeOK
  <1> QED BY <1>3, <1>4 DEF CallEc2

LEMMA WaitKeeps ==
  ASSUME NodeInv, NEW t \in Threads, WaitForNetwork(t) PROVE NodeInv'
  <1>1. /\ UNCHANGED recVars /\ stage[t] = "idle" /\ UNCHANGED <<inst, dns>>
        /\ job[t] \in Jobs /\ job[t].iid \in Instances /\ job[t].op # "none"
    BY Elsewhere, JobTyped DEF WaitForNetwork, NodeInv, Placed
  <1>2. inst[job[t].iid] \in InstanceRecords
    BY <1>1 DEF NodeInv, TypeOK
  <1> DEFINE i == inst[job[t].iid]
             j == [job[t] EXCEPT !.at = IF job[t].rec.named THEN "dns" ELSE "upsert",
                                 !.priv = i.priv, !.pub = i.pub]
  <1>3. CASE job' = [job EXCEPT ![t] = j] /\ UNCHANGED <<disturbed, ops, restarts>>
    <2>1. j \in Jobs /\ j.at \in {"dns", "upsert"} /\ j.op = job[t].op /\ j.pub # Placeholder
      BY <1>1, <1>2, LifecycleConstants DEF Jobs, InstanceRecords
    <2>2. MovesJob(t)
      BY <1>1, <1>3, <2>1 DEF MovesJob
    <2> QED BY <1>1, <1>3, <2>2, MovesJobKeeps DEF NodeInv, TypeOK
  <1>4. CASE Fail(t)
    BY <1>1, <1>4, FailKeeps, MovesJobKeeps DEF NodeInv, TypeOK
  <1> QED BY <1>3, <1>4 DEF WaitForNetwork

LEMMA UpsertDnsKeeps ==
  ASSUME NodeInv, NEW t \in Threads, UpsertDns(t) PROVE NodeInv'
  <1>1. /\ UNCHANGED recVars /\ stage[t] = "idle" /\ UNCHANGED inst
        /\ job[t] \in Jobs /\ job[t].op # "none"
    BY Elsewhere, JobTyped DEF UpsertDns, NodeInv, Placed
  <1>2. CASE /\ dns' = [dns EXCEPT ![job[t].node] = job[t].pub]
             /\ job' = [job EXCEPT ![t].at = "upsert"]
             /\ UNCHANGED <<disturbed, ops, restarts>>
    <2> DEFINE j == [job[t] EXCEPT !.at = "upsert"]
    <2>1. j \in Jobs /\ j.at = "upsert" /\ j.op = job[t].op /\ j.pub = job[t].pub
      BY <1>1 DEF Jobs
    <2>2. MovesJob(t)
      BY <1>1, <1>2, <2>1 DEF MovesJob, NodeInv, Placed
    <2>3. dns' \in [Nodes -> Publics \cup {NoAddr, Placeholder}]
      BY <1>1, <1>2 DEF NodeInv, TypeOK, Jobs
    <2> QED BY <1>1, <1>2, <2>2, <2>3, MovesJobKeeps DEF NodeInv, TypeOK
  <1>3. CASE Fail(t) /\ UNCHANGED dns
    BY <1>1, <1>3, FailKeeps, MovesJobKeeps DEF NodeInv, TypeOK
  <1> QED BY <1>2, <1>3 DEF UpsertDns
LEMMA HeartbeatKeeps ==
  ASSUME NodeInv, NEW t \in Threads, NEW i \in Instances, Heartbeat(t, i) PROVE NodeInv'
  <1>1. /\ UNCHANGED recVars /\ UNCHANGED <<inst, dns, disturbed, ops, restarts>>
        /\ job[t] \in Jobs /\ job[t].at = "none"
    BY JobTyped DEF Heartbeat, NodeInv, Placed
  <1>2. inst[i] \in InstanceRecords
    BY DEF NodeInv, TypeOK
  <1>3. HeartbeatAddress(i) \in Publics \cup {NoAddr}
    BY <1>2 DEF HeartbeatAddress, InstanceRecords
  <1> DEFINE j == [job[t] EXCEPT !.op = "beat", !.at = "upsert", !.node = inst[i].node,
                                 !.priv = inst[i].priv, !.pub = HeartbeatAddress(i)]
  <1>4. j \in Jobs /\ j.op = "beat" /\ j.at = "upsert" /\ j.pub # Placeholder
    BY <1>1, <1>2, <1>3, LifecycleConstants DEF Jobs, InstanceRecords
  <1>5. job' = [job EXCEPT ![t] = j]
    BY DEF Heartbeat
  <1>6. MovesJob(t)
    BY <1>1, <1>4, <1>5, Elsewhere DEF MovesJob
  <1> QED BY <1>1, <1>6, MovesJobKeeps DEF NodeInv, TypeOK

LEMMA ReconcileKeeps ==
  ASSUME NodeInv, NEW t \in Threads, ReconcileDns(t) \/ SkipDns(t) PROVE NodeInv'
  <1>1. /\ UNCHANGED recVars /\ UNCHANGED <<inst, disturbed, ops, restarts>>
        /\ stage[t] = "idle" /\ job' = [job EXCEPT ![t] = NoJob]
    BY Elsewhere DEF ReconcileDns, SkipDns
  <1>2. dns' \in [Nodes -> Publics \cup {NoAddr, Placeholder}]
    BY JobTyped DEF ReconcileDns, SkipDns, NodeInv, TypeOK, Jobs
  <1> QED BY <1>1, <1>2, EndKeeps, MovesJobKeeps DEF NodeInv, TypeOK

\* Steps that leave the requests alone too.
LEMMA QuietKeeps ==
  ASSUME NodeInv, UNCHANGED recVars, UNCHANGED job, inst' \in [Instances -> InstanceRecords],
         UNCHANGED <<dns, disturbed, ops, restarts>>
  PROVE  NodeInv'
  <1> USE DEF recVars
  <1>1. TypeOK'
    BY DEF NodeInv, TypeOK, RecTypeOK
  <1>2. Placed' /\ OneUpdate' /\ RecordParses'
    BY DEF NodeInv, Placed, OneUpdate, RecordParses, Readable
  <1>3. Undisturbed'
    BY DEF NodeInv, Undisturbed, Current
  <1> QED BY <1>1, <1>2, <1>3 DEF NodeInv

LEMMA BootKeeps ==
  ASSUME NodeInv, NEW i \in Instances, Boot(i) PROVE NodeInv'
  <1>1. \E pub \in Publics, priv \in Privates \cup {NoAddr} :
          inst' = [inst EXCEPT ![i].state = "running", ![i].pub = pub, ![i].priv = priv]
    BY DEF Boot, FreePublics, FreePrivates, NodeInv, TypeOK, InstanceRecords
  <1>2. PICK pub \in Publics, priv \in Privates \cup {NoAddr} :
          inst' = [inst EXCEPT ![i].state = "running", ![i].pub = pub, ![i].priv = priv]
    BY <1>1
  <1> DEFINE r == [inst[i] EXCEPT !.state = "running", !.pub = pub, !.priv = priv]
  <1>3. inst' \in [Instances -> InstanceRecords]
    <2>1. r \in InstanceRecords
      BY DEF NodeInv, TypeOK, InstanceRecords
    <2>2. inst' = [inst EXCEPT ![i] = r]
      BY <1>2
    <2> QED BY <2>1, <2>2 DEF NodeInv, TypeOK
  <1> QED BY <1>3, QuietKeeps DEF Boot

-----------------------------------------------------------------------------
(* Steps on the record files.                                              *)

LEMMA ReadKeeps ==
  ASSUME NodeInv, NEW t \in Threads, job[t].at = "upsert",
         UpsertRead(t, job[t].node, Patched(job[t], Current(job[t].node))),
         UNCHANGED <<inst, dns, job, disturbed, ops, restarts>>
  PROVE  NodeInv'
  <1> DEFINE n == job[t].node
             new == Patched(job[t], Current(n))
  <1>1. /\ job[t] \in Jobs /\ n \in Nodes /\ stage[t] = "idle" /\ Readable(n)
        /\ stage' = [stage EXCEPT ![t] = "read"]
        /\ target' = [target EXCEPT ![t] = n]
        /\ merged' = [merged EXCEPT ![t] = new]
        /\ overlap' = IF \E u \in Threads : Updating(u, n) THEN overlap \cup {n} ELSE overlap
        /\ UNCHANGED <<file, cut>>
    BY JobTyped DEF UpsertRead, Jobs
  <1>2. Current(n) \in Records
    BY <1>1, CurrentRecord
  <1>3. new \in Records /\ (job[t].op = "beat" => new.iid = Current(n).iid)
    BY <1>1, <1>2, PatchedRecord, PatchedBeat DEF NodeInv, Placed
  <1> HIDE DEF n, new
  <1>4. TypeOK'
    BY <1>1, <1>3 DEF NodeInv, TypeOK, RecTypeOK, Stages
  <1>5. Placed'
    BY <1>1 DEF NodeInv, TypeOK, RecTypeOK, Placed, n
  <1>6. OneUpdate'
    BY <1>1 DEF NodeInv, TypeOK, RecTypeOK, OneUpdate, Updating
  <1>7. Undisturbed'
    BY <1>1, <1>3 DEF NodeInv, TypeOK, RecTypeOK, Undisturbed, Current
  <1>8. RecordParses'
    BY <1>1 DEF NodeInv, TypeOK, RecTypeOK, RecordParses, Readable
  <1> QED BY <1>4, <1>5, <1>6, <1>7, <1>8 DEF NodeInv

LEMMA OpenKeeps ==
  ASSUME NodeInv, NEW t \in Threads, UpsertOpen(t),
         UNCHANGED <<inst, dns, job, disturbed, ops, restarts>>
  PROVE  NodeInv'
  <1>1. /\ stage[t] = "read" /\ target[t] \in Nodes
        /\ stage' = [stage EXCEPT ![t] = "opened"]
        /\ file' = [file EXCEPT ![target[t]] = Blank]
        /\ UNCHANGED <<target, merged, overlap, cut>>
    BY DEF UpsertOpen, NodeInv, TypeOK, RecTypeOK
  <1>2. TypeOK'
    BY <1>1 DEF NodeInv, TypeOK, RecTypeOK, Stages
  <1>3. Placed' /\ OneUpdate'
    BY <1>1 DEF NodeInv, TypeOK, RecTypeOK, Placed, OneUpdate
  <1>4. Undisturbed'
    BY <1>1 DEF NodeInv, TypeOK, RecTypeOK, Undisturbed, OneUpdate, Current
  <1>5. RecordParses'
    BY <1>1 DEF NodeInv, TypeOK, RecTypeOK, RecordParses, Readable
  <1> QED BY <1>2, <1>3, <1>4, <1>5 DEF NodeInv
LEMMA WriteKeeps ==
  ASSUME NodeInv, NEW t \in Threads, UpsertWrite(t), job[t].at = "upsert",
         job' = [job EXCEPT ![t] = IF job[t].op = "beat" THEN [job[t] EXCEPT !.at = "reconcile"]
                                                        ELSE NoJob],
         UNCHANGED <<inst, dns, disturbed, ops, restarts>>
  PROVE  NodeInv'
  <1> DEFINE n == target[t]
             j == IF job[t].op = "beat" THEN [job[t] EXCEPT !.at = "reconcile"] ELSE NoJob
  <1>1. /\ stage[t] \in {"opened", "unlinked"} /\ n \in Nodes /\ merged[t] \in Records
        /\ stage' = [stage EXCEPT ![t] = "idle"]
        /\ merged' = [merged EXCEPT ![t] = Fresh]
        /\ job' = [job EXCEPT ![t] = j]
        /\ UNCHANGED <<target, overlap, cut>>
    BY DEF UpsertWrite, NodeInv, TypeOK, RecTypeOK
  <1>2. PICK content \in {file[n], merged[t], Torn} :
          /\ file' = [file EXCEPT ![n] = content]
          /\ stage[t] = "opened" /\ n \notin overlap => content = merged[t]
          /\ stage[t] = "unlinked" => content = file[n]
    <2>1. CASE stage[t] = "opened"
      <3>1. PICK c \in Overwrite(file[n], merged[t]) : file' = [file EXCEPT ![n] = c]
        BY <2>1 DEF UpsertWrite
      <3>2. n \notin overlap => file[n] = Blank
        BY <2>1 DEF NodeInv, Undisturbed
      <3> QED BY <2>1, <3>1, <3>2 DEF Overwrite
    <2>2. CASE stage[t] = "unlinked"
      <3>1. file' = file
        BY <2>2 DEF UpsertWrite
      <3>2. file' = [file EXCEPT ![n] = file[n]]
        BY <1>1, <3>1 DEF NodeInv, TypeOK, RecTypeOK
      <3> QED BY <2>2, <3>2
    <2> QED BY <1>1, <2>1, <2>2
  <1>3. j \in Jobs /\ (j.op = "none" => j.at = "none") /\ j.at # "wait"
        /\ (j.pub = Placeholder => j.op = "snooze")
    <2>1. CASE job[t].op = "beat"
      <3>1. job[t] \in Jobs /\ job[t].pub # Placeholder
        BY <2>1, JobTyped DEF NodeInv, Placed
      <3> QED BY <2>1, <3>1 DEF Jobs
    <2>2. CASE job[t].op # "beat"
      BY <2>2, NoJobTyped, LifecycleConstants DEF NoJob
    <2> QED BY <2>1, <2>2
  <1> HIDE DEF j
  <1>4. TypeOK'
    BY <1>1, <1>2, <1>3, FreshRecord DEF NodeInv, TypeOK, RecTypeOK, Stages
  <1>5. Placed'
    BY <1>1, <1>3 DEF NodeInv, TypeOK, RecTypeOK, Placed
  <1>6. OneUpdate'
    BY <1>1 DEF NodeInv, TypeOK, RecTypeOK, OneUpdate
  <1>7. Undisturbed'
    BY <1>1, <1>2 DEF NodeInv, TypeOK, RecTypeOK, Undisturbed, OneUpdate, Current
  <1>8. RecordParses'
    BY <1>1, <1>2 DEF NodeInv, TypeOK, RecTypeOK, RecordParses, Readable, Undisturbed
  <1> QED BY <1>4, <1>5, <1>6, <1>7, <1>8 DEF NodeInv

LEMMA UpsertKeeps ==
  ASSUME NodeInv, NEW t \in Threads, UpsertNode(t) PROVE NodeInv'
  <1>1. job[t].at = "upsert" /\ UNCHANGED <<inst, dns>>
    BY DEF UpsertNode
  <1>2. CASE /\ UpsertRead(t, job[t].node, Patched(job[t], Current(job[t].node)))
             /\ UNCHANGED <<job, disturbed, ops, restarts>>
    BY <1>1, <1>2, ReadKeeps
  <1>3. CASE /\ stage[t] = "idle" /\ ~Readable(job[t].node)
             /\ Fail(t)
             /\ UNCHANGED recVars
    BY <1>1, <1>3, FailKeeps, MovesJobKeeps DEF NodeInv, TypeOK
  <1>4. CASE UpsertOpen(t) /\ UNCHANGED <<job, disturbed, ops, restarts>>
    BY <1>1, <1>4, OpenKeeps
  <1>5. CASE /\ UpsertWrite(t)
             /\ job' = [job EXCEPT ![t] = IF @.op = "beat" THEN [@ EXCEPT !.at = "reconcile"]
                                                           ELSE NoJob]
             /\ UNCHANGED <<disturbed, ops, restarts>>
    BY <1>1, <1>5, WriteKeeps
  <1> QED BY <1>2, <1>3, <1>4, <1>5 DEF UpsertNode

LEMMA DeleteKeeps ==
  ASSUME NodeInv, NEW n \in Nodes, NodesDelete(n) PROVE NodeInv'
  <1>1. /\ file' = [file EXCEPT ![n] = NoFile]
        /\ stage' = [t \in Threads |-> IF stage[t] = "opened" /\ target[t] = n
                                       THEN "unlinked" ELSE stage[t]]
        /\ overlap' = IF \E t \in Threads : Updating(t, n) THEN overlap \cup {n} ELSE overlap
        /\ UNCHANGED <<target, merged, cut, inst, dns, job, restarts>>
    BY DEF NodesDelete, DeleteNode
  <1>2. TypeOK'
    BY <1>1, LifecycleConstants DEF NodesDelete, NodeInv, TypeOK, RecTypeOK, Stages
  <1>3. Placed' /\ OneUpdate'
    BY <1>1 DEF NodeInv, TypeOK, RecTypeOK, Placed, OneUpdate
  <1>4. Undisturbed'
    BY <1>1 DEF NodeInv, TypeOK, RecTypeOK, Undisturbed, Updating, Current
  <1>5. RecordParses'
    BY <1>1 DEF NodeInv, TypeOK, RecTypeOK, RecordParses, Readable
  <1> QED BY <1>2, <1>3, <1>4, <1>5 DEF NodeInv

LEMMA RestartKeeps ==
  ASSUME NodeInv, Restart PROVE NodeInv'
  <1>1. /\ stage' = [t \in Threads |-> "idle"]
        /\ merged' = [t \in Threads |-> Fresh]
        /\ job' = [t \in Threads |-> NoJob]
        /\ cut' = cut \cup {target[t] : t \in {u \in Threads : stage[u] = "opened"}}
        /\ UNCHANGED <<file, target, overlap, inst, dns, ops>>
    BY DEF Restart, RestartRecords
  <1>2. cut' \subseteq Nodes
    BY <1>1 DEF NodeInv, TypeOK, RecTypeOK
  <1>3. TypeOK'
    BY <1>1, <1>2, FreshRecord, NoJobTyped, LifecycleConstants
       DEF Restart, NodeInv, TypeOK, RecTypeOK, Stages
  <1>4. Placed' /\ OneUpdate' /\ Undisturbed'
    BY <1>1, LifecycleConstants, RecordValues DEF Placed, OneUpdate, Undisturbed, NoJob
  <1>5. RecordParses'
    BY <1>1 DEF NodeInv, RecordParses, Readable
  <1> QED BY <1>3, <1>4, <1>5 DEF NodeInv

LEMMA StepHolds == NodeInv /\ [Next]_vars => NodeInv'
  <1> SUFFICES ASSUME NodeInv, [Next]_vars PROVE NodeInv'
    OBVIOUS
  <1>1. ASSUME NEW t \in Threads, NEW n \in Nodes, Operator(t, n) PROVE NodeInv'
    BY <1>1, LaunchKeeps, OnRecordKeeps DEF Operator
  <1>2. ASSUME NEW t \in Threads, NEW i \in Instances, Heartbeat(t, i) PROVE NodeInv'
    BY <1>2, HeartbeatKeeps
  <1>3. ASSUME NEW t \in Threads, Serve(t) PROVE NodeInv'
    BY <1>3, CallEc2Keeps, WaitKeeps, UpsertDnsKeeps, UpsertKeeps, ReconcileKeeps DEF Serve
  <1>4. ASSUME NEW t \in Threads, ReconcileDns(t) PROVE NodeInv'
    BY <1>4, ReconcileKeeps
  <1>5. ASSUME NEW i \in Instances, Boot(i) PROVE NodeInv'
    BY <1>5, BootKeeps
  <1>6. ASSUME NEW n \in Nodes, NodesDelete(n) PROVE NodeInv'
    BY <1>6, DeleteKeeps
  <1>7. CASE Restart
    BY <1>7, RestartKeeps
  <1>8. CASE UNCHANGED vars
    BY <1>8, QuietKeeps DEF vars, recVars, NodeInv, TypeOK
  <1> QED BY <1>1, <1>2, <1>3, <1>4, <1>5, <1>6, <1>7, <1>8 DEF Next

-----------------------------------------------------------------------------
\* The invariant of the node records and the requests on them.
THEOREM NodesSafe == Spec => []NodeInv
  BY InitHolds, StepHolds, PTL DEF Spec

(* Every variable keeps its type.                                          *)
THEOREM NodesTyped == Spec => []TypeOK
  <1>1. NodeInv => TypeOK
    BY DEF NodeInv
  <1> QED BY <1>1, NodesSafe, PTL

(* upsert_node's truncate-then-fill leaves a record unreadable only to     *)
(* those who read while its one writer is at it, as long as no two updates *)
(* meet and no restart cuts one short (nodes_state.py:31-33).              *)
THEOREM RecordsParse == Spec => []RecordParses
  <1>1. NodeInv => RecordParses
    BY DEF NodeInv
  <1> QED BY <1>1, NodesSafe, PTL

(* A heartbeat that no other update met leaves the recorded instance as it *)
(* is (touch_heartbeat, nodes_state.py:63-72).                             *)
THEOREM BeatsSafe == Spec => BeatsKeepInstance
  <1> DEFINE Keeps(t) ==
        stage[t] = "read" /\ stage'[t] = "opened" /\ job[t].op = "beat"
          => job[t].node \in overlap \/ merged[t].iid = Current(job[t].node).iid
  <1>1. NodeInv => \A t \in Threads : Keeps(t)
    BY DEF NodeInv, Placed, Undisturbed
  <1>2. NodeInv /\ [Next]_vars => [\A t \in Threads : Keeps(t)]_vars
    BY <1>1
  <1> QED BY <1>2, NodesSafe, PTL DEF Spec, BeatsKeepInstance
LEMMA StuckStays ==
  ASSUME NodeInv, [Next]_vars, NEW n \in Nodes, Stuck(n) PROVE Stuck(n)' \/ file'[n] = NoFile
  <1> USE DEF recVars
  <1>1. CASE UNCHANGED recVars
    BY <1>1 DEF Stuck, Readable, Updating
  <1>2. ASSUME NEW t \in Threads, UpsertNode(t), ~UNCHANGED recVars PROVE Stuck(n)'
    <2>1. CASE UpsertRead(t, job[t].node, Patched(job[t], Current(job[t].node)))
      <3>1. job[t].node # n
        BY <2>1 DEF UpsertRead, Stuck
      <3> QED BY <2>1, <3>1
              DEF UpsertRead, Stuck, Readable, Updating, NodeInv, TypeOK, RecTypeOK
    <2>2. CASE UpsertOpen(t)
      BY <2>2 DEF UpsertOpen, Stuck, Readable, Updating, NodeInv, TypeOK, RecTypeOK
    <2>3. CASE UpsertWrite(t)
      <3>1. stage[t] # "idle" /\ target[t] # n
        BY <2>3 DEF UpsertWrite, Stuck, Updating
      <3>2. file'[n] = file[n]
        BY <2>3, <3>1 DEF UpsertWrite, NodeInv, TypeOK, RecTypeOK
      <3> QED BY <2>3, <3>1, <3>2
              DEF UpsertWrite, Stuck, Readable, Updating, NodeInv, TypeOK, RecTypeOK
    <2> QED BY <1>2, <2>1, <2>2, <2>3 DEF UpsertNode
  <1>3. ASSUME NEW m \in Nodes, NodesDelete(m) PROVE Stuck(n)' \/ file'[n] = NoFile
    BY <1>3 DEF NodesDelete, DeleteNode, Stuck, Readable, Updating, NodeInv, TypeOK, RecTypeOK
  <1>4. CASE Restart
    BY <1>4 DEF Restart, RestartRecords, Stuck, Readable, Updating, NodeInv, TypeOK, RecTypeOK
  <1>5. CASE UNCHANGED vars
    BY <1>1, <1>5 DEF vars
  <1>6. ASSUME NEW t \in Threads, NEW m \in Nodes, Operator(t, m) PROVE UNCHANGED recVars
    BY <1>6 DEF Operator, NodesLaunch, OnRecord, Start
  <1>7. ASSUME NEW t \in Threads, Serve(t), ~UpsertNode(t) PROVE UNCHANGED recVars
    BY <1>7 DEF Serve, CallEc2, WaitForNetwork, UpsertDns, SkipDns
  <1>8. ASSUME NEW t \in Threads, NEW i \in Instances, Heartbeat(t, i) PROVE UNCHANGED recVars
    BY <1>8 DEF Heartbeat
  <1>9. ASSUME NEW t \in Threads, ReconcileDns(t) PROVE UNCHANGED recVars
    BY <1>9 DEF ReconcileDns
  <1>10. ASSUME NEW i \in Instances, Boot(i) PROVE UNCHANGED recVars
    BY <1>10 DEF Boot
  <1> QED BY <1>1, <1>2, <1>3, <1>4, <1>5, <1>6, <1>7, <1>8, <1>9, <1>10 DEF Next

(* A record left unreadable stays so until it is deleted: _read_json       *)
(* raises before upsert_node writes anything (nodes_state.py:25-28, 50-60).*)
THEOREM RepairsOnlyByDelete == Spec => OnlyDeleteRepairs
  <1> DEFINE Stays(n) == Stuck(n) => Stuck(n)' \/ file'[n] = NoFile
  <1>1. NodeInv /\ [Next]_vars => [\A n \in Nodes : Stays(n)]_vars
    BY StuckStays
  <1> QED BY <1>1, NodesSafe, PTL DEF Spec, OnlyDeleteRepairs
-----------------------------------------------------------------------------
(* Whose instance a request acts on.  For a node nothing has disturbed,    *)
(* what its requests, drafts and file say of its instance is true of it,   *)
(* so that nobody else's instance agrees with a record that names a live   *)
(* one.                                                                    *)
Quiet(n) == n \notin disturbed \cup overlap \cup cut

Own(i, n) == inst[i].state # "none" /\ inst[i].node = n
NamesOwn(rec, n) == rec.iid # NoInst => Own(rec.iid, n)

Serves(t, n) == job[t].op # "none" /\ job[t].node = n
Operates(t, n) == job[t].op \notin {"none", "beat"} /\ job[t].node = n
Launching(n) == \E t \in Threads : Operates(t, n) /\ job[t].op = "launch"
Snoozing(n) == \E t \in Threads : Operates(t, n) /\ job[t].op = "snooze" /\ job[t].at # "aws"

(* Which requests are at which point, for every node.                      *)
Located ==
  \A t \in Threads :
    /\ job[t].op = "none" <=> job[t].at = "none"
    /\ job[t].op = "beat" => job[t].at \in {"upsert", "reconcile"}
    /\ job[t].op = "beat" /\ ~SendsPublicIp => job[t].pub = NoAddr
    /\ job[t].at = "aws" => job[t].op \in {"terminate", "snooze", "wake"}
    /\ job[t].at = "wait" => job[t].op \in {"launch", "wake"}
    /\ job[t].at = "reconcile" => job[t].op = "beat"
    /\ job[t].op = "none" \/ job[t].at = "aws" => job[t].iid = NoInst
    /\ Operates(t, job[t].node) /\ job[t].at # "aws" => job[t].iid \in Instances

(* EC2 never gives one address to two instances, and only an instance that *)
(* is up has a public one.                                                 *)
Addresses ==
  /\ \A i \in Instances :
       /\ inst[i].state # "running" => inst[i].pub = NoAddr
       /\ inst[i].state = "running" => inst[i].priv # NoAddr
       /\ inst[i].state \in {"none", "terminated"} => inst[i].priv = NoAddr
  /\ \A i, j \in Instances : i # j =>
       /\ inst[i].priv = inst[j].priv => inst[i].priv = NoAddr
       /\ inst[i].pub = inst[j].pub => inst[i].pub = NoAddr

(* One instance and one operator request at a time.                        *)
Alone(n) ==
  /\ \A i, j \in LaunchedFor(n) : i = j
  /\ \A t, u \in Threads : Operates(t, n) /\ Operates(u, n) => t = u

(* What the requests on a node know of its instance.                       *)
Informed(t, n) ==
  /\ job[t].at = "aws" => NamesOwn(job[t].rec, n)
  /\ job[t].op # "beat" /\ job[t].at # "aws" => Own(job[t].iid, n)
  /\ job[t].op \in {"launch", "wake"} /\ job[t].at # "aws" => Live(job[t].iid)
  /\ job[t].op \in {"launch", "wake"} /\ job[t].at \notin {"aws", "wait"} =>
       /\ job[t].priv = inst[job[t].iid].priv /\ job[t].priv # NoAddr
       /\ job[t].pub = inst[job[t].iid].pub /\ job[t].pub # NoAddr
  /\ job[t].op = "beat" =>
       \A k \in LaunchedFor(n) : job[t].priv = inst[k].priv /\ job[t].priv # NoAddr

(* What they are about to write into its record.                           *)
Drafted(t, n) ==
  /\ NamesOwn(merged[t], n)
  /\ job[t].op = "launch" => merged[t].priv = job[t].priv /\ merged[t].pub = job[t].pub
  /\ job[t].op = "launch" => merged[t].iid = job[t].iid
  /\ job[t].op = "snooze" => merged[t].pub = NoAddr

(* The addresses of a record are the live instance's or none, but for the  *)
(* public one while a snooze has yet to take it out.                       *)
Fits(rec, k, n) ==
  /\ rec.priv \in {NoAddr, inst[k].priv}
  /\ rec.pub \in {NoAddr, inst[k].pub} \/ Snoozing(n)

RecordsFit(n) ==
  Launching(n) \/ \A k \in LaunchedFor(n) :
    /\ file[n] \in Records => Fits(file[n], k, n)
    /\ \A t \in Threads : Serves(t, n) =>
         /\ stage[t] # "idle" => Fits(merged[t], k, n)
         /\ job[t].at = "aws" => Fits(job[t].rec, k, n)

NodeOwn(n) ==
  /\ Alone(n)
  /\ \A t \in Threads : Serves(t, n) => Informed(t, n)
  /\ \A t \in Threads : Serves(t, n) /\ stage[t] # "idle" => Drafted(t, n)
  /\ file[n] \in Records => NamesOwn(file[n], n)
  /\ RecordsFit(n)

TargetInv ==
  /\ NodeInv /\ Located /\ Addresses
  /\ \A n \in Nodes : Quiet(n) => NodeOwn(n)

-----------------------------------------------------------------------------
LEMMA TargetInit == Init => TargetInv
  <1> SUFFICES ASSUME Init PROVE TargetInv
    OBVIOUS
  <1>1. NodeInv
    BY InitHolds
  <1>2. Located /\ Addresses
    BY DEF Init, NoJob, Located, Addresses, Operates
  <1>3. ASSUME NEW n \in Nodes PROVE NodeOwn(n)
    <2>1. LaunchedFor(n) = {} /\ \A t \in Threads : ~Serves(t, n) /\ ~Operates(t, n)
      BY DEF Init, NoJob, LaunchedFor, Live, Serves, Operates
    <2>2. file[n] \notin Records
      BY RecordValues DEF Init, RecInit
    <2> QED BY <2>1, <2>2 DEF NodeOwn, Alone, RecordsFit
  <1> QED BY <1>1, <1>2, <1>3 DEF TargetInv

\* What becomes of the histories.
LEMMA QuietBefore ==
  ASSUME TargetInv, [Next]_vars, NEW n \in Nodes, Quiet(n)' PROVE Quiet(n)
  <1> DEFINE Grows ==
        disturbed \subseteq disturbed' /\ overlap \subseteq overlap' /\ cut \subseteq cut'
  <1>1. ASSUME NEW t \in Threads, NEW m \in Nodes, Operator(t, m) PROVE Grows
    BY <1>1 DEF Operator, NodesLaunch, OnRecord, Start, recVars
  <1>2. ASSUME NEW t \in Threads, CallEc2(t) \/ WaitForNetwork(t) \/ UpsertDns(t) PROVE Grows
    BY <1>2 DEF CallEc2, WaitForNetwork, UpsertDns, Fail, recVars
  <1>3. ASSUME NEW t \in Threads, UpsertNode(t) PROVE Grows
    BY <1>3 DEF UpsertNode, UpsertRead, UpsertOpen, UpsertWrite, Fail, recVars
  <1>4. ASSUME NEW t \in Threads, ReconcileDns(t) \/ SkipDns(t) PROVE Grows
    BY <1>4 DEF ReconcileDns, SkipDns, recVars
  <1>5. ASSUME NEW t \in Threads, NEW i \in Instances, Heartbeat(t, i) PROVE Grows
    BY <1>5 DEF Heartbeat, recVars
  <1>6. ASSUME NEW i \in Instances, Boot(i) PROVE Grows
    BY <1>6 DEF Boot, recVars
  <1>7. ASSUME NEW m \in Nodes, NodesDelete(m) PROVE Grows
    <2>1. disturbed \subseteq disturbed'
      BY <1>7 DEF NodesDelete
    <2>2. overlap \subseteq overlap' /\ cut' = cut
      BY <1>7 DEF NodesDelete, DeleteNode
    <2> QED BY <2>1, <2>2
  <1>8. ASSUME Restart PROVE Grows
    BY <1>8 DEF Restart, RestartRecords
  <1>9. ASSUME UNCHANGED vars PROVE Grows
    BY <1>9 DEF vars
  <1>10. Grows
    BY <1>1, <1>2, <1>3, <1>4, <1>5, <1>6, <1>7, <1>8, <1>9 DEF Next, Serve
  <1> QED BY <1>10 DEF Quiet

\* A step that does nothing to a node's instances, its requests and its file.
Untouched(n) ==
  /\ \A i \in Instances : inst'[i] = inst[i] \/ (~Own(i, n) /\ ~Own(i, n)')
  /\ \A t \in Threads : \/ job'[t] = job[t] /\ stage'[t] = stage[t] /\ merged'[t] = merged[t]
                        \/ ~Serves(t, n) /\ ~Serves(t, n)'
  /\ file'[n] = file[n]

LEMMA UntouchedKeeps ==
  ASSUME TargetInv, NEW n \in Nodes, NodeOwn(n), Untouched(n) PROVE NodeOwn(n)'
  <1>1. LaunchedFor(n)' = LaunchedFor(n)
    BY DEF Untouched, LaunchedFor, Live, Own
  <1>2. \A t \in Threads : Serves(t, n)' <=> Serves(t, n)
    BY DEF Untouched, Serves
  <1>3. \A t \in Threads : Operates(t, n)' <=> Operates(t, n)
    BY DEF Untouched, Serves, Operates
  <1>4. \A t \in Threads : Serves(t, n) =>
          job'[t] = job[t] /\ stage'[t] = stage[t] /\ merged'[t] = merged[t]
    BY DEF Untouched
  <1>5. \A i \in Instances : Own(i, n) => Own(i, n)' /\ inst'[i] = inst[i]
    BY DEF Untouched, Own
  <1>6. \A i \in LaunchedFor(n) : i \in Instances /\ Own(i, n) /\ inst'[i] = inst[i]
    BY <1>5 DEF LaunchedFor, Live, Own
  <1>7. Alone(n)'
    BY <1>1, <1>3 DEF NodeOwn, Alone
  <1>8. \A rec \in Records : NamesOwn(rec, n) => NamesOwn(rec, n)'
    BY <1>5 DEF NamesOwn, Records
  <1>9. ASSUME NEW t \in Threads, Serves(t, n)' PROVE Informed(t, n)'
    <2>1. /\ Serves(t, n) /\ job'[t] = job[t] /\ Informed(t, n) /\ job[t].rec \in Records
          /\ (job[t].op # "beat" /\ job[t].at # "aws" => job[t].iid \in Instances)
      BY <1>2, <1>4, <1>9, JobTyped DEF NodeOwn, TargetInv, Located, Serves, Operates, Jobs
    <2> QED BY <2>1, <1>1, <1>5, <1>6, <1>8 DEF Informed, Live
  <1>10. ASSUME NEW t \in Threads, Serves(t, n)', stage'[t] # "idle" PROVE Drafted(t, n)'
    <2>1. Serves(t, n) /\ job'[t] = job[t] /\ stage[t] # "idle" /\ merged'[t] = merged[t]
          /\ merged[t] \in Records
      BY <1>2, <1>4, <1>10 DEF TargetInv, NodeInv, TypeOK, RecTypeOK
    <2> QED BY <2>1, <1>8 DEF NodeOwn, Drafted
  <1>11. (file[n] \in Records => NamesOwn(file[n], n))'
    BY <1>8 DEF Untouched, NodeOwn
  <1>12. (Launching(n)' <=> Launching(n)) /\ (Snoozing(n)' <=> Snoozing(n))
    BY <1>2, <1>3, <1>4 DEF Launching, Snoozing, Operates, Serves
  <1>13. RecordsFit(n)'
    <2>1. \A k \in LaunchedFor(n) : \A rec : Fits(rec, k, n) => Fits(rec, k, n)'
      BY <1>6, <1>12 DEF Fits
    <2> QED BY <1>1, <1>2, <1>4, <1>12, <2>1 DEF RecordsFit, NodeOwn, Untouched
  <1> QED BY <1>7, <1>9, <1>10, <1>11, <1>13 DEF NodeOwn

-----------------------------------------------------------------------------
LEMMA LocatedStep ==
  ASSUME NodeInv, Located, NEW t \in Threads, NEW j \in Jobs, job' = [job EXCEPT ![t] = j],
         j.op = "none" <=> j.at = "none",
         j.op = "beat" => j.at \in {"upsert", "reconcile"},
         j.op = "beat" /\ ~SendsPublicIp => j.pub = NoAddr,
         j.at = "aws" => j.op \in {"terminate", "snooze", "wake"},
         j.at = "wait" => j.op \in {"launch", "wake"},
         j.at = "reconcile" => j.op = "beat",
         j.op = "none" \/ j.at = "aws" => j.iid = NoInst,
         j.op \notin {"none", "beat"} /\ j.at # "aws" => j.iid \in Instances
  PROVE  Located'
  <1>1. job'[t] = j /\ \A u \in Threads \ {t} : job'[u] = job[u]
    BY DEF NodeInv, TypeOK
  <1>2. ASSUME NEW u \in Threads \ {t}
        PROVE  Operates(u, job[u].node)' <=> Operates(u, job[u].node)
    BY <1>1 DEF Operates
  <1>3. Operates(t, job[t].node)' <=> j.op \notin {"none", "beat"}
    BY <1>1 DEF Operates
  <1> QED BY <1>1, <1>2, <1>3 DEF Located

LEMMA NoJobLocated ==
  ASSUME NodeInv, Located, NEW t \in Threads, job' = [job EXCEPT ![t] = NoJob] PROVE Located'
  BY LocatedStep, NoJobTyped DEF NoJob

LEMMA LocatedKeeps == ASSUME TargetInv, [Next]_vars PROVE Located'
  <1> USE DEF TargetInv
  <1>1. ASSUME NEW t \in Threads, NEW n \in Nodes, Operator(t, n) PROVE Located'
    <2>1. job[t] \in Jobs
      BY JobTyped
    <2>2. CASE NodesLaunch(t, n)
      <3>1. PICK i \in Instances :
              job' = [job EXCEPT ![t].op = "launch", ![t].at = "wait", ![t].node = n,
                                 ![t].iid = i, ![t].rec = Named]
        BY <2>2 DEF NodesLaunch
      <3> DEFINE j == [job[t] EXCEPT !.op = "launch", !.at = "wait", !.node = n, !.iid = i,
                                     !.rec = Named]
      <3>2. Named \in Records
        BY FreshRecord DEF Named, Records
      <3>3. j \in Jobs /\ j.op = "launch" /\ j.at = "wait" /\ j.iid = i
        BY <2>1, <3>2 DEF Jobs
      <3>4. job' = [job EXCEPT ![t] = j]
        BY <3>1
      <3> HIDE DEF j
      <3> QED BY <3>3, <3>4, LocatedStep
    <2>3. ASSUME NEW op \in {"terminate", "snooze", "wake"}, OnRecord(t, n, op)
          PROVE  Located'
      <3> DEFINE j == [job[t] EXCEPT !.op = op, !.at = "aws", !.node = n, !.rec = file[n]]
      <3>1. j \in Jobs /\ j.op = op /\ j.at = "aws" /\ j.iid = NoInst
        BY <2>1, <2>3 DEF Jobs, OnRecord, Start, Located
      <3>2. job' = [job EXCEPT ![t] = j]
        BY <2>3 DEF OnRecord
      <3> HIDE DEF j
      <3> QED BY <3>1, <3>2, LocatedStep
    <2> QED BY <1>1, <2>2, <2>3 DEF Operator
  <1>2. ASSUME NEW t \in Threads, NEW i \in Instances, Heartbeat(t, i) PROVE Located'
    <2> DEFINE j == [job[t] EXCEPT !.op = "beat", !.at = "upsert", !.node = inst[i].node,
                                   !.priv = inst[i].priv, !.pub = HeartbeatAddress(i)]
    <2>1. inst[i] \in InstanceRecords /\ job[t] \in Jobs
      BY JobTyped DEF NodeInv, TypeOK
    <2>2. HeartbeatAddress(i) \in Publics \cup {NoAddr}
      BY <2>1 DEF HeartbeatAddress, InstanceRecords
    <2>3. j \in Jobs /\ j.op = "beat" /\ j.at = "upsert" /\ (~SendsPublicIp => j.pub = NoAddr)
      BY <2>1, <2>2 DEF Jobs, InstanceRecords, HeartbeatAddress
    <2>4. job' = [job EXCEPT ![t] = j]
      BY <1>2 DEF Heartbeat
    <2> HIDE DEF j
    <2> QED BY <2>3, <2>4, LocatedStep
  <1>3. ASSUME NEW t \in Threads, CallEc2(t) PROVE Located'
    <2>1. job[t] \in Jobs /\ job[t].at = "aws" /\ job[t].op \in {"terminate", "snooze", "wake"}
      BY <1>3, JobTyped DEF CallEc2, Located
    <2>2. ASSUME NEW i \in Instances, NEW at \in {"dns", "upsert", "wait"},
                 NEW pub \in Publics \cup {NoAddr, Placeholder},
                 at = "wait" => job[t].op = "wake",
                 job' = [job EXCEPT ![t] = [job[t] EXCEPT !.at = at, !.iid = i, !.pub = pub]]
          PROVE  Located'
      <3> DEFINE j == [job[t] EXCEPT !.at = at, !.iid = i, !.pub = pub]
      <3>1. j \in Jobs /\ j.at = at /\ j.op = job[t].op /\ j.iid = i
        BY <2>1 DEF Jobs
      <3>2. job' = [job EXCEPT ![t] = j]
        BY <2>2
      <3> HIDE DEF j
      <3> QED BY <2>1, <2>2, <3>1, <3>2, LocatedStep
    <2>3. ASSUME NEW i \in Instances,
                 job[t].op = "terminate",
                 job' = [job EXCEPT ![t].at = "upsert", ![t].iid = i]
          PROVE  Located'
      <3>1. job' = [job EXCEPT ![t] = [job[t] EXCEPT !.at = "upsert", !.iid = i,
                                                     !.pub = job[t].pub]]
        BY <2>1, <2>3 DEF Jobs
      <3> QED BY <2>1, <2>2, <3>1 DEF Jobs
    <2>4. ASSUME NEW i \in Instances,
                 job' = [job EXCEPT ![t].at = IF job[t].rec.named THEN "dns" ELSE "upsert",
                                    ![t].iid = i, ![t].pub = Placeholder]
          PROVE  Located'
      <3> DEFINE at == IF job[t].rec.named THEN "dns" ELSE "upsert"
      <3>1. job' = [job EXCEPT ![t] = [job[t] EXCEPT !.at = at, !.iid = i, !.pub = Placeholder]]
        BY <2>1, <2>4 DEF Jobs
      <3>2. at \in {"dns", "upsert", "wait"} /\ at # "wait"
        OBVIOUS
      <3> HIDE DEF at
      <3> QED BY <2>2, <3>1, <3>2
    <2>5. ASSUME NEW i \in Instances,
                 job[t].op = "wake",
                 job' = [job EXCEPT ![t].at = "wait", ![t].iid = i]
          PROVE  Located'
      <3>1. job' = [job EXCEPT ![t] = [job[t] EXCEPT !.at = "wait", !.iid = i,
                                                     !.pub = job[t].pub]]
        BY <2>1, <2>5 DEF Jobs
      <3> QED BY <2>1, <2>2, <2>5, <3>1 DEF Jobs
    <2>6. CASE job' = [job EXCEPT ![t] = NoJob]
      BY <2>6, NoJobLocated
    <2>7. \A i \in Resolved(job[t].rec, job[t].node) : i \in Instances
      BY ResolvedInstance DEF NodeInv
    <2> QED BY <1>3, <2>3, <2>4, <2>5, <2>6, <2>7 DEF CallEc2
  <1>4. ASSUME NEW t \in Threads, WaitForNetwork(t) PROVE Located'
    <2>1. /\ job[t] \in Jobs /\ job[t].op \in {"launch", "wake"} /\ job[t].iid \in Instances
          /\ inst[job[t].iid] \in InstanceRecords
      BY <1>4, JobTyped DEF WaitForNetwork, Located, Operates, NodeInv, TypeOK, Placed
    <2> DEFINE i == inst[job[t].iid]
               j == [job[t] EXCEPT !.at = IF job[t].rec.named THEN "dns" ELSE "upsert",
                                   !.priv = i.priv, !.pub = i.pub]
    <2>2. CASE job' = [job EXCEPT ![t] = j]
      <3>1. j \in Jobs /\ j.op = job[t].op /\ j.at \in {"dns", "upsert"} /\ j.iid = job[t].iid
        BY <2>1 DEF Jobs, InstanceRecords
      <3> HIDE DEF j
      <3> QED BY <2>1, <2>2, <3>1, LocatedStep
    <2>3. CASE Fail(t)
      BY <2>3, NoJobLocated DEF Fail
    <2> QED BY <1>4, <2>2, <2>3 DEF WaitForNetwork
  <1>5. ASSUME NEW t \in Threads, UpsertDns(t) PROVE Located'
    <2>1. job[t] \in Jobs /\ job[t].at = "dns"
      BY <1>5, JobTyped DEF UpsertDns
    <2>2. job[t].op \notin {"none", "beat"} /\ job[t].iid \in Instances
      BY <2>1 DEF Located, Operates
    <2> DEFINE j == [job[t] EXCEPT !.at = "upsert"]
    <2>3. CASE job' = [job EXCEPT ![t].at = "upsert"]
      <3>1. j \in Jobs /\ j.op = job[t].op /\ j.at = "upsert" /\ j.iid = job[t].iid
        BY <2>1 DEF Jobs
      <3>2. job' = [job EXCEPT ![t] = j]
        BY <2>3
      <3> HIDE DEF j
      <3> QED BY <2>2, <3>1, <3>2, LocatedStep
    <2>4. CASE Fail(t)
      BY <2>4, NoJobLocated DEF Fail
    <2> QED BY <1>5, <2>3, <2>4 DEF UpsertDns
  <1>6. ASSUME NEW t \in Threads, UpsertNode(t) PROVE Located'
    <2>1. job[t] \in Jobs /\ job[t].at = "upsert"
      BY <1>6, JobTyped DEF UpsertNode
    <2>2. CASE UNCHANGED job
      BY <2>2 DEF Located, Operates
    <2>3. CASE Fail(t)
      BY <2>3, NoJobLocated DEF Fail
    <2>4. CASE job' = [job EXCEPT ![t] = IF job[t].op = "beat"
                                         THEN [job[t] EXCEPT !.at = "reconcile"] ELSE NoJob]
      <3>1. CASE job[t].op = "beat"
        <4> DEFINE j == [job[t] EXCEPT !.at = "reconcile"]
        <4>1. /\ j \in Jobs /\ j.op = "beat" /\ j.at = "reconcile"
              /\ (~SendsPublicIp => j.pub = NoAddr)
          BY <2>1, <3>1 DEF Jobs, Located
        <4>2. job' = [job EXCEPT ![t] = j]
          BY <2>4, <3>1
        <4> HIDE DEF j
        <4> QED BY <4>1, <4>2, LocatedStep
      <3>2. CASE job[t].op # "beat"
        BY <2>4, <3>2, NoJobLocated
      <3> QED BY <3>1, <3>2
    <2> QED BY <1>6, <2>2, <2>3, <2>4 DEF UpsertNode
  <1>7. ASSUME NEW t \in Threads, ReconcileDns(t) \/ SkipDns(t) PROVE Located'
    BY <1>7, NoJobLocated DEF ReconcileDns, SkipDns
  <1>8. ASSUME UNCHANGED job PROVE Located'
    BY <1>8 DEF Located, Operates
  <1>9. CASE Restart
    BY <1>9, RecordValues DEF Restart, Located, Operates, NoJob
  <1> QED BY <1>1, <1>2, <1>3, <1>4, <1>5, <1>6, <1>7, <1>8, <1>9
          DEF Next, Serve, Boot, NodesDelete, vars

LEMMA AddressesKeep == ASSUME TargetInv, [Next]_vars PROVE Addresses'
  <1> USE DEF TargetInv
  <1>0. inst \in [Instances -> InstanceRecords]
    BY DEF NodeInv, TypeOK
  <1>1. ASSUME NEW i \in Instances, NEW r \in InstanceRecords, inst' = [inst EXCEPT ![i] = r],
               r.pub \in {NoAddr} \cup FreePublics,
               r.priv \in {NoAddr, inst[i].priv} \cup FreePrivates,
               r.state # "running" => r.pub = NoAddr,
               r.state = "running" => r.priv # NoAddr,
               r.state \in {"none", "terminated"} => r.priv = NoAddr
        PROVE  Addresses'
    <2>1. inst'[i] = r /\ \A k \in Instances \ {i} : inst'[k] = inst[k]
      BY <1>0, <1>1
    <2>2. \A k \in Instances : r.pub = inst[k].pub => r.pub = NoAddr
      BY <1>1 DEF FreePublics
    <2>3. \A k \in Instances \ {i} : r.priv = inst[k].priv => r.priv = NoAddr
      BY <1>1 DEF FreePrivates, Addresses
    <2> QED BY <2>1, <2>2, <2>3, <1>1 DEF Addresses
  <1>2. ASSUME NEW t \in Threads, NEW n \in Nodes, Operator(t, n) PROVE Addresses'
    <2>1. CASE NodesLaunch(t, n)
      <3>1. PICK i \in Instances :
              inst[i].state = "none" /\ inst' = [inst EXCEPT ![i].state = "pending", ![i].node = n]
        BY <2>1 DEF NodesLaunch
      <3> DEFINE r == [inst[i] EXCEPT !.state = "pending", !.node = n]
      <3>2. /\ r \in InstanceRecords /\ r.state = "pending" /\ r.pub = NoAddr
            /\ r.priv = inst[i].priv /\ inst' = [inst EXCEPT ![i] = r]
        BY <1>0, <3>1 DEF InstanceRecords, Addresses
      <3> HIDE DEF r
      <3> QED BY <1>1, <3>2
    <2>2. CASE UNCHANGED inst
      BY <2>2 DEF Addresses
    <2> QED BY <1>2, <2>1, <2>2 DEF Operator, OnRecord
  <1>3. ASSUME NEW i \in Instances, Boot(i) PROVE Addresses'
    <2>1. PICK pub \in FreePublics,
               priv \in IF inst[i].priv = NoAddr THEN FreePrivates ELSE {inst[i].priv} :
            inst' = [inst EXCEPT ![i].state = "running", ![i].pub = pub, ![i].priv = priv]
      BY <1>3 DEF Boot
    <2> DEFINE r == [inst[i] EXCEPT !.state = "running", !.pub = pub, !.priv = priv]
    <2>2. pub \in Publics /\ priv \in Privates \cup {NoAddr} /\ priv # NoAddr
      BY <1>0, <2>1, RecordValues DEF FreePublics, FreePrivates, InstanceRecords
    <2>3. /\ r \in InstanceRecords /\ r.state = "running" /\ r.pub = pub /\ r.priv = priv
          /\ inst' = [inst EXCEPT ![i] = r]
      BY <1>0, <2>1, <2>2 DEF InstanceRecords
    <2>4. priv \in {NoAddr, inst[i].priv} \cup FreePrivates
      BY <2>1
    <2> HIDE DEF r
    <2> QED BY <1>1, <2>1, <2>2, <2>3, <2>4
  <1>4. ASSUME NEW t \in Threads, CallEc2(t) PROVE Addresses'
    <2>1. ASSUME NEW i \in Instances, inst' = Terminated(i) PROVE Addresses'
      <3> DEFINE r == [inst[i] EXCEPT !.state = "terminated", !.priv = NoAddr, !.pub = NoAddr]
      <3>1. /\ r \in InstanceRecords /\ r.state = "terminated" /\ r.pub = NoAddr
            /\ r.priv = NoAddr /\ inst' = [inst EXCEPT ![i] = r]
        BY <1>0, <2>1 DEF InstanceRecords, Terminated
      <3> HIDE DEF r
      <3> QED BY <1>1, <3>1
    <2>2. ASSUME NEW i \in Instances, inst' = Stopped(i) PROVE Addresses'
      <3> DEFINE r == [inst[i] EXCEPT !.state = "stopped", !.pub = NoAddr]
      <3>1. /\ r \in InstanceRecords /\ r.state = "stopped" /\ r.pub = NoAddr
            /\ r.priv = inst[i].priv /\ inst' = [inst EXCEPT ![i] = r]
        BY <1>0, <2>2 DEF InstanceRecords, Stopped
      <3> HIDE DEF r
      <3> QED BY <1>1, <3>1
    <2>3. ASSUME NEW i \in Instances, Live(i), inst' = Started(i) PROVE Addresses'
      <3>1. CASE inst[i].state = "stopped"
        <4> DEFINE r == [inst[i] EXCEPT !.state = "pending"]
        <4>1. /\ r \in InstanceRecords /\ r.state = "pending" /\ r.pub = NoAddr
              /\ r.priv = inst[i].priv /\ inst' = [inst EXCEPT ![i] = r]
          BY <1>0, <2>3, <3>1 DEF InstanceRecords, Started, Addresses
        <4> HIDE DEF r
        <4> QED BY <1>1, <4>1
      <3>2. CASE inst[i].state # "stopped"
        <4>1. inst' = inst
          BY <1>0, <2>3, <3>2 DEF Started, InstanceRecords
        <4> QED BY <4>1 DEF Addresses
      <3> QED BY <3>1, <3>2
    <2>4. CASE UNCHANGED inst
      BY <2>4 DEF Addresses
    <2>5. \A i \in Resolved(job[t].rec, job[t].node) : i \in Instances
      BY ResolvedInstance DEF NodeInv
    <2> QED BY <1>4, <2>1, <2>2, <2>3, <2>4, <2>5 DEF CallEc2
  <1>5. ASSUME UNCHANGED inst PROVE Addresses'
    BY <1>5 DEF Addresses
  <1> QED BY <1>2, <1>3, <1>4, <1>5
          DEF Next, Serve, WaitForNetwork, UpsertDns, UpsertNode, SkipDns, ReconcileDns, Heartbeat,
              NodesDelete, Restart, vars

-----------------------------------------------------------------------------
(* One step at a time: what is true of a quiet node stays true.            *)

LEMMA NodeTyped ==
  ASSUME TargetInv, NEW t \in Threads
  PROVE  /\ job[t] \in Jobs /\ job[t].rec \in Records /\ merged[t] \in Records
         /\ (job[t].op = "none" <=> job[t].at = "none")
         /\ (stage[t] # "idle" => job[t].at = "upsert" /\ job[t].node = target[t])
  BY JobTyped DEF TargetInv, NodeInv, TypeOK, RecTypeOK, Placed, Located, Jobs

LEMMA LiveOwn ==
  ASSUME NEW n, NEW k \in LaunchedFor(n) PROVE k \in Instances /\ Live(k) /\ Own(k, n)
  BY DEF LaunchedFor, Live, Own

\* Of two requests on a quiet node at most one is an operator's.
LEMMA OnlyOperator ==
  ASSUME NEW n, Alone(n), NEW t \in Threads, NEW u \in Threads, Operates(t, n), Operates(u, n)
  PROVE  t = u
  BY DEF Alone

LEMMA LaunchOwn ==
  ASSUME TargetInv, NEW t \in Threads, NEW m \in Nodes, NodesLaunch(t, m),
         NEW n \in Nodes, Quiet(n), Quiet(n)'
  PROVE  NodeOwn(n)'
  <1>1. PICK i \in Instances :
          /\ inst[i].state = "none"
          /\ inst' = [inst EXCEPT ![i].state = "pending", ![i].node = m]
          /\ job' = [job EXCEPT ![t].op = "launch", ![t].at = "wait", ![t].node = m,
                                ![t].iid = i, ![t].rec = Named]
    BY DEF NodesLaunch
  <1>2. Start(t, m, ~Serving(m) /\ LaunchedFor(m) = {})
    BY DEF NodesLaunch
  <1>3. /\ NodeOwn(n) /\ job[t].op = "none"
        /\ UNCHANGED <<file, stage, merged>>
    BY <1>2 DEF TargetInv, Start, recVars
  <1>4. /\ inst'[i].state = "pending" /\ inst'[i].node = m
        /\ \A k \in Instances \ {i} : inst'[k] = inst[k]
    BY <1>1 DEF TargetInv, NodeInv, TypeOK, InstanceRecords
  <1>5. /\ job'[t].op = "launch" /\ job'[t].at = "wait" /\ job'[t].node = m /\ job'[t].iid = i
        /\ \A u \in Threads \ {t} : job'[u] = job[u]
    BY <1>1 DEF TargetInv, NodeInv, TypeOK, Jobs
  <1>6. CASE n # m
    <2>1. Untouched(n)
      BY <1>1, <1>3, <1>4, <1>5, <1>6 DEF Untouched, Own, Serves
    <2> QED BY <1>3, <2>1, UntouchedKeeps
  <1>7. CASE n = m
    <2>1. (\A u \in Threads : ~Serves(u, n)) /\ LaunchedFor(n) = {}
      BY <1>2, <1>7 DEF Start, Quiet, Serving, Serves
    <2>2. \A k \in LaunchedFor(n)' : k = i
      BY <2>1, <1>4 DEF LaunchedFor, Live
    <2>3. \A u \in Threads : Serves(u, n)' => u = t
      BY <2>1, <1>5 DEF Serves
    <2>4. Alone(n)'
      BY <2>2, <2>3 DEF Alone, Serves, Operates
    <2>5. Informed(t, n)'
      BY <1>4, <1>5, <1>7 DEF Informed, Own, Live
    <2>6. stage'[t] = "idle"
      BY <1>3, NodeTyped
    <2>7. file'[n] \in Records => NamesOwn(file[n], n)'
      <3>1. \A k \in Instances : Own(k, n) => Own(k, n)'
        BY <1>1, <1>4 DEF Own
      <3>2. file[n] \in Records => NamesOwn(file[n], n)
        BY <1>3 DEF NodeOwn
      <3> QED BY <1>3, <3>1, <3>2 DEF NamesOwn, Records
    <2>8. Launching(n)'
      BY <1>5, <1>7 DEF Launching, Operates
    <2>9. RecordsFit(n)'
      BY <2>8 DEF RecordsFit
    <2> QED BY <1>3, <2>3, <2>4, <2>5, <2>6, <2>7, <2>9 DEF NodeOwn
  <1> QED BY <1>6, <1>7

LEMMA OnRecordOwn ==
  ASSUME TargetInv, NEW t \in Threads, NEW m \in Nodes,
         NEW op \in {"terminate", "snooze", "wake"}, OnRecord(t, m, op),
         NEW n \in Nodes, Quiet(n), Quiet(n)'
  PROVE  NodeOwn(n)'
  <1>1. /\ Start(t, m, ~Operating(m)) /\ file[m] \in Records /\ inst' = inst
        /\ job' = [job EXCEPT ![t].op = op, ![t].at = "aws", ![t].node = m, ![t].rec = file[m]]
    BY DEF OnRecord
  <1>2. NodeOwn(n) /\ job[t].op = "none" /\ UNCHANGED <<file, stage, merged>>
    BY <1>1 DEF TargetInv, Start, recVars
  <1>3. /\ job'[t].op = op /\ job'[t].at = "aws" /\ job'[t].node = m /\ job'[t].rec = file[m]
        /\ \A u \in Threads \ {t} : job'[u] = job[u]
    BY <1>1 DEF TargetInv, NodeInv, TypeOK, Jobs
  <1>4. CASE n # m
    <2>1. Untouched(n)
      BY <1>1, <1>2, <1>3, <1>4 DEF Untouched, Serves
    <2> QED BY <1>2, <2>1, UntouchedKeeps
  <1>5. CASE n = m
    <2>1. \A u \in Threads : ~Operates(u, n)
      BY <1>1, <1>5 DEF Start, Quiet, Operating, Operates
    <2>2. LaunchedFor(n)' = LaunchedFor(n)
      BY <1>1 DEF LaunchedFor, Live
    <2>3. stage'[t] = "idle"
      BY <1>2, NodeTyped
    <2>4. \A u \in Threads : Operates(u, n)' => u = t
      BY <2>1, <1>3 DEF Operates
    <2>5. Alone(n)'
      BY <2>2, <2>4, <1>2 DEF Alone, NodeOwn
    <2>6. Informed(t, n)'
      BY <1>1, <1>2, <1>3, <1>5 DEF Informed, NodeOwn, NamesOwn, Own
    <2>7. ASSUME NEW u \in Threads \ {t}, Serves(u, n)'
          PROVE  Serves(u, n) /\ job'[u] = job[u] /\ Informed(u, n)'
      <3>1. Serves(u, n) /\ job'[u] = job[u] /\ Informed(u, n)
        BY <1>2, <1>3, <2>7 DEF Serves, NodeOwn
      <3> QED BY <1>1, <2>2, <3>1 DEF Informed, NamesOwn, Own, Live
    <2>8. ASSUME NEW u \in Threads, Serves(u, n)', stage'[u] # "idle" PROVE Drafted(u, n)'
      <3>1. u # t /\ Serves(u, n) /\ job'[u] = job[u] /\ Drafted(u, n)
        BY <1>2, <2>3, <2>7, <2>8 DEF NodeOwn
      <3> QED BY <1>1, <1>2, <3>1 DEF Drafted, NamesOwn, Own
    <2>9. file'[n] \in Records => NamesOwn(file[n], n)'
      BY <1>1, <1>2 DEF NodeOwn, NamesOwn, Own
    <2>10. ~Launching(n) /\ ~Snoozing(n)
      BY <2>1 DEF Launching, Snoozing
    <2>11. RecordsFit(n)'
      <3>1. \A k \in LaunchedFor(n) : \A rec : Fits(rec, k, n) => Fits(rec, k, n)'
        BY <1>1, <2>10 DEF Fits
      <3> QED BY <1>1, <1>2, <1>3, <1>5, <2>2, <2>3, <2>7, <2>10, <3>1 DEF RecordsFit, NodeOwn
    <2> QED BY <1>2, <2>5, <2>6, <2>7, <2>8, <2>9, <2>11 DEF NodeOwn
  <1> QED BY <1>4, <1>5

\* A request on n goes on, or ends, without touching instances or records.
LEMMA RequestOwn ==
  ASSUME TargetInv, NEW t \in Threads, NEW n \in Nodes, NodeOwn(n), Serves(t, n),
         UNCHANGED <<inst, file, stage, merged>>, stage[t] = "idle",
         NEW j, job' = [job EXCEPT ![t] = j],
         j.op # "none" => j.op = job[t].op /\ j.node = n /\ j.at # "aws" /\ Informed(t, n)',
         j.op = "none" => job[t].op # "launch" /\ (job[t].op = "snooze" => job[t].at = "aws")
  PROVE  NodeOwn(n)'
  <1>1. job'[t] = j /\ \A u \in Threads \ {t} : job'[u] = job[u]
    BY DEF TargetInv, NodeInv, TypeOK
  <1>2. \A u \in Threads : Serves(u, n)' => Serves(u, n)
    BY <1>1 DEF Serves
  <1>3. \A u \in Threads : Operates(u, n)' => Operates(u, n)
    BY <1>1 DEF Operates, Serves
  <1>4. LaunchedFor(n)' = LaunchedFor(n)
    BY DEF LaunchedFor, Live
  <1>5. Alone(n)'
    BY <1>3, <1>4 DEF Alone, NodeOwn
  <1>6. ASSUME NEW u \in Threads, Serves(u, n)' PROVE Informed(u, n)'
    <2>1. CASE u = t
      BY <1>1, <1>6, <2>1 DEF Serves
    <2>2. CASE u # t
      <3>1. job'[u] = job[u] /\ Informed(u, n)
        BY <1>1, <1>2, <1>6, <2>2 DEF NodeOwn
      <3> QED BY <1>4, <3>1 DEF Informed, NamesOwn, Own, Live
    <2> QED BY <2>1, <2>2
  <1>7. ASSUME NEW u \in Threads, Serves(u, n)', stage'[u] # "idle" PROVE Drafted(u, n)'
    <2>1. u # t /\ job'[u] = job[u] /\ Drafted(u, n)
      BY <1>1, <1>2, <1>7 DEF NodeOwn
    <2> QED BY <2>1 DEF Drafted, NamesOwn, Own
  <1>8. file'[n] \in Records => NamesOwn(file[n], n)'
    BY DEF NodeOwn, NamesOwn, Own
  <1>9. (Launching(n) => Launching(n)') /\ (Snoozing(n) => Snoozing(n)')
    BY <1>1 DEF Launching, Snoozing, Operates, Serves
  <1>10. RecordsFit(n)'
    <2>1. \A k \in LaunchedFor(n) : \A rec : Fits(rec, k, n) => Fits(rec, k, n)'
      BY <1>9 DEF Fits
    <2>2. \A u \in Threads : Serves(u, n)' =>
            Serves(u, n) /\ (stage'[u] # "idle" => stage[u] # "idle")
            /\ (job'[u].at = "aws" => job[u].at = "aws" /\ job'[u].rec = job[u].rec)
      BY <1>1, <1>2 DEF Serves
    <2> QED BY <1>4, <1>9, <2>1, <2>2 DEF RecordsFit, NodeOwn
  <1> QED BY <1>5, <1>6, <1>7, <1>8, <1>10 DEF NodeOwn

\* A request on another node does the same.
LEMMA OthersRequestOwn ==
  ASSUME TargetInv, NEW t \in Threads, NEW n \in Nodes, NodeOwn(n), ~Serves(t, n),
         UNCHANGED <<inst, file, stage, merged>>,
         NEW j, job' = [job EXCEPT ![t] = j], j.op = "none" \/ j.node # n
  PROVE  NodeOwn(n)'
  <1>1. job'[t] = j /\ \A u \in Threads \ {t} : job'[u] = job[u]
    BY DEF TargetInv, NodeInv, TypeOK
  <1>2. Untouched(n)
    BY <1>1 DEF Untouched, Serves
  <1> QED BY <1>2, UntouchedKeeps

\* A request that fails disturbs its node.
LEMMA FailOwn ==
  ASSUME TargetInv, NEW t \in Threads, Fail(t), UNCHANGED <<inst, file, stage, merged>>,
         NEW n \in Nodes, Quiet(n), Quiet(n)'
  PROVE  NodeOwn(n)'
  <1>1. job[t].node # n
    BY DEF Fail, Quiet
  <1> QED BY <1>1, OthersRequestOwn DEF Fail, Serves, NoJob, TargetInv

LEMMA WaitOwn ==
  ASSUME TargetInv, NEW t \in Threads, WaitForNetwork(t), NEW n \in Nodes, Quiet(n), Quiet(n)'
  PROVE  NodeOwn(n)'
  <1>1. NodeOwn(n) /\ UNCHANGED <<inst, file, stage, merged>> /\ stage[t] = "idle"
    BY NodeTyped DEF TargetInv, WaitForNetwork, recVars
  <1> DEFINE i == inst[job[t].iid]
             j == [job[t] EXCEPT !.at = IF job[t].rec.named THEN "dns" ELSE "upsert",
                                 !.priv = i.priv, !.pub = i.pub]
  <1>2. CASE i.priv # NoAddr /\ i.pub # NoAddr /\ job' = [job EXCEPT ![t] = j]
    <2>1. /\ j.op = job[t].op /\ j.node = job[t].node /\ j.iid = job[t].iid
          /\ j.at \in {"dns", "upsert"} /\ j.priv = i.priv /\ j.pub = i.pub
      BY NodeTyped DEF Jobs
    <2>2. job'[t] = j
      BY <1>2 DEF TargetInv, NodeInv, TypeOK
    <2>3. job[t].op \in {"launch", "wake"}
      BY DEF WaitForNetwork, TargetInv, Located
    <2> HIDE DEF j
    <2>4. CASE Serves(t, n)
      <3>1. Informed(t, n)
        BY <1>1, <2>4 DEF NodeOwn
      <3>2. job[t].at = "wait"
        BY DEF WaitForNetwork
      <3>3. Informed(t, n)'
        BY <1>1, <1>2, <2>1, <2>2, <2>3, <3>1, <3>2 DEF Informed, Own, Live
      <3> QED BY <1>1, <1>2, <2>1, <2>3, <2>4, <3>3, RequestOwn DEF Serves
    <2>5. CASE ~Serves(t, n)
      BY <1>1, <1>2, <2>1, <2>5, OthersRequestOwn DEF Serves
    <2> QED BY <2>4, <2>5
  <1>3. CASE Fail(t)
    BY <1>1, <1>3, FailOwn
  <1> QED BY <1>2, <1>3 DEF WaitForNetwork

LEMMA DnsOwn ==
  ASSUME TargetInv, NEW t \in Threads, UpsertDns(t), NEW n \in Nodes, Quiet(n), Quiet(n)'
  PROVE  NodeOwn(n)'
  <1>1. NodeOwn(n) /\ UNCHANGED <<inst, file, stage, merged>> /\ stage[t] = "idle"
    BY NodeTyped DEF TargetInv, UpsertDns, recVars
  <1> DEFINE j == [job[t] EXCEPT !.at = "upsert"]
  <1>2. CASE job' = [job EXCEPT ![t].at = "upsert"]
    <2>1. /\ j.op = job[t].op /\ j.node = job[t].node /\ j.iid = job[t].iid
          /\ j.at = "upsert" /\ j.priv = job[t].priv /\ j.pub = job[t].pub
      BY NodeTyped DEF Jobs
    <2>2. job' = [job EXCEPT ![t] = j]
      BY <1>2
    <2>3. job'[t] = j
      BY <2>2 DEF TargetInv, NodeInv, TypeOK
    <2>4. job[t].at = "dns"
      BY DEF UpsertDns
    <2> HIDE DEF j
    <2>5. CASE Serves(t, n)
      <3>1. Informed(t, n)
        BY <1>1, <2>5 DEF NodeOwn
      <3>2. LaunchedFor(n)' = LaunchedFor(n)
        BY <1>1 DEF LaunchedFor, Live
      <3>3. Informed(t, n)'
        BY <1>1, <2>1, <2>3, <2>4, <3>1, <3>2 DEF Informed, Own, Live
      <3> QED BY <1>1, <2>1, <2>2, <2>5, <3>3, RequestOwn DEF Serves
    <2>6. CASE ~Serves(t, n)
      BY <1>1, <2>1, <2>2, <2>6, OthersRequestOwn DEF Serves
    <2> QED BY <2>5, <2>6
  <1>3. CASE Fail(t)
    BY <1>1, <1>3, FailOwn
  <1> QED BY <1>2, <1>3 DEF UpsertDns

LEMMA BeatEndsOwn ==
  ASSUME TargetInv, NEW t \in Threads, ReconcileDns(t) \/ SkipDns(t),
         NEW n \in Nodes, Quiet(n), Quiet(n)'
  PROVE  NodeOwn(n)'
  <1>1. /\ NodeOwn(n) /\ UNCHANGED <<inst, file, stage, merged>> /\ stage[t] = "idle"
        /\ job[t].op = "beat" /\ job' = [job EXCEPT ![t] = NoJob] /\ NoJob.op = "none"
    BY NodeTyped DEF TargetInv, Located, ReconcileDns, SkipDns, recVars, NoJob
  <1>2. CASE Serves(t, n)
    BY <1>1, <1>2, RequestOwn
  <1>3. CASE ~Serves(t, n)
    BY <1>1, <1>3, OthersRequestOwn
  <1> QED BY <1>2, <1>3

LEMMA HeartbeatOwn ==
  ASSUME TargetInv, NEW t \in Threads, NEW i \in Instances, Heartbeat(t, i),
         NEW n \in Nodes, Quiet(n), Quiet(n)'
  PROVE  NodeOwn(n)'
  <1> DEFINE j == [job[t] EXCEPT !.op = "beat", !.at = "upsert", !.node = inst[i].node,
                                 !.priv = inst[i].priv, !.pub = HeartbeatAddress(i)]
  <1>1. /\ NodeOwn(n) /\ UNCHANGED <<inst, file, stage, merged>> /\ stage[t] = "idle"
        /\ job[t].op = "none" /\ inst[i].state = "running" /\ job' = [job EXCEPT ![t] = j]
    BY NodeTyped DEF TargetInv, Heartbeat, recVars
  <1>2. j.op = "beat" /\ j.at = "upsert" /\ j.node = inst[i].node /\ j.priv = inst[i].priv
    BY NodeTyped DEF Jobs
  <1> HIDE DEF j
  <1>3. job'[t] = j /\ \A u \in Threads \ {t} : job'[u] = job[u]
    BY <1>1 DEF TargetInv, NodeInv, TypeOK
  <1>4. CASE inst[i].node # n
    BY <1>1, <1>2, <1>4, OthersRequestOwn DEF Serves
  <1>5. CASE inst[i].node = n
    <2>1. LaunchedFor(n)' = LaunchedFor(n) /\ i \in LaunchedFor(n)
      BY <1>1, <1>5 DEF LaunchedFor, Live
    <2>2. \A u \in Threads : Operates(u, n)' <=> Operates(u, n)
      BY <1>1, <1>2, <1>3 DEF Operates
    <2>3. \A u \in Threads \ {t} : Serves(u, n)' <=> Serves(u, n)
      BY <1>3 DEF Serves
    <2>4. Alone(n)'
      BY <1>1, <2>1, <2>2 DEF Alone, NodeOwn
    <2>5. Informed(t, n)'
      <3>1. \A k \in LaunchedFor(n) : k = i
        BY <1>1, <2>1 DEF NodeOwn, Alone
      <3>2. inst[i].priv # NoAddr
        BY <1>1 DEF TargetInv, Addresses
      <3> QED BY <1>1, <1>2, <1>3, <2>1, <3>1, <3>2 DEF Informed
    <2>6. ASSUME NEW u \in Threads \ {t}, Serves(u, n)' PROVE Informed(u, n)'
      <3>1. job'[u] = job[u] /\ Informed(u, n)
        BY <1>1, <1>3, <2>3, <2>6 DEF NodeOwn
      <3> QED BY <1>1, <2>1, <3>1 DEF Informed, NamesOwn, Own, Live
    <2>7. ASSUME NEW u \in Threads, Serves(u, n)', stage'[u] # "idle" PROVE Drafted(u, n)'
      <3>1. u # t /\ job'[u] = job[u] /\ Drafted(u, n)
        BY <1>1, <1>3, <2>3, <2>7 DEF NodeOwn
      <3> QED BY <1>1, <3>1 DEF Drafted, NamesOwn, Own
    <2>8. file'[n] \in Records => NamesOwn(file[n], n)'
      BY <1>1 DEF NodeOwn, NamesOwn, Own
    <2>9. (Launching(n)' <=> Launching(n)) /\ (Snoozing(n)' <=> Snoozing(n))
      BY <1>1, <1>2, <1>3 DEF Launching, Snoozing, Operates
    <2>10. RecordsFit(n)'
      <3>1. \A k \in LaunchedFor(n) : \A rec : Fits(rec, k, n) => Fits(rec, k, n)'
        BY <1>1, <2>9 DEF Fits
      <3> QED BY <1>1, <1>2, <1>3, <2>1, <2>3, <2>9, <3>1 DEF RecordsFit, NodeOwn
    <2> QED BY <2>4, <2>5, <2>6, <2>7, <2>8, <2>10 DEF NodeOwn
  <1> QED BY <1>4, <1>5

LEMMA BootOwn ==
  ASSUME TargetInv, NEW i \in Instances, Boot(i), NEW n \in Nodes, Quiet(n), Quiet(n)'
  PROVE  NodeOwn(n)'
  <1>1. NodeOwn(n) /\ UNCHANGED <<file, stage, merged, job>> /\ inst[i].state = "pending"
    BY DEF TargetInv, Boot, recVars
  <1>2. PICK pub \in FreePublics,
             priv \in IF inst[i].priv = NoAddr THEN FreePrivates ELSE {inst[i].priv} :
          inst' = [inst EXCEPT ![i].state = "running", ![i].pub = pub, ![i].priv = priv]
    BY DEF Boot
  <1>3. /\ inst'[i].state = "running" /\ inst'[i].node = inst[i].node
        /\ inst'[i].priv = priv
        /\ \A k \in Instances \ {i} : inst'[k] = inst[k]
    BY <1>2 DEF TargetInv, NodeInv, TypeOK, InstanceRecords
  <1>4. CASE inst[i].node # n
    <2>1. Untouched(n)
      BY <1>1, <1>3, <1>4 DEF Untouched, Own
    <2> QED BY <1>1, <2>1, UntouchedKeeps
  <1>5. CASE inst[i].node = n
    <2>1. LaunchedFor(n)' = LaunchedFor(n) /\ i \in LaunchedFor(n)
      BY <1>1, <1>3, <1>5 DEF LaunchedFor, Live
    <2>2. \A k \in LaunchedFor(n) : k = i
      BY <1>1, <2>1 DEF NodeOwn, Alone
    <2>3. inst[i].pub = NoAddr /\ (inst[i].priv # NoAddr => priv = inst[i].priv)
      BY <1>1, <1>2 DEF TargetInv, Addresses
    <2>4. \A k \in Instances : Own(k, n)' <=> Own(k, n)
      BY <1>1, <1>3, <1>5 DEF Own
    <2>5. \A rec \in Records : NamesOwn(rec, n) => NamesOwn(rec, n)'
      BY <2>4 DEF NamesOwn, Records
    <2>6. Alone(n)'
      BY <1>1, <2>1 DEF NodeOwn, Alone, Operates
    <2>7. ASSUME NEW t \in Threads, Serves(t, n)' PROVE Informed(t, n)'
      <3>1. /\ Serves(t, n) /\ Informed(t, n) /\ job[t].rec \in Records
            /\ (job[t].op # "beat" /\ job[t].at # "aws" => job[t].iid \in Instances)
        BY <1>1, <2>7, NodeTyped DEF NodeOwn, TargetInv, Located, Serves, Operates
      <3>2. job[t].op \in {"launch", "wake"} /\ job[t].at # "aws" => job[t].iid \in LaunchedFor(n)
        BY <3>1 DEF Informed, Own, LaunchedFor
      <3> QED BY <1>1, <1>3, <2>1, <2>2, <2>3, <2>4, <2>5, <3>1, <3>2 DEF Informed, Live
    <2>8. ASSUME NEW t \in Threads, Serves(t, n)', stage'[t] # "idle" PROVE Drafted(t, n)'
      BY <1>1, <2>5, <2>8, NodeTyped DEF NodeOwn, Drafted, Serves
    <2>9. file'[n] \in Records => NamesOwn(file[n], n)'
      BY <1>1, <2>5 DEF NodeOwn
    <2>10. RecordsFit(n)'
      <3>1. (Launching(n)' <=> Launching(n)) /\ (Snoozing(n)' <=> Snoozing(n))
        BY <1>1 DEF Launching, Snoozing, Operates
      <3>2. \A k \in LaunchedFor(n) : \A rec : Fits(rec, k, n) => Fits(rec, k, n)'
        BY <1>3, <2>2, <2>3, <3>1 DEF Fits
      <3> QED BY <1>1, <2>1, <3>1, <3>2 DEF RecordsFit, NodeOwn, Serves
    <2> QED BY <2>6, <2>7, <2>8, <2>9, <2>10 DEF NodeOwn
  <1> QED BY <1>4, <1>5

\* On a quiet node, terminate, snooze and wake look up an instance of the node's
\* own, and they look up the live one if there is one.
LEMMA ResolvedLive ==
  ASSUME TargetInv, NEW t \in Threads, NEW i \in Resolved(job[t].rec, job[t].node),
         LaunchedFor(job[t].node) # {}
  PROVE  Live(i)
  <1>1. PICK k \in Instances : Live(k) /\ inst[k].node = job[t].node
    BY DEF LaunchedFor
  <1>2. Matches(job[t].rec, job[t].node) # {}
    BY <1>1 DEF Matches
  <1> QED BY <1>2 DEF Resolved, Matches

LEMMA ResolvedOwn ==
  ASSUME TargetInv, NEW t \in Threads, job[t].at = "aws",
         NEW i \in Resolved(job[t].rec, job[t].node), inst[i].node = job[t].node,
         NEW n \in Nodes, NodeOwn(n), Serves(t, n)
  PROVE  i \in Instances /\ Own(i, n)
  <1>1. i \in Instances
    BY ResolvedInstance DEF TargetInv, NodeInv
  <1>2. Live(i) => Own(i, n)
    BY DEF Live, Own, Serves
  <1>3. Informed(t, n)
    BY DEF NodeOwn
  <1>4. Live(i) \/ (i = job[t].rec.iid /\ i # NoInst)
    BY DEF Resolved, Matches
  <1> QED BY <1>1, <1>2, <1>3, <1>4 DEF Informed, NamesOwn

\* What calling EC2 on its own instance i leaves true of node n.
LEMMA CallOwn ==
  ASSUME TargetInv, NEW t \in Threads, NEW n \in Nodes, NodeOwn(n), Serves(t, n),
         job[t].at = "aws", UNCHANGED <<file, stage, merged>>,
         NEW i \in Instances, Own(i, n),
         NEW r, inst' = [inst EXCEPT ![i] = r], r.node = n,
         NEW j, job' = [job EXCEPT ![t] = j], j.op = job[t].op, j.node = n, j.iid = i,
         j.at # "aws", j.op \in {"launch", "wake"} => j.at = "wait",
         r.state \in {"pending", "running", "stopped", "terminated"},
         \/ r.state = "terminated" /\ j.op = "terminate" /\ (LaunchedFor(n) # {} => Live(i))
         \/ /\ Live(i) /\ r.state # "terminated" /\ r.priv = inst[i].priv
            /\ r.pub = inst[i].pub \/ j.op = "snooze"
  PROVE  NodeOwn(n)'
  <1>1. inst'[i] = r /\ \A k \in Instances \ {i} : inst'[k] = inst[k]
    BY DEF TargetInv, NodeInv, TypeOK
  <1>2. job'[t] = j /\ \A u \in Threads \ {t} : job'[u] = job[u]
    BY DEF TargetInv, NodeInv, TypeOK
  <1>3. \A u \in Threads : (Serves(u, n)' <=> Serves(u, n)) /\ (Operates(u, n)' <=> Operates(u, n))
    BY <1>2 DEF Serves, Operates
  <1>4. \A k \in Instances : Own(k, n)' <=> Own(k, n)
    BY <1>1 DEF Own
  <1>5. \A rec \in Records : NamesOwn(rec, n) => NamesOwn(rec, n)'
    BY <1>4 DEF NamesOwn, Records
  <1>6. LaunchedFor(n)' \subseteq LaunchedFor(n)
    BY <1>1 DEF LaunchedFor, Live, Own
  <1>7. Alone(n)'
    BY <1>3, <1>6 DEF Alone, NodeOwn
  <1>8. \A k \in LaunchedFor(n) : k = i
    BY DEF NodeOwn, Alone, LaunchedFor, Own
  <1>9. \A k \in LaunchedFor(n)' :
          /\ k = i /\ k \in LaunchedFor(n) /\ inst'[k].priv = inst[k].priv
          /\ inst'[k].pub = inst[k].pub \/ j.op = "snooze"
    BY <1>1, <1>6, <1>8 DEF LaunchedFor, Live
  <1>10. Operates(t, n)
    BY DEF Operates, Serves, TargetInv, Located
  <1>11. \A u \in Threads \ {t} : Serves(u, n) => job[u].op = "beat"
    BY <1>10 DEF NodeOwn, Alone, Serves, Operates
  <1>12. ASSUME NEW u \in Threads, Serves(u, n)' PROVE Informed(u, n)'
    <2>1. CASE u = t
      BY <1>1, <1>2, <1>10, <2>1 DEF Informed, Own, Live, Operates
    <2>2. CASE u # t
      <3>1. job'[u] = job[u] /\ job[u].op = "beat" /\ job[u].at # "aws" /\ Informed(u, n)
        BY <1>2, <1>3, <1>11, <1>12, <2>2 DEF NodeOwn, TargetInv, Located
      <3> QED BY <1>9, <3>1 DEF Informed
    <2> QED BY <2>1, <2>2
  <1>13. ASSUME NEW u \in Threads, Serves(u, n)', stage'[u] # "idle" PROVE Drafted(u, n)'
    <2>1. u # t /\ job'[u] = job[u] /\ Drafted(u, n)
      BY <1>2, <1>3, <1>13, NodeTyped DEF NodeOwn
    <2> QED BY <1>5, <2>1, NodeTyped DEF Drafted
  <1>14. file'[n] \in Records => NamesOwn(file[n], n)'
    BY <1>5 DEF NodeOwn
  <1>15. ~Launching(n) /\ (Snoozing(n) => Snoozing(n)') /\ (j.op = "snooze" => Snoozing(n)')
    BY <1>2, <1>3, <1>10, <1>11 DEF Launching, Snoozing, Operates, Serves, TargetInv, Located
  <1>16. RecordsFit(n)'
    <2>1. \A k \in LaunchedFor(n)' : \A rec : Fits(rec, k, n) => Fits(rec, k, n)'
      BY <1>9, <1>15 DEF Fits
    <2>2. \A u \in Threads : Serves(u, n)' =>
            Serves(u, n) /\ (job'[u].at = "aws" => job[u].at = "aws" /\ job'[u].rec = job[u].rec)
      BY <1>2, <1>3
    <2> QED BY <1>6, <1>15, <2>1, <2>2 DEF RecordsFit, NodeOwn
  <1> QED BY <1>7, <1>12, <1>13, <1>14, <1>16 DEF NodeOwn

LEMMA CallEc2Own ==
  ASSUME TargetInv, NEW t \in Threads, CallEc2(t), NEW n \in Nodes, Quiet(n), Quiet(n)'
  PROVE  NodeOwn(n)'
  <1>1. /\ NodeOwn(n) /\ UNCHANGED <<file, stage, merged>> /\ stage[t] = "idle"
        /\ job[t].at = "aws" /\ job[t].op \in {"terminate", "snooze", "wake"}
    BY NodeTyped DEF TargetInv, Located, CallEc2, recVars
  <1>2. inst \in [Instances -> InstanceRecords] /\ job[t] \in Jobs
    BY NodeTyped DEF TargetInv, NodeInv, TypeOK
  <1>3. ASSUME job' = [job EXCEPT ![t] = NoJob], UNCHANGED inst PROVE NodeOwn(n)'
    <2>1. NoJob.op = "none"
      BY DEF NoJob
    <2>2. CASE Serves(t, n)
      BY <1>1, <1>3, <2>1, <2>2, RequestOwn
    <2>3. CASE ~Serves(t, n)
      BY <1>1, <1>3, <2>1, <2>3, OthersRequestOwn
    <2> QED BY <2>2, <2>3
  <1>4. ASSUME NEW i \in Resolved(job[t].rec, job[t].node),
               disturbed' = disturbed \cup Astray(job[t].node, i),
               NEW r \in InstanceRecords, inst' = [inst EXCEPT ![i] = r], r.node = inst[i].node,
               NEW j, job' = [job EXCEPT ![t] = j], j.op = job[t].op, j.node = job[t].node,
               j.iid = i, j.at # "aws", j.op = "wake" => j.at = "wait",
               r.state # "none",
               \/ r.state = "terminated" /\ j.op = "terminate"
               \/ /\ Live(i) /\ r.state # "terminated" /\ r.priv = inst[i].priv
                  /\ r.pub = inst[i].pub \/ j.op = "snooze"
        PROVE  NodeOwn(n)'
    <2>1. i \in Instances
      BY ResolvedInstance DEF TargetInv, NodeInv
    <2>2. inst'[i] = r /\ \A k \in Instances \ {i} : inst'[k] = inst[k]
      BY <1>2, <1>4, <2>1
    <2>3. job'[t] = j /\ \A u \in Threads \ {t} : job'[u] = job[u]
      BY <1>4 DEF TargetInv, NodeInv, TypeOK
    <2>4. CASE job[t].node # n /\ inst[i].node # n
      <3>1. Untouched(n)
        BY <1>1, <1>4, <2>2, <2>3, <2>4 DEF Untouched, Own, Serves
      <3> QED BY <1>1, <3>1, UntouchedKeeps
    <2>5. CASE job[t].node = n \/ inst[i].node = n
      <3>1. job[t].node = n /\ inst[i].node = n
        BY <1>4, <2>5 DEF Quiet, Astray
      <3>2. Serves(t, n)
        BY <1>1, <3>1 DEF Serves
      <3>3. Own(i, n)
        BY <1>1, <3>1, <3>2, ResolvedOwn
      <3>4. LaunchedFor(n) # {} => Live(i)
        BY <3>1, ResolvedLive
      <3>5. r.state \in {"pending", "running", "stopped", "terminated"}
        BY <1>4 DEF InstanceRecords
      <3> QED BY <1>1, <1>4, <2>1, <3>1, <3>2, <3>3, <3>4, <3>5, CallOwn
    <2> QED BY <2>4, <2>5
  <1>5. ASSUME NEW i \in Resolved(job[t].rec, job[t].node),
               disturbed' = disturbed \cup Astray(job[t].node, i),
               job[t].op = "terminate", inst' = Terminated(i),
               job' = [job EXCEPT ![t].at = "upsert", ![t].iid = i]
        PROVE  NodeOwn(n)'
    <2> DEFINE r == [inst[i] EXCEPT !.state = "terminated", !.priv = NoAddr, !.pub = NoAddr]
               j == [job[t] EXCEPT !.at = "upsert", !.iid = i]
    <2>1. i \in Instances
      BY ResolvedInstance DEF TargetInv, NodeInv
    <2>2. /\ r \in InstanceRecords /\ r.node = inst[i].node /\ r.state = "terminated"
          /\ inst' = [inst EXCEPT ![i] = r]
      BY <1>2, <1>5, <2>1 DEF InstanceRecords, Terminated
    <2>3. /\ j.op = "terminate" /\ j.node = job[t].node /\ j.iid = i /\ j.at = "upsert"
          /\ job' = [job EXCEPT ![t] = j]
      BY <1>2, <1>5 DEF Jobs
    <2> HIDE DEF r, j
    <2> QED BY <1>4, <1>5, <2>2, <2>3
  <1>6. ASSUME NEW i \in Resolved(job[t].rec, job[t].node),
               disturbed' = disturbed \cup Astray(job[t].node, i),
               job[t].op = "snooze", Live(i), inst' = Stopped(i),
               job' = [job EXCEPT ![t].at = IF job[t].rec.named THEN "dns" ELSE "upsert",
                                  ![t].iid = i, ![t].pub = Placeholder]
        PROVE  NodeOwn(n)'
    <2> DEFINE r == [inst[i] EXCEPT !.state = "stopped", !.pub = NoAddr]
               j == [job[t] EXCEPT !.at = IF job[t].rec.named THEN "dns" ELSE "upsert",
                                   !.iid = i, !.pub = Placeholder]
    <2>1. i \in Instances
      BY ResolvedInstance DEF TargetInv, NodeInv
    <2>2. /\ r \in InstanceRecords /\ r.node = inst[i].node /\ r.state = "stopped"
          /\ r.priv = inst[i].priv /\ inst' = [inst EXCEPT ![i] = r]
      BY <1>2, <1>6, <2>1 DEF InstanceRecords, Stopped
    <2>3. /\ j.op = "snooze" /\ j.node = job[t].node /\ j.iid = i /\ j.at \in {"dns", "upsert"}
          /\ job' = [job EXCEPT ![t] = j]
      BY <1>2, <1>6 DEF Jobs
    <2> HIDE DEF r, j
    <2> QED BY <1>4, <1>6, <2>2, <2>3
  <1>7. ASSUME NEW i \in Resolved(job[t].rec, job[t].node),
               disturbed' = disturbed \cup Astray(job[t].node, i),
               job[t].op = "wake", Live(i), inst' = Started(i),
               job' = [job EXCEPT ![t].at = "wait", ![t].iid = i]
        PROVE  NodeOwn(n)'
    <2> DEFINE s == IF inst[i].state = "stopped" THEN "pending" ELSE inst[i].state
               r == [inst[i] EXCEPT !.state = s]
               j == [job[t] EXCEPT !.at = "wait", !.iid = i]
    <2>1. i \in Instances /\ s \in {"pending", "running"}
      BY <1>7, ResolvedInstance DEF TargetInv, NodeInv, Live
    <2>2. /\ r \in InstanceRecords /\ r.node = inst[i].node /\ r.state \in {"pending", "running"}
          /\ r.priv = inst[i].priv /\ r.pub = inst[i].pub /\ inst' = [inst EXCEPT ![i] = r]
      BY <1>2, <1>7, <2>1 DEF InstanceRecords, Started
    <2>3. /\ j.op = "wake" /\ j.node = job[t].node /\ j.iid = i /\ j.at = "wait"
          /\ job' = [job EXCEPT ![t] = j]
      BY <1>2, <1>7 DEF Jobs
    <2> HIDE DEF r, j
    <2> QED BY <1>4, <1>7, <2>2, <2>3
  <1> QED BY <1>3, <1>5, <1>6, <1>7 DEF CallEc2

\* An update that reads the record of a quiet node met no other.
LEMMA ReadOwn ==
  ASSUME TargetInv, ~SendsPublicIp, NEW t \in Threads, job[t].at = "upsert",
         UpsertRead(t, job[t].node, Patched(job[t], Current(job[t].node))),
         UNCHANGED <<inst, job>>,
         NEW n \in Nodes, Quiet(n), Quiet(n)'
  PROVE  NodeOwn(n)'
  <1> DEFINE new == Patched(job[t], Current(job[t].node))
  <1>1. /\ NodeOwn(n) /\ stage[t] = "idle" /\ Readable(job[t].node) /\ file' = file
        /\ stage'[t] = "read" /\ merged'[t] = new
        /\ \A u \in Threads \ {t} : stage'[u] = stage[u] /\ merged'[u] = merged[u]
    BY DEF TargetInv, UpsertRead, NodeInv, TypeOK, RecTypeOK
  <1>2. job[t] \in Jobs /\ job[t].op # "none"
    BY NodeTyped
  <1> HIDE DEF new
  <1>3. CASE job[t].node # n
    <2>1. Untouched(n)
      BY <1>1, <1>3 DEF Untouched, Serves
    <2> QED BY <1>1, <2>1, UntouchedKeeps
  <1>4. CASE job[t].node = n
    <2>1. Serves(t, n) /\ Informed(t, n)
      BY <1>1, <1>2, <1>4 DEF Serves, NodeOwn
    <2>2. Current(n) \in Records /\ NamesOwn(Current(n), n)
      BY <1>1, <1>4, CurrentRecord DEF NodeOwn, Current, NamesOwn, Fresh, Readable
    <2>3. job[t].op \in {"launch", "wake", "snooze", "terminate", "beat"}
      BY <1>2 DEF Jobs
    <2>4. NamesOwn(new, n)
      <3>1. job[t].op # "beat" => new.iid = job[t].iid
        BY <2>2, <2>3 DEF new, Patched, Records
      <3>2. job[t].op = "beat" => new.iid = Current(n).iid
        BY <2>2, <1>4, PatchedBeat DEF new
      <3> QED BY <2>1, <2>2, <3>1, <3>2 DEF NamesOwn, Informed
    <2>5. Drafted(t, n)'
      <3>1. job[t].op = "launch" =>
              new.priv = job[t].priv /\ new.pub = job[t].pub /\ new.iid = job[t].iid
        BY DEF new, Patched
      <3>2. job[t].op = "snooze" => new.pub = NoAddr
        BY <1>4, <2>2 DEF new, Patched, Records
      <3> QED BY <1>1, <2>4, <3>1, <3>2 DEF Drafted, NamesOwn, Own
    <2>6. ASSUME ~Launching(n), NEW k \in LaunchedFor(n) PROVE Fits(new, k, n)
      <3>1. Fits(Current(n), k, n)
        BY <1>1, <1>4, <2>6 DEF NodeOwn, RecordsFit, Current, Fresh, Fits, Readable
      <3>2. job[t].op # "launch"
        BY <2>1, <2>6 DEF Launching, Operates, Serves
      <3>3. CASE job[t].op = "wake"
        <4>1. Own(job[t].iid, n) /\ Live(job[t].iid) /\ job[t].iid \in Instances
          BY <2>1, <3>3 DEF Informed, TargetInv, Located, Operates
        <4>2. job[t].iid = k
          BY <1>1, <4>1 DEF NodeOwn, Alone, LaunchedFor, Own
        <4>3. new.priv = inst[k].priv /\ new.pub = inst[k].pub
          BY <1>4, <2>1, <2>2, <3>3, <4>2 DEF Informed, new, Patched, Records
        <4> QED BY <4>3 DEF Fits
      <3>4. CASE job[t].op = "snooze"
        BY <1>4, <2>2, <3>1, <3>4 DEF new, Patched, Records, Fits
      <3>5. CASE job[t].op = "terminate"
        BY <1>4, <2>2, <3>1, <3>5 DEF new, Patched, Records, Fits
      <3>6. CASE job[t].op = "beat"
        <4>1. job[t].pub = NoAddr /\ job[t].priv = inst[k].priv
          BY <2>1, <3>6 DEF TargetInv, Located, Informed
        <4>2. new.priv = inst[k].priv /\ new.pub = Current(n).pub
          BY <1>4, <2>2, <3>6, <4>1 DEF new, Patched, Records
        <4> QED BY <3>1, <4>2 DEF Fits
      <3> QED BY <2>3, <3>2, <3>3, <3>4, <3>5, <3>6
    <2>7. \A u \in Threads : Serves(u, n)' <=> Serves(u, n)
      BY DEF Serves
    <2>8. Alone(n)'
      BY <1>1 DEF NodeOwn, Alone, LaunchedFor, Live, Operates
    <2>9. \A u \in Threads : Serves(u, n)' => Informed(u, n)'
      BY <1>1, <2>7 DEF NodeOwn, Informed, NamesOwn, Own, Live, LaunchedFor
    <2>10. ASSUME NEW u \in Threads \ {t}, Serves(u, n)', stage'[u] # "idle"
           PROVE  Drafted(u, n)'
      BY <1>1, <2>7, <2>10 DEF NodeOwn, Drafted, NamesOwn, Own
    <2>11. file'[n] \in Records => NamesOwn(file[n], n)'
      BY <1>1 DEF NodeOwn, NamesOwn, Own
    <2>12. RecordsFit(n)'
      <3>1. (Launching(n)' <=> Launching(n)) /\ LaunchedFor(n)' = LaunchedFor(n)
        BY DEF Launching, Operates, LaunchedFor, Live
      <3>2. \A k \in LaunchedFor(n) : \A rec : Fits(rec, k, n) => Fits(rec, k, n)'
        BY DEF Fits, Snoozing, Operates
      <3> QED BY <1>1, <2>6, <2>7, <3>1, <3>2 DEF RecordsFit, NodeOwn
    <2> QED BY <2>5, <2>8, <2>9, <2>10, <2>11, <2>12 DEF NodeOwn
  <1> QED BY <1>3, <1>4

LEMMA OpenOwn ==
  ASSUME TargetInv, NEW t \in Threads, UpsertOpen(t), UNCHANGED <<inst, job>>,
         NEW n \in Nodes, Quiet(n), Quiet(n)'
  PROVE  NodeOwn(n)'
  <1>1. /\ NodeOwn(n) /\ stage[t] = "read" /\ merged' = merged
        /\ stage'[t] = "opened" /\ \A u \in Threads \ {t} : stage'[u] = stage[u]
        /\ file'[target[t]] = Blank /\ \A m \in Nodes \ {target[t]} : file'[m] = file[m]
    BY DEF TargetInv, UpsertOpen, NodeInv, TypeOK, RecTypeOK
  <1>2. job[t].node = target[t]
    BY <1>1, NodeTyped
  <1>3. CASE target[t] # n
    <2>1. Untouched(n)
      BY <1>1, <1>2, <1>3 DEF Untouched, Serves
    <2> QED BY <1>1, <2>1, UntouchedKeeps
  <1>4. CASE target[t] = n
    <2>1. file'[n] \notin Records
      BY <1>1, <1>4, RecordValues
    <2>2. \A u \in Threads : stage'[u] # "idle" => stage[u] # "idle"
      BY <1>1
    <2>3. Alone(n)'
      BY <1>1 DEF NodeOwn, Alone, LaunchedFor, Live, Operates
    <2>4. \A u \in Threads : Serves(u, n)' => Informed(u, n)'
      BY <1>1 DEF NodeOwn, Informed, NamesOwn, Own, Live, LaunchedFor, Serves
    <2>5. \A u \in Threads : Serves(u, n)' /\ stage'[u] # "idle" => Drafted(u, n)'
      BY <1>1, <2>2 DEF NodeOwn, Drafted, NamesOwn, Own, Serves
    <2>6. RecordsFit(n)'
      <3>1. (Launching(n)' <=> Launching(n)) /\ LaunchedFor(n)' = LaunchedFor(n)
        BY DEF Launching, Operates, LaunchedFor, Live
      <3>2. \A k \in LaunchedFor(n) : \A rec : Fits(rec, k, n) => Fits(rec, k, n)'
        BY DEF Fits, Snoozing, Operates
      <3> QED BY <1>1, <2>1, <2>2, <3>1, <3>2 DEF RecordsFit, NodeOwn, Serves
    <2> QED BY <2>1, <2>3, <2>4, <2>5, <2>6 DEF NodeOwn
  <1> QED BY <1>3, <1>4

\* The update of a quiet node's record is written as it was drafted, and nobody
\* else has one under way.
LEMMA WriteOwn ==
  ASSUME TargetInv, NEW t \in Threads, UpsertWrite(t), UNCHANGED inst,
         job' = [job EXCEPT ![t] = IF job[t].op = "beat" THEN [job[t] EXCEPT !.at = "reconcile"]
                                                         ELSE NoJob],
         NEW n \in Nodes, Quiet(n), Quiet(n)'
  PROVE  NodeOwn(n)'
  <1> DEFINE j == IF job[t].op = "beat" THEN [job[t] EXCEPT !.at = "reconcile"] ELSE NoJob
  <1>1. /\ NodeOwn(n) /\ stage[t] \in {"opened", "unlinked"} /\ stage'[t] = "idle"
        /\ \A u \in Threads \ {t} : stage'[u] = stage[u] /\ merged'[u] = merged[u]
        /\ \A m \in Nodes \ {target[t]} : file'[m] = file[m]
    BY DEF TargetInv, UpsertWrite, NodeInv, TypeOK, RecTypeOK
  <1>2. job[t] \in Jobs /\ job[t].at = "upsert" /\ job[t].op # "none" /\ job[t].node = target[t]
    BY <1>1, NodeTyped
  <1>3. /\ j.op = "beat" => /\ job[t].op = "beat" /\ j.node = job[t].node
                            /\ j.priv = job[t].priv /\ j.at = "reconcile"
        /\ j.op \in {"none", "beat"} /\ (job[t].op # "beat" => j.op = "none")
    BY <1>2 DEF NoJob, Jobs
  <1> HIDE DEF j
  <1>4. job'[t] = j /\ \A u \in Threads \ {t} : job'[u] = job[u]
    BY DEF TargetInv, NodeInv, TypeOK, j
  <1>5. CASE target[t] # n
    <2>1. Untouched(n)
      BY <1>1, <1>2, <1>3, <1>4, <1>5 DEF Untouched, Serves
    <2> QED BY <1>1, <2>1, UntouchedKeeps
  <1>6. CASE target[t] = n
    <2>1. n \notin overlap
      BY DEF Quiet
    <2>2. stage[t] = "opened" /\ file[n] = Blank
      BY <1>1, <1>6, <2>1 DEF TargetInv, NodeInv, Undisturbed
    <2>3. file'[n] = merged[t]
      BY <1>6, <2>2 DEF UpsertWrite, Overwrite, TargetInv, NodeInv, TypeOK, RecTypeOK
    <2>4. Serves(t, n) /\ Informed(t, n) /\ Drafted(t, n)
      BY <1>1, <1>2, <1>6, <2>2 DEF NodeOwn, Serves
    <2>5. \A u \in Threads \ {t} : Serves(u, n) => stage[u] = "idle"
      BY <1>1, <1>6, <2>1, NodeTyped DEF TargetInv, NodeInv, OneUpdate, Serves
    <2>6. LaunchedFor(n)' = LaunchedFor(n)
      BY DEF LaunchedFor, Live
    <2>7. \A u \in Threads : Operates(u, n)' => Operates(u, n) /\ u # t
      BY <1>3, <1>4 DEF Operates
    <2>8. \A u \in Threads : Serves(u, n)' => Serves(u, n)
      BY <1>3, <1>4, <2>4 DEF Serves
    <2>9. Alone(n)'
      BY <1>1, <2>6, <2>7 DEF NodeOwn, Alone
    <2>10. ASSUME NEW u \in Threads, Serves(u, n)' PROVE Informed(u, n)'
      <3>1. CASE u = t
        <4>1. j.op = "beat"
          BY <1>3, <1>4, <2>10, <3>1 DEF Serves
        <4> QED BY <1>3, <1>4, <2>4, <2>6, <3>1, <4>1 DEF Informed
      <3>2. CASE u # t
        <4>1. job'[u] = job[u] /\ Informed(u, n)
          BY <1>1, <1>4, <2>8, <2>10, <3>2 DEF NodeOwn
        <4> QED BY <2>6, <4>1 DEF Informed, NamesOwn, Own, Live
      <3> QED BY <3>1, <3>2
    <2>11. \A u \in Threads : Serves(u, n)' => stage'[u] = "idle"
      BY <1>1, <2>5, <2>8
    <2>12. file'[n] \in Records => NamesOwn(file[n], n)'
      BY <2>3, <2>4 DEF Drafted, NamesOwn, Own
    <2>13. RecordsFit(n)'
      <3>1. CASE job[t].op \in {"launch", "snooze"}
        <4>1. Operates(t, n)
          BY <2>4, <3>1 DEF Operates, Serves
        <4>2. \A u \in Threads : ~Operates(u, n)'
          BY <1>1, <2>7, <4>1 DEF NodeOwn, Alone
        <4>3. \A u \in Threads : Serves(u, n)' => job'[u].at # "aws"
          <5>1. \A u \in Threads : Serves(u, n)' => u # t /\ job'[u] = job[u] /\ job[u].op = "beat"
            BY <1>3, <1>4, <3>1, <4>2 DEF Serves, Operates
          <5> QED BY <5>1 DEF TargetInv, Located
        <4>4. \A k \in LaunchedFor(n) :
                merged[t].priv \in {NoAddr, inst[k].priv} /\ merged[t].pub \in {NoAddr, inst[k].pub}
          <5>1. CASE job[t].op = "launch"
            <6>1. Own(job[t].iid, n) /\ Live(job[t].iid) /\ job[t].iid \in Instances
              BY <1>2, <2>4, <4>1, <5>1 DEF Informed, TargetInv, Located, Operates
            <6>2. \A k \in LaunchedFor(n) : k = job[t].iid
              BY <1>1, <6>1 DEF NodeOwn, Alone, LaunchedFor, Own
            <6> QED BY <1>2, <2>4, <5>1, <6>2 DEF Drafted, Informed
          <5>2. CASE job[t].op = "snooze"
            <6>1. ~Launching(n)
              BY <1>1, <4>1, <5>2 DEF NodeOwn, Alone, Launching
            <6>2. \A k \in LaunchedFor(n) : Fits(merged[t], k, n)
              BY <1>1, <2>2, <2>4, <6>1 DEF NodeOwn, RecordsFit
            <6> QED BY <2>4, <5>2, <6>2 DEF Fits, Drafted
          <5> QED BY <3>1, <5>1, <5>2
        <4>5. \A k \in LaunchedFor(n) : Fits(file[n], k, n)'
          BY <2>3, <4>4 DEF Fits
        <4> QED BY <2>6, <2>11, <4>3, <4>5 DEF RecordsFit
      <3>2. CASE job[t].op \notin {"launch", "snooze"}
        <4>1. (Launching(n) => Launching(n)') /\ (Snoozing(n) => Snoozing(n)')
          BY <1>4, <3>2 DEF Launching, Snoozing, Operates
        <4>2. \A k \in LaunchedFor(n) : \A rec : Fits(rec, k, n) => Fits(rec, k, n)'
          BY <4>1 DEF Fits
        <4>3. \A u \in Threads : Serves(u, n)' /\ job'[u].at = "aws" =>
                Serves(u, n) /\ job[u].at = "aws" /\ job'[u].rec = job[u].rec
          BY <1>3, <1>4, <2>8 DEF Serves
        <4> QED BY <1>1, <2>2, <2>3, <2>4, <2>6, <2>11, <4>1, <4>2, <4>3 DEF RecordsFit, NodeOwn
      <3> QED BY <3>1, <3>2
    <2> QED BY <2>9, <2>10, <2>11, <2>12, <2>13 DEF NodeOwn
  <1> QED BY <1>5, <1>6

LEMMA DeleteOwn ==
  ASSUME TargetInv, NEW m \in Nodes, NodesDelete(m), NEW n \in Nodes, Quiet(n), Quiet(n)'
  PROVE  NodeOwn(n)'
  <1>1. /\ NodeOwn(n) /\ UNCHANGED <<inst, job, merged>>
        /\ file'[m] = NoFile /\ \A k \in Nodes \ {m} : file'[k] = file[k]
        /\ \A t \in Threads : stage'[t] = stage[t] \/ (stage[t] # "idle" /\ target[t] = m)
    BY DEF TargetInv, NodesDelete, DeleteNode, NodeInv, TypeOK, RecTypeOK
  <1>2. CASE m # n
    <2>1. \A t \in Threads : stage'[t] = stage[t] \/ ~Serves(t, n)
      BY <1>1, <1>2, NodeTyped DEF Serves
    <2>2. Untouched(n)
      BY <1>1, <1>2, <2>1 DEF Untouched, Serves
    <2> QED BY <1>1, <2>2, UntouchedKeeps
  <1>3. CASE m = n
    <2>1. \A t \in Threads : ~Operates(t, n)
      BY <1>3 DEF NodesDelete, Quiet, Operating, Operates
    <2>2. \A t \in Threads : ~Updating(t, n)
      BY <1>3 DEF NodesDelete, DeleteNode, Quiet
    <2>3. \A t \in Threads : Serves(t, n) => stage[t] = "idle" /\ stage'[t] = "idle"
      BY <1>1, <1>3, <2>2, NodeTyped DEF Serves, Updating
    <2>4. \A t \in Threads : Serves(t, n) => job[t].op = "beat" /\ job[t].at # "aws"
      BY <2>1 DEF Serves, Operates, TargetInv, Located
    <2>5. LaunchedFor(n)' = LaunchedFor(n)
      BY <1>1 DEF LaunchedFor, Live
    <2>6. Alone(n)'
      BY <1>1, <2>5 DEF NodeOwn, Alone, Operates
    <2>7. \A t \in Threads : Serves(t, n)' => Informed(t, n)'
      BY <1>1, <2>4, <2>5 DEF NodeOwn, Informed, Serves
    <2>8. file'[n] \notin Records
      BY <1>1, <1>3, RecordValues
    <2>9. RecordsFit(n)'
      BY <1>1, <2>3, <2>4, <2>8 DEF RecordsFit, Serves
    <2> QED BY <1>1, <2>3, <2>6, <2>7, <2>8, <2>9 DEF NodeOwn, Serves
  <1> QED BY <1>2, <1>3

LEMMA RestartOwn ==
  ASSUME TargetInv, Restart, NEW n \in Nodes, Quiet(n), Quiet(n)'
  PROVE  NodeOwn(n)'
  <1>1. /\ NodeOwn(n) /\ UNCHANGED <<inst, file>>
        /\ \A t \in Threads : job'[t].op = "none"
    BY DEF TargetInv, Restart, RestartRecords, NoJob
  <1>2. \A t \in Threads : ~Operates(t, n)
    BY DEF Restart, Quiet, Operating, Operates
  <1>3. \A t \in Threads : ~Serves(t, n)' /\ ~Operates(t, n)'
    BY <1>1 DEF Serves, Operates
  <1>4. LaunchedFor(n)' = LaunchedFor(n)
    BY <1>1 DEF LaunchedFor, Live
  <1>5. Alone(n)'
    BY <1>1, <1>3, <1>4 DEF NodeOwn, Alone
  <1>6. file'[n] \in Records => NamesOwn(file[n], n)'
    BY <1>1 DEF NodeOwn, NamesOwn, Own
  <1>7. RecordsFit(n)'
    <2>1. ~Launching(n) /\ ~Snoozing(n)
      BY <1>2 DEF Launching, Snoozing
    <2>2. \A k \in LaunchedFor(n) : \A rec : Fits(rec, k, n) => Fits(rec, k, n)'
      BY <1>1, <2>1 DEF Fits
    <2> QED BY <1>1, <1>3, <1>4, <2>1, <2>2 DEF RecordsFit, NodeOwn
  <1> QED BY <1>3, <1>5, <1>6, <1>7 DEF NodeOwn

LEMMA UpsertOwn ==
  ASSUME TargetInv, ~SendsPublicIp, NEW t \in Threads, UpsertNode(t),
         NEW n \in Nodes, Quiet(n), Quiet(n)'
  PROVE  NodeOwn(n)'
  <1>1. job[t].at = "upsert" /\ UNCHANGED inst
    BY DEF UpsertNode
  <1>2. CASE /\ UpsertRead(t, job[t].node, Patched(job[t], Current(job[t].node)))
             /\ UNCHANGED job
    BY <1>1, <1>2, ReadOwn
  <1>3. CASE Fail(t) /\ UNCHANGED recVars
    BY <1>1, <1>3, FailOwn DEF recVars
  <1>4. CASE UpsertOpen(t) /\ UNCHANGED job
    BY <1>1, <1>4, OpenOwn
  <1>5. CASE /\ UpsertWrite(t)
             /\ job' = [job EXCEPT ![t] = IF @.op = "beat" THEN [@ EXCEPT !.at = "reconcile"]
                                                           ELSE NoJob]
    BY <1>1, <1>5, WriteOwn
  <1> QED BY <1>2, <1>3, <1>4, <1>5 DEF UpsertNode

LEMMA TargetStep == ~SendsPublicIp => (TargetInv /\ [Next]_vars => TargetInv')
  <1> SUFFICES ASSUME ~SendsPublicIp, TargetInv, [Next]_vars PROVE TargetInv'
    OBVIOUS
  <1>1. NodeInv' /\ Located' /\ Addresses'
    BY StepHolds, LocatedKeeps, AddressesKeep DEF TargetInv
  <1>2. ASSUME NEW n \in Nodes, Quiet(n)' PROVE NodeOwn(n)'
    <2>1. Quiet(n) /\ NodeOwn(n)
      BY <1>2, QuietBefore DEF TargetInv
    <2>2. ASSUME NEW t \in Threads, NEW m \in Nodes, Operator(t, m) PROVE NodeOwn(n)'
      BY <1>2, <2>1, <2>2, LaunchOwn, OnRecordOwn DEF Operator
    <2>3. ASSUME NEW t \in Threads, NEW i \in Instances, Heartbeat(t, i) PROVE NodeOwn(n)'
      BY <1>2, <2>1, <2>3, HeartbeatOwn
    <2>4. ASSUME NEW t \in Threads, CallEc2(t) \/ WaitForNetwork(t) PROVE NodeOwn(n)'
      BY <1>2, <2>1, <2>4, CallEc2Own, WaitOwn
    <2>5. ASSUME NEW t \in Threads, UpsertDns(t) \/ UpsertNode(t) PROVE NodeOwn(n)'
      BY <1>2, <2>1, <2>5, DnsOwn, UpsertOwn
    <2>6. ASSUME NEW t \in Threads, SkipDns(t) \/ ReconcileDns(t) PROVE NodeOwn(n)'
      BY <1>2, <2>1, <2>6, BeatEndsOwn
    <2>7. ASSUME NEW i \in Instances, Boot(i) PROVE NodeOwn(n)'
      BY <1>2, <2>1, <2>7, BootOwn
    <2>8. ASSUME NEW m \in Nodes, NodesDelete(m) PROVE NodeOwn(n)'
      BY <1>2, <2>1, <2>8, DeleteOwn
    <2>9. ASSUME Restart PROVE NodeOwn(n)'
      BY <1>2, <2>1, <2>9, RestartOwn
    <2>10. ASSUME UNCHANGED vars PROVE NodeOwn(n)'
      <3>1. Untouched(n)
        BY <2>10 DEF vars, Untouched
      <3> QED BY <2>1, <3>1, UntouchedKeeps
    <2> QED BY <2>2, <2>3, <2>4, <2>5, <2>6, <2>7, <2>8, <2>9, <2>10 DEF Next, Serve
  <1> QED BY <1>1, <1>2 DEF TargetInv

\* A quiet node that has an instance is served on it.
LEMMA TargetIsOwn ==
  ASSUME TargetInv, NEW t \in Threads, job[t].at = "aws",
         NEW i \in Resolved(job[t].rec, job[t].node), Quiet(job[t].node),
         LaunchedFor(job[t].node) # {}
  PROVE  inst[i].node = job[t].node
  <1> DEFINE n == job[t].node
             rec == job[t].rec
  <1>1. n \in Nodes /\ NodeOwn(n) /\ Serves(t, n) /\ Operates(t, n)
    BY NodeTyped DEF TargetInv, Located, Jobs, Serves, Operates
  <1>2. PICK k \in LaunchedFor(n) : TRUE
    OBVIOUS
  <1>3. ~Launching(n) /\ ~Snoozing(n)
    BY <1>1 DEF NodeOwn, Alone, Launching, Snoozing, TargetInv, Located
  <1>4. rec.priv \in {NoAddr, inst[k].priv} /\ rec.pub \in {NoAddr, inst[k].pub}
    BY <1>1, <1>2, <1>3 DEF NodeOwn, RecordsFit, Fits
  <1>5. k \in Instances /\ k \in Matches(rec, n)
    BY <1>2 DEF Matches, LaunchedFor
  <1>6. i \in Matches(rec, n)
    BY <1>5 DEF Resolved
  <1>7. i = rec.iid => inst[i].node = n
    BY <1>1, <1>6, RecordValues DEF NodeOwn, Informed, NamesOwn, Own, Matches
  <1>8. i = k \/ i = rec.iid \/ inst[i].node = n
    BY <1>4, <1>5, <1>6 DEF Matches, TargetInv, Addresses
  <1> QED BY <1>2, <1>7, <1>8 DEF LaunchedFor

(* With the heartbeat the bundle ships, which names no public address, a   *)
(* terminate, snooze or wake of a node that has an instance acts on that   *)
(* node's own, whatever the number of nodes, instances and addresses       *)
(* handed on between them: as long as no request of the node failed, was   *)
(* cut short or met another, no two updates of its record met, and no      *)
(* request went astray from the node or to it (api_v2.py:538-564).         *)
THEOREM TargetsOwn == ~SendsPublicIp => (Spec => OwnTarget)
  <1> SUFFICES ASSUME ~SendsPublicIp PROVE Spec => OwnTarget
    OBVIOUS
  <1>1. TargetInv /\ [Next]_vars => TargetInv'
    BY TargetStep
  <1>2. Spec => []TargetInv
    BY <1>1, TargetInit, PTL DEF Spec
  <1> DEFINE Aims(t, i) ==
        job[t].at = "aws" /\ job'[t].iid = i /\ inst[i].node # job[t].node
          => \/ job[t].node \in disturbed \cup overlap \cup cut
             \/ LaunchedFor(job[t].node) = {}
  <1>3. TargetInv /\ [Next]_vars => [\A t \in Threads, i \in Instances : Aims(t, i)]_vars
    <2> SUFFICES ASSUME TargetInv, Next, NEW t \in Threads, NEW i \in Instances,
                        job[t].at = "aws", job'[t].iid = i, inst[i].node # job[t].node,
                        Quiet(job[t].node), LaunchedFor(job[t].node) # {}
                 PROVE  FALSE
      BY DEF Quiet
    <2>1. job[t].iid # i
      BY RecordValues DEF TargetInv, Located
    <2>2. job'[t] # job[t] /\ job'[t] # NoJob /\ job[t].op # "none"
      <3>1. job'[t] # job[t]
        BY <2>1
      <3>2. job'[t] # NoJob
        BY RecordValues DEF NoJob
      <3>3. job[t].op # "none"
        BY DEF TargetInv, Located
      <3> QED BY <3>1, <3>2, <3>3
    <2>3. ASSUME NEW u \in Threads, NEW m \in Nodes PROVE ~Operator(u, m)
      BY <2>2 DEF TargetInv, NodeInv, TypeOK, Operator, NodesLaunch, OnRecord, Start
    <2>4. ASSUME NEW u \in Threads, NEW k \in Instances PROVE ~Heartbeat(u, k)
      BY <2>2 DEF TargetInv, NodeInv, TypeOK, Heartbeat
    <2>5. ASSUME NEW u \in Threads, UpsertNode(u) PROVE FALSE
      BY <2>2, <2>5 DEF TargetInv, NodeInv, TypeOK, UpsertNode, Fail
    <2>6. ASSUME NEW u \in Threads, WaitForNetwork(u) \/ UpsertDns(u) PROVE FALSE
      BY <2>2, <2>6 DEF TargetInv, NodeInv, TypeOK, WaitForNetwork, UpsertDns, Fail
    <2>7. ASSUME NEW u \in Threads, ReconcileDns(u) \/ SkipDns(u) PROVE FALSE
      BY <2>2, <2>7 DEF TargetInv, NodeInv, TypeOK, ReconcileDns, SkipDns
    <2>8. ~Restart
      BY <2>2 DEF Restart
    <2>9. PICK u \in Threads : CallEc2(u)
      BY <2>2, <2>3, <2>4, <2>5, <2>6, <2>7, <2>8 DEF Next, Serve, Boot, NodesDelete
    <2>10. u = t
      <3>1. DOMAIN job = Threads
        BY DEF TargetInv, NodeInv, TypeOK
      <3>2. \A v \in Threads \ {u} : job'[v] = job[v]
        BY <2>9, <3>1 DEF CallEc2
      <3> QED BY <2>2, <3>2
    <2>11. i \in Resolved(job[t].rec, job[t].node)
      <3>1. job \in [Threads -> Jobs] /\ CallEc2(t)
        BY <2>9, <2>10 DEF TargetInv, NodeInv, TypeOK
      <3>2. ASSUME NEW k, job' = [job EXCEPT ![t].at = "upsert", ![t].iid = k]
            PROVE  job'[t].iid = k
        BY <3>1, <3>2 DEF Jobs
      <3>3. ASSUME NEW k,
                   job' = [job EXCEPT ![t].at = IF job[t].rec.named THEN "dns" ELSE "upsert",
                                      ![t].iid = k, ![t].pub = Placeholder]
            PROVE  job'[t].iid = k
        BY <3>1, <3>3 DEF Jobs
      <3>4. ASSUME NEW k, job' = [job EXCEPT ![t].at = "wait", ![t].iid = k]
            PROVE  job'[t].iid = k
        BY <3>1, <3>4 DEF Jobs
      <3>5. job' # [job EXCEPT ![t] = NoJob]
        BY <2>2, <3>1
      <3>6. PICK k \in Resolved(job[t].rec, job[t].node) : job'[t].iid = k
        BY <3>1, <3>2, <3>3, <3>4, <3>5 DEF CallEc2
      <3> QED BY <3>6
    <2> QED BY <2>11, TargetIsOwn
  <1> QED BY <1>2, <1>3, PTL DEF Spec, OwnTarget
=============================================================================
