---------------------------- MODULE NodeLifecycle ----------------------------
(***************************************************************************)
(* The life of TAK nodes: the orchestrator's operator requests (launch,    *)
(* terminate, snooze, wake, delete) and the nodes' heartbeats, each on a   *)
(* request thread of its own, against EC2, Route 53 and the record files   *)
(* of NodeRecords.                                                         *)
(*                                                                         *)
(* Sources: orchestrator_api/api_v2.py, orchestrator_core/core.py,         *)
(* orchestrator_core/nodes_state.py and, for what a heartbeat carries,     *)
(* default_bundle/install/taks-heartbeat.sh.                               *)
(***************************************************************************)
EXTENDS NodeRecords

CONSTANTS
  Placeholder,    \* 192.0.2.1, what the DNS name of a snoozed node points to
  SendsPublicIp,  \* whether a heartbeat names the node's public address
  MaxOps,         \* bound: operator requests
  MaxRestarts     \* bound: restarts of the orchestrator

ASSUME LifecycleConstants ==
  /\ Placeholder \notin Publics /\ Placeholder # NoAddr
  /\ SendsPublicIp \in BOOLEAN /\ MaxOps \in Nat /\ MaxRestarts \in Nat

VARIABLES
  inst,       \* EC2: state, node tag and addresses of each instance
  dns,        \* Route 53: the address each fqdn points to
  job,        \* the request each thread serves
  disturbed,  \* history: nodes whose requests did not each run to its end alone, or
              \* where a request on one node called EC2 on an instance of another
  ops, restarts

vars == <<file, stage, target, merged, overlap, cut,
          inst, dns, job, disturbed, ops, restarts>>

InstanceRecords ==
  [state : {"none", "pending", "running", "stopped", "terminated"}, node : Nodes,
   priv : Privates \cup {NoAddr}, pub : Publics \cup {NoAddr}]
Jobs ==
  [op : {"none", "launch", "terminate", "snooze", "wake", "beat"},
   at : {"none", "aws", "wait", "dns", "upsert", "reconcile"},
   node : Nodes, rec : Records, iid : Instances \cup {NoInst},
   priv : Privates \cup {NoAddr}, pub : Publics \cup {NoAddr, Placeholder}]

NoJob == [op |-> "none", at |-> "none", node |-> CHOOSE n \in Nodes : TRUE, rec |-> Fresh,
          iid |-> NoInst, priv |-> NoAddr, pub |-> NoAddr]

Init ==
  /\ RecInit
  /\ inst = [i \in Instances |-> [state |-> "none", node |-> CHOOSE n \in Nodes : TRUE,
                                  priv |-> NoAddr, pub |-> NoAddr]]
  /\ dns = [n \in Nodes |-> NoAddr]
  /\ job = [t \in Threads |-> NoJob]
  /\ disturbed = {} /\ ops = 0 /\ restarts = 0

-----------------------------------------------------------------------------
(* EC2.                                                                    *)

Live(i) == inst[i].state \in {"pending", "running", "stopped"}
LaunchedFor(n) == {i \in Instances : Live(i) /\ inst[i].node = n}
Running(n) == {i \in Instances : inst[i].state = "running" /\ inst[i].node = n}
FreePublics == Publics \ {inst[i].pub : i \in Instances}
FreePrivates == Privates \ {inst[i].priv : i \in Instances}

\* A pending instance comes up: a public address of the pool, and the private
\* address it had if it was only stopped.
Boot(i) ==
  /\ inst[i].state = "pending"
  /\ \E pub \in FreePublics :
       \E priv \in IF inst[i].priv = NoAddr THEN FreePrivates ELSE {inst[i].priv} :
         inst' = [inst EXCEPT ![i].state = "running", ![i].pub = pub, ![i].priv = priv]
  /\ UNCHANGED <<recVars, dns, job, disturbed, ops, restarts>>

Terminated(i) == [inst EXCEPT ![i].state = "terminated", ![i].priv = NoAddr, ![i].pub = NoAddr]
Stopped(i) == [inst EXCEPT ![i].state = "stopped", ![i].pub = NoAddr]
Started(i) == [inst EXCEPT ![i].state = IF @ = "stopped" THEN "pending" ELSE @]

-----------------------------------------------------------------------------
(* The course of a request.                                                *)

Serving(n) == \E t \in Threads : job[t].op # "none" /\ job[t].node = n
Operating(n) == \E t \in Threads : job[t].op \notin {"none", "beat"} /\ job[t].node = n

\* Operator request number ops + 1 starts on n; alone says nothing else disturbs it.
Start(t, n, alone) ==
  /\ job[t].op = "none" /\ ops < MaxOps
  /\ ops' = ops + 1
  /\ disturbed' = IF alone THEN disturbed ELSE disturbed \cup {n}
  /\ UNCHANGED <<recVars, dns, restarts>>

\* The request ends with an error after it called EC2.
Fail(t) ==
  /\ job' = [job EXCEPT ![t] = NoJob]
  /\ disturbed' = disturbed \cup {job[t].node}
  /\ UNCHANGED <<ops, restarts>>

-----------------------------------------------------------------------------
(* Operator requests up to the update of the node's record.                *)

\* A launch knows the node's fqdn.
Named == [Fresh EXCEPT !.named = TRUE]

\* nodes_launch: run_instances, then wait for the addresses.
NodesLaunch(t, n) ==
  /\ Start(t, n, ~Serving(n) /\ LaunchedFor(n) = {})
  /\ \E i \in Instances :
       /\ inst[i].state = "none"
       /\ inst' = [inst EXCEPT ![i].state = "pending", ![i].node = n]
       /\ job' = [job EXCEPT ![t].op = "launch", ![t].at = "wait", ![t].node = n,
                             ![t].iid = i, ![t].rec = Named]

\* nodes_terminate, nodes_snooze, nodes_wake: get_node, a 404 or 500 without it.
OnRecord(t, n, op) ==
  /\ Start(t, n, ~Operating(n))
  /\ file[n] \in Records
  /\ job' = [job EXCEPT ![t].op = op, ![t].at = "aws", ![t].node = n, ![t].rec = file[n]]
  /\ UNCHANGED inst

\* _resolve_instance_for_node_record: the first listed instance that agrees with
\* the record in any one respect, else the recorded id.  EC2 lists in any order.
Matches(rec, n) ==
  {i \in Instances : Live(i) /\ \/ rec.iid = i
                                \/ rec.priv # NoAddr /\ rec.priv = inst[i].priv
                                \/ rec.pub # NoAddr /\ rec.pub = inst[i].pub
                                \/ inst[i].node = n}
Resolved(rec, n) ==
  IF Matches(rec, n) # {} THEN Matches(rec, n) ELSE {rec.iid} \ {NoInst}

\* A request on n that calls EC2 on another node's instance disturbs both nodes.
Astray(n, i) == {m \in {n, inst[i].node} : inst[i].node # n}

\* terminate_instances, stop_instances or start_instances; stop and start raise
\* on a terminated instance, and starting one that is up changes nothing.
CallEc2(t) ==
  /\ job[t].at = "aws"
  /\ \/ \E i \in Resolved(job[t].rec, job[t].node) :
          /\ disturbed' = disturbed \cup Astray(job[t].node, i)
          /\ \/ /\ job[t].op = "terminate"
                /\ inst' = Terminated(i)
                /\ job' = [job EXCEPT ![t].at = "upsert", ![t].iid = i]
             \/ /\ job[t].op = "snooze" /\ Live(i)
                /\ inst' = Stopped(i)
                /\ job' = [job EXCEPT ![t].at = IF job[t].rec.named THEN "dns" ELSE "upsert",
                                      ![t].iid = i, ![t].pub = Placeholder]
             \/ /\ job[t].op = "wake" /\ Live(i)
                /\ inst' = Started(i)
                /\ job' = [job EXCEPT ![t].at = "wait", ![t].iid = i]
             \/ /\ job[t].op # "terminate" /\ ~Live(i)
                /\ job' = [job EXCEPT ![t] = NoJob]
                /\ UNCHANGED inst
     \/ /\ Resolved(job[t].rec, job[t].node) = {}
        /\ job' = [job EXCEPT ![t] = NoJob]
        /\ UNCHANGED <<inst, disturbed>>
  /\ UNCHANGED <<recVars, dns, ops, restarts>>

\* _wait_for_instance_network: both addresses, or it raises at the deadline or
\* when the instance is terminated.
WaitForNetwork(t) ==
  /\ job[t].at = "wait"
  /\ LET i == inst[job[t].iid] IN
     \/ /\ i.priv # NoAddr /\ i.pub # NoAddr
        /\ job' = [job EXCEPT ![t].at = IF job[t].rec.named THEN "dns" ELSE "upsert",
                              ![t].priv = i.priv, ![t].pub = i.pub]
        /\ UNCHANGED <<disturbed, ops, restarts>>
     \/ /\ i.priv = NoAddr \/ i.pub = NoAddr
        /\ Fail(t)
  /\ UNCHANGED <<recVars, inst, dns>>

\* _upsert_node_dns inside launch, snooze and wake; an error ends the request.
UpsertDns(t) ==
  /\ job[t].at = "dns"
  /\ \/ /\ dns' = [dns EXCEPT ![job[t].node] = job[t].pub]
        /\ job' = [job EXCEPT ![t].at = "upsert"]
        /\ UNCHANGED <<disturbed, ops, restarts>>
     \/ Fail(t) /\ UNCHANGED dns
  /\ UNCHANGED <<recVars, inst>>

\* nodes_delete
NodesDelete(n) ==
  /\ ops < MaxOps
  /\ ops' = ops + 1
  /\ DeleteNode(n)
  /\ disturbed' = IF Operating(n) THEN disturbed \cup {n} ELSE disturbed
  /\ UNCHANGED <<inst, dns, job, restarts>>

-----------------------------------------------------------------------------
(* Heartbeats, and the update of the record.                               *)

\* Slip (mutant): the address is left out.
HeartbeatAddressDropped(i) == NoAddr

\* taks-heartbeat.sh names the node and its private address.
HeartbeatAddress(i) == IF SendsPublicIp THEN inst[i].pub ELSE NoAddr

\* A running node's timer fires; the request may take any time to be served.
Heartbeat(t, i) ==
  /\ job[t].op = "none" /\ inst[i].state = "running"
  /\ job' = [job EXCEPT ![t].op = "beat", ![t].at = "upsert", ![t].node = inst[i].node,
                        ![t].priv = inst[i].priv, ![t].pub = HeartbeatAddress(i)]
  /\ UNCHANGED <<recVars, inst, dns, disturbed, ops, restarts>>

\* Slips (mutants): snooze leaves the public address in the record; a heartbeat
\* overwrites the instance with the one it did not name.
PatchedSnoozeKeeps(j, rec) ==
  IF j.op = "beat" THEN [rec EXCEPT !.named = TRUE, !.priv = j.priv]
  ELSE [rec EXCEPT !.iid = j.iid, !.named = @ \/ j.op = "launch",
                   !.priv = IF j.priv = NoAddr THEN @ ELSE j.priv,
                   !.pub = IF j.op \in {"launch", "wake"} THEN j.pub ELSE @]
PatchedBeatNamesNone(j, rec) ==
  [rec EXCEPT !.iid = j.iid, !.named = TRUE, !.priv = IF j.priv = NoAddr THEN @ ELSE j.priv]

\* The patch each request merges into the record.  None values are not merged.
Patched(j, rec) ==
  CASE j.op = "launch" -> [iid |-> j.iid, named |-> TRUE, priv |-> j.priv, pub |-> j.pub]
    [] j.op = "wake" -> [rec EXCEPT !.iid = j.iid, !.priv = j.priv, !.pub = j.pub]
    [] j.op = "snooze" -> [rec EXCEPT !.iid = j.iid, !.pub = NoAddr]
    [] j.op = "terminate" -> [rec EXCEPT !.iid = j.iid]
    [] OTHER -> [rec EXCEPT !.named = TRUE, !.priv = j.priv,
                            !.pub = IF j.pub = NoAddr THEN @ ELSE j.pub]

\* upsert_node, step by step; a record that does not parse raises.
UpsertNode(t) ==
  /\ job[t].at = "upsert"
  /\ \/ /\ UpsertRead(t, job[t].node, Patched(job[t], Current(job[t].node)))
        /\ UNCHANGED <<job, disturbed, ops, restarts>>
     \/ /\ stage[t] = "idle" /\ ~Readable(job[t].node)
        /\ Fail(t)
        /\ UNCHANGED recVars
     \/ UpsertOpen(t) /\ UNCHANGED <<job, disturbed, ops, restarts>>
     \/ /\ UpsertWrite(t)
        /\ job' = [job EXCEPT ![t] = IF @.op = "beat" THEN [@ EXCEPT !.at = "reconcile"]
                                                      ELSE NoJob]
        /\ UNCHANGED <<disturbed, ops, restarts>>
  /\ UNCHANGED <<inst, dns>>

\* aws_reconcile_node_dns, when the heartbeat names an address.
ReconcileDns(t) ==
  /\ job[t].at = "reconcile" /\ job[t].pub # NoAddr
  /\ dns' = [dns EXCEPT ![job[t].node] = job[t].pub]
  /\ job' = [job EXCEPT ![t] = NoJob]
  /\ UNCHANGED <<recVars, inst, disturbed, ops, restarts>>

\* No address, or Route 53 is unavailable: the heartbeat succeeds all the same.
SkipDns(t) ==
  /\ job[t].at = "reconcile"
  /\ job' = [job EXCEPT ![t] = NoJob]
  /\ UNCHANGED <<recVars, inst, dns, disturbed, ops, restarts>>

-----------------------------------------------------------------------------
\* The orchestrator restarts: the requests under way are gone.
Restart ==
  /\ restarts < MaxRestarts
  /\ restarts' = restarts + 1
  /\ RestartRecords
  /\ job' = [t \in Threads |-> NoJob]
  /\ disturbed' = disturbed \cup {n \in Nodes : Operating(n)}
  /\ UNCHANGED <<inst, dns, ops>>

Operator(t, n) ==
  \/ NodesLaunch(t, n)
  \/ \E op \in {"terminate", "snooze", "wake"} : OnRecord(t, n, op)

Serve(t) == CallEc2(t) \/ WaitForNetwork(t) \/ UpsertDns(t) \/ UpsertNode(t) \/ SkipDns(t)

Next ==
  \/ \E t \in Threads : \/ \E n \in Nodes : Operator(t, n)
                        \/ \E i \in Instances : Heartbeat(t, i)
                        \/ Serve(t)
                        \/ ReconcileDns(t)
  \/ \E i \in Instances : Boot(i)
  \/ \E n \in Nodes : NodesDelete(n)
  \/ Restart

Spec == Init /\ [][Next]_vars

\* Every request is served to its end, EC2 boots what it started, a node's timer
\* keeps firing (every 30 s) and gets a thread, and Route 53 is not down for good.
FairSpec ==
  /\ Spec
  /\ \A t \in Threads : WF_vars(Serve(t) \/ ReconcileDns(t)) /\ SF_vars(ReconcileDns(t))
  /\ \A i \in Instances : WF_vars(Boot(i)) /\ SF_vars(\E t \in Threads : Heartbeat(t, i))
-----------------------------------------------------------------------------
(* Types: every value the variables take.                                  *)
TypeOK ==
  /\ RecTypeOK
  /\ inst \in [Instances -> InstanceRecords]
  /\ dns \in [Nodes -> Publics \cup {NoAddr, Placeholder}]
  /\ job \in [Threads -> Jobs]
  /\ disturbed \subseteq Nodes
  /\ ops \in 0..MaxOps /\ restarts \in 0..MaxRestarts

(* terminate, snooze and wake look their instance up by any one thing the  *)
(* record says (api_v2.py:550-564), addresses that EC2 hands on included.  *)
(* They act on another node's instance only when their own node has none,  *)
(* as long as the node's requests ran one after another, each to its end,  *)
(* on a record no updates met on, and none before went astray, the node's  *)
(* own or another's.  A record made anew by a heartbeat after a delete,    *)
(* which names no instance, is no exception.                               *)
OwnTarget ==
  [][\A t \in Threads, i \in Instances :
       job[t].at = "aws" /\ job'[t].iid = i /\ inst[i].node # job[t].node
         => \/ job[t].node \in disturbed \cup overlap \cup cut
            \/ LaunchedFor(job[t].node) = {}]_vars

(* A heartbeat never changes which instance a record names, unless another *)
(* update or a delete of the same record came between its read and write.  *)
BeatsKeepInstance ==
  [][\A t \in Threads :
       stage[t] = "read" /\ stage'[t] = "opened" /\ job[t].op = "beat"
         => job[t].node \in overlap \/ merged[t].iid = Current(job[t].node).iid]_vars

(* A record that does not parse and that nobody is writing stays so until  *)
(* an operator deletes it: no heartbeat and no request ever repairs it.    *)
Stuck(n) == ~Readable(n) /\ \A t \in Threads : ~Updating(t, n)
OnlyDeleteRepairs ==
  [][\A n \in Nodes : Stuck(n) => Stuck(n)' \/ file'[n] = NoFile]_vars

(* Once one instance runs for a node, no operator request is under way and *)
(* its record can be read, the heartbeats bring its DNS name to the        *)
(* instance's address for good (core.py:232-233, api_v2.py:889-892).       *)
Settled(n) == Cardinality(Running(n)) = 1 /\ ~Operating(n)
DnsConverges ==
  \A n \in Nodes :
    <>[]Settled(n) /\ []<>Readable(n) => <>[](dns[n] \in {inst[i].pub : i \in Running(n)})
=============================================================================
