----------------------------- MODULE NodeRecords -----------------------------
(***************************************************************************)
(* orchestrator_core/nodes_state.py: one file nodes/<id>.json per node,    *)
(* shared by the request threads of the orchestrator.  upsert_node reads   *)
(* the file, merges a patch and writes it back in place: the write opens   *)
(* the file, which truncates it, and fills it.  There is no lock and no    *)
(* rename, so another thread may read a truncated file, write over a       *)
(* record it has not seen, or write into a file that was deleted.          *)
(***************************************************************************)
EXTENDS Naturals, FiniteSets

CONSTANTS
  Nodes,      \* node ids (their fqdn)
  Threads,    \* request threads of the orchestrator
  Instances, NoInst,   \* EC2 instance ids
  Publics, Privates, NoAddr,   \* addresses EC2 hands out
  Blank, Torn, NoFile  \* a truncated file; two writers' text mixed; no file

\* What the code acts on: the instance id, the addresses, and whether the record
\* names its fqdn (one made by terminate, snooze or wake after a delete does not).
Records == [iid : Instances \cup {NoInst}, named : BOOLEAN,
            priv : Privates \cup {NoAddr}, pub : Publics \cup {NoAddr}]
Fresh == [iid |-> NoInst, named |-> FALSE, priv |-> NoAddr, pub |-> NoAddr]

ASSUME RecordValues ==
  /\ Nodes # {}
  /\ Blank \notin Records /\ Torn \notin Records /\ NoFile \notin Records
  /\ Blank # Torn /\ Blank # NoFile /\ Torn # NoFile
  /\ NoInst \notin Instances /\ NoAddr \notin Publics \cup Privates

VARIABLES
  file,     \* content of nodes/<id>.json
  stage,    \* how far each thread is in upsert_node
  target,   \* the node whose record it updates
  merged,   \* the record it is about to write
  overlap,  \* history: nodes of which two updates, or an update and a delete, met
  cut       \* history: nodes whose record a restart left half written

recVars == <<file, stage, target, merged, overlap, cut>>

Stages == {"idle", "read", "opened", "unlinked"}

RecInit ==
  /\ file = [n \in Nodes |-> NoFile]
  /\ stage = [t \in Threads |-> "idle"]
  /\ target = [t \in Threads |-> CHOOSE n \in Nodes : TRUE]
  /\ merged = [t \in Threads |-> Fresh]
  /\ overlap = {} /\ cut = {}

Updating(t, n) == stage[t] # "idle" /\ target[t] = n

-----------------------------------------------------------------------------
\* _read_json: a file that does not parse raises.
Readable(n) == file[n] \in Records \cup {NoFile}
Current(n) == IF file[n] = NoFile THEN Fresh ELSE file[n]

\* upsert_node reads n's record; new is the record with the patch merged in.
UpsertRead(t, n, new) ==
  /\ stage[t] = "idle" /\ Readable(n)
  /\ stage' = [stage EXCEPT ![t] = "read"]
  /\ target' = [target EXCEPT ![t] = n]
  /\ merged' = [merged EXCEPT ![t] = new]
  /\ overlap' = IF \E u \in Threads : Updating(u, n) THEN overlap \cup {n} ELSE overlap
  /\ UNCHANGED <<file, cut>>

\* write_text opens the file: created if missing, truncated if not.
UpsertOpen(t) ==
  /\ stage[t] = "read"
  /\ stage' = [stage EXCEPT ![t] = "opened"]
  /\ file' = [file EXCEPT ![target[t]] = Blank]
  /\ UNCHANGED <<target, merged, overlap, cut>>

\* Slip (mutant): the file is opened without truncating it.
OverwriteUntruncated(old, new) == {new, Torn}

\* Over another writer's longer text, its tail stays behind.
Overwrite(old, new) == IF old = Blank THEN {new} ELSE {new, Torn}

UpsertWrite(t) ==
  /\ stage[t] \in {"opened", "unlinked"}
  /\ IF stage[t] = "opened"
     THEN \E content \in Overwrite(file[target[t]], merged[t]) :
            file' = [file EXCEPT ![target[t]] = content]
     ELSE UNCHANGED file
  /\ stage' = [stage EXCEPT ![t] = "idle"]
  /\ merged' = [merged EXCEPT ![t] = Fresh]
  /\ UNCHANGED <<target, overlap, cut>>

\* delete_node; a thread that has the file open goes on writing to nowhere.
DeleteNode(n) ==
  /\ file[n] # NoFile
  /\ file' = [file EXCEPT ![n] = NoFile]
  /\ stage' = [t \in Threads |-> IF stage[t] = "opened" /\ target[t] = n
                                 THEN "unlinked" ELSE stage[t]]
  /\ overlap' = IF \E t \in Threads : Updating(t, n) THEN overlap \cup {n} ELSE overlap
  /\ UNCHANGED <<target, merged, cut>>

\* The orchestrator restarts: every thread is gone, the files stay.
RestartRecords ==
  /\ stage' = [t \in Threads |-> "idle"]
  /\ merged' = [t \in Threads |-> Fresh]
  /\ cut' = cut \cup {target[t] : t \in {u \in Threads : stage[u] = "opened"}}
  /\ UNCHANGED <<file, target, overlap>>

-----------------------------------------------------------------------------
(* Types: every value the record files' variables take.                    *)
RecTypeOK ==
  /\ file \in [Nodes -> Records \cup {Blank, Torn, NoFile}]
  /\ stage \in [Threads -> Stages]
  /\ target \in [Threads -> Nodes]
  /\ merged \in [Threads -> Records]
  /\ overlap \subseteq Nodes /\ cut \subseteq Nodes

(* A record no updates met on and no restart cut short parses, except      *)
(* while its one writer has it truncated.                                  *)
RecordParses ==
  \A n \in Nodes : n \notin overlap \cup cut /\ ~Readable(n)
    => \E t \in Threads : stage[t] = "opened" /\ target[t] = n
=============================================================================
