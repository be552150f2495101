---------------------------- MODULE XmppBookmarks ----------------------------
(***************************************************************************)
(* The queue of XMPP bookmark jobs, one file pending/<user>.json a user.   *)
(* Onboarding a user, or importing one, overwrites the user's job; a run   *)
(* of takctl-xmpp-bookmarks-sync lists the jobs, publishes each on the     *)
(* XMPP server, files it under done/ and unlinks it.  Neither side locks   *)
(* anything, and a failed job is read again and written back.              *)
(*                                                                         *)
(* Source: takctl/onboarding/xmpp_bookmarks.py.  The files are written     *)
(* through temporary names of their own, hence atomically; what a job says *)
(* of attempts and times steers nothing and is left out.                   *)
(***************************************************************************)
EXTENDS Naturals, FiniteSets

CONSTANTS
  Users,      \* user names, as numbers in the order of their files
  Syncs,      \* runs of takctl-xmpp-bookmarks-sync that may go on together
  Rooms,      \* conference rooms
  NoFile,     \* no job file
  Husk,       \* a job without user name: what a run writes back for a lost file
  Limit,      \* --limit: jobs a run takes
  MaxJobs     \* bound: jobs enqueued

\* A job: the rooms selected for the user, among those available.
Jobs == {j \in [sel : SUBSET Rooms, avail : SUBSET Rooms] : j.sel \subseteq j.avail}
Files == Jobs \cup {Husk, NoFile}

ASSUME BookmarkConstants ==
  /\ Users \subseteq Nat /\ Limit \in Nat \ {0} /\ MaxJobs \in Nat
  /\ NoFile \notin Jobs /\ Husk \notin Jobs /\ Husk # NoFile

VARIABLES
  pending,   \* pending/<user>.json
  done,      \* done/<user>.json
  server,    \* the rooms bookmarked for the user on the XMPP server
  pc,        \* where each run is
  todo,      \* the users of the files it listed and has not finished with
  held,      \* the job it has read
  left,      \* the rooms of it still to publish or retract
  wanted,    \* history: the job last enqueued for each user
  crossed,   \* history: users whose job was replaced under a run at work on
             \* it, or whose file two runs had listed
  jobs       \* count of the jobs enqueued

vars == <<pending, done, server, pc, todo, held, left, wanted, crossed, jobs>>

Init ==
  /\ pending = [u \in Users |-> NoFile] /\ done = [u \in Users |-> NoFile]
  /\ server = [u \in Users |-> {}]
  /\ pc = [p \in Syncs |-> "off"] /\ todo = [p \in Syncs |-> {}]
  /\ held = [p \in Syncs |-> NoFile] /\ left = [p \in Syncs |-> {}]
  /\ wanted = [u \in Users |-> NoFile] /\ crossed = {} /\ jobs = 0

\* A run takes its files in order: the user it is at.
IsNext(p, u) == u \in todo[p] /\ \A v \in todo[p] : u <= v
AtWork(p, u) == pc[p] \notin {"off", "next"} /\ IsNext(p, u)
Listed(u) == {p \in Syncs : u \in todo[p]}

-----------------------------------------------------------------------------
\* enqueue_user_bookmarks: the file of an earlier job is replaced.
Enqueue(u, j) ==
  /\ jobs < MaxJobs
  /\ jobs' = jobs + 1
  /\ pending' = [pending EXCEPT ![u] = j]
  /\ wanted' = [wanted EXCEPT ![u] = j]
  /\ crossed' = IF \E p \in Syncs : AtWork(p, u) THEN crossed \cup {u}
                ELSE IF Listed(u) = {} THEN crossed \ {u} ELSE crossed
  /\ UNCHANGED <<done, server, pc, todo, held, left>>

\* sync_pending_bookmark_jobs: the first Limit files, in order.
List(p) ==
  LET files == {u \in Users : pending[u] # NoFile}
      first == {u \in files : Cardinality({v \in files : v < u}) < Limit}
  IN /\ pc[p] = "off"
     /\ pc' = [pc EXCEPT ![p] = IF first = {} THEN "off" ELSE "next"]
     /\ todo' = [todo EXCEPT ![p] = first]
     /\ crossed' = crossed \cup {u \in first : Listed(u) # {}}
     /\ UNCHANGED <<pending, done, server, held, left, wanted, jobs>>

\* sync_bookmark_job reads the next file; it may be gone, or hold no user name.
\* A job without available rooms is given those that are available by now.
Load(p, u) ==
  /\ pc[p] = "next" /\ IsNext(p, u)
  /\ IF pending[u] \in Jobs
     THEN /\ pc' = [pc EXCEPT ![p] = "publish"]
          /\ held' = [held EXCEPT ![p] = pending[u]]
          /\ \E rooms \in IF pending[u].avail = {} THEN SUBSET Rooms ELSE {pending[u].avail} :
               left' = [left EXCEPT ![p] = rooms]
     ELSE pc' = [pc EXCEPT ![p] = "failed"] /\ UNCHANGED <<held, left>>
  /\ UNCHANGED <<pending, done, server, todo, wanted, crossed, jobs>>

\* session_start: the selected rooms are published, then the other available
\* ones retracted, each by a request of its own.
PublishRoom(p, u, r) ==
  /\ pc[p] = "publish" /\ IsNext(p, u) /\ r \in left[p] \cap held[p].sel
  /\ server' = [server EXCEPT ![u] = @ \cup {r}]
  /\ left' = [left EXCEPT ![p] = @ \ {r}]
  /\ UNCHANGED <<pending, done, pc, todo, held, wanted, crossed, jobs>>

RetractRoom(p, u, r) ==
  /\ pc[p] = "publish" /\ IsNext(p, u) /\ left[p] \cap held[p].sel = {} /\ r \in left[p]
  /\ server' = [server EXCEPT ![u] = @ \ {r}]
  /\ left' = [left EXCEPT ![p] = @ \ {r}]
  /\ UNCHANGED <<pending, done, pc, todo, held, wanted, crossed, jobs>>

\* Slip (mutant): filed with rooms left to retract.
FileDoneEarly(p, u) ==
  /\ pc[p] = "publish" /\ IsNext(p, u) /\ left[p] \cap held[p].sel = {}
  /\ done' = [done EXCEPT ![u] = held[p]]
  /\ pc' = [pc EXCEPT ![p] = "filed"]
  /\ UNCHANGED <<pending, server, todo, held, left, wanted, crossed, jobs>>

\* All published: the job is filed under done/.
FileDone(p, u) ==
  /\ pc[p] = "publish" /\ IsNext(p, u) /\ left[p] = {}
  /\ done' = [done EXCEPT ![u] = held[p]]
  /\ pc' = [pc EXCEPT ![p] = "filed"]
  /\ UNCHANGED <<pending, server, todo, held, left, wanted, crossed, jobs>>

\* The run is through with a job.
Dismissed(p, u) ==
  /\ pc' = [pc EXCEPT ![p] = IF todo[p] = {u} THEN "off" ELSE "next"]
  /\ todo' = [todo EXCEPT ![p] = @ \ {u}]
  /\ held' = [held EXCEPT ![p] = NoFile]
  /\ left' = [left EXCEPT ![p] = {}]

\* The pending file is unlinked; that it is gone already is no error.
Unlink(p, u) ==
  /\ pc[p] = "filed" /\ IsNext(p, u)
  /\ pending' = [pending EXCEPT ![u] = NoFile]
  /\ Dismissed(p, u)
  /\ UNCHANGED <<done, server, wanted, crossed, jobs>>

\* Slip (mutant): a failed job is unlinked as well.
FailUnlinks(p) ==
  /\ pc[p] = "publish"
  /\ pc' = [pc EXCEPT ![p] = "filed"]
  /\ UNCHANGED <<pending, done, server, todo, held, left, wanted, crossed, jobs>>

\* No password, no connection, a refused request, a timeout after any of them.
Fail(p) ==
  /\ pc[p] = "publish"
  /\ pc' = [pc EXCEPT ![p] = "failed"]
  /\ UNCHANGED <<pending, done, server, todo, held, left, wanted, crossed, jobs>>

\* Slip (mutant): the failed job is not read again.
ReadAgainNot(p, u) ==
  /\ pc[p] = "failed" /\ IsNext(p, u)
  /\ held' = [held EXCEPT ![p] = Husk]
  /\ left' = [left EXCEPT ![p] = {}]
  /\ pc' = [pc EXCEPT ![p] = "rewrite"]
  /\ UNCHANGED <<pending, done, server, todo, wanted, crossed, jobs>>

\* The failed job is read again, and written back with the error.
ReadAgain(p, u) ==
  /\ pc[p] = "failed" /\ IsNext(p, u)
  /\ held' = [held EXCEPT ![p] = IF pending[u] = NoFile THEN Husk ELSE pending[u]]
  /\ left' = [left EXCEPT ![p] = {}]
  /\ pc' = [pc EXCEPT ![p] = "rewrite"]
  /\ UNCHANGED <<pending, done, server, todo, wanted, crossed, jobs>>

WriteBack(p, u) ==
  /\ pc[p] = "rewrite" /\ IsNext(p, u)
  /\ pending' = [pending EXCEPT ![u] = held[p]]
  /\ Dismissed(p, u)
  /\ UNCHANGED <<done, server, wanted, crossed, jobs>>

\* The run is killed.
Kill(p) ==
  /\ pc[p] # "off"
  /\ pc' = [pc EXCEPT ![p] = "off"]
  /\ todo' = [todo EXCEPT ![p] = {}]
  /\ held' = [held EXCEPT ![p] = NoFile]
  /\ left' = [left EXCEPT ![p] = {}]
  /\ UNCHANGED <<pending, done, server, wanted, crossed, jobs>>

Sync(p, u) ==
  \/ Load(p, u) \/ FileDone(p, u) \/ Unlink(p, u) \/ ReadAgain(p, u) \/ WriteBack(p, u)
  \/ \E r \in Rooms : PublishRoom(p, u, r) \/ RetractRoom(p, u, r)

Next ==
  \/ \E u \in Users, j \in Jobs : Enqueue(u, j)
  \/ \E p \in Syncs : List(p) \/ Fail(p) \/ Kill(p) \/ \E u \in Users : Sync(p, u)

Spec == Init /\ [][Next]_vars

-----------------------------------------------------------------------------
(* Types: every value the variables take.                                  *)
TypeOK ==
  /\ pending \in [Users -> Files]
  /\ done \in [Users -> Jobs \cup {NoFile}]
  /\ server \in [Users -> SUBSET Rooms]
  /\ pc \in [Syncs -> {"off", "next", "publish", "filed", "failed", "rewrite"}]
  /\ todo \in [Syncs -> SUBSET Users]
  /\ held \in [Syncs -> Files]
  /\ left \in [Syncs -> SUBSET Rooms]
  /\ wanted \in [Users -> Jobs \cup {NoFile}]
  /\ crossed \subseteq Users /\ jobs \in 0..MaxJobs

(* The job last enqueued for a user is never lost: it is still pending, or *)
(* it was published, unless it met a run at work on the job it replaced or *)
(* two runs had the user's file listed.                                    *)
LatestKept ==
  \A u \in Users \ crossed : wanted[u] # NoFile => wanted[u] \in {pending[u], done[u]}

(* With no job pending for a user, the server has just those of the rooms  *)
(* available to the user that the last published job selects.              *)
ServerAsDone ==
  \A u \in Users \ crossed :
    done[u] # NoFile /\ pending[u] = NoFile => server[u] \cap done[u].avail = done[u].sel

(* Only runs that had the same file listed leave a job without a user      *)
(* name, which every later run fails on.                                   *)
HusksFromCrossing == \A u \in Users \ crossed : pending[u] # Husk
=============================================================================
