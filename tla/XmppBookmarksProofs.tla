------------------------- MODULE XmppBookmarksProofs -------------------------
(***************************************************************************)
(* The bookmark queue keeps the last job of every user nothing crossed,    *)
(* for every number of users, runs and rooms.                              *)
(***************************************************************************)
EXTENDS XmppBookmarks, TLAPS

(* A run publishes a job room by room: those it is through with are as the *)
(* job wants them.                                                         *)
Settled(u, j, rooms) == \A r \in rooms : r \in server[u] <=> r \in j.sel

(* What one run at work on an uncrossed user has in hand.                  *)
InHand(p, u) ==
  /\ pc[p] \in {"publish", "filed", "rewrite"} => held[p] = pending[u]
  /\ pc[p] = "publish" => Settled(u, held[p], held[p].avail \ left[p])
  /\ pc[p] = "filed" => done[u] = held[p] /\ Settled(u, held[p], held[p].avail)

(* An uncrossed user: at most one run has the file listed, it is the last  *)
(* job enqueued, and without it that job was published.                    *)
Straight(u) ==
  /\ \A p, q \in Syncs : u \in todo[p] /\ u \in todo[q] => p = q
  /\ pending[u] \in {wanted[u], NoFile}
  /\ \A p \in Syncs : u \in todo[p] => pending[u] # NoFile
  /\ \A p \in Syncs : AtWork(p, u) => InHand(p, u)
  /\ pending[u] = NoFile /\ wanted[u] # NoFile =>
       done[u] = wanted[u] /\ Settled(u, done[u], done[u].avail)
  /\ wanted[u] = NoFile => done[u] = NoFile

QueueInv ==
  /\ TypeOK
  /\ \A p \in Syncs : pc[p] = "publish" => held[p] \in Jobs
  /\ \A u \in Users \ crossed : Straight(u)

-----------------------------------------------------------------------------
\* The file a run is at is one: names are ordered.
LEMMA OneNext ==
  ASSUME TypeOK, NEW p \in Syncs, NEW u \in Users, NEW v \in Users, IsNext(p, u), IsNext(p, v)
  PROVE  u = v
  <1>1. u <= v /\ v <= u /\ u \in Nat /\ v \in Nat
    BY BookmarkConstants DEF IsNext
  <1> QED BY <1>1

LEMMA JobRooms ==
  ASSUME NEW j \in Jobs PROVE j.avail \subseteq Rooms /\ j.sel \subseteq j.avail
  BY DEF Jobs

LEMMA QueueInit == Init => QueueInv
  <1> SUFFICES ASSUME Init PROVE QueueInv
    OBVIOUS
  <1>1. TypeOK
    BY BookmarkConstants DEF Init, TypeOK, Files
  <1>2. \A u \in Users : Straight(u)
    BY DEF Init, Straight, AtWork
  <1> QED BY <1>1, <1>2 DEF QueueInv, Init

\* A step that changes nothing about a user keeps the user straight.
LEMMA Untouched ==
  ASSUME NEW u \in Users, Straight(u),
         UNCHANGED <<pending[u], done[u], server[u], wanted[u]>>,
         \A p \in Syncs : /\ u \in todo'[p] => u \in todo[p]
                          /\ AtWork(p, u)' => /\ AtWork(p, u)
                                              /\ UNCHANGED <<pc[p], held[p], left[p]>>
  PROVE  Straight(u)'
  BY DEF Straight, InHand, Settled

LEMMA EnqueueKeeps ==
  ASSUME QueueInv, NEW v \in Users, NEW j \in Jobs, Enqueue(v, j) PROVE QueueInv'
  <1> USE DEF QueueInv
  <1>1. TypeOK'
    BY BookmarkConstants DEF Enqueue, TypeOK, Files
  <1>2. ASSUME NEW u \in Users \ crossed', u # v PROVE Straight(u)'
    <2>1. u \notin crossed
      BY <1>2 DEF Enqueue
    <2>2. UNCHANGED <<pending[u], wanted[u]>>
      BY <1>2 DEF Enqueue, TypeOK
    <2>3. \A p \in Syncs : AtWork(p, u)' <=> AtWork(p, u)
      BY DEF Enqueue, AtWork, IsNext
    <2> QED BY <2>1, <2>2, <2>3, Untouched DEF Enqueue
  <1>3. ASSUME v \notin crossed' PROVE Straight(v)'
    <2>1. pending'[v] = j /\ wanted'[v] = j /\ j # NoFile
      BY BookmarkConstants DEF Enqueue, TypeOK
    <2>2. \A p \in Syncs : ~AtWork(p, v)'
      BY <1>3 DEF Enqueue, AtWork, IsNext
    <2>3. \A p, q \in Syncs : v \in todo[p] /\ v \in todo[q] => p = q
      BY <1>3 DEF Enqueue, Listed, Straight
    <2>4. UNCHANGED todo
      BY DEF Enqueue
    <2> QED BY <2>1, <2>2, <2>3, <2>4 DEF Straight
  <1> QED BY <1>1, <1>2, <1>3 DEF Enqueue

LEMMA ListKeeps ==
  ASSUME QueueInv, NEW p \in Syncs, List(p) PROVE QueueInv'
  <1> DEFINE files == {u \in Users : pending[u] # NoFile}
             first == {u \in files : Cardinality({v \in files : v < u}) < Limit}
  <1>1. /\ pc[p] = "off"
        /\ pc' = [pc EXCEPT ![p] = IF first = {} THEN "off" ELSE "next"]
        /\ todo' = [todo EXCEPT ![p] = first]
        /\ crossed' = crossed \cup {u \in first : Listed(u) # {}}
        /\ UNCHANGED <<pending, done, server, held, left, wanted, jobs>>
    BY DEF List
  <1>2. first \subseteq Users /\ \A u \in first : pending[u] # NoFile
    OBVIOUS
  <1> HIDE DEF first
  <1>3. TypeOK'
    BY <1>1, <1>2 DEF QueueInv, TypeOK
  <1>4. ASSUME NEW u \in Users \ crossed' PROVE Straight(u)'
    <2>1. u \notin crossed /\ Straight(u) /\ (u \in first => Listed(u) = {})
      BY <1>1, <1>4 DEF QueueInv
    <2>2. \A q \in Syncs : AtWork(q, u)' => q # p /\ AtWork(q, u)
      BY <1>1 DEF QueueInv, TypeOK, AtWork, IsNext
    <2>3. \A q, r \in Syncs : u \in todo'[q] /\ u \in todo'[r] => q = r
      BY <1>1, <2>1 DEF QueueInv, TypeOK, Straight, Listed
    <2>4. \A q \in Syncs : u \in todo'[q] => pending'[u] # NoFile
      BY <1>1, <1>2, <2>1 DEF QueueInv, TypeOK, Straight
    <2>5. \A q \in Syncs : AtWork(q, u)' => InHand(q, u)'
      BY <1>1, <2>1, <2>2 DEF QueueInv, TypeOK, Straight, InHand, Settled
    <2> QED BY <1>1, <2>1, <2>3, <2>4, <2>5 DEF Straight, Settled
  <1>5. \A q \in Syncs : pc'[q] = "publish" => held'[q] \in Jobs
    BY <1>1 DEF QueueInv, TypeOK
  <1> QED BY <1>3, <1>4, <1>5 DEF QueueInv

\* What run p does at u's job leaves the other users as they are.
LEMMA OthersStay ==
  ASSUME QueueInv, NEW p \in Syncs, NEW u \in Users, IsNext(p, u),
         NEW v \in Users \ crossed, v # u,
         UNCHANGED <<pending[v], done[v], server[v], wanted[v]>>,
         \A q \in Syncs : q # p => UNCHANGED <<pc[q], todo[q], held[q], left[q]>>,
         \/ pc'[p] \in {"off", "next"} /\ todo'[p] \subseteq todo[p]
         \/ todo'[p] = todo[p]
  PROVE  Straight(v)'
  <1>1. ~AtWork(p, v)'
    <2>1. CASE pc'[p] \in {"off", "next"}
      BY <2>1 DEF AtWork
    <2>2. CASE todo'[p] = todo[p]
      BY <2>2, OneNext DEF AtWork, IsNext, QueueInv
    <2> QED BY <2>1, <2>2
  <1>2. \A q \in Syncs : /\ v \in todo'[q] => v \in todo[q]
                         /\ AtWork(q, v)' => /\ AtWork(q, v)
                                             /\ UNCHANGED <<pc[q], held[q], left[q]>>
    BY <1>1 DEF AtWork, IsNext
  <1> QED BY <1>2, Untouched DEF QueueInv

\* The run at an uncrossed user's job is the only one that has it listed.
LEMMA AloneAt ==
  ASSUME QueueInv, NEW p \in Syncs, NEW u \in Users \ crossed, IsNext(p, u)
  PROVE  /\ Straight(u) /\ pending[u] \in Jobs /\ pending[u] = wanted[u]
         /\ \A q \in Syncs : q # p => u \notin todo[q]
  <1>1. Straight(u) /\ pending[u] # NoFile
    BY DEF QueueInv, Straight, IsNext
  <1> QED BY <1>1 DEF QueueInv, TypeOK, Straight, IsNext

LEMMA LoadKeeps ==
  ASSUME QueueInv, NEW p \in Syncs, NEW u \in Users, Load(p, u) PROVE QueueInv'
  <1> USE DEF Load
  <1>1. TypeOK'
    BY JobRooms DEF QueueInv, TypeOK, Files
  <1>2. ASSUME NEW v \in Users \ crossed, v # u PROVE Straight(v)'
    BY <1>2, OthersStay DEF QueueInv, TypeOK
  <1>3. ASSUME u \notin crossed PROVE Straight(u)'
    <2>1. /\ Straight(u) /\ pending[u] \in Jobs
          /\ \A q \in Syncs : q # p => u \notin todo[q]
      BY <1>3, AloneAt
    <2>2. \A q \in Syncs : AtWork(q, u)' => q = p
      BY <2>1 DEF AtWork, IsNext
    <2>3. InHand(p, u)'
      BY <2>1 DEF InHand, Settled, QueueInv, TypeOK
    <2> QED BY <2>1, <2>2, <2>3 DEF Straight, Settled
  <1>4. \A q \in Syncs : pc'[q] = "publish" => held'[q] \in Jobs
    BY DEF QueueInv, TypeOK
  <1> QED BY <1>1, <1>2, <1>3, <1>4 DEF QueueInv

LEMMA RoomKeeps ==
  ASSUME QueueInv, NEW p \in Syncs, NEW u \in Users, NEW r \in Rooms,
         PublishRoom(p, u, r) \/ RetractRoom(p, u, r)
  PROVE  QueueInv'
  <1>1. /\ pc[p] = "publish" /\ IsNext(p, u) /\ r \in left[p]
        /\ left' = [left EXCEPT ![p] = left[p] \ {r}]
        /\ UNCHANGED <<pending, done, pc, todo, held, wanted, crossed, jobs>>
        /\ \/ r \in held[p].sel /\ server' = [server EXCEPT ![u] = server[u] \cup {r}]
           \/ r \notin held[p].sel /\ server' = [server EXCEPT ![u] = server[u] \ {r}]
    BY DEF PublishRoom, RetractRoom
  <1>2. TypeOK'
    BY <1>1 DEF QueueInv, TypeOK
  <1>3. ASSUME NEW v \in Users \ crossed, v # u PROVE Straight(v)'
    BY <1>1, <1>3, OthersStay DEF QueueInv, TypeOK
  <1>4. ASSUME u \notin crossed PROVE Straight(u)'
    <2>1. /\ Straight(u) /\ pending[u] \in Jobs
          /\ \A q \in Syncs : q # p => u \notin todo[q]
      BY <1>1, <1>4, AloneAt
    <2>2. \A q \in Syncs : AtWork(q, u)' => q = p
      BY <1>1, <2>1 DEF AtWork, IsNext
    <2>3. InHand(p, u)
      BY <1>1, <2>1 DEF Straight, AtWork
    <2>4. InHand(p, u)'
      BY <1>1, <2>1, <2>3, JobRooms DEF InHand, Settled, QueueInv, TypeOK
    <2>5. pending[u] # NoFile
      BY <2>1, BookmarkConstants
    <2> QED BY <1>1, <2>1, <2>2, <2>4, <2>5 DEF Straight
  <1>5. \A q \in Syncs : pc'[q] = "publish" => held'[q] \in Jobs
    BY <1>1 DEF QueueInv
  <1> QED BY <1>1, <1>2, <1>3, <1>4, <1>5 DEF QueueInv

LEMMA FileDoneKeeps ==
  ASSUME QueueInv, NEW p \in Syncs, NEW u \in Users, FileDone(p, u) PROVE QueueInv'
  <1> USE DEF FileDone
  <1>1. TypeOK'
    BY DEF QueueInv, TypeOK
  <1>2. ASSUME NEW v \in Users \ crossed, v # u PROVE Straight(v)'
    BY <1>2, OthersStay DEF QueueInv, TypeOK
  <1>3. ASSUME u \notin crossed PROVE Straight(u)'
    <2>1. /\ Straight(u) /\ pending[u] \in Jobs /\ pending[u] = wanted[u]
          /\ \A q \in Syncs : q # p => u \notin todo[q]
      BY <1>3, AloneAt
    <2>2. pending[u] # NoFile
      BY <2>1, BookmarkConstants
    <2>3. \A q \in Syncs : AtWork(q, u)' => q = p
      BY <2>1 DEF AtWork, IsNext
    <2>4. InHand(p, u)
      BY <2>1 DEF Straight, AtWork
    <2>5. InHand(p, u)'
      BY <2>4 DEF InHand, Settled, QueueInv, TypeOK
    <2> QED BY <2>1, <2>2, <2>3, <2>5 DEF Straight
  <1>4. \A q \in Syncs : pc'[q] = "publish" => held'[q] \in Jobs
    BY DEF QueueInv, TypeOK
  <1> QED BY <1>1, <1>2, <1>3, <1>4 DEF QueueInv

LEMMA UnlinkKeeps ==
  ASSUME QueueInv, NEW p \in Syncs, NEW u \in Users, Unlink(p, u) PROVE QueueInv'
  <1> USE DEF Unlink, Dismissed
  <1>1. TypeOK'
    BY DEF QueueInv, TypeOK, Files
  <1>2. ASSUME NEW v \in Users \ crossed, v # u PROVE Straight(v)'
    <2>1. pc'[p] \in {"off", "next"} /\ todo'[p] \subseteq todo[p]
      BY DEF QueueInv, TypeOK
    <2> QED BY <1>2, <2>1, OthersStay DEF QueueInv, TypeOK
  <1>3. ASSUME u \notin crossed PROVE Straight(u)'
    <2>1. /\ Straight(u) /\ pending[u] \in Jobs /\ pending[u] = wanted[u]
          /\ \A q \in Syncs : q # p => u \notin todo[q]
      BY <1>3, AloneAt
    <2>2. \A q \in Syncs : u \notin todo'[q]
      BY <2>1 DEF QueueInv, TypeOK
    <2>3. InHand(p, u)
      BY <2>1 DEF Straight, AtWork
    <2>4. done[u] = wanted[u] /\ Settled(u, done[u], done[u].avail)
      BY <2>1, <2>3 DEF InHand
    <2>5. pending'[u] = NoFile /\ wanted[u] # NoFile
      BY <2>1, BookmarkConstants DEF QueueInv, TypeOK
    <2> QED BY <2>2, <2>4, <2>5 DEF Straight, Settled, AtWork, IsNext
  <1>4. \A q \in Syncs : pc'[q] = "publish" => held'[q] \in Jobs
    BY DEF QueueInv, TypeOK
  <1> QED BY <1>1, <1>2, <1>3, <1>4 DEF QueueInv

LEMMA FailKeeps ==
  ASSUME QueueInv, NEW p \in Syncs, Fail(p) PROVE QueueInv'
  <1> USE DEF Fail
  <1>1. TypeOK'
    BY DEF QueueInv, TypeOK
  <1>2. ASSUME NEW u \in Users \ crossed PROVE Straight(u)'
    <2>1. \A q \in Syncs : AtWork(q, u)' => AtWork(q, u)
      BY DEF QueueInv, TypeOK, AtWork, IsNext
    <2>2. \A q \in Syncs : AtWork(q, u)' => InHand(q, u)'
      BY <2>1 DEF QueueInv, TypeOK, Straight, InHand, Settled
    <2> QED BY <2>2 DEF QueueInv, Straight, Settled
  <1>3. \A q \in Syncs : pc'[q] = "publish" => held'[q] \in Jobs
    BY DEF QueueInv, TypeOK
  <1> QED BY <1>1, <1>2, <1>3 DEF QueueInv

LEMMA ReadAgainKeeps ==
  ASSUME QueueInv, NEW p \in Syncs, NEW u \in Users, ReadAgain(p, u) PROVE QueueInv'
  <1> USE DEF ReadAgain
  <1>1. TypeOK'
    BY DEF QueueInv, TypeOK, Files
  <1>2. ASSUME NEW v \in Users \ crossed, v # u PROVE Straight(v)'
    BY <1>2, OthersStay DEF QueueInv, TypeOK
  <1>3. ASSUME u \notin crossed PROVE Straight(u)'
    <2>1. /\ Straight(u) /\ pending[u] \in Jobs
          /\ \A q \in Syncs : q # p => u \notin todo[q]
      BY <1>3, AloneAt
    <2>2. \A q \in Syncs : AtWork(q, u)' => q = p
      BY <2>1 DEF AtWork, IsNext
    <2>3. InHand(p, u)'
      BY <2>1, BookmarkConstants DEF InHand, QueueInv, TypeOK
    <2> QED BY <2>1, <2>2, <2>3 DEF Straight, Settled
  <1>4. \A q \in Syncs : pc'[q] = "publish" => held'[q] \in Jobs
    BY DEF QueueInv, TypeOK
  <1> QED BY <1>1, <1>2, <1>3, <1>4 DEF QueueInv

LEMMA WriteBackKeeps ==
  ASSUME QueueInv, NEW p \in Syncs, NEW u \in Users, WriteBack(p, u) PROVE QueueInv'
  <1> USE DEF WriteBack, Dismissed
  <1>1. TypeOK'
    BY DEF QueueInv, TypeOK, Files
  <1>2. ASSUME NEW v \in Users \ crossed, v # u PROVE Straight(v)'
    <2>1. pc'[p] \in {"off", "next"} /\ todo'[p] \subseteq todo[p]
      BY DEF QueueInv, TypeOK
    <2> QED BY <1>2, <2>1, OthersStay DEF QueueInv, TypeOK
  <1>3. ASSUME u \notin crossed PROVE Straight(u)'
    <2>1. /\ Straight(u) /\ pending[u] \in Jobs
          /\ \A q \in Syncs : q # p => u \notin todo[q]
      BY <1>3, AloneAt
    <2>2. \A q \in Syncs : u \notin todo'[q]
      BY <2>1 DEF QueueInv, TypeOK
    <2>3. InHand(p, u)
      BY <2>1 DEF Straight, AtWork
    <2>4. pending'[u] = pending[u]
      BY <2>3 DEF InHand, QueueInv, TypeOK
    <2> QED BY <2>1, <2>2, <2>4 DEF Straight, Settled, AtWork, IsNext
  <1>4. \A q \in Syncs : pc'[q] = "publish" => held'[q] \in Jobs
    BY DEF QueueInv, TypeOK
  <1> QED BY <1>1, <1>2, <1>3, <1>4 DEF QueueInv

LEMMA KillKeeps ==
  ASSUME QueueInv, NEW p \in Syncs, Kill(p) PROVE QueueInv'
  <1> USE DEF Kill
  <1>1. TypeOK'
    BY DEF QueueInv, TypeOK, Files
  <1>2. ASSUME NEW u \in Users \ crossed PROVE Straight(u)'
    <2>1. \A q \in Syncs : /\ u \in todo'[q] => u \in todo[q]
                           /\ AtWork(q, u)' => /\ AtWork(q, u)
                                               /\ UNCHANGED <<pc[q], held[q], left[q]>>
      BY DEF QueueInv, TypeOK, AtWork, IsNext
    <2> QED BY <2>1, Untouched DEF QueueInv
  <1>3. \A q \in Syncs : pc'[q] = "publish" => held'[q] \in Jobs
    BY DEF QueueInv, TypeOK
  <1> QED BY <1>1, <1>2, <1>3 DEF QueueInv

LEMMA QueueStep == QueueInv /\ [Next]_vars => QueueInv'
  <1> SUFFICES ASSUME QueueInv, [Next]_vars PROVE QueueInv'
    OBVIOUS
  <1>1. ASSUME NEW u \in Users, NEW j \in Jobs, Enqueue(u, j) PROVE QueueInv'
    BY <1>1, EnqueueKeeps
  <1>2. ASSUME NEW p \in Syncs, List(p) \/ Fail(p) \/ Kill(p) PROVE QueueInv'
    BY <1>2, ListKeeps, FailKeeps, KillKeeps
  <1>3. ASSUME NEW p \in Syncs, NEW u \in Users, Sync(p, u) PROVE QueueInv'
    <2>1. CASE Load(p, u) \/ FileDone(p, u) \/ Unlink(p, u)
      BY <2>1, LoadKeeps, FileDoneKeeps, UnlinkKeeps
    <2>2. CASE ReadAgain(p, u) \/ WriteBack(p, u)
      BY <2>2, ReadAgainKeeps, WriteBackKeeps
    <2>3. CASE \E r \in Rooms : PublishRoom(p, u, r) \/ RetractRoom(p, u, r)
      BY <2>3, RoomKeeps
    <2> QED BY <1>3, <2>1, <2>2, <2>3 DEF Sync
  <1>4. CASE UNCHANGED vars
    BY <1>4 DEF vars, QueueInv, TypeOK, Straight, InHand, Settled, AtWork, IsNext
  <1> QED BY <1>1, <1>2, <1>3, <1>4 DEF Next

-----------------------------------------------------------------------------
(* The queue keeps its invariant: enqueue_user_bookmarks and every step of *)
(* sync_pending_bookmark_jobs, by any number of runs, and their kills.     *)
THEOREM QueueSafe == Spec => []QueueInv
  BY QueueInit, QueueStep, PTL DEF Spec

(* Every file, and what every run has read, is a job, a husk or nothing.   *)
THEOREM BookmarksTyped == Spec => []TypeOK
  <1>1. QueueInv => TypeOK
    BY DEF QueueInv
  <1> QED BY <1>1, QueueSafe, PTL

(* The job last enqueued is pending or done: sync_bookmark_job unlinks and *)
(* sync_pending_bookmark_jobs writes back only what it was at work on.     *)
THEOREM LastJobKept == Spec => []LatestKept
  <1>1. QueueInv => LatestKept
    BY DEF QueueInv, Straight, LatestKept
  <1> QED BY <1>1, QueueSafe, PTL

(* A job filed under done/ is on the server, the other rooms it names are  *)
(* not: session_start finished with all of them.                           *)
THEOREM DoneIsOnServer == Spec => []ServerAsDone
  <1>1. QueueInv => ServerAsDone
    <2> SUFFICES ASSUME QueueInv, NEW u \in Users \ crossed,
                        done[u] # NoFile, pending[u] = NoFile
                 PROVE  server[u] \cap done[u].avail = done[u].sel
      BY DEF ServerAsDone
    <2>1. Straight(u) /\ done[u] \in Jobs
      BY DEF QueueInv, TypeOK
    <2>2. Settled(u, done[u], done[u].avail)
      BY <2>1 DEF Straight
    <2>3. done[u].sel \subseteq done[u].avail
      BY <2>1, JobRooms
    <2> QED BY <2>2, <2>3 DEF Settled
  <1> QED BY <1>1, QueueSafe, PTL

(* A job no run can ever publish is left only by runs that crossed: the    *)
(* write-back of sync_pending_bookmark_jobs finds the file it failed on.   *)
THEOREM HusksCross == Spec => []HusksFromCrossing
  <1>1. QueueInv => HusksFromCrossing
    BY BookmarkConstants DEF QueueInv, TypeOK, Straight, HusksFromCrossing
  <1> QED BY <1>1, QueueSafe, PTL
=============================================================================
