--------------------------- MODULE OnboardingProofs ---------------------------
(***************************************************************************)
(* Whatever the users, groups, rows and threads: the stores of a user      *)
(* agree once nobody is at work on the user.                               *)
(***************************************************************************)
EXTENDS Onboarding, TLAPS

Resting == {"idle", "queued", "next", "report"}

Requests == [at : Places, kind : Kinds, user : Users \cup {NoUser},
             given : BOOLEAN, update : BOOLEAN, origin : Origins,
             groups : SUBSET Groups, pw : Nat, keep : Nat,
             left : SUBSET Groups, alone : BOOLEAN]

(* Where a request of each kind can be, and what it then has.              *)
Placed(r) ==
  /\ (r.user = NoUser) <=> (r.at \in Resting)
  /\ r.at = "look" => r.kind # "none" /\ r.pw = 0
  /\ r.at \in {"wipe", "sweep", "unjoin", "drop"} => r.kind = "delete"
  /\ r.at \in {"ensure", "add", "passwd", "groups", "join", "found", "confirm"}
       => r.kind \in {"create", "row"}
  /\ r.at \in {"merge", "draft", "install"} => r.kind \in {"create", "row", "identity"}
  /\ r.at = "leave" => r.kind \in {"create", "row", "delete"} /\ r.left \cap r.groups = {}
  /\ r.at \in {"join", "found"} => r.left \subseteq r.groups
  /\ r.at = "card" => r.kind \in {"create", "row", "card"}
  /\ r.at \in {"add", "passwd"} => r.pw # 0
  /\ r.kind \in {"create", "row"} => r.origin = "taks"
  /\ r.kind = "delete" => r.groups = {}

\* A job serves a row of its file, and a thread runs only for a job there is.
JobPlaced(j) ==
  /\ req[j].at \notin {"idle", "queued", "next"} => job[j].row < Len(Rows)
  /\ job[j].state = "none" => req[j].at = "idle"

Base ==
  /\ TypeOK
  /\ \A t \in Threads : Placed(req[t])
  /\ \A j \in Jobs : JobPlaced(j)

-----------------------------------------------------------------------------
(* The types.                                                              *)

LEMMA RowTyped ==
  ASSUME NEW i \in 1 .. Len(Rows)
  PROVE  Rows[i] \in [user : Users, given : BOOLEAN, groups : SUBSET Groups]
  <1> DEFINE R == [user : Users, given : BOOLEAN, groups : SUBSET Groups]
  <1>1. Rows \in Seq(R)
    BY RowAssumption
  <1> HIDE DEF R
  <1>2. Rows[i] \in R
    BY <1>1
  <1> QED BY <1>2 DEF R

LEMMA LenRows == Len(Rows) \in Nat
  BY RowAssumption

LEMMA FreeTyped ==
  /\ Free \in Requests /\ Placed(Free)
  /\ Free.user = NoUser /\ Free.kind = "none" /\ Free.pw = 0
  BY UserAssumption DEF Free, Requests, Placed, Places, Kinds, Origins, Resting

\* The loops over groups keep everything else of the request.
Same(q, r) ==
  /\ q.user = r.user /\ q.kind = r.kind /\ q.origin = r.origin /\ q.groups = r.groups
  /\ q.pw = r.pw /\ q.keep = r.keep /\ q.alone = r.alone

\* A request that is elsewhere, or has other groups left.
Moved(r, a) == [r EXCEPT !.at = a]
LeftWith(r, l) == [r EXCEPT !.left = l]
MovedWith(r, a, l) == [r EXCEPT !.at = a, !.left = l]

LEMMA MovedTyped ==
  ASSUME NEW r \in Requests, NEW a \in Places
  PROVE  /\ Moved(r, a) \in Requests
         /\ Moved(r, a).at = a /\ Moved(r, a).left = r.left
         /\ Same(Moved(r, a), r)
  BY DEF Moved, Requests, Same

LEMMA LeftWithTyped ==
  ASSUME NEW r \in Requests, NEW l \in SUBSET Groups
  PROVE  /\ LeftWith(r, l) \in Requests
         /\ LeftWith(r, l).at = r.at /\ LeftWith(r, l).left = l
         /\ Same(LeftWith(r, l), r)
  BY DEF LeftWith, Requests, Same

LEMMA MovedWithTyped ==
  ASSUME NEW r \in Requests, NEW a \in Places, NEW l \in SUBSET Groups
  PROVE  /\ MovedWith(r, a, l) \in Requests
         /\ MovedWith(r, a, l).at = a /\ MovedWith(r, a, l).left = l
         /\ Same(MovedWith(r, a, l), r)
  BY DEF MovedWith, Requests, Same

LEMMA PlacesThere ==
  {"leave", "join", "found", "draft", "next", "queued"} \subseteq Places
  BY DEF Places

LEMMA BaseInit == Init => Base
  <1> SUFFICES ASSUME Init PROVE Base
    OBVIOUS
  <1>2. TypeOK
    BY FreeTyped, LenRows, BoundAssumption
    DEF Init, TypeOK, Requests, Placed, Resting, JobStates
  <1> QED BY <1>2, FreeTyped DEF Init, Base, JobPlaced, Threads, Free

\* A request's thread turns to r, and nothing else of the threads changes.
Turns(t, r) ==
  /\ req' = [req EXCEPT ![t] = r]
  /\ r \in Requests /\ Placed(r)
  /\ t \in Jobs => r.at \notin {"idle", "queued", "next"}

StoresTyped ==
  /\ entry \subseteq Users /\ pw \in [Users -> Nat]
  /\ members \in [Groups -> SUBSET Users]
  /\ ident \in [Users -> Nat] /\ draft \in [Users -> Nat \cup {NoDraft}]
  /\ cards \subseteq Users
  /\ issued \in Nat /\ faults \in 0 .. MaxFaults
  /\ unsure \subseteq Users /\ loose \subseteq Users
  /\ granted \in [Users -> SUBSET Groups] /\ clung \in [Users -> SUBSET Groups]

LEMMA TurnKeeps ==
  ASSUME Base, NEW t \in Threads, req[t].at \notin {"idle", "queued", "next"},
         NEW r, Turns(t, r), StoresTyped', UNCHANGED <<job, ops, cut>>
  PROVE  Base'
  <1>1. req \in [Threads -> Requests] /\ req' \in [Threads -> Requests]
    BY DEF Base, TypeOK, Turns, Requests
  <1>2. \A s \in Threads : Placed(req'[s])
    BY <1>1 DEF Base, Turns
  <1>3. TypeOK'
    BY <1>1, <1>2 DEF Base, TypeOK, StoresTyped, Placed, Requests, Resting
  <1>4. \A j \in Jobs : JobPlaced(j)'
    BY <1>1 DEF Base, Turns, JobPlaced, Threads
  <1> QED BY <1>2, <1>3, <1>4 DEF Base

LEMMA RestTyped ==
  ASSUME Base, NEW t \in Threads
  PROVE  /\ Rest(t) \in Requests /\ Placed(Rest(t))
         /\ t \in Jobs => Rest(t).at \notin {"idle", "queued", "next"}
  <1> DEFINE a == IF t \in Jobs THEN "report" ELSE "idle"
             b == req[t].update
  <1>1. a \in {"report", "idle"} /\ (t \in Jobs => a = "report") /\ b \in BOOLEAN
    BY DEF Base, TypeOK
  <1>2. Rest(t) = [Free EXCEPT !.at = a, !.update = b]
    BY DEF Rest
  <1> HIDE DEF a, b
  <1>3. Rest(t) \in Requests
    BY <1>1, <1>2, FreeTyped DEF Requests, Places
  <1>4. Placed(Rest(t)) /\ Rest(t).at = a
    BY <1>1, <1>2, FreeTyped DEF Placed, Requests, Resting
  <1> QED BY <1>1, <1>3, <1>4

LEMMA LookBase ==
  ASSUME Base, NEW t \in Threads, Look(t) PROVE Base'
  <1>1. PICK up \in BOOLEAN : /\ req[t].at = "look" /\ Call(up)
                              /\ LookWrite(t, up) \/ LookKnown(t, up)
                              /\ Count(up)
                              /\ UNCHANGED <<files, ldap, loose, granted, clung, cut, job, ops>>
    BY DEF Look
  <1>2. req[t] \in Requests /\ Placed(req[t])
    BY DEF Base, TypeOK, Requests
  <1>3. StoresTyped'
    <2>1. issued' \in Nat /\ UNCHANGED unsure
      BY <1>1 DEF Base, TypeOK, LookWrite, LookKnown, Refuse
    <2>2. faults' \in 0 .. MaxFaults
      BY <1>1, BoundAssumption DEF Base, TypeOK, Count, Call
    <2> QED BY <1>1, <2>1, <2>2 DEF Base, TypeOK, StoresTyped, files, ldap
  <1>4. \E r : Turns(t, r)
    <2>1. CASE req' = [req EXCEPT ![t] = Rest(t)]
      BY <2>1, RestTyped DEF Turns
    <2>2. CASE LookWrite(t, up) /\ req' # [req EXCEPT ![t] = Rest(t)]
      <3> DEFINE p == IF req[t].given \/ ~Found(t, up) THEN issued + 1 ELSE 0
                 r == [req[t] EXCEPT !.at = "ensure", !.given = FALSE, !.pw = p]
      <3>1. req' = [req EXCEPT ![t] = r]
        BY <2>2 DEF LookWrite
      <3>2. p \in Nat
        BY DEF Base, TypeOK
      <3> HIDE DEF p
      <3>3. r \in Requests
        BY <1>2, <3>2 DEF Requests, Places
      <3>4. Placed(r)
        BY <1>1, <1>2, <2>2 DEF Requests, Placed, LookWrite, Resting
      <3>5. r.at = "ensure"
        BY <1>2 DEF Requests
      <3> HIDE DEF r
      <3> QED BY <3>1, <3>3, <3>4, <3>5 DEF Turns
    <2>3. CASE LookKnown(t, up) /\ req' # [req EXCEPT ![t] = Rest(t)]
      <3> DEFINE p == IF req[t].kind = "identity" /\ req[t].given THEN issued + 1 ELSE 0
                 place == CASE req[t].kind = "identity" -> "merge"
                            [] req[t].kind = "card"     -> "card"
                            [] req[t].kind = "delete"   -> "wipe"
                 r == [req[t] EXCEPT !.at = place, !.given = FALSE, !.pw = p]
      <3>1. req' = [req EXCEPT ![t] = r]
        BY <2>3 DEF LookKnown, Refuse
      <3>2. p \in Nat
        BY DEF Base, TypeOK
      <3>3. \/ place = "merge" /\ req[t].kind = "identity"
            \/ place = "card" /\ req[t].kind = "card"
            \/ place = "wipe" /\ req[t].kind = "delete"
        BY <2>3 DEF LookKnown
      <3> HIDE DEF place, p
      <3>4. r \in Requests
        BY <1>2, <3>2, <3>3 DEF Requests, Places
      <3>5. Placed(r)
        BY <1>1, <1>2, <3>3 DEF Requests, Placed, Resting
      <3>6. r.at = place
        BY <1>2 DEF Requests
      <3> HIDE DEF r
      <3> QED BY <3>1, <3>3, <3>4, <3>5, <3>6 DEF Turns
    <2> QED BY <1>1, <2>1, <2>2, <2>3
  <1> QED BY <1>1, <1>3, <1>4, TurnKeeps

\* The ways a thread moves.
LEMMA GoTurns ==
  ASSUME Base, NEW t \in Threads, NEW place \in Places \ {"idle", "queued", "next"},
         Placed([req[t] EXCEPT !.at = place]), Go(t, place)
  PROVE  \E r : Turns(t, r)
  <1> DEFINE r == [req[t] EXCEPT !.at = place]
  <1>1. req' = [req EXCEPT ![t] = r]
    BY DEF Go
  <1>2. req[t] \in Requests
    BY DEF Base, TypeOK, Requests
  <1>3. r = Moved(req[t], place)
    BY DEF Moved
  <1> HIDE DEF r
  <1>4. r \in Requests /\ r.at = place
    BY <1>2, <1>3, MovedTyped
  <1> QED BY <1>1, <1>4 DEF Turns, r

LEMMA RestTurns ==
  ASSUME Base, NEW t \in Threads, req' = [req EXCEPT ![t] = Rest(t)]
  PROVE  Turns(t, Rest(t))
  BY RestTyped DEF Turns

LEMMA OnwardTyped ==
  ASSUME NEW r \in Requests, Placed(r), r.at \in {"leave", "join"}
  PROVE  /\ Onward(r) \in Requests /\ Placed(Onward(r))
         /\ Same(Onward(r), r)
         /\ r.left # {} => Onward(r).at = r.at /\ Onward(r).left = r.left
         /\ r.left = {} /\ r.kind = "delete" => Onward(r).at = "drop"
         /\ r.left = {} /\ r.kind # "delete" =>
              \/ Onward(r).at = "confirm" /\ (r.at = "leave" => r.groups = {})
              \/ r.at = "leave" /\ Onward(r).at = "join" /\ Onward(r).left = r.groups
  <1> DEFINE m == [r EXCEPT !.at = IF r.kind = "delete" THEN "drop" ELSE "join",
                            !.left = r.groups]
  <1>1. m \in Requests /\ m.left = r.groups /\ Same(m, r)
        /\ m.at = IF r.kind = "delete" THEN "drop" ELSE "join"
    BY DEF Requests, Places, Same
  <1>2. Placed(m) \/ r.at # "leave"
    BY <1>1 DEF Placed, Requests, Resting, Same
  <1> HIDE DEF m
  <1> DEFINE n == IF r.at = "leave" /\ r.left = {} THEN m ELSE r
  <1>3. Onward(r) = IF n.at = "join" /\ n.left = {} THEN [n EXCEPT !.at = "confirm"] ELSE n
    BY DEF Onward, m
  <1>4. n \in Requests /\ Placed(n) /\ (n = m \/ n = r)
    BY <1>1, <1>2
  <1>5. Same(n, r)
    BY <1>1 DEF Same
  <1>6. ~(r.at = "leave" /\ r.left = {}) => n = r
    OBVIOUS
  <1>7. r.at = "leave" /\ r.left = {} => n = m
    OBVIOUS
  <1> HIDE DEF n
  <1>8. CASE n.at = "join" /\ n.left = {}
    <2>1. Onward(r) = [n EXCEPT !.at = "confirm"]
      BY <1>3, <1>8
    <2>2. /\ Onward(r) \in Requests /\ Onward(r).at = "confirm"
          /\ Same(Onward(r), n)
      BY <2>1, <1>4 DEF Requests, Places, Same
    <2>3. Placed(Onward(r))
      BY <2>2, <1>4, <1>8 DEF Placed, Resting, Same
    <2> QED BY <2>2, <2>3, <1>1, <1>5, <1>6, <1>7, <1>8 DEF Placed, Same
  <1>9. CASE ~(n.at = "join" /\ n.left = {})
    <2>1. Onward(r) = n
      BY <1>3, <1>9
    <2> QED BY <2>1, <1>1, <1>4, <1>5, <1>6, <1>7, <1>9 DEF Placed, Same
  <1> QED BY <1>8, <1>9

\* What every one of those steps leaves typed.
LEMMA CallTyped ==
  ASSUME Base, NEW up \in BOOLEAN, Call(up), Count(up) PROVE faults' \in 0 .. MaxFaults
  BY BoundAssumption DEF Base, TypeOK, Count, Call

LEMMA UserTyped ==
  ASSUME Base, NEW t \in Threads
  PROVE  /\ req[t] \in Requests /\ Placed(req[t])
         /\ req[t].at \notin Resting => req[t].user \in Users
  BY DEF Base, TypeOK, Requests, Placed

LEMMA BreakTurns ==
  ASSUME Base, NEW t \in Threads, req[t].at \notin Resting, Break(t)
  PROVE  Turns(t, Rest(t)) /\ unsure' \subseteq Users
  BY RestTurns, UserTyped DEF Break, Base, TypeOK

LEMMA FinishTurns ==
  ASSUME Base, NEW t \in Threads, req[t].at \notin Resting, Finish(t)
  PROVE  Turns(t, Rest(t)) /\ unsure' \subseteq Users
  BY RestTurns, UserTyped DEF Finish, Base, TypeOK

LEMMA EnsureBase ==
  ASSUME Base, NEW t \in Threads, Ensure(t) PROVE Base'
  <1>1. PICK up \in BOOLEAN :
          /\ req[t].at = "ensure" /\ Call(up) /\ Count(up)
          /\ \/ Go(t, "passwd") /\ req[t].pw # 0 /\ UNCHANGED unsure
             \/ Go(t, "groups") /\ UNCHANGED unsure
             \/ Go(t, "add") /\ req[t].pw # 0 /\ UNCHANGED unsure
             \/ Break(t)
          /\ UNCHANGED <<files, ldap, loose, granted, clung, cut, job, issued, ops>>
    BY DEF Ensure
  <1>2. unsure' \subseteq Users
    BY <1>1, BreakTurns DEF Base, TypeOK, Resting
  <1>3. \A place \in {"passwd", "groups", "add"} :
          (place = "groups" \/ req[t].pw # 0) => Placed([req[t] EXCEPT !.at = place])
    BY <1>1, UserTyped DEF Placed, Requests, Resting
  <1>4. \E r : Turns(t, r)
    BY <1>1, <1>3, GoTurns, BreakTurns DEF Places, Resting
  <1> QED BY <1>1, <1>2, <1>4, CallTyped, TurnKeeps
       DEF StoresTyped, Base, TypeOK, files, ldap

LEMMA AddBase ==
  ASSUME Base, NEW t \in Threads, Add(t) PROVE Base'
  <1>1. PICK up \in BOOLEAN :
          /\ req[t].at = "add" /\ Call(up) /\ Count(up)
          /\ \/ /\ entry' = entry \cup {req[t].user}
                /\ Go(t, "passwd") /\ UNCHANGED unsure
             \/ Break(t) /\ UNCHANGED entry
          /\ UNCHANGED <<files, pw, members, loose, granted, clung, cut, job, issued, ops>>
    BY DEF Add
  <1>2. unsure' \subseteq Users /\ entry' \subseteq Users
    BY <1>1, BreakTurns, UserTyped DEF Base, TypeOK, Resting
  <1>3. Placed([req[t] EXCEPT !.at = "passwd"])
    BY <1>1, UserTyped DEF Placed, Requests, Resting
  <1>4. \E r : Turns(t, r)
    BY <1>1, <1>3, GoTurns, BreakTurns DEF Places, Resting
  <1> QED BY <1>1, <1>2, <1>4, CallTyped, TurnKeeps DEF StoresTyped, Base, TypeOK, files

LEMMA PasswdBase ==
  ASSUME Base, NEW t \in Threads, Passwd(t) PROVE Base'
  <1>1. PICK up \in BOOLEAN :
          /\ req[t].at = "passwd" /\ Call(up) /\ Count(up)
          /\ \/ /\ pw' = [pw EXCEPT ![req[t].user] = req[t].pw]
                /\ Go(t, "groups") /\ UNCHANGED unsure
             \/ Break(t) /\ UNCHANGED pw
          /\ UNCHANGED <<files, entry, members, loose, granted, clung, cut, job, issued, ops>>
    BY DEF Passwd
  <1>2. unsure' \subseteq Users /\ pw' \in [Users -> Nat]
    <2>1. req[t].pw \in Nat
      BY UserTyped DEF Requests
    <2> QED BY <1>1, <2>1, BreakTurns DEF Base, TypeOK, Resting
  <1>3. Placed([req[t] EXCEPT !.at = "groups"])
    BY <1>1, UserTyped DEF Placed, Requests, Resting
  <1>4. \E r : Turns(t, r)
    BY <1>1, <1>3, GoTurns, BreakTurns DEF Places, Resting
  <1> QED BY <1>1, <1>2, <1>4, CallTyped, TurnKeeps DEF StoresTyped, Base, TypeOK, files

LEMMA ListGroupsBase ==
  ASSUME Base, NEW t \in Threads, ListGroups(t) PROVE Base'
  <1> DEFINE u == req[t].user
             left == GroupsOf(u) \ req[t].groups
  <1>1. PICK up \in BOOLEAN :
          /\ req[t].at \in {"groups", "unjoin"} /\ Call(up) /\ Count(up)
          /\ req' = [req EXCEPT ![t] = Onward([req[t] EXCEPT !.at = "leave",
                                  !.left = IF up THEN left ELSE {}])]
          /\ granted' = [granted EXCEPT ![u] = req[t].groups]
          /\ clung' = [clung EXCEPT ![u] = IF up THEN {} ELSE left]
          /\ UNCHANGED <<files, ldap, unsure, loose, cut, job, issued, ops>>
    BY DEF ListGroups
  <1> DEFINE l == IF up THEN left ELSE {}
             m == [req[t] EXCEPT !.at = "leave", !.left = l]
  <1>2. l \subseteq Groups /\ l \cap req[t].groups = {} /\ left \subseteq Groups
    BY DEF GroupsOf
  <1> HIDE DEF l, left
  <1>3. m \in Requests /\ Placed(m) /\ m.at = "leave"
    <2>0. m = MovedWith(req[t], "leave", l)
      BY DEF MovedWith
    <2> HIDE DEF m
    <2>1. m \in Requests /\ m.at = "leave" /\ m.left = l /\ Same(m, req[t])
      BY <1>2, <2>0, UserTyped, PlacesThere, MovedWithTyped
    <2>2. Placed(m)
      BY <1>1, <1>2, <2>1, UserTyped DEF Placed, Resting, Same
    <2> QED BY <2>1, <2>2
  <1> HIDE DEF m
  <1>4. Turns(t, Onward(m))
    BY <1>1, <1>3, OnwardTyped DEF Turns, m, l
  <1>5. granted' \in [Users -> SUBSET Groups] /\ clung' \in [Users -> SUBSET Groups]
    BY <1>1, <1>2, UserTyped DEF Base, TypeOK, Requests
  <1> QED BY <1>1, <1>4, <1>5, CallTyped, TurnKeeps DEF StoresTyped, Base, TypeOK, files, ldap

LEMMA LeaveBase ==
  ASSUME Base, NEW t \in Threads, Leave(t) PROVE Base'
  <1> DEFINE u == req[t].user
  <1>1. PICK up \in BOOLEAN, g \in req[t].left :
          /\ req[t].at = "leave" /\ Call(up) /\ Count(up)
          /\ members' = [members EXCEPT ![g] = IF up /\ members[g] # {u} THEN @ \ {u} ELSE @]
          /\ clung' = [clung EXCEPT ![u] = IF up /\ members[g] # {u} THEN @ ELSE @ \cup {g}]
          /\ req' = [req EXCEPT ![t] = Onward([req[t] EXCEPT !.left = req[t].left \ {g}])]
          /\ UNCHANGED <<files, entry, pw, unsure, loose, granted, cut, job, issued, ops>>
    BY DEF Leave
  <1> DEFINE m == [req[t] EXCEPT !.left = req[t].left \ {g}]
  <1>2. g \in Groups
    BY UserTyped DEF Requests
  <1>3. m \in Requests /\ Placed(m) /\ m.at = "leave"
    <2>0. m = LeftWith(req[t], req[t].left \ {g}) /\ req[t].left \ {g} \in SUBSET Groups
      BY UserTyped DEF LeftWith, Requests
    <2> HIDE DEF m
    <2>1. m \in Requests /\ m.at = "leave" /\ m.left = req[t].left \ {g} /\ Same(m, req[t])
      BY <1>1, <2>0, UserTyped, LeftWithTyped
    <2>2. Placed(m)
      BY <1>1, <2>1, UserTyped DEF Placed, Resting, Same
    <2> QED BY <2>1, <2>2
  <1> HIDE DEF m
  <1>4. Turns(t, Onward(m))
    BY <1>1, <1>3, OnwardTyped DEF Turns, m
  <1>5. members' \in [Groups -> SUBSET Users] /\ clung' \in [Users -> SUBSET Groups]
    BY <1>1, <1>2 DEF Base, TypeOK
  <1> QED BY <1>1, <1>4, <1>5, CallTyped, TurnKeeps DEF StoresTyped, Base, TypeOK, files

LEMMA JoinBase ==
  ASSUME Base, NEW t \in Threads, Join(t) PROVE Base'
  <1>1. PICK up \in BOOLEAN, g \in req[t].left :
          /\ req[t].at = "join" /\ Call(up) /\ Count(up)
          /\ \/ Break(t) /\ UNCHANGED members
             \/ Go(t, "found") /\ UNCHANGED <<members, unsure>>
             \/ /\ members' = [members EXCEPT ![g] = @ \cup {req[t].user}]
                /\ req' = [req EXCEPT ![t] = Onward([req[t] EXCEPT !.left = req[t].left \ {g}])]
                /\ UNCHANGED unsure
          /\ UNCHANGED <<files, entry, pw, loose, granted, clung, cut, job, issued, ops>>
    BY DEF Join, Go
  <1> DEFINE m == [req[t] EXCEPT !.left = req[t].left \ {g}]
  <1>2. m \in Requests /\ Placed(m) /\ m.at = "join" /\ Placed([req[t] EXCEPT !.at = "found"])
    <2>0. m = LeftWith(req[t], req[t].left \ {g}) /\ req[t].left \ {g} \in SUBSET Groups
      BY UserTyped DEF LeftWith, Requests
    <2> HIDE DEF m
    <2>1. m \in Requests /\ m.at = "join" /\ m.left = req[t].left \ {g} /\ Same(m, req[t])
      BY <1>1, <2>0, UserTyped, LeftWithTyped
    <2>2. Placed(m)
      BY <1>1, <2>1, UserTyped DEF Placed, Resting, Same
    <2>3. Moved(req[t], "found").at = "found" /\ Moved(req[t], "found").left = req[t].left
          /\ Same(Moved(req[t], "found"), req[t])
      BY UserTyped, PlacesThere, MovedTyped
    <2>4. Placed(Moved(req[t], "found"))
      BY <1>1, <2>3, UserTyped DEF Placed, Resting, Same
    <2> QED BY <2>1, <2>2, <2>4 DEF Moved
  <1>3. \E r : Turns(t, r)
    <2> HIDE DEF m
    <2>1. CASE req' = [req EXCEPT ![t] = Onward(m)]
      <3>1. Turns(t, Onward(m))
        BY <2>1, <1>2, OnwardTyped DEF Turns
      <3> QED BY <3>1
    <2> QED BY <1>1, <1>2, <2>1, GoTurns, BreakTurns DEF Places, Resting, m
  <1>4. members' \in [Groups -> SUBSET Users] /\ unsure' \subseteq Users
    <2>1. g \in Groups /\ req[t].user \in Users /\ req[t].at \notin Resting
      BY <1>1, UserTyped DEF Requests, Resting
    <2>2. unsure' \subseteq Users
      BY <1>1, <2>1, BreakTurns DEF Base, TypeOK
    <2>3. \E ms \in SUBSET Users : members' \in {members, [members EXCEPT ![g] = ms]}
      <3>1. members[g] \cup {req[t].user} \in SUBSET Users
        BY <2>1 DEF Base, TypeOK
      <3> QED BY <1>1, <3>1
    <2>4. members' \in [Groups -> SUBSET Users]
      BY <2>1, <2>3 DEF Base, TypeOK
    <2> QED BY <2>2, <2>4
  <1> QED BY <1>1, <1>3, <1>4, CallTyped, TurnKeeps DEF StoresTyped, Base, TypeOK, files

LEMMA FoundGroupBase ==
  ASSUME Base, NEW t \in Threads, FoundGroup(t) PROVE Base'
  <1>1. PICK g \in req[t].left :
          /\ req[t].at = "found"
          /\ \/ Break(t) /\ UNCHANGED members
             \/ /\ members' = [members EXCEPT ![g] = {req[t].user}]
                /\ req' = [req EXCEPT ![t] = Onward([req[t] EXCEPT !.at = "join",
                                                     !.left = req[t].left \ {g}])]
                /\ UNCHANGED unsure
          /\ UNCHANGED <<files, entry, pw, loose, granted, clung, cut, job, issued, ops, faults>>
    BY DEF FoundGroup
  <1> DEFINE m == [req[t] EXCEPT !.at = "join", !.left = req[t].left \ {g}]
  <1>2. m \in Requests /\ Placed(m) /\ m.at = "join"
    <2>0. m = MovedWith(req[t], "join", req[t].left \ {g})
          /\ req[t].left \ {g} \in SUBSET Groups
      BY UserTyped DEF MovedWith, Requests
    <2> HIDE DEF m
    <2>1. m \in Requests /\ m.at = "join" /\ m.left = req[t].left \ {g} /\ Same(m, req[t])
      BY <2>0, UserTyped, PlacesThere, MovedWithTyped
    <2>2. Placed(m)
      BY <1>1, <2>1, UserTyped DEF Placed, Resting, Same
    <2> QED BY <2>1, <2>2
  <1>3. \E r : Turns(t, r)
    <2> HIDE DEF m
    <2>1. CASE req' = [req EXCEPT ![t] = Onward(m)]
      <3>1. Turns(t, Onward(m))
        BY <2>1, <1>2, OnwardTyped DEF Turns
      <3> QED BY <3>1
    <2> QED BY <1>1, <2>1, BreakTurns DEF Resting, m
  <1>4. members' \in [Groups -> SUBSET Users] /\ unsure' \subseteq Users
    <2>1. g \in Groups /\ req[t].user \in Users /\ req[t].at \notin Resting
      BY <1>1, UserTyped DEF Requests, Resting
    <2>2. unsure' \subseteq Users
      BY <1>1, <2>1, BreakTurns DEF Base, TypeOK
    <2>3. \E ms \in SUBSET Users : members' \in {members, [members EXCEPT ![g] = ms]}
      <3>1. {req[t].user} \in SUBSET Users
        BY <2>1 DEF Base, TypeOK
      <3> QED BY <1>1, <3>1
    <2>4. members' \in [Groups -> SUBSET Users]
      BY <2>1, <2>3 DEF Base, TypeOK
    <2> QED BY <2>2, <2>4
  <1> QED BY <1>1, <1>3, <1>4, TurnKeeps DEF StoresTyped, Base, TypeOK, files

LEMMA ConfirmBase ==
  ASSUME Base, NEW t \in Threads, Confirm(t) PROVE Base'
  <1>1. PICK up \in BOOLEAN :
          /\ req[t].at = "confirm" /\ Call(up) /\ Count(up)
          /\ (Go(t, "merge") /\ UNCHANGED unsure) \/ Break(t)
          /\ UNCHANGED <<files, ldap, loose, granted, clung, cut, job, issued, ops>>
    BY DEF Confirm
  <1>2. unsure' \subseteq Users
    BY <1>1, BreakTurns DEF Base, TypeOK, Resting
  <1>3. Placed([req[t] EXCEPT !.at = "merge"])
    BY <1>1, UserTyped DEF Placed, Requests, Resting
  <1>4. \E r : Turns(t, r)
    BY <1>1, <1>3, GoTurns, BreakTurns DEF Places, Resting
  <1> QED BY <1>1, <1>2, <1>4, CallTyped, TurnKeeps DEF StoresTyped, Base, TypeOK, files, ldap

LEMMA MergeBase ==
  ASSUME Base, NEW t \in Threads, Merge(t) PROVE Base'
  <1>1. /\ req[t].at = "merge"
        /\ req' = [req EXCEPT ![t] = [req[t] EXCEPT !.keep = Known(t), !.at = "draft"]]
        /\ UNCHANGED <<files, ldap, ghosts, job, issued, ops, faults>>
    BY DEF Merge
  <1>2. Known(t) \in Nat
    BY <1>1, UserTyped DEF Known, Requests, Base, TypeOK, Resting
  <1> DEFINE r == [req[t] EXCEPT !.keep = Known(t), !.at = "draft"]
  <1>3. r \in Requests /\ Placed(r) /\ r.at = "draft"
    <2>1. r \in Requests /\ r.at = "draft" /\ r.user = req[t].user /\ r.kind = req[t].kind
          /\ r.origin = req[t].origin /\ r.groups = req[t].groups
      <3>1. req[t] \in Requests /\ "draft" \in Places
        BY UserTyped, PlacesThere
      <3> QED BY <1>2, <3>1 DEF Requests
    <2> HIDE DEF r
    <2>2. Placed(r)
      BY <1>1, <2>1, UserTyped DEF Placed, Resting
    <2> QED BY <2>1, <2>2
  <1>4. Turns(t, r)
    BY <1>1, <1>3 DEF Turns
  <1> QED BY <1>1, <1>4, TurnKeeps DEF StoresTyped, Base, TypeOK, files, ldap, ghosts

LEMMA DraftBase ==
  ASSUME Base, NEW t \in Threads, Draft(t) PROVE Base'
  <1>1. /\ req[t].at = "draft" /\ Go(t, "install")
        /\ draft' = [draft EXCEPT ![req[t].user] = req[t].keep]
        /\ UNCHANGED <<ident, cards, ldap, ghosts, job, issued, ops, faults>>
    BY DEF Draft
  <1>2. Placed([req[t] EXCEPT !.at = "install"])
    BY <1>1, UserTyped DEF Placed, Requests, Resting
  <1>3. \E r : Turns(t, r)
    BY <1>1, <1>2, GoTurns DEF Places
  <1>4. draft' \in [Users -> Nat \cup {NoDraft}]
    BY <1>1, UserTyped DEF Base, TypeOK, Requests
  <1> QED BY <1>1, <1>3, <1>4, TurnKeeps DEF StoresTyped, Base, TypeOK, ldap, ghosts

LEMMA InstallBase ==
  ASSUME Base, NEW t \in Threads, Install(t) PROVE Base'
  <1> DEFINE u == req[t].user
  <1>1. /\ req[t].at = "install"
        /\ \/ Break(t) /\ UNCHANGED <<ident, draft>>
           \/ /\ draft[u] # NoDraft
              /\ ident' = [ident EXCEPT ![u] = draft[u]]
              /\ draft' = [draft EXCEPT ![u] = NoDraft]
              /\ \/ req' = [req EXCEPT ![t] = Rest(t)]
                 \/ req[t].kind # "identity" /\ Go(t, "card")
              /\ unsure' \in {unsure, unsure \cup {u}}
        /\ UNCHANGED <<cards, ldap, loose, granted, clung, cut, job, issued, ops, faults>>
    BY DEF Install
  <1>2. u \in Users
    BY <1>1, UserTyped DEF Resting
  <1>3. req[t].kind # "identity" => Placed([req[t] EXCEPT !.at = "card"])
    BY <1>1, UserTyped DEF Placed, Requests, Resting
  <1>4. \E r : Turns(t, r)
    BY <1>1, <1>3, GoTurns, RestTurns, BreakTurns DEF Places, Resting
  <1>5. /\ ident' \in [Users -> Nat] /\ draft' \in [Users -> Nat \cup {NoDraft}]
        /\ unsure' \subseteq Users
    BY <1>1, <1>2, BreakTurns DEF Base, TypeOK, Resting
  <1> QED BY <1>1, <1>4, <1>5, TurnKeeps DEF StoresTyped, Base, TypeOK, ldap

LEMMA CardBase ==
  ASSUME Base, NEW t \in Threads, Card(t) PROVE Base'
  <1>1. req[t].at \notin Resting
    BY DEF Card, Resting
  <1>2. Turns(t, Rest(t)) /\ unsure' \subseteq Users
    BY <1>1, FinishTurns DEF Card
  <1>3. cards' \subseteq Users
    BY <1>1, UserTyped DEF Card, Base, TypeOK
  <1> QED BY <1>1, <1>2, <1>3, TurnKeeps DEF Card, StoresTyped, Base, TypeOK, ldap, Resting

LEMMA WipeBase ==
  ASSUME Base, NEW t \in Threads, Wipe(t) PROVE Base'
  <1>1. req[t].at = "wipe"
    BY DEF Wipe
  <1>2. Placed([req[t] EXCEPT !.at = "sweep"])
    BY <1>1, UserTyped DEF Placed, Requests, Resting
  <1>3. \E r : Turns(t, r)
    BY <1>1, <1>2, GoTurns DEF Places, Wipe
  <1> QED BY <1>1, <1>3, TurnKeeps DEF Wipe, StoresTyped, Base, TypeOK, ldap, ghosts

LEMMA SweepBase ==
  ASSUME Base, NEW t \in Threads, Sweep(t) PROVE Base'
  <1>1. req[t].at = "sweep"
    BY DEF Sweep
  <1>2. Placed([req[t] EXCEPT !.at = "unjoin"])
    BY <1>1, UserTyped DEF Placed, Requests, Resting
  <1>3. \E r : Turns(t, r)
    BY <1>1, <1>2, GoTurns DEF Places, Sweep
  <1> QED BY <1>1, <1>3, TurnKeeps DEF Sweep, StoresTyped, Base, TypeOK, ldap, ghosts

LEMMA DropBase ==
  ASSUME Base, NEW t \in Threads, Drop(t) PROVE Base'
  <1>1. PICK up \in BOOLEAN :
          /\ req[t].at = "drop" /\ Call(up) /\ Count(up)
          /\ \/ /\ entry' = entry \ {req[t].user}
                /\ pw' = [pw EXCEPT ![req[t].user] = 0]
                /\ Finish(t)
             \/ Break(t) /\ UNCHANGED <<entry, pw>>
          /\ UNCHANGED <<files, members, loose, granted, clung, cut, job, issued, ops>>
    BY DEF Drop
  <1>2. Turns(t, Rest(t)) /\ unsure' \subseteq Users
    BY <1>1, FinishTurns, BreakTurns DEF Resting
  <1>3. entry \subseteq Users /\ pw \in [Users -> Nat]
    BY DEF Base, TypeOK
  <1>5. entry' \subseteq Users /\ pw' \in [Users -> Nat]
    BY <1>1, <1>3
  <1>4. StoresTyped'
    BY <1>1, <1>2, <1>5, CallTyped DEF StoresTyped, Base, TypeOK, files
  <1> QED BY <1>1, <1>2, <1>4, TurnKeeps

LEMMA RequestStepBase ==
  ASSUME Base, NEW t \in Threads, RequestStep(t) PROVE Base'
  BY LookBase, EnsureBase, AddBase, PasswdBase, ListGroupsBase, LeaveBase, JoinBase,
     FoundGroupBase, ConfirmBase, MergeBase, DraftBase, InstallBase, CardBase, WipeBase,
     SweepBase, DropBase
  DEF RequestStep

\* A request that comes in.
Fresh(r) ==
  /\ r \in Requests /\ r.user \in Users /\ r.kind # "none" /\ r.pw = 0
  /\ r.kind \in {"create", "row"} => r.origin = "taks"
  /\ r.kind = "delete" => r.groups = {}

LEMMA BeginTurns ==
  ASSUME Base, NEW t \in Threads, NEW r, Fresh(r), Begin(t, r)
  PROVE  /\ req' \in [Threads -> Requests]
         /\ \A s \in Threads : Placed(req'[s])
         /\ req'[t] = [r EXCEPT !.at = "look", !.alone = (On(r.user) = {})]
         /\ \A s \in Threads \ {t} :
              req'[s] = IF req[s].user = r.user THEN [req[s] EXCEPT !.alone = FALSE]
                        ELSE req[s]
         /\ req'[t].at = "look"
         /\ \A s \in Threads \ {t} : req'[s].at = req[s].at
         /\ unsure' \subseteq Users /\ loose' \subseteq Users
  <1> DEFINE m == [r EXCEPT !.at = "look", !.alone = ~(On(r.user) # {})]
             f(s) == [req[s] EXCEPT !.alone = FALSE]
  <1>1. m \in Requests /\ Placed(m) /\ m.at = "look"
    BY UserAssumption DEF Fresh, Requests, Placed, Resting, Places
  <1>2. ASSUME NEW s \in Threads PROVE f(s) \in Requests /\ Placed(f(s)) /\ f(s).at = req[s].at
    BY UserTyped DEF Requests, Placed, Resting
  <1>3. req' = [s \in Threads |-> IF s = t THEN m
                                 ELSE IF s \in On(r.user) THEN f(s) ELSE req[s]]
    BY DEF Begin
  <1>4. m = [r EXCEPT !.at = "look", !.alone = (On(r.user) = {})]
    OBVIOUS
  <1>5. unsure' \subseteq Users /\ loose' \subseteq Users
    BY DEF Begin, Fresh, Base, TypeOK
  <1> HIDE DEF m
  <1>6. \A s \in Threads \ {t} :
          req'[s] = IF req[s].user = r.user THEN f(s) ELSE req[s]
    BY <1>3 DEF On
  <1>7. req'[t] = m
    BY <1>3
  <1> HIDE DEF f
  <1>8. req' \in [Threads -> Requests] /\ \A s \in Threads : Placed(req'[s])
    BY <1>1, <1>2, <1>3, UserTyped
  <1> QED BY <1>1, <1>2, <1>4, <1>5, <1>6, <1>7, <1>8 DEF f

LEMMA BeginBase ==
  ASSUME Base, NEW t \in Threads, NEW r, Fresh(r), Begin(t, r),
         t \in Jobs => job[t].row < Len(Rows) /\ job[t].state # "none",
         UNCHANGED <<files, ldap, granted, clung, cut, job, issued, faults>>,
         ops' \in 0 .. MaxOps
  PROVE  Base'
  <1>1. \A s \in Threads \ {t} : req'[s].at = req[s].at
    BY BeginTurns
  <1>2. req'[t].at = "look"
    BY BeginTurns
  <1>3. TypeOK'
    BY BeginTurns DEF Base, TypeOK, files, ldap, Requests, Placed, Resting
  <1>4. \A j \in Jobs : JobPlaced(j)'
    BY <1>1, <1>2 DEF Base, JobPlaced, Threads
  <1> QED BY <1>3, <1>4, BeginTurns DEF Base

LEMMA BeginEffect ==
  ASSUME Base, NEW t \in Threads, NEW r, Fresh(r), Begin(t, r)
  PROVE  /\ req'[t].at = "look" /\ req'[t].user = r.user /\ req'[t].kind = r.kind
         /\ req'[t].pw = 0 /\ req'[t].origin = r.origin /\ req'[t].groups = r.groups
         /\ req'[t].alone <=> On(r.user) = {}
         /\ \A s \in Threads \ {t} :
              /\ req'[s].user = req[s].user /\ req'[s].kind = req[s].kind
              /\ req'[s].at = req[s].at /\ req'[s].pw = req[s].pw
              /\ req'[s].keep = req[s].keep /\ req'[s].origin = req[s].origin
              /\ req'[s].groups = req[s].groups /\ req'[s].left = req[s].left
              /\ req'[s].alone <=> req[s].alone /\ req[s].user # r.user
  <1> DEFINE m == [r EXCEPT !.at = "look", !.alone = ~(On(r.user) # {})]
             f(s) == [req[s] EXCEPT !.alone = FALSE]
  <1>1. req' = [s \in Threads |-> IF s = t THEN m
                                 ELSE IF s \in On(r.user) THEN f(s) ELSE req[s]]
    BY DEF Begin
  <1>2. /\ m.at = "look" /\ m.user = r.user /\ m.kind = r.kind /\ m.pw = 0
        /\ m.origin = r.origin /\ m.groups = r.groups
        /\ m.alone <=> On(r.user) = {}
    BY DEF Fresh, Requests
  <1>3. ASSUME NEW s \in Threads
        PROVE  /\ f(s).user = req[s].user /\ f(s).kind = req[s].kind
               /\ f(s).at = req[s].at /\ f(s).pw = req[s].pw
               /\ f(s).keep = req[s].keep /\ f(s).origin = req[s].origin
               /\ f(s).groups = req[s].groups /\ f(s).left = req[s].left
               /\ f(s).alone = FALSE
    BY UserTyped DEF Requests
  <1>4. \A s \in Threads : s \in On(r.user) <=> req[s].user = r.user
    BY DEF On
  <1> HIDE DEF m, f
  <1> QED BY <1>1, <1>2, <1>3, <1>4

LEMMA AskFresh ==
  ASSUME NEW u \in Users
  PROVE  /\ \A given \in BOOLEAN, gs \in SUBSET Groups :
              Fresh([Free EXCEPT !.kind = "create", !.user = u, !.given = given,
                                 !.groups = gs])
         /\ \A given \in BOOLEAN, o \in Origins :
              Fresh([Free EXCEPT !.kind = "identity", !.user = u, !.given = given,
                                 !.origin = o])
         /\ Fresh([Free EXCEPT !.kind = "card", !.user = u])
         /\ Fresh([Free EXCEPT !.kind = "delete", !.user = u])
         /\ \A given, update \in BOOLEAN, gs \in SUBSET Groups :
              Fresh([Free EXCEPT !.kind = "row", !.user = u, !.given = given,
                                 !.groups = gs, !.update = update])
  <1>1. Free.origin = "taks" /\ Free.groups = {}
    BY DEF Free
  <1>2. ASSUME NEW given \in BOOLEAN, NEW gs \in SUBSET Groups
        PROVE  Fresh([Free EXCEPT !.kind = "create", !.user = u, !.given = given,
                                  !.groups = gs])
    BY <1>1, FreeTyped DEF Fresh, Requests, Kinds
  <1>3. ASSUME NEW given \in BOOLEAN, NEW o \in Origins
        PROVE  Fresh([Free EXCEPT !.kind = "identity", !.user = u, !.given = given,
                                  !.origin = o])
    BY <1>1, FreeTyped DEF Fresh, Requests, Kinds
  <1>4. /\ Fresh([Free EXCEPT !.kind = "card", !.user = u])
        /\ Fresh([Free EXCEPT !.kind = "delete", !.user = u])
    BY <1>1, FreeTyped DEF Fresh, Requests, Kinds
  <1>5. ASSUME NEW given \in BOOLEAN, NEW update \in BOOLEAN, NEW gs \in SUBSET Groups
        PROVE  Fresh([Free EXCEPT !.kind = "row", !.user = u, !.given = given,
                                  !.groups = gs, !.update = update])
    BY <1>1, FreeTyped DEF Fresh, Requests, Kinds
  <1> QED BY <1>2, <1>3, <1>4, <1>5

LEMMA AskBase ==
  ASSUME Base, NEW t \in Pool, NEW r, Fresh(r), Ask(t, r) PROVE Base'
  <1>1. ops' \in 0 .. MaxOps
    BY BoundAssumption DEF Ask, Base, TypeOK
  <1> QED BY <1>1, BeginBase, ThreadAssumption DEF Ask, Threads

LEMMA JobsBase ==
  ASSUME Base, NEW j \in Jobs,
         CreateJob(j) \/ Run(j) \/ NextRow(j) \/ Report(j) \/ EndJob(j)
  PROVE  Base'
  <1>1. ASSUME NEW r \in Requests, req' = [req EXCEPT ![j] = r], Placed(r),
               job' \in [Jobs -> [state : JobStates, row : 0 .. Len(Rows)]],
               \A i \in Jobs \ {j} : job'[i] = job[i],
               r.at \in {"idle", "queued", "next"},
               job'[j].state = "none" => r.at = "idle",
               UNCHANGED <<files, ldap, ghosts, issued, faults>>, ops' \in 0 .. MaxOps
        PROVE  Base'
    <2>1. req \in [Threads -> Requests] /\ req' \in [Threads -> Requests]
      BY <1>1 DEF Base, TypeOK, Requests
    <2>2. \A s \in Threads : Placed(req'[s])
      BY <1>1, <2>1 DEF Base
    <2>3. \A i \in Jobs : JobPlaced(i)'
      BY <1>1, <2>1 DEF Base, JobPlaced, Threads
    <2>4. TypeOK'
      BY <1>1, <2>1, <2>2 DEF Base, TypeOK, Requests, Placed, Resting, files, ldap, ghosts
    <2> QED BY <2>2, <2>3, <2>4 DEF Base
  <1>2. j \in Threads /\ job \in [Jobs -> [state : JobStates, row : 0 .. Len(Rows)]]
    BY DEF Threads, Base, TypeOK
  <1>3. CASE CreateJob(j)
    <2>1. PICK update \in BOOLEAN :
            /\ ops < MaxOps /\ ops' = ops + 1
            /\ job' = [job EXCEPT ![j].state = "queued"]
            /\ req' = [req EXCEPT ![j] = [Free EXCEPT !.at = "queued", !.update = update]]
            /\ UNCHANGED <<files, ldap, ghosts, issued, faults>>
      BY <1>3 DEF CreateJob
    <2> DEFINE r == [Free EXCEPT !.at = "queued", !.update = update]
    <2>2. r \in Requests /\ Placed(r) /\ r.at = "queued"
      <3>1. r \in Requests /\ r.at = "queued" /\ r.user = NoUser /\ r.kind = "none"
        BY FreeTyped, PlacesThere DEF Requests
      <3> HIDE DEF r
      <3> QED BY <3>1 DEF Placed, Resting
    <2>3. ops' \in 0 .. MaxOps
      BY <2>1, BoundAssumption DEF Base, TypeOK
    <2> HIDE DEF r
    <2>4. job' \in [Jobs -> [state : JobStates, row : 0 .. Len(Rows)]]
          /\ job'[j].state = "queued" /\ \A i \in Jobs \ {j} : job'[i] = job[i]
      BY <2>1, <1>2 DEF JobStates
    <2> QED BY <2>1, <2>2, <2>3, <2>4, <1>1 DEF r
  <1>4. CASE Run(j)
    <2>1. PICK readable \in BOOLEAN :
            /\ req[j].at = "queued"
            /\ job' = [job EXCEPT ![j].state = IF readable THEN "running" ELSE "failed"]
            /\ IF readable THEN Go(j, "next") ELSE req' = [req EXCEPT ![j] = Free]
            /\ UNCHANGED <<files, ldap, ghosts, issued, ops, faults>>
      BY <1>4 DEF Run
    <2> DEFINE r == IF readable THEN [req[j] EXCEPT !.at = "next"] ELSE Free
    <2>2. r \in Requests /\ Placed(r) /\ r.at \in {"next", "idle"}
      <3> DEFINE m == Moved(req[j], "next")
      <3>0. r = m \/ r = Free
        BY DEF Moved
      <3> HIDE DEF m, r
      <3>1. m \in Requests /\ m.at = "next" /\ m.left = req[j].left /\ Same(m, req[j])
        BY <1>2, UserTyped, PlacesThere, MovedTyped DEF m
      <3>2. Placed(m)
        BY <1>2, <2>1, <3>1, UserTyped DEF Placed, Resting, Same
      <3>3. Free \in Requests /\ Placed(Free) /\ Free.at = "idle"
        BY FreeTyped DEF Free
      <3> QED BY <3>0, <3>1, <3>2, <3>3
    <2>3. req' = [req EXCEPT ![j] = r]
      BY <2>1 DEF Go
    <2> HIDE DEF r
    <2>4. job' \in [Jobs -> [state : JobStates, row : 0 .. Len(Rows)]]
          /\ job'[j].state # "none" /\ \A i \in Jobs \ {j} : job'[i] = job[i]
      BY <2>1, <1>2 DEF JobStates
    <2> QED BY <2>1, <2>2, <2>3, <2>4, <1>1 DEF Base, TypeOK
  <1>5. CASE NextRow(j)
    <2> DEFINE row == Rows[job[j].row + 1]
               r == [Free EXCEPT !.kind = "row", !.user = row.user, !.given = row.given,
                                 !.groups = row.groups, !.update = req[j].update]
    <2>1. /\ req[j].at = "next" /\ job[j].row < Len(Rows) /\ Begin(j, r)
          /\ UNCHANGED <<files, ldap, granted, clung, cut, job, issued, ops, faults>>
      BY <1>5 DEF NextRow
    <2>2. row \in [user : Users, given : BOOLEAN, groups : SUBSET Groups]
      BY <1>2, <2>1, RowTyped, LenRows
    <2>3. req[j].update \in BOOLEAN
      BY <1>2, UserTyped DEF Requests
    <2>4. Fresh(r)
      BY <2>2, <2>3, AskFresh
    <2>5. job[j].state # "none"
      BY <2>1 DEF Base, JobPlaced
    <2> QED BY <1>2, <2>1, <2>4, <2>5, BeginBase DEF Base, TypeOK
  <1>6. CASE Report(j)
    <2>1. req[j].at = "report" /\ job[j].row < Len(Rows) /\ job[j].state # "none"
      BY <1>6 DEF Report, Base, JobPlaced
    <2> DEFINE r == [req[j] EXCEPT !.at = "next"]
    <2>2. r \in Requests /\ Placed(r) /\ r.at = "next"
      BY <1>2, <2>1, UserTyped DEF Requests, Placed, Resting, Places
    <2>3. req' = [req EXCEPT ![j] = r] /\ UNCHANGED <<files, ldap, ghosts, issued, ops, faults>>
      BY <1>6 DEF Go, Report
    <2> HIDE DEF r
    <2>4. job' \in [Jobs -> [state : JobStates, row : 0 .. Len(Rows)]]
          /\ job'[j].state # "none" /\ \A i \in Jobs \ {j} : job'[i] = job[i]
      <3>1. job[j].row + 1 \in 0 .. Len(Rows) /\ job' = [job EXCEPT ![j].row = job[j].row + 1]
        BY <1>2, <1>6, <2>1, LenRows DEF Report
      <3> QED BY <1>2, <2>1, <3>1
    <2> QED BY <2>2, <2>3, <2>4, <1>1 DEF Base, TypeOK
  <1>7. CASE EndJob(j)
    <2>1. job' \in [Jobs -> [state : JobStates, row : 0 .. Len(Rows)]]
          /\ job'[j].state # "none" /\ \A i \in Jobs \ {j} : job'[i] = job[i]
      BY <1>7, <1>2 DEF JobStates, EndJob
    <2>2. Free.at = "idle"
      BY DEF Free
    <2> QED BY <1>7, <2>1, <2>2, <1>1, FreeTyped DEF Base, TypeOK, EndJob
  <1> QED BY <1>3, <1>4, <1>5, <1>6, <1>7

LEMMA RestartBase == ASSUME Base, Restart PROVE Base'
  <1>1. req' \in [Threads -> Requests] /\ \A s \in Threads : Placed(req'[s])
    BY FreeTyped DEF Restart
  <1>2. faults' \in 0 .. MaxFaults
    BY BoundAssumption DEF Restart, Base, TypeOK
  <1>3. TypeOK'
    BY <1>1, <1>2 DEF Restart, Base, TypeOK, Requests, Placed, Resting, files, ldap
  <1>4. \A j \in Jobs : JobPlaced(j)'
    BY DEF Restart, JobPlaced, Threads, Free
  <1> QED BY <1>1, <1>3, <1>4 DEF Base

LEMMA BaseStep == Base /\ [Next]_vars => Base'
  <1> SUFFICES ASSUME Base, [Next]_vars PROVE Base'
    OBVIOUS
  <1>1. ASSUME NEW t \in Pool, NEW u \in Asked,
               AskCreate(t, u) \/ AskIdentity(t, u) \/ AskCard(t, u) \/ AskDelete(t, u)
        PROVE  Base'
    BY <1>1, AskFresh, AskBase, UserAssumption
    DEF AskCreate, AskIdentity, AskCard, AskDelete
  <1>2. ASSUME UNCHANGED vars PROVE Base'
    BY <1>2 DEF vars, files, ldap, ghosts, Base, TypeOK, JobPlaced
  <1> QED BY <1>1, <1>2, RequestStepBase, JobsBase, RestartBase
       DEF Next, JobStep, Threads, Ended

(* The state stays well-typed, whatever the users, groups, rows and threads. *)
THEOREM OnboardingTyped == Spec => []TypeOK
  <1>1. Base => TypeOK
    BY DEF Base
  <1> QED BY <1>1, BaseInit, BaseStep, PTL DEF Spec

-----------------------------------------------------------------------------
(* What the steps do, in one place.                                        *)

Others(t) == \A s \in Threads \ {t} : req'[s] = req[s]

\* A round of the loop a ends with l left.
Looped(t, a, l) ==
  /\ Same(req'[t], req[t]) /\ Others(t)
  /\ l # {} => req'[t].at = a /\ req'[t].left = l
  /\ l = {} /\ req[t].kind = "delete" => req'[t].at = "drop"
  /\ l = {} /\ req[t].kind # "delete" =>
       \/ req'[t].at = "confirm" /\ (a = "leave" => req[t].groups = {})
       \/ a = "leave" /\ req'[t].at = "join" /\ req'[t].left = req[t].groups

Answered(t) == req'[t].user = NoUser /\ Others(t)
Gone(t, place) == req'[t].at = place /\ Same(req'[t], req[t]) /\ Others(t)

LEMMA LoopEffect ==
  ASSUME Base, NEW t \in Threads, NEW m \in Requests, Placed(m), m.at \in {"leave", "join"},
         Same(m, req[t]), req' = [req EXCEPT ![t] = Onward(m)]
  PROVE  Looped(t, m.at, m.left)
  <1>1. req'[t] = Onward(m) /\ Others(t)
    BY DEF Base, TypeOK, Others
  <1> QED BY <1>1, OnwardTyped DEF Looped, Same

LEMMA RestEffect ==
  ASSUME Base, NEW t \in Threads, req' = [req EXCEPT ![t] = Rest(t)] PROVE Answered(t)
  <1>1. Rest(t).user = NoUser
    BY FreeTyped DEF Rest, Requests
  <1> QED BY <1>1 DEF Base, TypeOK, Answered, Others

LEMMA GoEffect ==
  ASSUME Base, NEW t \in Threads, NEW place, Go(t, place) PROVE Gone(t, place)
  BY UserTyped DEF Base, TypeOK, Go, Gone, Others, Same, Requests

LEMMA ListGroupsEffect ==
  ASSUME Base, NEW t \in Threads, ListGroups(t)
  PROVE  \E l \in SUBSET Groups :
           LET u == req[t].user
               left == GroupsOf(u) \ req[t].groups
           IN  /\ req[t].at \in {"groups", "unjoin"}
               /\ \/ l = left /\ clung' = [clung EXCEPT ![u] = {}]
                  \/ l = {} /\ clung' = [clung EXCEPT ![u] = left]
               /\ granted' = [granted EXCEPT ![u] = req[t].groups]
               /\ Looped(t, "leave", l)
               /\ UNCHANGED <<files, ldap, unsure, loose, cut, job, issued, ops>>
  <1> DEFINE u == req[t].user
             left == GroupsOf(u) \ req[t].groups
  <1>1. PICK up \in BOOLEAN :
          /\ req[t].at \in {"groups", "unjoin"}
          /\ req' = [req EXCEPT ![t] = Onward([req[t] EXCEPT !.at = "leave",
                                  !.left = IF up THEN left ELSE {}])]
          /\ granted' = [granted EXCEPT ![u] = req[t].groups]
          /\ clung' = [clung EXCEPT ![u] = IF up THEN {} ELSE left]
          /\ UNCHANGED <<files, ldap, unsure, loose, cut, job, issued, ops>>
    BY DEF ListGroups
  <1> DEFINE l == IF up THEN left ELSE {}
             m == [req[t] EXCEPT !.at = "leave", !.left = l]
  <1>2. l \subseteq Groups /\ l \cap req[t].groups = {}
    BY DEF GroupsOf
  <1>3. (l = left /\ up) \/ (l = {} /\ ~up)
    OBVIOUS
  <1> HIDE DEF l, left
  <1>4. m \in Requests /\ Placed(m) /\ m.at = "leave" /\ m.left = l /\ Same(m, req[t])
    <2>0. m = MovedWith(req[t], "leave", l)
      BY DEF MovedWith
    <2> HIDE DEF m
    <2>1. m \in Requests /\ m.at = "leave" /\ m.left = l /\ Same(m, req[t])
      BY <1>2, <2>0, UserTyped, PlacesThere, MovedWithTyped
    <2>2. Placed(m)
      BY <1>1, <1>2, <2>1, UserTyped DEF Placed, Resting, Same
    <2> QED BY <2>1, <2>2
  <1> HIDE DEF m
  <1>5. Looped(t, "leave", l)
    BY <1>1, <1>4, LoopEffect DEF m, l
  <1> QED BY <1>1, <1>2, <1>3, <1>5 DEF left

LEMMA LeaveEffect ==
  ASSUME Base, NEW t \in Threads, Leave(t)
  PROVE  \E g \in req[t].left :
           LET u == req[t].user
           IN  /\ req[t].at = "leave" /\ g \in Groups
               /\ \/ members' = [members EXCEPT ![g] = @ \ {u}] /\ UNCHANGED clung
                  \/ UNCHANGED members /\ clung' = [clung EXCEPT ![u] = @ \cup {g}]
               /\ Looped(t, "leave", req[t].left \ {g})
               /\ UNCHANGED <<files, entry, pw, unsure, loose, granted, cut, job, issued, ops>>
  <1> DEFINE u == req[t].user
  <1>1. PICK up \in BOOLEAN, g \in req[t].left :
          /\ req[t].at = "leave"
          /\ members' = [members EXCEPT ![g] = IF up /\ members[g] # {u} THEN @ \ {u} ELSE @]
          /\ clung' = [clung EXCEPT ![u] = IF up /\ members[g] # {u} THEN @ ELSE @ \cup {g}]
          /\ req' = [req EXCEPT ![t] = Onward([req[t] EXCEPT !.left = req[t].left \ {g}])]
          /\ UNCHANGED <<files, entry, pw, unsure, loose, granted, cut, job, issued, ops>>
    BY DEF Leave
  <1> DEFINE m == [req[t] EXCEPT !.left = req[t].left \ {g}]
  <1>2. m \in Requests /\ Placed(m) /\ m.at = "leave" /\ m.left = req[t].left \ {g}
        /\ Same(m, req[t]) /\ g \in Groups
    BY <1>1, UserTyped DEF Placed, Requests, Resting, Places, Same
  <1>3. Looped(t, "leave", req[t].left \ {g})
    <2> HIDE DEF m
    <2> QED BY <1>1, <1>2, LoopEffect DEF m
  <1>4. \/ members' = [members EXCEPT ![g] = @ \ {u}] /\ UNCHANGED clung
        \/ UNCHANGED members /\ clung' = [clung EXCEPT ![u] = @ \cup {g}]
    BY <1>1 DEF Base, TypeOK
  <1> QED BY <1>1, <1>2, <1>3, <1>4

\* Joining a group, one there is or one that is made.
LEMMA JoinEffect ==
  ASSUME Base, NEW t \in Threads, Join(t) \/ FoundGroup(t)
  PROVE  /\ req[t].at \in {"join", "found"}
         /\ UNCHANGED <<files, entry, pw, loose, granted, clung, cut, job, issued, ops>>
         /\ \/ Break(t) /\ UNCHANGED members
            \/ Go(t, "found") /\ UNCHANGED <<members, unsure>>
            \/ \E g \in req[t].left :
                 /\ members' = [members EXCEPT ![g] = @ \cup {req[t].user}]
                 /\ g \in Groups /\ UNCHANGED unsure
                 /\ Looped(t, "join", req[t].left \ {g})
  <1>1. CASE Join(t)
    <2>1. PICK up \in BOOLEAN, g \in req[t].left :
          /\ req[t].at = "join"
          /\ \/ Break(t) /\ UNCHANGED members
             \/ Go(t, "found") /\ UNCHANGED <<members, unsure>>
             \/ /\ members' = [members EXCEPT ![g] = @ \cup {req[t].user}]
                /\ req' = [req EXCEPT ![t] = Onward([req[t] EXCEPT !.left = req[t].left \ {g}])]
                /\ UNCHANGED unsure
          /\ UNCHANGED <<files, entry, pw, loose, granted, clung, cut, job, issued, ops>>
      BY <1>1 DEF Join, Go
    <2> DEFINE m == [req[t] EXCEPT !.left = req[t].left \ {g}]
    <2>2. m \in Requests /\ Placed(m) /\ m.at = "join" /\ m.left = req[t].left \ {g}
          /\ Same(m, req[t]) /\ g \in Groups
      <3>1. req[t].left \ {g} \in SUBSET Groups /\ g \in Groups
        BY UserTyped DEF Requests
      <3>0. m = LeftWith(req[t], req[t].left \ {g})
        BY DEF LeftWith
      <3> HIDE DEF m
      <3>2. m \in Requests /\ m.at = "join" /\ m.left = req[t].left \ {g} /\ Same(m, req[t])
        BY <2>1, <3>0, <3>1, UserTyped, PlacesThere, LeftWithTyped
      <3>3. Placed(m)
        BY <2>1, <3>2, UserTyped DEF Placed, Resting, Same
      <3> QED BY <3>1, <3>2, <3>3
    <2> HIDE DEF m
    <2>3. req' = [req EXCEPT ![t] = Onward(m)] => Looped(t, "join", req[t].left \ {g})
      BY <2>2, LoopEffect
    <2> QED BY <2>1, <2>2, <2>3 DEF m
  <1>2. CASE FoundGroup(t)
    <2>1. PICK g \in req[t].left :
          /\ req[t].at = "found"
          /\ \/ Break(t) /\ UNCHANGED members
             \/ /\ members[g] = {} /\ members' = [members EXCEPT ![g] = {req[t].user}]
                /\ req' = [req EXCEPT ![t] = Onward([req[t] EXCEPT !.at = "join",
                                                     !.left = req[t].left \ {g}])]
                /\ UNCHANGED unsure
          /\ UNCHANGED <<files, entry, pw, loose, granted, clung, cut, job, issued, ops, faults>>
      BY <1>2 DEF FoundGroup
    <2> DEFINE m == [req[t] EXCEPT !.at = "join", !.left = req[t].left \ {g}]
    <2>2. m \in Requests /\ Placed(m) /\ m.at = "join" /\ m.left = req[t].left \ {g}
          /\ Same(m, req[t]) /\ g \in Groups
      <3>1. req[t].left \ {g} \in SUBSET Groups /\ g \in Groups
        BY UserTyped DEF Requests
      <3>0. m = MovedWith(req[t], "join", req[t].left \ {g})
        BY DEF MovedWith
      <3> HIDE DEF m
      <3>2. m \in Requests /\ m.at = "join" /\ m.left = req[t].left \ {g} /\ Same(m, req[t])
        BY <2>1, <3>0, <3>1, UserTyped, PlacesThere, MovedWithTyped
      <3>3. Placed(m)
        BY <2>1, <3>2, UserTyped DEF Placed, Resting, Same
      <3> QED BY <3>1, <3>2, <3>3
    <2> HIDE DEF m
    <2>3. req' = [req EXCEPT ![t] = Onward(m)] => Looped(t, "join", req[t].left \ {g})
      BY <2>2, LoopEffect
    <2>4. members[g] = {} => members[g] \cup {req[t].user} = {req[t].user}
      OBVIOUS
    <2>5. members \in [Groups -> SUBSET Users]
      BY DEF Base, TypeOK
    <2> QED BY <2>1, <2>2, <2>3, <2>4, <2>5 DEF m
  <1> QED BY <1>1, <1>2

\* The steps of a request are its own user's business, and it stays the same request.
Untouched(u) ==
  /\ (u \in entry') <=> (u \in entry)
  /\ (u \in cards') <=> (u \in cards)
  /\ (u \in unsure') <=> (u \in unsure)
  /\ pw'[u] = pw[u] /\ ident'[u] = ident[u] /\ draft'[u] = draft[u]
  /\ granted'[u] = granted[u] /\ clung'[u] = clung[u]
  /\ \A g \in Groups : (u \in members'[g]) <=> (u \in members[g])

Goes(q, r) ==
  /\ q.user = r.user /\ q.kind = r.kind /\ q.origin = r.origin
  /\ q.groups = r.groups /\ q.alone = r.alone

Acts(t) ==
  /\ Others(t) /\ (Answered(t) \/ Goes(req'[t], req[t]))
  /\ \A u \in Users : u # req[t].user => Untouched(u)
  /\ UNCHANGED loose

LEMMA AnswerEffect ==
  ASSUME Base, NEW t \in Threads, Break(t) \/ Finish(t)
  PROVE  /\ Answered(t)
         /\ \A u \in Users : u # req[t].user => ((u \in unsure') <=> (u \in unsure))
  BY RestEffect DEF Break, Finish

LEMMA LookEffect ==
  ASSUME Base, NEW t \in Threads, Look(t)
  PROVE  /\ req[t].at = "look"
         /\ UNCHANGED <<files, ldap, unsure, loose, granted, clung, cut, job, ops>>
         /\ Others(t)
         /\ \/ Answered(t)
            \/ /\ Goes(req'[t], req[t]) /\ req'[t].keep = req[t].keep
               /\ \/ req[t].kind \in {"create", "row"} /\ req'[t].at = "ensure"
                  \/ /\ req[t].user \in entry
                     /\ \/ req[t].kind = "identity" /\ req'[t].at = "merge"
                        \/ req[t].kind = "card" /\ req'[t].at = "card"
                        \/ req[t].kind = "delete" /\ req'[t].at = "wipe"
  <1>1. PICK up \in BOOLEAN :
          /\ req[t].at = "look"
          /\ LookWrite(t, up) \/ LookKnown(t, up)
          /\ UNCHANGED <<files, ldap, loose, granted, clung, cut, job, ops>>
    BY DEF Look
  <1>2. UNCHANGED unsure
    BY <1>1 DEF LookWrite, LookKnown, Refuse
  <1>3. CASE req' = [req EXCEPT ![t] = Rest(t)]
    BY <1>1, <1>2, <1>3, RestEffect DEF Answered
  <1>4. ASSUME NEW p, NEW place,
               req' = [req EXCEPT ![t].at = place, ![t].given = FALSE, ![t].pw = p]
        PROVE  /\ Others(t) /\ Goes(req'[t], req[t]) /\ req'[t].keep = req[t].keep
               /\ req'[t].at = place
    BY <1>4 DEF Base, TypeOK, Others, Goes
  <1>5. CASE LookWrite(t, up) /\ req' # [req EXCEPT ![t] = Rest(t)]
    <2>1. PICK p : req' = [req EXCEPT ![t].at = "ensure", ![t].given = FALSE, ![t].pw = p]
      BY <1>5 DEF LookWrite
    <2>2. /\ Others(t) /\ Goes(req'[t], req[t]) /\ req'[t].keep = req[t].keep
          /\ req'[t].at = "ensure"
      BY <2>1, <1>4
    <2>3. req[t].kind \in {"create", "row"}
      BY <1>5 DEF LookWrite
    <2> QED BY <1>1, <1>2, <2>2, <2>3
  <1>6. CASE LookKnown(t, up) /\ req' # [req EXCEPT ![t] = Rest(t)]
    <2>1. /\ req[t].user \in entry
          /\ \E p, place :
               /\ req' = [req EXCEPT ![t].at = place, ![t].given = FALSE, ![t].pw = p]
               /\ \/ req[t].kind = "identity" /\ place = "merge"
                  \/ req[t].kind = "card" /\ place = "card"
                  \/ req[t].kind = "delete" /\ place = "wipe"
      BY <1>6 DEF LookKnown, Refuse, Found
    <2> QED BY <1>1, <1>2, <1>4, <2>1
  <1> QED BY <1>1, <1>3, <1>5, <1>6

LEMMA StepActs == ASSUME Base, NEW t \in Threads, RequestStep(t) PROVE Acts(t)
  <1> DEFINE u == req[t].user
  <1>1. ASSUME NEW q, NEW r, Same(q, r) PROVE Goes(q, r)
    BY <1>1 DEF Same, Goes
  <1>2. ASSUME NEW place, Go(t, place) PROVE Others(t) /\ Goes(req'[t], req[t])
    BY <1>1, <1>2, GoEffect DEF Gone
  <1>3. ASSUME Break(t) \/ Finish(t) PROVE Others(t) /\ Answered(t)
    BY <1>3, AnswerEffect DEF Answered
  <1>4. ASSUME NEW a, NEW l, Looped(t, a, l) PROVE Others(t) /\ Goes(req'[t], req[t])
    BY <1>1, <1>4 DEF Looped
  <1>5. /\ pw \in [Users -> Nat] /\ members \in [Groups -> SUBSET Users]
        /\ ident \in [Users -> Nat] /\ draft \in [Users -> Nat \cup {NoDraft}]
        /\ granted \in [Users -> SUBSET Groups] /\ clung \in [Users -> SUBSET Groups]
    BY DEF Base, TypeOK
  <1>6. CASE Look(t)
    BY <1>6, LookEffect DEF Acts, Untouched, files, ldap, Answered
  <1>7. CASE Ensure(t)
    BY <1>2, <1>3, <1>7, AnswerEffect DEF Acts, Untouched, files, ldap, Ensure
  <1>8. CASE Add(t)
    BY <1>2, <1>3, <1>8, AnswerEffect DEF Acts, Untouched, files, Add
  <1>9. CASE Passwd(t)
    BY <1>2, <1>3, <1>5, <1>9, AnswerEffect DEF Acts, Untouched, files, Passwd
  <1>10. CASE ListGroups(t)
    <2>1. PICK l \in SUBSET Groups :
            /\ \E c : clung' = [clung EXCEPT ![u] = c]
            /\ granted' = [granted EXCEPT ![u] = req[t].groups]
            /\ Looped(t, "leave", l)
            /\ UNCHANGED <<files, ldap, unsure, loose, cut, job, issued, ops>>
      BY <1>10, ListGroupsEffect
    <2> QED BY <2>1, <1>4, <1>5 DEF Acts, Untouched, files, ldap
  <1>11. CASE Leave(t)
    <2>1. PICK g \in req[t].left :
            /\ g \in Groups
            /\ \/ members' = [members EXCEPT ![g] = @ \ {u}] /\ UNCHANGED clung
               \/ UNCHANGED members /\ clung' = [clung EXCEPT ![u] = @ \cup {g}]
            /\ Looped(t, "leave", req[t].left \ {g})
            /\ UNCHANGED <<files, entry, pw, unsure, loose, granted, cut, job, issued, ops>>
      BY <1>11, LeaveEffect
    <2>2. Others(t) /\ Goes(req'[t], req[t])
      BY <2>1, <1>4
    <2>3. ASSUME NEW v \in Users, v # u PROVE Untouched(v)
      BY <2>1, <2>3, <1>5 DEF Untouched, files
    <2> QED BY <2>1, <2>2, <2>3 DEF Acts
  <1>12. CASE Join(t) \/ FoundGroup(t)
    <2>1. UNCHANGED <<files, entry, pw, loose, granted, clung, cut, job, issued, ops>>
      BY <1>12, JoinEffect
    <2>2. CASE Break(t) /\ UNCHANGED members
      BY <2>1, <2>2, <1>3, AnswerEffect DEF Acts, Untouched, files
    <2>3. CASE Go(t, "found") /\ UNCHANGED <<members, unsure>>
      BY <2>1, <2>3, <1>2 DEF Acts, Untouched, files
    <2>4. ASSUME NEW g \in req[t].left, g \in Groups, UNCHANGED unsure,
                 members' = [members EXCEPT ![g] = @ \cup {u}],
                 Looped(t, "join", req[t].left \ {g})
          PROVE  Acts(t)
      <3>1. Others(t) /\ Goes(req'[t], req[t])
        BY <2>4, <1>4
      <3>2. ASSUME NEW v \in Users, v # u PROVE Untouched(v)
        BY <2>1, <2>4, <3>2, <1>5 DEF Untouched, files
      <3> QED BY <2>1, <3>1, <3>2 DEF Acts
    <2> QED BY <2>2, <2>3, <2>4, <1>12, JoinEffect
  <1>13. CASE Confirm(t)
    BY <1>2, <1>3, <1>13, AnswerEffect DEF Acts, Untouched, files, ldap, Confirm
  <1>14. CASE Merge(t)
    BY <1>14 DEF Acts, Untouched, files, ldap, ghosts, Merge, Others, Goes, Base, TypeOK
  <1>15. CASE Draft(t)
    BY <1>2, <1>5, <1>15 DEF Acts, Untouched, ldap, ghosts, Draft
  <1>16. CASE Install(t)
    <2>1. Others(t) /\ (Answered(t) \/ Goes(req'[t], req[t]))
      BY <1>2, <1>3, <1>16, RestEffect DEF Install, Answered
    <2>2. UNCHANGED <<cards, ldap, loose, granted, clung, cut, job, issued, ops>>
      BY <1>16 DEF Install
    <2>3. ASSUME NEW v \in Users, v # u PROVE Untouched(v)
      <3>1. ident'[v] = ident[v] /\ draft'[v] = draft[v]
        BY <1>5, <1>16, <2>3 DEF Install
      <3>2. (v \in unsure') <=> (v \in unsure)
        BY <1>16, <2>3 DEF Install, Break
      <3> QED BY <2>2, <3>1, <3>2 DEF Untouched, ldap
    <2> QED BY <2>1, <2>2, <2>3 DEF Acts
  <1>17. CASE Card(t)
    BY <1>3, <1>17, AnswerEffect DEF Acts, Untouched, ldap, Card
  <1>18. CASE Wipe(t)
    BY <1>2, <1>5, <1>18 DEF Acts, Untouched, ldap, ghosts, Wipe
  <1>19. CASE Sweep(t)
    BY <1>2, <1>5, <1>19 DEF Acts, Untouched, ldap, ghosts, Sweep
  <1>20. CASE Drop(t)
    BY <1>3, <1>5, <1>20, AnswerEffect DEF Acts, Untouched, files, Drop
  <1> QED BY <1>6, <1>7, <1>8, <1>9, <1>10, <1>11, <1>12, <1>13, <1>14, <1>15, <1>16,
             <1>17, <1>18, <1>19, <1>20 DEF RequestStep

-----------------------------------------------------------------------------
(* Nothing outlives an account.                                            *)

\* A request that goes on, for the user it found an account for, to write the files.
Writing(r) == r.at \in {"merge", "draft", "install", "card"}

\* A deletion that has removed the files.
Emptied(r) == r.at \in {"unjoin", "drop"} \/ (r.at = "leave" /\ r.kind = "delete")

Sole(u, t) == \A s \in Threads : req[s].user = u => s = t

KeptFor(u) ==
  /\ u \notin entry => ident[u] = 0 /\ u \notin cards
  /\ \A t \in Threads : req[t].user = u =>
       /\ req[t].kind = "delete" => Sole(u, t)
       /\ Writing(req[t]) => u \in entry
       /\ req[t].at = "sweep" \/ Emptied(req[t]) => ident[u] = 0
       /\ Emptied(req[t]) => u \notin cards

Kept == Base /\ \A u \in Users \ loose : KeptFor(u)

LEMMA KeptOther ==
  ASSUME Base, NEW t \in Threads, NEW u \in Users, u # req[t].user, KeptFor(u), Acts(t)
  PROVE  KeptFor(u)'
  <1>1. Others(t) /\ req'[t].user # u /\ Untouched(u)
    BY UserAssumption DEF Acts, Answered, Goes
  <1>2. \A s \in Threads : req'[s].user = u => s # t /\ req'[s] = req[s]
    BY <1>1 DEF Others
  <1>3. \A s \in Threads : req'[s].user = u /\ Sole(u, s) => Sole(u, s)'
    BY <1>2 DEF Sole
  <1> QED BY <1>1, <1>2, <1>3 DEF KeptFor, Untouched, Writing, Emptied

\* Nobody else has the user's account to delete, or files of the user's to find gone.
LEMMA KeptOwn ==
  ASSUME Base, NEW t \in Threads, NEW u \in Users, u = req[t].user, KeptFor(u), Acts(t),
         u \notin entry' => /\ ident'[u] = 0 /\ u \notin cards'
                            /\ u \in entry => req[t].kind = "delete",
         req'[t].user = u =>
           /\ Writing(req'[t]) => u \in entry'
           /\ req'[t].at = "sweep" \/ Emptied(req'[t]) => ident'[u] = 0
           /\ Emptied(req'[t]) => u \notin cards'
  PROVE  KeptFor(u)'
  <1>1. \A s \in Threads \ {t} : req'[s] = req[s]
    BY DEF Acts, Others
  <1>2. u # NoUser
    BY UserAssumption
  <1>3. req'[t].user = u => req'[t].kind = req[t].kind
    BY <1>2 DEF Acts, Answered, Goes
  <1>4. ASSUME NEW s \in Threads \ {t}, req[s].user = u
        PROVE  req[s].kind # "delete" /\ req[s].at # "sweep" /\ ~Emptied(req[s])
    <2>1. req[s].kind # "delete"
      BY <1>4 DEF KeptFor, Sole
    <2> QED BY <2>1, UserTyped DEF Placed, Emptied
  <1>5. ASSUME NEW s \in Threads \ {t}, req[s].user = u, Writing(req[s])
        PROVE  u \in entry'
    <2>1. u \in entry /\ req[t].kind # "delete"
      BY <1>5 DEF KeptFor, Sole
    <2> QED BY <2>1
  <1>6. req'[t].user = u /\ req'[t].kind = "delete" => Sole(u, t)'
    BY <1>1, <1>3 DEF KeptFor, Sole
  <1> QED BY <1>1, <1>4, <1>5, <1>6 DEF KeptFor, Writing, Emptied

LEMMA KeptStep ==
  ASSUME Base, NEW t \in Threads, RequestStep(t), NEW u \in Users, u = req[t].user,
         KeptFor(u)
  PROVE  KeptFor(u)'
  <1>1. u \in Users /\ u # NoUser /\ Placed(req[t]) /\ Acts(t)
    <2>1. req[t].at \notin Resting
      BY DEF RequestStep, Resting, Look, Ensure, Add, Passwd, ListGroups, Leave, Join,
             FoundGroup, Confirm, Merge, Draft, Install, Card, Wipe, Sweep, Drop
    <2> QED BY <2>1, StepActs, UserTyped, UserAssumption
  <1>2. KeptFor(u)
    OBVIOUS
  <1>3. /\ u \notin entry => ident[u] = 0 /\ u \notin cards
        /\ Writing(req[t]) => u \in entry
        /\ req[t].at = "sweep" \/ Emptied(req[t]) => ident[u] = 0
        /\ Emptied(req[t]) => u \notin cards
    BY DEF KeptFor
  <1>4. Answered(t) => req'[t].user # u
    BY <1>1 DEF Answered
  <1>5. pw \in [Users -> Nat] /\ ident \in [Users -> Nat]
    BY DEF Base, TypeOK
  \* A step that leaves the account and the files alone, to a place that says nothing.
  <1>6. ASSUME UNCHANGED <<ident, cards>>, entry \subseteq entry',
               \/ Answered(t)
               \/ ~Writing(req'[t]) /\ req'[t].at # "sweep" /\ ~Emptied(req'[t])
        PROVE  KeptFor(u)'
    BY <1>1, <1>2, <1>3, <1>4, <1>6, KeptOwn
  <1>7. ASSUME NEW place, Go(t, place) PROVE req'[t].at = place /\ req'[t].kind = req[t].kind
    BY <1>7, GoEffect DEF Gone, Same
  <1>8. ASSUME Break(t) \/ Finish(t) PROVE Answered(t)
    BY <1>8, AnswerEffect
  <1>9. CASE Look(t)
    <2>1. UNCHANGED <<ident, cards, entry>>
      BY <1>9, LookEffect DEF files, ldap
    <2>2. CASE Answered(t)
      BY <2>1, <2>2, <1>6
    <2>3. CASE u \in entry /\ req'[t].at \in {"merge", "card", "wipe"}
      BY <2>1, <2>3, <1>1, <1>2, KeptOwn DEF Emptied
    <2>4. CASE req'[t].at = "ensure"
      BY <2>1, <2>4, <1>6 DEF Writing, Emptied
    <2> QED BY <2>2, <2>3, <2>4, <1>9, LookEffect
  <1>10. CASE Ensure(t)
    BY <1>6, <1>7, <1>8, <1>10 DEF Ensure, Writing, Emptied, files, ldap
  <1>11. CASE Add(t)
    BY <1>6, <1>7, <1>8, <1>11 DEF Add, Writing, Emptied, files
  <1>12. CASE Passwd(t)
    BY <1>6, <1>7, <1>8, <1>12 DEF Passwd, Writing, Emptied, files
  <1>13. CASE ListGroups(t) \/ Leave(t)
    <2>1. PICK l : /\ req[t].at \in {"groups", "unjoin", "leave"}
                   /\ Looped(t, "leave", l) /\ UNCHANGED <<ident, cards, entry>>
      <3>1. CASE ListGroups(t)
        <4>1. PICK l \in SUBSET Groups :
                /\ req[t].at \in {"groups", "unjoin"} /\ Looped(t, "leave", l)
                /\ UNCHANGED <<files, ldap, unsure, loose, cut, job, issued, ops>>
          BY <3>1, ListGroupsEffect
        <4> QED BY <4>1 DEF files, ldap
      <3>2. CASE Leave(t)
        <4>1. PICK g \in req[t].left :
                /\ req[t].at = "leave" /\ Looped(t, "leave", req[t].left \ {g})
                /\ UNCHANGED <<files, entry, pw, unsure, loose, granted, cut, job, issued, ops>>
          BY <3>2, LeaveEffect
        <4> QED BY <4>1 DEF files
      <3> QED BY <1>13, <3>1, <3>2
    <2>2. CASE req[t].kind = "delete"
      <3>1. Emptied(req[t])
        BY <2>1, <2>2, <1>1 DEF Placed, Emptied
      <3>2. ~Writing(req'[t])
        BY <2>1, <2>2 DEF Looped, Writing
      <3> QED BY <2>1, <3>1, <3>2, <1>1, <1>2, <1>3, KeptOwn
    <2>3. CASE req[t].kind # "delete"
      <3>1. /\ req'[t].at \in {"leave", "confirm", "join"}
            /\ req'[t].kind # "delete"
        BY <2>1, <2>3 DEF Looped, Same
      <3> QED BY <2>1, <3>1, <1>6 DEF Writing, Emptied
    <2> QED BY <2>2, <2>3
  <1>14. CASE Join(t) \/ FoundGroup(t)
    <2>1. req[t].kind # "delete" /\ UNCHANGED <<ident, cards, entry>>
      BY <1>1, <1>14, JoinEffect DEF Placed, files
    <2>2. ASSUME NEW l, Looped(t, "join", l) PROVE req'[t].at \in {"join", "confirm"}
      BY <2>1, <2>2 DEF Looped
    <2>3. Answered(t) \/ req'[t].at \in {"found", "join", "confirm"}
      BY <2>2, <1>7, <1>8, <1>14, JoinEffect
    <2> QED BY <2>1, <2>3, <1>6 DEF Writing, Emptied
  <1>15. CASE Confirm(t)
    <2>1. UNCHANGED <<ident, cards, entry>>
      BY <1>15 DEF Confirm, files, ldap
    <2>2. CASE Break(t)
      BY <2>1, <2>2, <1>6, <1>8
    <2>3. CASE u \in entry /\ Go(t, "merge")
      BY <2>1, <2>3, <1>1, <1>2, <1>7, KeptOwn DEF Emptied
    <2> QED BY <2>2, <2>3, <1>15 DEF Confirm, Found
  <1>16. CASE Merge(t)
    <2>1. req'[t].at = "draft" /\ UNCHANGED <<ident, cards, entry>> /\ Writing(req[t])
      BY <1>16 DEF Merge, Base, TypeOK, files, ldap, Writing
    <2> QED BY <2>1, <1>1, <1>2, <1>3, KeptOwn DEF Emptied
  <1>17. CASE Draft(t)
    <2>1. req'[t].at = "install" /\ UNCHANGED <<ident, cards, entry>> /\ Writing(req[t])
      BY <1>7, <1>17 DEF Draft, ldap, Writing
    <2> QED BY <2>1, <1>1, <1>2, <1>3, KeptOwn DEF Emptied
  <1>18. CASE Install(t)
    <2>1. Writing(req[t]) /\ UNCHANGED entry
      BY <1>18 DEF Install, Writing, ldap
    <2>2. Answered(t) \/ req'[t].at = "card"
      BY <1>7, <1>8, <1>18, RestEffect DEF Install
    <2> QED BY <2>1, <2>2, <1>1, <1>2, <1>3, <1>4, KeptOwn DEF Emptied
  <1>19. CASE Card(t)
    <2>1. Writing(req[t]) /\ UNCHANGED entry /\ Answered(t)
      BY <1>8, <1>19 DEF Card, Writing, ldap
    <2> QED BY <2>1, <1>1, <1>2, <1>3, <1>4, KeptOwn
  <1>20. CASE Wipe(t)
    <2>1. /\ req'[t].at = "sweep" /\ ident'[u] = 0 /\ UNCHANGED <<cards, entry>>
      BY <1>1, <1>5, <1>7, <1>20 DEF Wipe, ldap
    <2> QED BY <2>1, <1>1, <1>2, <1>3, KeptOwn DEF Writing, Emptied
  <1>21. CASE Sweep(t)
    <2>1. /\ req'[t].at = "unjoin" /\ u \notin cards' /\ ident[u] = 0
          /\ UNCHANGED <<ident, entry>>
      BY <1>3, <1>7, <1>21 DEF Sweep, ldap
    <2> QED BY <2>1, <1>1, <1>2, KeptOwn DEF Writing, Emptied
  <1>22. CASE Drop(t)
    <2>1. /\ Answered(t) /\ UNCHANGED <<ident, cards>>
          /\ Emptied(req[t]) /\ req[t].kind = "delete"
      BY <1>1, <1>8, <1>22 DEF Drop, Placed, Emptied, files
    <2> QED BY <2>1, <1>1, <1>2, <1>3, <1>4, KeptOwn
  <1> QED BY <1>9, <1>10, <1>11, <1>12, <1>13, <1>14, <1>15, <1>16, <1>17, <1>18, <1>19,
             <1>20, <1>21, <1>22 DEF RequestStep

LEMMA KeptBegin ==
  ASSUME Base, NEW t \in Threads, req[t].at \in Resting, NEW r, Fresh(r), Begin(t, r),
         UNCHANGED <<ident, cards, entry>>,
         NEW u \in Users \ loose', u \in Users \ loose => KeptFor(u)
  PROVE  KeptFor(u)'
  <1>2. /\ req'[t].at = "look" /\ req'[t].user = r.user /\ req'[t].kind = r.kind
        /\ \A s \in Threads \ {t} :
             /\ req'[s].user = req[s].user /\ req'[s].kind = req[s].kind
             /\ req'[s].at = req[s].at
    BY BeginEffect
  <1>3. KeptFor(u)
    BY DEF Begin
  <1>4. r.user = u => \/ \A s \in Threads : req[s].user # u
                      \/ /\ r.kind # "delete"
                         /\ \A s \in Threads : req[s].user = u => req[s].kind # "delete"
    BY DEF Begin, On
  <1>5. \A s \in Threads : req'[s].user = u /\ req'[s].kind = "delete" => Sole(u, s)'
    BY <1>2, <1>3, <1>4 DEF KeptFor, Sole
  <1> QED BY <1>2, <1>3, <1>5 DEF KeptFor, Writing, Emptied

\* A job's thread that turns to nothing in particular.
LEMMA KeptRest ==
  ASSUME Base, NEW t \in Threads, req[t].at \in Resting, Others(t), req'[t].user = NoUser,
         UNCHANGED <<ident, cards, entry>>, NEW u \in Users, KeptFor(u)
  PROVE  KeptFor(u)'
  <1>1. \A s \in Threads : req'[s].user = u => s # t /\ req'[s] = req[s]
    BY UserAssumption DEF Others
  <1>2. \A s \in Threads : req'[s].user = u /\ Sole(u, s) => Sole(u, s)'
    BY <1>1 DEF Sole
  <1> QED BY <1>1, <1>2 DEF KeptFor, Writing, Emptied

\* A job's thread that turns to a row, or to nothing in particular.
LEMMA RowBegins ==
  ASSUME Base, NEW j \in Jobs, NextRow(j)
  PROVE  \E r : /\ j \in Threads /\ req[j].at \in Resting /\ req[j].user = NoUser
               /\ Fresh(r) /\ Begin(j, r) /\ UNCHANGED <<files, ldap, granted, clung>>
  <1> DEFINE row == Rows[job[j].row + 1]
             r == [Free EXCEPT !.kind = "row", !.user = row.user, !.given = row.given,
                               !.groups = row.groups, !.update = req[j].update]
  <1>1. j \in Threads /\ job \in [Jobs -> [state : JobStates, row : 0 .. Len(Rows)]]
    BY DEF Threads, Base, TypeOK
  <1>2. /\ req[j].at = "next" /\ job[j].row < Len(Rows) /\ Begin(j, r)
        /\ UNCHANGED <<files, ldap, granted, clung, cut, job, issued, ops, faults>>
    BY DEF NextRow
  <1>3. row \in [user : Users, given : BOOLEAN, groups : SUBSET Groups]
    BY <1>1, <1>2, RowTyped, LenRows
  <1>4. req[j].update \in BOOLEAN
    BY <1>1, UserTyped DEF Requests
  <1>5. Fresh(r)
    BY <1>3, <1>4, AskFresh
  <1>6. req[j].at \in Resting /\ req[j].user = NoUser
    BY <1>1, <1>2, UserTyped DEF Resting, Placed
  <1> HIDE DEF r
  <1> QED BY <1>1, <1>2, <1>5, <1>6

LEMMA JobRests ==
  ASSUME Base, NEW j \in Jobs, CreateJob(j) \/ Run(j) \/ Report(j) \/ EndJob(j)
  PROVE  /\ j \in Threads /\ req[j].at \in Resting /\ Others(j)
         /\ req[j].user = NoUser /\ req'[j].user = NoUser
         /\ UNCHANGED <<files, ldap, ghosts>>
  <1>1. j \in Threads /\ req \in [Threads -> Requests] /\ Placed(req[j])
    BY DEF Threads, Base, TypeOK, Requests
  <1>2. req[j].at \in Resting
    BY <1>1 DEF CreateJob, Run, Report, EndJob, Resting, Base, JobPlaced
  <1>3. req[j].user = NoUser
    BY <1>1, <1>2 DEF Placed
  <1>4. \E r \in Requests : r.user = NoUser /\ req' = [req EXCEPT ![j] = r]
    <2>1. ASSUME NEW place \in Places
          PROVE  LET r == [req[j] EXCEPT !.at = place] IN r \in Requests /\ r.user = NoUser
      BY <1>1, <1>3 DEF Requests
    <2>2. ASSUME NEW update \in BOOLEAN
          PROVE  LET r == [Free EXCEPT !.at = "queued", !.update = update]
                 IN  r \in Requests /\ r.user = NoUser
      BY FreeTyped DEF Requests, Places
    <2>3. "next" \in Places
      BY DEF Places
    <2>4. CASE CreateJob(j)
      BY <2>2, <2>4 DEF CreateJob
    <2>5. CASE Run(j) \/ Report(j) \/ EndJob(j)
      BY <2>1, <2>3, <2>5, FreeTyped DEF Run, Report, EndJob, Go
    <2> QED BY <2>4, <2>5
  <1>5. Others(j) /\ req'[j].user = NoUser
    BY <1>1, <1>4 DEF Others
  <1>6. UNCHANGED <<files, ldap, ghosts>>
    BY DEF CreateJob, Run, Report, EndJob
  <1> QED BY <1>1, <1>2, <1>3, <1>5, <1>6

LEMMA KeptInit == Init => Kept
  <1> SUFFICES ASSUME Init PROVE Kept
    OBVIOUS
  <1>1. \A t \in Threads : req[t].user = NoUser
    BY FreeTyped DEF Init
  <1>2. \A u \in Users : KeptFor(u)
    BY <1>1, UserAssumption DEF Init, KeptFor
  <1> QED BY <1>2, BaseInit DEF Kept

LEMMA KeptNext == Kept /\ [Next]_vars => Kept'
  <1> SUFFICES ASSUME Kept, [Next]_vars, NEW u \in (Users \ loose)' PROVE KeptFor(u)'
    BY BaseStep DEF Kept
  <1> USE DEF Kept
  <1>1. u \in Users
    OBVIOUS
  <1>2. ASSUME NEW t \in Threads, RequestStep(t) PROVE KeptFor(u)'
    <2>1. UNCHANGED loose /\ Acts(t)
      BY <1>2, StepActs DEF Acts
    <2>2. KeptFor(u)
      BY <2>1
    <2> QED BY <1>2, <2>1, <2>2, KeptStep, KeptOther
  <1>3. ASSUME NEW t \in Pool, NEW v \in Asked,
               AskCreate(t, v) \/ AskIdentity(t, v) \/ AskCard(t, v) \/ AskDelete(t, v)
        PROVE  KeptFor(u)'
    <2>1. PICK r : Fresh(r) /\ Ask(t, r)
      BY <1>3, AskFresh, UserAssumption DEF AskCreate, AskIdentity, AskCard, AskDelete
    <2>2. t \in Threads /\ req[t].at \in Resting /\ UNCHANGED <<ident, cards, entry>>
          /\ Begin(t, r)
      BY <2>1 DEF Ask, Threads, Resting, files, ldap
    <2> QED BY <2>1, <2>2, KeptBegin
  <1>4. ASSUME NEW j \in Jobs, NextRow(j) PROVE KeptFor(u)'
    <2>1. PICK r : /\ j \in Threads /\ req[j].at \in Resting /\ Fresh(r) /\ Begin(j, r)
                   /\ UNCHANGED <<files, ldap, granted, clung>>
      BY <1>4, RowBegins
    <2> QED BY <2>1, KeptBegin DEF files, ldap
  <1>5. ASSUME NEW j \in Jobs, CreateJob(j) \/ Run(j) \/ Report(j) \/ EndJob(j)
        PROVE  KeptFor(u)'
    <2>1. /\ j \in Threads /\ req[j].at \in Resting /\ Others(j) /\ req'[j].user = NoUser
          /\ UNCHANGED <<files, ldap, ghosts>>
      BY <1>5, JobRests
    <2> QED BY <2>1, KeptRest DEF files, ldap, ghosts
  <1>6. CASE Restart
    <2>1. \A t \in Threads : req'[t].user = NoUser
      BY <1>6, FreeTyped DEF Restart
    <2>2. UNCHANGED <<ident, cards, entry, loose>>
      BY <1>6 DEF Restart, files, ldap
    <2> QED BY <2>1, <2>2, UserAssumption DEF KeptFor
  <1>7. CASE UNCHANGED vars
    BY <1>7 DEF vars, files, ldap, ghosts, KeptFor, Sole, Writing, Emptied
  <1> QED BY <1>2, <1>3, <1>4, <1>5, <1>6, <1>7 DEF Next, JobStep, Threads, Ended

(* A user who is not in LDAP has neither a password on file nor a card, unless a  *)
(* deletion overlapped another request of the user.                              *)
THEOREM NothingOutlives == Spec => []NothingKept
  <1>1. Kept => NothingKept
    BY DEF Kept, KeptFor, NothingKept
  <1> QED BY <1>1, KeptInit, KeptNext, PTL DEF Spec
-----------------------------------------------------------------------------
(* What the operators have been told of a user.                            *)

\* A request that sets the password, and is past setting it.
Setting(r) == r.kind \in {"create", "row"} /\ r.pw # 0
Set(r) == Setting(r) /\ r.at \in {"groups", "leave", "join", "found", "confirm", "merge",
                                  "draft", "install", "card"}

\* A request that has not begun to change the password or what is on file of it.
Harmless(r) ==
  /\ Setting(r) => r.at \in {"look", "ensure", "add"}
  /\ r.kind = "delete" => r.at \in {"look", "wipe"}

\* An account (there if u is in E) with the password p, and i on file.
Agreed(u, E, p, i) == u \in E => i = p /\ p # 0

\* What the request r of u has made of the password p, and of what is on file (i)
\* and in its draft (d): of a user in U nothing is certain but that.
Filed(u, r, U, E, p, i, d) ==
  /\ u \notin U /\ Harmless(r) => Agreed(u, E, p, i)
  /\ Set(r) => p = r.pw
  /\ r.at \in {"draft", "install"} =>
       /\ Setting(r) => r.keep = r.pw
       /\ u \notin U /\ r.pw = 0 /\ r.origin = "taks" => r.keep = i
  /\ r.at = "install" => d = r.keep
  /\ Setting(r) /\ r.at = "card" => i = r.pw

\* A request that is done with the groups.
Grouped(r) ==
  \/ r.at \in {"confirm", "drop"}
  \/ r.at \in {"merge", "draft", "install", "card"} /\ r.kind \in {"create", "row"}

\* What it has made of the groups G, where g were asked for and c clung.
Joined(u, r, U, G, g, c) ==
  /\ r.at \in {"leave", "join", "found"} => g = r.groups
  /\ r.at = "leave" => G \ r.groups = r.left \cup c /\ r.left \cap c = {}
  /\ r.at \in {"join", "found"} => G \ r.groups = c /\ r.groups \ r.left \subseteq G
  /\ Grouped(r) => G = g \cup c
  /\ u \notin U /\ r.at \notin {"leave", "join", "found"} => G = g \cup c

\* The same of a user nobody is at work on.
Told(u, U, E, p, i, G, g, c) == u \notin U => Agreed(u, E, p, i) /\ G = g \cup c

\* A request that thinks it is alone is; one that is not has made the user unsure.
Lone(u) ==
  \A t \in Threads : req[t].user = u =>
    /\ req[t].alone => Sole(u, t)
    /\ u \notin unsure => req[t].alone

CertainOf(u) ==
  /\ Lone(u)
  /\ Idle(u) => Told(u, unsure, entry, pw[u], ident[u], GroupsOf(u), granted[u], clung[u])
  /\ \A t \in Threads : req[t].user = u /\ req[t].alone =>
       /\ Filed(u, req[t], unsure, entry, pw[u], ident[u], draft[u])
       /\ Joined(u, req[t], unsure, GroupsOf(u), granted[u], clung[u])

Certain == Base /\ \A u \in Users : CertainOf(u)

LEMMA CertainInit == Init => Certain
  <1> SUFFICES ASSUME Init, NEW u \in Users PROVE CertainOf(u)
    BY BaseInit DEF Certain
  <1>1. \A t \in Threads : req[t].user # u
    BY FreeTyped, UserAssumption DEF Init
  <1>2. u \notin entry /\ GroupsOf(u) = {} /\ granted[u] = {} /\ clung[u] = {}
    BY DEF Init, GroupsOf
  <1> QED BY <1>1, <1>2 DEF CertainOf, Lone, Told, Agreed

\* The steps that are none of the user's business.
LEMMA CertainAside ==
  ASSUME NEW u \in Users, CertainOf(u), Untouched(u),
         \A t \in Threads : /\ (req'[t].user = u) <=> (req[t].user = u)
                            /\ req[t].user = u => req'[t] = req[t]
  PROVE  CertainOf(u)'
  <1>1. GroupsOf(u)' = GroupsOf(u)
    BY DEF GroupsOf, Untouched
  <1>2. Lone(u)' /\ (Idle(u)' <=> Idle(u))
    BY DEF CertainOf, Lone, Sole, Idle, On, Untouched
  <1>3. Idle(u) => Told(u, unsure', entry', pw'[u], ident'[u], GroupsOf(u)', granted'[u],
                        clung'[u])
    BY <1>1 DEF CertainOf, Untouched, Told, Agreed
  <1>4. ASSUME NEW t \in Threads, req[t].user = u, req[t].alone
        PROVE  /\ Filed(u, req[t], unsure', entry', pw'[u], ident'[u], draft'[u])
               /\ Joined(u, req[t], unsure', GroupsOf(u)', granted'[u], clung'[u])
    BY <1>1, <1>4 DEF CertainOf, Untouched, Filed, Agreed, Joined
  <1> QED BY <1>2, <1>3, <1>4 DEF CertainOf

LEMMA UntouchedAll ==
  ASSUME UNCHANGED <<files, ldap, granted, clung>>, NEW u,
         (u \in unsure') <=> (u \in unsure)
  PROVE  Untouched(u)
  BY DEF Untouched, files, ldap

\* A request begins: alone, it finds what the user was told of; not alone, it
\* leaves nobody alone, and the user unsure.
LEMMA CertainBegin ==
  ASSUME Base, NEW t \in Threads, req[t].user = NoUser, NEW r, Fresh(r), Begin(t, r),
         UNCHANGED <<files, ldap, granted, clung>>, NEW u \in Users, CertainOf(u)
  PROVE  CertainOf(u)'
  <1>1. req[t].user # u
    BY UserAssumption
  <1>2. CASE u # r.user
    <2>1. \A s \in Threads : /\ (req'[s].user = u) <=> (req[s].user = u)
                             /\ req[s].user = u => req'[s] = req[s]
      <3>1. ASSUME NEW s \in Threads \ {t}, req[s].user = u PROVE req'[s] = req[s]
        BY <1>2, <3>1 DEF Begin, On
      <3> QED BY <1>1, <1>2, <3>1, BeginEffect
    <2>2. (u \in unsure') <=> (u \in unsure)
      BY <1>2 DEF Begin
    <2> QED BY <2>1, <2>2, UntouchedAll, CertainAside
  <1>3. CASE u = r.user /\ On(u) # {}
    <2>1. u \in unsure'
      BY <1>3 DEF Begin
    <2>2. \A s \in Threads : req'[s].user = u => ~req'[s].alone
      BY <1>3, BeginEffect
    <2>3. ~Idle(u)'
      BY <1>3, BeginEffect DEF Idle, On
    <2> QED BY <2>1, <2>2, <2>3 DEF CertainOf, Lone, Told, Filed, Joined
  <1>4. CASE u = r.user /\ On(u) = {}
    <2>1. /\ req'[t].at = "look" /\ req'[t].user = u /\ req'[t].pw = 0 /\ req'[t].alone
          /\ \A s \in Threads \ {t} : req'[s].user # u
      BY <1>4, BeginEffect DEF On
    <2>2. UNCHANGED unsure /\ Untouched(u)
      BY <1>4, UntouchedAll DEF Begin
    <2>3. GroupsOf(u)' = GroupsOf(u)
      BY <2>2 DEF GroupsOf, Untouched
    <2>4. Told(u, unsure, entry, pw[u], ident[u], GroupsOf(u), granted[u], clung[u])
      BY <1>4 DEF CertainOf, Idle
    <2>5. Lone(u)' /\ ~Idle(u)'
      BY <2>1 DEF Lone, Sole, Idle, On
    <2>6. Filed(u, req'[t], unsure', entry', pw'[u], ident'[u], draft'[u])
      BY <2>1, <2>2, <2>4 DEF Told, Agreed, Filed, Untouched, Set, Setting
    <2>7. Joined(u, req'[t], unsure', GroupsOf(u)', granted'[u], clung'[u])
      BY <2>1, <2>2, <2>3, <2>4 DEF Told, Joined, Untouched, Grouped
    <2> QED BY <2>1, <2>5, <2>6, <2>7 DEF CertainOf
  <1> QED BY <1>2, <1>3, <1>4

\* Nobody is certain of a user a restart found somebody at work on.
LEMMA CertainRestart ==
  ASSUME Restart, NEW u \in Users, CertainOf(u) PROVE CertainOf(u)'
  <1>1. \A t \in Threads : req'[t].user # u
    BY FreeTyped, UserAssumption DEF Restart
  <1>2. CASE Idle(u)
    <2>1. (u \in unsure') <=> (u \in unsure)
      BY <1>2 DEF Restart
    <2>2. \A t \in Threads : req[t].user # u
      BY <1>2 DEF Idle, On
    <2> QED BY <1>1, <2>1, <2>2, CertainAside, UntouchedAll DEF Restart
  <1>3. CASE ~Idle(u)
    <2>1. u \in unsure'
      BY <1>3 DEF Restart
    <2> QED BY <1>1, <2>1 DEF CertainOf, Lone, Told
  <1> QED BY <1>2, <1>3

\* The steps of a request that is not alone.
LEMMA StaysUnsure ==
  ASSUME Base, NEW t \in Threads, RequestStep(t), ~req[t].alone, req[t].user \in unsure
  PROVE  req[t].user \in unsure'
  <1>1. Break(t) \/ Finish(t) \/ UNCHANGED unsure => req[t].user \in unsure'
    BY DEF Break, Finish
  <1>2. CASE Look(t)
    BY <1>1, <1>2, LookEffect
  <1>3. CASE ListGroups(t)
    BY <1>1, <1>3 DEF ListGroups
  <1>4. CASE Leave(t)
    BY <1>1, <1>4 DEF Leave
  <1>5. CASE Join(t) \/ FoundGroup(t)
    BY <1>1, <1>5, JoinEffect
  <1>6. CASE Install(t)
    BY <1>1, <1>6 DEF Install
  <1>7. CASE Ensure(t) \/ Add(t) \/ Passwd(t) \/ Confirm(t) \/ Card(t) \/ Drop(t)
    BY <1>1, <1>7 DEF Ensure, Add, Passwd, Confirm, Card, Drop
  <1>8. CASE Merge(t) \/ Draft(t) \/ Wipe(t) \/ Sweep(t)
    BY <1>1, <1>8 DEF Merge, Draft, Wipe, Sweep, ghosts
  <1> QED BY <1>2, <1>3, <1>4, <1>5, <1>6, <1>7, <1>8 DEF RequestStep

LEMMA CertainCrossed ==
  ASSUME Base, NEW t \in Threads, RequestStep(t), Acts(t), NEW u \in Users, u = req[t].user,
         ~req[t].alone, CertainOf(u)
  PROVE  CertainOf(u)'
  <1>1. u \in unsure /\ u \in unsure'
    BY StaysUnsure DEF CertainOf, Lone
  <1>2. ASSUME NEW s \in Threads, req'[s].user = u PROVE ~req'[s].alone
    <2>1. CASE s = t
      BY <2>1, <1>2, UserAssumption DEF Acts, Answered, Goes
    <2>2. CASE s # t
      <3>1. req'[s] = req[s]
        BY <2>2 DEF Acts, Others
      <3> QED BY <3>1, <2>2, <1>2 DEF CertainOf, Lone, Sole
    <2> QED BY <2>1, <2>2
  <1> QED BY <1>1, <1>2 DEF CertainOf, Lone, Told

-----------------------------------------------------------------------------
(* The password on file.                                                   *)

\* After a step of t for u, who had the user to itself.
FiledAfter(t, u) ==
  /\ req'[t].user = NoUser => u \in unsure' \/ Agreed(u, entry', pw'[u], ident'[u])
  /\ req'[t].user = u => Filed(u, req'[t], unsure', entry', pw'[u], ident'[u], draft'[u])

\* The steps that leave the account and the files alone.
LEMMA FiledGoes ==
  ASSUME Base, NEW t \in Threads, NEW u \in Users, u = req[t].user,
         Filed(u, req[t], unsure, entry, pw[u], ident[u], draft[u]),
         UNCHANGED <<entry, pw, ident, draft, unsure>>, Same(req'[t], req[t]),
         req'[t].at \notin {"draft", "install", "card", "passwd"},
         Set(req'[t]) => Set(req[t]), Harmless(req'[t]) => Harmless(req[t])
  PROVE  FiledAfter(t, u)
  BY UserAssumption DEF FiledAfter, Filed, Same, Setting, Set, Agreed

LEMMA FiledBreaks ==
  ASSUME Base, NEW t \in Threads, NEW u \in Users, u = req[t].user, Break(t)
  PROVE  FiledAfter(t, u)
  BY AnswerEffect, UserAssumption DEF FiledAfter, Answered, Break

LEMMA FiledLooks ==
  ASSUME Base, NEW t \in Threads, NEW u \in Users, u = req[t].user, Look(t),
         Filed(u, req[t], unsure, entry, pw[u], ident[u], draft[u])
  PROVE  FiledAfter(t, u)
  <1>1. /\ req[t].at = "look" /\ req[t].pw = 0 /\ req[t].kind # "none"
        /\ UNCHANGED <<entry, pw, ident, draft, unsure>>
    BY LookEffect, UserTyped DEF Placed, files, ldap
  <1>2. u \notin unsure => Agreed(u, entry, pw[u], ident[u])
    BY <1>1 DEF Filed, Harmless, Setting
  <1>3. \/ req'[t].user = NoUser
        \/ /\ req'[t].kind = req[t].kind
           /\ \/ req[t].kind \in {"create", "row"} /\ req'[t].at = "ensure"
              \/ req[t].kind = "identity" /\ req'[t].at = "merge"
              \/ req[t].kind = "card" /\ req'[t].at = "card"
              \/ req[t].kind = "delete" /\ req'[t].at = "wipe"
    BY LookEffect DEF Answered, Goes
  <1> QED BY <1>1, <1>2, <1>3, UserAssumption DEF FiledAfter, Filed, Set, Setting, Agreed

LEMMA FiledWrites ==
  ASSUME Base, NEW t \in Threads, NEW u \in Users, u = req[t].user,
         Ensure(t) \/ Add(t) \/ Passwd(t) \/ Confirm(t),
         Filed(u, req[t], unsure, entry, pw[u], ident[u], draft[u])
  PROVE  FiledAfter(t, u)
  <1>1. req[t] \in Requests /\ Placed(req[t]) /\ pw \in [Users -> Nat]
    BY UserTyped DEF Base, TypeOK
  <1>2. ASSUME NEW place, Go(t, place) PROVE req'[t].at = place /\ Same(req'[t], req[t])
    BY <1>2, GoEffect DEF Gone
  <1>3. CASE Ensure(t)
    <2>1. /\ req[t].at = "ensure" /\ req[t].kind \in {"create", "row"}
          /\ \/ Go(t, "passwd") /\ UNCHANGED unsure /\ req[t].pw # 0
             \/ Go(t, "groups") /\ UNCHANGED unsure /\ req[t].pw = 0
             \/ Go(t, "add") /\ UNCHANGED unsure /\ req[t].pw # 0
             \/ Break(t)
          /\ UNCHANGED <<files, ldap>>
      BY <1>1, <1>3 DEF Ensure, Placed
    <2>2. Go(t, "passwd") /\ req[t].pw # 0 => FiledAfter(t, u)
      BY <1>2, <2>1, UserAssumption
      DEF FiledAfter, Filed, Same, Setting, Set, Harmless
    <2>3. Go(t, "groups") /\ UNCHANGED unsure /\ req[t].pw = 0 => FiledAfter(t, u)
      BY <1>2, <2>1, FiledGoes DEF files, ldap, Setting, Set, Harmless, Same
    <2>4. Go(t, "add") /\ UNCHANGED unsure => FiledAfter(t, u)
      BY <1>2, <2>1, FiledGoes DEF files, ldap, Setting, Set, Harmless, Same
    <2> QED BY <2>1, <2>2, <2>3, <2>4, FiledBreaks
  <1>4. CASE Add(t)
    <2>1. /\ Go(t, "passwd") \/ Break(t)
          /\ req[t].at = "add" /\ req[t].kind \in {"create", "row"} /\ req[t].pw # 0
      BY <1>1, <1>4 DEF Add, Placed
    <2>2. Go(t, "passwd") => FiledAfter(t, u)
      BY <1>2, <2>1, UserAssumption
      DEF FiledAfter, Filed, Same, Setting, Set, Harmless
    <2> QED BY <2>1, <2>2, FiledBreaks
  <1>5. CASE Passwd(t)
    <2>1. /\ \/ Go(t, "groups") /\ pw' = [pw EXCEPT ![u] = req[t].pw]
             \/ Break(t)
          /\ req[t].at = "passwd" /\ req[t].kind \in {"create", "row"} /\ req[t].pw # 0
      BY <1>1, <1>5 DEF Passwd, Placed
    <2>2. Go(t, "groups") /\ pw' = [pw EXCEPT ![u] = req[t].pw] => FiledAfter(t, u)
      BY <1>1, <1>2, <2>1, UserAssumption
      DEF FiledAfter, Filed, Same, Setting, Set, Harmless
    <2> QED BY <2>1, <2>2, FiledBreaks
  <1>6. CASE Confirm(t)
    <2>1. /\ (Go(t, "merge") /\ UNCHANGED unsure) \/ Break(t)
          /\ req[t].at = "confirm" /\ req[t].kind \in {"create", "row"}
          /\ UNCHANGED <<files, ldap>>
      BY <1>1, <1>6 DEF Confirm, Placed
    <2>2. Go(t, "merge") /\ UNCHANGED unsure => FiledAfter(t, u)
      BY <1>2, <2>1, FiledGoes DEF files, ldap, Setting, Set, Harmless, Same
    <2> QED BY <2>1, <2>2, FiledBreaks
  <1> QED BY <1>3, <1>4, <1>5, <1>6

LEMMA FiledJoins ==
  ASSUME Base, NEW t \in Threads, NEW u \in Users, u = req[t].user,
         ListGroups(t) \/ Leave(t) \/ Join(t) \/ FoundGroup(t),
         Filed(u, req[t], unsure, entry, pw[u], ident[u], draft[u])
  PROVE  FiledAfter(t, u)
  <1>1. Placed(req[t])
    BY UserTyped
  \* The loops of a request that sets a password are past setting it.
  <1>2. ASSUME NEW a \in {"leave", "join"}, NEW l, Looped(t, a, l),
               req[t].at \in {"groups", "unjoin", "leave", "join", "found"},
               UNCHANGED <<entry, pw, ident, draft, unsure>>
        PROVE  FiledAfter(t, u)
    <2>1. Same(req'[t], req[t]) /\ req'[t].at \in {"leave", "join", "drop", "confirm"}
      BY <1>2 DEF Looped
    <2>3. req[t].kind = "delete" \/ req[t].kind \in {"create", "row"}
      BY <1>1, <1>2 DEF Placed
    <2>4. Set(req'[t]) => Set(req[t])
      BY <1>1, <1>2, <2>1, <2>3 DEF Set, Setting, Same, Placed
    <2>5. Harmless(req'[t]) => Harmless(req[t])
      BY <1>1, <1>2, <2>1, <2>3 DEF Harmless, Setting, Same
    <2> QED BY <1>2, <2>1, <2>4, <2>5, FiledGoes
  <1>3. CASE ListGroups(t)
    <2>1. PICK l \in SUBSET Groups :
            /\ req[t].at \in {"groups", "unjoin"} /\ Looped(t, "leave", l)
            /\ UNCHANGED <<files, ldap, unsure, loose, cut, job, issued, ops>>
      BY <1>3, ListGroupsEffect
    <2> QED BY <1>2, <2>1 DEF files, ldap
  <1>4. CASE Leave(t)
    <2>1. PICK g \in req[t].left :
            /\ req[t].at = "leave" /\ Looped(t, "leave", req[t].left \ {g})
            /\ UNCHANGED <<files, entry, pw, unsure, loose, granted, cut, job, issued, ops>>
      BY <1>4, LeaveEffect
    <2> QED BY <1>2, <2>1 DEF files
  <1>5. CASE Join(t) \/ FoundGroup(t)
    <2>1. /\ req[t].at \in {"join", "found"}
          /\ UNCHANGED <<files, entry, pw, loose, granted, clung, cut, job, issued, ops>>
          /\ \/ Break(t)
             \/ Go(t, "found") /\ UNCHANGED unsure
             \/ \E g \in req[t].left :
                  UNCHANGED unsure /\ Looped(t, "join", req[t].left \ {g})
      BY <1>5, JoinEffect
    <2>2. ASSUME Go(t, "found"), UNCHANGED unsure PROVE FiledAfter(t, u)
      <3>1. req'[t].at = "found" /\ Same(req'[t], req[t])
        BY <2>2, GoEffect DEF Gone
      <3> QED BY <1>1, <2>1, <2>2, <3>1, FiledGoes
           DEF files, Set, Setting, Harmless, Same, Placed
    <2> QED BY <1>2, <2>1, <2>2, FiledBreaks DEF files
  <1> QED BY <1>3, <1>4, <1>5

LEMMA FiledFiles ==
  ASSUME Base, NEW t \in Threads, NEW u \in Users, u = req[t].user,
         Merge(t) \/ Draft(t) \/ Install(t),
         Filed(u, req[t], unsure, entry, pw[u], ident[u], draft[u])
  PROVE  FiledAfter(t, u)
  <1>1. /\ req[t] \in Requests /\ Placed(req[t])
        /\ ident \in [Users -> Nat] /\ draft \in [Users -> Nat \cup {NoDraft}]
    BY UserTyped DEF Base, TypeOK
  <1>2. ASSUME NEW place, Go(t, place)
        PROVE  req'[t].at = place /\ Same(req'[t], req[t])
    BY <1>2, GoEffect DEF Gone
  <1>3. u # NoUser
    BY UserAssumption
  <1>4. CASE Merge(t)
    <2>1. /\ req[t].at = "merge" /\ UNCHANGED <<entry, pw, ident, draft, unsure>>
          /\ req'[t] = [req[t] EXCEPT !.keep = Known(t), !.at = "draft"]
      BY <1>4 DEF Merge, files, ldap, ghosts, Base, TypeOK
    <2>2. /\ req'[t].at = "draft" /\ req'[t].keep = Known(t) /\ req'[t].user = u
          /\ req'[t].kind = req[t].kind /\ req'[t].pw = req[t].pw
          /\ req'[t].origin = req[t].origin
      BY <1>1, <2>1 DEF Requests
    <2>3. /\ Setting(req[t]) => Known(t) = req[t].pw
          /\ req[t].pw = 0 /\ req[t].origin = "taks" => Known(t) = ident[u]
      BY <1>1 DEF Known, Setting, Placed
    <2>4. /\ Setting(req'[t]) <=> Setting(req[t])
          /\ Setting(req[t]) => Set(req[t]) /\ ~Harmless(req'[t])
          /\ Harmless(req'[t]) => Harmless(req[t])
      BY <2>1, <2>2 DEF Setting, Set, Harmless
    <2> QED BY <1>3, <2>1, <2>2, <2>3, <2>4 DEF FiledAfter, Filed, Set
  <1>5. CASE Draft(t)
    <2>1. /\ req[t].at = "draft" /\ UNCHANGED <<entry, pw, ident, unsure>>
          /\ draft'[u] = req[t].keep /\ req'[t].at = "install" /\ Same(req'[t], req[t])
      BY <1>1, <1>2, <1>5 DEF Draft, ldap, ghosts
    <2>2. /\ Setting(req'[t]) <=> Setting(req[t])
          /\ Set(req'[t]) => Set(req[t])
          /\ Harmless(req'[t]) => Harmless(req[t])
      BY <2>1 DEF Setting, Set, Harmless, Same
    <2> QED BY <1>3, <2>1, <2>2 DEF FiledAfter, Filed, Same
  <1>6. CASE Install(t)
    <2>1. /\ req[t].at = "install" /\ draft[u] = req[t].keep /\ req[t].keep \in Nat
          /\ draft[u] # NoDraft
      BY <1>1, <1>6, UserAssumption DEF Install, Filed, Requests
    <2>2. /\ ident'[u] = req[t].keep /\ UNCHANGED <<entry, pw>>
          /\ IF req[t].kind = "identity" THEN req' = [req EXCEPT ![t] = Rest(t)]
                                         ELSE Go(t, "card")
          /\ unsure' = IF req[t].kind = "identity"
                            /\ (req[t].pw # 0 \/ req[t].origin = "marti")
                       THEN unsure \cup {u} ELSE unsure
      BY <1>1, <1>6, <2>1 DEF Install, ldap
    <2>3. CASE req[t].kind = "identity"
      <3>1. req'[t].user = NoUser
        BY <2>2, <2>3, RestEffect DEF Answered
      <3>2. u \notin unsure' => /\ u \notin unsure /\ req[t].pw = 0
                                /\ req[t].origin = "taks"
        BY <1>1, <2>2, <2>3 DEF Requests, Origins
      <3>3. Harmless(req[t])
        BY <2>3 DEF Harmless, Setting
      <3> QED BY <1>3, <2>1, <2>2, <3>1, <3>2, <3>3 DEF FiledAfter, Filed, Agreed
    <2>4. CASE req[t].kind # "identity"
      <3>1. req[t].kind \in {"create", "row"} /\ req[t].origin = "taks"
        BY <1>1, <2>1, <2>4 DEF Placed
      <3>2. req'[t].at = "card" /\ Same(req'[t], req[t]) /\ UNCHANGED unsure
        BY <1>2, <2>2, <2>4
      <3>3. /\ Setting(req'[t]) <=> Setting(req[t]) /\ (Set(req'[t]) <=> Set(req[t]))
            /\ Harmless(req'[t]) => Harmless(req[t]) /\ req[t].pw = 0
        BY <2>1, <3>1, <3>2 DEF Setting, Set, Harmless, Same
      <3> QED BY <1>3, <2>1, <2>2, <3>1, <3>2, <3>3
           DEF FiledAfter, Filed, Agreed, Same, Setting, Set
    <2> QED BY <2>3, <2>4
  <1> QED BY <1>4, <1>5, <1>6

LEMMA FiledEnds ==
  ASSUME Base, NEW t \in Threads, NEW u \in Users, u = req[t].user, req[t].alone,
         Card(t) \/ Wipe(t) \/ Sweep(t) \/ Drop(t),
         Filed(u, req[t], unsure, entry, pw[u], ident[u], draft[u])
  PROVE  FiledAfter(t, u)
  <1>1. Placed(req[t]) /\ u # NoUser
    BY UserTyped, UserAssumption
  <1>2. ASSUME NEW place, Go(t, place)
        PROVE  req'[t].at = place /\ Same(req'[t], req[t])
    BY <1>2, GoEffect DEF Gone
  <1>3. CASE Card(t)
    <2>1. /\ req[t].at = "card" /\ UNCHANGED <<entry, pw, ident>> /\ Finish(t)
      BY <1>3 DEF Card, ldap
    <2>2. req'[t].user = NoUser
      BY <2>1, AnswerEffect DEF Answered
    <2>3. CASE Setting(req[t])
      <3>1. ident[u] = req[t].pw /\ pw[u] = req[t].pw /\ req[t].pw # 0
        BY <2>1, <2>3 DEF Filed, Set, Setting
      <3> QED BY <1>1, <2>1, <2>2, <3>1 DEF FiledAfter, Agreed
    <2>4. CASE ~Setting(req[t])
      <3>1. u \in unsure => u \in unsure'
        BY <1>1, <2>1, <2>4 DEF Finish, Setting, Placed
      <3>2. Harmless(req[t])
        BY <1>1, <2>1, <2>4 DEF Harmless, Placed
      <3> QED BY <1>1, <2>1, <2>2, <3>1, <3>2 DEF FiledAfter, Filed, Agreed
    <2> QED BY <2>3, <2>4
  <1>4. CASE Wipe(t) \/ Sweep(t)
    <2>1. req[t].kind = "delete" /\ req'[t].at \in {"sweep", "unjoin"}
          /\ Same(req'[t], req[t])
      BY <1>1, <1>2, <1>4 DEF Wipe, Sweep, Placed
    <2> QED BY <1>1, <2>1 DEF FiledAfter, Filed, Harmless, Set, Setting, Same
  <1>5. CASE Drop(t)
    <2>1. Break(t) \/ (entry' = entry \ {u} /\ Finish(t))
      BY <1>5 DEF Drop
    <2>2. Finish(t) => req'[t].user = NoUser
      BY AnswerEffect DEF Answered
    <2> QED BY <1>1, <2>1, <2>2, FiledBreaks DEF FiledAfter, Agreed
  <1> QED BY <1>3, <1>4, <1>5

-----------------------------------------------------------------------------
(* The groups granted.                                                     *)

JoinedAfter(t, u) ==
  /\ req'[t].user = NoUser => u \in unsure' \/ GroupsOf(u)' = granted'[u] \cup clung'[u]
  /\ req'[t].user = u => Joined(u, req'[t], unsure', GroupsOf(u)', granted'[u], clung'[u])

Grouping == {"leave", "join", "found"}

\* The steps that are not about groups.
LEMMA JoinedGoes ==
  ASSUME NEW t \in Threads, NEW u \in Users, u = req[t].user,
         Joined(u, req[t], unsure, GroupsOf(u), granted[u], clung[u]),
         UNCHANGED <<members, granted, clung>>, u \in unsure => u \in unsure' \/ Grouped(req[t]),
         req[t].at \notin Grouping,
         req'[t].user = u => /\ req'[t].at \notin Grouping
                             /\ Grouped(req'[t]) => Grouped(req[t])
  PROVE  JoinedAfter(t, u)
  <1>1. GroupsOf(u)' = GroupsOf(u)
    BY DEF GroupsOf
  <1>2. u \notin unsure' => GroupsOf(u) = granted[u] \cup clung[u]
    BY DEF Joined, Grouping
  <1>3. Grouped(req[t]) => GroupsOf(u) = granted[u] \cup clung[u]
    BY DEF Joined
  <1> QED BY <1>1, <1>2, <1>3 DEF JoinedAfter, Joined, Grouping

LEMMA JoinedBreaks ==
  ASSUME Base, NEW t \in Threads, NEW u \in Users, u = req[t].user, Break(t)
  PROVE  JoinedAfter(t, u)
  BY AnswerEffect, UserAssumption DEF JoinedAfter, Answered, Break

LEMMA JoinedElsewhere ==
  ASSUME Base, NEW t \in Threads, NEW u \in Users, u = req[t].user, req[t].alone,
         RequestStep(t), ~(ListGroups(t) \/ Leave(t) \/ Join(t) \/ FoundGroup(t)),
         Joined(u, req[t], unsure, GroupsOf(u), granted[u], clung[u])
  PROVE  JoinedAfter(t, u)
  <1>1. Placed(req[t]) /\ u # NoUser
    BY UserTyped, UserAssumption
  <1>2. ASSUME NEW place, Go(t, place)
        PROVE  req'[t].at = place /\ req'[t].kind = req[t].kind
    BY <1>2, GoEffect DEF Gone, Same
  <1>3. UNCHANGED <<members, granted, clung>> /\ req[t].at \notin Grouping
    <2>1. CASE Look(t)
      BY <2>1, LookEffect DEF ldap, Grouping
    <2>2. CASE Ensure(t) \/ Add(t) \/ Passwd(t) \/ Confirm(t) \/ Merge(t)
      BY <2>2 DEF Ensure, Add, Passwd, Confirm, Merge, ldap, ghosts, Grouping
    <2>3. CASE Draft(t) \/ Install(t) \/ Card(t) \/ Wipe(t) \/ Sweep(t) \/ Drop(t)
      BY <2>3 DEF Draft, Install, Card, Wipe, Sweep, Drop, ldap, ghosts, Grouping
    <2> QED BY <2>1, <2>2, <2>3 DEF RequestStep
  <1>4. CASE Look(t)
    <2>1. /\ UNCHANGED unsure
          /\ \/ req'[t].user = NoUser
             \/ /\ req'[t].kind = req[t].kind
                /\ \/ req'[t].at \in {"ensure", "wipe"}
                   \/ req'[t].at \in {"merge", "card"} /\ req[t].kind \in {"identity", "card"}
      BY <1>4, LookEffect DEF Answered, Goes
    <2> QED BY <1>1, <1>3, <2>1, JoinedGoes DEF Grouping, Grouped
  <1>5. CASE Ensure(t) \/ Add(t) \/ Passwd(t)
    <2>1. Break(t) \/ (UNCHANGED unsure /\ \E a \in {"passwd", "groups", "add"} : Go(t, a))
      BY <1>5 DEF Ensure, Add, Passwd
    <2>2. req'[t].at \in {"passwd", "groups", "add"} => ~Grouped(req'[t])
      BY DEF Grouped
    <2> QED BY <1>2, <1>3, <2>1, <2>2, JoinedBreaks, JoinedGoes DEF Grouping
  <1>6. CASE Confirm(t)
    <2>1. Break(t) \/ (UNCHANGED unsure /\ Go(t, "merge"))
      BY <1>6 DEF Confirm
    <2>2. Grouped(req[t])
      BY <1>6 DEF Confirm, Grouped
    <2> QED BY <1>2, <1>3, <2>1, <2>2, JoinedBreaks, JoinedGoes DEF Grouping
  <1>7. CASE Merge(t)
    <2>1. /\ req[t].at = "merge" /\ req'[t].at = "draft" /\ UNCHANGED unsure
          /\ req'[t].kind = req[t].kind
      BY <1>7 DEF Merge, ghosts, Base, TypeOK
    <2> QED BY <1>3, <2>1, JoinedGoes DEF Grouping, Grouped
  <1>8. CASE Draft(t)
    <2>1. /\ req[t].at = "draft" /\ req'[t].at = "install" /\ UNCHANGED unsure
          /\ req'[t].kind = req[t].kind
      BY <1>2, <1>8 DEF Draft, ghosts
    <2> QED BY <1>3, <2>1, JoinedGoes DEF Grouping, Grouped
  <1>9. CASE Install(t)
    <2>1. /\ req[t].at = "install" /\ (u \in unsure => u \in unsure')
          /\ \/ Break(t)
             \/ req' = [req EXCEPT ![t] = Rest(t)]
             \/ Go(t, "card")
      BY <1>9 DEF Install, Break
    <2>2. req' = [req EXCEPT ![t] = Rest(t)] => req'[t].user = NoUser
      BY RestEffect DEF Answered
    <2>3. Go(t, "card") => /\ req'[t].at \notin Grouping
                           /\ Grouped(req'[t]) => Grouped(req[t])
      BY <1>2, <2>1 DEF Grouping, Grouped
    <2> QED BY <1>1, <1>3, <2>1, <2>2, <2>3, JoinedBreaks, JoinedGoes
  <1>10. CASE Card(t) \/ Drop(t)
    <2>1. Break(t) \/ Finish(t)
      BY <1>10 DEF Card, Drop
    <2>2. Finish(t) => req'[t].user = NoUser
      BY AnswerEffect DEF Answered
    <2>3. Finish(t) /\ u \in unsure => u \in unsure' \/ Grouped(req[t])
      BY <1>1, <1>10 DEF Finish, Card, Drop, Grouped, Placed
    <2> QED BY <1>1, <1>3, <2>1, <2>2, <2>3, JoinedBreaks, JoinedGoes
  <1>11. CASE Wipe(t) \/ Sweep(t)
    <2>1. req'[t].at \in {"sweep", "unjoin"} /\ UNCHANGED unsure
      BY <1>2, <1>11 DEF Wipe, Sweep, ghosts
    <2> QED BY <1>3, <2>1, JoinedGoes DEF Grouping, Grouped
  <1> QED BY <1>4, <1>5, <1>6, <1>7, <1>8, <1>9, <1>10, <1>11 DEF RequestStep

\* A round of the loop that takes the user out of the groups not asked for ...
LEMMA JoinedLeaves ==
  ASSUME Base, NEW t \in Threads, NEW u \in Users, u = req[t].user, NEW l,
         Looped(t, "leave", l), req[t].kind \in {"create", "row", "delete"},
         req[t].kind = "delete" => req[t].groups = {}, granted'[u] = req[t].groups,
         GroupsOf(u)' \ req[t].groups = l \cup clung'[u], l \cap clung'[u] = {}
  PROVE  JoinedAfter(t, u)
  <1>1. u # NoUser
    BY UserAssumption
  <1>2. Same(req'[t], req[t])
    BY DEF Looped
  <1>3. CASE l # {}
    <2>1. req'[t].at = "leave" /\ req'[t].left = l
      BY <1>3 DEF Looped
    <2> QED BY <1>1, <1>2, <2>1 DEF JoinedAfter, Joined, Grouped, Same
  <1>4. CASE l = {} /\ req[t].kind = "delete"
    <2>1. req'[t].at = "drop"
      BY <1>4 DEF Looped
    <2> QED BY <1>1, <1>2, <1>4, <2>1 DEF JoinedAfter, Joined, Grouped, Same
  <1>5. CASE l = {} /\ req[t].kind # "delete"
    <2>1. \/ req'[t].at = "confirm" /\ req[t].groups = {}
          \/ req'[t].at = "join" /\ req'[t].left = req[t].groups
      BY <1>5 DEF Looped
    <2> QED BY <1>1, <1>2, <1>5, <2>1 DEF JoinedAfter, Joined, Grouped, Same
  <1> QED BY <1>3, <1>4, <1>5

\* ... and one that adds the user to a group asked for.
LEMMA JoinedJoins ==
  ASSUME Base, NEW t \in Threads, NEW u \in Users, u = req[t].user, NEW l,
         Looped(t, "join", l), req[t].kind # "delete", granted'[u] = req[t].groups,
         GroupsOf(u)' \ req[t].groups = clung'[u], req[t].groups \ l \subseteq GroupsOf(u)'
  PROVE  JoinedAfter(t, u)
  <1>1. u # NoUser
    BY UserAssumption
  <1>2. Same(req'[t], req[t])
    BY DEF Looped
  <1>3. CASE l # {}
    <2>1. req'[t].at = "join" /\ req'[t].left = l
      BY <1>3 DEF Looped
    <2> QED BY <1>1, <1>2, <2>1 DEF JoinedAfter, Joined, Grouped, Same
  <1>4. CASE l = {}
    <2>1. req'[t].at = "confirm"
      BY <1>4 DEF Looped
    <2> QED BY <1>1, <1>2, <1>4, <2>1 DEF JoinedAfter, Joined, Grouped, Same
  <1> QED BY <1>3, <1>4

LEMMA JoinedGroups ==
  ASSUME Base, NEW t \in Threads, NEW u \in Users, u = req[t].user,
         ListGroups(t) \/ Leave(t) \/ Join(t) \/ FoundGroup(t),
         Joined(u, req[t], unsure, GroupsOf(u), granted[u], clung[u])
  PROVE  JoinedAfter(t, u)
  <1>1. /\ Placed(req[t]) /\ u # NoUser /\ req[t] \in Requests
        /\ members \in [Groups -> SUBSET Users]
        /\ granted \in [Users -> SUBSET Groups] /\ clung \in [Users -> SUBSET Groups]
    BY UserTyped, UserAssumption DEF Base, TypeOK
  <1>2. CASE ListGroups(t)
    <2> DEFINE left == GroupsOf(u) \ req[t].groups
    <2>1. PICK l \in SUBSET Groups :
            /\ req[t].at \in {"groups", "unjoin"}
            /\ \/ l = left /\ clung' = [clung EXCEPT ![u] = {}]
               \/ l = {} /\ clung' = [clung EXCEPT ![u] = left]
            /\ granted' = [granted EXCEPT ![u] = req[t].groups]
            /\ Looped(t, "leave", l)
            /\ UNCHANGED <<files, ldap, unsure, loose, cut, job, issued, ops>>
      BY <1>2, ListGroupsEffect
    <2>2. /\ GroupsOf(u)' = GroupsOf(u) /\ granted'[u] = req[t].groups
          /\ left = l \cup clung'[u] /\ l \cap clung'[u] = {}
      BY <1>1, <2>1 DEF ldap, GroupsOf
    <2>3. req[t].kind \in {"create", "row", "delete"}
          /\ (req[t].kind = "delete" => req[t].groups = {})
      BY <1>1, <2>1 DEF Placed
    <2> QED BY <2>1, <2>2, <2>3, JoinedLeaves
  <1>3. CASE Leave(t)
    <2>1. PICK g \in req[t].left :
            /\ req[t].at = "leave" /\ g \in Groups
            /\ \/ members' = [members EXCEPT ![g] = @ \ {u}] /\ UNCHANGED clung
               \/ UNCHANGED members /\ clung' = [clung EXCEPT ![u] = @ \cup {g}]
            /\ Looped(t, "leave", req[t].left \ {g})
            /\ UNCHANGED <<files, entry, pw, unsure, loose, granted, cut, job, issued, ops>>
      BY <1>3, LeaveEffect
    <2> DEFINE l == req[t].left \ {g}
    <2>2. /\ granted[u] = req[t].groups /\ GroupsOf(u) \ req[t].groups = req[t].left \cup clung[u]
          /\ req[t].left \cap clung[u] = {} /\ req[t].left \cap req[t].groups = {}
      BY <1>1, <2>1 DEF Joined, Placed
    <2>3. \/ GroupsOf(u)' = GroupsOf(u) \ {g} /\ clung'[u] = clung[u]
          \/ GroupsOf(u)' = GroupsOf(u) /\ clung'[u] = clung[u] \cup {g}
      BY <1>1, <2>1 DEF GroupsOf
    <2>4. /\ GroupsOf(u)' \ req[t].groups = l \cup clung'[u] /\ l \cap clung'[u] = {}
          /\ granted'[u] = req[t].groups
      BY <2>1, <2>2, <2>3
    <2>5. req[t].kind \in {"create", "row", "delete"}
          /\ (req[t].kind = "delete" => req[t].groups = {})
      BY <1>1, <2>1 DEF Placed
    <2> HIDE DEF l
    <2> QED BY <2>1, <2>4, <2>5, JoinedLeaves DEF l
  <1>4. CASE Join(t) \/ FoundGroup(t)
    <2>1. /\ req[t].at \in {"join", "found"} /\ req[t].kind # "delete"
          /\ UNCHANGED <<granted, clung>>
          /\ \/ Break(t) /\ UNCHANGED members
             \/ Go(t, "found") /\ UNCHANGED <<members, unsure>>
             \/ \E g \in req[t].left :
                  /\ members' = [members EXCEPT ![g] = @ \cup {u}]
                  /\ g \in Groups /\ UNCHANGED unsure
                  /\ Looped(t, "join", req[t].left \ {g})
      BY <1>1, <1>4, JoinEffect DEF Placed
    <2>2. /\ granted[u] = req[t].groups /\ GroupsOf(u) \ req[t].groups = clung[u]
          /\ req[t].groups \ req[t].left \subseteq GroupsOf(u)
          /\ req[t].left \subseteq req[t].groups
      BY <1>1, <2>1 DEF Joined, Placed
    <2>3. ASSUME Go(t, "found"), UNCHANGED <<members, unsure>> PROVE JoinedAfter(t, u)
      <3>1. /\ req'[t].at = "found" /\ req'[t].left = req[t].left
            /\ req'[t].groups = req[t].groups
        BY <1>1, <2>3 DEF Go, Requests, Base, TypeOK
      <3>2. GroupsOf(u)' = GroupsOf(u)
        BY <2>3 DEF GroupsOf
      <3> QED BY <2>1, <2>2, <3>1, <3>2, <1>1, GoEffect, <2>3
           DEF JoinedAfter, Joined, Grouped, Gone, Same
    <2>4. ASSUME NEW g \in req[t].left, g \in Groups,
                 members' = [members EXCEPT ![g] = @ \cup {u}],
                 Looped(t, "join", req[t].left \ {g})
          PROVE  JoinedAfter(t, u)
      <3>1. GroupsOf(u)' = GroupsOf(u) \cup {g}
        BY <1>1, <2>4 DEF GroupsOf
      <3>2. /\ GroupsOf(u)' \ req[t].groups = clung'[u]
            /\ req[t].groups \ (req[t].left \ {g}) \subseteq GroupsOf(u)'
            /\ granted'[u] = req[t].groups
        BY <2>1, <2>2, <3>1
      <3> QED BY <2>1, <2>4, <3>2, JoinedJoins
    <2> QED BY <2>1, <2>3, <2>4, JoinedBreaks
  <1> QED BY <1>2, <1>3, <1>4

-----------------------------------------------------------------------------
(* What a request did on its own is what the operators were told.          *)

\* The steps of a request that is alone.
LEMMA CertainOwn ==
  ASSUME Base, NEW t \in Threads, RequestStep(t), Acts(t), NEW u \in Users, u = req[t].user,
         req[t].alone, CertainOf(u)
  PROVE  CertainOf(u)'
  <1>1. /\ Filed(u, req[t], unsure, entry, pw[u], ident[u], draft[u])
        /\ Joined(u, req[t], unsure, GroupsOf(u), granted[u], clung[u])
    BY DEF CertainOf
  <1>2. FiledAfter(t, u)
    BY <1>1, FiledLooks, FiledWrites, FiledJoins, FiledFiles, FiledEnds DEF RequestStep
  <1>3. JoinedAfter(t, u)
    BY <1>1, JoinedElsewhere, JoinedGroups
  <1>4. \A s \in Threads \ {t} : req'[s].user # u
    BY DEF Acts, Others, CertainOf, Lone, Sole
  <1>5. \/ req'[t].user = NoUser /\ Idle(u)'
        \/ req'[t].user = u /\ req'[t].alone /\ ~Idle(u)'
    BY <1>4, UserAssumption DEF Acts, Answered, Goes, Idle, On
  <1>6. Lone(u)'
    BY <1>4, <1>5, UserAssumption DEF Lone, Sole
  <1> QED BY <1>2, <1>3, <1>4, <1>5, <1>6, UserAssumption
       DEF FiledAfter, JoinedAfter, CertainOf, Told

LEMMA CertainNext == Certain /\ [Next]_vars => Certain'
  <1> SUFFICES ASSUME Certain, [Next]_vars, NEW u \in Users PROVE CertainOf(u)'
    BY BaseStep DEF Certain
  <1>1. Base /\ CertainOf(u)
    BY DEF Certain
  <1>2. ASSUME NEW t \in Threads, RequestStep(t) PROVE CertainOf(u)'
    <2>1. Acts(t)
      BY <1>1, <1>2, StepActs
    <2>2. CASE u = req[t].user
      BY <1>1, <1>2, <2>1, <2>2, CertainOwn, CertainCrossed
    <2>3. CASE u # req[t].user
      <3>1. \A s \in Threads : /\ (req'[s].user = u) <=> (req[s].user = u)
                               /\ req[s].user = u => req'[s] = req[s]
        BY <2>1, <2>3, UserAssumption DEF Acts, Others, Answered, Goes
      <3> QED BY <1>1, <2>1, <2>3, <3>1, CertainAside DEF Acts
    <2> QED BY <2>2, <2>3
  <1>3. ASSUME NEW t \in Pool, NEW v \in Asked,
               AskCreate(t, v) \/ AskIdentity(t, v) \/ AskCard(t, v) \/ AskDelete(t, v)
        PROVE  CertainOf(u)'
    <2>1. PICK r : Fresh(r) /\ Ask(t, r)
      BY <1>3, AskFresh, UserAssumption DEF AskCreate, AskIdentity, AskCard, AskDelete
    <2>2. /\ t \in Threads /\ req[t].at = "idle" /\ Begin(t, r)
          /\ UNCHANGED <<files, ldap, granted, clung>>
      BY <2>1 DEF Ask, Threads
    <2>3. req[t].user = NoUser
      BY <1>1, <2>2, UserTyped DEF Placed, Resting
    <2> QED BY <1>1, <2>1, <2>2, <2>3, CertainBegin
  <1>4. ASSUME NEW j \in Jobs, NextRow(j) PROVE CertainOf(u)'
    BY <1>1, <1>4, RowBegins, CertainBegin
  <1>5. ASSUME NEW j \in Jobs, CreateJob(j) \/ Run(j) \/ Report(j) \/ EndJob(j)
        PROVE  CertainOf(u)'
    <2>1. /\ j \in Threads /\ Others(j) /\ UNCHANGED <<files, ldap, ghosts>>
          /\ req[j].user = NoUser /\ req'[j].user = NoUser
      BY <1>1, <1>5, JobRests
    <2>2. \A s \in Threads : /\ (req'[s].user = u) <=> (req[s].user = u)
                             /\ req[s].user = u => req'[s] = req[s]
      BY <2>1, UserAssumption DEF Others
    <2> QED BY <1>1, <2>1, <2>2, UntouchedAll, CertainAside DEF ghosts
  <1>6. CASE Restart
    BY <1>1, <1>6, CertainRestart
  <1>7. CASE UNCHANGED vars
    BY <1>1, <1>7, UntouchedAll, CertainAside DEF vars, ghosts
  <1> QED BY <1>2, <1>3, <1>4, <1>5, <1>6, <1>7 DEF Next, JobStep, Threads, Ended

(* The password on file of a user nobody is at work on is the account's, for any  *)
(* number of requests and imports in any order, unless the last change failed,    *)
(* overlapped another or was made by hand: the look that decides on a password,   *)
(* ldappasswd, upsert_identity and its temporary file agree.                      *)
THEOREM PasswordsAgree == Spec => []PasswordOnFile
  <1>1. Certain => PasswordOnFile
    BY DEF Certain, CertainOf, Told, Agreed, PasswordOnFile, Base, TypeOK
  <1> QED BY <1>1, CertainInit, CertainNext, PTL DEF Spec

(* The groups of such a user are the ones last asked for and those that clung:    *)
(* set_groups leaves and joins what it has to, whoever else joins the same        *)
(* groups, makes them or empties them meanwhile.                                  *)
THEOREM GroupsGranted == Spec => []GroupsAsGranted
  <1>1. Certain => GroupsAsGranted
    BY DEF Certain, CertainOf, Told, GroupsAsGranted
  <1> QED BY <1>1, CertainInit, CertainNext, PTL DEF Spec
=============================================================================
