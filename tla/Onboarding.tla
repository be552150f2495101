------------------------------- MODULE Onboarding -------------------------------
(***************************************************************************)
(* takctl's onboarding of users: the requests that create, update and      *)
(* delete an account and issue its cards, and the bulk import jobs, which  *)
(* do the same row after row in a thread of their own.  One user is spread *)
(* over three stores that no request locks: the account and its groups in  *)
(* LDAP (services/ldap_user_store.py), the identity file that remembers    *)
(* the password takctl chose, and the card tokens (both in                 *)
(* onboarding/store_filejson.py).  Every LDAP call and every file          *)
(* operation is a step.  Passwords are numbers, 0 is "none".               *)
(***************************************************************************)
EXTENDS Naturals, Sequences, FiniteSets

CONSTANTS Users, Groups,
          NoUser, NoDraft, \* neither a user, nor a password
          Pool,            \* threads that serve requests
          Jobs,            \* import jobs, each with its thread
          Rows,            \* the rows of an import file: [user, given, groups]
          Asked,           \* the users requests are about; imports name the rows' users
          MaxOps,          \* requests and jobs of a behaviour
          MaxFaults        \* LDAP calls that fail, and restarts

ASSUME UserAssumption == NoUser \notin Users /\ NoDraft \notin Nat
                         /\ Asked \subseteq Users
ASSUME ThreadAssumption == Pool \cap Jobs = {}
ASSUME RowAssumption ==
  Rows \in Seq([user : Users, given : BOOLEAN, groups : SUBSET Groups])
ASSUME BoundAssumption == MaxOps \in Nat /\ MaxFaults \in Nat

VARIABLES
  entry,    \* users with an LDAP entry
  pw,       \* the password of each entry
  members,  \* the members of each groupOfNames; {} is a group not made yet
  ident,    \* the password each identity file knows
  draft,    \* the content of each identity's .json.tmp
  cards,    \* the users a card token exists for
  job,      \* each job's job.json: [state, row]
  req,      \* what each thread is doing
  issued, ops, faults,  \* counters
  \* What the operators have been told, which no file records:
  unsure,   \* users of an overlapped, failed or hand-edited request, not yet reset
  loose,    \* users with a deletion that overlapped another request
  granted,  \* the groups last asked for
  clung,    \* the groups the last change could not take the user out of
  cut       \* jobs a restart cut off

files  == <<ident, draft, cards>>
ldap   == <<entry, pw, members>>
ghosts == <<unsure, loose, granted, clung, cut>>
vars   == <<files, ldap, ghosts, job, req, issued, ops, faults>>

Threads  == Pool \cup Jobs
Kinds    == {"none", "create", "row", "identity", "card", "delete"}
Places   == {"idle", "queued", "next", "report", "look", "ensure", "add", "passwd",
             "groups", "leave", "join", "found", "confirm", "merge", "draft",
             "install", "card", "wipe", "sweep", "unjoin", "drop"}
Origins  == {"taks", "marti"}
JobStates == {"none", "queued", "running", "done", "failed"}

Free == [at |-> "idle", kind |-> "none", user |-> NoUser, given |-> FALSE,
         update |-> TRUE, origin |-> "taks", groups |-> {}, pw |-> 0, keep |-> 0,
         left |-> {}, alone |-> TRUE]

GroupsOf(u) == {g \in Groups : u \in members[g]}
On(u)   == {t \in Threads : req[t].user = u}
Idle(u) == On(u) = {}

TypeOK ==
  /\ entry \subseteq Users
  /\ pw \in [Users -> Nat]
  /\ members \in [Groups -> SUBSET Users]
  /\ ident \in [Users -> Nat]
  /\ draft \in [Users -> Nat \cup {NoDraft}]
  /\ cards \subseteq Users
  /\ job \in [Jobs -> [state : JobStates, row : 0 .. Len(Rows)]]
  /\ req \in [Threads -> [at : Places, kind : Kinds, user : Users \cup {NoUser},
                          given : BOOLEAN, update : BOOLEAN, origin : Origins,
                          groups : SUBSET Groups, pw : Nat, keep : Nat,
                          left : SUBSET Groups, alone : BOOLEAN]]
  /\ issued \in Nat /\ ops \in 0 .. MaxOps /\ faults \in 0 .. MaxFaults
  /\ unsure \subseteq Users /\ loose \subseteq Users
  /\ granted \in [Users -> SUBSET Groups] /\ clung \in [Users -> SUBSET Groups]
  /\ cut \subseteq Jobs
  \* Only a thread at rest, or between two rows, serves nobody.
  /\ \A t \in Threads :
       (req[t].user = NoUser) <=> (req[t].at \in {"idle", "queued", "next", "report"})

Init ==
  /\ entry = {} /\ cards = {}
  /\ pw = [u \in Users |-> 0] /\ ident = [u \in Users |-> 0]
  /\ draft = [u \in Users |-> NoDraft]
  /\ members = [g \in Groups |-> {}]
  /\ job = [j \in Jobs |-> [state |-> "none", row |-> 0]]
  /\ req = [t \in Threads |-> Free]
  /\ issued = 0 /\ ops = 0 /\ faults = 0
  /\ unsure = {} /\ loose = {} /\ cut = {}
  /\ granted = [u \in Users |-> {}] /\ clung = [u \in Users |-> {}]

----------------------------------------------------------------------------
(* How a request begins and ends.                                           *)

\* t turns to the request r; requests for one user that overlap know it.
Begin(t, r) ==
  LET others == On(r.user)
      clash  == others # {}
  IN  /\ req' = [s \in Threads |->
                   IF s = t THEN [r EXCEPT !.at = "look", !.alone = ~clash]
                   ELSE IF s \in others THEN [req[s] EXCEPT !.alone = FALSE]
                   ELSE req[s]]
      /\ unsure' = IF clash THEN unsure \cup {r.user} ELSE unsure
      /\ loose' = IF \/ clash /\ r.kind = "delete"
                     \/ \E s \in others : req[s].kind = "delete"
                  THEN loose \cup {r.user} ELSE loose

\* Slip (mutant): an error escapes the loop over rows and ends the job's thread.
RestGone(t) == Free

\* The thread has answered: a request's thread is free, a job's reports its row.
Rest(t) == [Free EXCEPT !.at = IF t \in Jobs THEN "report" ELSE "idle",
                        !.update = req[t].update]

Go(t, place) == req' = [req EXCEPT ![t].at = place]

\* An error answer (HTTP 4xx/5xx, or a row's error) before anything was changed ...
Refuse(t) == req' = [req EXCEPT ![t] = Rest(t)] /\ UNCHANGED unsure

\* ... and one that leaves the user halfway.
Break(t) ==
  /\ req' = [req EXCEPT ![t] = Rest(t)]
  /\ unsure' = unsure \cup {req[t].user}

\* Success.  A password set, or an account deleted, by a request that had the user
\* to itself leaves nothing uncertain about that user.
Finish(t) ==
  /\ req' = [req EXCEPT ![t] = Rest(t)]
  /\ unsure' = IF /\ req[t].alone
                  /\ \/ req[t].kind = "delete"
                     \/ req[t].kind \in {"create", "row"} /\ req[t].pw # 0
               THEN unsure \ {req[t].user} ELSE unsure

\* One LDAP call: it works (up), or the command fails.
Call(up) == up \/ faults < MaxFaults
Count(up) == faults' = IF up THEN faults ELSE faults + 1

----------------------------------------------------------------------------
(* The requests.                                                            *)

Ask(t, r) ==
  /\ req[t].at = "idle" /\ ops < MaxOps
  /\ Begin(t, r)
  /\ ops' = ops + 1
  /\ UNCHANGED <<files, ldap, granted, clung, cut, job, issued, faults>>

AskCreate(t, u) ==
  \E given \in BOOLEAN, gs \in SUBSET Groups :
    Ask(t, [Free EXCEPT !.kind = "create", !.user = u, !.given = given, !.groups = gs])

AskIdentity(t, u) ==
  \E given \in BOOLEAN, o \in Origins :
    Ask(t, [Free EXCEPT !.kind = "identity", !.user = u, !.given = given,
                        !.origin = o])

AskCard(t, u)   == Ask(t, [Free EXCEPT !.kind = "card", !.user = u])
AskDelete(t, u) == Ask(t, [Free EXCEPT !.kind = "delete", !.user = u])

\* get_user: an LDAP error reads as "no such user".
Found(t, up) == up /\ req[t].user \in entry

\* The first look at the account decides what the request is.  A password is
\* chosen here: the one given, or a generated one for a user who is not there.
LookWrite(t, up) ==
  /\ req[t].kind \in {"create", "row"}
  /\ IF Found(t, up) /\ ~req[t].update
     THEN /\ req' = [req EXCEPT ![t] = Rest(t)]   \* the row is skipped: "exists"
          /\ UNCHANGED <<issued, unsure>>
     ELSE LET chosen == req[t].given \/ ~Found(t, up)
          IN  /\ req' = [req EXCEPT ![t].at = "ensure", ![t].given = FALSE,
                           ![t].pw = IF chosen THEN issued + 1 ELSE 0]
              /\ issued' = IF chosen THEN issued + 1 ELSE issued
              /\ UNCHANGED unsure

LookKnown(t, up) ==
  /\ req[t].kind \in {"identity", "card", "delete"}
  /\ IF Found(t, up)
     THEN LET given == req[t].kind = "identity" /\ req[t].given
              place == CASE req[t].kind = "identity" -> "merge"
                         [] req[t].kind = "card"     -> "card"
                         [] req[t].kind = "delete"   -> "wipe"
          IN  /\ req' = [req EXCEPT ![t].at = place, ![t].given = FALSE,
                           ![t].pw = IF given THEN issued + 1 ELSE 0]
              /\ issued' = IF given THEN issued + 1 ELSE issued
              /\ UNCHANGED unsure
     ELSE Refuse(t) /\ UNCHANGED issued

Look(t) ==
  \E up \in BOOLEAN :
    /\ req[t].at = "look" /\ Call(up)
    /\ LookWrite(t, up) \/ LookKnown(t, up)
    /\ Count(up)
    /\ UNCHANGED <<files, ldap, loose, granted, clung, cut, job, ops>>

\* LdapUserStore.ensure_user looks again.  What it may then modify of an entry
\* (mail, admin) stands for nothing else here: its failure is the next call's.
Ensure(t) ==
  \E up \in BOOLEAN :
    /\ req[t].at = "ensure" /\ Call(up)
    /\ CASE Found(t, up) ->
              Go(t, IF req[t].pw # 0 THEN "passwd" ELSE "groups") /\ UNCHANGED unsure
         [] ~Found(t, up) /\ req[t].pw # 0 -> Go(t, "add") /\ UNCHANGED unsure
         [] OTHER -> Break(t)   \* "password required when creating LDAP user"
    /\ Count(up)
    /\ UNCHANGED <<files, ldap, loose, granted, clung, cut, job, issued, ops>>

\* ldapadd: the entry has no password yet.
Add(t) ==
  \E up \in BOOLEAN :
    /\ req[t].at = "add" /\ Call(up)
    /\ IF up /\ req[t].user \notin entry
       THEN /\ entry' = entry \cup {req[t].user}
            /\ Go(t, "passwd") /\ UNCHANGED unsure
       ELSE Break(t) /\ UNCHANGED entry
    /\ Count(up)
    /\ UNCHANGED <<files, pw, members, loose, granted, clung, cut, job, issued, ops>>

\* ldappasswd.
Passwd(t) ==
  \E up \in BOOLEAN :
    /\ req[t].at = "passwd" /\ Call(up)
    /\ IF Found(t, up)
       THEN /\ pw' = [pw EXCEPT ![req[t].user] = req[t].pw]
            /\ Go(t, "groups") /\ UNCHANGED unsure
       ELSE Break(t) /\ UNCHANGED pw
    /\ Count(up)
    /\ UNCHANGED <<files, entry, members, loose, granted, clung, cut, job,
                   issued, ops>>

\* The loops over groups: with no group left to leave, a deletion goes on to the
\* account and the others to the groups to join (left now holds those); with none
\* left to join, to the end.
Onward(r) ==
  LET next == IF r.at = "leave" /\ r.left = {}
              THEN [r EXCEPT !.at = IF r.kind = "delete" THEN "drop" ELSE "join",
                             !.left = r.groups]
              ELSE r
  IN  IF next.at = "join" /\ next.left = {} THEN [next EXCEPT !.at = "confirm"] ELSE next

\* Slip (mutant): the groups no longer wanted are left alone, as append=True does.
ListGroupsAppend(t) ==
  /\ req[t].at \in {"groups", "unjoin"}
  /\ req' = [req EXCEPT ![t] = Onward([req[t] EXCEPT !.at = "leave", !.left = {}])]
  /\ granted' = [granted EXCEPT ![req[t].user] = req[t].groups]
  /\ clung' = [clung EXCEPT ![req[t].user] = {}]
  /\ UNCHANGED <<files, ldap, unsure, loose, cut, job, issued, ops, faults>>

\* groups_for_user, and which of them to leave.  An LDAP error reads as none.
ListGroups(t) ==
  \E up \in BOOLEAN :
    LET u    == req[t].user
        left == GroupsOf(u) \ req[t].groups
    IN  /\ req[t].at \in {"groups", "unjoin"} /\ Call(up)
        /\ req' = [req EXCEPT ![t] =
             Onward([req[t] EXCEPT !.at = "leave", !.left = IF up THEN left ELSE {}])]
        /\ granted' = [granted EXCEPT ![u] = req[t].groups]
        /\ clung' = [clung EXCEPT ![u] = IF up THEN {} ELSE left]
        /\ Count(up)
        /\ UNCHANGED <<files, ldap, unsure, loose, cut, job, issued, ops>>

\* _remove_user_from_group: a groupOfNames must keep a member, so its last one
\* cannot leave; that failure is swallowed like every other.
Leave(t) ==
  \E up \in BOOLEAN, g \in req[t].left :
    LET u    == req[t].user
        gone == up /\ members[g] # {u}
    IN  /\ req[t].at = "leave" /\ Call(up)
        /\ members' = [members EXCEPT ![g] = IF gone THEN @ \ {u} ELSE @]
        /\ clung' = [clung EXCEPT ![u] = IF gone THEN @ ELSE @ \cup {g}]
        /\ req' = [req EXCEPT ![t] = Onward([req[t] EXCEPT !.left = @ \ {g}])]
        /\ Count(up)
        /\ UNCHANGED <<files, entry, pw, unsure, loose, granted, cut, job,
                       issued, ops>>

\* ensure_group finds the group, and the user is added to it; or it does not ...
Join(t) ==
  \E up \in BOOLEAN, g \in req[t].left :
    /\ req[t].at = "join" /\ Call(up)
    /\ CASE ~up -> Break(t) /\ UNCHANGED members
         [] up /\ members[g] = {} -> /\ req' = [req EXCEPT ![t].at = "found"]
                                     /\ UNCHANGED <<members, unsure>>
         [] up /\ members[g] # {} ->
              /\ members' = [members EXCEPT ![g] = @ \cup {req[t].user}]
              /\ req' = [req EXCEPT ![t] = Onward([req[t] EXCEPT !.left = @ \ {g}])]
              /\ UNCHANGED unsure
    /\ Count(up)
    /\ UNCHANGED <<files, entry, pw, loose, granted, clung, cut, job, issued, ops>>

\* ... and makes it with the user as its first member, unless somebody else just has.
FoundGroup(t) ==
  \E g \in req[t].left :
    /\ req[t].at = "found"
    /\ IF members[g] = {}
       THEN /\ members' = [members EXCEPT ![g] = {req[t].user}]
            /\ req' = [req EXCEPT ![t] =
                  Onward([req[t] EXCEPT !.at = "join", !.left = @ \ {g}])]
            /\ UNCHANGED unsure
       ELSE Break(t) /\ UNCHANGED members
    /\ UNCHANGED <<files, entry, pw, loose, granted, clung, cut, job, issued, ops,
                   faults>>

\* "User not found after create/update in configured backing user store".
Confirm(t) ==
  \E up \in BOOLEAN :
    /\ req[t].at = "confirm" /\ Call(up)
    /\ IF Found(t, up) THEN Go(t, "merge") /\ UNCHANGED unsure ELSE Break(t)
    /\ Count(up)
    /\ UNCHANGED <<files, ldap, loose, granted, clung, cut, job, issued, ops>>

\* Slip (mutant): an update without a password forgets the known one.
KnownNew(t) == IF req[t].origin = "taks" THEN req[t].pw ELSE 0

\* upsert_identity reads the file: without a new password the known one is kept,
\* and only an identity of origin "taks" knows one.
Known(t) ==
  LET p == IF req[t].pw # 0 THEN req[t].pw ELSE ident[req[t].user]
  IN  IF req[t].origin = "taks" THEN p ELSE 0

Merge(t) ==
  /\ req[t].at = "merge"
  /\ req' = [req EXCEPT ![t].keep = Known(t), ![t].at = "draft"]
  /\ UNCHANGED <<files, ldap, ghosts, job, issued, ops, faults>>

\* The .json.tmp, one per user, opened and written as one step ...
Draft(t) ==
  /\ req[t].at = "draft"
  /\ draft' = [draft EXCEPT ![req[t].user] = req[t].keep]
  /\ Go(t, "install")
  /\ UNCHANGED <<ident, cards, ldap, ghosts, job, issued, ops, faults>>

\* ... which replaces the identity file, whoever wrote it; it may be gone.
Install(t) ==
  LET u == req[t].user
      byHand == req[t].kind = "identity" /\ (req[t].pw # 0 \/ req[t].origin = "marti")
  IN  /\ req[t].at = "install"
      /\ CASE draft[u] = NoDraft -> Break(t) /\ UNCHANGED <<ident, draft>>
           [] draft[u] # NoDraft ->
                /\ ident' = [ident EXCEPT ![u] = draft[u]]
                /\ draft' = [draft EXCEPT ![u] = NoDraft]
                /\ IF req[t].kind = "identity"
                   THEN req' = [req EXCEPT ![t] = Rest(t)]
                   ELSE Go(t, "card")
                /\ unsure' = IF byHand THEN unsure \cup {u} ELSE unsure
      /\ UNCHANGED <<cards, ldap, loose, granted, clung, cut, job, issued, ops,
                     faults>>

\* create_card_token.
Card(t) ==
  /\ req[t].at = "card"
  /\ cards' = cards \cup {req[t].user}
  /\ Finish(t)
  /\ UNCHANGED <<ident, draft, ldap, loose, granted, clung, cut, job, issued, ops,
                 faults>>

----------------------------------------------------------------------------
(* A deletion: what onboarding keeps of the user first, the account last.   *)

\* Slip (mutant): the identity file is left behind.
WipeNothing(t) ==
  /\ req[t].at = "wipe"
  /\ Go(t, "sweep")
  /\ UNCHANGED <<files, ldap, ghosts, job, issued, ops, faults>>

Wipe(t) ==
  /\ req[t].at = "wipe"
  /\ ident' = [ident EXCEPT ![req[t].user] = 0]
  /\ Go(t, "sweep")
  /\ UNCHANGED <<draft, cards, ldap, ghosts, job, issued, ops, faults>>

Sweep(t) ==
  /\ req[t].at = "sweep"
  /\ cards' = cards \ {req[t].user}
  /\ Go(t, "unjoin")
  /\ UNCHANGED <<ident, draft, ldap, ghosts, job, issued, ops, faults>>

\* ldapdelete with check=False: a failure is reported as a deletion.
Drop(t) ==
  \E up \in BOOLEAN :
    LET u == req[t].user
    IN  /\ req[t].at = "drop" /\ Call(up)
        /\ IF up
           THEN /\ entry' = entry \ {u}
                /\ pw' = [pw EXCEPT ![u] = 0]
                /\ Finish(t)
           ELSE Break(t) /\ UNCHANGED <<entry, pw>>
        /\ Count(up)
        /\ UNCHANGED <<files, members, loose, granted, clung, cut, job, issued, ops>>

----------------------------------------------------------------------------
(* Import jobs.                                                             *)

\* create_import_job: job.json is written and the thread is started.
CreateJob(j) ==
  \E update \in BOOLEAN :
    /\ job[j].state = "none" /\ ops < MaxOps
    /\ job' = [job EXCEPT ![j].state = "queued"]
    /\ req' = [req EXCEPT ![j] = [Free EXCEPT !.at = "queued", !.update = update]]
    /\ ops' = ops + 1
    /\ UNCHANGED <<files, ldap, ghosts, issued, faults>>

\* run_job; the source file may turn out unreadable.
Run(j) ==
  \E readable \in BOOLEAN :
    /\ req[j].at = "queued"
    /\ job' = [job EXCEPT ![j].state = IF readable THEN "running" ELSE "failed"]
    /\ IF readable THEN Go(j, "next") ELSE req' = [req EXCEPT ![j] = Free]
    /\ UNCHANGED <<files, ldap, ghosts, issued, ops, faults>>

\* The next row is a request of its own.
NextRow(j) ==
  /\ req[j].at = "next" /\ job[j].row < Len(Rows)
  /\ LET row == Rows[job[j].row + 1]
     IN  Begin(j, [Free EXCEPT !.kind = "row", !.user = row.user, !.given = row.given,
                               !.groups = row.groups, !.update = req[j].update])
  /\ UNCHANGED <<files, ldap, granted, clung, cut, job, issued, ops, faults>>

\* The progress callback, after a row that worked, was skipped or failed alike.
Report(j) ==
  /\ req[j].at = "report"
  /\ job' = [job EXCEPT ![j].row = @ + 1]
  /\ Go(j, "next")
  /\ UNCHANGED <<files, ldap, ghosts, issued, ops, faults>>

EndJob(j) ==
  /\ req[j].at = "next" /\ job[j].row = Len(Rows)
  /\ job' = [job EXCEPT ![j].state = "done"]
  /\ req' = [req EXCEPT ![j] = Free]
  /\ UNCHANGED <<files, ldap, ghosts, issued, ops, faults>>

----------------------------------------------------------------------------

\* takctl is restarted: its threads are gone, and nothing resumes a job.
Restart ==
  /\ faults < MaxFaults /\ \E t \in Threads : req[t].at # "idle"
  /\ faults' = faults + 1
  /\ req' = [t \in Threads |-> Free]
  /\ unsure' = unsure \cup {u \in Users : ~Idle(u)}
  /\ cut' = cut \cup {j \in Jobs : req[j].at # "idle"}
  /\ UNCHANGED <<files, ldap, loose, granted, clung, job, issued, ops>>

RequestStep(t) ==
  \/ Look(t) \/ Ensure(t) \/ Add(t) \/ Passwd(t)
  \/ ListGroups(t) \/ Leave(t) \/ Join(t) \/ FoundGroup(t)
  \/ Confirm(t) \/ Merge(t) \/ Draft(t) \/ Install(t) \/ Card(t)
  \/ Wipe(t) \/ Sweep(t) \/ Drop(t)

JobStep(j) == Run(j) \/ NextRow(j) \/ Report(j) \/ EndJob(j) \/ RequestStep(j)

Ended == (\A t \in Threads : req[t].at = "idle") /\ UNCHANGED vars

Next ==
  \/ \E t \in Pool, u \in Asked :
       AskCreate(t, u) \/ AskIdentity(t, u) \/ AskCard(t, u) \/ AskDelete(t, u)
  \/ \E t \in Pool : RequestStep(t)
  \/ \E j \in Jobs : CreateJob(j) \/ JobStep(j)
  \/ Restart
  \/ Ended

\* A job's thread, once started, is scheduled until it ends.
Spec == Init /\ [][Next]_vars /\ \A j \in Jobs : WF_vars(JobStep(j))

----------------------------------------------------------------------------

\* A user nobody is at work on, whose last change ran alone and went through, has
\* on file the very password the account has: the operator who is shown a password
\* on a card is shown one that logs in.  It takes the look that decides whether a
\* password is generated, the ldappasswd, the merge with the old file and the
\* shared temporary file to agree, in every order requests and imports follow each
\* other, after deletions, failures and restarts a reset has repaired.
PasswordOnFile ==
  \A u \in entry \ unsure : Idle(u) => ident[u] = pw[u] /\ pw[u] # 0

\* Nothing outlives an account: a user who is not in LDAP has neither a password on
\* file nor a card that would come back to life with the next user of that name,
\* even when a deletion fails or is cut off half way and is done again.  A deletion
\* that overlaps another request of the user is excepted: that one may still write.
NothingKept ==
  \A u \in Users \ (entry \cup loose) : Idle(u) => ident[u] = 0 /\ u \notin cards

\* The groups of a user are the ones last asked for and those the change could not
\* leave, no other: a group that clung to a deleted user is left by the next one of
\* that name as soon as it has another member.
GroupsAsGranted ==
  \A u \in Users \ unsure : Idle(u) => GroupsOf(u) = granted[u] \cup clung[u]

\* An import job reaches an end, whatever its rows run into, unless takctl is
\* restarted under it.
JobsEnd ==
  \A j \in Jobs :
    (job[j].state = "queued") ~> (job[j].state \in {"done", "failed"} \/ j \in cut)
=============================================================================
