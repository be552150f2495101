----------------------------- MODULE XmppInviter -----------------------------
(***************************************************************************)
(* Martine's XMPP daemon, martine/bin/martine-xmpp-inviter.  Every tick it *)
(* relays the lines the voice service appended to current.jsonl, and sends *)
(* each user a hello and an invite a room.  What it sent it remembers in   *)
(* memory; memory goes to state.json at the end of a relay and of a tick,  *)
(* and when the connection is lost.  It is one coroutine: other processes, *)
(* a lost connection and a kill come between its awaits.                   *)
(*                                                                         *)
(* A message is sent when it is handed to the connection; whether the      *)
(* server gets it is not modelled.  Presence, the joining of rooms, lines  *)
(* that are not relayed and an error that ends a tick early, as a full     *)
(* disk does when the state is saved, are left out.                        *)
(***************************************************************************)
EXTENDS Naturals

CONSTANTS
  Users,       \* users of the node
  Rooms,       \* conference rooms they are invited to
  Hello,       \* the first message to a user
  MaxLines,    \* bound: lines of the transcript
  MaxKills,    \* bound: kills of the daemon
  MaxDrops,    \* bound: connections lost
  MaxShrinks   \* bound: times the transcript is emptied

Invites == Users \X Rooms
Greeting(u) == <<u, Hello>>
Notices == Invites \cup {Greeting(u) : u \in Users}
Lines == 1..MaxLines

ASSUME InviterConstants ==
  /\ Hello \notin Rooms
  /\ MaxLines \in Nat /\ MaxKills \in Nat /\ MaxDrops \in Nat /\ MaxShrinks \in Nat

VARIABLES
  present,   \* current.jsonl exists
  first,     \* lines it once held and no longer does
  last,      \* lines ever appended: it holds those after first up to last
  saved,     \* state.json: notices sent
  offset,    \* state.json: lines of the file relayed
  init,      \* state.json: the offset is set
  told,      \* memory: notices sent
  pc,        \* where the daemon is
  jobs,      \* notices the tick is to send
  queue,     \* lines read and not yet relayed
  reached,   \* the offset they reach up to
  sent,      \* history: how often each notice was sent
  relayed,   \* history: how often each line was relayed
  begun,     \* history: lines there were when the offset was first set
  kills, drops, shrinks    \* counts

file == <<present, first, last, shrinks>>
disk == <<saved, offset, init>>
memory == <<told, jobs, queue, reached>>
vars == <<file, disk, memory, pc, sent, relayed, begun, kills, drops>>

Size == last - first

Init ==
  /\ present = FALSE /\ first = 0 /\ last = 0 /\ shrinks = 0
  /\ saved = {} /\ offset = 0 /\ init = FALSE
  /\ told = {} /\ jobs = {} /\ queue = {} /\ reached = 0
  /\ pc = "down"
  /\ sent = [n \in Notices |-> 0] /\ relayed = [k \in Lines |-> 0] /\ begun = 0
  /\ kills = 0 /\ drops = 0

-----------------------------------------------------------------------------
(* The transcript, written by the voice service.                           *)

CreateFile ==
  /\ ~present
  /\ present' = TRUE
  /\ UNCHANGED <<first, last, shrinks, disk, memory, pc, sent, relayed, begun, kills, drops>>

\* _append_line: a line and its end in one write.
AppendLine ==
  /\ present /\ last < MaxLines
  /\ last' = last + 1
  /\ UNCHANGED <<present, first, shrinks, disk, memory, pc, sent, relayed, begun, kills, drops>>

\* Somebody empties the file, which the daemon is prepared for.
Empty ==
  /\ Size > 0 /\ shrinks < MaxShrinks
  /\ first' = last
  /\ shrinks' = shrinks + 1
  /\ UNCHANGED <<present, last, disk, memory, pc, sent, relayed, begun, kills, drops>>

-----------------------------------------------------------------------------
(* The daemon.                                                             *)

\* __init__ loads the state; then it connects.
Start ==
  /\ pc = "down"
  /\ pc' = "asleep"
  /\ told' = saved
  /\ UNCHANGED <<file, disk, jobs, queue, reached, sent, relayed, begun, kills, drops>>

\* A tick begins: what is wanted comes from the policy, LDAP and the bookmark
\* jobs.  Every user with a room gets the hello as well.
Tick(wanted) ==
  /\ pc = "asleep"
  /\ pc' = "read"
  /\ jobs' = wanted \cup {Greeting(n[1]) : n \in wanted}
  /\ UNCHANGED <<file, disk, told, queue, reached, sent, relayed, begun, kills, drops>>

\* publish_new_voice_transcripts, up to the first line sent.  An offset beyond
\* the file's end means the file was emptied: it is read from its start.
ReadFrom == IF offset > Size THEN 0 ELSE offset

NothingNew ==
  /\ pc = "read" /\ (~present \/ (init /\ ReadFrom = Size))
  /\ pc' = "notify"
  /\ UNCHANGED <<file, disk, memory, sent, relayed, begun, kills, drops>>

\* Slips (mutants): the transcript is relayed from its start; whatever is new
\* is skipped.
InitOffsetAtStart ==
  /\ pc = "read" /\ present /\ ~init
  /\ pc' = "notify"
  /\ offset' = 0 /\ init' = TRUE /\ begun' = last /\ saved' = told
  /\ UNCHANGED <<file, memory, sent, relayed, kills, drops>>
InitOffsetAgain ==
  /\ pc = "read" /\ present /\ ~(init /\ ReadFrom = Size)
  /\ pc' = "notify"
  /\ offset' = Size /\ init' = TRUE /\ begun' = (IF init THEN begun ELSE last) /\ saved' = told
  /\ UNCHANGED <<file, memory, sent, relayed, kills, drops>>

\* The first tick that finds the file skips what it holds.
InitOffset ==
  /\ pc = "read" /\ present /\ ~init
  /\ pc' = "notify"
  /\ offset' = Size /\ init' = TRUE /\ begun' = last /\ saved' = told
  /\ UNCHANGED <<file, memory, sent, relayed, kills, drops>>

\* Slip (mutant): the offset moves before the lines are sent.
ReadLinesAhead ==
  /\ pc = "read" /\ present /\ init /\ ReadFrom < Size
  /\ pc' = "relay"
  /\ queue' = first + ReadFrom + 1 .. last
  /\ reached' = Size
  /\ offset' = Size
  /\ UNCHANGED <<file, saved, init, told, jobs, sent, relayed, begun, kills, drops>>

ReadLines ==
  /\ pc = "read" /\ present /\ init /\ ReadFrom < Size
  /\ pc' = "relay"
  /\ queue' = first + ReadFrom + 1 .. last
  /\ reached' = Size
  /\ UNCHANGED <<file, disk, told, jobs, sent, relayed, begun, kills, drops>>

\* An offset from before the file was emptied may point into a character: the
\* file does not decode, and the tick goes on without it.
ReadFails ==
  /\ pc = "read" /\ present /\ init /\ ReadFrom < Size
  /\ shrinks > 0 /\ ReadFrom > 0
  /\ pc' = "notify"
  /\ UNCHANGED <<file, disk, memory, sent, relayed, begun, kills, drops>>

\* The lines go out one by one, in their order.
RelayOne(k) ==
  /\ queue' = queue \ {k}
  /\ relayed' = [relayed EXCEPT ![k] = @ + 1]
  /\ UNCHANGED <<file, disk, told, jobs, reached, pc, sent, begun, kills, drops>>

\* Slip (mutant): the last line goes out first.
RelayLineBackwards ==
  pc = "relay" /\ \E k \in queue : (\A j \in queue : j <= k) /\ RelayOne(k)

RelayLine ==
  pc = "relay" /\ \E k \in queue : (\A j \in queue : k <= j) /\ RelayOne(k)

\* Slip (mutant): where the read ended is taken for its length.
RelayDoneAdds ==
  /\ pc = "relay" /\ queue = {}
  /\ pc' = "notify"
  /\ offset' = offset + reached /\ saved' = told /\ reached' = 0
  /\ UNCHANGED <<file, init, told, jobs, queue, sent, relayed, begun, kills, drops>>

\* The end of the relay: the new offset is saved.
RelayDone ==
  /\ pc = "relay" /\ queue = {}
  /\ pc' = "notify"
  /\ offset' = reached /\ saved' = told /\ reached' = 0
  /\ UNCHANGED <<file, init, told, jobs, queue, sent, relayed, begun, kills, drops>>

\* A hello or an invite that was not sent yet; a user's hello comes first.
Notify(n) ==
  /\ pc = "notify" /\ n \in jobs \ told
  /\ n \in Invites => Greeting(n[1]) \in told
  /\ told' = told \cup {n}
  /\ sent' = [sent EXCEPT ![n] = @ + 1]
  /\ UNCHANGED <<file, disk, jobs, queue, reached, pc, relayed, begun, kills, drops>>

\* The end of the tick: the state is saved.
TickDone ==
  /\ pc = "notify" /\ jobs \subseteq told
  /\ pc' = "asleep"
  /\ saved' = told /\ jobs' = {}
  /\ UNCHANGED <<file, offset, init, told, queue, reached, sent, relayed, begun, kills, drops>>

\* The process is gone, with what it had in memory.
Gone ==
  /\ pc # "down"
  /\ pc' = "down"
  /\ told' = {} /\ jobs' = {} /\ queue' = {} /\ reached' = 0
  /\ UNCHANGED <<file, offset, init, sent, relayed, begun>>

\* Slips (mutants): the state is not saved when the connection is lost; all
\* the tick was to send is saved as sent.
DisconnectUnsaved ==
  Gone /\ drops < MaxDrops /\ drops' = drops + 1 /\ UNCHANGED <<saved, kills>>

DisconnectBooksAll ==
  Gone /\ drops < MaxDrops /\ drops' = drops + 1 /\ saved' = told \cup jobs /\ UNCHANGED kills

\* The connection is lost: amain saves the state and exits with an error, and
\* systemd starts the daemon again.
Disconnect ==
  Gone /\ drops < MaxDrops /\ drops' = drops + 1 /\ saved' = told /\ UNCHANGED kills

\* SIGTERM, which the daemon does not handle, or SIGKILL.
Kill == Gone /\ kills < MaxKills /\ kills' = kills + 1 /\ UNCHANGED <<saved, drops>>

Work ==
  \/ Start
  \/ NothingNew \/ InitOffset \/ ReadLines \/ ReadFails \/ RelayLine \/ RelayDone
  \/ \E n \in Notices : Notify(n)
  \/ TickDone

Next ==
  \/ CreateFile \/ AppendLine \/ Empty
  \/ Work \/ \E wanted \in SUBSET Invites : Tick(wanted)
  \/ Disconnect \/ Kill

Spec == Init /\ [][Next]_vars

-----------------------------------------------------------------------------
(* Types: every value the variables take.                                  *)
TypeOK ==
  /\ present \in BOOLEAN
  /\ first \in 0..last /\ last \in 0..MaxLines
  /\ saved \subseteq Notices /\ offset \in 0..MaxLines /\ init \in BOOLEAN
  /\ told \subseteq Notices /\ jobs \subseteq Notices
  /\ queue \subseteq Lines /\ reached \in 0..MaxLines
  /\ pc \in {"down", "asleep", "read", "relay", "notify"}
  /\ sent \in [Notices -> Nat] /\ relayed \in [Lines -> Nat] /\ begun \in 0..MaxLines
  /\ kills \in 0..MaxKills /\ drops \in 0..MaxDrops /\ shrinks \in 0..MaxShrinks

(* A notice is sent a second time only because a kill made the daemon      *)
(* forget it: a lost connection does not.                                  *)
SentAtMost == \A n \in Notices : sent[n] <= 1 + kills

(* A line goes out again only when a relay was cut off, once for each cut. *)
RelayedAtMost == \A k \in Lines : relayed[k] <= 1 + kills + drops

(* No line is passed over: as long as nobody emptied the file, every line  *)
(* after those the first tick skipped that the saved offset counts as      *)
(* relayed went out, however often the daemon was cut off in between.      *)
NoSilentLoss ==
  shrinks = 0 => \A k \in Lines : begun < k /\ k <= offset => relayed[k] > 0

(* Lines go out in their order: none before an earlier one did, and of     *)
(* those the offset does not count yet, which a cut relay repeats from the *)
(* first, a later one never more often than an earlier.                    *)
InOrder ==
  shrinks = 0 => \A j, k \in Lines : begun < j /\ j < k =>
    /\ relayed[k] > 0 => relayed[j] > 0
    /\ offset < j => relayed[k] <= relayed[j]

(* Line 994, do not replay old transcript history: a line the file held    *)
(* when the daemon first found it never goes out, through restarts and     *)
(* emptied files.                                                          *)
NoReplay == \A k \in Lines : relayed[k] > 0 => init /\ begun < k

(* Once the first tick has set the offset, each line appended goes out in  *)
(* the end, unless somebody empties the file.                              *)
EveryLine ==
  \A k \in Lines :
    (init /\ begun < k /\ k <= last) ~> (relayed[k] > 0 \/ shrinks > 0)

(* Once the daemon has started, every invite goes out in the end, and the  *)
(* hello with it.                                                          *)
EveryNotice == (pc # "down") ~> (\A n \in Notices : sent[n] > 0)
=============================================================================
