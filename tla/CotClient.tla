------------------------------ MODULE CotClient ------------------------------
(***************************************************************************)
(* Martine's CoT client: it watches TAK Server for devices, greets each    *)
(* one, and seeds the chat groups of its user's assignment, when that      *)
(* changed.  What a device has had is in a file of its own, written in     *)
(* place after the messages are sent.  One thread does it all; any error   *)
(* ends the session, and the next one begins with a poll.                  *)
(*                                                                         *)
(* Questions and their answers keep no state and are left out, as are the  *)
(* text of the messages and the client's presence.                         *)
(*                                                                         *)
(* Source: martine/chat/cot_tls_client.py.                                 *)
(***************************************************************************)
EXTENDS Naturals

CONSTANTS
  Devices,
  Plans,       \* assignments with chat groups to seed
  NoPlan,      \* one without, or one that could not be derived
  NoName,      \* no user is known for the device yet
  Seeds,       \* messages that seed a plan: two a group
  NoFile, NoText,
  MaxChanges,  \* bound: devices that come or go and assignments that change
  MaxCuts      \* bound: sessions lost and kills

ASSUME CotConstants ==
  /\ {NoPlan, NoName} \cap Plans = {} /\ NoPlan # NoName /\ NoName \notin Devices
  /\ NoFile # NoText
  /\ {NoFile, NoText} \cap [hello : BOOLEAN, plan : Plans \cup {NoPlan}] = {}
  /\ Seeds \in Nat \ {0} /\ MaxChanges \in Nat /\ MaxCuts \in Nat

VARIABLES
  recent,    \* devices TAK Server saw, not too long ago and not just now
  plan,      \* the assignment of each device's user
  record,    \* each device's file: the hello sent, the plan seeded
  phase,     \* where the client is
  rows,      \* devices of the poll still to look at
  dev,       \* the one it is at, [id, plan, state, changed]
  step,      \* seed messages sent
  greeted,   \* history: hellos sent to each device
  seeded,    \* history: seed messages of each plan sent to each device
  missed,    \* history: times the client was cut off at each device
  changes, cuts

world == <<recent, plan, changes>>
client == <<phase, rows, dev, step>>
messages == <<greeted, seeded>>
cotVars == <<world, client, messages, record, missed, cuts>>

New == [hello |-> FALSE, plan |-> NoPlan]
NoDevice == [id |-> NoName, plan |-> NoPlan, state |-> New, changed |-> FALSE]

CotInit ==
  /\ recent = {} /\ plan = [d \in Devices |-> NoName] /\ changes = 0
  /\ record = [d \in Devices |-> NoFile]
  /\ phase = "down" /\ rows = {} /\ dev = NoDevice /\ step = 0
  /\ greeted = [d \in Devices |-> 0] /\ seeded = [d \in Devices |-> [p \in Plans |-> 0]]
  /\ missed = [d \in Devices |-> 0] /\ cuts = 0

-----------------------------------------------------------------------------
(* The world: devices, and the onboarding of their users.                  *)

Change == changes < MaxChanges /\ changes' = changes + 1

ComeOrGo(d) ==
  /\ Change
  /\ recent' = IF d \in recent THEN recent \ {d} ELSE recent \cup {d}
  /\ UNCHANGED <<plan, client, messages, record, missed, cuts>>

Assign(d, p) ==
  /\ Change /\ plan[d] # p
  /\ plan' = [plan EXCEPT ![d] = p]
  /\ UNCHANGED <<recent, client, messages, record, missed, cuts>>

-----------------------------------------------------------------------------
(* The client.                                                             *)

Connect ==
  /\ phase = "down" /\ phase' = "connected"
  /\ UNCHANGED <<world, rows, dev, step, messages, record, missed, cuts>>

\* list_recent_client_devices, every 30 s and when a session begins.
PollDevices ==
  /\ phase = "connected" /\ phase' = "polled"
  /\ rows' = recent
  /\ UNCHANGED <<world, dev, step, messages, record, missed, cuts>>

\* Slip (mutant): a device without a user ends the poll.
LookAtReturns(d) ==
  /\ phase = "polled" /\ d \in rows
  /\ IF plan[d] = NoName
     THEN phase' = "connected" /\ rows' = {} /\ UNCHANGED dev
     ELSE /\ phase' = "hello" /\ rows' = rows \ {d}
          /\ dev' = [id |-> d, plan |-> plan[d], changed |-> FALSE,
                     state |-> IF record[d] \in {NoFile, NoText} THEN New ELSE record[d]]
  /\ UNCHANGED <<world, step, messages, record, missed, cuts>>

\* The plan and the file are read; a file that is empty counts as none.
LookAt(d) ==
  /\ phase = "polled" /\ d \in rows
  /\ rows' = rows \ {d}
  /\ IF plan[d] = NoName
     THEN UNCHANGED <<phase, dev>>
     ELSE /\ phase' = "hello"
          /\ dev' = [id |-> d, plan |-> plan[d], changed |-> FALSE,
                     state |-> IF record[d] \in {NoFile, NoText} THEN New ELSE record[d]]
  /\ UNCHANGED <<world, step, messages, record, missed, cuts>>

Polled ==
  /\ phase = "polled" /\ rows = {} /\ phase' = "connected"
  /\ UNCHANGED <<world, rows, dev, step, messages, record, missed, cuts>>

\* Slip (mutant): only a plan that was seeded makes the file worth saving.
SayHelloUnsaved ==
  /\ phase = "hello" /\ phase' = "seed"
  /\ IF dev.state.hello
     THEN UNCHANGED <<dev, greeted>>
     ELSE /\ greeted' = [greeted EXCEPT ![dev.id] = @ + 1]
          /\ dev' = [dev EXCEPT !.state.hello = TRUE]
  /\ UNCHANGED <<world, rows, step, seeded, record, missed, cuts>>

SayHello ==
  /\ phase = "hello" /\ phase' = "seed"
  /\ IF dev.state.hello
     THEN UNCHANGED <<dev, greeted>>
     ELSE /\ greeted' = [greeted EXCEPT ![dev.id] = @ + 1]
          /\ dev' = [dev EXCEPT !.state.hello = TRUE, !.changed = TRUE]
  /\ UNCHANGED <<world, rows, step, seeded, record, missed, cuts>>

Unseeded == dev.plan \in Plans /\ dev.plan # dev.state.plan

\* Group after group, the contacts and then a message.
Seed ==
  /\ phase = "seed" /\ Unseeded /\ step < Seeds
  /\ step' = step + 1
  /\ seeded' = [seeded EXCEPT ![dev.id][dev.plan] = @ + 1]
  /\ UNCHANGED <<world, phase, rows, dev, greeted, record, missed, cuts>>

\* Slip (mutant): the plan recorded is the one of now, not the one seeded.
SeededAnew ==
  /\ phase = "seed" /\ (Unseeded => step = Seeds) /\ phase' = "save" /\ step' = 0
  /\ dev' = IF Unseeded /\ plan[dev.id] # NoName
            THEN [dev EXCEPT !.state.plan = plan[dev.id], !.changed = TRUE] ELSE dev
  /\ UNCHANGED <<world, rows, messages, record, missed, cuts>>

Seeded ==
  /\ phase = "seed" /\ (Unseeded => step = Seeds) /\ phase' = "save" /\ step' = 0
  /\ dev' = IF Unseeded THEN [dev EXCEPT !.state.plan = dev.plan, !.changed = TRUE] ELSE dev
  /\ UNCHANGED <<world, rows, messages, record, missed, cuts>>

\* save_device_state opens the file, which empties it, and writes it.
OpenRecord ==
  /\ phase = "save"
  /\ IF dev.changed
     THEN phase' = "write" /\ record' = [record EXCEPT ![dev.id] = NoText] /\ UNCHANGED dev
     ELSE phase' = "polled" /\ dev' = NoDevice /\ UNCHANGED record
  /\ UNCHANGED <<world, rows, step, messages, missed, cuts>>

WriteRecord ==
  /\ phase = "write" /\ phase' = "polled"
  /\ record' = [record EXCEPT ![dev.id] = dev.state]
  /\ dev' = NoDevice
  /\ UNCHANGED <<world, rows, step, messages, missed, cuts>>

\* An error anywhere (the connection, the database, the disk), or a kill.
Lose ==
  /\ phase # "down" /\ cuts < MaxCuts
  /\ phase' = "down" /\ cuts' = cuts + 1
  /\ rows' = {} /\ dev' = NoDevice /\ step' = 0
  /\ missed' = IF dev = NoDevice THEN missed ELSE [missed EXCEPT ![dev.id] = @ + 1]
  /\ UNCHANGED <<world, messages, record>>

CotWork ==
  \/ Connect \/ PollDevices \/ (\E d \in Devices : LookAt(d)) \/ Polled
  \/ SayHello \/ Seed \/ Seeded \/ OpenRecord \/ WriteRecord

CotNext ==
  \/ \E d \in Devices : ComeOrGo(d) \/ \E p \in Plans \cup {NoPlan} : Assign(d, p)
  \/ CotWork \/ Lose

CotSpec == CotInit /\ [][CotNext]_cotVars

-----------------------------------------------------------------------------
(* Types: every value the variables take.                                  *)
States == [hello : BOOLEAN, plan : Plans \cup {NoPlan}]

CotTypeOK ==
  /\ recent \subseteq Devices /\ plan \in [Devices -> Plans \cup {NoPlan, NoName}]
  /\ record \in [Devices -> States \cup {NoFile, NoText}]
  /\ phase \in {"down", "connected", "polled", "hello", "seed", "save", "write"}
  /\ rows \subseteq Devices /\ step \in 0..Seeds
  /\ dev \in [id : Devices, plan : Plans \cup {NoPlan}, state : States, changed : BOOLEAN]
             \cup {NoDevice}
  /\ greeted \in [Devices -> Nat] /\ seeded \in [Devices -> [Plans -> Nat]]
  /\ missed \in [Devices -> Nat]
  /\ changes \in 0..MaxChanges /\ cuts \in 0..MaxCuts

(* A device is greeted once, and once more for each time the client was    *)
(* cut off at it, the writing of its file included; what happens at other  *)
(* devices, and a new assignment, greet nobody again.                      *)
GreetedAtMost == \A d \in Devices : greeted[d] <= 1 + missed[d]

(* A file that says a plan was seeded is right: every message of it went   *)
(* out, whatever the assignment became meanwhile and however often the     *)
(* client began again.                                                     *)
SeededWhole ==
  \A d \in Devices : \A p \in Plans :
    record[d] \notin {NoFile, NoText} /\ record[d].plan = p => seeded[d][p] >= Seeds

(* When no device comes or goes and no assignment changes any more, each   *)
(* device is greeted and has its plan on file in the end, in spite of      *)
(* sessions lost and of devices no user is known for.                      *)
Served(d) ==
  /\ record[d] \notin {NoFile, NoText} /\ record[d].hello
  /\ plan[d] \in Plans => record[d].plan = plan[d]

DevicesServed == []<>(\A d \in recent : plan[d] # NoName => Served(d))
=============================================================================
