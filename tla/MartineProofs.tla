---------------------------- MODULE MartineProofs ----------------------------
(***************************************************************************)
(* What holds of Martine's daemons for any values of the constants: of the *)
(* CoT client and of the voice service, each proved from one inductive     *)
(* invariant, and of the three together, that each runs as it does alone.  *)
(* What holds of the inviter is in XmppInviterProofs.                      *)
(***************************************************************************)
EXTENDS Martine, FiniteSetTheorems, SequenceTheorems, TLAPS

-----------------------------------------------------------------------------
(* The CoT client.                                                         *)

AtDevice == phase \in {"hello", "seed", "save", "write"}
OnFile(d) == record[d] \notin {NoFile, NoText}

\* The client has greeted d as far as it knows, or will know when it is at d.
KnownGreeted(d) ==
  IF AtDevice /\ dev.id = d THEN dev.state.hello ELSE OnFile(d) /\ record[d].hello

(* A device was greeted once for each time the client was cut off at it,   *)
(* and once more when the client knows.                                    *)
GreetInv ==
  \A d \in Devices : greeted[d] <= missed[d] + (IF KnownGreeted(d) THEN 1 ELSE 0)

(* Where the client is, and what it has of a device it is at.              *)
PlaceInv ==
  /\ AtDevice => dev # NoDevice
  /\ ~AtDevice => dev = NoDevice
  /\ phase # "seed" => step = 0
  /\ phase = "hello" => ~dev.changed
  /\ phase \in {"seed", "save"} => dev.state.hello
  /\ phase = "write" => dev.state.hello
  /\ AtDevice /\ ~dev.changed /\ dev.state.hello => record[dev.id] = dev.state

(* A plan the client has for seeded, on file or in memory, was sent whole; *)
(* of the one being seeded what the steps say was sent.                    *)
SeedInv ==
  /\ SeededWhole
  /\ \A p \in Plans : AtDevice /\ dev.state.plan = p => seeded[dev.id][p] >= Seeds
  /\ phase = "seed" /\ dev.plan \in Plans => seeded[dev.id][dev.plan] >= step

CotInv == CotTypeOK /\ PlaceInv /\ GreetInv /\ SeedInv

-----------------------------------------------------------------------------
LEMMA InitHolds == CotInit => CotInv
<1> SUFFICES ASSUME CotInit PROVE CotInv
  OBVIOUS
<1> USE CotConstants
<1>1. CotTypeOK
  BY DEF CotInit, CotTypeOK
<1>2. PlaceInv
  BY DEF CotInit, PlaceInv, AtDevice
<1>3. GreetInv
  <2> SUFFICES ASSUME NEW d \in Devices
               PROVE  greeted[d] <= missed[d] + (IF KnownGreeted(d) THEN 1 ELSE 0)
    BY DEF GreetInv
  <2>1. greeted[d] = 0 /\ missed[d] = 0 /\ record[d] = NoFile /\ ~AtDevice
    BY DEF CotInit, AtDevice
  <2>2. ~KnownGreeted(d)
    BY <2>1 DEF KnownGreeted, OnFile
  <2>3. (IF KnownGreeted(d) THEN 1 ELSE 0) = 0
    BY <2>2
  <2> QED BY <2>1, <2>3
<1>4. SeedInv
  BY DEF CotInit, SeedInv, SeededWhole, AtDevice
<1> QED
  BY <1>1, <1>2, <1>3, <1>4 DEF CotInv

(* What a device's record is; a device's is not the record of none.        *)
LEMMA DeviceTyped ==
  ASSUME CotInv, AtDevice
  PROVE  /\ dev \in [id : Devices, plan : Plans \cup {NoPlan}, state : States, changed : BOOLEAN]
         /\ dev.id \in Devices /\ dev.plan \in Plans \cup {NoPlan} /\ dev.changed \in BOOLEAN
         /\ dev.state \in States /\ dev.state.hello \in BOOLEAN
         /\ dev.state.plan \in Plans \cup {NoPlan}
  BY DEF CotInv, CotTypeOK, PlaceInv, States

(* The world and the steps between devices change nothing the invariant    *)
(* speaks of.                                                              *)
LEMMA Bystander ==
  ASSUME CotInv, CotTypeOK', ~AtDevice, ~AtDevice',
         UNCHANGED <<dev, step, messages, record, missed>>
  PROVE  CotInv'
  <1>1. PlaceInv'
    BY DEF CotInv, PlaceInv, AtDevice
  <1>2. GreetInv'
    BY DEF CotInv, GreetInv, KnownGreeted, OnFile, messages
  <1>3. SeedInv'
    BY DEF CotInv, SeedInv, SeededWhole, AtDevice, messages
  <1> QED BY <1>1, <1>2, <1>3 DEF CotInv

LEMMA WorldStep ==
  ASSUME CotInv, NEW d \in Devices,
         ComeOrGo(d) \/ \E p \in Plans \cup {NoPlan} : Assign(d, p)
  PROVE  CotInv'
  <1>1. UNCHANGED <<client, messages, record, missed, cuts>>
    BY DEF ComeOrGo, Assign
  <1>2. CotTypeOK'
    <2>1. recent' \subseteq Devices /\ plan' \in [Devices -> Plans \cup {NoPlan, NoName}]
      BY DEF ComeOrGo, Assign, CotInv, CotTypeOK
    <2>2. changes' \in 0..MaxChanges
      BY CotConstants DEF ComeOrGo, Assign, Change, CotInv, CotTypeOK
    <2> QED BY <1>1, <2>1, <2>2 DEF CotInv, CotTypeOK, client, messages
  <1>3. PlaceInv'
    BY <1>1 DEF CotInv, PlaceInv, AtDevice, client
  <1>4. GreetInv'
    BY <1>1 DEF CotInv, GreetInv, KnownGreeted, OnFile, AtDevice, client, messages
  <1>5. SeedInv'
    BY <1>1 DEF CotInv, SeedInv, SeededWhole, AtDevice, client, messages
  <1> QED BY <1>2, <1>3, <1>4, <1>5 DEF CotInv

LEMMA BetweenStep ==
  ASSUME CotInv, Connect \/ PollDevices \/ Polled
  PROVE  CotInv'
  <1>1. CotTypeOK'
    BY DEF Connect, PollDevices, Polled, CotInv, CotTypeOK, world, messages
  <1>2. ~AtDevice /\ ~AtDevice' /\ UNCHANGED <<dev, step, messages, record, missed>>
    BY DEF Connect, PollDevices, Polled, AtDevice
  <1> QED BY <1>1, <1>2, Bystander

LEMMA LookStep ==
  ASSUME CotInv, NEW d \in Devices, LookAt(d)
  PROVE  CotInv'
  <1>1. CASE plan[d] = NoName
    <2>1. CotTypeOK' /\ ~AtDevice /\ ~AtDevice' /\ UNCHANGED <<dev, step, messages, record, missed>>
      BY <1>1 DEF LookAt, CotInv, CotTypeOK, AtDevice, world, messages
    <2> QED BY <2>1, Bystander
  <1>2. CASE plan[d] # NoName
    <2> DEFINE read == IF record[d] \in {NoFile, NoText} THEN New ELSE record[d]
    <2>1. /\ phase = "polled" /\ phase' = "hello" /\ rows' = rows \ {d}
          /\ dev' = [id |-> d, plan |-> plan[d], changed |-> FALSE, state |-> read]
          /\ UNCHANGED <<world, step, messages, record, missed, cuts>>
      BY <1>2 DEF LookAt
    <2>2. read \in States
      BY DEF CotInv, CotTypeOK, New, States
    <2>3. CotTypeOK'
      BY <1>2, <2>1, <2>2 DEF CotInv, CotTypeOK, world, messages
    <2>4. PlaceInv'
      <3>1. AtDevice' /\ dev' # NoDevice
        BY <2>1, CotConstants DEF AtDevice, NoDevice
      <3>2. read.hello => record[d] = read
        BY DEF New
      <3> QED BY <2>1, <3>1, <3>2 DEF CotInv, PlaceInv
    <2>5. GreetInv'
      BY <2>1 DEF CotInv, GreetInv, KnownGreeted, AtDevice, OnFile, messages, New
    <2>6. SeedInv'
      <3>1. SeededWhole'
        BY <2>1 DEF CotInv, SeedInv, SeededWhole, messages
      <3>2. ASSUME NEW p \in Plans, read.plan = p PROVE seeded[d][p] >= Seeds
        <4>1. record[d] \notin {NoFile, NoText} /\ record[d].plan = p
          BY <3>2, CotConstants DEF New
        <4> QED BY <4>1 DEF CotInv, SeedInv, SeededWhole
      <3> QED BY <2>1, <3>1, <3>2 DEF SeedInv, AtDevice, messages
    <2> QED BY <2>3, <2>4, <2>5, <2>6 DEF CotInv
  <1> QED BY <1>1, <1>2

LEMMA HelloStep ==
  ASSUME CotInv, SayHello
  PROVE  CotInv'
  <1>1. AtDevice /\ AtDevice'
    BY DEF SayHello, AtDevice
  <1>2. /\ phase = "hello" /\ phase' = "seed"
        /\ UNCHANGED <<world, rows, step, seeded, record, missed, cuts>>
    BY DEF SayHello
  <1>3. CASE dev.state.hello
    <2>1. UNCHANGED <<dev, greeted>>
      BY <1>3 DEF SayHello
    <2>2. CotTypeOK' /\ PlaceInv'
      BY <1>1, <1>2, <1>3, <2>1 DEF CotInv, CotTypeOK, PlaceInv, AtDevice, world
    <2>3. GreetInv'
      BY <1>1, <1>2, <2>1 DEF CotInv, GreetInv, KnownGreeted, OnFile
    <2>4. SeedInv'
      BY <1>1, <1>2, <2>1, DeviceTyped DEF CotInv, CotTypeOK, PlaceInv, SeedInv, SeededWhole
    <2> QED BY <2>2, <2>3, <2>4 DEF CotInv
  <1>4. CASE ~dev.state.hello
    <2>1. /\ greeted' = [greeted EXCEPT ![dev.id] = @ + 1]
          /\ dev' = [dev EXCEPT !.state.hello = TRUE, !.changed = TRUE]
      BY <1>4 DEF SayHello
    <2>2. /\ dev'.id = dev.id /\ dev'.plan = dev.plan /\ dev'.changed
          /\ dev'.state.hello /\ dev'.state.plan = dev.state.plan
          /\ dev' \in [id : Devices, plan : Plans \cup {NoPlan}, state : States, changed : BOOLEAN]
      BY <1>1, <2>1, DeviceTyped DEF States
    <2>3. CotTypeOK'
      BY <1>1, <1>2, <2>1, <2>2, DeviceTyped DEF CotInv, CotTypeOK, world
    <2>4. PlaceInv'
      <3>1. dev' # NoDevice
        BY <2>2, CotConstants DEF NoDevice
      <3> QED BY <1>1, <1>2, <2>2, <3>1 DEF CotInv, PlaceInv
    <2>5. GreetInv'
      BY <1>1, <1>2, <1>4, <2>1, <2>2, DeviceTyped
         DEF CotInv, CotTypeOK, GreetInv, KnownGreeted, OnFile
    <2>6. SeedInv'
      BY <1>1, <1>2, <2>2, DeviceTyped DEF CotInv, CotTypeOK, PlaceInv, SeedInv, SeededWhole
    <2> QED BY <2>3, <2>4, <2>5, <2>6 DEF CotInv
  <1> QED BY <1>3, <1>4

LEMMA SeedStep ==
  ASSUME CotInv, Seed
  PROVE  CotInv'
  <1>1. AtDevice /\ AtDevice' /\ phase = "seed" /\ step < Seeds /\ Unseeded
        /\ step' = step + 1 /\ seeded' = [seeded EXCEPT ![dev.id][dev.plan] = @ + 1]
        /\ UNCHANGED <<world, phase, rows, dev, greeted, record, missed, cuts>>
    BY DEF Seed, AtDevice
  <1>2. \A d \in Devices, p \in Plans : seeded'[d][p] \in Nat /\ seeded'[d][p] >= seeded[d][p]
    BY <1>1, DeviceTyped DEF CotInv, CotTypeOK, Unseeded
  <1>3. seeded'[dev.id][dev.plan] = seeded[dev.id][dev.plan] + 1
    BY <1>1, DeviceTyped DEF CotInv, CotTypeOK, Unseeded
  <1>4. CotTypeOK'
    BY <1>1, DeviceTyped, CotConstants DEF CotInv, CotTypeOK, world, Unseeded
  <1>5. PlaceInv'
    BY <1>1 DEF CotInv, PlaceInv, AtDevice
  <1>6. GreetInv'
    BY <1>1 DEF CotInv, GreetInv, KnownGreeted, OnFile
  <1>7. SeedInv'
    BY <1>1, <1>2, <1>3, DeviceTyped, CotConstants DEF CotInv, CotTypeOK, SeedInv, SeededWhole
  <1> QED BY <1>4, <1>5, <1>6, <1>7 DEF CotInv

LEMMA SeededStep ==
  ASSUME CotInv, Seeded
  PROVE  CotInv'
  <1>1. AtDevice /\ AtDevice' /\ phase = "seed" /\ phase' = "save" /\ step' = 0
        /\ UNCHANGED <<world, rows, messages, record, missed, cuts>>
    BY DEF Seeded, AtDevice
  <1>2. CASE ~Unseeded
    <2>1. dev' = dev
      BY <1>2 DEF Seeded
    <2> QED BY <1>1, <2>1, CotConstants DEF CotInv, CotTypeOK, PlaceInv, AtDevice, GreetInv,
              KnownGreeted, OnFile, SeedInv, SeededWhole, world, messages
  <1>3. CASE Unseeded
    <2>1. step = Seeds /\ dev' = [dev EXCEPT !.state.plan = dev.plan, !.changed = TRUE]
      BY <1>3 DEF Seeded
    <2>2. /\ dev'.id = dev.id /\ dev'.changed
          /\ dev'.state.hello = dev.state.hello /\ dev'.state.plan = dev.plan
          /\ dev' \in [id : Devices, plan : Plans \cup {NoPlan}, state : States, changed : BOOLEAN]
      BY <1>1, <2>1, DeviceTyped DEF States
    <2>3. CotTypeOK'
      BY <1>1, <2>2, CotConstants DEF CotInv, CotTypeOK, world, messages
    <2>4. PlaceInv'
      <3>1. dev' # NoDevice
        BY <2>2, CotConstants DEF NoDevice
      <3> QED BY <1>1, <2>2, <3>1 DEF CotInv, PlaceInv
    <2>5. GreetInv'
      BY <1>1, <2>2 DEF CotInv, GreetInv, KnownGreeted, OnFile, messages
    <2>6. SeedInv'
      BY <1>1, <1>3, <2>1, <2>2 DEF CotInv, SeedInv, SeededWhole, messages, Unseeded
    <2> QED BY <2>3, <2>4, <2>5, <2>6 DEF CotInv
  <1> QED BY <1>2, <1>3

LEMMA SaveStep ==
  ASSUME CotInv, OpenRecord \/ WriteRecord
  PROVE  CotInv'
  <1>1. /\ AtDevice /\ phase \in {"save", "write"}
        /\ UNCHANGED <<world, rows, step, messages, missed, cuts>>
    BY DEF OpenRecord, WriteRecord, AtDevice
  <1>2. CASE OpenRecord /\ dev.changed
    <2>1. phase = "save" /\ phase' = "write" /\ dev' = dev
          /\ record' = [record EXCEPT ![dev.id] = NoText]
      BY <1>2 DEF OpenRecord
    <2>2. CotTypeOK'
      BY <1>1, <2>1 DEF CotInv, CotTypeOK, world, messages
    <2>3. PlaceInv'
      BY <1>1, <1>2, <2>1 DEF CotInv, PlaceInv, AtDevice
    <2>4. GreetInv'
      BY <1>1, <2>1, DeviceTyped
         DEF CotInv, CotTypeOK, GreetInv, KnownGreeted, OnFile, AtDevice, messages
    <2>5. SeedInv'
      BY <1>1, <2>1, DeviceTyped DEF CotInv, CotTypeOK, SeedInv, SeededWhole, AtDevice, messages
    <2> QED BY <2>2, <2>3, <2>4, <2>5 DEF CotInv
  <1>3. CASE phase' = "polled" /\ dev' = NoDevice /\ record' = [record EXCEPT ![dev.id] = dev.state]
             /\ dev.state.hello
    <2>1. CotTypeOK'
      BY <1>1, <1>3, DeviceTyped DEF CotInv, CotTypeOK, world, messages
    <2>2. PlaceInv'
      BY <1>1, <1>3 DEF CotInv, PlaceInv, AtDevice
    <2>3. \A d \in Devices : record'[d] = IF d = dev.id THEN dev.state ELSE record[d]
      BY <1>3 DEF CotInv, CotTypeOK
    <2>4. dev.state \notin {NoFile, NoText}
      BY <1>1, DeviceTyped, CotConstants DEF States
    <2>5. GreetInv'
      BY <1>1, <1>3, <2>3, <2>4, DeviceTyped
         DEF CotInv, GreetInv, KnownGreeted, OnFile, AtDevice, messages
    <2>6. SeedInv'
      BY <1>1, <1>3, <2>3, DeviceTyped DEF CotInv, SeedInv, SeededWhole, AtDevice, messages
    <2> QED BY <2>1, <2>2, <2>5, <2>6 DEF CotInv
  <1>4. CASE OpenRecord /\ ~dev.changed
    <2>1. record[dev.id] = dev.state /\ dev.state.hello
      BY <1>1, <1>4 DEF OpenRecord, CotInv, PlaceInv
    <2>2. record' = [record EXCEPT ![dev.id] = dev.state]
      BY <1>4, <2>1 DEF OpenRecord, CotInv, CotTypeOK
    <2> QED BY <1>3, <1>4, <2>1, <2>2 DEF OpenRecord
  <1>5. CASE WriteRecord
    BY <1>3, <1>5 DEF WriteRecord, CotInv, PlaceInv
  <1> QED BY <1>2, <1>4, <1>5

LEMMA LoseStep ==
  ASSUME CotInv, Lose
  PROVE  CotInv'
  <1>1. /\ ~AtDevice' /\ phase' = "down" /\ cuts < MaxCuts /\ cuts' = cuts + 1
        /\ rows' = {} /\ dev' = NoDevice /\ step' = 0
        /\ missed' = IF dev = NoDevice THEN missed ELSE [missed EXCEPT ![dev.id] = @ + 1]
        /\ UNCHANGED <<world, messages, record>>
    BY DEF Lose, AtDevice
  <1>2. CotTypeOK'
    <2>1. missed' \in [Devices -> Nat]
      BY <1>1 DEF CotInv, CotTypeOK
    <2>2. cuts' \in 0..MaxCuts /\ step' \in 0..Seeds
      BY <1>1, CotConstants DEF CotInv, CotTypeOK
    <2> QED BY <1>1, <2>1, <2>2 DEF CotInv, CotTypeOK, world, messages
  <1>3. PlaceInv'
    BY <1>1 DEF PlaceInv
  <1>4. GreetInv'
    <2> SUFFICES ASSUME NEW d \in Devices
                 PROVE  greeted[d] <= missed'[d] + (IF OnFile(d) /\ record[d].hello THEN 1 ELSE 0)
      BY <1>1 DEF GreetInv, KnownGreeted, OnFile, messages
    <2>1. CASE AtDevice /\ dev.id = d
      <3>1. missed'[d] = missed[d] + 1
        BY <1>1, <2>1 DEF CotInv, CotTypeOK, PlaceInv
      <3> QED BY <3>1 DEF CotInv, CotTypeOK, GreetInv
    <2>2. CASE ~(AtDevice /\ dev.id = d)
      <3>1. missed'[d] = missed[d]
        BY <1>1, <2>2 DEF CotInv, CotTypeOK, PlaceInv
      <3> QED BY <2>2, <3>1 DEF CotInv, GreetInv, KnownGreeted
    <2> QED BY <2>1, <2>2
  <1>5. SeedInv'
    BY <1>1 DEF CotInv, SeedInv, SeededWhole, messages
  <1> QED BY <1>2, <1>3, <1>4, <1>5 DEF CotInv

LEMMA Stutter ==
  ASSUME CotInv, UNCHANGED cotVars
  PROVE  CotInv'
  BY DEF CotInv, CotTypeOK, PlaceInv, AtDevice, GreetInv, KnownGreeted, OnFile, SeedInv,
         SeededWhole, cotVars, world, client, messages

(* The invariant holds for ever.                                           *)
LEMMA Serving == CotSpec => []CotInv
<1>1. CotInv /\ [CotNext]_cotVars => CotInv'
  BY WorldStep, BetweenStep, LookStep, HelloStep, SeedStep, SeededStep, SaveStep, LoseStep, Stutter
     DEF CotNext, CotWork
<1> QED
  BY <1>1, InitHolds, PTL DEF CotSpec

-----------------------------------------------------------------------------
(* For any devices, plans and bounds: the client's state is well-typed.    *)
THEOREM CotTyped == CotSpec => []CotTypeOK
<1>1. CotInv => CotTypeOK
  BY DEF CotInv
<1> QED
  BY <1>1, Serving, PTL

(* For any devices, plans and bounds: a device is greeted once, and once   *)
(* more for each time the client was cut off at it.                        *)
THEOREM GreetedOnce == CotSpec => []GreetedAtMost
<1>1. CotInv => GreetedAtMost
  <2> SUFFICES ASSUME CotInv, NEW d \in Devices PROVE greeted[d] <= 1 + missed[d]
    BY DEF GreetedAtMost
  <2>1. greeted[d] \in Nat /\ missed[d] \in Nat
    BY DEF CotInv, CotTypeOK
  <2> QED BY <2>1 DEF CotInv, GreetInv
<1> QED
  BY <1>1, Serving, PTL

(* For any devices, plans and bounds: of a plan a device's file says was   *)
(* seeded, every message went out.                                         *)
THEOREM SeededOnFile == CotSpec => []SeededWhole
<1>1. CotInv => SeededWhole
  BY DEF CotInv, SeedInv
<1> QED
  BY <1>1, Serving, PTL

-----------------------------------------------------------------------------
(* The voice service.                                                      *)

\* The state of the service has its types.
VoiceTypeOK ==
  /\ ingest \in Seq(Chunks) /\ work \in Seq(CutSegments)
  /\ active \in [Speakers -> Segments \cup {NoSegment}]
  /\ done \in [Speakers -> Seq(CutSegments)]
  /\ stage \in {"poll", "cut", "flushed"} /\ took \in BOOLEAN /\ stops \in 0..MaxStops
  /\ heard \in [Speakers -> Nat] /\ quiet \in [Speakers -> 0..Silence]
  /\ paused \in [Speakers -> SUBSET Nat] /\ waited \in [Speakers -> SUBSET Nat]

(* The speaker's chunks up to out went out, up to cut were cut, up to      *)
(* grown are in the segment that grows, and the others wait.               *)
Held(k, out, cut, grown) ==
  /\ Spoken(k, done[k]) = 1 .. out /\ Spoken(k, work) = out + 1 .. cut
  /\ Growing(k) = cut + 1 .. grown /\ Queued(k) = grown + 1 .. heard[k]

(* A segment that fell silent did so where the speaker paused, or where a  *)
(* chunk was kept waiting: its age is the speaker's silence when no chunk  *)
(* waits, and short of silence when the next one came without a pause.     *)
Clock(k, grown) ==
  IF grown = heard[k]
  THEN IF active[k] = NoSegment
       THEN grown = 0 \/ grown \in waited[k] \/ quiet[k] = Silence
       ELSE grown \in waited[k] \/ active[k].age = quiet[k]
  ELSE IF active[k] = NoSegment
       THEN grown = 0 \/ grown + 1 \in paused[k] \cup waited[k] \/ grown \in waited[k]
       ELSE \/ grown \in waited[k] \/ grown + 1 \in waited[k] \cup paused[k]
            \/ active[k].age < Silence

(* The rest of a long transmission, before its first chunk, knows what it  *)
(* goes on from.                                                           *)
Rest(k, grown) ==
  active[k] # NoSegment /\ active[k].parts = <<>> =>
    /\ active[k].index # 0 /\ active[k].split
    /\ \A a \in Pieces(k) : a.parts # <<>> /\ Last(a.parts) = grown =>
         active[k].index = a.index + 1 /\ a.split /\ Len(a.parts) = MaxLen

(* A chunk that time has not passed over in the queue is fresh, and the    *)
(* speaker is not quiet when it is the last.                               *)
Stamps(k) ==
  \A c \in Of(k, ingest) :
    c.n \in waited[k] \/ (c.age = 0 /\ (c.n = heard[k] => quiet[k] = 0))

CutRight(k) ==
  \A a, b \in Pieces(k) :
    Follows(b, a) =>
      IF b.index = 0
      THEN \/ Head(b.parts) \in paused[k] \cup waited[k]
           \/ Last(a.parts) \in waited[k]
      ELSE /\ b.index = a.index + 1 /\ a.split /\ b.split
           /\ Len(a.parts) = MaxLen

GrowsRight(k) ==
  active[k] # NoSegment => Rising(active[k].parts) /\ Len(active[k].parts) < MaxLen

SpeakerInv(k) ==
  /\ \E out, cut, grown \in Nat :
       /\ out <= cut /\ cut <= grown /\ grown <= heard[k]
       /\ Held(k, out, cut, grown) /\ Clock(k, grown) /\ Rest(k, grown)
  /\ InTurn(k, done[k]) /\ GrowsRight(k) /\ Stamps(k) /\ CutRight(k)

\* A speaker's chunks wait in the order they were spoken in.
QueueInv ==
  \A i, j \in DOMAIN ingest :
    i < j /\ ingest[i].who = ingest[j].who => ingest[i].n < ingest[j].n

\* Nothing cut is left when the loop polls, and of a speaker there is one segment.
WorkInv ==
  /\ stage = "poll" => work = <<>>
  /\ \A i \in DOMAIN work : Rising(work[i].parts)
  /\ \A i, j \in DOMAIN work : work[i].who = work[j].who => i = j

VoiceInv == VoiceTypeOK /\ WorkInv /\ QueueInv /\ \A k \in Speakers : SpeakerInv(k)

-----------------------------------------------------------------------------
(* Sequences of chunks and segments.                                       *)
LEMMA Appended ==
  ASSUME NEW S, NEW s \in Seq(S), NEW e \in S
  PROVE  /\ Append(s, e) \in Seq(S) /\ Range(Append(s, e)) = Range(s) \cup {e}
         /\ \A k : Of(k, Append(s, e)) = Of(k, s) \cup {x \in {e} : x.who = k}
<1>1. /\ Append(s, e) \in Seq(S) /\ Len(Append(s, e)) = Len(s) + 1
      /\ \A i \in 1 .. Len(s) : Append(s, e)[i] = s[i]
      /\ Append(s, e)[Len(s) + 1] = e
  BY AppendProperties
<1>2. Len(s) \in Nat /\ DOMAIN s = 1 .. Len(s) /\ DOMAIN Append(s, e) = 1 .. Len(s) + 1
  BY <1>1
<1>3. Range(Append(s, e)) = Range(s) \cup {e}
  <2>1. ASSUME NEW x \in Range(Append(s, e)) PROVE x \in Range(s) \cup {e}
    BY <1>1, <1>2 DEF Range
  <2>2. ASSUME NEW x \in Range(s) PROVE x \in Range(Append(s, e))
    <3>1. PICK i \in 1 .. Len(s) : x = s[i]
      BY <1>2 DEF Range
    <3>2. Append(s, e)[i] = x /\ i \in DOMAIN Append(s, e)
      BY <1>1, <1>2, <3>1
    <3> QED BY <3>2 DEF Range
  <2>3. e \in Range(Append(s, e))
    BY <1>1, <1>2 DEF Range
  <2> QED BY <2>1, <2>2, <2>3
<1>4. \A k : Of(k, Append(s, e)) = Of(k, s) \cup {x \in {e} : x.who = k}
  BY <1>3 DEF Of
<1> QED BY <1>1, <1>3, <1>4

LEMMA Tailed ==
  ASSUME NEW S, NEW s \in Seq(S), s # <<>>
  PROVE  /\ Head(s) \in S /\ Tail(s) \in Seq(S)
         /\ Head(s) = s[1] /\ 1 \in DOMAIN s
         /\ \A i \in DOMAIN Tail(s) : i + 1 \in DOMAIN s /\ i + 1 > 1 /\ Tail(s)[i] = s[i + 1]
         /\ \A k : Of(k, s) = Of(k, Tail(s)) \cup {x \in {Head(s)} : x.who = k}
<1>1. /\ Head(s) \in S /\ Tail(s) \in Seq(S) /\ Len(Tail(s)) = Len(s) - 1
      /\ \A i \in 1 .. Len(Tail(s)) : Tail(s)[i] = s[i + 1]
  BY HeadTailProperties
<1>2. /\ Len(s) \in Nat /\ Len(s) # 0 /\ DOMAIN s = 1 .. Len(s)
      /\ DOMAIN Tail(s) = 1 .. Len(s) - 1 /\ Head(s) = s[1]
  BY <1>1
<1>3. Range(s) = Range(Tail(s)) \cup {Head(s)}
  <2>1. ASSUME NEW x \in Range(s) PROVE x \in Range(Tail(s)) \cup {Head(s)}
    <3>1. PICK i \in 1 .. Len(s) : x = s[i]
      BY <1>2 DEF Range
    <3>2. CASE i = 1
      BY <1>2, <3>1, <3>2
    <3>3. CASE i # 1
      <4>1. i - 1 \in DOMAIN Tail(s) /\ Tail(s)[i - 1] = x
        BY <1>1, <1>2, <3>1, <3>3
      <4> QED BY <4>1 DEF Range
    <3> QED BY <3>2, <3>3
  <2>2. ASSUME NEW x \in Range(Tail(s)) PROVE x \in Range(s)
    <3>1. PICK i \in 1 .. Len(s) - 1 : x = Tail(s)[i]
      BY <1>2 DEF Range
    <3>2. i + 1 \in DOMAIN s /\ s[i + 1] = x
      BY <1>1, <1>2, <3>1
    <3> QED BY <3>2 DEF Range
  <2>3. Head(s) \in Range(s)
    BY <1>2 DEF Range
  <2> QED BY <2>1, <2>2, <2>3
<1>4. \A k : Of(k, s) = Of(k, Tail(s)) \cup {x \in {Head(s)} : x.who = k}
  BY <1>3 DEF Of
<1> QED BY <1>1, <1>2, <1>4

LEMMA Listed ==
  ASSUME NEW S, NEW n \in Nat, NEW f \in [1 .. n -> S]
  PROVE  f \in Seq(S)
BY SeqDef

LEMMA MineAppended ==
  ASSUME NEW s \in Seq(CutSegments), NEW p \in CutSegments
  PROVE  /\ Append(s, p) \in Seq(CutSegments)
         /\ Of(p.who, Append(s, p)) = Of(p.who, s) \cup {p}
<1>1. {x \in {p} : x.who = p.who} = {p}
  OBVIOUS
<1> QED BY <1>1, Appended

LEMMA None == \A k : Of(k, <<>>) = {} /\ Spoken(k, <<>>) = {}
BY DEF Of, Spoken, Range

-----------------------------------------------------------------------------
(* What is not of a speaker changes nothing of what is said of it.         *)
LEMMA NotMine ==
  ASSUME NEW k \in Speakers, SpeakerInv(k),
         done'[k] = done[k], active'[k] = active[k], heard'[k] = heard[k],
         quiet'[k] = quiet[k], paused'[k] = paused[k], waited'[k] = waited[k],
         Of(k, work)' = Of(k, work), Of(k, ingest)' = Of(k, ingest)
  PROVE  SpeakerInv(k)'
<1>1. /\ Pieces(k)' = Pieces(k) /\ Spoken(k, work)' = Spoken(k, work)
      /\ Growing(k)' = Growing(k) /\ Queued(k)' = Queued(k)
      /\ Spoken(k, done[k])' = Spoken(k, done[k])
  <2>1. Of(k, done[k])' = Of(k, done[k])
    BY DEF Of
  <2>2. Pieces(k)' = Pieces(k)
    BY <2>1 DEF Pieces
  <2> QED BY <2>1, <2>2 DEF Spoken, Growing, Queued
<1>2. ASSUME NEW out, NEW cut, NEW grown, Held(k, out, cut, grown), Clock(k, grown), Rest(k, grown)
      PROVE  (Held(k, out, cut, grown) /\ Clock(k, grown) /\ Rest(k, grown))'
  BY <1>1, <1>2 DEF Held, Clock, Rest
<1>3. (InTurn(k, done[k]) /\ GrowsRight(k) /\ Stamps(k) /\ CutRight(k))'
  BY <1>1 DEF SpeakerInv, InTurn, GrowsRight, Stamps, CutRight
<1> QED BY <1>2, <1>3 DEF SpeakerInv

-----------------------------------------------------------------------------
\* The service just started.
Blank ==
  /\ ingest = <<>> /\ work = <<>> /\ stage = "poll" /\ took = FALSE /\ stops \in 0..MaxStops
  /\ active = [k \in Speakers |-> NoSegment]
  /\ heard = [k \in Speakers |-> 0] /\ quiet = [k \in Speakers |-> Silence]
  /\ paused = [k \in Speakers |-> {}] /\ waited = [k \in Speakers |-> {}]
  /\ done = [k \in Speakers |-> <<>>]

LEMMA BlankHolds == Blank => VoiceInv
<1> SUFFICES ASSUME Blank PROVE VoiceInv
  OBVIOUS
<1>1. VoiceTypeOK
  <2>1. /\ ingest \in Seq(Chunks) /\ work \in Seq(CutSegments)
        /\ done \in [Speakers -> Seq(CutSegments)]
    BY DEF Blank
  <2>2. quiet \in [Speakers -> 0..Silence]
    BY VoiceConstants DEF Blank
  <2> QED BY <2>1, <2>2 DEF Blank, VoiceTypeOK
<1>2. WorkInv /\ QueueInv
  BY DEF Blank, WorkInv, QueueInv
<1>3. ASSUME NEW k \in Speakers PROVE SpeakerInv(k)
  <2>1. /\ done[k] = <<>> /\ active[k] = NoSegment /\ heard[k] = 0 /\ work = <<>> /\ ingest = <<>>
    BY DEF Blank
  <2>2. Of(k, done[k]) = {} /\ Of(k, work) = {} /\ Of(k, ingest) = {} /\ Pieces(k) = {}
    BY <2>1, None DEF Pieces
  <2>3. Held(k, 0, 0, 0)
    BY <2>1, <2>2 DEF Held, Spoken, Growing, Queued
  <2>4. Clock(k, 0) /\ Rest(k, 0) /\ GrowsRight(k) /\ Stamps(k) /\ CutRight(k)
    BY <2>1, <2>2 DEF Clock, Rest, GrowsRight, Stamps, CutRight
  <2>5. InTurn(k, done[k])
    BY <2>1 DEF InTurn
  <2> QED BY <2>1, <2>3, <2>4, <2>5 DEF SpeakerInv
<1> QED BY <1>1, <1>2, <1>3 DEF VoiceInv

LEMMA BlankAfter == Blank' => VoiceInv'
BY BlankHolds, PTL

-----------------------------------------------------------------------------
(* What is known of a chunk, of a segment and of a speaker.                *)
LEMMA Typed ==
  ASSUME VoiceInv, NEW k \in Speakers
  PROVE  /\ heard[k] \in Nat /\ quiet[k] \in 0 .. Silence /\ Silence \in Nat \ {0}
         /\ MaxLen \in Nat \ {0}
         /\ paused[k] \in SUBSET Nat /\ waited[k] \in SUBSET Nat
         /\ done[k] \in Seq(CutSegments) /\ work \in Seq(CutSegments) /\ ingest \in Seq(Chunks)
         /\ active[k] \in Segments \cup {NoSegment} /\ SpeakerInv(k)
BY VoiceConstants DEF VoiceInv, VoiceTypeOK

LEMMA OfTyped ==
  ASSUME NEW S, NEW s \in Seq(S), NEW k
  PROVE  Of(k, s) \subseteq S
BY DEF Of, Range

LEMMA HearStep ==
  ASSUME VoiceInv, NEW s \in Speakers, Hear(s)
  PROVE  VoiceInv'
<1> DEFINE c == [who |-> s, n |-> heard[s] + 1, age |-> 0]
<1>1. /\ heard' = [heard EXCEPT ![s] = @ + 1] /\ ingest' = Append(ingest, c)
      /\ quiet' = [quiet EXCEPT ![s] = 0]
      /\ paused' = IF quiet[s] = Silence THEN [paused EXCEPT ![s] = @ \cup {heard[s] + 1}]
                   ELSE paused
      /\ UNCHANGED <<active, work, stage, took, done, waited, stops>>
  BY DEF Hear, loop
<1>2. c \in Chunks /\ c.who = s /\ c.n = heard[s] + 1 /\ c.age = 0
  BY Typed DEF Chunks
<1> HIDE DEF c
<1>3. /\ ingest' \in Seq(Chunks)
      /\ \A k : Of(k, ingest') = Of(k, ingest) \cup {x \in {c} : x.who = k}
  BY <1>1, <1>2, Appended, Typed
<1>4. VoiceTypeOK'
  <2>1. VoiceTypeOK /\ heard[s] \in Nat /\ 0 \in 0 .. Silence
    BY Typed DEF VoiceInv
  <2>2. heard' \in [Speakers -> Nat] /\ quiet' \in [Speakers -> 0..Silence]
    BY <1>1, <2>1 DEF VoiceTypeOK
  <2>3. paused' \in [Speakers -> SUBSET Nat]
    BY <1>1, <2>1 DEF VoiceTypeOK
  <2> QED BY <1>1, <1>3, <2>1, <2>2, <2>3 DEF VoiceTypeOK
<1>5. WorkInv'
  BY <1>1 DEF VoiceInv, WorkInv
<1>6. QueueInv'
  <2>1. /\ ingest \in Seq(Chunks) /\ Len(ingest') = Len(ingest) + 1 /\ Len(ingest) \in Nat
        /\ \A i \in 1 .. Len(ingest) : ingest'[i] = ingest[i]
        /\ ingest'[Len(ingest) + 1] = c /\ DOMAIN ingest = 1 .. Len(ingest)
        /\ DOMAIN ingest' = 1 .. Len(ingest) + 1
    BY <1>1, <1>2, Typed, AppendProperties
  <2>2. ASSUME NEW i \in 1 .. Len(ingest), ingest[i].who = s PROVE ingest[i].n < c.n
    <3>1. ingest[i] \in Of(s, ingest)
      BY <2>1, <2>2 DEF Of, Range
    <3>2. ingest[i].n \in Queued(s)
      BY <3>1 DEF Queued
    <3>3. PICK grown \in Nat : Queued(s) = grown + 1 .. heard[s]
      BY Typed DEF SpeakerInv, Held
    <3> QED BY <1>2, <3>2, <3>3, Typed
  <2> QED BY <1>2, <2>1, <2>2 DEF VoiceInv, QueueInv
<1>7. ASSUME NEW k \in Speakers, k # s PROVE SpeakerInv(k)'
  <2>1. Of(k, ingest)' = Of(k, ingest) /\ Of(k, work)' = Of(k, work)
    BY <1>1, <1>2, <1>3, <1>7 DEF Of
  <2>2. /\ done'[k] = done[k] /\ active'[k] = active[k] /\ heard'[k] = heard[k]
        /\ quiet'[k] = quiet[k] /\ paused'[k] = paused[k] /\ waited'[k] = waited[k]
    BY <1>1, <1>7 DEF VoiceInv, VoiceTypeOK
  <2> QED BY <2>1, <2>2, Typed, NotMine
<1>8. SpeakerInv(s)'
  <2>1. PICK out \in Nat, cut \in Nat, grown \in Nat :
          /\ out <= cut /\ cut <= grown /\ grown <= heard[s]
          /\ Held(s, out, cut, grown) /\ Clock(s, grown) /\ Rest(s, grown)
    BY Typed DEF SpeakerInv
  <2>2. /\ heard'[s] = heard[s] + 1 /\ quiet'[s] = 0 /\ waited'[s] = waited[s]
        /\ paused'[s] = IF quiet[s] = Silence THEN paused[s] \cup {heard[s] + 1} ELSE paused[s]
        /\ Of(s, ingest)' = Of(s, ingest) \cup {c}
    BY <1>1, <1>2, <1>3 DEF VoiceInv, VoiceTypeOK
  <2>3. Pieces(s)' = Pieces(s) /\ Growing(s)' = Growing(s)
        /\ Spoken(s, done[s])' = Spoken(s, done[s]) /\ Spoken(s, work)' = Spoken(s, work)
    BY <1>1 DEF Pieces, Growing
  <2>4. Queued(s)' = Queued(s) \cup {heard[s] + 1}
    BY <1>2, <2>2 DEF Queued
  <2>5. Held(s, out, cut, grown)'
    <3>1. heard'[s] = heard[s] + 1 /\ heard[s] \in Nat
      BY <2>2, Typed
    <3>2. Queued(s)' = grown + 1 .. heard[s] + 1
      BY <2>1, <2>4, <3>1 DEF Held
    <3> QED BY <2>1, <2>3, <3>1, <3>2 DEF Held
  <2>6. Clock(s, grown)'
    <3>1. grown # heard'[s] /\ grown <= heard[s]
      BY <2>1, <2>2, Typed
    <3> QED BY <1>1, <2>1, <2>2, <3>1, Typed DEF Clock, Segments
  <2>7. Rest(s, grown)' /\ InTurn(s, done[s])' /\ GrowsRight(s)'
    <3>1. GrowsRight(s) /\ InTurn(s, done[s])
      BY Typed DEF SpeakerInv
    <3>2. Rest(s, grown)'
      BY <1>1, <2>1, <2>3 DEF Rest
    <3> QED BY <1>1, <3>1, <3>2 DEF GrowsRight, InTurn
  <2>8. Stamps(s)'
    <3>1. ASSUME NEW x \in Of(s, ingest) PROVE x.n \in waited[s] \/ (x.age = 0 /\ x.n # heard'[s])
      <4>1. x.n \in Queued(s)
        BY DEF Queued
      <4>2. x.n \in grown + 1 .. heard[s] /\ heard[s] \in Nat
        BY <2>1, <4>1, Typed DEF Held
      <4>3. x.n # heard'[s]
        BY <2>2, <4>2
      <4>4. SpeakerInv(s)
        BY Typed
      <4> QED BY <4>3, <4>4 DEF SpeakerInv, Stamps
    <3> QED BY <1>2, <2>2, <3>1 DEF Stamps
  <2>9. CutRight(s)'
    BY <2>2, <2>3, Typed DEF SpeakerInv, CutRight
  <2> QED BY <2>1, <2>2, <2>5, <2>6, <2>7, <2>8, <2>9, Typed DEF SpeakerInv
<1> QED BY <1>4, <1>5, <1>6, <1>7, <1>8 DEF VoiceInv

LEMMA PassStep ==
  ASSUME VoiceInv, Pass
  PROVE  VoiceInv'
<1>1. /\ ingest' = [i \in DOMAIN ingest |-> [ingest[i] EXCEPT !.age = Older(@)]]
      /\ active' = [k \in Speakers |-> IF active[k] = NoSegment THEN NoSegment
                                       ELSE [active[k] EXCEPT !.age = Older(@)]]
      /\ quiet' = [k \in Speakers |-> Older(quiet[k])]
      /\ waited' = [k \in Speakers |->
           waited[k] \cup {ingest[i].n : i \in {j \in DOMAIN ingest : ingest[j].who = k}}]
      /\ UNCHANGED <<heard, paused, work, stage, took, done, stops>>
  BY DEF Pass
<1>2. \A age \in 0 .. Silence : Older(age) \in 0 .. Silence
  BY VoiceConstants DEF Older
<1>3. /\ DOMAIN ingest' = DOMAIN ingest /\ ingest' \in Seq(Chunks)
      /\ \A i \in DOMAIN ingest : ingest'[i].who = ingest[i].who /\ ingest'[i].n = ingest[i].n
  <2>1. ingest \in Seq(Chunks) /\ DOMAIN ingest = 1 .. Len(ingest) /\ Len(ingest) \in Nat
    BY DEF VoiceInv, VoiceTypeOK
  <2>2. \A i \in DOMAIN ingest : ingest[i] \in Chunks
    BY <2>1
  <2>3. \A i \in DOMAIN ingest : /\ ingest'[i] \in Chunks
                                 /\ ingest'[i].who = ingest[i].who /\ ingest'[i].n = ingest[i].n
    BY <1>1, <1>2, <2>2 DEF Chunks
  <2>4. DOMAIN ingest' = DOMAIN ingest /\ ingest' \in [1 .. Len(ingest) -> Chunks]
    BY <1>1, <2>1, <2>3
  <2> QED BY <2>1, <2>3, <2>4, Listed
<1>4. ASSUME NEW k \in Speakers
      PROVE  /\ active'[k] = NoSegment <=> active[k] = NoSegment
             /\ active[k] # NoSegment =>
                  /\ active'[k].parts = active[k].parts /\ active'[k].index = active[k].index
                  /\ active'[k].split = active[k].split /\ active'[k].age = Older(active[k].age)
                  /\ active'[k] \in Segments
  BY <1>1, <1>2, <1>4, Typed, NoSegmentIsNone DEF Segments
<1>5. ASSUME NEW k \in Speakers
      PROVE  /\ Queued(k)' = Queued(k) /\ waited'[k] = waited[k] \cup Queued(k)
             /\ Queued(k) \subseteq Nat
             /\ \A x \in Of(k, ingest') : x.n \in waited'[k]
  <2>1. \A n : n \in Queued(k) <=> \E i \in DOMAIN ingest : ingest[i].who = k /\ ingest[i].n = n
    BY DEF Queued, Of, Range
  <2>2. \A n : n \in Queued(k)' <=> \E i \in DOMAIN ingest' : ingest'[i].who = k /\ ingest'[i].n = n
    BY DEF Queued, Of, Range
  <2>3. \A n : n \in Queued(k)' <=> n \in Queued(k)
    BY <1>3, <2>1, <2>2
  <2>4. waited'[k] = waited[k] \cup Queued(k)
    BY <1>1, <2>1
  <2>5. \A x \in Of(k, ingest') : x.n \in Queued(k)'
    BY DEF Queued
  <2>6. Queued(k) \subseteq Nat
    <3>1. Of(k, ingest) \subseteq Chunks
      BY Typed, OfTyped
    <3> QED BY <3>1 DEF Queued, Chunks
  <2> QED BY <2>3, <2>4, <2>5, <2>6
<1>6. VoiceTypeOK'
  <2>1. active' \in [Speakers -> Segments \cup {NoSegment}]
    BY <1>1, <1>4
  <2>2. waited' \in [Speakers -> SUBSET Nat]
    <3>1. waited' = [k \in Speakers |-> waited'[k]]
      BY <1>1
    <3>2. \A k \in Speakers : waited'[k] \in SUBSET Nat
      BY <1>5, Typed
    <3> QED BY <3>1, <3>2
  <2>3. quiet' \in [Speakers -> 0 .. Silence]
    BY <1>1, <1>2 DEF VoiceInv, VoiceTypeOK
  <2> QED BY <1>1, <1>3, <2>1, <2>2, <2>3 DEF VoiceInv, VoiceTypeOK
<1>7. WorkInv' /\ QueueInv'
  <2>1. WorkInv'
    BY <1>1 DEF VoiceInv, WorkInv
  <2>2. QueueInv'
    BY <1>3 DEF VoiceInv, QueueInv
  <2> QED BY <2>1, <2>2
<1>8. ASSUME NEW k \in Speakers PROVE SpeakerInv(k)'
  <2>1. PICK out \in Nat, cut \in Nat, grown \in Nat :
          /\ out <= cut /\ cut <= grown /\ grown <= heard[k]
          /\ Held(k, out, cut, grown) /\ Clock(k, grown) /\ Rest(k, grown)
    BY Typed DEF SpeakerInv
  <2>2. /\ Pieces(k)' = Pieces(k) /\ Growing(k)' = Growing(k)
        /\ Spoken(k, done[k])' = Spoken(k, done[k]) /\ Spoken(k, work)' = Spoken(k, work)
    <3>1. Growing(k)' = Growing(k)
      BY <1>4 DEF Growing
    <3>2. active[k] # NoSegment => Piece(k, active[k], FALSE)' = Piece(k, active[k], FALSE)
      BY <1>4 DEF Piece
    <3> QED BY <1>1, <1>4, <3>1, <3>2 DEF Pieces
  <2>3. Held(k, out, cut, grown)'
    BY <1>1, <1>5, <2>1, <2>2 DEF Held
  <2>4. Clock(k, grown)'
    <3>1. CASE grown = heard[k]
      <4>1. waited'[k] = waited[k]
        <5>1. Queued(k) = {}
          BY <2>1, <3>1, Typed DEF Held
        <5> QED BY <1>5, <5>1
      <4>2. quiet'[k] = Older(quiet[k])
        BY <1>1
      <4>3. Older(Silence) = Silence
        BY VoiceConstants DEF Older
      <4> QED BY <1>1, <1>4, <2>1, <3>1, <4>1, <4>2, <4>3 DEF Clock
    <3>2. CASE grown # heard[k]
      <4>1. grown + 1 \in waited'[k]
        BY <1>5, <2>1, <3>2, Typed DEF Held
      <4> QED BY <1>1, <3>2, <4>1 DEF Clock
    <3> QED BY <3>1, <3>2
  <2>5. Rest(k, grown)' /\ GrowsRight(k)' /\ InTurn(k, done[k])'
    <3>1. GrowsRight(k) /\ InTurn(k, done[k])
      BY Typed DEF SpeakerInv
    <3>2. Rest(k, grown)'
      BY <1>4, <2>1, <2>2 DEF Rest
    <3>3. GrowsRight(k)'
      BY <1>4, <3>1 DEF GrowsRight
    <3>4. InTurn(k, done[k])'
      BY <1>1, <3>1 DEF InTurn
    <3> QED BY <3>2, <3>3, <3>4
  <2>6. Stamps(k)'
    BY <1>5 DEF Stamps
  <2>7. CutRight(k)'
    BY <1>1, <1>5, <2>2, Typed DEF SpeakerInv, CutRight
  <2> QED BY <1>1, <2>1, <2>3, <2>4, <2>5, <2>6, <2>7 DEF SpeakerInv
<1> QED BY <1>6, <1>7, <1>8 DEF VoiceInv

-----------------------------------------------------------------------------
(* The segments of a speaker hold what was taken from the queue.           *)
LEMMA PieceBounds ==
  ASSUME VoiceInv, NEW k \in Speakers, NEW out \in Nat, NEW cut \in Nat, NEW grown \in Nat,
         out <= cut, cut <= grown, Held(k, out, cut, grown),
         NEW p \in Pieces(k), p.parts # <<>>
  PROVE  /\ Head(p.parts) \in 1 .. grown /\ Last(p.parts) \in 1 .. grown
         /\ p \in CutSegments
<1>1. p \in CutSegments
  <2>1. Of(k, done[k]) \subseteq CutSegments /\ Of(k, work) \subseteq CutSegments
    BY Typed, OfTyped
  <2>2. active[k] # NoSegment => Piece(k, active[k], FALSE) \in CutSegments
    BY Typed DEF Piece, Segments, CutSegments
  <2> QED BY <2>1, <2>2 DEF Pieces
<1>2. Range(p.parts) \subseteq 1 .. grown
  <2>1. CASE p \in Of(k, done[k])
    <3>1. Range(p.parts) \subseteq 1 .. out
      BY <2>1 DEF Held, Spoken
    <3> QED BY <3>1
  <2>2. CASE p \in Of(k, work)
    <3>1. Range(p.parts) \subseteq out + 1 .. cut
      BY <2>2 DEF Held, Spoken
    <3> QED BY <3>1
  <2>3. CASE active[k] # NoSegment /\ p = Piece(k, active[k], FALSE)
    <3>1. Range(p.parts) \subseteq cut + 1 .. grown
      BY <2>3 DEF Held, Growing, Piece
    <3> QED BY <3>1
  <2> QED BY <2>1, <2>2, <2>3 DEF Pieces
<1>3. Head(p.parts) \in Range(p.parts) /\ Last(p.parts) \in Range(p.parts)
  <2>1. p.parts \in Seq(Nat)
    BY <1>1 DEF CutSegments
  <2>2. /\ Len(p.parts) \in Nat /\ Len(p.parts) # 0 /\ DOMAIN p.parts = 1 .. Len(p.parts)
        /\ Head(p.parts) = p.parts[1]
    BY <2>1
  <2> QED BY <2>2 DEF Range, Last
<1> QED BY <1>1, <1>2, <1>3

(* The next chunk of a speaker is the first of those that wait.            *)
LEMMA NextInLine ==
  ASSUME VoiceInv, ingest # <<>>, NEW grown \in Nat,
         Queued(Head(ingest).who) = grown + 1 .. heard[Head(ingest).who]
  PROVE  /\ Head(ingest).n = grown + 1 /\ grown + 1 <= heard[Head(ingest).who]
         /\ {x.n : x \in Of(Head(ingest).who, Tail(ingest))}
              = grown + 2 .. heard[Head(ingest).who]
<1> DEFINE c == Head(ingest)
           k == c.who
<1>1. /\ c \in Chunks /\ Tail(ingest) \in Seq(Chunks) /\ c = ingest[1] /\ 1 \in DOMAIN ingest
      /\ \A i \in DOMAIN Tail(ingest) :
           i + 1 \in DOMAIN ingest /\ i + 1 > 1 /\ Tail(ingest)[i] = ingest[i + 1]
      /\ Of(k, ingest) = Of(k, Tail(ingest)) \cup {c}
  <2>1. ingest \in Seq(Chunks)
    BY DEF VoiceInv, VoiceTypeOK
  <2> QED BY <2>1, Tailed
<1>2. k \in Speakers /\ c.n \in Nat
  BY <1>1 DEF Chunks
<1>3. ASSUME NEW x \in Of(k, Tail(ingest)) PROVE x.n > c.n /\ x \in Chunks
  <2>1. PICK i \in DOMAIN Tail(ingest) : x = Tail(ingest)[i]
    BY DEF Of, Range
  <2>2. x.who = k
    BY DEF Of
  <2>3. x \in Chunks
    BY <1>1, OfTyped
  <2>4. ingest[1].n < ingest[i + 1].n
    BY <1>1, <2>1, <2>2 DEF VoiceInv, QueueInv
  <2> QED BY <1>1, <1>2, <2>1, <2>3, <2>4 DEF Chunks
<1>4. /\ c.n \in Queued(k)
      /\ \A n \in Queued(k) : n = c.n \/ \E x \in Of(k, Tail(ingest)) : x.n = n
      /\ \A x \in Of(k, Tail(ingest)) : x.n \in Queued(k)
  BY <1>1 DEF Queued
<1>5. c.n = grown + 1 /\ grown + 1 <= heard[k]
  <2>1. c.n \in grown + 1 .. heard[k] /\ heard[k] \in Nat
    BY <1>2, <1>4, Typed
  <2>2. grown + 1 \in Queued(k)
    BY <2>1
  <2> QED BY <1>2, <1>3, <1>4, <2>1, <2>2 DEF Chunks
<1>6. ASSUME NEW n
      PROVE  (\E x \in Of(k, Tail(ingest)) : x.n = n) <=> n \in grown + 2 .. heard[k]
  <2>1. heard[k] \in Nat
    BY <1>2, Typed
  <2>2. ASSUME NEW x \in Of(k, Tail(ingest)) PROVE x.n \in grown + 2 .. heard[k]
    <3>1. x.n \in grown + 1 .. heard[k] /\ x.n > grown + 1
      BY <1>3, <1>4, <1>5
    <3> QED BY <2>1, <3>1
  <2>3. ASSUME n \in grown + 2 .. heard[k] PROVE \E x \in Of(k, Tail(ingest)) : x.n = n
    <3>1. n \in Queued(k) /\ n # c.n
      BY <1>5, <2>1, <2>3
    <3> QED BY <1>4, <3>1
  <2> QED BY <2>2, <2>3
<1> QED BY <1>5, <1>6

(* The segment a chunk goes on from, and the one it makes.                 *)
Before(k) == IF active[k] = NoSegment THEN Fresh ELSE active[k]

LEMMA BeforeTyped ==
  ASSUME VoiceInv, NEW k \in Speakers
  PROVE  /\ Before(k) \in Segments /\ Range(Before(k).parts) = Growing(k)
         /\ Rising(Before(k).parts) /\ Len(Before(k).parts) < MaxLen
<1>1. CASE active[k] = NoSegment
  <2>1. Before(k) = Fresh
    BY <1>1 DEF Before
  <2>2. /\ Fresh \in Segments /\ Fresh.parts = <<>> /\ Range(<<>>) = {}
    BY VoiceConstants DEF Fresh, Segments, Range
  <2> QED BY <1>1, <2>1, <2>2, VoiceConstants DEF Growing, Rising
<1>2. CASE active[k] # NoSegment
  BY <1>2, Typed DEF Before, Growing, SpeakerInv, GrowsRight
<1> QED BY <1>1, <1>2

LEMMA ExtendedTyped ==
  ASSUME VoiceInv, NEW c \in Chunks, \A n \in Growing(c.who) : n < c.n
  PROVE  LET a == Extended(c)
         IN  /\ a \in Segments /\ a.age = c.age /\ a.index = Before(c.who).index
             /\ a.split = Before(c.who).split /\ a.parts # <<>>
             /\ Range(a.parts) = Growing(c.who) \cup {c.n} /\ Rising(a.parts)
             /\ Len(a.parts) = Len(Before(c.who).parts) + 1 /\ Last(a.parts) = c.n
             /\ Head(a.parts) = IF Before(c.who).parts = <<>> THEN c.n
                                ELSE Head(Before(c.who).parts)
<1> DEFINE a == Extended(c)
           b == Before(c.who)
           s == b.parts
<1>1. c.who \in Speakers /\ c.n \in Nat /\ c.age \in 0 .. Silence
  BY DEF Chunks
<1>2. /\ b \in Segments /\ Range(s) = Growing(c.who) /\ Rising(s) /\ Len(s) < MaxLen
      /\ s \in Seq(Nat)
  BY <1>1, BeforeTyped DEF Segments
<1>3. a = [b EXCEPT !.parts = Append(@, c.n), !.age = c.age]
  BY DEF Extended, Before
<1> HIDE DEF b
<1>4. /\ Append(s, c.n) \in Seq(Nat) /\ Append(s, c.n) # <<>>
      /\ Len(Append(s, c.n)) = Len(s) + 1 /\ Len(s) \in Nat
      /\ \A i \in 1 .. Len(s) : Append(s, c.n)[i] = s[i]
      /\ Append(s, c.n)[Len(s) + 1] = c.n
      /\ Range(Append(s, c.n)) = Range(s) \cup {c.n}
      /\ DOMAIN s = 1 .. Len(s) /\ DOMAIN Append(s, c.n) = 1 .. Len(s) + 1
  <2>1. s \in Seq(Nat) /\ c.n \in Nat
    BY <1>1, <1>2
  <2>2. Range(Append(s, c.n)) = Range(s) \cup {c.n}
    BY <2>1, Appended
  <2>3. /\ Append(s, c.n) \in Seq(Nat) /\ Append(s, c.n) # <<>>
        /\ Len(Append(s, c.n)) = Len(s) + 1
        /\ \A i \in 1 .. Len(s) : Append(s, c.n)[i] = s[i]
        /\ Append(s, c.n)[Len(s) + 1] = c.n
    BY <2>1, AppendProperties
  <2>4. /\ Len(s) \in Nat /\ DOMAIN s = 1 .. Len(s)
        /\ DOMAIN Append(s, c.n) = 1 .. Len(Append(s, c.n))
    BY <2>1, <2>3
  <2> QED BY <2>2, <2>3, <2>4
<1>5. /\ a \in Segments /\ a.parts = Append(s, c.n) /\ a.age = c.age
      /\ a.index = b.index /\ a.split = b.split
  BY <1>1, <1>2, <1>3, <1>4 DEF Segments
<1>6. Rising(Append(s, c.n))
  <2>1. \A i \in DOMAIN s : s[i] < c.n
    BY <1>2 DEF Range
  <2>2. ASSUME NEW i \in 1 .. Len(s) + 1, NEW j \in 1 .. Len(s) + 1, i < j
        PROVE  Append(s, c.n)[i] < Append(s, c.n)[j]
    <3>1. i \in 1 .. Len(s) /\ (j \in 1 .. Len(s) \/ j = Len(s) + 1)
      <4>1. Len(s) \in Nat
        BY <1>4
      <4> QED BY <2>2, <4>1
    <3>2. CASE j \in 1 .. Len(s)
      BY <1>2, <1>4, <2>2, <3>1, <3>2 DEF Rising
    <3>3. CASE j = Len(s) + 1
      BY <1>4, <2>1, <3>1, <3>3
    <3> QED BY <3>1, <3>2, <3>3
  <2> QED BY <1>4, <2>2 DEF Rising
<1>7. Last(Append(s, c.n)) = c.n
  BY <1>4 DEF Last
<1>8. Head(Append(s, c.n)) = IF s = <<>> THEN c.n ELSE Head(s)
  BY <1>2, HeadTailAppend
<1> QED BY <1>2, <1>4, <1>5, <1>6, <1>7, <1>8 DEF b

LEMMA TakeStep ==
  ASSUME VoiceInv, Take
  PROVE  VoiceInv'
<1> SUFFICES ASSUME NEW c, c = Head(ingest) PROVE VoiceInv'
  OBVIOUS
<1> SUFFICES ASSUME NEW k, k = c.who PROVE VoiceInv'
  OBVIOUS
<1> SUFFICES ASSUME NEW a, a = Extended(c), NEW b, b = Before(k) PROVE VoiceInv'
  OBVIOUS
<1> SUFFICES ASSUME NEW long \in BOOLEAN, long <=> Len(a.parts) >= MaxLen PROVE VoiceInv'
  OBVIOUS
<1> SUFFICES ASSUME NEW P, P = Piece(k, a, long), NEW rest, rest = Continued(a, <<>>)
             PROVE  VoiceInv'
  OBVIOUS
<1>1. /\ stage = "poll" /\ ingest # <<>>
      /\ ingest' = Tail(ingest) /\ stage' = "cut" /\ took' = TRUE
      /\ active' = [active EXCEPT ![k] = IF long THEN rest ELSE a]
      /\ work' = IF long THEN <<Piece(k, a, TRUE)>> ELSE <<>>
      /\ UNCHANGED <<heard, quiet, paused, waited, done, stops>>
  BY DEF Take
<1>2. /\ c \in Chunks /\ Tail(ingest) \in Seq(Chunks)
      /\ \A i \in DOMAIN Tail(ingest) :
           i + 1 \in DOMAIN ingest /\ i + 1 > 1 /\ Tail(ingest)[i] = ingest[i + 1]
      /\ DOMAIN Tail(ingest) \subseteq Nat
      /\ \A s : Of(s, ingest) = Of(s, Tail(ingest)) \cup {x \in {c} : x.who = s}
  <2>1. ingest \in Seq(Chunks)
    BY DEF VoiceInv, VoiceTypeOK
  <2>2. DOMAIN Tail(ingest) \subseteq Nat
    <3>1. Tail(ingest) \in Seq(Chunks)
      BY <1>1, <2>1, Tailed
    <3> QED BY <3>1
  <2> QED BY <1>1, <2>1, <2>2, Tailed
<1>3. k \in Speakers /\ c.n \in Nat /\ c.age \in 0 .. Silence /\ c \in Of(k, ingest)
  BY <1>2 DEF Chunks
<1>4. work = <<>>
  BY <1>1 DEF VoiceInv, WorkInv
<1>5. PICK out \in Nat, cut \in Nat, grown \in Nat :
        /\ out <= cut /\ cut <= grown /\ grown <= heard[k]
        /\ Held(k, out, cut, grown) /\ Clock(k, grown) /\ Rest(k, grown)
  BY <1>3, Typed DEF SpeakerInv
<1>6. /\ c.n = grown + 1 /\ grown + 1 <= heard[k]
      /\ {x.n : x \in Of(k, Tail(ingest))} = grown + 2 .. heard[k]
  BY <1>1, <1>5, NextInLine DEF Held
<1>7. /\ a \in Segments /\ a.age = c.age /\ a.index = b.index
      /\ a.split = b.split /\ a.parts # <<>>
      /\ Range(a.parts) = Growing(k) \cup {c.n} /\ Rising(a.parts)
      /\ Len(a.parts) = Len(b.parts) + 1 /\ Last(a.parts) = c.n
      /\ Head(a.parts) = IF b.parts = <<>> THEN c.n ELSE Head(b.parts)
  <2>1. \A n \in Growing(k) : n < c.n
    BY <1>5, <1>6 DEF Held
  <2> QED BY <1>2, <2>1, ExtendedTyped
<1>8. b \in Segments /\ Len(b.parts) < MaxLen /\ Len(b.parts) \in Nat
  BY <1>3, BeforeTyped DEF Segments
<1>9. out = cut
  <2>1. out + 1 .. cut = {}
    BY <1>4, <1>5, None DEF Held
  <2> QED BY <1>5, <2>1
<1>10. /\ P \in CutSegments /\ P.who = k /\ P.parts = a.parts /\ P.index = a.index
       /\ P.split = (a.split \/ long)
       /\ rest \in Segments /\ rest.parts = <<>> /\ rest.age = c.age
       /\ rest.index = a.index + 1 /\ rest.index # 0 /\ rest.split
  BY <1>3, <1>7 DEF Piece, Continued, CutSegments, Segments
<1>11. Len(a.parts) \in Nat /\ (long => Len(a.parts) = MaxLen) /\ (~long => Len(a.parts) < MaxLen)
  BY <1>7, <1>8, VoiceConstants
<1>12. /\ active'[k] = (IF long THEN rest ELSE a) /\ active'[k] # NoSegment
       /\ active'[k].age = c.age /\ active'[k].parts = (IF long THEN <<>> ELSE a.parts)
       /\ \A s \in Speakers \ {k} : active'[s] = active[s]
       /\ active' \in [Speakers -> Segments \cup {NoSegment}]
  <2>1. active \in [Speakers -> Segments \cup {NoSegment}]
    BY DEF VoiceInv, VoiceTypeOK
  <2>2. rest # NoSegment /\ a # NoSegment
    BY <1>7, <1>10, NoSegmentIsNone
  <2> QED BY <1>1, <1>3, <1>7, <1>10, <2>1, <2>2
<1>13. /\ work' \in Seq(CutSegments)
       /\ long => work' = <<P>> /\ \A s : Of(s, work') = {x \in {P} : x.who = s}
       /\ ~long => work' = <<>> /\ \A s : Of(s, work') = {}
  <2>1. CASE long
    <3>1. Piece(k, a, TRUE) = P
      BY <2>1 DEF Piece
    <3>2. work' = <<P>>
      BY <1>1, <2>1, <3>1
    <3>3. Range(<<P>>) = {P}
      BY DEF Range
    <3>4. \A s : Of(s, <<P>>) = {x \in {P} : x.who = s}
      BY <3>3 DEF Of
    <3>5. <<P>> \in Seq(CutSegments)
      BY <1>10
    <3> QED BY <2>1, <3>2, <3>4, <3>5
  <2>2. CASE ~long
    <3>1. work' = <<>>
      BY <1>1, <2>2
    <3>2. <<>> \in Seq(CutSegments)
      OBVIOUS
    <3>3. \A s : Of(s, work') = {}
      BY <3>1, None
    <3> QED BY <2>2, <3>1, <3>2, <3>3
  <2> QED BY <2>1, <2>2
<1>14. VoiceTypeOK'
  BY <1>1, <1>2, <1>12, <1>13 DEF VoiceInv, VoiceTypeOK
<1>15. WorkInv'
  <2>1. CASE long
    <3>1. work' = <<P>>
      BY <1>13, <2>1
    <3>2. \A i \in DOMAIN <<P>> : i = 1 /\ <<P>>[i] = P
      OBVIOUS
    <3>3. Rising(P.parts)
      BY <1>7, <1>10
    <3>4. \A i \in DOMAIN work' : i = 1 /\ work'[i] = P
      BY <3>1, <3>2
    <3> QED BY <1>1, <3>3, <3>4 DEF WorkInv
  <2>2. CASE ~long
    BY <1>1, <1>13, <2>2 DEF WorkInv
  <2> QED BY <2>1, <2>2
<1>16. QueueInv'
  BY <1>1, <1>2 DEF VoiceInv, QueueInv
<1>17. ASSUME NEW s \in Speakers, s # k PROVE SpeakerInv(s)'
  <2>1. Of(s, ingest)' = Of(s, ingest)
    <3>1. Of(s, ingest) = Of(s, Tail(ingest))
      <4>1. {x \in {c} : x.who = s} = {}
        BY <1>17
      <4> QED BY <1>2, <4>1
    <3> QED BY <1>1, <3>1
  <2>2. Of(s, work)' = Of(s, work)
    <3>1. Of(s, work) = {}
      BY <1>4, None
    <3>2. {x \in {P} : x.who = s} = {}
      BY <1>10, <1>17
    <3>3. Of(s, work') = {}
      BY <1>13, <3>2
    <3> QED BY <3>1, <3>3
  <2> QED BY <1>1, <1>12, <1>17, <2>1, <2>2, Typed, NotMine
<1>18. \E w \in Nat : out <= w /\ w <= grown + 1 /\ Held(k, out, w, grown + 1)'
  <2>1. Spoken(k, done[k])' = 1 .. out
    BY <1>1, <1>5 DEF Held
  <2>2. Range(a.parts) = cut + 1 .. grown + 1
    <3>1. Growing(k) = cut + 1 .. grown
      BY <1>5 DEF Held
    <3>2. Range(a.parts) = Growing(k) \cup {grown + 1}
      BY <1>6, <1>7
    <3>3. cut + 1 .. grown + 1 = (cut + 1 .. grown) \cup {grown + 1}
      BY <1>5
    <3> QED BY <3>1, <3>2, <3>3
  <2>3. Queued(k)' = grown + 2 .. heard'[k]
    BY <1>1, <1>6 DEF Queued
  <2>4. ASSUME long PROVE Held(k, out, grown + 1, grown + 1)'
    <3>1. Spoken(k, work)' = cut + 1 .. grown + 1
      <4>1. Of(k, work') = {P} /\ Range(P.parts) = cut + 1 .. grown + 1
        <5>1. P.who = k /\ P.parts = a.parts
          BY <1>10
        <5>2. {x \in {P} : x.who = k} = {P}
          BY <5>1
        <5>3. \A s : Of(s, work') = {x \in {P} : x.who = s}
          BY <1>13, <2>4
        <5> QED BY <2>2, <5>1, <5>2, <5>3
      <4> QED BY <4>1 DEF Spoken
    <3>2. Growing(k)' = {}
      <4>1. active'[k].parts = <<>> /\ Range(<<>>) = {}
        BY <1>12, <2>4 DEF Range
      <4> QED BY <1>12, <4>1 DEF Growing
    <3>3. (grown + 1) + 1 .. grown + 1 = {} /\ grown + 2 = (grown + 1) + 1
      OBVIOUS
    <3> QED BY <1>9, <2>1, <2>3, <3>1, <3>2, <3>3 DEF Held
  <2>5. ASSUME ~long PROVE Held(k, out, cut, grown + 1)'
    <3>1. Spoken(k, work)' = {} /\ out + 1 .. cut = {}
      BY <1>9, <1>13, <2>5 DEF Spoken
    <3>2. Growing(k)' = cut + 1 .. grown + 1
      BY <1>12, <2>2, <2>5 DEF Growing
    <3>3. grown + 2 = (grown + 1) + 1
      OBVIOUS
    <3> QED BY <2>1, <2>3, <3>1, <3>2, <3>3 DEF Held
  <2>6. /\ grown + 1 \in Nat /\ out <= grown + 1 /\ cut <= grown + 1 /\ out <= cut
        /\ grown + 1 <= grown + 1
    BY <1>5
  <2> QED BY <2>4, <2>5, <2>6
<1>19. Clock(k, grown + 1)'
  <2>1. c.n \in waited[k] \/ (c.age = 0 /\ (c.n = heard[k] => quiet[k] = 0))
    BY <1>3, Typed DEF SpeakerInv, Stamps
  <2>2. 0 < Silence
    BY VoiceConstants
  <2> QED BY <1>1, <1>6, <1>12, <2>1, <2>2 DEF Clock
<1>20. \A x : x \in Pieces(k)' /\ x.parts # <<>> => x = P \/ x \in Of(k, done[k])
  <2>1. Of(k, work)' \subseteq {P} /\ Of(k, done[k])' = Of(k, done[k])
    <3>1. Of(k, work') \subseteq {P}
      BY <1>13
    <3> QED BY <1>1, <3>1
  <2>2. ~long => Piece(k, active[k], FALSE)' = P
    BY <1>12 DEF Piece
  <2>3. long => Piece(k, active[k], FALSE)'.parts = <<>>
    BY <1>12 DEF Piece
  <2> QED BY <1>12, <2>1, <2>2, <2>3 DEF Pieces
<1>21. ASSUME NEW x \in Of(k, done[k]), x.parts # <<>>
       PROVE  x \in Pieces(k) /\ Head(x.parts) \in 1 .. grown /\ Last(x.parts) \in 1 .. grown
  <2>1. x \in Pieces(k)
    BY DEF Pieces
  <2> QED BY <1>3, <1>5, <1>21, <2>1, PieceBounds
<1>22. Rest(k, grown + 1)'
  <2> SUFFICES ASSUME long, NEW x \in Pieces(k)', x.parts # <<>>, Last(x.parts) = grown + 1
               PROVE  rest.index = x.index + 1 /\ x.split /\ Len(x.parts) = MaxLen
    BY <1>7, <1>10, <1>12 DEF Rest
  <2>1. x = P
    <3>1. x \in Of(k, done[k]) => Last(x.parts) \in 1 .. grown
      BY <1>21
    <3>2. grown + 1 \notin 1 .. grown
      OBVIOUS
    <3>3. x = P \/ x \in Of(k, done[k])
      BY <1>20
    <3> QED BY <3>1, <3>2, <3>3
  <2> QED BY <1>10, <1>11, <2>1
<1>23. CutRight(k)'
  <2> SUFFICES ASSUME NEW x \in Pieces(k)', NEW y \in Pieces(k)', Follows(y, x)
               PROVE  IF y.index = 0
                      THEN \/ Head(y.parts) \in paused[k] \cup waited[k]
                           \/ Last(x.parts) \in waited[k]
                      ELSE /\ y.index = x.index + 1 /\ x.split /\ y.split
                           /\ Len(x.parts) = MaxLen
    BY <1>1 DEF CutRight
  <2>1. x.parts # <<>> /\ y.parts # <<>> /\ Head(y.parts) = Last(x.parts) + 1
    BY DEF Follows
  <2>2. CutRight(k)
    BY <1>3, Typed DEF SpeakerInv
  <2>3. Head(P.parts) \in 1 .. grown + 1 /\ Last(P.parts) = grown + 1
    <3>1. CASE b.parts = <<>>
      BY <1>6, <1>7, <1>10, <3>1
    <3>2. CASE b.parts # <<>>
      <4>1. Head(b.parts) \in Range(b.parts)
        <5>1. b.parts \in Seq(Nat)
          BY <1>8 DEF Segments
        <5> QED BY <3>2, <5>1 DEF Range
      <4>2. Range(b.parts) = cut + 1 .. grown
        BY <1>3, <1>5, BeforeTyped DEF Held
      <4> QED BY <1>5, <1>6, <1>7, <1>10, <3>2, <4>1, <4>2
    <3> QED BY <3>1, <3>2
  <2>4. x # P /\ x \in Of(k, done[k])
    BY <1>20, <1>21, <2>1, <2>3
  <2>5. CASE y \in Of(k, done[k])
    BY <1>21, <2>1, <2>2, <2>4, <2>5 DEF CutRight
  <2>6. CASE y = P /\ b.parts # <<>>
    <3> DEFINE before == Piece(k, active[k], FALSE)
    <3>1. active[k] # NoSegment /\ b = active[k]
      BY <2>6 DEF Before, Fresh
    <3>2. /\ before \in Pieces(k) /\ before.parts = b.parts /\ before.index = b.index
          /\ before.split = b.split
      BY <1>3, <1>8, <3>1 DEF Pieces, Piece, Segments
    <3>3. Follows(before, x) /\ Head(before.parts) = Head(y.parts) /\ before.index = y.index
      BY <1>7, <1>10, <2>1, <2>6, <3>2 DEF Follows
    <3>4. before.split => y.split
      BY <1>7, <1>10, <2>6, <3>2
    <3> HIDE DEF before
    <3> QED BY <1>21, <2>1, <2>2, <2>4, <3>2, <3>3, <3>4 DEF CutRight
  <2>7. CASE y = P /\ b.parts = <<>>
    <3>1. Head(y.parts) = grown + 1 /\ Last(x.parts) = grown /\ grown # 0 /\ grown # heard[k]
          /\ x \in Pieces(k)
      <4>1. Head(y.parts) = grown + 1
        BY <1>6, <1>7, <1>10, <2>7
      <4>2. x \in Pieces(k) /\ Last(x.parts) \in 1 .. grown
        BY <1>21, <2>1, <2>4
      <4>3. Last(x.parts) = grown /\ grown # 0
        BY <2>1, <4>1, <4>2
      <4>4. grown # heard[k]
        BY <1>6
      <4> QED BY <4>1, <4>2, <4>3, <4>4
    <3>2. CASE active[k] = NoSegment
      <4>1. y.index = 0
        BY <1>7, <1>10, <2>7, <3>2 DEF Before, Fresh
      <4> QED BY <1>5, <3>1, <3>2, <4>1 DEF Clock
    <3>3. CASE active[k] # NoSegment
      <4>1. /\ b = active[k] /\ y.index = active[k].index
            /\ y.split = (active[k].split \/ long)
        BY <1>7, <1>10, <2>7, <3>3 DEF Before
      <4> QED BY <1>5, <2>1, <2>7, <3>1, <3>3, <4>1 DEF Rest
    <3> QED BY <3>2, <3>3
  <2> QED BY <1>20, <2>1, <2>5, <2>6, <2>7
<1>24. InTurn(k, done[k])' /\ GrowsRight(k)' /\ Stamps(k)'
  <2>1. InTurn(k, done[k])'
    <3>1. InTurn(k, done[k])
      <4>1. SpeakerInv(k)
        BY <1>3, Typed
      <4> QED BY <4>1 DEF SpeakerInv
    <3>2. done'[k] = done[k]
      BY <1>1
    <3>3. InTurn(k, done'[k])
      BY <3>1, <3>2
    <3> QED BY <3>3 DEF InTurn
  <2>2. GrowsRight(k)'
    <3>1. Rising(<<>>) /\ Len(<<>>) < MaxLen
      BY VoiceConstants DEF Rising
    <3> QED BY <1>7, <1>11, <1>12, <3>1 DEF GrowsRight
  <2>3. Stamps(k)'
    BY <1>1, <1>2, <1>3, Typed DEF SpeakerInv, Stamps
  <2> QED BY <2>1, <2>2, <2>3
<1>25. SpeakerInv(k)'
  <2>1. grown + 1 \in Nat /\ grown + 1 <= heard'[k]
    BY <1>1, <1>5, <1>6
  <2> QED BY <1>18, <1>19, <1>22, <1>23, <1>24, <2>1 DEF SpeakerInv
<1> QED BY <1>14, <1>15, <1>16, <1>17, <1>25 DEF VoiceInv

(* A segment that follows in time follows in turn.                         *)
LEMMA TurnAfter ==
  ASSUME NEW k, NEW s \in Seq(CutSegments), NEW p \in CutSegments, InTurn(k, s),
         NEW out \in Nat, NEW cut \in Nat,
         Spoken(k, s) = 1 .. out, Range(p.parts) = out + 1 .. cut, Rising(p.parts)
  PROVE  InTurn(k, Append(s, p))
<1> SUFFICES ASSUME NEW t, t = Append(s, p) PROVE InTurn(k, t)
  OBVIOUS
<1>1. /\ Len(s) \in Nat /\ DOMAIN t = 1 .. Len(s) + 1 /\ DOMAIN s = 1 .. Len(s)
      /\ \A i \in 1 .. Len(s) : t[i] = s[i]
      /\ t[Len(s) + 1] = p
  BY AppendProperties
<1>2. ASSUME NEW i \in 1 .. Len(s) + 1, t[i].who = k
      PROVE  /\ Rising(t[i].parts)
             /\ \A j \in 1 .. i - 1 : t[j].who = k =>
                  \A m \in Range(t[j].parts), n \in Range(t[i].parts) : m < n
  <2>1. CASE i \in 1 .. Len(s)
    <3>1. \A j \in 1 .. i - 1 : j \in 1 .. Len(s)
      <4>1. Len(s) \in Nat
        BY <1>1
      <4> QED BY <2>1, <4>1
    <3>2. t[i] = s[i] /\ \A j \in 1 .. i - 1 : t[j] = s[j]
      BY <1>1, <2>1, <3>1
    <3> QED BY <1>1, <1>2, <2>1, <3>2 DEF InTurn
  <2>2. CASE i = Len(s) + 1
    <3>1. ASSUME NEW j \in 1 .. Len(s), s[j].who = k PROVE Range(s[j].parts) \subseteq 1 .. out
      <4>1. s[j] \in Of(k, s)
        BY <1>1, <3>1 DEF Of, Range
      <4> QED BY <4>1 DEF Spoken
    <3>2. \A m \in 1 .. out, n \in out + 1 .. cut : m < n
      OBVIOUS
    <3>3. \A j \in 1 .. i - 1 : j \in 1 .. Len(s) /\ t[j] = s[j]
      BY <1>1, <2>2
    <3>4. t[i] = p
      BY <1>1, <2>2
    <3> QED BY <3>1, <3>2, <3>3, <3>4
  <2> QED BY <1>1, <2>1, <2>2
<1> QED BY <1>1, <1>2 DEF InTurn

LEMMA TranscribeStep ==
  ASSUME VoiceInv, Transcribe
  PROVE  VoiceInv'
<1> SUFFICES ASSUME NEW p, p = Head(work) PROVE VoiceInv'
  OBVIOUS
<1> SUFFICES ASSUME NEW k, k = p.who PROVE VoiceInv'
  OBVIOUS
<1>1. /\ work # <<>> /\ done' = [done EXCEPT ![k] = Append(@, p)] /\ work' = Tail(work)
      /\ UNCHANGED <<ingest, heard, quiet, paused, waited, active, stage, took, stops>>
  BY DEF Transcribe, sound
<1>2. /\ p \in CutSegments /\ Tail(work) \in Seq(CutSegments) /\ p = work[1] /\ 1 \in DOMAIN work
      /\ \A i \in DOMAIN Tail(work) :
           i + 1 \in DOMAIN work /\ i + 1 > 1 /\ Tail(work)[i] = work[i + 1]
      /\ \A s : Of(s, work) = Of(s, Tail(work)) \cup {x \in {p} : x.who = s}
  <2>1. work \in Seq(CutSegments)
    BY DEF VoiceInv, VoiceTypeOK
  <2> QED BY <1>1, <2>1, Tailed
<1>3. k \in Speakers
  BY <1>2 DEF CutSegments
<1>4. Of(k, Tail(work)) = {} /\ Of(k, work) = {p}
  <2>1. ASSUME NEW i \in DOMAIN Tail(work), Tail(work)[i].who = k PROVE FALSE
    BY <1>2, <2>1 DEF VoiceInv, WorkInv
  <2>2. Of(k, Tail(work)) = {}
    BY <2>1 DEF Of, Range
  <2> QED BY <1>2, <2>2
<1>5. /\ done'[k] = Append(done[k], p) /\ Of(k, done'[k]) = Of(k, done[k]) \cup {p}
      /\ done'[k] \in Seq(CutSegments) /\ done[k] \in Seq(CutSegments)
      /\ \A s \in Speakers \ {k} : done'[s] = done[s]
      /\ done' \in [Speakers -> Seq(CutSegments)]
  <2>1. done \in [Speakers -> Seq(CutSegments)]
    BY DEF VoiceInv, VoiceTypeOK
  <2>2. /\ Append(done[k], p) \in Seq(CutSegments)
        /\ Of(k, Append(done[k], p)) = Of(k, done[k]) \cup {x \in {p} : x.who = k}
    BY <1>2, <1>3, <2>1, Appended
  <2> QED BY <1>1, <1>3, <2>1, <2>2
<1>6. VoiceTypeOK'
  BY <1>1, <1>2, <1>5 DEF VoiceInv, VoiceTypeOK
<1>7. WorkInv' /\ QueueInv'
  <2>1. stage # "poll"
    BY <1>1 DEF VoiceInv, WorkInv
  <2>2. WorkInv'
    <3>1. DOMAIN Tail(work) \subseteq Nat
      BY <1>2
    <3>2. \A i, j \in DOMAIN Tail(work) : i + 1 = j + 1 => i = j
      BY <3>1
    <3> QED BY <1>1, <1>2, <2>1, <3>2 DEF VoiceInv, WorkInv
  <2>3. QueueInv'
    BY <1>1 DEF VoiceInv, QueueInv
  <2> QED BY <2>2, <2>3
<1>8. ASSUME NEW s \in Speakers, s # k PROVE SpeakerInv(s)'
  <2>1. Of(s, work)' = Of(s, work) /\ Of(s, ingest)' = Of(s, ingest)
    <3>1. {x \in {p} : x.who = s} = {}
      BY <1>8
    <3> QED BY <1>1, <1>2, <3>1
  <2> QED BY <1>1, <1>5, <1>8, <2>1, Typed, NotMine
<1>9. PICK out \in Nat, cut \in Nat, grown \in Nat :
        /\ out <= cut /\ cut <= grown /\ grown <= heard[k]
        /\ Held(k, out, cut, grown) /\ Clock(k, grown) /\ Rest(k, grown)
  BY <1>3, Typed DEF SpeakerInv
<1>10. Spoken(k, done[k]) = 1 .. out /\ Range(p.parts) = out + 1 .. cut
  <2>1. Spoken(k, work) = Range(p.parts)
    BY <1>4 DEF Spoken
  <2> QED BY <1>9, <2>1 DEF Held
<1>11. Held(k, cut, cut, grown)'
  <2>1. Spoken(k, done[k])' = 1 .. cut
    <3>1. Spoken(k, done'[k]) = Spoken(k, done[k]) \cup Range(p.parts)
      BY <1>5 DEF Spoken
    <3>2. (1 .. out) \cup (out + 1 .. cut) = 1 .. cut
      BY <1>9
    <3> QED BY <1>10, <3>1, <3>2
  <2>2. Spoken(k, work)' = {} /\ cut + 1 .. cut = {}
    BY <1>1, <1>4 DEF Spoken
  <2>3. Growing(k)' = Growing(k) /\ Queued(k)' = Queued(k)
    BY <1>1 DEF Growing, Queued
  <2> QED BY <1>1, <1>9, <2>1, <2>2, <2>3 DEF Held
<1>12. Pieces(k)' = Pieces(k)
  <2>1. Of(k, work') = {}
    BY <1>1, <1>4
  <2>2. Of(k, done'[k]) \cup Of(k, work') = Of(k, done[k]) \cup Of(k, work)
    BY <1>4, <1>5, <2>1
  <2> QED BY <1>1, <2>2 DEF Pieces
<1>13. Clock(k, grown)' /\ Rest(k, grown)' /\ GrowsRight(k)' /\ Stamps(k)' /\ CutRight(k)'
  <2>1. GrowsRight(k) /\ Stamps(k) /\ CutRight(k)
    BY <1>3, Typed DEF SpeakerInv
  <2> QED BY <1>1, <1>9, <1>12, <2>1 DEF Clock, Rest, GrowsRight, Stamps, CutRight
<1>14. InTurn(k, done[k])'
  <2>1. InTurn(k, done[k]) /\ Rising(p.parts) /\ Range(p.parts) = out + 1 .. cut
    BY <1>2, <1>3, <1>10, Typed DEF SpeakerInv, VoiceInv, WorkInv
  <2> QED BY <1>2, <1>5, <1>10, <2>1, TurnAfter
<1>15. SpeakerInv(k)'
  BY <1>1, <1>9, <1>11, <1>13, <1>14 DEF SpeakerInv
<1> QED BY <1>6, <1>7, <1>8, <1>15 DEF VoiceInv

(* What is flushed goes on in any order, each speaker's segment once, or,  *)
(* when it is short, no further.                                           *)
LEMMA FlushStep ==
  ASSUME VoiceInv, FlushReady
  PROVE  VoiceInv'
<1>0. PICK S : S = {k \in Idle : ~Short(k)}
  OBVIOUS
<1>1. PICK order \in SetToSeqs(S) :
        work' = [i \in DOMAIN order |-> Piece(order[i], active[order[i]], FALSE)]
  BY <1>0 DEF FlushReady
<1>2. /\ work = <<>> /\ stage' = "flushed"
      /\ active' = [k \in Speakers |-> IF k \in Idle THEN NoSegment ELSE active[k]]
      /\ done' = [k \in Speakers |-> IF k \in Idle /\ Short(k)
                    THEN Append(done[k], Piece(k, active[k], FALSE)) ELSE done[k]]
      /\ UNCHANGED <<ingest, heard, quiet, paused, waited, took, stops>>
  BY DEF FlushReady, sound
<1>3. /\ work' \in Seq(CutSegments)
      /\ \A i \in DOMAIN work' : Rising(work'[i].parts)
      /\ \A i, j \in DOMAIN work' : work'[i].who = work'[j].who => i = j
      /\ \A k \in S : Of(k, work') = {Piece(k, active[k], FALSE)}
      /\ \A k \in Speakers : k \notin S => Of(k, work') = {}
  <2>1. S \in SUBSET Speakers /\ S \subseteq Idle
    BY <1>0 DEF Idle
  <2>2. PICK pieces : pieces = work'
    OBVIOUS
  <2>3. IsFiniteSet(S) /\ Cardinality(S) \in Nat
    BY <2>1, VoiceConstants, FS_Subset, FS_CardinalityType
  <2>4. /\ order \in [1 .. Cardinality(S) -> S] /\ DOMAIN order = 1 .. Cardinality(S)
        /\ \A i, j \in 1 .. Cardinality(S) : i # j => order[i] # order[j]
    BY DEF SetToSeqs
  <2>5. \A k \in S : \E i \in DOMAIN order : order[i] = k
    <3>1. order \in Injection(1 .. Cardinality(S), S)
      BY <2>4 DEF Injection, IsInjective
    <3>2. Cardinality(1 .. Cardinality(S)) = Cardinality(S)
      BY <2>3, FS_Interval
    <3>3. order \in Surjection(1 .. Cardinality(S), S)
      BY <2>3, <3>1, <3>2, FS_Injection
    <3> QED BY <2>4, <3>3 DEF Surjection
  <2>6. DOMAIN pieces = DOMAIN order
    BY <1>1, <2>2
  <2>7. ASSUME NEW i \in DOMAIN order
        PROVE  /\ pieces[i] = Piece(order[i], active[order[i]], FALSE)
               /\ pieces[i] \in CutSegments /\ pieces[i].who = order[i] /\ order[i] \in S
               /\ Rising(pieces[i].parts)
    <3>1. order[i] \in S /\ order[i] \in Speakers /\ active[order[i]] # NoSegment
      BY <2>1, <2>4 DEF Idle
    <3>2. active[order[i]] \in Segments /\ Rising(active[order[i]].parts)
      BY <3>1, Typed DEF SpeakerInv, GrowsRight
    <3>3. /\ Piece(order[i], active[order[i]], FALSE) \in CutSegments
          /\ Piece(order[i], active[order[i]], FALSE).who = order[i]
          /\ Piece(order[i], active[order[i]], FALSE).parts = active[order[i]].parts
      BY <3>1, <3>2 DEF Piece, Segments, CutSegments
    <3>4. pieces[i] = Piece(order[i], active[order[i]], FALSE)
      BY <1>1, <2>2
    <3> QED BY <3>1, <3>2, <3>3, <3>4
  <2>8. pieces \in Seq(CutSegments)
    <3>1. pieces \in [1 .. Cardinality(S) -> CutSegments]
      <4>1. \A i \in 1 .. Cardinality(S) : pieces[i] \in CutSegments
        BY <2>4, <2>7
      <4> QED BY <1>1, <2>2, <2>4, <4>1
    <3> QED BY <2>3, <3>1, Listed
  <2>9. \A i, j \in DOMAIN pieces : pieces[i].who = pieces[j].who => i = j
    <3>1. ASSUME NEW i \in DOMAIN order, NEW j \in DOMAIN order, pieces[i].who = pieces[j].who
          PROVE  i = j
      <4>1. order[i] = order[j]
        BY <2>7, <3>1
      <4> QED BY <2>4, <4>1
    <3> QED BY <2>6, <3>1
  <2>10. ASSUME NEW k \in Speakers, NEW x \in Of(k, pieces)
         PROVE  k \in S /\ x = Piece(k, active[k], FALSE)
    <3>1. PICK i \in DOMAIN pieces : x = pieces[i] /\ x.who = k
      BY DEF Of, Range
    <3>2. i \in DOMAIN order /\ order[i] = k /\ k \in S
      BY <2>6, <2>7, <3>1
    <3> QED BY <2>7, <3>1, <3>2
  <2>11. ASSUME NEW k \in S PROVE Piece(k, active[k], FALSE) \in Of(k, pieces)
    <3>1. PICK i \in DOMAIN order : order[i] = k
      BY <2>5
    <3>2. pieces[i] = Piece(k, active[k], FALSE) /\ pieces[i].who = k
      BY <2>7, <3>1
    <3> QED BY <2>6, <3>2 DEF Of, Range
  <2>12. \A k \in S : Of(k, pieces) = {Piece(k, active[k], FALSE)}
    BY <2>1, <2>10, <2>11
  <2>13. \A k \in Speakers : k \notin S => Of(k, pieces) = {}
    BY <2>10
  <2> QED BY <2>2, <2>6, <2>7, <2>8, <2>9, <2>12, <2>13
<1>4. ASSUME NEW k \in Idle
      PROVE  /\ k \in Speakers /\ active[k] \in Segments /\ active[k] # NoSegment
             /\ active[k].age = Silence /\ Rising(active[k].parts)
             /\ Piece(k, active[k], FALSE) \in CutSegments
             /\ Piece(k, active[k], FALSE).who = k
             /\ Piece(k, active[k], FALSE).parts = active[k].parts
  <2>1. k \in Speakers /\ active[k] # NoSegment /\ active[k].age >= Silence
    BY DEF Idle
  <2>2. active[k] \in Segments /\ Rising(active[k].parts)
    BY <2>1, Typed DEF SpeakerInv, GrowsRight
  <2>3. active[k].age \in 0 .. Silence /\ Silence \in Nat
    BY <2>2, VoiceConstants DEF Segments
  <2>4. active[k].age = Silence
    BY <2>1, <2>3
  <2> QED BY <2>1, <2>2, <2>4 DEF Piece, Segments, CutSegments
<1>5. VoiceTypeOK'
  <2>1. active' \in [Speakers -> Segments \cup {NoSegment}]
    BY <1>2 DEF VoiceInv, VoiceTypeOK
  <2>2. done' \in [Speakers -> Seq(CutSegments)]
    <3>1. ASSUME NEW k \in Speakers PROVE done'[k] \in Seq(CutSegments)
      BY <1>2, <1>4, Typed, Appended
    <3> QED BY <1>2, <3>1
  <2> QED BY <1>2, <1>3, <2>1, <2>2 DEF VoiceInv, VoiceTypeOK
<1>6. WorkInv' /\ QueueInv'
  <2>1. WorkInv'
    BY <1>2, <1>3 DEF WorkInv
  <2>2. QueueInv'
    BY <1>2 DEF VoiceInv, QueueInv
  <2> QED BY <2>1, <2>2
<1>7. ASSUME NEW k \in Speakers, k \notin Idle PROVE SpeakerInv(k)'
  <2>1. Of(k, work)' = {} /\ Of(k, work) = {}
    BY <1>0, <1>2, <1>3, <1>7, None
  <2> QED BY <1>2, <1>7, <2>1, Typed, NotMine
<1>8. ASSUME NEW k \in Idle PROVE SpeakerInv(k)'
  <2>0. PICK p : p = Piece(k, active[k], FALSE)
    OBVIOUS
  <2>1. PICK out \in Nat, made \in Nat, grown \in Nat :
          /\ out <= made /\ made <= grown /\ grown <= heard[k]
          /\ Held(k, out, made, grown) /\ Clock(k, grown) /\ Rest(k, grown)
    BY <1>4, Typed DEF SpeakerInv
  <2>2. active'[k] = NoSegment /\ active[k] # NoSegment /\ Growing(k)' = {}
    BY <1>2, <1>4 DEF Growing
  <2>3. out = made
    <3>1. out + 1 .. made = {}
      BY <1>2, <2>1, None DEF Held
    <3> QED BY <2>1, <3>1
  <2>4. Spoken(k, done[k]) = 1 .. out /\ Range(p.parts) = out + 1 .. grown
    <3>1. Range(p.parts) = Growing(k)
      BY <1>4, <2>0, <2>2 DEF Growing
    <3> QED BY <2>1, <2>3, <3>1 DEF Held
  <2>5. Queued(k)' = grown + 1 .. heard'[k]
    BY <1>2, <2>1 DEF Queued, Held
  <2>6. /\ \E w \in Nat, o \in Nat : o <= w /\ w <= grown /\ Held(k, o, w, grown)'
        /\ Pieces(k)' = Pieces(k) /\ InTurn(k, done[k])'
    <3>1. CASE Short(k)
      <4>1. /\ done'[k] = Append(done[k], p) /\ Of(k, work') = {}
            /\ p \in CutSegments /\ p.who = k /\ done[k] \in Seq(CutSegments)
        BY <1>0, <1>2, <1>3, <1>4, <2>0, <3>1, Typed
      <4>2. Of(k, done'[k]) = Of(k, done[k]) \cup {p}
        BY <4>1, MineAppended
      <4>3. Spoken(k, done[k])' = 1 .. grown
        <5>1. Spoken(k, done'[k]) = Spoken(k, done[k]) \cup Range(p.parts)
          BY <4>2 DEF Spoken
        <5>2. (1 .. out) \cup (out + 1 .. grown) = 1 .. grown
          BY <2>1
        <5> QED BY <2>4, <5>1, <5>2
      <4>4. Held(k, grown, grown, grown)'
        <5>1. Spoken(k, work)' = {} /\ grown + 1 .. grown = {}
          BY <4>1 DEF Spoken
        <5> QED BY <2>2, <2>5, <4>3, <5>1 DEF Held
      <4>5. Pieces(k)' = Pieces(k)
        <5>1. Of(k, work) = {}
          BY <1>2, None
        <5> QED BY <2>0, <2>2, <4>1, <4>2, <5>1 DEF Pieces
      <4>6. InTurn(k, done[k])'
        <5>1. InTurn(k, done[k]) /\ Rising(p.parts)
          BY <1>4, <2>0, Typed DEF SpeakerInv
        <5>2. InTurn(k, Append(done[k], p))
          BY <2>4, <4>1, <5>1, TurnAfter
        <5> QED BY <4>1, <5>2 DEF InTurn
      <4> QED BY <2>1, <4>4, <4>5, <4>6
    <3>2. CASE ~Short(k)
      <4>1. done'[k] = done[k] /\ Of(k, work') = {p}
        BY <1>0, <1>2, <1>3, <1>4, <2>0, <3>2
      <4>2. Held(k, out, grown, grown)'
        <5>1. Spoken(k, work)' = out + 1 .. grown
          BY <2>4, <4>1 DEF Spoken
        <5>2. grown + 1 .. grown = {}
          OBVIOUS
        <5> QED BY <2>2, <2>4, <2>5, <4>1, <5>1, <5>2 DEF Held
      <4>3. Pieces(k)' = Pieces(k)
        <5>1. Of(k, work) = {} /\ Of(k, done[k])' = Of(k, done[k])
          BY <1>2, <4>1, None
        <5> QED BY <2>0, <2>2, <4>1, <5>1 DEF Pieces
      <4>4. InTurn(k, done[k])'
        <5>1. InTurn(k, done[k])
          BY <1>4, Typed DEF SpeakerInv
        <5> QED BY <4>1, <5>1 DEF InTurn
      <4> QED BY <2>1, <2>3, <4>2, <4>3, <4>4
    <3> QED BY <3>1, <3>2
  <2>7. Clock(k, grown)'
    <3>1. active[k].age = Silence /\ Silence \in Nat \ {0}
      BY <1>4, VoiceConstants
    <3> QED BY <1>2, <2>1, <2>2, <3>1 DEF Clock
  <2>8. Rest(k, grown)' /\ GrowsRight(k)'
    BY <2>2 DEF Rest, GrowsRight
  <2>9. Stamps(k)' /\ CutRight(k)'
    <3>1. Stamps(k) /\ CutRight(k)
      BY <1>4, Typed DEF SpeakerInv
    <3> QED BY <1>2, <2>6, <3>1 DEF Stamps, CutRight
  <2>10. grown <= heard'[k]
    BY <1>2, <2>1
  <2> QED BY <2>1, <2>6, <2>7, <2>8, <2>9, <2>10 DEF SpeakerInv
<1> QED BY <1>5, <1>6, <1>7, <1>8 DEF VoiceInv

\* The loop where it touches no segment.
LEMMA LoopStep ==
  ASSUME VoiceInv, TimedOut \/ TooSoon \/ Around
  PROVE  VoiceInv'
<1>1. /\ UNCHANGED <<ingest, heard, quiet, paused, waited, active, work, done, stops>>
      /\ stage' \in {"poll", "cut", "flushed"} /\ took' \in BOOLEAN
      /\ stage' = "poll" => work = <<>>
  BY DEF TimedOut, TooSoon, Around, sound, VoiceInv, VoiceTypeOK
<1>2. VoiceTypeOK' /\ QueueInv'
  BY <1>1 DEF VoiceInv, VoiceTypeOK, QueueInv
<1>3. WorkInv'
  BY <1>1 DEF VoiceInv, WorkInv
<1>4. ASSUME NEW k \in Speakers PROVE SpeakerInv(k)'
  BY <1>1, Typed, NotMine
<1> QED BY <1>2, <1>3, <1>4 DEF VoiceInv

LEMMA StopStep ==
  ASSUME VoiceInv, StopVoice
  PROVE  VoiceInv'
<1>1. Blank'
  BY VoiceConstants DEF StopVoice, Blank, VoiceInv, VoiceTypeOK
<1> QED BY <1>1, BlankAfter

LEMMA VoiceStutter ==
  ASSUME VoiceInv, UNCHANGED voiceVars
  PROVE  VoiceInv'
<1>1. UNCHANGED <<ingest, heard, quiet, paused, waited, active, work, stage, took, done, stops>>
  BY DEF voiceVars, sound, loop
<1>2. VoiceTypeOK' /\ QueueInv' /\ WorkInv'
  BY <1>1 DEF VoiceInv, VoiceTypeOK, QueueInv, WorkInv
<1>3. ASSUME NEW k \in Speakers PROVE SpeakerInv(k)'
  BY <1>1, Typed, NotMine
<1> QED BY <1>2, <1>3 DEF VoiceInv

(* The invariant holds for ever.                                           *)
LEMMA Listening == VoiceSpec => []VoiceInv
<1>1. VoiceInit => VoiceInv
  <2>1. VoiceInit => Blank
    BY VoiceConstants DEF VoiceInit, Blank
  <2> QED BY <2>1, BlankHolds
<1>2. VoiceInv /\ [VoiceNext]_voiceVars => VoiceInv'
  BY HearStep, PassStep, TakeStep, TranscribeStep, FlushStep, LoopStep, StopStep, VoiceStutter
     DEF VoiceNext, VoiceWork
<1> QED
  BY <1>1, <1>2, PTL DEF VoiceSpec

-----------------------------------------------------------------------------
(* For any speakers, lengths and bounds: the voice service's state is      *)
(* well-typed.                                                             *)
THEOREM VoiceTyped == VoiceSpec => []VoiceTypeOK
<1>1. VoiceInv => VoiceTypeOK
  BY DEF VoiceInv
<1> QED
  BY <1>1, Listening, PTL

(* For any speakers, lengths and bounds: what was queued of a speaker is,  *)
(* in the order it was spoken in, what went out, what was cut, what grows  *)
(* and what waits, nothing twice and nothing missing.                      *)
THEOREM ChunksOnce == VoiceSpec => []EachOnce
<1>1. VoiceInv => EachOnce
  <2> SUFFICES ASSUME VoiceInv, NEW k \in Speakers
               PROVE  /\ \E out \in 0 .. heard[k] : \E cut \in out .. heard[k] :
                           \E grown \in cut .. heard[k] : Held(k, out, cut, grown)
                      /\ InTurn(k, done[k]) /\ InTurn(k, work)
                      /\ active[k] # NoSegment => Rising(active[k].parts)
                      /\ \A i, j \in DOMAIN ingest :
                           i < j /\ ingest[i].who = k /\ ingest[j].who = k
                             => ingest[i].n < ingest[j].n
    BY DEF EachOnce, Held
  <2>1. \E out \in 0 .. heard[k] : \E cut \in out .. heard[k] :
          \E grown \in cut .. heard[k] : Held(k, out, cut, grown)
    <3>1. PICK out \in Nat, cut \in Nat, grown \in Nat :
            out <= cut /\ cut <= grown /\ grown <= heard[k] /\ Held(k, out, cut, grown)
      BY Typed DEF SpeakerInv
    <3>2. out \in 0 .. heard[k] /\ cut \in out .. heard[k] /\ grown \in cut .. heard[k]
      BY <3>1, Typed
    <3> QED BY <3>1, <3>2
  <2>2. InTurn(k, done[k]) /\ (active[k] # NoSegment => Rising(active[k].parts))
    BY Typed DEF SpeakerInv, GrowsRight
  <2>3. InTurn(k, work)
    <3>1. DOMAIN work = 1 .. Len(work) /\ Len(work) \in Nat
      BY Typed
    <3>2. ASSUME NEW i \in DOMAIN work, work[i].who = k, NEW j \in 1 .. i - 1, work[j].who = k
          PROVE  FALSE
      <4>1. j \in DOMAIN work /\ i # j
        BY <3>1
      <4> QED BY <3>2, <4>1 DEF VoiceInv, WorkInv
    <3> QED BY <3>2 DEF InTurn, VoiceInv, WorkInv
  <2>4. \A i, j \in DOMAIN ingest :
          i < j /\ ingest[i].who = k /\ ingest[j].who = k => ingest[i].n < ingest[j].n
    BY DEF VoiceInv, QueueInv
  <2> QED BY <2>1, <2>2, <2>3, <2>4
<1> QED
  BY <1>1, Listening, PTL

(* For any speakers, lengths and bounds: a transmission is cut only where  *)
(* it was long or where the speaker paused, unless a chunk there was kept  *)
(* waiting.                                                                *)
THEOREM CutsAtPauses == VoiceSpec => []CutAtPause
<1>1. VoiceInv => CutAtPause
  <2>1. VoiceInv => \A k \in Speakers : CutRight(k)
    BY DEF VoiceInv, SpeakerInv
  <2> QED BY <2>1 DEF CutAtPause, CutRight
<1> QED
  BY <1>1, Listening, PTL

-----------------------------------------------------------------------------
(* For any values of the constants: a behaviour of the daemons together is *)
(* one of each of them alone, so what is proved of one holds of them all.  *)
THEOREM EachAsAlone == MartineSpec => Spec /\ VoiceSpec /\ CotSpec
<1>1. MartineInit => Init /\ VoiceInit /\ CotInit
  BY DEF MartineInit
<1>2. [MartineNext]_martineVars => [Next]_vars /\ [VoiceNext]_voiceVars /\ [CotNext]_cotVars
  <2>1. UNCHANGED martineVars => UNCHANGED vars /\ UNCHANGED voiceVars /\ UNCHANGED cotVars
    BY DEF martineVars, inviterVars
  <2> QED BY <2>1 DEF MartineNext, Inviter, Voice, Cot, inviterVars
<1> QED
  BY <1>1, <1>2, PTL DEF MartineSpec, Spec, VoiceSpec, CotSpec
=============================================================================
