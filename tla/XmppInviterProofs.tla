-------------------------- MODULE XmppInviterProofs --------------------------
(***************************************************************************)
(* What holds of the inviter for any users, rooms and bounds, proved from  *)
(* one inductive invariant.                                                *)
(***************************************************************************)
EXTENDS XmppInviter, TLAPS

\* What the daemon remembers, or will once it has loaded its state.
Remembered == IF pc = "down" THEN saved ELSE told

(* A notice it does not remember was sent at most once for each kill.      *)
SentInv ==
  \A n \in Notices : sent[n] <= 1 + kills /\ (n \notin Remembered => sent[n] <= kills)

(* Where the offset stands, and which lines are still to be relayed.       *)
OffsetInv ==
  /\ ~init => offset = 0 /\ begun = 0
  /\ begun <= last
  /\ begun <= first \/ (begun <= first + offset /\ offset <= Size)
  /\ pc # "relay" => queue = {}
  /\ pc = "relay" => init

(* The lines of a relay under way: the file is as when they were read, or  *)
(* it was emptied since and what it holds was not read yet.                *)
AsRead ==
  /\ reached <= Size /\ begun <= first + reached
  /\ \A k \in queue : k <= first + reached
  /\ \A k \in Lines : k > first + reached => relayed[k] = 0
Emptied ==
  /\ begun <= first
  /\ \A k \in queue : k <= first
  /\ \A k \in Lines : k > first => relayed[k] = 0

RelayInv ==
  /\ \A k \in Lines : relayed[k] > 0 => init /\ begun < k /\ k <= last
  /\ \A k \in queue : begun < k
  /\ pc = "relay" => AsRead \/ Emptied

(* A line that will be read (again) was relayed once for each cut at most. *)
CountInv ==
  \A k \in Lines :
    /\ relayed[k] <= 1 + kills + drops
    /\ (IF pc = "relay" THEN k \in queue ELSE k > first + ReadFrom)
         => relayed[k] <= kills + drops

(* As long as nobody empties the file.                                     *)
WholeInv ==
  shrinks = 0 =>
    /\ first = 0 /\ offset <= last
    /\ \A k \in Lines : begun < k /\ k <= offset => relayed[k] > 0
    /\ \A j, k \in Lines : begun < j /\ j < k =>
         /\ relayed[k] > 0 => relayed[j] > 0
         /\ offset < j => relayed[k] <= relayed[j]
    /\ pc = "relay" =>
         /\ reached <= last
         /\ \A k \in Lines : begun < k /\ k <= reached /\ k \notin queue => relayed[k] > 0
         /\ \A k \in queue : offset < k
         /\ \A j, k \in Lines : offset < j /\ j < k /\ k \in queue /\ j \notin queue
              => relayed[k] < relayed[j]

InviterInv == TypeOK /\ SentInv /\ OffsetInv /\ RelayInv /\ CountInv /\ WholeInv

-----------------------------------------------------------------------------
(* The steps, one a disjunct of Next.                                      *)
LEMMA StepCases ==
  ASSUME [Next]_vars
  PROVE  \/ CreateFile \/ AppendLine \/ Empty
         \/ Start \/ (\E wanted \in SUBSET Invites : Tick(wanted))
         \/ NothingNew \/ InitOffset \/ ReadLines \/ ReadFails \/ RelayLine \/ RelayDone
         \/ (\E n \in Notices : Notify(n)) \/ TickDone \/ Disconnect \/ Kill
         \/ UNCHANGED vars
  BY DEF Next, Work

(* The types are kept.                                                     *)
LEMMA TypeStep ==
  ASSUME TypeOK, OffsetInv, RelayInv, [Next]_vars
  PROVE  TypeOK'
<1> USE InviterConstants DEF TypeOK, vars, file, disk, memory
<1>1. CASE CreateFile
  BY <1>1 DEF CreateFile
<1>2. CASE AppendLine
  BY <1>2 DEF AppendLine
<1>3. CASE Empty
  BY <1>3 DEF Empty, Size
<1>4. CASE Start
  BY <1>4 DEF Start
<1>5. CASE \E wanted \in SUBSET Invites : Tick(wanted)
  BY <1>5 DEF Tick, Notices, Invites, Greeting
<1>6. CASE NothingNew
  BY <1>6 DEF NothingNew
<1>7. CASE InitOffset
  BY <1>7 DEF InitOffset, Size
<1>8. CASE ReadLines
  BY <1>8 DEF ReadLines, ReadFrom, Size, Lines
<1>9. CASE ReadFails
  BY <1>9 DEF ReadFails
<1>10. CASE RelayLine
  BY <1>10 DEF RelayLine, RelayOne
<1>11. CASE RelayDone
  BY <1>11 DEF RelayDone
<1>12. CASE \E n \in Notices : Notify(n)
  BY <1>12 DEF Notify
<1>13. CASE TickDone
  BY <1>13 DEF TickDone
<1>14. CASE Disconnect
  BY <1>14 DEF Disconnect, Gone
<1>15. CASE Kill
  BY <1>15 DEF Kill, Gone
<1>16. CASE UNCHANGED vars
  BY <1>16
<1>17. QED
  BY <1>1, <1>2, <1>3, <1>4, <1>5, <1>6, <1>7, <1>8, <1>9, <1>10, <1>11, <1>12, <1>13,
     <1>14, <1>15, <1>16, StepCases

(* SentInv: memory is at least what the file says, but for a kill, which   *)
(* counts.                                                                 *)
LEMMA SentStep ==
  ASSUME TypeOK, SentInv, [Next]_vars
  PROVE  SentInv'
<1> USE DEF TypeOK, SentInv, Remembered, vars, file, disk, memory
<1>1. CASE CreateFile \/ AppendLine \/ Empty
  BY <1>1 DEF CreateFile, AppendLine, Empty
<1>2. CASE Start
  BY <1>2 DEF Start
<1>3. CASE \E wanted \in SUBSET Invites : Tick(wanted)
  BY <1>3 DEF Tick
<1>4. CASE NothingNew \/ InitOffset \/ ReadLines \/ ReadFails \/ RelayLine \/ RelayDone
  BY <1>4 DEF NothingNew, InitOffset, ReadLines, ReadFails, RelayLine, RelayOne, RelayDone
<1>5. CASE \E n \in Notices : Notify(n)
  <2>1. PICK n \in Notices : Notify(n)
    BY <1>5
  <2>2. sent[n] <= kills /\ sent' = [sent EXCEPT ![n] = @ + 1] /\ kills' = kills
    BY <2>1 DEF Notify
  <2>3. \A m \in Notices \ {n} : sent'[m] = sent[m]
    BY <2>2
  <2>4. sent'[n] <= 1 + kills' /\ n \in told' /\ pc' # "down"
    BY <2>1, <2>2 DEF Notify
  <2>5. QED
    BY <2>1, <2>2, <2>3, <2>4 DEF Notify
<1>6. CASE TickDone
  BY <1>6 DEF TickDone
<1>7. CASE Disconnect
  BY <1>7 DEF Disconnect, Gone
<1>8. CASE Kill
  BY <1>8 DEF Kill, Gone
<1>9. CASE UNCHANGED vars
  BY <1>9
<1>10. QED
  BY <1>1, <1>2, <1>3, <1>4, <1>5, <1>6, <1>7, <1>8, <1>9, StepCases

(* OffsetInv.                                                              *)
LEMMA OffsetStep ==
  ASSUME TypeOK, OffsetInv, RelayInv, [Next]_vars
  PROVE  OffsetInv'
<1> USE DEF TypeOK, OffsetInv, Size, vars, file, disk, memory
<1>1. CASE CreateFile \/ AppendLine \/ Empty
  BY <1>1 DEF CreateFile, AppendLine, Empty
<1>2. CASE Start \/ TickDone \/ Disconnect \/ Kill
  BY <1>2 DEF Start, TickDone, Disconnect, Kill, Gone
<1>3. CASE \E wanted \in SUBSET Invites : Tick(wanted)
  BY <1>3 DEF Tick
<1>4. CASE NothingNew \/ InitOffset \/ ReadLines \/ ReadFails
  BY <1>4 DEF NothingNew, InitOffset, ReadLines, ReadFails
<1>5. CASE RelayLine
  BY <1>5 DEF RelayLine, RelayOne
<1>6. CASE RelayDone
  BY <1>6 DEF RelayDone, RelayInv, AsRead, Emptied
<1>7. CASE \E n \in Notices : Notify(n)
  BY <1>7 DEF Notify
<1>8. CASE UNCHANGED vars
  BY <1>8
<1>9. QED
  BY <1>1, <1>2, <1>3, <1>4, <1>5, <1>6, <1>7, <1>8, StepCases

(* RelayInv.                                                               *)
LEMMA RelayStep ==
  ASSUME TypeOK, OffsetInv, RelayInv, [Next]_vars
  PROVE  RelayInv'
<1> USE DEF TypeOK, OffsetInv, RelayInv, AsRead, Emptied, Size, Lines, vars, file, disk, memory
<1>1. CASE CreateFile \/ Start \/ TickDone \/ Disconnect \/ Kill
  BY <1>1 DEF CreateFile, Start, TickDone, Disconnect, Kill, Gone
<1>2. CASE AppendLine
  BY <1>2 DEF AppendLine
<1>3. CASE Empty
  BY <1>3 DEF Empty
<1>4. CASE \E wanted \in SUBSET Invites : Tick(wanted)
  BY <1>4 DEF Tick
<1>5. CASE NothingNew \/ InitOffset \/ ReadFails
  BY <1>5 DEF NothingNew, InitOffset, ReadFails
<1>6. CASE ReadLines
  <2>1. \A k \in queue' : begun' < k /\ k <= last'
    BY <1>6 DEF ReadLines, ReadFrom
  <2>2. \A k \in Lines : k > last => relayed[k] = 0
    OBVIOUS
  <2>3. AsRead'
    BY <1>6, <2>1, <2>2 DEF ReadLines, ReadFrom
  <2>4. QED
    BY <1>6, <2>1, <2>3 DEF ReadLines
<1>7. CASE RelayLine
  <2>1. PICK m \in queue : RelayOne(m) /\ pc = "relay"
    BY <1>7 DEF RelayLine
  <2>2. m \in Lines /\ begun < m /\ m <= last
    BY <2>1
  <2>3. /\ relayed'[m] = relayed[m] + 1
        /\ \A k \in Lines \ {m} : relayed'[k] = relayed[k]
    BY <2>1, <2>2 DEF RelayOne
  <2>4. CASE AsRead
    BY <2>1, <2>2, <2>3, <2>4 DEF RelayOne
  <2>5. CASE Emptied
    BY <2>1, <2>2, <2>3, <2>5 DEF RelayOne
  <2>6. QED
    BY <2>1, <2>4, <2>5
<1>8. CASE RelayDone
  BY <1>8 DEF RelayDone
<1>9. CASE \E n \in Notices : Notify(n)
  BY <1>9 DEF Notify
<1>10. CASE UNCHANGED vars
  BY <1>10
<1>11. QED
  BY <1>1, <1>2, <1>3, <1>4, <1>5, <1>6, <1>7, <1>8, <1>9, <1>10, StepCases

(* Whatever was cut off, one more cut is counted.                          *)
LEMMA CutCounts ==
  ASSUME TypeOK, CountInv, Disconnect \/ Kill
  PROVE  CountInv'
<1>1. kills \in Nat /\ drops \in Nat /\ \A k \in Lines : relayed[k] \in Nat
  BY InviterConstants DEF TypeOK
<1>2. /\ \/ kills' = kills /\ drops' = drops + 1
         \/ kills' = kills + 1 /\ drops' = drops
      /\ relayed' = relayed
  BY DEF Disconnect, Kill, Gone
<1>3. \A k \in Lines : relayed[k] <= 1 + kills + drops
  BY DEF CountInv
<1>4. \A k \in Lines : relayed'[k] <= kills' + drops' /\ relayed'[k] <= 1 + kills' + drops'
  BY <1>1, <1>2, <1>3
<1>5. QED
  BY <1>4 DEF CountInv

(* CountInv.                                                               *)
LEMMA CountStep ==
  ASSUME TypeOK, OffsetInv, RelayInv, CountInv, [Next]_vars
  PROVE  CountInv'
<1> USE DEF TypeOK, OffsetInv, RelayInv, CountInv, ReadFrom, Size, Lines, vars, file, disk, memory
<1>1. CASE CreateFile \/ Start \/ TickDone
  BY <1>1 DEF CreateFile, Start, TickDone
<1>2. CASE AppendLine
  BY <1>2 DEF AppendLine
<1>3. CASE Empty
  BY <1>3 DEF Empty
<1>4. CASE \E wanted \in SUBSET Invites : Tick(wanted)
  BY <1>4 DEF Tick
<1>5. CASE NothingNew \/ InitOffset \/ ReadLines \/ ReadFails
  <2>1. CASE NothingNew \/ ReadFails
    BY <2>1 DEF NothingNew, ReadFails
  <2>2. CASE InitOffset
    BY <2>2 DEF InitOffset
  <2>3. CASE ReadLines
    <3>1. \A k \in queue' : k > first + ReadFrom
      BY <2>3 DEF ReadLines
    <3>2. QED
      BY <2>3, <3>1 DEF ReadLines
  <2>4. QED
    BY <1>5, <2>1, <2>2, <2>3
<1>6. CASE RelayLine
  <2>1. PICK m \in queue : RelayOne(m) /\ pc = "relay"
    BY <1>6 DEF RelayLine
  <2>2. /\ relayed'[m] = relayed[m] + 1 /\ relayed[m] <= kills + drops
        /\ \A k \in Lines \ {m} : relayed'[k] = relayed[k]
    BY <2>1 DEF RelayOne
  <2>3. QED
    BY <2>1, <2>2 DEF RelayOne
<1>7. CASE RelayDone
  <2>1. \A k \in Lines : k > first' + ReadFrom' => relayed[k] = 0
    BY <1>7 DEF RelayDone, AsRead, Emptied
  <2>2. QED
    BY <1>7, <2>1 DEF RelayDone
<1>8. CASE \E n \in Notices : Notify(n)
  BY <1>8 DEF Notify
<1>9. CASE Disconnect \/ Kill
  BY <1>9, CutCounts
<1>10. CASE UNCHANGED vars
  BY <1>10
<1>11. QED
  BY <1>1, <1>2, <1>3, <1>4, <1>5, <1>6, <1>7, <1>8, <1>9, <1>10, StepCases

(* WholeInv.                                                               *)
LEMMA WholeStep ==
  ASSUME TypeOK, OffsetInv, RelayInv, WholeInv, [Next]_vars
  PROVE  WholeInv'
<1> USE DEF TypeOK, OffsetInv, RelayInv, Size, Lines, vars, file, disk, memory
<1>1. CASE CreateFile \/ Start \/ TickDone \/ Disconnect \/ Kill
  BY <1>1 DEF WholeInv, CreateFile, Start, TickDone, Disconnect, Kill, Gone
<1>2. CASE AppendLine
  BY <1>2 DEF WholeInv, AppendLine
<1>3. CASE Empty
  BY <1>3 DEF WholeInv, Empty
<1>4. CASE \E wanted \in SUBSET Invites : Tick(wanted)
  BY <1>4 DEF WholeInv, Tick
<1>5. CASE NothingNew \/ ReadFails
  BY <1>5 DEF WholeInv, NothingNew, ReadFails
<1>6. CASE InitOffset
  BY <1>6 DEF WholeInv, InitOffset
<1>7. CASE ReadLines
  BY <1>7 DEF WholeInv, ReadLines, ReadFrom
<1>8. CASE RelayLine
  <2>1. PICK m \in queue : RelayOne(m) /\ pc = "relay" /\ \A k \in queue : m <= k
    BY <1>8 DEF RelayLine
  <2>2. /\ m \in Lines /\ relayed'[m] = relayed[m] + 1 /\ queue' = queue \ {m}
        /\ \A k \in Lines \ {m} : relayed'[k] = relayed[k]
    BY <2>1 DEF RelayOne
  <2>3. SUFFICES ASSUME shrinks = 0 PROVE WholeInv!2'
    BY <2>1 DEF WholeInv, RelayOne
  <2>4. WholeInv!2
    BY <2>3 DEF WholeInv
  <2>5. UNCHANGED <<first, last, offset, begun, reached, pc>>
    BY <2>1 DEF RelayOne
  <2>6. \A k \in Lines : begun < k /\ k <= offset => relayed'[k] > 0
    BY <2>2, <2>4
  <2>7. ASSUME NEW j \in Lines, NEW k \in Lines, begun < j, j < k
        PROVE  /\ relayed'[k] > 0 => relayed'[j] > 0
               /\ offset < j => relayed'[k] <= relayed'[j]
    <3>1. CASE k = m
      <4>1. j \notin queue /\ m \in queue
        BY <2>1, <2>7, <3>1
      <4>2. relayed'[j] = relayed[j] /\ relayed[j] \in Nat /\ relayed[m] \in Nat
        BY <2>2, <2>7, <3>1
      <4>3. relayed[j] > 0
        BY <2>1, <2>4, <2>7, <3>1, <4>1
      <4>4. offset < j => relayed[m] < relayed[j]
        BY <2>1, <2>2, <2>4, <2>7, <3>1, <4>1
      <4>5. QED
        BY <2>2, <3>1, <4>2, <4>3, <4>4
    <3>2. CASE k # m
      BY <2>2, <2>4, <2>7, <3>2
    <3>3. QED
      BY <3>1, <3>2
  <2>8. \A k \in Lines : begun < k /\ k <= reached /\ k \notin queue' => relayed'[k] > 0
    BY <2>1, <2>2, <2>4
  <2>9. ASSUME NEW j \in Lines, NEW k \in Lines, offset < j, j < k, k \in queue', j \notin queue'
        PROVE  relayed'[k] < relayed'[j]
    BY <2>1, <2>2, <2>4, <2>9
  <2>10. QED
    BY <2>1, <2>2, <2>4, <2>5, <2>6, <2>7, <2>8, <2>9
<1>9. CASE RelayDone
  BY <1>9 DEF WholeInv, RelayDone, AsRead, Emptied
<1>10. CASE \E n \in Notices : Notify(n)
  BY <1>10 DEF WholeInv, Notify
<1>11. CASE UNCHANGED vars
  BY <1>11 DEF WholeInv
<1>12. QED
  BY <1>1, <1>2, <1>3, <1>4, <1>5, <1>6, <1>7, <1>8, <1>9, <1>10, <1>11, StepCases

-----------------------------------------------------------------------------
(* The invariant holds throughout.                                         *)
THEOREM Inviting == Spec => []InviterInv
<1>1. Init => InviterInv
  <2>1. Init => TypeOK
    <3> SUFFICES ASSUME Init PROVE TypeOK
      OBVIOUS
    <3>1. sent \in [Notices -> Nat] /\ relayed \in [Lines -> Nat]
      BY DEF Init
    <3>2. /\ first \in 0..last /\ last \in 0..MaxLines /\ offset \in 0..MaxLines
          /\ reached \in 0..MaxLines /\ begun \in 0..MaxLines
          /\ kills \in 0..MaxKills /\ drops \in 0..MaxDrops /\ shrinks \in 0..MaxShrinks
      BY InviterConstants DEF Init
    <3>3. QED
      BY <3>1, <3>2 DEF Init, TypeOK
  <2>2. Init => SentInv
    BY DEF Init, SentInv, Remembered
  <2>3. Init => OffsetInv /\ RelayInv
    BY DEF Init, OffsetInv, RelayInv, Size
  <2>4. Init => CountInv
    BY DEF Init, CountInv
  <2>5. Init => WholeInv
    BY DEF Init, WholeInv, Lines
  <2>6. QED
    BY <2>1, <2>2, <2>3, <2>4, <2>5 DEF InviterInv
<1>2. InviterInv /\ [Next]_vars => InviterInv'
  BY TypeStep, SentStep, OffsetStep, RelayStep, CountStep, WholeStep DEF InviterInv
<1>3. QED
  BY <1>1, <1>2, PTL DEF Spec

(* For any users, rooms and bounds: the variables keep their types.        *)
THEOREM InviterTyped == Spec => []TypeOK
<1>1. InviterInv => TypeOK
  BY DEF InviterInv
<1>2. QED
  BY <1>1, Inviting, PTL

(* For any users, rooms and bounds: each hello and invite goes out once,   *)
(* and once more for each kill at most.                                    *)
THEOREM NoticesOnce == Spec => []SentAtMost
<1>1. InviterInv => SentAtMost
  BY DEF InviterInv, SentInv, SentAtMost
<1>2. QED
  BY <1>1, Inviting, PTL

(* For any bounds: each line goes out once, and once more for each kill    *)
(* and each lost connection at most.                                       *)
THEOREM LinesOnce == Spec => []RelayedAtMost
<1>1. InviterInv => RelayedAtMost
  BY DEF InviterInv, CountInv, RelayedAtMost
<1>2. QED
  BY <1>1, Inviting, PTL

(* For any bounds: a line the saved offset counts went out.                *)
THEOREM NothingLost == Spec => []NoSilentLoss
<1>1. InviterInv => NoSilentLoss
  BY DEF InviterInv, WholeInv, NoSilentLoss
<1>2. QED
  BY <1>1, Inviting, PTL

(* For any bounds: lines go out in the order of the file.                  *)
THEOREM LinesInOrder == Spec => []InOrder
<1>1. InviterInv => InOrder
  BY DEF InviterInv, WholeInv, InOrder
<1>2. QED
  BY <1>1, Inviting, PTL

(* For any bounds: what the file held when it was first found never goes   *)
(* out.                                                                    *)
THEOREM HistoryStays == Spec => []NoReplay
<1>1. InviterInv => NoReplay
  BY DEF InviterInv, RelayInv, NoReplay
<1>2. QED
  BY <1>1, Inviting, PTL
=============================================================================
