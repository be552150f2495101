CONSTANTS
  Users = {u1}
  Rooms = {r1, r2}
  Hello = Hello
  MaxLines = 3
  MaxKills = 1
  MaxDrops = 1
  MaxShrinks = 1
  Speakers = {s1, s2}
  Capacity = 2
  MinLen = 2
  MaxLen = 2
  Silence = 1
  NoSegment = NoSegment
  MaxChunks = 4
  MaxStops = 1
  Devices = {d1, d2}
  Plans = {p1, p2}
  NoPlan = NoPlan
  NoName = NoName
  Seeds = 2
  NoFile = NoFile
  NoText = NoText
  MaxChanges = 4
  MaxCuts = 1
SPECIFICATION MartineSpec
INVARIANTS SentAtMost RelayedAtMost NoSilentLoss InOrder NoReplay EachOnce CutAtPause GreetedAtMost SeededWhole
PROPERTIES EveryLine EveryNotice EveryChunk DevicesServed
