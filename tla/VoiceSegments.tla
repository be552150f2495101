---------------------------- MODULE VoiceSegments ----------------------------
(***************************************************************************)
(* Martine's voice service.  Mumble's thread queues chunks of sound; one   *)
(* loop takes them, joins those of a speaker to segments, cuts a segment   *)
(* that grew long or whose speaker fell silent, and transcribes what it    *)
(* cut, while more sound comes in.  A chunk is a number, and as long as    *)
(* any other; its sound and its text are left out.                         *)
(*                                                                         *)
(* Silence is judged by the clock: what a chunk or a segment has is the    *)
(* time since its stamp, counted no further than silence goes.             *)
(*                                                                         *)
(* Sources: martine/voice/mumble_ingest.py, segmenter.py, main.py.         *)
(***************************************************************************)
EXTENDS Naturals, FiniteSets, SequencesExt

CONSTANTS
  Speakers,    \* who speaks, in one channel and session
  Capacity,    \* of the queue (4096)
  MinLen,      \* min_segment_ms, in chunks
  MaxLen,      \* max_segment_ms, in chunks
  Silence,     \* silence_split_ms
  NoSegment,
  MaxChunks,   \* bound: chunks
  MaxStops     \* bound: stops of the service

ASSUME VoiceConstants ==
  /\ Capacity \in Nat /\ MaxChunks \in Nat /\ MaxStops \in Nat /\ Silence \in Nat \ {0}
  /\ MinLen \in Nat /\ MaxLen \in Nat \ {0} /\ MinLen <= MaxLen
  /\ IsFiniteSet(Speakers)

\* A segment of a speaker, still growing; one that was cut; a chunk in the queue.
Segments == [parts : Seq(Nat), age : 0..Silence, index : Nat, split : BOOLEAN]
CutSegments == [who : Speakers, parts : Seq(Nat), index : Nat, split : BOOLEAN]
Chunks == [who : Speakers, n : Nat, age : 0..Silence]

ASSUME NoSegmentIsNone == NoSegment \notin Segments

VARIABLES
  ingest,   \* the queue
  active,   \* the segment of each speaker
  work,     \* segments cut and not yet transcribed
  stage,    \* where the loop is
  took,     \* its poll returned a chunk
  heard,    \* history: chunks of each speaker queued since the start
  quiet,    \* history: time since the last of them
  paused,   \* history: those that came after a silence
  waited,   \* history: those that were in the queue when time passed
  done,     \* history: what became of them, segment after segment
  stops

sound == <<ingest, heard, quiet, paused>>
loop == <<active, work, stage, took, done>>
voiceVars == <<sound, loop, waited, stops>>

Fresh == [parts |-> <<>>, age |-> 0, index |-> 0, split |-> FALSE]

VoiceInit ==
  /\ ingest = <<>> /\ work = <<>> /\ stage = "poll" /\ took = FALSE /\ stops = 0
  /\ active = [k \in Speakers |-> NoSegment]
  /\ heard = [k \in Speakers |-> 0] /\ quiet = [k \in Speakers |-> Silence]
  /\ paused = [k \in Speakers |-> {}] /\ waited = [k \in Speakers |-> {}]
  /\ done = [k \in Speakers |-> <<>>]

-----------------------------------------------------------------------------
(* The sound.                                                              *)

\* _on_sound_received_for_channel; a chunk the queue has no room for is dropped,
\* which nothing else notices.
Hear(k) ==
  /\ FoldFunction(+, 0, heard) < MaxChunks /\ Len(ingest) < Capacity
  /\ heard' = [heard EXCEPT ![k] = @ + 1]
  /\ ingest' = Append(ingest, [who |-> k, n |-> heard[k] + 1, age |-> 0])
  /\ quiet' = [quiet EXCEPT ![k] = 0]
  /\ paused' = IF quiet[k] = Silence THEN [paused EXCEPT ![k] = @ \cup {heard[k] + 1}]
               ELSE paused
  /\ UNCHANGED <<loop, waited, stops>>

Older(age) == IF age < Silence THEN age + 1 ELSE age

Pass ==
  /\ ingest' = [i \in DOMAIN ingest |-> [ingest[i] EXCEPT !.age = Older(@)]]
  /\ active' = [k \in Speakers |-> IF active[k] = NoSegment THEN NoSegment
                                   ELSE [active[k] EXCEPT !.age = Older(@)]]
  /\ quiet' = [k \in Speakers |-> Older(quiet[k])]
  /\ waited' = [k \in Speakers |->
                  waited[k] \cup {ingest[i].n : i \in {j \in DOMAIN ingest : ingest[j].who = k}}]
  /\ UNCHANGED <<heard, paused, work, stage, took, done, stops>>

-----------------------------------------------------------------------------
(* The loop: _run_forever.                                                 *)

Piece(k, a, long) ==
  [who |-> k, parts |-> a.parts, index |-> a.index, split |-> a.split \/ long]

\* The rest of a long transmission.
Continued(a, parts) ==
  [parts |-> parts, age |-> a.age, index |-> a.index + 1, split |-> TRUE]

\* Slip (mutant): a segment's clock starts with its first chunk.
ExtendedOnce(c) ==
  LET a == IF active[c.who] = NoSegment THEN [Fresh EXCEPT !.age = c.age] ELSE active[c.who]
  IN  [a EXCEPT !.parts = Append(@, c.n)]

\* The speaker's segment with one chunk more.
Extended(c) ==
  LET a == IF active[c.who] = NoSegment THEN Fresh ELSE active[c.who]
  IN  [a EXCEPT !.parts = Append(@, c.n), !.age = c.age]

\* Slip (mutant): the rest of a long transmission begins with the last chunk of
\* what was cut.
TakeAgain ==
  LET c == Head(ingest)
      a == Extended(c)
      long == Len(a.parts) >= MaxLen
  IN  /\ stage = "poll" /\ ingest # <<>>
      /\ ingest' = Tail(ingest) /\ stage' = "cut" /\ took' = TRUE
      /\ active' = [active EXCEPT ![c.who] = IF long THEN Continued(a, <<c.n>>) ELSE a]
      /\ work' = IF long THEN <<Piece(c.who, a, TRUE)>> ELSE <<>>
      /\ UNCHANGED <<heard, quiet, paused, waited, done, stops>>

\* push_chunk: a segment that has grown long is cut.
Take ==
  LET c == Head(ingest)
      a == Extended(c)
      long == Len(a.parts) >= MaxLen
  IN  /\ stage = "poll" /\ ingest # <<>>
      /\ ingest' = Tail(ingest) /\ stage' = "cut" /\ took' = TRUE
      /\ active' = [active EXCEPT ![c.who] = IF long THEN Continued(a, <<>>) ELSE a]
      /\ work' = IF long THEN <<Piece(c.who, a, TRUE)>> ELSE <<>>
      /\ UNCHANGED <<heard, quiet, paused, waited, done, stops>>

TimedOut ==
  /\ stage = "poll" /\ ingest = <<>>
  /\ stage' = "cut" /\ took' = FALSE
  /\ UNCHANGED <<sound, waited, active, work, done, stops>>

\* _process_segments: whether a text comes of it or not, the next one is taken.
Transcribe ==
  /\ work # <<>>
  /\ LET p == Head(work) IN done' = [done EXCEPT ![p.who] = Append(@, p)]
  /\ work' = Tail(work)
  /\ UNCHANGED <<sound, waited, active, stage, took, stops>>

Idle == {k \in Speakers : active[k] # NoSegment /\ active[k].age >= Silence}
Short(k) == Len(active[k].parts) < MinLen

\* Slip (mutant): what the flush returns is dropped.
FlushReadyUnused ==
  /\ stage = "cut" /\ work = <<>> /\ stage' = "flushed"
  /\ active' = [k \in Speakers |-> IF k \in Idle THEN NoSegment ELSE active[k]]
  /\ UNCHANGED <<sound, waited, work, took, done, stops>>

\* safe_flush_ready, when a quarter of a second has passed since the last one, as
\* it has when the poll timed out.  What is too short goes no further.
FlushReady ==
  /\ stage = "cut" /\ work = <<>> /\ stage' = "flushed"
  /\ active' = [k \in Speakers |-> IF k \in Idle THEN NoSegment ELSE active[k]]
  /\ done' = [k \in Speakers |-> IF k \in Idle /\ Short(k)
                                 THEN Append(done[k], Piece(k, active[k], FALSE)) ELSE done[k]]
  /\ \E order \in SetToSeqs({k \in Idle : ~Short(k)}) :
       work' = [i \in DOMAIN order |-> Piece(order[i], active[order[i]], FALSE)]
  /\ UNCHANGED <<sound, waited, took, stops>>

TooSoon ==
  /\ stage = "cut" /\ work = <<>> /\ took /\ stage' = "flushed"
  /\ UNCHANGED <<sound, waited, active, work, took, done, stops>>

Around ==
  /\ stage = "flushed" /\ work = <<>> /\ stage' = "poll"
  /\ UNCHANGED <<sound, waited, active, work, took, done, stops>>

\* A signal, or an error of the transcript's files: what is in memory is lost, and
\* the service is started again.
StopVoice ==
  /\ stops < MaxStops /\ stops' = stops + 1
  /\ ingest' = <<>> /\ work' = <<>> /\ stage' = "poll" /\ took' = FALSE
  /\ active' = [k \in Speakers |-> NoSegment]
  /\ heard' = [k \in Speakers |-> 0] /\ quiet' = [k \in Speakers |-> Silence]
  /\ paused' = [k \in Speakers |-> {}] /\ waited' = [k \in Speakers |-> {}]
  /\ done' = [k \in Speakers |-> <<>>]

VoiceWork == Take \/ TimedOut \/ Transcribe \/ FlushReady \/ TooSoon \/ Around

VoiceNext == (\E k \in Speakers : Hear(k)) \/ Pass \/ VoiceWork \/ StopVoice

VoiceSpec == VoiceInit /\ [][VoiceNext]_voiceVars

-----------------------------------------------------------------------------
(* The chunks of a speaker: of the segments in a sequence of them, of the  *)
(* one still growing, and in the queue.                                    *)
Of(k, items) == {x \in Range(items) : x.who = k}
Spoken(k, pieces) == UNION {Range(p.parts) : p \in Of(k, pieces)}
Growing(k) == IF active[k] = NoSegment THEN {} ELSE Range(active[k].parts)
Queued(k) == {c.n : c \in Of(k, ingest)}

Rising(numbers) == \A i, j \in DOMAIN numbers : i < j => numbers[i] < numbers[j]

\* Each of the speaker's segments is in order, and after those before it.
InTurn(k, pieces) ==
  \A i \in DOMAIN pieces : pieces[i].who = k =>
    /\ Rising(pieces[i].parts)
    /\ \A j \in 1 .. i - 1 : pieces[j].who = k =>
         \A m \in Range(pieces[j].parts), n \in Range(pieces[i].parts) : m < n

(* Every chunk queued went out, is in one segment that was cut, is in the  *)
(* one still growing, or waits in the queue, each part of them one after   *)
(* the other and in the order they were spoken in: cutting, dropping and   *)
(* transcribing lose nothing and repeat nothing, whoever else speaks       *)
(* meanwhile.                                                              *)
EachOnce ==
  \A k \in Speakers :
    /\ \E out \in 0 .. heard[k] : \E cut \in out .. heard[k] : \E grown \in cut .. heard[k] :
         /\ Spoken(k, done[k]) = 1 .. out /\ Spoken(k, work) = out + 1 .. cut
         /\ Growing(k) = cut + 1 .. grown /\ Queued(k) = grown + 1 .. heard[k]
    /\ InTurn(k, done[k]) /\ InTurn(k, work)
    /\ active[k] # NoSegment => Rising(active[k].parts)
    /\ \A i, j \in DOMAIN ingest :
         i < j /\ ingest[i].who = k /\ ingest[j].who = k => ingest[i].n < ingest[j].n

\* The segments of a speaker, the one still growing among them.
Pieces(k) ==
  Of(k, done[k]) \cup Of(k, work)
    \cup (IF active[k] = NoSegment THEN {} ELSE {Piece(k, active[k], FALSE)})

\* b begins where a ended.
Follows(b, a) ==
  a.parts # <<>> /\ b.parts # <<>> /\ Head(b.parts) = Last(a.parts) + 1

(* A transmission is cut only where it was long, and the pieces say so, or *)
(* where the speaker paused, unless a chunk there was kept waiting in the  *)
(* queue, as behind a transcription, whose time looks like silence.        *)
CutAtPause ==
  \A k \in Speakers : \A a, b \in Pieces(k) :
    Follows(b, a) =>
      IF b.index = 0
      THEN \/ Head(b.parts) \in paused[k] \cup waited[k]
           \/ Last(a.parts) \in waited[k]
      ELSE /\ b.index = a.index + 1 /\ a.split /\ b.split
           /\ Len(a.parts) = MaxLen

(* What was queued is dealt with in the end, as long as transcriptions end *)
(* and time passes: no speaker's segment is forgotten, nor what was cut.   *)
EveryChunk == []<>(\A k \in Speakers : Spoken(k, done[k]) = 1 .. heard[k])
=============================================================================
