------------------------- MODULE SpeechOutputProofs -------------------------
(***************************************************************************)
(* What holds of spoken answers for every number of speeches, of sentences *)
(* and of voices that are tried: SpeechIsSound.                            *)
(***************************************************************************)
EXTENDS SpeechOutput, Integers, NaturalsInduction, WellFoundedInduction, TLAPS

USE SpeechAssumption

-----------------------------------------------------------------------------
(* The invariant.                                                          *)

TextPoints   == {"synth", "sound", "poll", "console"}
QueuePoints  == {"next", "inner", "check", "sound", "playing", "drain"}
Points       == {"none", "ended"} \cup TextPoints \cup QueuePoints
Interrupting == {"interrupt", "take", "join"}
Beginning    == {"clear", "start"}
Elsewhere    == {"idle", "routed", "llm", "flushed", "decide", "told", "cancel"}

Speeches == [pc : Points, slot : Slots, at : Nat, taken : Nat, back : {"inner", "drain"}]
Doings   == [pc : Elsewhere \cup Interrupting \cup Beginning,
             join : SUBSET Ids, say : {"none"} \cup Slots]

SpeechTypes ==
  /\ stopEvent \in BOOLEAN /\ llmCancel \in BOOLEAN /\ barged \in BOOLEAN
  /\ handle \in [Slots -> Ids \cup {0}]
  /\ device \in Ids \cup {0}
  /\ speech \in [Ids -> Speeches]
  /\ put \in [Ids -> 0 .. Parts]
  /\ closed \subseteq Ids
  /\ caller \in [Callers -> Doings]
  /\ setting \in {"prompt", "slow", "announced", "barged"}
  /\ tail \in [Ids -> Nat]
  /\ played \in [Ids -> Seq(Nat)]
  /\ owed \in Nat /\ handed \in Nat

\* A thread goes through the points of what it speaks, and plays what it has taken.
ThreadOk(j) ==
  /\ speech[j].taken <= put[j]
  /\ 1 <= speech[j].at
  /\ speech[j].slot = "text"  =>
       /\ speech[j].at <= Attempts
       /\ speech[j].taken = 0
       /\ speech[j].pc \in TextPoints \cup {"none", "ended"}
  /\ speech[j].slot = "queue" =>
       /\ speech[j].at <= speech[j].taken + 1
       /\ speech[j].pc \in QueuePoints \cup {"ended"}
       /\ speech[j].pc \in {"check", "sound", "playing"} => speech[j].at <= speech[j].taken
  /\ speech[j].pc = "none" => put[j] = 0 /\ played[j] = <<>> /\ tail[j] = 0

\* Who may do what: the listener only interrupts, the announcer only speaks a text.
CallerOk(c) ==
  /\ c = "listener"  => caller[c].pc \in {"idle", "cancel"} \cup Interrupting
  /\ c = "announcer" => caller[c].pc \in {"idle"} \cup Interrupting \cup Beginning
  /\ c = "turn"      => caller[c].pc # "cancel"
  /\ c = "turn" /\ caller[c].pc \in Interrupting \cup Beginning => caller[c].say \in Slots
  /\ c = "announcer" /\ caller[c].pc \in Interrupting \cup Beginning => caller[c].say = "text"
  /\ c = "announcer" /\ setting # "announced" => caller[c].pc = "idle"
  /\ c = "listener" /\ setting # "barged" => caller[c].pc = "idle"

\* What was played comes before what is to be played.
OrderInv ==
  \A j \in Ids :
    /\ \A n \in DOMAIN played[j] :
         \/ played[j][n] < speech[j].at
         \/ speech[j].pc = "playing" /\ played[j][n] <= speech[j].at
    /\ \A m, n \in DOMAIN played[j] : m < n => played[j][m] < played[j][n]

\* A thread that may begin a waveform without another look at the stop event.
Ready(j) == speech[j].pc = "sound" \/ (speech[j].pc = "synth" /\ speech[j].at = 1)

TailInv ==
  /\ ~stopEvent => \A j \in Ids : tail[j] = 0
  /\ \A j \in Ids : tail[j] <= 1 /\ (tail[j] = 1 => ~Ready(j))

\* Threads are begun in the order of their numbers.
SeenInv ==
  /\ \A i, j \in Ids : i < j /\ speech[i].pc = "none" => speech[j].pc = "none"
  /\ SpeakingIsSeen

\* With one caller and joins that wait: whoever lives is known, by a handle or to the join.
VoiceInv ==
  setting = "prompt" =>
    /\ OneVoice
    /\ \A j \in Ids : Alive(j) =>
         /\ caller["turn"].pc \notin Beginning
         /\ IF caller["turn"].pc = "join" THEN j \in caller["turn"].join
            ELSE handle[speech[j].slot] = j

\* What is handed over on the way: nothing yet, all of it, or what the queue holds.
HandedInv ==
  /\ caller["turn"].pc \in Interrupting \cup Beginning =>
       IF caller["turn"].say = "text" THEN handed = owed ELSE handed = 0
  /\ caller["turn"].pc \in {"idle", "routed"} => handed = 0
  /\ caller["turn"].pc \in {"llm", "flushed"} =>
       \E j \in Ids : caller["turn"].join = {j} /\ handed = put[j] /\ speech[j].pc # "none"
  /\ HandedOnce

ThreadsOk == \A j \in Ids : ThreadOk(j)
CallersOk == \A c \in Callers : CallerOk(c)

Shaped == SpeechTypes /\ ThreadsOk /\ CallersOk

SpeechInv == Shaped /\ OrderInv /\ TailInv /\ SeenInv /\ VoiceInv /\ HandedInv

-----------------------------------------------------------------------------
(* Types.                                                                  *)

\* What a step of a caller leaves of its record.
LEMMA CallerSteps ==
  ASSUME caller \in [Callers -> Doings], NEW c \in Callers,
         NEW point \in Elsewhere \cup Interrupting \cup Beginning, NEW ids \in SUBSET Ids
  PROVE  /\ [caller EXCEPT ![c].pc = point] \in [Callers -> Doings]
         /\ [caller EXCEPT ![c].pc = point][c].pc = point
         /\ [caller EXCEPT ![c].pc = point][c].join = caller[c].join
         /\ [caller EXCEPT ![c].pc = point][c].say = caller[c].say
         /\ [caller EXCEPT ![c].pc = point, ![c].join = ids] \in [Callers -> Doings]
         /\ [caller EXCEPT ![c].pc = point, ![c].join = ids][c].pc = point
         /\ [caller EXCEPT ![c].pc = point, ![c].join = ids][c].join = ids
         /\ [caller EXCEPT ![c].pc = point, ![c].join = ids][c].say = caller[c].say
         /\ \A d \in Callers \ {c} :
              /\ [caller EXCEPT ![c].pc = point][d] = caller[d]
              /\ [caller EXCEPT ![c].pc = point, ![c].join = ids][d] = caller[d]
  BY DEF Doings

-----------------------------------------------------------------------------
(* What a step of a speech thread may do.                                  *)

EffectOnPlayed(j) ==
  \/ /\ played'[j] = played[j]
     /\ speech'[j].at >= speech[j].at
     /\ speech[j].pc = "playing" => speech'[j].at > speech[j].at
  \/ played'[j] = <<>>
  \/ /\ speech[j].pc = "sound" /\ speech'[j].pc = "playing"
     /\ speech'[j].at = speech[j].at
     /\ played'[j] = Append(played[j], speech[j].at)

EffectOnTail(j) ==
  \/ tail'[j] = tail[j] /\ (Ready(j)' => Ready(j) \/ ~stopEvent)
  \/ /\ speech[j].pc = "sound" /\ ~Ready(j)'
     /\ tail'[j] = IF stopEvent THEN tail[j] + 1 ELSE tail[j]

ThreadEffect(j) ==
  /\ Alive(j)
  /\ speech' \in [Ids -> Speeches]
  /\ \A i \in Ids \ {j} : speech'[i] = speech[i] /\ played'[i] = played[i] /\ tail'[i] = tail[i]
  /\ speech'[j].slot = speech[j].slot /\ speech'[j].pc # "none"
  /\ \/ handle' = handle /\ speech'[j].pc # "ended"
     \/ handle' = Forget(j) /\ speech'[j].pc = "ended"
  /\ device' \in Ids \cup {0}
  /\ tail' \in [Ids -> Nat] /\ played' \in [Ids -> Seq(Nat)]
  /\ UNCHANGED <<stopEvent, put, closed, caller, llmCancel, barged, setting, answer>>
  /\ ThreadOk(j)'
  /\ EffectOnPlayed(j)
  /\ EffectOnTail(j)

\* The record of j is written, with these fields.
Wrote(j, point, at, taken, back) ==
  /\ speech' \in [Ids -> Speeches]
  /\ speech'[j].pc = point /\ speech'[j].slot = speech[j].slot
  /\ speech'[j].at = at /\ speech'[j].taken = taken /\ speech'[j].back = back
  /\ \A i \in Ids \ {j} : speech'[i] = speech[i]

\* What is known of the state that a thread reads.
LEMMA ThreadFields ==
  ASSUME Shaped, NEW j \in Ids
  PROVE  /\ speech \in [Ids -> Speeches]
         /\ speech[j].pc \in Points /\ speech[j].slot \in Slots
         /\ speech[j].at \in Nat /\ speech[j].taken \in Nat /\ put[j] \in Nat
         /\ speech[j].back \in {"inner", "drain"} /\ ThreadOk(j)
         /\ tail \in [Ids -> Nat] /\ played \in [Ids -> Seq(Nat)]
         /\ device \in Ids \cup {0}
  <1>1. speech[j] \in Speeches /\ ThreadOk(j) /\ put[j] \in 0 .. Parts
    BY DEF Shaped, SpeechTypes, ThreadsOk
  <1>. QED
    BY <1>1 DEF Speeches, Shaped, SpeechTypes

\* The ways in which a step writes a record.
LEMMA WritesPoint ==
  ASSUME speech \in [Ids -> Speeches], NEW j \in Ids, NEW point \in Points,
         speech' = [speech EXCEPT ![j].pc = point]
  PROVE  Wrote(j, point, speech[j].at, speech[j].taken, speech[j].back)
  BY DEF Wrote, Speeches

\* A thread that moves its place writes nothing else.
LEMMA WritesAt ==
  ASSUME speech \in [Ids -> Speeches], NEW j \in Ids, NEW n \in Nat,
         speech' = [speech EXCEPT ![j].at = n]
  PROVE  Wrote(j, speech[j].pc, n, speech[j].taken, speech[j].back)
  BY DEF Wrote, Speeches

\* A thread that moves its point and its place writes nothing else.
LEMMA WritesPointAt ==
  ASSUME speech \in [Ids -> Speeches], NEW j \in Ids, NEW point \in Points, NEW n \in Nat,
         speech' = [speech EXCEPT ![j].pc = point, ![j].at = n]
  PROVE  Wrote(j, point, n, speech[j].taken, speech[j].back)
  BY DEF Wrote, Speeches

\* A thread that takes an item writes nothing else.
LEMMA WritesPointTaken ==
  ASSUME speech \in [Ids -> Speeches], NEW j \in Ids, NEW point \in Points, NEW n \in Nat,
         speech' = [speech EXCEPT ![j].pc = point, ![j].taken = n]
  PROVE  Wrote(j, point, speech[j].at, n, speech[j].back)
  BY DEF Wrote, Speeches

\* A thread that notes where to go back to writes nothing else.
LEMMA WritesPointBack ==
  ASSUME speech \in [Ids -> Speeches], NEW j \in Ids, NEW point \in Points,
         NEW back \in {"inner", "drain"},
         speech' = [speech EXCEPT ![j].pc = point, ![j].back = back]
  PROVE  Wrote(j, point, speech[j].at, speech[j].taken, back)
  BY DEF Wrote, Speeches

\* A thread goes on with what it speaks, says nothing, and leaves the rest alone.
LEMMA GoesOn ==
  ASSUME Shaped, NEW j \in Ids, Alive(j), Still,
         NEW point, NEW at, NEW taken, NEW back, Wrote(j, point, at, taken, back),
         UNCHANGED <<stopEvent, handle, put, closed, tail, played>>,
         device' \in Ids \cup {0},
         point \notin {"none", "ended"},
         ThreadOk(j)', at >= speech[j].at,
         speech[j].pc = "playing" => at > speech[j].at,
         point = "sound" \/ (point = "synth" /\ at = 1) => Ready(j) \/ ~stopEvent
  PROVE  ThreadEffect(j)
  <1>1. EffectOnPlayed(j)
    BY DEF EffectOnPlayed, Wrote
  <1>2. EffectOnTail(j)
    BY DEF EffectOnTail, Wrote, Ready
  <1>3. /\ speech' \in [Ids -> Speeches] /\ tail' \in [Ids -> Nat] /\ played' \in [Ids -> Seq(Nat)]
        /\ \A i \in Ids \ {j} : speech'[i] = speech[i] /\ played'[i] = played[i] /\ tail'[i] = tail[i]
        /\ speech'[j].slot = speech[j].slot /\ speech'[j].pc # "none" /\ speech'[j].pc # "ended"
    BY ThreadFields DEF Wrote
  <1>. QED
    BY <1>1, <1>2, <1>3 DEF ThreadEffect, Still, answer

\* A thread that ends.
LEMMA Ends ==
  ASSUME Shaped, NEW j \in Ids, Alive(j), End(j)
  PROVE  ThreadEffect(j)
  <1>a. speech[j].slot \in Slots /\ put[j] \in Nat /\ ThreadOk(j) /\ speech \in [Ids -> Speeches]
        /\ tail \in [Ids -> Nat] /\ played \in [Ids -> Seq(Nat)] /\ device \in Ids \cup {0}
    BY ThreadFields
  <1>1. Wrote(j, "ended", 1, 0, "inner")
    BY <1>a DEF End, NoThread, Wrote, Speeches, Points
  <1>5. /\ played' \in [Ids -> Seq(Nat)] /\ played'[j] = <<>>
        /\ \A i \in Ids \ {j} : played'[i] = played[i]
    BY <1>a DEF End
  <1>6. ThreadOk(j)'
    <2>1. put'[j] \in Nat /\ speech'[j].slot \in Slots
      BY <1>1, <1>a DEF End, Wrote
    <2>. QED
      BY <1>1, <2>1 DEF ThreadOk, Wrote, Slots
  <1>7. EffectOnPlayed(j)
    BY <1>5 DEF EffectOnPlayed
  <1>8. EffectOnTail(j)
    BY <1>1 DEF EffectOnTail, Ready, End, Wrote
  <1>9. UNCHANGED <<stopEvent, device, put, closed, tail>> /\ Still /\ handle' = Forget(j)
    BY DEF End
  <1>. QED
    BY <1>a, <1>1, <1>5, <1>6, <1>7, <1>8, <1>9 DEF ThreadEffect, Still, answer, Wrote

\* A waveform begins: the thread is counted if the stop event is set.
LEMMA Begins ==
  ASSUME Shaped, NEW j \in Ids, Begin(j)
  PROVE  /\ device' \in Ids \cup {0} /\ tail' \in [Ids -> Nat]
         /\ tail'[j] = (IF stopEvent THEN tail[j] + 1 ELSE tail[j])
         /\ \A i \in Ids \ {j} : tail'[i] = tail[i]
  BY DEF Begin, Shaped, SpeechTypes

\* Each step of a thread that speaks one text has the effect of a thread.
LEMMA TextSteps ==
  ASSUME Shaped, NEW j \in Ids,
         SynthText(j) \/ PlayText(j) \/ PollStopped(j) \/ PollEnded(j) \/ Console(j)
  PROVE  ThreadEffect(j)
  <1>a. /\ ThreadOk(j) /\ speech[j].slot \in Slots /\ speech[j].at \in Nat
        /\ speech[j].taken \in Nat /\ put[j] \in Nat /\ speech \in [Ids -> Speeches]
        /\ device \in Ids \cup {0} /\ played \in [Ids -> Seq(Nat)]
    BY ThreadFields
  <1>b. Alive(j)
    BY DEF Alive, SynthText, PlayText, PollStopped, PollEnded, Console, ThreadAt
  <1>c. speech[j].slot = "text"
    BY <1>a DEF SynthText, PlayText, PollStopped, PollEnded, Console, ThreadAt, ThreadOk,
       Slots, QueuePoints
  <1>d. 1 <= speech[j].at /\ speech[j].at <= Attempts /\ speech[j].taken = 0
    BY <1>a, <1>c DEF ThreadOk
  <1>e. ASSUME NEW point \in TextPoints \cup {"poll"}, NEW at \in 1 .. Attempts, put' = put,
               Wrote(j, point, at, speech[j].taken, speech[j].back)
        PROVE  ThreadOk(j)'
    BY <1>a, <1>c, <1>d, <1>e DEF ThreadOk, Wrote, TextPoints
  <1>n. PICK n \in Nat : n = speech[j].at + 1
    BY <1>a
  <1>1. ASSUME SynthText(j) PROVE ThreadEffect(j)
    <2>a. speech[j].pc = "synth" /\ Still /\ device' = device
          /\ UNCHANGED <<stopEvent, handle, put, closed, tail, played>>
      BY <1>1 DEF SynthText, ThreadAt, engine
    <2>1. ASSUME NEW point \in {"sound", "console"}, Move(j, point),
                 point = "sound" => speech[j].at = 1 \/ NextVoice
          PROVE  ThreadEffect(j)
      <3>1. Wrote(j, point, speech[j].at, speech[j].taken, speech[j].back)
        BY <1>a, <2>1, WritesPoint DEF Move, Points, TextPoints
      <3>2. ThreadOk(j)'
        BY <1>a, <1>d, <1>e, <2>a, <3>1 DEF TextPoints
      <3>3. point = "sound" => Ready(j) \/ ~stopEvent
        BY <2>1, <2>a DEF Ready, NextVoice
      <3>. QED
        BY <1>a, <1>b, <2>a, <3>1, <3>2, <3>3, GoesOn
    <2>2. ASSUME speech[j].at < Attempts, speech' = [speech EXCEPT ![j].at = @ + 1]
          PROVE  ThreadEffect(j)
      <3>1. Wrote(j, "synth", n, speech[j].taken, speech[j].back)
        BY <1>a, <1>n, <2>2, <2>a, WritesAt
      <3>2. ThreadOk(j)'
        BY <1>a, <1>d, <1>e, <1>n, <2>2, <2>a, <3>1 DEF TextPoints
      <3>. QED
        BY <1>a, <1>b, <1>d, <1>n, <2>a, <3>1, <3>2, GoesOn
    <2>. QED
      BY <1>1, <2>1, <2>2 DEF SynthText
  <1>2. ASSUME PlayText(j) PROVE ThreadEffect(j)
    <2>1. Wrote(j, "poll", speech[j].at, speech[j].taken, speech[j].back)
      BY <1>2, <1>a, WritesPoint DEF PlayText, Move, Points, TextPoints
    <2>2. ThreadOk(j)'
      BY <1>2, <1>a, <1>d, <1>e, <2>1 DEF PlayText, TextPoints
    <2>3. ~Ready(j)' /\ speech[j].pc = "sound"
      BY <1>2, <2>1 DEF Ready, PlayText, ThreadAt, Wrote
    <2>4. EffectOnTail(j)
      BY <1>2, <2>3, Begins DEF PlayText, EffectOnTail
    <2>5. EffectOnPlayed(j)
      BY <1>2, <1>a, <2>1, <2>3 DEF PlayText, EffectOnPlayed, Wrote
    <2>6. device' \in Ids \cup {0} /\ tail' \in [Ids -> Nat]
          /\ \A i \in Ids \ {j} : tail'[i] = tail[i]
      BY <1>2, Begins DEF PlayText
    <2>7. UNCHANGED <<stopEvent, handle, put, closed, played>> /\ Still
      BY <1>2 DEF PlayText
    <2>. QED
      BY <1>a, <1>b, <2>1, <2>2, <2>4, <2>5, <2>6, <2>7
      DEF ThreadEffect, Still, answer, Wrote
  <1>3. ASSUME PollStopped(j) PROVE ThreadEffect(j)
    <2>a. speech[j].pc = "poll" /\ Still /\ device' \in Ids \cup {0}
          /\ UNCHANGED <<stopEvent, handle, put, closed, tail, played>>
      BY <1>3 DEF PollStopped, ThreadAt
    <2>1. CASE speech[j].at < Attempts
      <3>1. speech' = [speech EXCEPT ![j].pc = "synth", ![j].at = n]
        BY <1>3, <1>a, <1>n, <2>1 DEF PollStopped
      <3>2. Wrote(j, "synth", n, speech[j].taken, speech[j].back)
        BY <1>a, <3>1, WritesPointAt DEF Points, TextPoints
      <3>3. ThreadOk(j)'
        BY <1>a, <1>d, <1>e, <1>n, <2>1, <2>a, <3>2 DEF TextPoints
      <3>4. n >= speech[j].at /\ n # 1 /\ speech[j].pc # "playing"
        BY <1>a, <1>d, <1>n, <2>a
      <3>. QED
        BY <1>b, <2>a, <3>2, <3>3, <3>4, GoesOn
    <2>2. CASE ~(speech[j].at < Attempts)
      <3>1. speech' = [speech EXCEPT ![j].pc = "console", ![j].at = speech[j].at]
        BY <1>3, <1>a, <2>2 DEF PollStopped
      <3>2. Wrote(j, "console", speech[j].at, speech[j].taken, speech[j].back)
        BY <1>a, <3>1, WritesPointAt DEF Points, TextPoints
      <3>3. ThreadOk(j)'
        BY <1>a, <1>d, <1>e, <2>a, <3>2 DEF TextPoints
      <3>4. speech[j].at >= speech[j].at /\ speech[j].pc # "playing"
        BY <1>a, <2>a
      <3>. QED
        BY <1>b, <2>a, <3>2, <3>3, <3>4, GoesOn
    <2>. QED
      BY <2>1, <2>2
  <1>4. ASSUME PollEnded(j) \/ Console(j) PROVE ThreadEffect(j)
    BY <1>4, <1>b, Ends DEF PollEnded, Console
  <1>. QED
    BY <1>1, <1>2, <1>3, <1>4

\* Each step of a thread that speaks from the queue has the effect of a thread.
LEMMA QueueSteps ==
  ASSUME Shaped, NEW j \in Ids,
         NextItem(j) \/ Inner(j) \/ Drain(j) \/ CheckItem(j) \/ PlayItem(j) \/ ItemPlayed(j)
  PROVE  ThreadEffect(j)
  <1>a. /\ ThreadOk(j) /\ speech[j].slot \in Slots /\ speech[j].at \in Nat
        /\ speech[j].taken \in Nat /\ put[j] \in Nat /\ speech \in [Ids -> Speeches]
        /\ device \in Ids \cup {0} /\ played \in [Ids -> Seq(Nat)]
        /\ speech[j].back \in {"inner", "drain"}
    BY ThreadFields
  <1>b. Alive(j)
    BY DEF Alive, NextItem, Inner, Drain, CheckItem, PlayItem, ItemPlayed, ThreadAt
  <1>c. speech[j].slot = "queue"
    BY <1>a DEF NextItem, Inner, Drain, CheckItem, PlayItem, ItemPlayed, ThreadAt, ThreadOk,
       Slots, TextPoints
  <1>d. /\ 1 <= speech[j].at /\ speech[j].at <= speech[j].taken + 1 /\ speech[j].taken <= put[j]
        /\ speech[j].pc \in {"check", "sound", "playing"} => speech[j].at <= speech[j].taken
    BY <1>a, <1>c DEF ThreadOk
  <1>e. ASSUME NEW point \in QueuePoints, NEW at \in Nat, NEW taken \in Nat, NEW back, put' = put,
               Wrote(j, point, at, taken, back), 1 <= at, at <= taken + 1, taken <= put[j],
               point \in {"check", "sound", "playing"} => at <= taken
        PROVE  ThreadOk(j)'
    BY <1>a, <1>c, <1>e DEF ThreadOk, Wrote, QueuePoints
  <1>n. PICK n \in Nat : n = speech[j].at + 1
    BY <1>a
  <1>k. PICK k \in Nat : k = speech[j].taken + 1
    BY <1>a
  <1>f. ASSUME Passed(j), speech[j].pc \in {"check", "playing"}, Still,
               UNCHANGED <<engine, put, closed, tail, played>>
        PROVE  ThreadEffect(j)
    <2>1. Wrote(j, speech[j].back, n, speech[j].taken, speech[j].back)
      BY <1>a, <1>f, <1>n, WritesPointAt DEF Passed, Points, QueuePoints
    <2>2. ThreadOk(j)'
      BY <1>a, <1>d, <1>e, <1>f, <1>n, <2>1 DEF QueuePoints
    <2>3. UNCHANGED <<stopEvent, handle, device, put, closed, tail, played>>
      BY <1>f DEF engine
    <2>. QED
      BY <1>a, <1>b, <1>f, <1>n, <2>1, <2>2, <2>3, GoesOn
  <1>g. ASSUME NEW back \in {"inner", "drain"},
               speech' = [speech EXCEPT ![j].pc = "check", ![j].back = back],
               speech[j].pc # "playing", speech[j].at <= speech[j].taken, Still,
               UNCHANGED <<engine, put, closed, tail, played>>
        PROVE  ThreadEffect(j)
    <2>1. Wrote(j, "check", speech[j].at, speech[j].taken, back)
      BY <1>a, <1>g, WritesPointBack DEF Points, QueuePoints
    <2>2. ThreadOk(j)'
      BY <1>a, <1>d, <1>e, <1>g, <2>1 DEF QueuePoints
    <2>3. UNCHANGED <<stopEvent, handle, device, put, closed, tail, played>>
      BY <1>g DEF engine
    <2>4. device' \in Ids \cup {0} /\ speech[j].at >= speech[j].at
      BY <1>a, <2>3
    <2>. QED
      BY <1>b, <1>g, <2>1, <2>2, <2>3, <2>4, GoesOn
  <1>h. ASSUME NEW point \in {"drain", "next", "sound"}, Move(j, point),
               speech[j].pc # "playing", point = "sound" => speech[j].at <= speech[j].taken,
               point = "sound" => ~stopEvent, Still,
               UNCHANGED <<engine, put, closed, tail, played>>
        PROVE  ThreadEffect(j)
    <2>1. Wrote(j, point, speech[j].at, speech[j].taken, speech[j].back)
      BY <1>a, <1>h, WritesPoint DEF Move, Points, QueuePoints
    <2>2. ThreadOk(j)'
      BY <1>a, <1>d, <1>e, <1>h, <2>1 DEF QueuePoints
    <2>3. UNCHANGED <<stopEvent, handle, device, put, closed, tail, played>>
      BY <1>h DEF engine
    <2>. QED
      BY <1>a, <1>b, <1>h, <2>1, <2>2, <2>3, GoesOn
  <1>1. ASSUME NextItem(j) PROVE ThreadEffect(j)
    <2>a. speech[j].pc = "next" /\ Still /\ UNCHANGED <<engine, put, closed, tail, played>>
      BY <1>1 DEF NextItem, ThreadAt
    <2>1. CASE Move(j, "drain")
      BY <1>h, <2>1, <2>a
    <2>2. CASE /\ speech[j].taken < put[j]
               /\ speech' = [speech EXCEPT ![j].pc = "inner", ![j].taken = @ + 1]
      <3>1. Wrote(j, "inner", speech[j].at, k, speech[j].back)
        BY <1>a, <1>k, <2>2, WritesPointTaken DEF Points, QueuePoints
      <3>2. 1 <= speech[j].at /\ speech[j].at <= k + 1 /\ k <= put[j]
        BY <1>a, <1>d, <1>k, <2>2
      <3>3. UNCHANGED <<stopEvent, handle, device, put, closed, tail, played>>
        BY <2>a DEF engine
      <3>4. ThreadOk(j)'
        BY <1>a, <1>e, <3>1, <3>2, <3>3 DEF QueuePoints
      <3>5. device' \in Ids \cup {0} /\ speech[j].at >= speech[j].at /\ speech[j].pc # "playing"
        BY <1>a, <2>a, <3>3
      <3>. QED
        BY <1>b, <2>a, <3>1, <3>3, <3>4, <3>5, GoesOn
    <2>. QED
      BY <1>1, <2>1, <2>2 DEF NextItem, Move
  <1>2. ASSUME Inner(j) PROVE ThreadEffect(j)
    <2>a. speech[j].pc = "inner" /\ Still /\ UNCHANGED <<engine, put, closed, tail, played>>
      BY <1>2 DEF Inner, ThreadAt
    <2>1. CASE Move(j, "next")
      BY <1>h, <2>1, <2>a
    <2>2. CASE InTurn(j) # {} /\ speech' = [speech EXCEPT ![j].pc = "check", ![j].back = "inner"]
      <3>1. speech[j].at <= speech[j].taken
        BY <2>2, <1>a DEF InTurn
      <3>. QED
        BY <1>g, <2>2, <2>a, <3>1
    <2>. QED
      BY <1>2, <2>1, <2>2 DEF Inner
  <1>3. ASSUME Drain(j) PROVE ThreadEffect(j)
    <2>1. CASE End(j)
      BY <1>b, <2>1, Ends
    <2>2. CASE /\ speech[j].at <= speech[j].taken /\ ~stopEvent
               /\ speech' = [speech EXCEPT ![j].pc = "check", ![j].back = "drain"]
               /\ UNCHANGED <<engine, put, closed, tail, played>>
               /\ Still
      BY <1>3, <1>g, <2>2 DEF Drain, ThreadAt
    <2>. QED
      BY <1>3, <2>1, <2>2 DEF Drain
  <1>4. ASSUME CheckItem(j) PROVE ThreadEffect(j)
    <2>a. speech[j].pc = "check" /\ Still /\ UNCHANGED <<engine, put, closed, tail, played>>
      BY <1>4 DEF CheckItem, ThreadAt
    <2>1. CASE Move(j, "sound") /\ ~stopEvent
      BY <1>d, <1>h, <2>1, <2>a
    <2>2. CASE Passed(j)
      BY <1>f, <2>2, <2>a
    <2>. QED
      BY <1>4, <2>1, <2>2 DEF CheckItem
  <1>5. ASSUME PlayItem(j) PROVE ThreadEffect(j)
    <2>1. Wrote(j, "playing", speech[j].at, speech[j].taken, speech[j].back)
      BY <1>5, <1>a, WritesPoint DEF PlayItem, Move, Points, QueuePoints
    <2>2. speech[j].pc = "sound" /\ ~Ready(j)'
      BY <1>5, <2>1 DEF Ready, PlayItem, ThreadAt, Wrote
    <2>3. ThreadOk(j)'
      BY <1>5, <1>a, <1>d, <1>e, <2>1, <2>2 DEF PlayItem, QueuePoints
    <2>4. EffectOnTail(j)
      BY <1>5, <2>2, Begins DEF PlayItem, EffectOnTail
    <2>5. played' = [played EXCEPT ![j] = Append(@, speech[j].at)]
      BY <1>5 DEF PlayItem, InTurn
    <2>6. /\ played' \in [Ids -> Seq(Nat)]
          /\ played'[j] = Append(played[j], speech[j].at)
          /\ \A i \in Ids \ {j} : played'[i] = played[i]
      BY <1>a, <2>5
    <2>7. EffectOnPlayed(j)
      BY <2>1, <2>2, <2>6 DEF EffectOnPlayed, Wrote
    <2>8. device' \in Ids \cup {0} /\ tail' \in [Ids -> Nat]
          /\ \A i \in Ids \ {j} : tail'[i] = tail[i]
      BY <1>5, Begins DEF PlayItem
    <2>9. UNCHANGED <<stopEvent, handle, put, closed>> /\ Still
      BY <1>5 DEF PlayItem
    <2>. QED
      BY <1>b, <2>1, <2>3, <2>4, <2>6, <2>7, <2>8, <2>9
      DEF ThreadEffect, Still, answer, Wrote
  <1>6. ASSUME ItemPlayed(j) PROVE ThreadEffect(j)
    BY <1>6, <1>f DEF ItemPlayed, ThreadAt
  <1>. QED
    BY <1>1, <1>2, <1>3, <1>4, <1>5, <1>6

-----------------------------------------------------------------------------
(* What a step of a caller writes.                                         *)

\* The record of c is written, with these fields.
Did(c, point, ids, say) ==
  /\ caller' \in [Callers -> Doings]
  /\ caller'[c].pc = point /\ caller'[c].join = ids /\ caller'[c].say = say
  /\ \A d \in Callers \ {c} : caller'[d] = caller[d]

\* A record that is written anew.
LEMMA DoesAnew ==
  ASSUME caller \in [Callers -> Doings], NEW c \in Callers,
         NEW point \in Elsewhere \cup Interrupting \cup Beginning, NEW say \in {"none"} \cup Slots
  PROVE  /\ caller' = [caller EXCEPT ![c] = [Resting EXCEPT !.pc = point, !.say = say]]
              => Did(c, point, {}, say)
         /\ caller' = [caller EXCEPT ![c] = [Resting EXCEPT !.pc = point]]
              => Did(c, point, {}, "none")
         /\ caller' = [caller EXCEPT ![c] = Resting] => Did(c, "idle", {}, "none")
  <1>0. /\ Resting \in Doings /\ Resting.join = {} /\ Resting.say = "none"
        /\ Resting = [pc |-> "idle", join |-> {}, say |-> "none"]
    BY DEF Resting, Doings, Elsewhere
  <1>1. /\ [Resting EXCEPT !.pc = point, !.say = say]
             = [pc |-> point, join |-> {}, say |-> say]
        /\ [Resting EXCEPT !.pc = point] = [pc |-> point, join |-> {}, say |-> "none"]
    <2>1. ASSUME NEW r \in Doings
          PROVE  [r EXCEPT !.pc = point] = [pc |-> point, join |-> r.join, say |-> r.say]
      BY DEF Doings
    <2>2. ASSUME NEW r \in Doings
          PROVE  [r EXCEPT !.say = say] = [pc |-> r.pc, join |-> r.join, say |-> say]
      BY DEF Doings
    <2>3. [Resting EXCEPT !.pc = point] = [pc |-> point, join |-> {}, say |-> "none"]
      BY <1>0, <2>1
    <2>4. [pc |-> point, join |-> {}, say |-> "none"] \in Doings
      BY DEF Doings
    <2>. QED
      BY <2>2, <2>3, <2>4
  <1>2. ASSUME NEW p \in Elsewhere \cup Interrupting \cup Beginning, NEW s \in {"none"} \cup Slots,
               caller' = [caller EXCEPT ![c] = [pc |-> p, join |-> {}, say |-> s]]
        PROVE  Did(c, p, {}, s)
    BY <1>2 DEF Did, Doings
  <1>. QED
    BY <1>0, <1>1, <1>2 DEF Elsewhere

\* A caller that goes on changes neither whom it waits for nor what it is to say.
LEMMA DoesPoint ==
  ASSUME caller \in [Callers -> Doings], NEW c \in Callers,
         NEW point \in Elsewhere \cup Interrupting \cup Beginning, Goto(c, point)
  PROVE  Did(c, point, caller[c].join, caller[c].say)
  BY CallerSteps DEF Did, Goto

\* A caller that goes on to wait for threads does not change what it is to say.
LEMMA DoesPointJoin ==
  ASSUME caller \in [Callers -> Doings], NEW c \in Callers,
         NEW point \in Elsewhere \cup Interrupting \cup Beginning, NEW ids \in SUBSET Ids,
         caller' = [caller EXCEPT ![c].pc = point, ![c].join = ids]
  PROVE  Did(c, point, ids, caller[c].say)
  BY DEF Did, Doings

\* What is known of the state that a caller reads.
LEMMA CallerFields ==
  ASSUME Shaped, NEW c \in Callers
  PROVE  /\ caller \in [Callers -> Doings] /\ CallerOk(c)
         /\ caller[c].pc \in Elsewhere \cup Interrupting \cup Beginning
         /\ caller[c].join \in SUBSET Ids /\ caller[c].say \in {"none"} \cup Slots
  BY DEF Shaped, SpeechTypes, CallersOk, Doings

\* Of the callers only c did something, and it is where it may be.
LEMMA OthersOk ==
  ASSUME CallersOk, NEW c \in Callers, NEW point, NEW ids, NEW say,
         Did(c, point, ids, say), setting' = setting, CallerOk(c)'
  PROVE  CallersOk'
  BY DEF CallersOk, CallerOk, Did

\* The steps that leave the speech threads alone.
Quiet ==
  /\ UNCHANGED <<speech, put, closed, played, setting>>
  /\ tail' = tail \/ tail' = [j \in Ids |-> 0]

\* A quiet step leaves every thread well formed.
LEMMA QuietThreads ==
  ASSUME Shaped, Quiet
  PROVE  ThreadsOk' /\ tail' \in [Ids -> Nat]
  BY DEF Shaped, SpeechTypes, ThreadsOk, ThreadOk, Quiet

\* A quiet step of the caller c.
LEMMA QuietShaped ==
  ASSUME Shaped, Quiet, NEW c \in Callers, NEW point, NEW ids, NEW say,
         Did(c, point, ids, say), CallerOk(c)',
         stopEvent' \in BOOLEAN, llmCancel' \in BOOLEAN, barged' \in BOOLEAN,
         handle' \in [Slots -> Ids \cup {0}], device' \in Ids \cup {0},
         owed' \in Nat, handed' \in Nat
  PROVE  Shaped'
  <1>1. CallersOk'
    BY OthersOk DEF Shaped, Quiet
  <1>2. ThreadsOk' /\ tail' \in [Ids -> Nat]
    BY QuietThreads
  <1>3. SpeechTypes'
    BY <1>2 DEF Shaped, SpeechTypes, Quiet, Did
  <1>. QED
    BY <1>1, <1>2, <1>3 DEF Shaped

-----------------------------------------------------------------------------
(* The quiet steps: what they write, and that it is well formed.           *)

\* Where each quiet step takes its caller.
LEMMA QuietSteps ==
  ASSUME Shaped, NEW c \in Callers
  PROVE  /\ AskedToStop(c) => Shaped' /\ Quiet /\ Did(c, "take", caller[c].join, caller[c].say)
         /\ TakeHandles(c) => /\ Shaped' /\ Quiet
                              /\ Did(c, "join", {handle[s] : s \in Slots} \ {0}, caller[c].say)
         /\ Join(c) => /\ Shaped' /\ Quiet
                       /\ Did(c, IF c = "listener" THEN "cancel" ELSE "clear", {}, caller[c].say)
         /\ Clear(c) => Shaped' /\ Quiet /\ Did(c, "start", caller[c].join, caller[c].say)
  <1>a. /\ caller \in [Callers -> Doings] /\ CallerOk(c) /\ caller[c].join \in SUBSET Ids
        /\ caller[c].pc \in Elsewhere \cup Interrupting \cup Beginning
    BY CallerFields
  <1>b. /\ stopEvent \in BOOLEAN /\ llmCancel \in BOOLEAN /\ barged \in BOOLEAN
        /\ handle \in [Slots -> Ids \cup {0}] /\ device \in Ids \cup {0}
        /\ owed \in Nat /\ handed \in Nat
    BY DEF Shaped, SpeechTypes
  <1>1. ASSUME AskedToStop(c)
        PROVE  Shaped' /\ Quiet /\ Did(c, "take", caller[c].join, caller[c].say)
    <2>1. Did(c, "take", caller[c].join, caller[c].say)
      BY <1>1, <1>a, DoesPoint DEF AskedToStop, Interrupting
    <2>2. Quiet
      BY <1>1 DEF AskedToStop, Quiet, threads
    <2>3. CallerOk(c)'
      BY <1>1, <1>a, <2>1, <2>2
      DEF AskedToStop, CallerAt, CallerOk, Did, Quiet, Interrupting, Beginning
    <2>4. /\ stopEvent' \in BOOLEAN
          /\ UNCHANGED <<llmCancel, barged, handle, device, owed, handed>>
      BY <1>1 DEF AskedToStop, answer
    <2>. QED
      BY <1>b, <2>1, <2>2, <2>3, <2>4, QuietShaped
  <1>2. ASSUME TakeHandles(c)
        PROVE  /\ Shaped' /\ Quiet
               /\ Did(c, "join", {handle[s] : s \in Slots} \ {0}, caller[c].say)
    <2>1. PICK ids \in SUBSET Ids : ids = {handle[s] : s \in Slots} \ {0}
      BY <1>b
    <2>2. Did(c, "join", ids, caller[c].say)
      BY <1>2, <1>a, <2>1, DoesPointJoin DEF TakeHandles, Interrupting
    <2>3. Quiet
      BY <1>2 DEF TakeHandles, Quiet, threads, history
    <2>4. CallerOk(c)'
      BY <1>2, <1>a, <2>2, <2>3
      DEF TakeHandles, CallerAt, CallerOk, Did, Quiet, Interrupting, Beginning
    <2>5. /\ UNCHANGED <<stopEvent, llmCancel, barged, owed, handed>>
          /\ handle' \in [Slots -> Ids \cup {0}] /\ device' \in Ids \cup {0}
      BY <1>2 DEF TakeHandles, history, answer
    <2>6. Shaped'
      BY <1>b, <2>2, <2>3, <2>4, <2>5, QuietShaped
    <2>. QED
      BY <2>1, <2>2, <2>3, <2>6
  <1>3. ASSUME Join(c)
        PROVE  /\ Shaped' /\ Quiet
               /\ Did(c, IF c = "listener" THEN "cancel" ELSE "clear", {}, caller[c].say)
    <2>1. PICK point \in Elsewhere \cup Interrupting \cup Beginning :
            point = IF c = "listener" THEN "cancel" ELSE "clear"
      BY DEF Elsewhere, Beginning
    <2>2. Did(c, point, {}, caller[c].say)
      BY <1>3, <1>a, <2>1, DoesPointJoin DEF Join
    <2>3. Quiet
      BY <1>3 DEF Join, Quiet, threads, history
    <2>4. CallerOk(c)'
      BY <1>3, <1>a, <2>1, <2>2, <2>3
      DEF Join, CallerAt, CallerOk, Did, Quiet, Interrupting, Beginning, Callers
    <2>5. UNCHANGED <<stopEvent, llmCancel, barged, handle, device, owed, handed>>
      BY <1>3 DEF Join, engine, history, answer
    <2>6. Shaped'
      BY <1>b, <2>2, <2>3, <2>4, <2>5, QuietShaped
    <2>. QED
      BY <2>1, <2>2, <2>3, <2>6
  <1>4. ASSUME Clear(c)
        PROVE  Shaped' /\ Quiet /\ Did(c, "start", caller[c].join, caller[c].say)
    <2>1. Did(c, "start", caller[c].join, caller[c].say)
      BY <1>4, <1>a, DoesPoint DEF Clear, Beginning
    <2>2. Quiet
      BY <1>4 DEF Clear, Quiet, threads
    <2>3. CallerOk(c)'
      BY <1>4, <1>a, <2>1, <2>2
      DEF Clear, CallerAt, CallerOk, Did, Quiet, Interrupting, Beginning
    <2>4. /\ stopEvent' \in BOOLEAN
          /\ UNCHANGED <<llmCancel, barged, handle, device, owed, handed>>
      BY <1>4 DEF Clear, answer
    <2>. QED
      BY <1>b, <2>1, <2>2, <2>3, <2>4, QuietShaped
  <1>. QED
    BY <1>1, <1>2, <1>3, <1>4

\* The steps that say what is to be said next, or that nothing is.
LEMMA TurnSteps ==
  ASSUME Shaped
  PROVE  /\ Announce => Shaped' /\ Quiet /\ Did("announcer", "interrupt", {}, "text")
         /\ WakeInterrupt => /\ Shaped' /\ Quiet
                             /\ Did("listener", "interrupt", caller["listener"].join, caller["listener"].say)
         /\ CancelLlm => Shaped' /\ Quiet /\ Did("listener", "idle", {}, "none")
         /\ TurnBegins => /\ Shaped' /\ Quiet
                          /\ \/ Did("turn", "interrupt", {}, "queue")
                             \/ Did("turn", "routed", {}, "none")
         /\ Routed => Shaped' /\ Quiet /\ Did("turn", "decide", caller["turn"].join, caller["turn"].say)
         /\ Decide => /\ Shaped' /\ Quiet
                      /\ \/ barged /\ Did("turn", "told", caller["turn"].join, caller["turn"].say)
                         \/ ~barged /\ Did("turn", "interrupt", {}, "text")
         /\ TurnEnds => Shaped' /\ Quiet /\ Did("turn", "idle", {}, "none")
  <1>a. /\ caller \in [Callers -> Doings] /\ CallersOk /\ \A c \in Callers : CallerOk(c)
        /\ {"turn", "announcer", "listener"} \subseteq Callers
    BY DEF Shaped, SpeechTypes, CallersOk, Callers
  <1>b. /\ stopEvent \in BOOLEAN /\ llmCancel \in BOOLEAN /\ barged \in BOOLEAN
        /\ handle \in [Slots -> Ids \cup {0}] /\ device \in Ids \cup {0}
        /\ owed \in Nat /\ handed \in Nat
    BY DEF Shaped, SpeechTypes
  <1>c. {"text", "queue"} \subseteq Slots
    BY DEF Slots
  <1>1. ASSUME Announce
        PROVE  Shaped' /\ Quiet /\ Did("announcer", "interrupt", {}, "text")
    <2>1. Did("announcer", "interrupt", {}, "text")
      BY <1>1, <1>a, <1>c, DoesAnew DEF Announce, First, Interrupting
    <2>2. Quiet
      BY <1>1 DEF Announce, Quiet, threads, history
    <2>3. CallerOk("announcer")'
      BY <1>1, <2>1, <2>2 DEF Announce, CallerOk, Did, Quiet, Interrupting, Slots
    <2>4. UNCHANGED <<stopEvent, llmCancel, barged, handle, device, owed, handed>>
      BY <1>1 DEF Announce, engine, history, answer
    <2>. QED
      BY <1>a, <1>b, <2>1, <2>2, <2>3, <2>4, QuietShaped
  <1>2. ASSUME WakeInterrupt
        PROVE  /\ Shaped' /\ Quiet
               /\ Did("listener", "interrupt", caller["listener"].join, caller["listener"].say)
    <2>1. Did("listener", "interrupt", caller["listener"].join, caller["listener"].say)
      BY <1>2, <1>a, DoesPoint DEF WakeInterrupt, Interrupting
    <2>2. Quiet
      BY <1>2 DEF WakeInterrupt, Quiet, threads, history
    <2>3. CallerOk("listener")'
      BY <1>2, <2>1, <2>2 DEF WakeInterrupt, CallerOk, Did, Quiet, Interrupting, Beginning
    <2>4. UNCHANGED <<stopEvent, llmCancel, barged, handle, device, owed, handed>>
      BY <1>2 DEF WakeInterrupt, engine, history, answer
    <2>. QED
      BY <1>a, <1>b, <2>1, <2>2, <2>3, <2>4, QuietShaped
  <1>3. ASSUME CancelLlm
        PROVE  Shaped' /\ Quiet /\ Did("listener", "idle", {}, "none")
    <2>1. Did("listener", "idle", {}, "none")
      BY <1>3, <1>a, DoesAnew DEF CancelLlm, Elsewhere
    <2>2. Quiet
      BY <1>3 DEF CancelLlm, Quiet, threads, history
    <2>3. CallerOk("listener")'
      BY <1>3, <2>1, <2>2 DEF CallerOk, Did, Quiet, Interrupting, Beginning
    <2>4. /\ UNCHANGED <<stopEvent, handle, device, owed, handed>>
          /\ llmCancel' \in BOOLEAN /\ barged' \in BOOLEAN
      BY <1>3 DEF CancelLlm, engine, history, answer
    <2>. QED
      BY <1>a, <1>b, <2>1, <2>2, <2>3, <2>4, QuietShaped
  <1>4. ASSUME TurnBegins
        PROVE  /\ Shaped' /\ Quiet
               /\ \/ Did("turn", "interrupt", {}, "queue")
                  \/ Did("turn", "routed", {}, "none")
    <2>1. \/ Did("turn", "interrupt", {}, "queue")
          \/ Did("turn", "routed", {}, "none")
      <3>1. CASE caller' = [caller EXCEPT !["turn"] = [Resting EXCEPT !.pc = First, !.say = "queue"]]
        BY <1>a, <1>c, <3>1, DoesAnew DEF First, Interrupting
      <3>2. CASE caller' = [caller EXCEPT !["turn"] = [Resting EXCEPT !.pc = "routed"]]
        BY <1>a, <3>2, DoesAnew DEF Elsewhere
      <3>. QED
        BY <1>4, <3>1, <3>2 DEF TurnBegins
    <2>2. Quiet
      BY <1>4 DEF TurnBegins, Quiet, threads, history
    <2>3. CallerOk("turn")'
      BY <2>1, <2>2 DEF CallerOk, Did, Quiet, Interrupting, Beginning, Slots
    <2>4. /\ UNCHANGED <<stopEvent, handle, device, owed, handed>>
          /\ llmCancel' \in BOOLEAN /\ barged' \in BOOLEAN
      BY <1>4 DEF TurnBegins, engine, history, answer
    <2>. QED
      BY <1>a, <1>b, <2>1, <2>2, <2>3, <2>4, QuietShaped
  <1>5. ASSUME Routed
        PROVE  Shaped' /\ Quiet /\ Did("turn", "decide", caller["turn"].join, caller["turn"].say)
    <2>1. Did("turn", "decide", caller["turn"].join, caller["turn"].say)
      BY <1>5, <1>a, DoesPoint DEF Routed, Elsewhere
    <2>2. Quiet
      BY <1>5 DEF Routed, Quiet, threads
    <2>3. CallerOk("turn")'
      BY <2>1, <2>2 DEF CallerOk, Did, Quiet, Interrupting, Beginning
    <2>4. /\ UNCHANGED <<stopEvent, llmCancel, barged, handle, device, handed>> /\ owed' \in Nat
      BY <1>5 DEF Routed, engine
    <2>. QED
      BY <1>a, <1>b, <2>1, <2>2, <2>3, <2>4, QuietShaped
  <1>6. ASSUME Decide
        PROVE  /\ Shaped' /\ Quiet
               /\ \/ barged /\ Did("turn", "told", caller["turn"].join, caller["turn"].say)
                  \/ ~barged /\ Did("turn", "interrupt", {}, "text")
    <2>1. \/ barged /\ Did("turn", "told", caller["turn"].join, caller["turn"].say)
          \/ ~barged /\ Did("turn", "interrupt", {}, "text")
      <3>1. CASE barged
        BY <1>6, <1>a, <3>1, DoesPoint DEF Decide, Elsewhere
      <3>2. CASE ~barged
        BY <1>6, <1>a, <1>c, <3>2, DoesAnew DEF Decide, First, Interrupting
      <3>. QED
        BY <3>1, <3>2
    <2>2. Quiet
      BY <1>6 DEF Decide, Quiet, threads
    <2>3. CallerOk("turn")'
      BY <2>1, <2>2 DEF CallerOk, Did, Quiet, Interrupting, Beginning, Slots
    <2>4. UNCHANGED <<stopEvent, llmCancel, barged, handle, device, owed>> /\ handed' \in Nat
      BY <1>6, <1>b DEF Decide, engine
    <2>. QED
      BY <1>a, <1>b, <2>1, <2>2, <2>3, <2>4, QuietShaped
  <1>7. ASSUME TurnEnds
        PROVE  Shaped' /\ Quiet /\ Did("turn", "idle", {}, "none")
    <2>1. Did("turn", "idle", {}, "none")
      BY <1>7, <1>a, DoesAnew DEF TurnEnds, Elsewhere
    <2>2. Quiet
      BY <1>7 DEF TurnEnds, Quiet, threads
    <2>3. CallerOk("turn")'
      BY <2>1, <2>2 DEF CallerOk, Did, Quiet, Interrupting, Beginning
    <2>4. /\ UNCHANGED <<stopEvent, llmCancel, barged, handle, device>>
          /\ owed' \in Nat /\ handed' \in Nat
      BY <1>7 DEF TurnEnds, engine
    <2>. QED
      BY <1>a, <1>b, <2>1, <2>2, <2>3, <2>4, QuietShaped
  <1>. QED
    BY <1>1, <1>2, <1>3, <1>4, <1>5, <1>6, <1>7

-----------------------------------------------------------------------------
(* The stream of an answer.                                                *)

\* More sentences in a queue that is in use.
LEMMA MoreSentences ==
  ASSUME Shaped, put' \in [Ids -> 0 .. Parts], UNCHANGED <<speech, played, tail>>,
         \A i \in Ids : put[i] <= put'[i] /\ (speech[i].pc = "none" => put'[i] = put[i])
  PROVE  ThreadsOk'
  <1>1. ASSUME NEW i \in Ids PROVE ThreadOk(i)'
    <2>1. /\ ThreadOk(i) /\ speech[i].taken \in Nat /\ put[i] \in Nat /\ put'[i] \in Nat
          /\ put[i] <= put'[i] /\ (speech[i].pc = "none" => put'[i] = put[i])
      BY ThreadFields
    <2>2. speech[i].taken <= put'[i]
      BY <2>1 DEF ThreadOk
    <2>. QED
      BY <2>1, <2>2 DEF ThreadOk
  <1>. QED
    BY <1>1 DEF ThreadsOk

\* What the turn does while it reads the answer for the queue of j.
Streams(j, point, n) ==
  /\ caller["turn"].join = {j} /\ handed = put[j] /\ speech[j].pc # "none"
  /\ caller["turn"].pc \in {"llm", "flushed"}
  /\ Did("turn", point, {j}, caller["turn"].say)
  /\ put' = [put EXCEPT ![j] = n] /\ put[j] <= n /\ n <= Parts
  /\ UNCHANGED <<engine, speech, llmCancel, barged, setting, tail, played>>
  /\ closed' \subseteq Ids /\ handed' \in Nat /\ owed' \in Nat

\* A step of the turn that hands over sentences keeps the shape.
LEMMA StreamsShaped ==
  ASSUME Shaped, NEW j \in Ids, NEW point \in {"llm", "flushed", "decide", "told"}, NEW n \in Nat,
         Streams(j, point, n)
  PROVE  Shaped' /\ put'[j] = n
  <1>1. put \in [Ids -> 0 .. Parts] /\ n \in 0 .. Parts
    BY DEF Shaped, SpeechTypes, Streams
  <1>2. /\ put' \in [Ids -> 0 .. Parts] /\ put'[j] = n
        /\ \A i \in Ids \ {j} : put'[i] = put[i]
    BY <1>1 DEF Streams
  <1>3. \A i \in Ids : put[i] <= put'[i] /\ (speech[i].pc = "none" => put'[i] = put[i])
    BY <1>1, <1>2 DEF Streams
  <1>4. ThreadsOk'
    BY <1>2, <1>3, MoreSentences DEF Streams
  <1>5. CallerOk("turn")'
    BY DEF Streams, Did, CallerOk, Interrupting, Beginning
  <1>6. CallersOk'
    BY <1>5, OthersOk DEF Shaped, Streams, Callers
  <1>7. SpeechTypes'
    BY <1>2 DEF Streams, Shaped, SpeechTypes, Did, engine
  <1>. QED
    BY <1>2, <1>4, <1>6, <1>7 DEF Shaped

\* Stream and LlmReturns are steps that hand over sentences, and what they do to the answer.
LEMMA StreamSteps ==
  ASSUME Shaped, HandedInv, Stream \/ LlmReturns
  PROVE  \E j \in Ids, n \in Nat :
           \/ \E point \in {"llm", "flushed"} : Streams(j, point, n) /\ handed' = n
           \/ Streams(j, "decide", n)
           \/ Streams(j, "told", n) /\ (owed' = 0 \/ handed' = owed')
  <1>a. /\ caller \in [Callers -> Doings] /\ "turn" \in Callers
        /\ put \in [Ids -> 0 .. Parts] /\ closed \subseteq Ids /\ owed \in Nat /\ handed \in Nat
    BY DEF Shaped, SpeechTypes, Callers
  <1>1. PICK j \in Ids : caller["turn"].join = {j} /\ handed = put[j] /\ speech[j].pc # "none"
    BY DEF HandedInv, Stream, LlmReturns, CallerAt
  <1>2. put[j] \in Nat /\ put[j] <= Parts
    BY <1>a
  <1>3. ASSUME Stream
        PROVE  \E n \in Nat, point \in {"llm", "flushed"} : Streams(j, point, n) /\ handed' = n
    <2>1. PICK n \in Nat : n = put[j] + 1
      BY <1>2
    <2>2. PICK point \in {"llm", "flushed"} : point = IF llmCancel THEN "flushed" ELSE "llm"
      OBVIOUS
    <2>3. Did("turn", point, {j}, caller["turn"].say)
      BY <1>3, <1>a, <1>1, <2>2, DoesPoint DEF Stream, Elsewhere
    <2>4. put' = [put EXCEPT ![j] = n] /\ put[j] <= n /\ n <= Parts /\ handed' = n
      BY <1>3, <1>1, <1>2, <2>1 DEF Stream
    <2>5. /\ UNCHANGED <<engine, speech, llmCancel, barged, setting, tail, played>>
          /\ closed' \subseteq Ids /\ owed' \in Nat
      BY <1>3, <1>a DEF Stream
    <2>. QED
      BY <1>1, <1>3, <2>3, <2>4, <2>5 DEF Streams, Stream, CallerAt
  <1>4. ASSUME LlmReturns
        PROVE  \E n \in Nat : \/ Streams(j, "decide", n)
                              \/ Streams(j, "told", n) /\ (owed' = 0 \/ handed' = owed')
    <2>a. closed' \subseteq Ids /\ caller["turn"].pc \in {"llm", "flushed"}
          /\ UNCHANGED <<engine, speech, llmCancel, barged, setting, tail, played>>
      BY <1>4, <1>a, <1>1 DEF LlmReturns, Closes, CallerAt
    <2>1. PICK point \in {"decide", "told"} : point = IF put[j] = 0 THEN "decide" ELSE "told"
      OBVIOUS
    <2>2. Did("turn", point, {j}, caller["turn"].say)
      <3>1. Goto("turn", point)
        BY <1>4, <1>1, <2>1 DEF LlmReturns
      <3>. QED
        BY <1>a, <1>1, <3>1, DoesPoint DEF Elsewhere
    <2>3. CASE owed' = 0 /\ UNCHANGED <<put, handed>>
      <3>1. put' = [put EXCEPT ![j] = put[j]]
        BY <1>a, <2>3
      <3>. QED
        BY <1>a, <1>1, <1>2, <2>a, <2>1, <2>2, <2>3, <3>1 DEF Streams
    <2>4. ASSUME NEW n \in 1 .. Parts, n >= put[j], owed' = n,
                 handed' = IF put[j] = 0 THEN 0 ELSE put[j] + RestOf(n, put[j]),
                 put' = [put EXCEPT ![j] = IF @ = 0 THEN 0 ELSE n]
          PROVE  \E k \in Nat : \/ Streams(j, "decide", k)
                                \/ Streams(j, "told", k) /\ (owed' = 0 \/ handed' = owed')
      <3>1. PICK k \in Nat : k = IF put[j] = 0 THEN 0 ELSE n
        BY <2>4
      <3>2. put' = [put EXCEPT ![j] = k] /\ put[j] <= k /\ k <= Parts
        BY <1>2, <2>4, <3>1
      <3>3. handed' = k /\ (k = 0 \/ k = owed') /\ (point = "told" => k # 0) /\ owed' \in Nat
        BY <1>2, <2>1, <2>4, <3>1 DEF RestOf
      <3>. QED
        BY <1>1, <2>a, <2>1, <2>2, <3>2, <3>3 DEF Streams
    <2>. QED
      BY <1>4, <1>1, <2>3, <2>4 DEF LlmReturns
  <1>. QED
    BY <1>3, <1>4

-----------------------------------------------------------------------------
(* A new thread.                                                           *)

Below == {p \in Nat \X Nat : p[1] < p[2]}

\* The order of the natural numbers is well founded.
LEMMA NatWf == IsWellFoundedOn(Below, Nat)
  BY NatLessThanWellFounded DEF OpToRel, Below

\* A set of numbers that is not empty has a least one.
LEMMA Least ==
  ASSUME NEW T \in SUBSET Nat, T # {}
  PROVE  \E x \in T : \A y \in T : x <= y
  <1>1. PICK x \in T : \A y \in T : ~(<<y, x>> \in Below)
    BY NatWf, WFMin
  <1>2. ASSUME NEW y \in T PROVE x <= y
    <2>1. x \in Nat /\ y \in Nat /\ <<y, x>> \in Nat \X Nat
      OBVIOUS
    <2>2. ~(y < x)
      BY <1>1, <2>1 DEF Below
    <2>. QED
      BY <2>1, <2>2
  <1>. QED
    BY <1>2

\* A thread for the slot is begun, the first one that was not begun yet.
Begun(j, slot) ==
  /\ speech[j].pc = "none" /\ \A k \in Ids : speech[k].pc = "none" => j <= k
  /\ speech' \in [Ids -> Speeches]
  /\ speech'[j].slot = slot /\ speech'[j].at = 1 /\ speech'[j].taken = 0
  /\ speech'[j].pc = (IF slot = "text" THEN "synth" ELSE "next")
  /\ \A i \in Ids \ {j} : speech'[i] = speech[i]
  /\ handle' = [handle EXCEPT ![slot] = j]
  /\ UNCHANGED <<stopEvent, device, put, closed, llmCancel, barged, setting, history>>

\* Who begins it goes on, as what it is.
Starts(c, j, slot) ==
  \/ c = "announcer" /\ Did(c, "idle", {}, "none")
  \/ c = "turn" /\ slot = "queue" /\ Did(c, "llm", {j}, slot)
  \/ c = "turn" /\ slot = "text" /\ Did(c, "told", {}, "none")

\* A new thread keeps the shape.
LEMMA BegunShaped ==
  ASSUME Shaped, NEW j \in Ids, NEW slot \in Slots, NEW c \in {"announcer", "turn"},
         Begun(j, slot), Starts(c, j, slot)
  PROVE  Shaped'
  <1>1. ASSUME NEW i \in Ids PROVE ThreadOk(i)'
    <2>a. /\ ThreadOk(i) /\ put[i] \in Nat
          /\ UNCHANGED <<put, played, tail>>
      BY ThreadFields DEF Begun, history
    <2>1. CASE i = j
      BY <2>1, <2>a DEF Begun, ThreadOk, Slots, TextPoints, QueuePoints
    <2>2. CASE i # j
      BY <2>2, <2>a DEF Begun, ThreadOk
    <2>. QED
      BY <2>1, <2>2
  <1>2. CallerOk(c)'
    BY DEF Starts, Did, CallerOk, Interrupting, Beginning
  <1>3. caller' \in [Callers -> Doings] /\ CallersOk'
    <2>1. setting' = setting /\ c \in Callers /\ CallersOk
      BY DEF Begun, Callers, Shaped
    <2>. QED
      BY <1>2, <2>1, OthersOk DEF Starts, Did
  <1>4. SpeechTypes'
    BY <1>3 DEF Begun, Shaped, SpeechTypes, history, answer
  <1>. QED
    BY <1>1, <1>3, <1>4 DEF Shaped, ThreadsOk

\* Start begins one thread, for the caller that wants to speak.
LEMMA StartSteps ==
  ASSUME Shaped, NEW c \in Callers, Start(c)
  PROVE  /\ c \in {"announcer", "turn"} /\ caller[c].say \in Slots /\ caller[c].pc = "start"
         /\ \E j \in Ids : Begun(j, caller[c].say) /\ Starts(c, j, caller[c].say)
  <1>a. /\ caller \in [Callers -> Doings] /\ CallerOk(c) /\ caller[c].pc = "start"
        /\ speech \in [Ids -> Speeches]
    BY CallerFields DEF Shaped, SpeechTypes, Start, CallerAt
  <1>1. /\ c \in {"announcer", "turn"} /\ caller[c].say \in Slots
        /\ c = "announcer" => caller[c].say = "text"
    BY <1>a DEF CallerOk, Interrupting, Beginning, Callers, Slots
  <1>2. PICK slot \in Slots : slot = caller[c].say
    BY <1>1
  <1>3. PICK j \in Ids :
          /\ speech[j].pc = "none" /\ \A k \in Ids : speech[k].pc = "none" => j <= k
          /\ j = CHOOSE i \in Unused : \A k \in Unused : i <= k
    <2>1. Unused \in SUBSET Nat /\ Unused # {}
      BY DEF Unused, Ids, Start
    <2>2. \E x \in Unused : \A y \in Unused : x <= y
      BY <2>1, Least
    <2>3. PICK j \in Unused : /\ \A k \in Unused : j <= k
                              /\ j = CHOOSE i \in Unused : \A k \in Unused : i <= k
      BY <2>2
    <2>. QED
      BY <2>3 DEF Unused
  <1>4. speech' = [speech EXCEPT ![j] = [NoThread EXCEPT !.slot = slot,
                                           !.pc = IF slot = "text" THEN "synth" ELSE "next"]]
        /\ handle' = [handle EXCEPT ![slot] = j]
        /\ caller' = [caller EXCEPT
             ![c] = CASE c = "announcer" -> Resting
                      [] slot = "queue"  -> [@ EXCEPT !.pc = "llm", !.join = {j}]
                      [] OTHER           -> [Resting EXCEPT !.pc = "told"]]
        /\ UNCHANGED <<stopEvent, device, put, closed, llmCancel, barged, setting, history>>
    BY <1>2, <1>3 DEF Start
  <1>5. Begun(j, slot)
    <2>1. PICK point \in Points : point = IF slot = "text" THEN "synth" ELSE "next"
      BY DEF Points, TextPoints, QueuePoints
    <2>2. PICK r \in Speeches : /\ r = [NoThread EXCEPT !.slot = slot, !.pc = point]
                                /\ r.slot = slot /\ r.at = 1 /\ r.taken = 0 /\ r.pc = point
      <3>1. NoThread \in Speeches /\ NoThread.at = 1 /\ NoThread.taken = 0
        BY DEF NoThread, Speeches, Slots, Points
      <3>2. ASSUME NEW r \in Speeches
            PROVE  /\ [r EXCEPT !.slot = slot] \in Speeches /\ [r EXCEPT !.slot = slot].slot = slot
                   /\ [r EXCEPT !.slot = slot].at = r.at /\ [r EXCEPT !.slot = slot].taken = r.taken
                   /\ [r EXCEPT !.pc = point] \in Speeches /\ [r EXCEPT !.pc = point].slot = r.slot
                   /\ [r EXCEPT !.pc = point].at = r.at /\ [r EXCEPT !.pc = point].taken = r.taken
                   /\ [r EXCEPT !.pc = point].pc = point
        BY DEF Speeches
      <3>3. PICK q \in Speeches : /\ q = [NoThread EXCEPT !.slot = slot]
                                  /\ q.slot = slot /\ q.at = 1 /\ q.taken = 0
        BY <3>1, <3>2
      <3>4. /\ [q EXCEPT !.pc = point] \in Speeches /\ [q EXCEPT !.pc = point].slot = slot
            /\ [q EXCEPT !.pc = point].at = 1 /\ [q EXCEPT !.pc = point].taken = 0
            /\ [q EXCEPT !.pc = point].pc = point
        BY <3>2, <3>3
      <3>. QED
        BY <3>3, <3>4
    <2>3. /\ speech' \in [Ids -> Speeches] /\ speech'[j] = r
          /\ \A i \in Ids \ {j} : speech'[i] = speech[i]
      BY <1>a, <1>4, <2>1, <2>2
    <2>. QED
      BY <1>3, <1>4, <2>1, <2>2, <2>3 DEF Begun
  <1>6. Starts(c, j, slot)
    <2>1. CASE c = "announcer"
      <3>1. caller' = [caller EXCEPT ![c] = Resting]
        BY <1>1, <1>2, <1>4, <2>1
      <3>2. "idle" \in Elsewhere \cup Interrupting \cup Beginning /\ "none" \in {"none"} \cup Slots
        BY DEF Elsewhere
      <3>3. Did(c, "idle", {}, "none")
        BY <1>a, <3>1, <3>2, DoesAnew
      <3>. QED
        BY <2>1, <3>3 DEF Starts
    <2>2. CASE c = "turn" /\ slot = "queue"
      <3>1. caller' = [caller EXCEPT ![c].pc = "llm", ![c].join = {j}]
        BY <1>a, <1>4, <2>2
      <3>2. Did(c, "llm", {j}, slot)
        BY <1>a, <1>2, <3>1, DoesPointJoin DEF Elsewhere
      <3>. QED
        BY <2>2, <3>2 DEF Starts
    <2>3. CASE c = "turn" /\ slot # "queue"
      <3>1. caller' = [caller EXCEPT ![c] = [Resting EXCEPT !.pc = "told"]]
        BY <1>4, <2>3
      <3>2. Did(c, "told", {}, "none")
        BY <1>a, <3>1, DoesAnew DEF Elsewhere
      <3>. QED
        BY <2>3, <3>2 DEF Starts, Slots
    <2>. QED
      BY <1>1, <2>1, <2>2, <2>3
  <1>. QED
    BY <1>a, <1>1, <1>2, <1>5, <1>6

-----------------------------------------------------------------------------
(* A step of a speech thread keeps every part of the invariant.            *)

\* A thread keeps the shape.
LEMMA ThreadShaped ==
  ASSUME Shaped, NEW j \in Ids, ThreadEffect(j)
  PROVE  Shaped'
  <1>1. ThreadsOk'
    <2>1. ASSUME NEW i \in Ids, i # j PROVE ThreadOk(i)'
      <3>1. /\ speech'[i] = speech[i] /\ played'[i] = played[i] /\ tail'[i] = tail[i]
            /\ put' = put /\ ThreadOk(i)
        BY <2>1, ThreadFields DEF ThreadEffect
      <3>. QED
        BY <3>1 DEF ThreadOk
    <2>. QED
      BY <2>1 DEF ThreadsOk, ThreadEffect
  <1>2. CallersOk'
    BY DEF Shaped, CallersOk, CallerOk, ThreadEffect
  <1>3. handle' \in [Slots -> Ids \cup {0}]
    BY DEF Shaped, SpeechTypes, ThreadEffect, Forget
  <1>4. SpeechTypes'
    BY <1>3 DEF Shaped, SpeechTypes, ThreadEffect, answer
  <1>. QED
    BY <1>1, <1>2, <1>4 DEF Shaped

\* A thread plays its sentences in order.
LEMMA ThreadOrder ==
  ASSUME Shaped, OrderInv, NEW j \in Ids, ThreadEffect(j)
  PROVE  OrderInv'
  <1>1. ASSUME NEW i \in Ids
        PROVE  /\ \A n \in DOMAIN played'[i] :
                    \/ played'[i][n] < speech'[i].at
                    \/ speech'[i].pc = "playing" /\ played'[i][n] <= speech'[i].at
               /\ \A m, n \in DOMAIN played'[i] : m < n => played'[i][m] < played'[i][n]
    <2>a. /\ \A n \in DOMAIN played[i] :
               \/ played[i][n] < speech[i].at
               \/ speech[i].pc = "playing" /\ played[i][n] <= speech[i].at
          /\ \A m, n \in DOMAIN played[i] : m < n => played[i][m] < played[i][n]
      BY DEF OrderInv
    <2>b. played[i] \in Seq(Nat) /\ speech[i].at \in Nat
      BY ThreadFields
    <2>1. CASE i # j
      BY <2>1, <2>a DEF ThreadEffect
    <2>2. CASE i = j
      <3>a. speech'[i].at \in Nat
        BY <2>2, ThreadShaped DEF ThreadEffect, Speeches
      <3>1. CASE /\ played'[j] = played[j]
                 /\ speech'[j].at >= speech[j].at
                 /\ speech[j].pc = "playing" => speech'[j].at > speech[j].at
        <4>1. ASSUME NEW n \in DOMAIN played[i] PROVE played[i][n] < speech'[i].at
          <5>1. played[i][n] \in Nat
            BY <2>b
          <5>. QED
            BY <2>2, <2>a, <2>b, <3>1, <3>a, <5>1
        <4>. QED
          BY <2>2, <2>a, <3>1, <4>1
      <3>2. CASE played'[j] = <<>>
        BY <2>2, <3>2
      <3>3. CASE /\ speech[j].pc = "sound" /\ speech'[j].pc = "playing"
                 /\ speech'[j].at = speech[j].at
                 /\ played'[j] = Append(played[j], speech[j].at)
        <4>1. PICK k \in Nat : k = Len(played[i])
          BY <2>b
        <4>2. /\ DOMAIN played[i] = 1 .. k /\ DOMAIN played'[i] = 1 .. (k + 1)
              /\ played'[i][k + 1] = speech[i].at
              /\ \A n \in 1 .. k : played'[i][n] = played[i][n]
          BY <2>2, <2>b, <3>3, <4>1
        <4>3. ASSUME NEW n \in 1 .. k PROVE played'[i][n] < speech[i].at
          BY <2>2, <2>a, <3>3, <4>2
        <4>4. ASSUME NEW n \in 1 .. (k + 1) PROVE played'[i][n] <= speech'[i].at
          BY <2>2, <2>b, <3>3, <4>2, <4>3
        <4>5. ASSUME NEW m \in 1 .. (k + 1), NEW n \in 1 .. (k + 1), m < n
              PROVE  played'[i][m] < played'[i][n]
          <5>1. CASE n = k + 1
            BY <4>2, <4>3, <4>5, <5>1
          <5>2. CASE n \in 1 .. k
            BY <2>a, <4>2, <4>5, <5>2
          <5>. QED
            BY <4>1, <5>1, <5>2
        <4>. QED
          BY <2>2, <3>3, <4>2, <4>4, <4>5
      <3>. QED
        BY <3>1, <3>2, <3>3 DEF ThreadEffect, EffectOnPlayed
    <2>. QED
      BY <2>1, <2>2
  <1>. QED
    BY <1>1 DEF OrderInv

\* A thread that was asked to stop plays little after it.
LEMMA ThreadTail ==
  ASSUME Shaped, TailInv, NEW j \in Ids, ThreadEffect(j)
  PROVE  TailInv'
  <1>1. tail \in [Ids -> Nat] /\ stopEvent \in BOOLEAN /\ stopEvent' = stopEvent
    BY DEF Shaped, SpeechTypes, ThreadEffect
  <1>2. \A i \in Ids \ {j} : tail'[i] = tail[i] /\ speech'[i] = speech[i]
    BY DEF ThreadEffect
  <1>3. tail[j] <= 1 /\ (tail[j] = 1 => ~Ready(j)) /\ (~stopEvent => tail[j] = 0) /\ tail[j] \in Nat
    BY <1>1 DEF TailInv
  <1>4. /\ tail'[j] <= 1 /\ (tail'[j] = 1 => ~Ready(j)') /\ (~stopEvent => tail'[j] = 0)
    <2>1. CASE tail'[j] = tail[j] /\ (Ready(j)' => Ready(j) \/ ~stopEvent)
      BY <1>3, <2>1
    <2>2. CASE /\ speech[j].pc = "sound" /\ ~Ready(j)'
               /\ tail'[j] = IF stopEvent THEN tail[j] + 1 ELSE tail[j]
      BY <1>3, <2>2 DEF Ready
    <2>. QED
      BY <2>1, <2>2 DEF ThreadEffect, EffectOnTail
  <1>5. ASSUME NEW i \in Ids, i # j
        PROVE  /\ tail'[i] <= 1 /\ (tail'[i] = 1 => ~Ready(i)') /\ (~stopEvent => tail'[i] = 0)
    BY <1>1, <1>2, <1>5 DEF TailInv, Ready
  <1>. QED
    BY <1>1, <1>4, <1>5 DEF TailInv

\* Which thread is the newest depends on which were begun.
LEMMA SameNewest ==
  ASSUME \A i \in Ids : speech'[i].pc = "none" <=> speech[i].pc = "none"
  PROVE  Unused' = Unused /\ Newest' = Newest
  <1>1. Unused' = Unused
    BY DEF Unused
  <1>. QED
    BY <1>1 DEF Newest

\* The thread that was begun last.
LEMMA NewestIs ==
  ASSUME NEW j \in Ids \ Unused, \A i \in Ids \ Unused : i <= j
  PROVE  Newest = j
  <1>1. \A k \in Ids \ Unused : (\A i \in Ids \ Unused : i <= k) => k = j
    BY DEF Ids
  <1>. QED
    BY <1>1 DEF Newest

\* If a thread was begun, one was begun last.
LEMMA LastBegun ==
  ASSUME Unused # Ids
  PROVE  \E j \in Ids \ Unused : \A i \in Ids \ Unused : i <= j
  <1>. DEFINE Room == {n \in Nat : \A i \in Ids \ Unused : i <= n}
  <1>1. MaxSpeeches \in Room /\ Room \in SUBSET Nat
    BY DEF Ids
  <1>2. PICK n \in Room : \A m \in Room : n <= m
    <2>. HIDE DEF Room
    <2>. QED
      BY <1>1, Least
  <1>3. PICK k \in Ids \ Unused : TRUE
    BY DEF Unused
  <1>4. n \in Ids \ Unused
    <2>. SUFFICES ASSUME n \notin Ids \ Unused PROVE FALSE
      OBVIOUS
    <2>1. n \in Nat /\ k \in Nat /\ 1 <= k /\ k <= n
      BY <1>2, <1>3 DEF Ids
    <2>2. n - 1 \in Nat /\ \A i \in Ids \ Unused : i <= n - 1
      BY <1>2, <2>1 DEF Ids
    <2>. QED
      BY <1>2, <2>1, <2>2
  <1>. QED
    BY <1>2, <1>4

\* A thread that speaks is held by a handle, or was taken.
LEMMA ThreadSeen ==
  ASSUME Shaped, SeenInv, NEW j \in Ids, ThreadEffect(j)
  PROVE  SeenInv'
  <1>1. \A i \in Ids : speech'[i].pc = "none" <=> speech[i].pc = "none"
    BY DEF ThreadEffect, Alive
  <1>2. Unused' = Unused /\ Newest' = Newest
    BY <1>1, SameNewest
  <1>3. \A i, k \in Ids : i < k /\ speech'[i].pc = "none" => speech'[k].pc = "none"
    BY <1>1 DEF SeenInv
  <1>4. ASSUME setting \in {"prompt", "slow"}, Unused # Ids, NEW n \in Ids, n = Newest, Alive(n)',
               caller["turn"].pc \notin {"join", "clear", "start"}
        PROVE  handle'[speech'[n].slot] = n
    <2>1. Alive(n) /\ speech'[n].slot = speech[n].slot /\ speech[n].slot \in Slots
      BY <1>4, ThreadFields DEF ThreadEffect, Alive
    <2>2. handle[speech[n].slot] = n
      BY <1>4, <2>1 DEF SeenInv, SpeakingIsSeen
    <2>3. CASE handle' = handle
      BY <2>1, <2>2, <2>3
    <2>4. CASE handle' = Forget(j) /\ speech'[j].pc = "ended"
      <3>1. n # j
        BY <1>4, <2>4 DEF Alive
      <3>2. handle \in [Slots -> Ids \cup {0}] /\ speech[j].slot \in Slots
        BY ThreadFields DEF Shaped, SpeechTypes
      <3>. QED
        BY <2>1, <2>2, <2>4, <3>1, <3>2 DEF Forget
    <2>. QED
      BY <2>3, <2>4 DEF ThreadEffect
  <1>5. ASSUME Unused # Ids PROVE Newest \in Ids
    <2>1. PICK k \in Ids \ Unused : \A i \in Ids \ Unused : i <= k
      BY <1>5, LastBegun
    <2>. QED
      BY <2>1, NewestIs
  <1>6. SpeakingIsSeen'
    BY <1>2, <1>4, <1>5 DEF SpeakingIsSeen, ThreadEffect
  <1>. QED
    BY <1>3, <1>6 DEF SeenInv

\* A thread gives its voice to nobody.
LEMMA ThreadVoice ==
  ASSUME Shaped, VoiceInv, NEW j \in Ids, ThreadEffect(j)
  PROVE  VoiceInv'
  <1>1. \A i \in Ids : Alive(i)' => Alive(i) /\ speech'[i].slot = speech[i].slot
    BY DEF ThreadEffect, Alive
  <1>2. setting' = setting /\ caller' = caller
    BY DEF ThreadEffect
  <1>3. ASSUME setting = "prompt", NEW i \in Ids, Alive(i)' PROVE i = j /\ handle' = handle
    <2>1. i = j
      BY <1>1, <1>3 DEF VoiceInv, OneVoice, ThreadEffect
    <2>. QED
      BY <1>3, <2>1 DEF ThreadEffect, Alive
  <1>. QED
    BY <1>1, <1>2, <1>3 DEF VoiceInv, OneVoice

\* What is handed over stays so when somebody else acts.
LEMMA OthersHanded ==
  ASSUME HandedInv, caller'["turn"] = caller["turn"], UNCHANGED <<put, owed, handed>>,
         barged => barged', \A i \in Ids : speech[i].pc # "none" => speech'[i].pc # "none"
  PROVE  HandedInv'
  <1>1. HandedOnce'
    BY DEF HandedInv, HandedOnce, CallerAt
  <1>2. caller["turn"].pc \in {"llm", "flushed"} =>
          \E j \in Ids : caller["turn"].join = {j} /\ handed = put[j] /\ speech'[j].pc # "none"
    BY DEF HandedInv
  <1>. QED
    BY <1>1, <1>2 DEF HandedInv

\* A thread hands over no sentence of the answer.
LEMMA ThreadHanded ==
  ASSUME HandedInv, NEW j \in Ids, ThreadEffect(j)
  PROVE  HandedInv'
  BY OthersHanded DEF ThreadEffect, answer

\* A step of a thread keeps the invariant.
LEMMA ThreadKeeps ==
  ASSUME SpeechInv, NEW j \in Ids, Speak(j)
  PROVE  SpeechInv'
  <1>1. ThreadEffect(j)
    BY TextSteps, QueueSteps DEF Speak, SpeechInv
  <1>. QED
    BY <1>1, ThreadShaped, ThreadOrder, ThreadTail, ThreadSeen, ThreadVoice, ThreadHanded
    DEF SpeechInv

-----------------------------------------------------------------------------
(* So does a new thread.                                                   *)

\* A start keeps the invariant.
LEMMA BegunKeeps ==
  ASSUME SpeechInv, NEW c \in Callers, Start(c)
  PROVE  SpeechInv'
  <1>1. /\ Shaped /\ caller[c].say \in Slots /\ caller[c].pc = "start"
        /\ c \in {"announcer", "turn"}
    BY StartSteps DEF SpeechInv
  <1>2. PICK j \in Ids : Begun(j, caller[c].say) /\ Starts(c, j, caller[c].say)
    BY <1>1, StartSteps
  <1>3. PICK slot \in Slots : slot = caller[c].say
    BY <1>1
  <1>4. Begun(j, slot) /\ Starts(c, j, slot)
    BY <1>2, <1>3
  <1>5. Shaped'
    BY <1>1, <1>4, BegunShaped
  <1>6. /\ speech[j].pc = "none" /\ speech'[j].slot = slot
        /\ speech'[j].pc \in {"synth", "next"} /\ Alive(j)'
        /\ \A i \in Ids \ {j} : speech'[i] = speech[i]
        /\ UNCHANGED <<stopEvent, put, barged, setting, tail, played, owed, handed>>
    BY <1>4 DEF Begun, history, answer, Alive
  <1>7. put[j] = 0 /\ played[j] = <<>> /\ tail[j] = 0
    BY <1>1, <1>6, ThreadFields DEF ThreadOk
  <1>8. OrderInv'
    <2>1. ASSUME NEW i \in Ids
          PROVE  /\ \A n \in DOMAIN played'[i] :
                      \/ played'[i][n] < speech'[i].at
                      \/ speech'[i].pc = "playing" /\ played'[i][n] <= speech'[i].at
                 /\ \A m, n \in DOMAIN played'[i] : m < n => played'[i][m] < played'[i][n]
      BY <1>6, <1>7 DEF SpeechInv, OrderInv
    <2>. QED
      BY <2>1 DEF OrderInv
  <1>9. TailInv'
    <2>1. \A i \in Ids : tail'[i] <= 1 /\ (tail'[i] = 1 => ~Ready(i)')
      BY <1>6, <1>7 DEF SpeechInv, TailInv, Ready
    <2>. QED
      BY <1>6, <2>1 DEF SpeechInv, TailInv
  <1>10. SeenInv'
    <2>1. ASSUME NEW i \in Ids, NEW k \in Ids, i < k, speech'[i].pc = "none"
          PROVE  speech'[k].pc = "none"
      <3>1. i # j /\ speech[i].pc = "none"
        BY <1>6, <2>1
      <3>2. j <= i
        BY <1>4, <3>1 DEF Begun
      <3>3. k # j
        BY <2>1, <3>2 DEF Ids
      <3>. QED
        BY <1>6, <2>1, <3>1, <3>3 DEF SpeechInv, SeenInv
    <2>2. ASSUME NEW i \in Ids, speech'[i].pc # "none" PROVE i <= j
      <3>1. CASE i = j
        BY <3>1 DEF Ids
      <3>2. CASE i # j
        <4>1. ~(j < i)
          BY <1>6, <2>2, <3>2 DEF SpeechInv, SeenInv
        <4>. QED
          BY <4>1 DEF Ids
      <3>. QED
        BY <3>1, <3>2
    <2>3. Newest' = j
      <3>1. j \in Ids \ Unused' /\ \A i \in Ids \ Unused' : i <= j
        BY <1>6, <2>2 DEF Unused
      <3>2. \A k \in Ids \ Unused' : (\A i \in Ids \ Unused' : i <= k) => k = j
        BY <3>1 DEF Ids
      <3>. QED
        BY <3>1, <3>2 DEF Newest
    <2>4. handle'[slot] = j
      BY <1>4 DEF Begun, SpeechInv, Shaped, SpeechTypes
    <2>5. SpeakingIsSeen'
      BY <1>6, <2>3, <2>4 DEF SpeakingIsSeen
    <2>. QED
      BY <2>1, <2>5 DEF SeenInv
  <1>11. VoiceInv'
    <2>. SUFFICES ASSUME setting = "prompt" PROVE VoiceInv'
      BY <1>6 DEF VoiceInv
    <2>1. c = "turn"
      BY <1>1, CallerFields DEF CallerOk
    <2>2. \A i \in Ids : ~Alive(i)
      BY <1>1, <2>1 DEF SpeechInv, VoiceInv, Beginning
    <2>3. \A i \in Ids : Alive(i)' => i = j
      BY <1>6, <2>2 DEF Alive
    <2>4. caller'["turn"].pc \in {"llm", "told"}
      BY <1>4, <2>1 DEF Starts, Did
    <2>5. handle'[slot] = j
      BY <1>4 DEF Begun, SpeechInv, Shaped, SpeechTypes
    <2>. QED
      BY <1>6, <2>3, <2>4, <2>5 DEF VoiceInv, OneVoice, Beginning
  <1>12. HandedInv'
    <2>1. CASE c = "announcer"
      <3>1. caller'["turn"] = caller["turn"]
        BY <1>4, <2>1 DEF Starts, Did, Callers
      <3>2. \A i \in Ids : speech[i].pc # "none" => speech'[i].pc # "none"
        BY <1>6
      <3>. QED
        BY <1>6, <3>1, <3>2, OthersHanded DEF SpeechInv
    <2>2. CASE c = "turn"
      <3>1. IF slot = "text" THEN handed = owed ELSE handed = 0
        BY <1>1, <1>3, <2>2 DEF SpeechInv, HandedInv, Beginning
      <3>2. \/ slot = "queue" /\ caller'["turn"].pc = "llm" /\ caller'["turn"].join = {j}
            \/ slot = "text" /\ caller'["turn"].pc = "told"
        BY <1>4, <2>2 DEF Starts, Did
      <3>. QED
        BY <1>6, <1>7, <3>1, <3>2
        DEF HandedInv, HandedOnce, CallerAt, Interrupting, Beginning
    <2>. QED
      BY <1>1, <2>1, <2>2
  <1>. QED
    BY <1>5, <1>8, <1>9, <1>10, <1>11, <1>12 DEF SpeechInv

-----------------------------------------------------------------------------
(* And the steps of a caller.                                              *)

\* A quiet step leaves the order as it is, and the tail, unless it forgets it.
LEMMA QuietKeeps ==
  ASSUME SpeechInv, Quiet, stopEvent' \in BOOLEAN,
         tail' = tail => (stopEvent => stopEvent')
  PROVE  OrderInv' /\ TailInv'
  <1>1. OrderInv'
    BY DEF SpeechInv, OrderInv, Quiet
  <1>2. \A j \in Ids : Ready(j)' <=> Ready(j)
    BY DEF Ready, Quiet
  <1>3. CASE tail' = tail
    BY <1>1, <1>2, <1>3 DEF SpeechInv, TailInv
  <1>4. CASE tail' = [j \in Ids |-> 0]
    BY <1>1, <1>4 DEF TailInv
  <1>. QED
    BY <1>3, <1>4 DEF Quiet

\* Nobody is lost sight of when the handles stay, unless the turn is about to begin.
LEMMA QuietSeen ==
  ASSUME SpeechInv, Quiet, handle' = handle,
         caller["turn"].pc \in {"join", "clear", "start"} =>
           caller'["turn"].pc \in {"join", "clear", "start"}
  PROVE  SeenInv'
  <1>1. Unused' = Unused /\ Newest' = Newest
    BY SameNewest DEF Quiet
  <1>2. SpeakingIsSeen'
    BY <1>1 DEF SpeechInv, SeenInv, SpeakingIsSeen, Quiet, Alive
  <1>. QED
    BY <1>2 DEF SpeechInv, SeenInv, Quiet

\* A quiet step that moves no handle leaves one voice.
LEMMA QuietVoice ==
  ASSUME SpeechInv, Quiet, handle' = handle,
         setting = "prompt" => /\ caller["turn"].pc \notin {"join", "clear", "start"}
                               /\ caller'["turn"].pc \notin {"join", "clear", "start"}
  PROVE  VoiceInv'
  BY DEF SpeechInv, VoiceInv, OneVoice, Quiet, Alive, Beginning

\* An interrupt, of whoever.
LEMMA InterruptKeeps ==
  ASSUME SpeechInv, NEW c \in Callers,
         AskedToStop(c) \/ TakeHandles(c) \/ Join(c) \/ Clear(c)
  PROVE  SpeechInv'
  <1>a. /\ Shaped /\ CallerOk(c) /\ c \in {"turn", "announcer", "listener"}
        /\ stopEvent \in BOOLEAN
    BY CallerFields DEF SpeechInv, Callers, Shaped, SpeechTypes
  <1>b. caller[c].pc \in {"interrupt", "take", "join", "clear"}
    BY DEF AskedToStop, TakeHandles, Join, Clear, CallerAt
  <1>c. setting \in {"prompt", "slow"} => c = "turn"
    BY <1>a, <1>b DEF CallerOk
  <1>1. PICK point, ids :
          /\ Shaped' /\ Quiet /\ Did(c, point, ids, caller[c].say)
          /\ AskedToStop(c) => point = "take"
          /\ TakeHandles(c) => point = "join" /\ ids = {handle[s] : s \in Slots} \ {0}
          /\ Join(c)        => point = IF c = "listener" THEN "cancel" ELSE "clear"
          /\ Clear(c)       => point = "start"
    <2>1. CASE AskedToStop(c)
      BY <1>a, <2>1, QuietSteps DEF AskedToStop, TakeHandles, Join, Clear, CallerAt
    <2>2. CASE TakeHandles(c)
      BY <1>a, <2>2, QuietSteps DEF AskedToStop, TakeHandles, Join, Clear, CallerAt
    <2>3. CASE Join(c)
      BY <1>a, <2>3, QuietSteps DEF AskedToStop, TakeHandles, Join, Clear, CallerAt
    <2>4. CASE Clear(c)
      BY <1>a, <2>4, QuietSteps DEF AskedToStop, TakeHandles, Join, Clear, CallerAt
    <2>. QED
      BY <2>1, <2>2, <2>3, <2>4
  <1>2. /\ UNCHANGED <<owed, handed, barged, put, speech, setting>>
        /\ handle' = handle \/ TakeHandles(c)
    BY <1>1 DEF AskedToStop, TakeHandles, Join, Clear, history, answer, Quiet, engine
  <1>3. OrderInv' /\ TailInv'
    <2>1. stopEvent' \in BOOLEAN
      BY <1>1 DEF Shaped, SpeechTypes
    <2>2. tail' = tail /\ stopEvent => stopEvent' \/ Clear(c)
      BY DEF AskedToStop, TakeHandles, Join, Clear, engine
    <2>3. CASE Clear(c)
      <3>1. tail' = [j \in Ids |-> 0] /\ UNCHANGED <<speech, played>>
        BY <1>1, <2>3 DEF Clear, Quiet
      <3>. QED
        BY <3>1 DEF SpeechInv, OrderInv, TailInv
    <2>. QED
      BY <1>1, <2>1, <2>2, <2>3, QuietKeeps
  <1>4. SeenInv'
    <2>1. CASE handle' = handle
      <3>1. caller["turn"].pc \in {"join", "clear", "start"} =>
              caller'["turn"].pc \in {"join", "clear", "start"}
        <4>1. CASE c = "turn"
          BY <1>1, <4>1 DEF AskedToStop, TakeHandles, Join, Clear, CallerAt, Did
        <4>2. CASE c # "turn"
          BY <1>1, <4>2 DEF Did, Callers
        <4>. QED
          BY <4>1, <4>2
      <3>. QED
        BY <1>1, <2>1, <3>1, QuietSeen
    <2>2. CASE TakeHandles(c)
      <3>1. setting \in {"prompt", "slow"} => caller'["turn"].pc = "join"
        BY <1>1, <1>c, <2>2 DEF Did
      <3>. QED
        BY <1>2, <3>1 DEF SpeechInv, SeenInv, SpeakingIsSeen
    <2>. QED
      BY <1>2, <2>1, <2>2
  <1>5. VoiceInv'
    <2>. SUFFICES ASSUME setting = "prompt" PROVE VoiceInv'
      BY <1>2 DEF VoiceInv
    <2>1. c = "turn"
      BY <1>c
    <2>2. CASE AskedToStop(c)
      <3>1. handle' = handle /\ caller["turn"].pc = "interrupt" /\ caller'["turn"].pc = "take"
        BY <1>1, <2>1, <2>2 DEF AskedToStop, CallerAt, Did
      <3>. QED
        BY <1>1, <3>1, QuietVoice
    <2>3. CASE TakeHandles(c)
      <3>1. /\ caller["turn"].pc = "take" /\ caller'["turn"].pc = "join"
            /\ caller'["turn"].join = {handle[s] : s \in Slots} \ {0}
        BY <1>1, <2>1, <2>3 DEF TakeHandles, CallerAt, Did
      <3>2. ASSUME NEW j \in Ids, Alive(j) PROVE j \in caller'["turn"].join
        <4>1. handle[speech[j].slot] = j /\ speech[j].slot \in Slots /\ j # 0
          BY <1>a, <3>1, <3>2, ThreadFields DEF SpeechInv, VoiceInv, Ids
        <4>. QED
          BY <3>1, <4>1
      <3>3. \A j \in Ids : Alive(j)' <=> Alive(j)
        BY <1>2 DEF Alive
      <3>. QED
        BY <1>2, <3>1, <3>2, <3>3 DEF SpeechInv, VoiceInv, OneVoice, Beginning
    <2>4. CASE Join(c)
      <3>1. \A j \in Ids : ~Alive(j)
        BY <2>1, <2>4 DEF Join, CallerAt, SpeechInv, VoiceInv
      <3>2. \A j \in Ids : ~Alive(j)'
        BY <1>2, <3>1 DEF Alive
      <3>. QED
        BY <3>2 DEF VoiceInv, OneVoice
    <2>5. CASE Clear(c)
      <3>1. \A j \in Ids : ~Alive(j)
        BY <2>1, <2>5 DEF Clear, CallerAt, SpeechInv, VoiceInv, Beginning
      <3>2. \A j \in Ids : ~Alive(j)'
        BY <1>2, <3>1 DEF Alive
      <3>. QED
        BY <3>2 DEF VoiceInv, OneVoice
    <2>. QED
      BY <2>2, <2>3, <2>4, <2>5
  <1>6. HandedInv'
    <2>1. CASE c = "turn"
      <3>1. /\ caller["turn"].pc \in Interrupting \cup Beginning
            /\ caller'["turn"].pc \in Interrupting \cup Beginning
            /\ caller'["turn"].say = caller["turn"].say
        BY <1>1, <2>1 DEF AskedToStop, TakeHandles, Join, Clear, CallerAt, Did, Interrupting, Beginning
      <3>. QED
        BY <1>2, <3>1
        DEF SpeechInv, HandedInv, HandedOnce, CallerAt, Interrupting, Beginning
    <2>2. CASE c # "turn"
      <3>1. caller'["turn"] = caller["turn"]
        BY <1>1, <2>2 DEF Did, Callers
      <3>. QED
        BY <1>2, <3>1, OthersHanded DEF SpeechInv
    <2>. QED
      BY <2>1, <2>2
  <1>. QED
    BY <1>1, <1>3, <1>4, <1>5, <1>6 DEF SpeechInv

\* What was decided, by whoever.
LEMMA DecisionKeeps ==
  ASSUME SpeechInv,
         Announce \/ WakeInterrupt \/ CancelLlm \/ TurnBegins \/ Routed \/ Decide \/ TurnEnds
  PROVE  SpeechInv'
  <1>a. Shaped
    BY DEF SpeechInv
  <1>1. Shaped' /\ Quiet
    BY <1>a, TurnSteps
  <1>2. UNCHANGED <<engine, tail, speech, put, setting>>
    BY <1>1 DEF Announce, WakeInterrupt, CancelLlm, TurnBegins, Routed, Decide, TurnEnds,
       history, threads, Quiet
  <1>3. OrderInv' /\ TailInv'
    BY <1>a, <1>1, <1>2, QuietKeeps DEF engine, Shaped, SpeechTypes
  <1>4. \/ caller'["turn"] = caller["turn"]
        \/ /\ caller["turn"].pc \in {"idle", "routed", "decide", "told"}
           /\ caller'["turn"].pc \in {"interrupt", "routed", "decide", "told", "idle"}
    <2>1. CASE Announce \/ WakeInterrupt \/ CancelLlm
      BY <1>a, <2>1, TurnSteps DEF Did, Callers
    <2>2. CASE TurnBegins \/ Routed \/ Decide \/ TurnEnds
      <3>1. caller["turn"].pc \in {"idle", "routed", "decide", "told"}
        BY <2>2 DEF TurnBegins, Routed, Decide, TurnEnds, CallerAt
      <3>2. caller'["turn"].pc \in {"interrupt", "routed", "decide", "told", "idle"}
        BY <1>a, <2>2, TurnSteps DEF Did
      <3>. QED
        BY <3>1, <3>2
    <2>. QED
      BY <2>1, <2>2
  <1>5. SeenInv'
    BY <1>1, <1>2, <1>4, QuietSeen DEF engine
  <1>6. VoiceInv'
    <2>1. CASE caller'["turn"] = caller["turn"]
      BY <1>2, <2>1 DEF engine, SpeechInv, VoiceInv, OneVoice, Alive
    <2>2. CASE /\ caller["turn"].pc \in {"idle", "routed", "decide", "told"}
               /\ caller'["turn"].pc \in {"interrupt", "routed", "decide", "told", "idle"}
      BY <1>1, <1>2, <2>2, QuietVoice DEF engine
    <2>. QED
      BY <1>4, <2>1, <2>2
  <1>7. HandedInv'
    <2>1. CASE Announce \/ WakeInterrupt \/ CancelLlm
      <3>1. UNCHANGED <<owed, handed>> /\ (barged => barged')
        BY <2>1 DEF Announce, WakeInterrupt, CancelLlm, history, answer
      <3>2. caller'["turn"] = caller["turn"]
        BY <1>a, <2>1, TurnSteps DEF Did, Callers
      <3>. QED
        BY <1>2, <3>1, <3>2, OthersHanded DEF SpeechInv
    <2>2. CASE TurnBegins
      <3>1. handed = 0 /\ handed' = handed
        BY <2>2 DEF TurnBegins, history, answer, CallerAt, SpeechInv, HandedInv
      <3>2. \/ caller'["turn"].pc = "interrupt" /\ caller'["turn"].say = "queue"
            \/ caller'["turn"].pc = "routed"
        BY <1>a, <2>2, TurnSteps DEF Did
      <3>. QED
        BY <3>1, <3>2 DEF HandedInv, HandedOnce, CallerAt, Interrupting, Beginning
    <2>3. CASE Routed
      <3>1. caller'["turn"].pc = "decide"
        BY <1>a, <2>3, TurnSteps DEF Did
      <3>. QED
        BY <3>1 DEF HandedInv, HandedOnce, CallerAt, Interrupting, Beginning
    <2>4. CASE Decide
      <3>1. \/ barged' /\ caller'["turn"].pc = "told"
            \/ handed' = owed' /\ caller'["turn"].pc = "interrupt" /\ caller'["turn"].say = "text"
        BY <1>a, <2>4, TurnSteps DEF Did, Decide
      <3>. QED
        BY <3>1 DEF HandedInv, HandedOnce, CallerAt, Interrupting, Beginning
    <2>5. CASE TurnEnds
      <3>1. caller'["turn"].pc = "idle" /\ handed' = 0
        BY <1>a, <2>5, TurnSteps DEF Did, TurnEnds
      <3>. QED
        BY <3>1 DEF HandedInv, HandedOnce, CallerAt, Interrupting, Beginning
    <2>. QED
      BY <2>1, <2>2, <2>3, <2>4, <2>5
  <1>. QED
    BY <1>1, <1>3, <1>5, <1>6, <1>7 DEF SpeechInv

\* Sentences that are handed over keep the invariant.
LEMMA StreamKeeps ==
  ASSUME SpeechInv, Stream \/ LlmReturns
  PROVE  SpeechInv'
  <1>1. PICK j \in Ids, n \in Nat, point \in {"llm", "flushed", "decide", "told"} :
          /\ Streams(j, point, n)
          /\ point \in {"llm", "flushed"} => handed' = n
          /\ point = "told" => owed' = 0 \/ handed' = owed'
    BY StreamSteps DEF SpeechInv
  <1>2. Shaped' /\ put'[j] = n
    BY <1>1, StreamsShaped DEF SpeechInv
  <1>3. /\ UNCHANGED <<engine, speech, setting, tail, played>> /\ speech[j].pc # "none"
        /\ caller["turn"].pc \in {"llm", "flushed"}
        /\ caller'["turn"].pc = point /\ caller'["turn"].join = {j}
    BY <1>1 DEF Streams, Did
  <1>4. OrderInv' /\ TailInv'
    BY <1>3 DEF SpeechInv, OrderInv, TailInv, Ready, engine
  <1>5. SeenInv'
    <2>1. Unused' = Unused /\ Newest' = Newest
      BY <1>3, SameNewest
    <2>. QED
      BY <1>3, <2>1 DEF SpeechInv, SeenInv, SpeakingIsSeen, Alive, engine
  <1>6. VoiceInv'
    BY <1>3 DEF SpeechInv, VoiceInv, OneVoice, Alive, Beginning, engine
  <1>7. HandedInv'
    BY <1>1, <1>2, <1>3 DEF HandedInv, HandedOnce, CallerAt, Interrupting, Beginning
  <1>. QED
    BY <1>2, <1>4, <1>5, <1>6, <1>7 DEF SpeechInv

\* A waveform that ends, or nothing.
LEMMA DeviceKeeps ==
  ASSUME SpeechInv, DeviceDone \/ UNCHANGED vars
  PROVE  SpeechInv'
  <1>1. /\ UNCHANGED <<stopEvent, handle, speech, put, closed, caller, llmCancel, barged, setting,
                      tail, played, owed, handed>>
        /\ device' = device \/ device' = 0
    BY DEF DeviceDone, Still, vars, engine, threads, history, answer
  <1>2. Shaped'
    BY <1>1 DEF SpeechInv, Shaped, SpeechTypes, ThreadsOk, ThreadOk, CallersOk, CallerOk
  <1>3. OrderInv' /\ TailInv'
    BY <1>1 DEF SpeechInv, OrderInv, TailInv, Ready
  <1>4. SeenInv'
    <2>1. Unused' = Unused /\ Newest' = Newest
      BY <1>1, SameNewest
    <2>. QED
      BY <1>1, <2>1 DEF SpeechInv, SeenInv, SpeakingIsSeen, Alive
  <1>5. VoiceInv' /\ HandedInv'
    BY <1>1 DEF SpeechInv, VoiceInv, OneVoice, Alive, HandedInv, HandedOnce, CallerAt
  <1>. QED
    BY <1>2, <1>3, <1>4, <1>5 DEF SpeechInv

-----------------------------------------------------------------------------
(* The theorem.                                                            *)

\* In the beginning nobody speaks.
LEMMA InitSpeech == Init => SpeechInv
  <1>. SUFFICES ASSUME Init PROVE SpeechInv
    OBVIOUS
  <1>1. /\ NoThread \in Speeches /\ NoThread.pc = "none" /\ NoThread.slot = "text"
        /\ NoThread.at = 1 /\ NoThread.taken = 0
    BY DEF NoThread, Speeches, Points, Slots
  <1>2. Resting \in Doings /\ Resting.pc = "idle"
    BY DEF Resting, Doings, Elsewhere
  <1>3. SpeechTypes
    <2>1. played \in [Ids -> Seq(Nat)]
      BY DEF Init
    <2>2. put \in [Ids -> 0 .. Parts] /\ tail \in [Ids -> Nat]
      BY DEF Init
    <2>3. speech \in [Ids -> Speeches] /\ caller \in [Callers -> Doings]
      BY <1>1, <1>2 DEF Init
    <2>. QED
      BY <2>1, <2>2, <2>3 DEF Init, SpeechTypes
  <1>4. ThreadsOk /\ CallersOk
    BY <1>1, <1>2 DEF Init, ThreadsOk, ThreadOk, CallersOk, CallerOk, Interrupting, Beginning
  <1>5. \A j \in Ids : speech[j].pc = "none"
    BY <1>1 DEF Init
  <1>6. OrderInv /\ TailInv
    BY <1>5 DEF Init, OrderInv, TailInv, Ready
  <1>7. SeenInv
    BY <1>5 DEF SeenInv, SpeakingIsSeen, Unused
  <1>8. VoiceInv
    BY <1>5 DEF VoiceInv, OneVoice, Alive
  <1>9. HandedInv
    BY <1>2 DEF Init, HandedInv, HandedOnce, CallerAt, Interrupting, Beginning, Callers
  <1>. QED
    BY <1>3, <1>4, <1>6, <1>7, <1>8, <1>9 DEF SpeechInv, Shaped

\* Every step keeps the invariant.
LEMMA StepSpeech == SpeechInv /\ [Next]_vars => SpeechInv'
  <1>. SUFFICES ASSUME SpeechInv, [Next]_vars PROVE SpeechInv'
    OBVIOUS
  <1>1. ASSUME NEW c \in Callers, Call(c) PROVE SpeechInv'
    BY <1>1, InterruptKeeps, BegunKeeps DEF Call
  <1>2. CASE Announce \/ WakeInterrupt \/ CancelLlm \/ Turn
    BY <1>2, DecisionKeeps, StreamKeeps DEF Turn
  <1>3. ASSUME NEW j \in Ids, Speak(j) PROVE SpeechInv'
    BY <1>3, ThreadKeeps
  <1>4. CASE DeviceDone \/ UNCHANGED vars
    BY <1>4, DeviceKeeps
  <1>. QED
    BY <1>1, <1>2, <1>3, <1>4 DEF Next

\* What the invariant means for the property.
LEMMA SpeechInvIsSound == SpeechInv => SpeechIsSound
  <1>. SUFFICES ASSUME SpeechInv PROVE SpeechIsSound
    OBVIOUS
  <1>1. TypeOK
    <2>1. ASSUME NEW j \in Ids
          PROVE  /\ speech[j].pc \in {"none", "synth", "sound", "poll", "console", "next",
                                      "inner", "check", "playing", "drain", "ended"}
                 /\ speech[j].slot \in Slots /\ speech[j].back \in {"inner", "drain"}
                 /\ speech[j].at \in 1..(IF speech[j].slot = "text" THEN Attempts ELSE speech[j].taken + 1)
                 /\ speech[j].taken \in 0..put[j]
                 /\ put[j] \in 0..Parts
      <3>1. put[j] \in 0 .. Parts
        BY DEF SpeechInv, Shaped, SpeechTypes
      <3>. QED
        BY <3>1, ThreadFields
        DEF SpeechInv, ThreadOk, Points, TextPoints, QueuePoints, Slots
    <2>2. \A c \in Callers : caller[c].join \subseteq Ids
      BY CallerFields DEF SpeechInv
    <2>. QED
      BY <2>1, <2>2 DEF TypeOK, SpeechInv, Shaped, SpeechTypes
  <1>2. SpeakingIsSeen /\ OneVoice /\ HandedOnce
    BY DEF SpeechInv, SeenInv, VoiceInv, OneVoice, HandedInv
  <1>3. InOrder
    <2>1. ASSUME NEW j \in Ids, NEW n \in 2 .. Len(played[j])
          PROVE  played[j][n - 1] < played[j][n]
      <3>1. played[j] \in Seq(Nat)
        BY ThreadFields DEF SpeechInv
      <3>2. PICK m \in DOMAIN played[j] : m = n - 1 /\ m < n /\ n \in DOMAIN played[j]
        BY <2>1, <3>1
      <3>. QED
        BY <3>2 DEF SpeechInv, OrderInv
    <2>. QED
      BY <2>1 DEF InOrder
  <1>4. TailBounded
    BY DEF SpeechInv, TailInv, TailBounded
  <1>. QED
    BY <1>1, <1>2, <1>3, <1>4 DEF SpeechIsSound

\* Whatever the number of threads that were left behind by a join that gave up, of announcements
\* and of interrupts: an answer reaches the engine once and whole unless it was interrupted, its
\* sentences are begun in order and once each, no thread begins more than the one waveform it was
\* about to play after the stop event was set, with one caller the thread that speaks is known by
\* its handle, and with joins that wait there is one voice (SpeechEngine of audio/tts.py).
THEOREM SpeechSound == Spec => []SpeechIsSound
  <1>1. Init => SpeechInv
    BY InitSpeech
  <1>2. SpeechInv /\ [Next]_vars => SpeechInv'
    BY StepSpeech
  <1>3. SpeechInv => SpeechIsSound
    BY SpeechInvIsSound
  <1>. QED
    BY <1>1, <1>2, <1>3, PTL DEF Spec
====
