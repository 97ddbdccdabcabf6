---------------------------- MODULE EngineProofs ----------------------------
(***************************************************************************)
(* What holds of the process around the conversation: its start (Startup),  *)
(* its windows (DesktopBridge) and its end (Shutdown), for every number of  *)
(* turns, connections and events.                                          *)
(***************************************************************************)
EXTENDS MCEngine, SequenceTheorems, TLAPS

-----------------------------------------------------------------------------
(* The start.                                                              *)

Spots == {"none", "look", "lock", "relook", "load", "work", "reach", "spawn", "keep", "wait",
          "select", "warm"}
Loading == {"look", "lock", "relook", "load"}

PlacesInv ==
  /\ SU!TypeOK
  /\ place \in [SU!Threads -> [model : {"none", "local", "partial", "server"}, step : Spots]]
  /\ \A t \in SU!Threads : place[t].step \in Loading => place[t].model \in SU!Models
  /\ \A t \in SU!Threads : place[t].model = "server" => t = "llm" /\ task["llm"] = "running"

\* Who looks again or loads holds the lock of his model, and who loads has not found it; what
\* was built as it is wanted is found from then on.
LoadInv ==
  /\ \A t \in SU!Threads : place[t].step \in {"relook", "load"} => holder[place[t].model] = t
  /\ \A t \in SU!Threads : place[t].step = "load" => ~SU!Found(place[t].model)
  /\ \A m \in SU!Models : loads[m] = IF model[m] = "wanted" THEN 1 ELSE 0

StartInv == PlacesInv /\ LoadInv /\ SU!OwnServerHeld

LEMMA Names ==
  /\ SU!Tasks = {"wake_word", "stt", "stt_optional", "llm"}
  /\ SU!Threads = SU!Tasks \cup {Turn} /\ Turn \notin SU!Tasks /\ Turn # "llm"
  /\ NoOne \notin SU!Threads
  /\ SU!Models = {"local", "partial"}
  BY EngineAssumption DEF SU!Tasks, SU!Threads, SU!Models

\* The start begins so.
LEMMA StartBegins == SU!Init => StartInv
  BY Names DEF SU!Init, StartInv, PlacesInv, LoadInv, SU!TypeOK, SU!OwnServerHeld, SU!Nowhere, Spots,
     Loading, SU!Found

\* A thread that takes a step of its own stays on the ground of the others.
LEMMA ThreadSteps ==
  ASSUME StartInv, NEW t \in SU!Threads, SU!ThreadStep(t)
  PROVE  StartInv'
  <1> USE Names DEF StartInv, PlacesInv, LoadInv, SU!TypeOK, SU!fixed, SU!caches, SU!ollama, SU!Leave, SU!Nowhere
  <1>1. CASE SU!Work(t)
    <2>1. PlacesInv' /\ LoadInv'
      BY <1>1 DEF SU!Work, Spots, Loading, SU!Found
    <2>2. SU!OwnServerHeld'
      BY <1>1 DEF SU!Work, SU!OwnServerHeld, SU!At, SU!Step
    <2>3. QED
      BY <2>1, <2>2
  <1>2. CASE SU!Look(t)
    <2>1. place[t].model \in SU!Models /\ place[t].step # "keep"
      BY <1>2 DEF SU!Look, Loading
    <2>2. PlacesInv'
      BY <1>2, <2>1 DEF SU!Look, Spots, Loading
    <2>3. LoadInv'
      BY <1>2, <2>1 DEF SU!Look, Spots, Loading, SU!Found
    <2>4. SU!OwnServerHeld'
      BY <1>2, <2>1 DEF SU!Look, SU!OwnServerHeld, SU!At, SU!Step
    <2>5. QED
      BY <2>2, <2>3, <2>4
  <1>3. CASE SU!Lock(t)
    <2>1. place[t].model \in SU!Models /\ place[t].step # "keep"
      BY <1>3 DEF SU!Lock, Loading
    <2>2. PlacesInv'
      BY <1>3, <2>1 DEF SU!Lock, Spots, Loading
    <2>3. LoadInv'
      BY <1>3, <2>1 DEF SU!Lock, Spots, Loading, SU!Found
    <2>4. SU!OwnServerHeld'
      BY <1>3, <2>1 DEF SU!Lock, SU!OwnServerHeld, SU!At, SU!Step
    <2>5. QED
      BY <2>2, <2>3, <2>4
  <1>4. CASE SU!Load(t)
    <2>1. place[t].model \in SU!Models /\ place[t].step # "keep"
      BY <1>4 DEF SU!Load, Loading
    <2>2. PICK made \in {"wanted", "fallback", "none"} :
             /\ model' = IF made = "none" THEN model ELSE [model EXCEPT ![place[t].model] = made]
             /\ loads' = IF made = "wanted" THEN [loads EXCEPT ![place[t].model] = @ + 1] ELSE loads
      BY <1>4 DEF SU!Load
    <2>3. PlacesInv'
      BY <1>4, <2>1, <2>2 DEF SU!Load, Spots, Loading, SU!Found
    <2>4. LoadInv'
      <3>1. \A u \in SU!Threads \ {t} : place'[u] = place[u]
                /\ (place[u].step \in {"relook", "load"} => place[u].model # place[t].model)
        BY <1>4, <2>1 DEF SU!Load, Loading
      <3>2. place'[t].step = "none"
        BY <1>4, <2>1 DEF SU!Load, Loading
      <3>3. \A m \in SU!Models \ {place[t].model} : model'[m] = model[m] /\ loads'[m] = loads[m] /\ holder'[m] = holder[m]
        BY <1>4, <2>1, <2>2 DEF SU!Load
      <3>4. loads'[place[t].model] = IF model'[place[t].model] = "wanted" THEN 1 ELSE 0
        BY <1>4, <2>1, <2>2 DEF SU!Load, SU!Found
      <3>5. QED
        BY <2>1, <3>1, <3>2, <3>3, <3>4 DEF SU!Found, Loading
    <2>5. SU!OwnServerHeld'
      BY <1>4, <2>1 DEF SU!Load, SU!OwnServerHeld, SU!At, SU!Step
    <2>6. QED
      BY <2>3, <2>4, <2>5
  <1>5. QED
    BY <1>1, <1>2, <1>3, <1>4 DEF SU!ThreadStep

\* So does the thread that prepares the model server.
LEMMA ServerSteps ==
  ASSUME StartInv, SU!LlmStep
  PROVE  StartInv'
  <1> USE Names DEF StartInv, PlacesInv, LoadInv, SU!TypeOK, SU!fixed, SU!caches, SU!ollama, SU!Leave, SU!Nowhere,
          SU!Go, SU!At, SU!Step
  <1>1. PICK s \in {"reach", "spawn", "keep", "wait", "select", "warm"} : place["llm"] = [model |-> "server", step |-> s]
    BY DEF SU!LlmStep, SU!Reach, SU!Spawn, SU!Keep, SU!Wait, SU!Select, SU!Warm
  <1>2. UNCHANGED <<model, holder, loads, phase, sequential, autostart>>
    BY DEF SU!LlmStep, SU!Reach, SU!Spawn, SU!Keep, SU!Wait, SU!Select, SU!Warm
  <1>3. \/ task' = task /\ \E to \in {"select", "spawn", "keep", "wait", "warm"} : place' = [place EXCEPT !["llm"].step = to]
        \/ task' = [task EXCEPT !["llm"] = "ended"] /\ place' = [place EXCEPT !["llm"] = [model |-> "none", step |-> "none"]]
    BY DEF SU!LlmStep, SU!Reach, SU!Spawn, SU!Keep, SU!Wait, SU!Select, SU!Warm
  <1>4. SU!TypeOK'
    BY <1>2, <1>3 DEF SU!LlmStep, SU!Reach, SU!Spawn, SU!Keep, SU!Wait, SU!Select, SU!Warm
  <1>5. PlacesInv' /\ LoadInv'
    BY <1>1, <1>2, <1>3, <1>4 DEF Spots, Loading, SU!Found
  <1>6. SU!OwnServerHeld'
    BY DEF SU!LlmStep, SU!Reach, SU!Spawn, SU!Keep, SU!Wait, SU!Select, SU!Warm, SU!OwnServerHeld
  <1>7. QED
    BY <1>5, <1>6

\* Every step of the start keeps its invariant.
LEMMA StartSteps ==
  ASSUME StartInv, [SU!Next]_(SU!suVars)
  PROVE  StartInv'
  <1> USE Names DEF StartInv, PlacesInv, LoadInv, SU!TypeOK, SU!fixed, SU!caches, SU!ollama
  <1>1. ASSUME NEW t \in SU!Tasks, SU!StartTask(t) PROVE StartInv'
    <2>1. /\ task[t] = "new" /\ task' = [task EXCEPT ![t] = "running"]
          /\ UNCHANGED <<phase, model, holder, loads, server, answers, handle, ending>>
      BY <1>1 DEF SU!StartTask
    <2>2. PICK to : /\ place' = [place EXCEPT ![t] = to]
                    /\ to \in {[model |-> "local", step |-> "look"], [model |-> "partial", step |-> "look"],
                               [model |-> "none", step |-> "work"]}
                              \cup IF t = "llm" THEN {[model |-> "server", step |-> "reach"]} ELSE {}
      BY <1>1 DEF SU!StartTask, SU!First, SU!Step
    <2>3. PlacesInv' /\ LoadInv'
      BY <2>1, <2>2 DEF Spots, Loading, SU!Found
    <2>4. SU!OwnServerHeld'
      BY <2>1, <2>2 DEF SU!OwnServerHeld, SU!At, SU!Step
    <2>5. QED
      BY <2>3, <2>4
  <1>2. ASSUME NEW m \in SU!Models, SU!SpokenTurn(m) PROVE StartInv'
    <2>1. PlacesInv' /\ LoadInv'
      BY <1>2 DEF SU!SpokenTurn, SU!Step, Spots, Loading, SU!Found
    <2>2. SU!OwnServerHeld'
      BY <1>2 DEF SU!SpokenTurn, SU!OwnServerHeld, SU!At, SU!Step
    <2>3. QED
      BY <2>1, <2>2
  <1>3. CASE SU!MainStep \/ SU!ServerAnswers \/ SU!ByHand \/ SU!Signal \/ SU!OwnExits
    <2>1. UNCHANGED <<task, place, model, holder, loads>>
      BY <1>3 DEF SU!MainStep, SU!Listen, SU!LoopEnds, SU!TakeHandle, SU!EndServer, SU!ServerAnswers, SU!ByHand,
                  SU!Signal, SU!OwnExits
    <2>2. SU!TypeOK' /\ SU!OwnServerHeld'
      BY <1>3 DEF SU!MainStep, SU!Listen, SU!LoopEnds, SU!TakeHandle, SU!EndServer, SU!ServerAnswers, SU!ByHand,
                  SU!Signal, SU!OwnExits, SU!OwnServerHeld, SU!At
    <2>3. QED
      BY <2>1, <2>2 DEF Loading, SU!Found
  <1>4. CASE UNCHANGED SU!suVars
    BY <1>4 DEF SU!suVars, SU!OwnServerHeld, SU!At, SU!Found, Loading
  <1>5. QED
    BY <1>1, <1>2, <1>3, <1>4, ThreadSteps, ServerSteps DEF SU!Next, SU!Works

\* What the invariant promises of the start.
LEMMA StartPromise == StartInv => SU!TypeOK /\ SU!LoadedOnce /\ SU!OwnServerHeld
  BY DEF StartInv, PlacesInv, LoadInv, SU!LoadedOnce

-----------------------------------------------------------------------------
(* The end.  What the cleaner has done and what he has still to do are the  *)
(* steps of the cleanup; he is the only one who has any.                    *)

AfterOne == <<index, speech>>
AfterTwo == <<speech>>
One      == <<jobs>>
Two      == <<jobs, index>>
Start    == <<"start">>
Empty    == <<>>

\* The ways the cleanup may stand: what is done and what is left.
Cut(d, l) ==
  \/ d = Empty /\ l = Steps
  \/ d = One /\ l = AfterOne
  \/ d = Two /\ l = AfterTwo
  \/ d = Steps /\ l \in {Empty, None}

Reasons == {"in flight", "timeout", "late"}

Lefts == {None, Start, Steps, AfterOne, AfterTwo, Empty}

CleanInv ==
  /\ at \in [{Main, Handler} -> Lefts]
  /\ main \in {"loop", "finally", "exit", "ended"}
  /\ cleaner \in {Main, Handler, None} /\ (cleaned <=> cleaner # None)
  /\ cleaner = None => done = Empty /\ at[Main] = None /\ at[Handler] \in {None, Start}
  /\ cleaner # None => Cut(done, at[cleaner]) /\ requested
  /\ cleaner = Main => at[Handler] \in {None, Start}
  /\ cleaner = Handler => at[Main] = None
  /\ at[Handler] # None => requested
  /\ main \in {"loop", "finally"} => cleaner # Main
  /\ main \in {"exit", "ended"} => cleaner # None
  /\ main = "ended" /\ cleaner = Main => at[Main] = None

\* What is to be written comes of turns; only the cleaner drains it, as his last step, and
\* whatever is left then has a reason.
WriteInv ==
  /\ turns \in 0 .. MaxTurns /\ queue \in Nat /\ queue <= turns /\ (turn => queue < turns)
  /\ dropped \subseteq Reasons
  /\ draining # None => draining = cleaner /\ at[cleaner] = Empty
  /\ cleaner # None /\ at[cleaner] = None /\ (queue > 0 \/ writing) => dropped # {}

EndInv == CleanInv /\ WriteInv

\* What Append returns is known by its length and its elements.
LEMMA OneMore ==
  ASSUME NEW S, NEW s \in Seq(S), NEW e \in S, NEW r \in Seq(S), Len(r) = Len(s) + 1,
         \A i \in 1 .. Len(s) : r[i] = s[i], r[Len(s) + 1] = e
  PROVE  Append(s, e) = r
  <1>1. Append(s, e) \in Seq(S) /\ Len(Append(s, e)) = Len(r)
    BY AppendProperties
  <1>2. \A i \in 1 .. Len(r) : Append(s, e)[i] = r[i]
    <2>1. Len(s) \in Nat
      BY LenProperties
    <2>2. QED
      BY <2>1, AppendProperties
  <1>3. QED
    BY <1>1, <1>2, SeqEqual

Items == {jobs, index, speech}

\* No step left, some and the handler's start are different things.
LEMMA DifferentLists ==
  /\ None \notin {Start, Steps, AfterOne, AfterTwo, Empty}
  /\ Start \notin {Steps, AfterOne, AfterTwo, Empty}
  /\ Steps \notin {AfterOne, AfterTwo, Empty}
  /\ AfterOne \notin {AfterTwo, Empty} /\ AfterTwo # Empty
  <1>1. {Start, Steps, AfterOne, AfterTwo, Empty} \subseteq Seq({"start", jobs, index, speech})
    BY DEF Start, Steps, AfterOne, AfterTwo, Empty
  <1>2. None \notin {Start, Steps, AfterOne, AfterTwo, Empty}
    BY <1>1, EngineAssumption
  <1>3. Len(Steps) = 3 /\ Len(AfterOne) = 2 /\ Len(AfterTwo) = 1 /\ Len(Start) = 1 /\ Len(Empty) = 0
    BY DEF Start, Steps, AfterOne, AfterTwo, Empty
  <1>4. Start # Steps /\ Start # AfterOne /\ Start # Empty
    BY <1>3
  <1>5. Start # AfterTwo
    BY EngineAssumption DEF Start, AfterTwo
  <1>6. Steps # AfterOne /\ Steps # AfterTwo /\ Steps # Empty
    BY <1>3
  <1>7. AfterOne # AfterTwo /\ AfterOne # Empty /\ AfterTwo # Empty
    BY <1>3
  <1>8. QED
    BY <1>2, <1>4, <1>5, <1>6, <1>7

\* The cleaner takes the steps from the one list and adds them to the other.
LEMMA Lists ==
  /\ Head(Steps) = jobs /\ Tail(Steps) = AfterOne
  /\ Head(AfterOne) = index /\ Tail(AfterOne) = AfterTwo
  /\ Head(AfterTwo) = speech /\ Tail(AfterTwo) = Empty
  /\ Append(Empty, jobs) = One /\ Append(One, index) = Two /\ Append(Two, speech) = Steps
  <1>1. Head(Steps) = jobs /\ Tail(Steps) = AfterOne
    BY DEF Steps, AfterOne
  <1>2. Head(AfterOne) = index /\ Tail(AfterOne) = AfterTwo
    BY DEF AfterOne, AfterTwo
  <1>3. Head(AfterTwo) = speech /\ Tail(AfterTwo) = Empty
    BY DEF AfterTwo, Empty
  <1>4. Append(Empty, jobs) = One
    BY DEF Empty, One
  <1>5. /\ {One, Two, Steps} \subseteq Seq(Items) /\ {jobs, index, speech} \subseteq Items
        /\ Len(One) = 1 /\ Len(Two) = 2 /\ Len(Steps) = 3
        /\ One[1] = jobs /\ Two[1] = jobs /\ Two[2] = index
        /\ Steps[1] = jobs /\ Steps[2] = index /\ Steps[3] = speech
    BY DEF One, Two, Steps, Items
  <1>6. Append(One, index) = Two
    <2>1. Len(Two) = Len(One) + 1 /\ (\A i \in 1 .. Len(One) : Two[i] = One[i]) /\ Two[Len(One) + 1] = index
      BY <1>5
    <2>2. QED
      BY <1>5, <2>1, OneMore
  <1>7. Append(Two, speech) = Steps
    <2>1. Len(Steps) = Len(Two) + 1 /\ (\A i \in 1 .. Len(Two) : Steps[i] = Two[i]) /\ Steps[Len(Two) + 1] = speech
      BY <1>5
    <2>2. QED
      BY <1>5, <2>1, OneMore
  <1>8. QED
    BY <1>1, <1>2, <1>3, <1>4, <1>6, <1>7

\* What has been done at any time is a beginning of the steps.
LEMMA Starts ==
  ASSUME NEW d \in {Empty, One, Two, Steps}
  PROVE  Len(d) <= Len(Steps) /\ d = SubSeq(Steps, 1, Len(d))
  <1>1. /\ Steps \in Seq(Items) /\ Len(Steps) = 3 /\ Steps[1] = jobs /\ Steps[2] = index /\ Steps[3] = speech
    BY DEF Steps, Items
  <1>2. SubSeq(Steps, 1, Len(Steps)) = Steps
    BY <1>1, SubSeqFull
  <1>3. Len(Empty) = 0 /\ SubSeq(Steps, 1, 0) = Empty
    BY SubSeqEmpty DEF Empty
  <1>4. Len(One) = 1 /\ SubSeq(Steps, 1, 1) = One
    <2>1. Len(One) = 1 /\ One \in Seq(Items) /\ One[1] = jobs
      BY DEF One, Items
    <2>2. /\ SubSeq(Steps, 1, 1) \in Seq(Items) /\ Len(SubSeq(Steps, 1, 1)) = 1
          /\ SubSeq(Steps, 1, 1)[1] = jobs
      <3>1. \A i \in 1 .. 1 : Steps[i] \in Items
        BY <1>1 DEF Items
      <3>2. QED
        BY <1>1, <3>1, SubSeqProperties
    <2>3. QED
      BY <2>1, <2>2, SeqEqual
  <1>5. Len(Two) = 2 /\ SubSeq(Steps, 1, 2) = Two
    <2>1. Len(Two) = 2 /\ Two \in Seq(Items) /\ Two[1] = jobs /\ Two[2] = index
      BY DEF Two, Items
    <2>2. /\ SubSeq(Steps, 1, 2) \in Seq(Items) /\ Len(SubSeq(Steps, 1, 2)) = 2
          /\ SubSeq(Steps, 1, 2)[1] = jobs /\ SubSeq(Steps, 1, 2)[2] = index
      <3>1. \A i \in 1 .. 2 : Steps[i] \in Items
        BY <1>1 DEF Items
      <3>2. QED
        BY <1>1, <3>1, SubSeqProperties
    <2>3. QED
      BY <2>1, <2>2, SeqEqual
  <1>6. CASE d = Steps
    <2>1. d = SubSeq(Steps, 1, Len(d))
      BY <1>2, <1>6, Zenon
    <2>2. Len(d) \in 0 .. 3
      BY <1>1, <1>2, <1>6
    <2>3. QED
      BY <1>1, <2>1, <2>2
  <1>7. CASE d = Empty
    <2>1. d = SubSeq(Steps, 1, Len(d))
      BY <1>3, <1>7, Zenon
    <2>2. Len(d) \in 0 .. 3
      BY <1>1, <1>3, <1>7
    <2>3. QED
      BY <1>1, <2>1, <2>2
  <1>8. CASE d = One
    <2>1. d = SubSeq(Steps, 1, Len(d))
      BY <1>4, <1>8, Zenon
    <2>2. Len(d) \in 0 .. 3
      BY <1>1, <1>4, <1>8
    <2>3. QED
      BY <1>1, <2>1, <2>2
  <1>9. CASE d = Two
    <2>1. d = SubSeq(Steps, 1, Len(d))
      BY <1>5, <1>9, Zenon
    <2>2. Len(d) \in 0 .. 3
      BY <1>1, <1>5, <1>9
    <2>3. QED
      BY <1>1, <2>1, <2>2
  <1>10. QED
    BY <1>6, <1>7, <1>8, <1>9

\* The two cleaners.
LEMMA Cleaners == Main # Handler /\ Main # None /\ Handler # None /\ MaxTurns \in Nat
  BY EngineAssumption

\* The end begins so.
LEMMA EndBegins == SH!Init => EndInv
  BY DifferentLists, Cleaners DEF Lefts, Empty, SH!Init, EndInv, CleanInv, WriteInv, SH!Cleaners

\* What a cleaner does.
LEMMA CleanerSteps ==
  ASSUME EndInv, NEW t \in {Main, Handler}, at[t] # Start, SH!Step(t) \/ SH!Drain(t) \/ SH!Drained(t)
  PROVE  EndInv'
  <1> USE DifferentLists, Cleaners DEF Lefts, EndInv, CleanInv, WriteInv, SH!talk, SH!memory
  <1>1. UNCHANGED <<requested, cleaned, main, turn, turns, queue, writing, cleaner>> /\ main # "ended"
    BY DEF SH!Step, SH!Drain, SH!Drained, SH!Alive
  <1>2. t = cleaner
    <2>1. at[t] \notin {None, Start} \/ draining = t
      <3>1. SH!Step(t) => at[t] # None
        BY DEF SH!Step
      <3>2. SH!Drain(t) => at[t] = Empty
        BY DEF SH!Drain, Empty
      <3>3. SH!Drained(t) => draining = t
        BY DEF SH!Drained
      <3>4. QED
        BY <3>1, <3>2, <3>3
    <2>2. CASE t = Main
      BY <2>1, <2>2
    <2>3. CASE t = Handler
      BY <2>1, <2>3
    <2>4. QED
      BY <2>2, <2>3
  <1>3. CASE SH!Step(t)
    <2>1. /\ at' = [at EXCEPT ![t] = Tail(@)] /\ done' = Append(done, Head(at[t]))
          /\ at[t] # None /\ at[t] # Empty /\ draining' = draining /\ dropped' = dropped
      BY <1>3 DEF SH!Step, Empty
    <2>2. Cut(done', at'[t]) /\ at'[t] # None
      BY <1>2, <2>1, Lists DEF Cut
    <2>3. CleanInv'
      BY <1>1, <1>2, <2>1, <2>2, Lists
    <2>4. WriteInv'
      BY <1>1, <1>2, <2>1, <2>2
    <2>5. QED
      BY <2>3, <2>4
  <1>4. CASE SH!Drain(t)
    <2>1. done' = done /\ at[t] = Empty
      BY <1>4 DEF SH!Drain, Empty
    <2>2. done = Steps
      BY <1>2, <2>1 DEF Cut
    <2>3. \/ draining' = t /\ at' = at /\ dropped' = dropped
          \/ /\ at' = [at EXCEPT ![t] = None] /\ ~(queue > 0) /\ draining' = draining /\ draining # t
             /\ dropped' = IF writing THEN dropped \cup {"in flight"} ELSE dropped
      BY <1>4 DEF SH!Drain, SH!Drains, Empty
    <2>4. QED
      BY <1>1, <1>2, <2>1, <2>2, <2>3 DEF Cut, Reasons
  <1>5. CASE SH!Drained(t)
    <2>1. /\ done' = done /\ draining = t /\ draining' = None /\ at' = [at EXCEPT ![t] = None]
          /\ dropped' = IF queue > 0 \/ writing THEN dropped \cup {"timeout"} ELSE dropped
      BY <1>5 DEF SH!Drained
    <2>2. done = Steps
      BY <1>2, <2>1 DEF Cut
    <2>3. QED
      BY <1>1, <1>2, <2>1, <2>2 DEF Cut, Reasons
  <1>6. QED
    BY <1>3, <1>4, <1>5

\* Every step of the end keeps its invariant.
LEMMA EndSteps ==
  ASSUME EndInv, [SH!Next]_(SH!shVars)
  PROVE  EndInv'
  <1> USE DifferentLists, Cleaners DEF Lefts, EndInv, CleanInv, WriteInv, SH!talk, SH!memory, SH!Alive
  <1>1. CASE SH!TurnStarts
    <2>1. CleanInv'
      BY <1>1 DEF SH!TurnStarts
    <2>2. turns' \in 0 .. MaxTurns /\ queue' \in Nat /\ queue' <= turns' /\ (turn' => queue' < turns')
      BY <1>1 DEF SH!TurnStarts
    <2>3. UNCHANGED <<dropped, draining, cleaner, at, queue>> /\ (writing' <=> writing)
      BY <1>1 DEF SH!TurnStarts
    <2>4. WriteInv'
      BY <2>2, <2>3
    <2>5. QED
      BY <2>1, <2>4
  <1>2. CASE SH!TurnEnds
    <2>1. /\ turn /\ ~turn' /\ queue' \in {queue, queue + 1}
          /\ dropped' = IF queue' > queue /\ cleaner # None /\ at[cleaner] = None THEN dropped \cup {"late"} ELSE dropped
          /\ UNCHANGED <<requested, cleaned, main, at, done, turns, writing, draining, cleaner>>
      BY <1>2 DEF SH!TurnEnds
    <2>2. CleanInv'
      BY <2>1
    <2>3. turns' \in 0 .. MaxTurns /\ queue' \in Nat /\ queue' <= turns' /\ (turn' => queue' < turns')
      BY <2>1
    <2>4. UNCHANGED <<draining, cleaner, at>> /\ (writing' <=> writing) /\ dropped \subseteq dropped'
          /\ dropped' \subseteq dropped \cup Reasons
      BY <2>1 DEF Reasons
    <2>5. queue' > queue /\ cleaner # None /\ at[cleaner] = None => dropped' # {}
      BY <2>1
    <2>6. queue' > queue \/ queue' = queue
      BY <2>1
    <2>7. WriteInv'
      BY <2>3, <2>4, <2>5, <2>6
    <2>8. QED
      BY <2>2, <2>7
  <1>3. CASE SH!TakeWrite
    <2>1. CleanInv'
      BY <1>3 DEF SH!TakeWrite
    <2>2. turns' \in 0 .. MaxTurns /\ queue' \in Nat /\ queue' <= turns' /\ (turn' => queue' < turns')
      BY <1>3 DEF SH!TakeWrite
    <2>3. UNCHANGED <<dropped, draining, cleaner, at>> /\ queue > 0
      BY <1>3 DEF SH!TakeWrite
    <2>4. WriteInv'
      BY <2>2, <2>3
    <2>5. QED
      BY <2>1, <2>4
  <1>4. CASE SH!EndWrite
    BY <1>4 DEF SH!EndWrite
  <1>5. CASE SH!Signal
    <2>1. cleaner = None
      BY <1>5 DEF SH!Signal, Start
    <2>2. QED
      BY <1>5, <2>1 DEF SH!Signal, Start
  <1>6. CASE SH!HandlerStarts
    <2>1. CASE cleaned
      BY <1>6, <2>1 DEF SH!HandlerStarts, SH!First, Start, Cut
    <2>2. CASE ~cleaned
      <3>1. /\ cleaner = None /\ cleaner' = Handler /\ at' = [at EXCEPT ![Handler] = Steps] /\ cleaned' /\ requested'
            /\ UNCHANGED <<main, done, turn, turns, queue, writing, draining, dropped>>
        BY <1>6, <2>2 DEF SH!HandlerStarts, SH!First, Start
      <3>2. Cut(done', at'[Handler]) /\ at'[Main] = None /\ at'[Handler] # None
        BY <3>1 DEF Cut
      <3>3. main # "ended"
        BY <1>6 DEF SH!HandlerStarts
      <3>4. CleanInv'
        BY <3>1, <3>2, <3>3
      <3>5. WriteInv'
        BY <3>1, <3>2, <3>3
      <3>6. QED
        BY <3>4, <3>5
    <2>3. QED
      BY <2>1, <2>2
  <1>7. ASSUME NEW event, SH!LeaveLoop(event) PROVE EndInv'
    BY <1>7 DEF SH!LeaveLoop
  <1>8. CASE SH!MainCleans
    <2>1. CASE cleaned
      BY <1>8, <2>1 DEF SH!MainCleans, SH!Enter, SH!First
    <2>2. CASE ~cleaned
      <3>1. /\ cleaner = None /\ cleaner' = Main /\ at' = [at EXCEPT ![Main] = Steps] /\ cleaned' /\ requested'
            /\ main' = "exit" /\ UNCHANGED <<done, turn, turns, queue, writing, draining, dropped>>
        BY <1>8, <2>2 DEF SH!MainCleans, SH!Enter, SH!First
      <3>2. Cut(done', at'[Main]) /\ at'[Handler] = at[Handler] /\ at'[Main] # None
        BY <3>1 DEF Cut
      <3>3. QED
        BY <3>1, <3>2
    <2>3. QED
      BY <2>1, <2>2
  <1>9. CASE SH!End
    BY <1>9 DEF SH!End
  <1>10. CASE UNCHANGED SH!shVars
    BY <1>10 DEF SH!shVars
  <1>11. QED
    <2>1. SH!Step(Main) \/ SH!Drain(Main) \/ SH!Drained(Main) => EndInv'
      <3>1. at[Main] # Start
        BY DEF Cut
      <3>2. QED
        BY <3>1, CleanerSteps
    <2>2. SH!HandlerWorks => EndInv'
      BY <1>6, CleanerSteps DEF SH!HandlerWorks, Start
    <2>3. QED
      BY <1>1, <1>2, <1>3, <1>4, <1>5, <1>7, <1>8, <1>9, <1>10, <2>1, <2>2
         DEF SH!Next, SH!MainWorks, SH!WriterWorks

\* What the invariant promises of the end.
LEMMA EndPromise == EndInv => SH!TypeOK /\ SH!StoppedOnce /\ SH!NothingDropped
  <1> SUFFICES ASSUME EndInv PROVE SH!TypeOK /\ SH!StoppedOnce /\ SH!NothingDropped
    OBVIOUS
  <1> USE DifferentLists, Cleaners DEF Lefts, EndInv, CleanInv, WriteInv
  <1>1. done \in {Empty, One, Two, Steps}
    BY DEF Cut
  <1>2. Len(done) <= Len(Steps) /\ done = SubSeq(Steps, 1, Len(done))
    BY <1>1, Starts
  <1>3. main = "ended" => cleaned /\ (done = Steps \/ (cleaner = Handler /\ at[Handler] # None))
    BY DEF Cut
  <1>4. SH!NothingDropped
    BY DEF SH!NothingDropped
  <1>5. SH!TypeOK
    <2>1. queue \in 0 .. MaxTurns
      OBVIOUS
    <2>2. QED
      BY <1>2, <2>1 DEF SH!TypeOK, Reasons
  <1>6. QED
    BY <1>2, <1>3, <1>4, <1>5 DEF SH!StoppedOnce

-----------------------------------------------------------------------------
(* The windows.  What counts in a line of events is the last of a kind.     *)

NoneOf(s, k)    == \A i \in 1 .. Len(s) : s[i].kind # k
LastOf(s, k, v) ==
  \A i \in 1 .. Len(s) :
    s[i].kind = k /\ (\A j \in 1 .. Len(s) : i < j => s[j].kind # k) => s[i].value = v

\* An event at the end of a line is the last of its kind and leaves the last of another.
LEMMA EventAdded ==
  ASSUME NEW S, NEW s \in Seq(S), NEW e \in S, NEW k, NEW v
  PROVE  /\ e.kind = k => ~NoneOf(Append(s, e), k)
         /\ e.kind = k /\ e.value = v => LastOf(Append(s, e), k, v)
         /\ e.kind # k /\ NoneOf(s, k) => NoneOf(Append(s, e), k)
         /\ NoneOf(Append(s, e), k) => NoneOf(s, k)
         /\ e.kind # k /\ LastOf(s, k, v) => LastOf(Append(s, e), k, v)
  <1> DEFINE r == Append(s, e)
  <1>1. /\ Len(s) \in Nat /\ Len(r) = Len(s) + 1
        /\ \A i \in 1 .. Len(s) : r[i] = s[i]
        /\ r[Len(s) + 1] = e
    BY AppendProperties, LenProperties
  <1> HIDE DEF r
  <1>2. \A i \in 1 .. Len(r) : i \in 1 .. Len(s) \/ i = Len(r)
    BY <1>1
  <1>3. Len(r) \in 1 .. Len(r) /\ \A i \in 1 .. Len(s) : i \in 1 .. Len(r) /\ i < Len(r)
    BY <1>1
  <1>4. /\ e.kind = k => ~NoneOf(r, k)
        /\ e.kind # k /\ NoneOf(s, k) => NoneOf(r, k)
        /\ NoneOf(r, k) => NoneOf(s, k)
    BY <1>1, <1>2, <1>3 DEF NoneOf
  <1>5. e.kind = k /\ e.value = v => LastOf(r, k, v)
    BY <1>1, <1>2, <1>3 DEF LastOf
  <1>6. e.kind # k /\ LastOf(s, k, v) => LastOf(r, k, v)
    BY <1>1, <1>2, <1>3 DEF LastOf
  <1>7. QED
    BY <1>4, <1>5, <1>6 DEF r

\* Without its first event a line has the same last one, unless it was that.
LEMMA EventTaken ==
  ASSUME NEW S, NEW s \in Seq(S), s # <<>>, NEW k, NEW v
  PROVE  /\ NoneOf(s, k) => NoneOf(Tail(s), k) /\ Head(s).kind # k
         /\ Head(s).kind # k /\ NoneOf(Tail(s), k) => NoneOf(s, k)
         /\ LastOf(s, k, v) => LastOf(Tail(s), k, v)
         /\ Head(s).kind = k /\ NoneOf(Tail(s), k) /\ LastOf(s, k, v) => Head(s).value = v
  <1> DEFINE r == Tail(s)
  <1>1. /\ Len(s) \in Nat /\ Len(s) > 0 /\ Len(r) = Len(s) - 1
        /\ \A i \in 1 .. Len(r) : r[i] = s[i + 1]
        /\ Head(s) = s[1]
    BY HeadTailProperties, LenProperties
  <1> HIDE DEF r
  <1>2. \A i \in 1 .. Len(r) : i + 1 \in 1 .. Len(s)
    BY <1>1
  <1>3. \A i \in 1 .. Len(s) : i # 1 => i - 1 \in 1 .. Len(r) /\ r[i - 1] = s[i]
    BY <1>1
  <1>4. 1 \in 1 .. Len(s)
    BY <1>1
  <1>5. NoneOf(s, k) => NoneOf(r, k) /\ Head(s).kind # k
    BY <1>1, <1>2, <1>4 DEF NoneOf
  <1>6. Head(s).kind # k /\ NoneOf(r, k) => NoneOf(s, k)
    BY <1>1, <1>3 DEF NoneOf
  <1>7. LastOf(s, k, v) => LastOf(r, k, v)
    <2> SUFFICES ASSUME LastOf(s, k, v), NEW i \in 1 .. Len(r), r[i].kind = k,
                        \A j \in 1 .. Len(r) : i < j => r[j].kind # k
                 PROVE  r[i].value = v
      BY DEF LastOf
    <2>1. i + 1 \in 1 .. Len(s) /\ s[i + 1].kind = k
      BY <1>1, <1>2
    <2>2. \A j \in 1 .. Len(s) : i + 1 < j => s[j].kind # k
      BY <1>1, <1>3
    <2>3. s[i + 1].value = v
      BY <2>1, <2>2 DEF LastOf
    <2>4. QED
      BY <1>1, <2>3
  <1>8. Head(s).kind = k /\ NoneOf(r, k) /\ LastOf(s, k, v) => Head(s).value = v
    <2> SUFFICES ASSUME Head(s).kind = k, NoneOf(r, k), LastOf(s, k, v) PROVE s[1].value = v
      BY <1>1
    <2>1. \A j \in 1 .. Len(s) : 1 < j => s[j].kind # k
      BY <1>1, <1>3 DEF NoneOf
    <2>2. QED
      BY <1>1, <1>4, <2>1 DEF LastOf
  <1>9. QED
    BY <1>5, <1>6, <1>7, <1>8 DEF r

\* Nothing but texts is under way from a window.
OnlyTexts(s) == \A i \in 1 .. Len(s) : s[i] = "routing"

\* A line holds only texts after one more command if it did before and this is a text.
LEMMA CommandAdded ==
  ASSUME NEW S, NEW s \in Seq(S), NEW e \in S
  PROVE  OnlyTexts(Append(s, e)) <=> OnlyTexts(s) /\ e = "routing"
  <1> DEFINE r == Append(s, e)
  <1>1. /\ Len(s) \in Nat /\ Len(r) = Len(s) + 1
        /\ \A i \in 1 .. Len(s) : r[i] = s[i]
        /\ r[Len(s) + 1] = e
    BY AppendProperties, LenProperties
  <1> HIDE DEF r
  <1>2. \A i \in 1 .. Len(r) : i \in 1 .. Len(s) \/ i = Len(r)
    BY <1>1
  <1>3. Len(r) \in 1 .. Len(r) /\ \A i \in 1 .. Len(s) : i \in 1 .. Len(r)
    BY <1>1
  <1>4. OnlyTexts(r) <=> OnlyTexts(s) /\ e = "routing"
    BY <1>1, <1>2, <1>3 DEF OnlyTexts
  <1>5. QED
    BY <1>4 DEF r

\* A line that holds only texts without its first, which is one, held only texts.
LEMMA CommandTaken ==
  ASSUME NEW S, NEW s \in Seq(S), s # <<>>
  PROVE  OnlyTexts(Tail(s)) /\ Head(s) = "routing" => OnlyTexts(s)
  <1> DEFINE r == Tail(s)
  <1>1. /\ Len(s) \in Nat /\ Len(s) > 0 /\ Len(r) = Len(s) - 1
        /\ \A i \in 1 .. Len(r) : r[i] = s[i + 1]
        /\ Head(s) = s[1]
    BY HeadTailProperties, LenProperties
  <1> HIDE DEF r
  <1>2. \A i \in 1 .. Len(s) : i # 1 => i - 1 \in 1 .. Len(r) /\ r[i - 1] = s[i]
    BY <1>1
  <1>3. OnlyTexts(r) /\ Head(s) = "routing" => OnlyTexts(s)
    BY <1>1, <1>2 DEF OnlyTexts
  <1>4. QED
    BY <1>3 DEF r

-----------------------------------------------------------------------------
(* The windows: what is always so.                                         *)

Orders   == DB!Settings \cup {DB!Bad}
Commands == Orders \cup {"routing"}
Events   == [kind : {"state"}, value : DB!States] \cup [kind : {"config"}, value : DB!Settings]
            \cup [kind : {"response"}, value : {"said"}]
Views    == [state : DB!States, setting : DB!Settings \cup {"none", DB!Bad}, answer : BOOLEAN,
             visible : BOOLEAN, hiding : BOOLEAN]
Works    == {"none", "reading", "answering", "spinning"} \cup Commands
Conns    == {overlay} \X (1 .. MaxConns)
Turners  == {loop, worker}

here  == <<overlay, conn[overlay]>>
view  == shown[overlay]

LinesInv ==
  /\ dlg \in DB!States /\ told \in DB!States /\ notice \in [Turners -> DB!States \cup {"none"}]
  /\ tasks \in Seq(Events) /\ down \in [Conns -> Seq(Events)] /\ up \in [Conns -> Seq(Commands)]
  /\ handler \in [Conns -> Works] /\ setting \in DB!Settings /\ setBy \in Conns \cup {DB!Voice}
  /\ shown \in [{overlay} -> Views]

\* A connection that was not made yet is nowhere.
MadeInv ==
  /\ conn \in [{overlay} -> 0 .. MaxConns]
  /\ clients \subseteq Conns /\ open \subseteq Conns /\ reach \subseteq Conns
  /\ \A n \in 1 .. MaxConns :
       n > conn[overlay] =>
         /\ <<overlay, n>> \notin clients \cup open \cup reach
         /\ handler[<<overlay, n>>] = "none" /\ setBy # <<overlay, n>>

\* The overlay waits to hide only while it is idle, and is visible while it is not.
HidingInv == (view.hiding => view.state = "idle") /\ (view.state # "idle" => view.visible)

\* What was told last is the last state under way, if one is; else it is the last one under way
\* to a window that was told, or what this window shows.
ToldInv ==
  /\ LastOf(tasks, "state", told)
  /\ NoneOf(tasks, "state") /\ here \in reach /\ here \in open =>
       /\ LastOf(down[here], "state", told)
       /\ NoneOf(down[here], "state") => view.state = told

\* A choice is under way from the window, or its answer is.
Asking    == ~OnlyTexts(up[here]) \/ handler[here] \in Orders
Answering == handler[here] = "answering"

\* A window shows a value that the engine does not take only until it is told; and the one that
\* set the engine's value last shows it when all its choices are answered.
TruthfulInv ==
  /\ view.setting = DB!Bad => Asking \/ Answering \/ ~NoneOf(down[here], "config")
  /\ setBy = here /\ ~Answering =>
       /\ LastOf(down[here], "config", setting)
       /\ NoneOf(down[here], "config") /\ ~Asking => view.setting = setting

\* What every window is told is never a value of the engine; each is told that by itself.
ChoiceInv == NoneOf(tasks, "config") /\ (here \in open => TruthfulInv)

\* A handler that keeps the loop has a connection that a broadcast found closed, which no window
\* has and no client is.
KeeperInv ==
  /\ lost \subseteq Conns /\ lost \cap open = {} /\ lost \cap clients = {}
  /\ \A n \in 1 .. MaxConns : n > conn[overlay] => <<overlay, n>> \notin lost
  /\ \A c \in Conns : handler[c] = "spinning" => c \in lost

WindowInv == LinesInv /\ MadeInv /\ HidingInv /\ ToldInv /\ ChoiceInv /\ KeeperInv

\* The one window's names of what the bridge's module says of any window.
LEMMA BridgeNames ==
  /\ DB!Conns = Conns /\ DB!ConnOf(overlay) = here /\ MaxConns \in Nat
  /\ DB!Live(overlay) <=> conn[overlay] > 0 /\ here \in open
  BY EngineAssumption DEF DB!Conns, Conns, DB!ConnOf, here, DB!Live

\* Nothing is under way before the first connection, and the window shows nothing.
LEMMA WindowBegins == DB!Init => WindowInv
  <1> SUFFICES ASSUME DB!Init PROVE WindowInv
    OBVIOUS
  <1> USE BridgeNames DEF DB!Init
  <1>1. LinesInv
    BY DEF LinesInv, Turners, Works, Commands, Views, DB!States, DB!Settings
  <1>2. MadeInv
    BY DEF MadeInv, Conns, DB!Voice
  <1>3. HidingInv
    BY DEF HidingInv, view
  <1>4. ToldInv
    BY DEF ToldInv, LastOf
  <1>5. ChoiceInv
    BY DEF ChoiceInv, NoneOf
  <1>6. KeeperInv
    BY DEF KeeperInv
  <1>7. QED
    BY <1>1, <1>2, <1>3, <1>4, <1>5, <1>6 DEF WindowInv

\* The connection of a window that was made is one of the connections.
LEMMA HereIs ==
  ASSUME MadeInv
  PROVE  /\ conn[overlay] \in Nat /\ conn[overlay] <= MaxConns
         /\ here \in open => here \in Conns /\ conn[overlay] > 0
         /\ conn[overlay] > 0 => here \in Conns
  BY BridgeNames DEF MadeInv, here, Conns

-----------------------------------------------------------------------------
(* The windows: what each step changes.                                    *)

\* Every step keeps the lines of events and commands what they are.
LEMMA LinesSteps ==
  ASSUME LinesInv, MadeInv, DB!Next
  PROVE  LinesInv'
  <1> USE BridgeNames, HereIs DEF LinesInv, DB!dialogue, DB!sent, DB!links, DB!engine
  <1>1. ASSUME NEW t \in Turners, NEW x \in DB!States, DB!Transition(t, x) PROVE LinesInv'
    BY <1>1 DEF DB!Transition
  <1>2. CASE DB!Expire
    BY <1>2 DEF DB!Expire, DB!States
  <1>3. ASSUME NEW t \in Turners, DB!Notify(t) PROVE LinesInv'
    <2>1. notice[t] \in DB!States /\ DB!Event("state", notice[t]) \in Events
      BY <1>3 DEF DB!Notify, DB!Event, Events
    <2>2. QED
      BY <1>3, <2>1 DEF DB!Notify
  <1>4. CASE DB!Broadcast
    <2>1. Head(tasks) \in Events /\ Tail(tasks) \in Seq(Events)
      BY <1>4, HeadTailProperties DEF DB!Broadcast
    <2>2. QED
      BY <1>4, <2>1 DEF DB!Broadcast, DB!Sent
  <1>5. CASE DB!Connect(overlay)
    <2>1. DB!Event("config", setting) \in Events
      BY DEF DB!Event, Events
    <2>2. <<DB!Event("config", setting)>> \in Seq(Events)
      BY <2>1
    <2>3. "reading" \in Works
      BY DEF Works
    <2>4. QED
      BY <1>5, <2>2, <2>3 DEF DB!Connect
  <1>6. CASE DB!Drop(overlay)
    BY <1>6 DEF DB!Drop
  <1>7. ASSUME NEW c \in Conns, DB!Leave(c) PROVE LinesInv'
    BY <1>7 DEF DB!Leave, Works
  <1>8. ASSUME NEW c \in Conns, DB!Handle(c) PROVE LinesInv'
    <2>1. Head(up[c]) \in Commands /\ Tail(up[c]) \in Seq(Commands)
      BY <1>8, HeadTailProperties DEF DB!Handle
    <2>2. Head(up[c]) \in Works
      BY <2>1 DEF Works
    <2>3. QED
      BY <1>8, <2>1, <2>2 DEF DB!Handle
  <1>9. ASSUME NEW c \in Conns, DB!Routed(c) PROVE LinesInv'
    <2>1. DB!Event("response", "said") \in Events /\ DB!Back(c) \in Works
      BY DEF DB!Event, Events, Works, DB!Back
    <2>2. QED
      BY <1>9, <2>1 DEF DB!Routed
  <1>10. ASSUME NEW c \in Conns, DB!Apply(c) PROVE LinesInv'
    <2>1. "answering" \in Works
      BY DEF Works
    <2>2. QED
      BY <1>10, <2>1 DEF DB!Apply
  <1>11. ASSUME NEW c \in Conns, DB!Answer(c) PROVE LinesInv'
    <2>1. DB!Event("config", setting) \in Events /\ DB!Back(c) \in Works
      BY DEF DB!Event, Events, Works, DB!Back
    <2>2. QED
      BY <1>11, <2>1 DEF DB!Answer
  <1>12. ASSUME NEW v \in DB!Settings, DB!VoiceSets(v) PROVE LinesInv'
    BY <1>12 DEF DB!VoiceSets
  <1>13. ASSUME NEW v \in Orders, DB!Choose(overlay, v) PROVE LinesInv'
    <2>1. v \in Commands
      BY DEF Commands
    <2>2. [view EXCEPT !.setting = v] \in Views
      BY DEF Views, view, Orders
    <2>3. QED
      BY <1>13, <2>1, <2>2 DEF DB!Choose, view
  <1>14. CASE DB!Type(overlay)
    <2>1. "routing" \in Commands
      BY DEF Commands
    <2>2. [view EXCEPT !.answer = FALSE] \in Views
      BY DEF Views, view
    <2>3. QED
      BY <1>14, <2>1, <2>2 DEF DB!Type, view
  <1>15. CASE DB!Receive(overlay)
    <2>1. here \in Conns /\ Head(down[here]) \in Events /\ Tail(down[here]) \in Seq(Events)
      BY <1>15, HeadTailProperties DEF DB!Receive
    <2>2. DB!Dispatched(view, Head(down[here])) \in Views
      BY <2>1 DEF Events, Views, view, DB!Dispatched, DB!Told
    <2>3. QED
      BY <1>15, <2>1, <2>2 DEF DB!Receive, view
  <1>16. CASE DB!Hide(overlay)
    <2>1. [view EXCEPT !.hiding = FALSE, !.visible = FALSE] \in Views
      BY DEF Views, view
    <2>2. QED
      BY <1>16, <2>1 DEF DB!Hide, view
  <1>17. QED
    BY <1>1, <1>2, <1>3, <1>4, <1>5, <1>6, <1>7, <1>8, <1>9, <1>10, <1>11, <1>12, <1>13, <1>14, <1>15, <1>16
       DEF DB!Next, DB!Works, DB!HandlerStep, DB!WindowStep, Turners, Orders
LEMMA MadeSteps ==
  ASSUME LinesInv, MadeInv, DB!Next
  PROVE  MadeInv'
  <1> USE BridgeNames DEF MadeInv, DB!dialogue, DB!sent, DB!links, DB!engine
  <1>1. CASE DB!Broadcast
    <2>1. /\ clients' \subseteq clients /\ (reach' \subseteq clients \/ reach' = reach)
          /\ UNCHANGED <<conn, open, handler, setBy>>
      BY <1>1 DEF DB!Broadcast, DB!Sent
    <2>2. QED
      BY <2>1
  <1>2. CASE DB!Connect(overlay)
    <2> DEFINE n == conn[overlay] + 1
    <2>2. /\ n \in 1 .. MaxConns /\ conn' = [conn EXCEPT ![overlay] = n]
          /\ open' = open \cup {<<overlay, n>>} /\ clients' = clients \cup {<<overlay, n>>}
          /\ handler' = [handler EXCEPT ![<<overlay, n>>] = "reading"] /\ UNCHANGED <<reach, setBy>>
      BY <1>2 DEF DB!Connect
    <2>3. conn' \in [{overlay} -> 0 .. MaxConns] /\ conn'[overlay] = n
      BY <2>2
    <2>4. clients' \subseteq Conns /\ open' \subseteq Conns /\ reach' \subseteq Conns
      BY <2>2 DEF Conns
    <2>5. \A m \in 1 .. MaxConns : m > n => m > conn[overlay] /\ <<overlay, m>> # <<overlay, n>>
      BY <2>2
    <2>6. \A m \in 1 .. MaxConns : <<overlay, m>> # <<overlay, n>> => handler'[<<overlay, m>>] = handler[<<overlay, m>>]
      BY <2>2 DEF LinesInv, Conns
    <2>7. QED
      BY <2>2, <2>3, <2>4, <2>5, <2>6
  <1>3. CASE DB!Drop(overlay)
    BY <1>3 DEF DB!Drop
  <1>4. ASSUME NEW c \in Conns, DB!HandlerStep(c) PROVE MadeInv'
    <2>1. /\ clients' \subseteq clients /\ UNCHANGED <<conn, open, reach>>
          /\ handler[c] # "none" /\ \A d \in Conns \ {c} : handler'[d] = handler[d]
          /\ setBy' \in {setBy, c}
      BY <1>4 DEF LinesInv, DB!HandlerStep, DB!Leave, DB!Handle, DB!Routed, DB!Apply, DB!Answer, DB!Settings, DB!Bad
    <2>2. \A m \in 1 .. MaxConns : m > conn[overlay] => <<overlay, m>> # c /\ <<overlay, m>> \in Conns
      BY <2>1 DEF Conns
    <2>3. QED
      BY <2>1, <2>2
  <1>5. ASSUME NEW v \in DB!Settings, DB!VoiceSets(v) PROVE MadeInv'
    <2>1. UNCHANGED <<conn, clients, open, reach, handler>> /\ setBy' = DB!Voice
      BY <1>5 DEF DB!VoiceSets
    <2>2. \A m \in 1 .. MaxConns : <<overlay, m>> # DB!Voice
      BY DEF DB!Voice
    <2>3. QED
      BY <2>1, <2>2
  <1>6. CASE \/ \E t \in Turners, x \in DB!States : DB!Transition(t, x)
             \/ \E t \in Turners : DB!Notify(t)
             \/ DB!Expire \/ DB!WindowStep(overlay) \/ DB!Type(overlay)
             \/ \E v \in Orders : DB!Choose(overlay, v)
    <2>1. UNCHANGED <<conn, clients, open, reach, handler, setBy>>
      BY <1>6 DEF DB!Transition, DB!Notify, DB!Expire, DB!WindowStep, DB!Receive, DB!Hide, DB!Type, DB!Choose
    <2>2. QED
      BY <2>1
  <1>7. QED
    BY <1>1, <1>2, <1>3, <1>4, <1>5, <1>6 DEF DB!Next, DB!Works, Turners, Orders

\* What a window shows after an event: its own part changes, the overlay keeps its rule.
LEMMA Shows ==
  ASSUME NEW s \in Views, NEW e \in Events, NEW r, r = DB!Dispatched(s, e)
  PROVE  /\ r.state = IF e.kind = "state" THEN e.value ELSE s.state
         /\ r.setting = IF e.kind = "config" THEN e.value ELSE s.setting
         /\ (s.hiding => s.state = "idle") => (r.hiding => r.state = "idle")
         /\ (s.state # "idle" => s.visible) => (r.state # "idle" => r.visible)
  <1> USE DEF Views, DB!Dispatched, DB!Told
  <1>1. CASE e.kind = "state" /\ e.value = s.state
    BY <1>1
  <1>2. CASE e.kind = "state" /\ e.value # s.state
    <2>1. r = [s EXCEPT !.state = e.value, !.answer = @ /\ e.value # "idle", !.visible = @ \/ e.value # "idle",
                        !.hiding = e.value = "idle"]
      BY <1>2
    <2>2. r.state = e.value /\ r.setting = s.setting /\ r.hiding = (e.value = "idle")
          /\ r.visible = (s.visible \/ e.value # "idle")
      BY <2>1
    <2>3. QED
      BY <1>2, <2>2
  <1>3. CASE e.kind = "config"
    <2>1. r = [s EXCEPT !.setting = e.value]
      BY <1>3
    <2>2. QED
      BY <1>3, <2>1
  <1>4. CASE e.kind = "response"
    <2>1. r = [s EXCEPT !.answer = TRUE]
      BY <1>4
    <2>2. QED
      BY <1>4, <2>1
  <1>5. QED
    BY <1>1, <1>2, <1>3, <1>4 DEF Events

\* The overlay's window.
LEMMA HidingSteps ==
  ASSUME LinesInv, MadeInv, HidingInv, DB!Next
  PROVE  HidingInv'
  <1> USE BridgeNames, HereIs DEF HidingInv, view
  <1>1. CASE DB!Receive(overlay)
    <2>1. Head(down[here]) \in Events
      BY <1>1, HeadTailProperties DEF DB!Receive, LinesInv
    <2>2. view \in Views /\ shown' = [shown EXCEPT ![overlay] = DB!Dispatched(@, Head(down[here]))]
      BY <1>1 DEF DB!Receive, LinesInv
    <2>3. view' = DB!Dispatched(view, Head(down[here]))
      BY <2>2 DEF LinesInv
    <2>4. QED
      BY <2>1, <2>2, <2>3, Shows
  <1>2. CASE DB!Hide(overlay) \/ DB!Type(overlay) \/ \E v \in Orders : DB!Choose(overlay, v)
    BY <1>2 DEF DB!Hide, DB!Type, DB!Choose, LinesInv, Views
  <1>3. CASE UNCHANGED shown
    BY <1>3
  <1>4. QED
    BY <1>1, <1>2, <1>3
       DEF DB!Next, DB!Works, Turners, Orders, DB!HandlerStep, DB!WindowStep, DB!Transition, DB!Notify, DB!Expire,
           DB!Broadcast, DB!Sent, DB!Connect, DB!Drop, DB!Leave, DB!Handle, DB!Routed, DB!Apply, DB!Answer,
           DB!VoiceSets
\* What was told last.
LEMMA ToldSteps ==
  ASSUME LinesInv, MadeInv, ToldInv, DB!Next
  PROVE  ToldInv'
  <1> USE BridgeNames, HereIs DEF DB!dialogue, DB!sent, DB!links, DB!engine
  <1>1. ASSUME UNCHANGED <<tasks, told, reach, conn, open, down>>, view'.state = view.state PROVE ToldInv'
    BY <1>1 DEF ToldInv, here
  <1>2. CASE \/ \E t \in Turners, x \in DB!States : DB!Transition(t, x)
             \/ DB!Expire \/ DB!Hide(overlay) \/ DB!Type(overlay)
             \/ \E v \in DB!Settings : DB!VoiceSets(v)
             \/ \E v \in Orders : DB!Choose(overlay, v)
    <2>1. UNCHANGED <<tasks, told, reach, conn, open, down>>
      BY <1>2 DEF DB!Transition, DB!Expire, DB!Hide, DB!Type, DB!VoiceSets, DB!Choose
    <2>2. view'.state = view.state
      BY <1>2 DEF DB!Transition, DB!Expire, DB!Hide, DB!Type, DB!VoiceSets, DB!Choose, view, LinesInv, Views
    <2>3. QED
      BY <1>1, <2>1, <2>2
  <1>3. ASSUME NEW t \in Turners, DB!Notify(t) PROVE ToldInv'
    <2>1. PICK e : e = DB!Event("state", notice[t])
      OBVIOUS
    <2>2. e \in Events /\ e.kind = "state" /\ e.value = notice[t]
      BY <1>3, <2>1 DEF DB!Notify, DB!Event, Events, LinesInv
    <2>3. tasks' = Append(tasks, e) /\ told' = e.value /\ tasks \in Seq(Events)
      BY <1>3, <2>1, <2>2 DEF DB!Notify, LinesInv
    <2>4. LastOf(tasks', "state", told') /\ ~NoneOf(tasks', "state")
      BY <2>2, <2>3, EventAdded
    <2>5. QED
      BY <2>4 DEF ToldInv
  <1>4. CASE DB!Broadcast
    <2>1. PICK e : e = Head(tasks)
      OBVIOUS
    <2>2. /\ tasks # <<>> /\ tasks \in Seq(Events) /\ tasks' = Tail(tasks) /\ e \in Events
      BY <1>4, <2>1, HeadTailProperties DEF DB!Broadcast, LinesInv
    <2>3. /\ UNCHANGED <<told, conn, open, shown>>
          /\ reach' = IF e.kind = "state" THEN clients \cap open ELSE reach
          /\ \A c \in Conns : down'[c] = IF c \in clients \cap open THEN Append(down[c], e) ELSE down[c]
      BY <1>4, <2>1 DEF DB!Broadcast, DB!Sent
    <2>4. LastOf(tasks', "state", told')
      BY <2>2, <2>3, EventTaken DEF ToldInv
    <2>5. ASSUME NoneOf(tasks', "state"), here \in reach', here \in open
          PROVE  /\ LastOf(down'[here], "state", told)
                 /\ NoneOf(down'[here], "state") => view.state = told
      <3>1. here \in Conns /\ down[here] \in Seq(Events)
        BY <2>5 DEF LinesInv
      <3>2. CASE e.kind = "state"
        <4>1. e.value = told
          BY <2>1, <2>2, <2>5, <3>2, EventTaken DEF ToldInv
        <4>2. down'[here] = Append(down[here], e)
          BY <2>3, <2>5, <3>1, <3>2
        <4>3. QED
          BY <2>2, <3>1, <3>2, <4>1, <4>2, EventAdded
      <3>3. CASE e.kind # "state"
        <4>1. NoneOf(tasks, "state")
          BY <2>1, <2>2, <2>5, <3>3, EventTaken
        <4>2. LastOf(down[here], "state", told) /\ (NoneOf(down[here], "state") => view.state = told)
          BY <2>3, <2>5, <3>3, <4>1 DEF ToldInv
        <4>3. down'[here] \in {down[here], Append(down[here], e)}
          BY <2>3, <3>1
        <4>4. /\ LastOf(Append(down[here], e), "state", told)
              /\ NoneOf(Append(down[here], e), "state") => NoneOf(down[here], "state")
          BY <2>2, <3>1, <3>3, <4>2, EventAdded
        <4>5. QED
          BY <4>2, <4>3, <4>4
      <3>4. QED
        BY <3>2, <3>3
    <2>6. here' = here /\ view' = view
      BY <2>3 DEF here, view
    <2>7. QED
      BY <2>3, <2>4, <2>5, <2>6 DEF ToldInv
  <1>5. CASE DB!Connect(overlay)
    <2>1. UNCHANGED <<tasks, told, reach>> /\ conn[overlay] < MaxConns /\ conn' = [conn EXCEPT ![overlay] = @ + 1]
      BY <1>5 DEF DB!Connect
    <2>2. conn[overlay] + 1 \in 1 .. MaxConns /\ here' = <<overlay, conn[overlay] + 1>>
      BY <2>1 DEF MadeInv, here
    <2>3. here' \notin reach
      BY <2>2 DEF MadeInv
    <2>4. QED
      BY <2>1, <2>3 DEF ToldInv
  <1>6. CASE DB!Drop(overlay)
    <2>1. UNCHANGED <<tasks, told, conn>> /\ open' = open \ {here} /\ here' = here
      BY <1>6 DEF DB!Drop, here
    <2>2. QED
      BY <2>1 DEF ToldInv
  <1>7. ASSUME NEW c \in Conns, DB!Leave(c) \/ DB!Handle(c) \/ DB!Apply(c) PROVE ToldInv'
    BY <1>1, <1>7 DEF DB!Leave, DB!Handle, DB!Apply, view
  <1>8. ASSUME NEW c \in Conns, DB!Routed(c) PROVE ToldInv'
    <2>1. PICK e : e = DB!Event("response", "said")
      OBVIOUS
    <2>2. e \in Events /\ e.kind # "state"
      BY <2>1 DEF DB!Event, Events
    <2>3. tasks' = Append(tasks, e) /\ tasks \in Seq(Events) /\ UNCHANGED <<told, reach, conn, open, down, shown>>
      BY <1>8, <2>1 DEF DB!Routed, LinesInv
    <2>4. here' = here /\ view' = view
      BY <2>3 DEF here, view
    <2>5. /\ LastOf(tasks, "state", told) => LastOf(tasks', "state", told)
          /\ NoneOf(tasks', "state") => NoneOf(tasks, "state")
      BY <2>2, <2>3, EventAdded
    <2>6. QED
      BY <2>3, <2>4, <2>5 DEF ToldInv
  <1>9. ASSUME NEW c \in Conns, DB!Answer(c) PROVE ToldInv'
    <2>1. PICK e : e = DB!Event("config", setting)
      OBVIOUS
    <2>2. e \in Events /\ e.kind # "state"
      BY <2>1 DEF DB!Event, Events, LinesInv
    <2>3. /\ UNCHANGED <<tasks, told, reach, conn, open, shown>>
          /\ \A d \in Conns : down'[d] \in {down[d], Append(down[d], e)} /\ down[d] \in Seq(Events)
      BY <1>9, <2>1 DEF DB!Answer, LinesInv
    <2>4. here' = here /\ view' = view
      BY <2>3 DEF here, view
    <2>5. ASSUME here \in open
          PROVE  /\ LastOf(down[here], "state", told) => LastOf(down'[here], "state", told)
                 /\ NoneOf(down'[here], "state") => NoneOf(down[here], "state")
      <3>1. down'[here] \in {down[here], Append(down[here], e)} /\ down[here] \in Seq(Events)
        BY <2>3, <2>5
      <3>2. /\ LastOf(down[here], "state", told) => LastOf(Append(down[here], e), "state", told)
            /\ NoneOf(Append(down[here], e), "state") => NoneOf(down[here], "state")
        BY <2>2, <3>1, EventAdded
      <3>3. QED
        BY <3>1, <3>2
    <2>6. QED
      BY <2>3, <2>4, <2>5 DEF ToldInv
  <1>10. CASE DB!Receive(overlay)
    <2>1. PICK e : e = Head(down[here])
      OBVIOUS
    <2>2. /\ here \in open /\ here \in Conns /\ down[here] # <<>> /\ down[here] \in Seq(Events)
          /\ e \in Events
      BY <1>10, <2>1, HeadTailProperties DEF DB!Receive, LinesInv
    <2>3. /\ UNCHANGED <<tasks, told, reach, conn, open>> /\ here' = here
          /\ down'[here] = Tail(down[here])
      BY <1>10, <2>2 DEF DB!Receive, here, LinesInv
    <2>4. view \in Views /\ view' = DB!Dispatched(view, e)
      BY <1>10, <2>1 DEF DB!Receive, view, LinesInv
    <2>5. view'.state = IF e.kind = "state" THEN e.value ELSE view.state
      BY <2>2, <2>4, Shows
    <2>6. ASSUME LastOf(down[here], "state", told), NoneOf(down[here], "state") => view.state = told
          PROVE  LastOf(down'[here], "state", told) /\ (NoneOf(down'[here], "state") => view'.state = told)
      <3>1. LastOf(down'[here], "state", told)
        BY <2>2, <2>3, <2>6, EventTaken
      <3>2. CASE e.kind = "state"
        BY <2>1, <2>2, <2>3, <2>5, <2>6, <3>1, <3>2, EventTaken
      <3>3. CASE e.kind # "state"
        BY <2>1, <2>2, <2>3, <2>5, <2>6, <3>1, <3>3, EventTaken
      <3>4. QED
        BY <3>2, <3>3
    <2>7. QED
      BY <2>3, <2>6 DEF ToldInv
  <1>11. QED
    BY <1>2, <1>3, <1>4, <1>5, <1>6, <1>7, <1>8, <1>9, <1>10
       DEF DB!Next, DB!Works, DB!HandlerStep, DB!WindowStep, Turners, Orders

\* The choices of the window and what the engine has.
LEMMA ChoiceSteps ==
  ASSUME LinesInv, MadeInv, ChoiceInv, DB!Next
  PROVE  ChoiceInv'
  <1> USE BridgeNames, HereIs DEF DB!dialogue, DB!sent, DB!links, DB!engine
  <1>1. ASSUME UNCHANGED <<tasks, conn, open, up, handler, down, setting, setBy>>, view'.setting = view.setting
        PROVE  ChoiceInv'
    BY <1>1 DEF ChoiceInv, TruthfulInv, Asking, Answering, here
  <1>2. CASE \/ \E t \in Turners, x \in DB!States : DB!Transition(t, x)
             \/ DB!Expire \/ DB!Hide(overlay)
    <2>1. UNCHANGED <<tasks, conn, open, up, handler, down, setting, setBy>>
      BY <1>2 DEF DB!Transition, DB!Expire, DB!Hide
    <2>2. view'.setting = view.setting
      BY <1>2 DEF DB!Transition, DB!Expire, DB!Hide, view, LinesInv, Views
    <2>3. QED
      BY <1>1, <2>1, <2>2
  <1>3. ASSUME NEW t \in Turners, DB!Notify(t) PROVE ChoiceInv'
    <2>1. PICK e : e = DB!Event("state", notice[t])
      OBVIOUS
    <2>2. e \in Events /\ e.kind # "config"
      BY <1>3, <2>1 DEF DB!Notify, DB!Event, Events, LinesInv
    <2>3. /\ tasks' = Append(tasks, e) /\ tasks \in Seq(Events)
          /\ UNCHANGED <<conn, open, up, handler, down, setting, setBy, shown>>
      BY <1>3, <2>1, <2>2 DEF DB!Notify, LinesInv
    <2>4. NoneOf(tasks, "config") => NoneOf(tasks', "config")
      BY <2>2, <2>3, EventAdded
    <2>5. QED
      BY <2>3, <2>4 DEF ChoiceInv, TruthfulInv, Asking, Answering, here, view
  <1>4. CASE DB!Broadcast
    <2>1. PICK e : e = Head(tasks)
      OBVIOUS
    <2>2. tasks # <<>> /\ tasks \in Seq(Events) /\ tasks' = Tail(tasks) /\ e \in Events
      BY <1>4, <2>1, HeadTailProperties DEF DB!Broadcast, LinesInv
    <2>3. e.kind # "config" /\ NoneOf(tasks', "config")
      BY <2>1, <2>2, EventTaken DEF ChoiceInv
    <2>4. /\ UNCHANGED <<conn, open, up, handler, setting, setBy, shown>>
          /\ \A c \in Conns : down'[c] \in {down[c], Append(down[c], e)} /\ down[c] \in Seq(Events)
      BY <1>4, <2>1 DEF DB!Broadcast, DB!Sent, LinesInv
    <2>5. here' = here /\ view' = view /\ (Asking' <=> Asking) /\ (Answering' <=> Answering)
      BY <2>4 DEF here, view, Asking, Answering
    <2>6. ASSUME here \in open, TruthfulInv PROVE TruthfulInv'
      <3>1. down'[here] \in {down[here], Append(down[here], e)} /\ down[here] \in Seq(Events)
        BY <2>4, <2>6
      <3>2. /\ LastOf(down[here], "config", setting) => LastOf(Append(down[here], e), "config", setting)
            /\ NoneOf(Append(down[here], e), "config") => NoneOf(down[here], "config")
        BY <2>2, <2>3, <3>1, EventAdded
      <3>3. QED
        BY <2>4, <2>5, <2>6, <3>1, <3>2 DEF TruthfulInv
    <2>7. QED
      BY <2>3, <2>4, <2>5, <2>6 DEF ChoiceInv
  <1>5. CASE DB!Connect(overlay)
    <2>1. PICK e : e = DB!Event("config", setting)
      OBVIOUS
    <2>2. e \in Events /\ e.kind = "config"
      BY <2>1 DEF DB!Event, Events, LinesInv
    <2>3. /\ conn[overlay] < MaxConns /\ conn' = [conn EXCEPT ![overlay] = @ + 1]
          /\ down' = [down EXCEPT ![<<overlay, conn[overlay] + 1>>] = <<e>>] /\ UNCHANGED <<tasks, setBy>>
      BY <1>5, <2>1 DEF DB!Connect
    <2>4. conn[overlay] + 1 \in 1 .. MaxConns /\ here' = <<overlay, conn[overlay] + 1>>
      BY <2>3 DEF MadeInv, here
    <2>5. here' \in Conns /\ setBy # here'
      BY <2>4 DEF MadeInv, Conns
    <2>6. down'[here'] = <<e>>
      BY <2>3, <2>4, <2>5 DEF LinesInv
    <2>7. ~NoneOf(down'[here'], "config")
      BY <2>2, <2>6 DEF NoneOf
    <2>8. QED
      BY <2>3, <2>5, <2>7 DEF ChoiceInv, TruthfulInv
  <1>6. CASE DB!Drop(overlay)
    <2>1. UNCHANGED <<tasks, conn>> /\ open' = open \ {here} /\ here' = here
      BY <1>6 DEF DB!Drop, here
    <2>2. QED
      BY <2>1 DEF ChoiceInv
  <1>7. ASSUME NEW c \in Conns, DB!Leave(c) PROVE ChoiceInv'
    <2>1. /\ UNCHANGED <<tasks, conn, open, up, down, setting, setBy, shown>> /\ c \notin open
          /\ handler' = [handler EXCEPT ![c] = "none"]
      BY <1>7 DEF DB!Leave
    <2>2. here \in open => handler'[here] = handler[here]
      BY <2>1 DEF LinesInv
    <2>3. QED
      BY <2>1, <2>2 DEF ChoiceInv, TruthfulInv, Asking, Answering, here, view
  <1>8. ASSUME NEW c \in Conns, DB!Handle(c) PROVE ChoiceInv'
    <2>1. PICK h : h = Head(up[c])
      OBVIOUS
    <2>2. /\ up[c] # <<>> /\ up[c] \in Seq(Commands) /\ h \in Commands
      BY <1>8, <2>1, HeadTailProperties DEF DB!Handle, LinesInv
    <2>3. /\ UNCHANGED <<tasks, conn, open, down, setting, setBy, shown>> /\ handler[c] = "reading"
          /\ handler' = [handler EXCEPT ![c] = h] /\ up' = [up EXCEPT ![c] = Tail(@)]
      BY <1>8, <2>1 DEF DB!Handle
    <2>4. here' = here /\ view' = view
      BY <2>3 DEF here, view
    <2>5. CASE c = here
      <3>1. handler'[here] = h /\ up'[here] = Tail(up[here]) /\ h # "answering"
        BY <2>2, <2>3, <2>5 DEF LinesInv, Commands, Orders, DB!Settings, DB!Bad
      <3>2. OnlyTexts(up'[here]) /\ h = "routing" => OnlyTexts(up[here])
        BY <2>1, <2>2, <2>5, <3>1, CommandTaken
      <3>3. ~Answering /\ ~Answering'
        BY <2>3, <2>4, <2>5, <3>1 DEF Answering
      <3>4. Asking => Asking'
        BY <2>2, <2>3, <2>4, <2>5, <3>1, <3>2 DEF Asking, Commands, Orders, DB!Settings, DB!Bad
      <3>5. QED
        BY <2>3, <2>4, <3>3, <3>4 DEF ChoiceInv, TruthfulInv
    <2>6. CASE c # here
      <3>1. here \in open => handler'[here] = handler[here] /\ up'[here] = up[here]
        BY <2>3, <2>6 DEF LinesInv
      <3>2. QED
        BY <2>3, <2>4, <3>1 DEF ChoiceInv, TruthfulInv, Asking, Answering
    <2>7. QED
      BY <2>5, <2>6
  <1>9. ASSUME NEW c \in Conns, DB!Routed(c) PROVE ChoiceInv'
    <2>1. PICK e : e = DB!Event("response", "said")
      OBVIOUS
    <2>2. e \in Events /\ e.kind # "config"
      BY <2>1 DEF DB!Event, Events
    <2>3. /\ UNCHANGED <<conn, open, up, down, setting, setBy, shown>> /\ handler[c] = "routing"
          /\ handler' = [handler EXCEPT ![c] = DB!Back(c)] /\ tasks' = Append(tasks, e) /\ tasks \in Seq(Events)
      BY <1>9, <2>1 DEF DB!Routed, LinesInv
    <2>4. NoneOf(tasks, "config") => NoneOf(tasks', "config")
      BY <2>2, <2>3, EventAdded
    <2>5. here' = here /\ view' = view
      BY <2>3 DEF here, view
    <2>6. ASSUME here \in open PROVE (Asking' <=> Asking) /\ (Answering' <=> Answering)
      <3>1. handler'[here] = handler[here] \/ (handler[here] = "routing" /\ handler'[here] \in {"reading", "spinning"})
        BY <2>3, <2>6 DEF LinesInv, DB!Back
      <3>2. QED
        BY <2>3, <2>5, <3>1 DEF Asking, Answering, Orders, DB!Settings, DB!Bad
    <2>7. QED
      BY <2>3, <2>4, <2>5, <2>6 DEF ChoiceInv, TruthfulInv
  <1>10. ASSUME NEW c \in Conns, DB!Apply(c) PROVE ChoiceInv'
    <2>1. /\ UNCHANGED <<tasks, conn, open, up, down, shown>> /\ handler[c] \in Orders
          /\ handler' = [handler EXCEPT ![c] = "answering"]
          /\ (UNCHANGED <<setting, setBy>> \/ setBy' = c)
      BY <1>10 DEF DB!Apply, Orders
    <2>2. here' = here /\ view' = view
      BY <2>1 DEF here, view
    <2>3. CASE c = here
      <3>1. Answering'
        BY <2>1, <2>2, <2>3 DEF Answering, LinesInv
      <3>2. QED
        BY <2>1, <2>2, <3>1 DEF ChoiceInv, TruthfulInv
    <2>4. CASE c # here
      <3>1. here \in open => handler'[here] = handler[here]
        BY <2>1, <2>4 DEF LinesInv
      <3>2. here \in open => (Asking' <=> Asking) /\ (Answering' <=> Answering)
        BY <2>1, <2>2, <3>1 DEF Asking, Answering
      <3>3. QED
        BY <2>1, <2>2, <2>4, <3>2 DEF ChoiceInv, TruthfulInv
    <2>5. QED
      BY <2>3, <2>4
  <1>11. ASSUME NEW c \in Conns, DB!Answer(c) PROVE ChoiceInv'
    <2>1. PICK e : e = DB!Event("config", setting)
      OBVIOUS
    <2>2. e \in Events /\ e.kind = "config" /\ e.value = setting
      BY <2>1 DEF DB!Event, Events, LinesInv
    <2>3. /\ UNCHANGED <<tasks, conn, open, up, setting, setBy, shown>> /\ handler[c] = "answering"
          /\ handler' = [handler EXCEPT ![c] = DB!Back(c)]
          /\ down' = [down EXCEPT ![c] = IF c \in open THEN Append(@, e) ELSE @]
      BY <1>11, <2>1 DEF DB!Answer
    <2>4. here' = here /\ view' = view
      BY <2>3 DEF here, view
    <2>5. CASE c = here /\ here \in open
      <3>1. down'[here] = Append(down[here], e) /\ down[here] \in Seq(Events)
        BY <2>3, <2>5 DEF LinesInv
      <3>2. LastOf(down'[here], "config", setting) /\ ~NoneOf(down'[here], "config")
        BY <2>2, <3>1, EventAdded
      <3>3. QED
        BY <2>3, <2>4, <3>2 DEF ChoiceInv, TruthfulInv
    <2>6. CASE c # here
      <3>1. here \in open => handler'[here] = handler[here] /\ down'[here] = down[here]
        BY <2>3, <2>6 DEF LinesInv
      <3>2. here \in open => (Asking' <=> Asking) /\ (Answering' <=> Answering)
        BY <2>3, <2>4, <3>1 DEF Asking, Answering
      <3>3. QED
        BY <2>3, <2>4, <3>1, <3>2 DEF ChoiceInv, TruthfulInv
    <2>7. CASE here \notin open
      BY <2>3, <2>4, <2>7 DEF ChoiceInv
    <2>8. QED
      BY <2>5, <2>6, <2>7
  <1>12. ASSUME NEW v \in DB!Settings, DB!VoiceSets(v) PROVE ChoiceInv'
    <2>1. UNCHANGED <<tasks, conn, open, up, handler, down, shown>> /\ setBy' = DB!Voice
      BY <1>12 DEF DB!VoiceSets
    <2>2. here \in Conns => here # DB!Voice
      BY DEF Conns, DB!Voice
    <2>3. here' = here /\ view' = view /\ (Asking' <=> Asking) /\ (Answering' <=> Answering)
      BY <2>1 DEF here, view, Asking, Answering
    <2>4. QED
      BY <2>1, <2>2, <2>3 DEF ChoiceInv, TruthfulInv
  <1>13. ASSUME NEW v \in Orders, DB!Choose(overlay, v) PROVE ChoiceInv'
    <2>1. /\ UNCHANGED <<tasks, conn, open, handler, down, setting, setBy>>
          /\ here \in open => up' = [up EXCEPT ![here] = Append(@, v)]
      BY <1>13 DEF DB!Choose
    <2>2. here' = here
      BY <2>1 DEF here
    <2>3. ASSUME here \in open PROVE Asking' /\ (Answering' <=> Answering)
      <3>1. up'[here] = Append(up[here], v) /\ up[here] \in Seq(Commands) /\ v \in Commands /\ v # "routing"
        BY <2>1, <2>3 DEF LinesInv, Commands, Orders, DB!Settings, DB!Bad
      <3>2. ~OnlyTexts(up'[here])
        BY <3>1, CommandAdded
      <3>3. QED
        BY <2>1, <2>2, <3>2 DEF Asking, Answering
    <2>4. QED
      BY <2>1, <2>2, <2>3 DEF ChoiceInv, TruthfulInv
  <1>14. CASE DB!Type(overlay)
    <2>1. /\ UNCHANGED <<tasks, conn, open, handler, down, setting, setBy>> /\ here \in open
          /\ up' = [up EXCEPT ![here] = Append(@, "routing")]
          /\ shown' = [shown EXCEPT ![overlay].answer = FALSE]
      BY <1>14 DEF DB!Type
    <2>2. here' = here /\ view'.setting = view.setting
      BY <2>1 DEF here, view, LinesInv, Views
    <2>3. up'[here] = Append(up[here], "routing") /\ up[here] \in Seq(Commands) /\ "routing" \in Commands
      BY <2>1 DEF LinesInv, Commands
    <2>4. OnlyTexts(up'[here]) <=> OnlyTexts(up[here])
      BY <2>3, CommandAdded
    <2>5. (Asking' <=> Asking) /\ (Answering' <=> Answering)
      BY <2>1, <2>2, <2>4 DEF Asking, Answering
    <2>6. QED
      BY <2>1, <2>2, <2>5 DEF ChoiceInv, TruthfulInv
  <1>15. CASE DB!Receive(overlay)
    <2>1. PICK e : e = Head(down[here])
      OBVIOUS
    <2>2. /\ here \in open /\ here \in Conns /\ down[here] # <<>> /\ down[here] \in Seq(Events)
          /\ e \in Events
      BY <1>15, <2>1, HeadTailProperties DEF DB!Receive, LinesInv
    <2>3. /\ UNCHANGED <<tasks, conn, open, up, handler, setting, setBy>> /\ here' = here
          /\ down'[here] = Tail(down[here])
      BY <1>15, <2>2 DEF DB!Receive, here, LinesInv
    <2>4. view \in Views /\ view' = DB!Dispatched(view, e)
      BY <1>15, <2>1 DEF DB!Receive, view, LinesInv
    <2>5. view'.setting = IF e.kind = "config" THEN e.value ELSE view.setting
      BY <2>2, <2>4, Shows
    <2>6. (Asking' <=> Asking) /\ (Answering' <=> Answering)
      BY <2>3 DEF Asking, Answering
    <2>7. /\ e.kind # "config" /\ NoneOf(down'[here], "config") => NoneOf(down[here], "config")
          /\ LastOf(down[here], "config", setting) => LastOf(down'[here], "config", setting)
          /\ e.kind = "config" /\ NoneOf(down'[here], "config") /\ LastOf(down[here], "config", setting)
             => e.value = setting
      BY <2>1, <2>2, <2>3, EventTaken
    <2>8. e.kind = "config" => e.value # DB!Bad
      BY <2>2 DEF Events, DB!Settings, DB!Bad
    <2>9. TruthfulInv
      BY <2>2 DEF ChoiceInv
    <2>10. TruthfulInv'
      BY <2>3, <2>5, <2>6, <2>7, <2>8, <2>9 DEF TruthfulInv
    <2>11. QED
      BY <2>3, <2>10 DEF ChoiceInv
  <1>16. QED
    BY <1>2, <1>3, <1>4, <1>5, <1>6, <1>7, <1>8, <1>9, <1>10, <1>11, <1>12, <1>13, <1>14, <1>15
       DEF DB!Next, DB!Works, DB!HandlerStep, DB!WindowStep, Turners, Orders

\* Who keeps the loop.
LEMMA KeeperSteps ==
  ASSUME LinesInv, MadeInv, KeeperInv, DB!Next
  PROVE  KeeperInv'
  <1> USE BridgeNames DEF MadeInv, KeeperInv, DB!dialogue, DB!sent, DB!links, DB!engine
  <1>1. CASE DB!Broadcast
    <2>1. /\ clients' = clients \cap open /\ lost' = lost \cup (clients \ open)
          /\ UNCHANGED <<conn, open, handler>>
      BY <1>1 DEF DB!Broadcast, DB!Sent
    <2>2. QED
      BY <2>1
  <1>2. CASE DB!Connect(overlay)
    <2> DEFINE n == conn[overlay] + 1
    <2>1. /\ n \in 1 .. MaxConns /\ conn' = [conn EXCEPT ![overlay] = n]
          /\ open' = open \cup {<<overlay, n>>} /\ clients' = clients \cup {<<overlay, n>>}
          /\ handler' = [handler EXCEPT ![<<overlay, n>>] = "reading"] /\ lost' = lost
      BY <1>2 DEF DB!Connect
    <2>2. <<overlay, n>> \notin lost /\ conn'[overlay] = n
      BY <2>1
    <2>3. \A m \in 1 .. MaxConns : m > n => m > conn[overlay]
      BY <2>1
    <2>4. \A c \in Conns : handler'[c] = "spinning" => handler[c] = "spinning"
      BY <2>1 DEF LinesInv
    <2>5. QED
      BY <2>1, <2>2, <2>3, <2>4
  <1>3. CASE DB!Drop(overlay)
    BY <1>3 DEF DB!Drop
  <1>4. ASSUME NEW c \in Conns, DB!HandlerStep(c) PROVE KeeperInv'
    <2>1. /\ clients' \subseteq clients /\ UNCHANGED <<conn, open, lost>>
          /\ \A d \in Conns \ {c} : handler'[d] = handler[d]
      BY <1>4 DEF LinesInv, DB!HandlerStep, DB!Leave, DB!Handle, DB!Routed, DB!Apply, DB!Answer
    <2>2. handler'[c] = "spinning" => c \in lost
      <3>1. CASE DB!Handle(c)
        <4>1. Head(up[c]) \in Commands /\ handler'[c] = Head(up[c])
          BY <3>1, HeadTailProperties DEF DB!Handle, LinesInv
        <4>2. QED
          BY <4>1 DEF Commands, Orders, DB!Settings, DB!Bad
      <3>2. CASE ~DB!Handle(c)
        BY <1>4, <3>2 DEF LinesInv, DB!HandlerStep, DB!Leave, DB!Routed, DB!Apply, DB!Answer, DB!Back
      <3>3. QED
        BY <3>1, <3>2
    <2>3. QED
      BY <2>1, <2>2
  <1>5. CASE \/ \E t \in Turners, x \in DB!States : DB!Transition(t, x)
             \/ \E t \in Turners : DB!Notify(t)
             \/ DB!Expire \/ DB!WindowStep(overlay) \/ DB!Type(overlay)
             \/ \E v \in Orders : DB!Choose(overlay, v)
             \/ \E v \in DB!Settings : DB!VoiceSets(v)
    <2>1. UNCHANGED <<conn, clients, open, handler, lost>>
      BY <1>5 DEF DB!Transition, DB!Notify, DB!Expire, DB!WindowStep, DB!Receive, DB!Hide, DB!Type, DB!Choose,
                  DB!VoiceSets
    <2>2. QED
      BY <2>1
  <1>6. QED
    BY <1>1, <1>2, <1>3, <1>4, <1>5 DEF DB!Next, DB!Works, Turners, Orders

\* Every step of the bridge and its window keeps their invariant.
LEMMA WindowSteps ==
  ASSUME WindowInv, [DB!Next]_(DB!dbVars)
  PROVE  WindowInv'
  <1>1. CASE DB!Next
    BY <1>1, LinesSteps, MadeSteps, HidingSteps, ToldSteps, ChoiceSteps, KeeperSteps DEF WindowInv
  <1>2. CASE UNCHANGED DB!dbVars
    <2>1. here' = here /\ view' = view /\ (Asking' <=> Asking) /\ (Answering' <=> Answering)
      BY <1>2 DEF DB!dbVars, here, view, Asking, Answering
    <2>2. LinesInv' /\ MadeInv'
      BY <1>2 DEF DB!dbVars, WindowInv, LinesInv, MadeInv
    <2>3. HidingInv' /\ ToldInv'
      BY <1>2, <2>1 DEF DB!dbVars, WindowInv, HidingInv, ToldInv
    <2>4. ChoiceInv'
      BY <1>2, <2>1 DEF DB!dbVars, WindowInv, ChoiceInv, TruthfulInv
    <2>5. KeeperInv'
      BY <1>2 DEF DB!dbVars, WindowInv, KeeperInv
    <2>6. QED
      BY <2>2, <2>3, <2>4, <2>5 DEF WindowInv
  <1>3. QED
    BY <1>1, <1>2

\* What the invariant promises of the windows.
LEMMA WindowPromise ==
  WindowInv => /\ DB!TypeOK /\ DB!ToldIsShown /\ DB!VisibleWhileActive /\ DB!ChoiceIsEngines
               /\ DB!KeeperIsGone
  <1> SUFFICES ASSUME WindowInv
               PROVE  /\ DB!TypeOK /\ DB!ToldIsShown /\ DB!VisibleWhileActive /\ DB!ChoiceIsEngines
                      /\ DB!KeeperIsGone
    OBVIOUS
  <1> USE BridgeNames DEF WindowInv
  <1>1. OnlyTexts(<<>>) /\ \A k : NoneOf(<<>>, k)
    BY DEF OnlyTexts, NoneOf
  <1>2. DB!TypeOK
    BY DEF DB!TypeOK, LinesInv, MadeInv, KeeperInv, Works, Commands, Orders, Views, Turners
  <1>3. DB!ToldIsShown
    BY <1>1 DEF DB!ToldIsShown, DB!Still, ToldInv, view
  <1>4. DB!VisibleWhileActive
    BY DEF DB!VisibleWhileActive, HidingInv, view
  <1>5. DB!ChoiceIsEngines
    <2> SUFFICES ASSUME here \in open, handler[here] = "reading", up[here] = <<>>, down[here] = <<>>
                 PROVE  view.setting # DB!Bad /\ (setBy = here => view.setting = setting)
      BY DEF DB!ChoiceIsEngines, view
    <2>1. ~Asking /\ ~Answering
      BY <1>1 DEF Asking, Answering, Orders, DB!Settings, DB!Bad
    <2>2. QED
      BY <1>1, <2>1 DEF ChoiceInv, TruthfulInv
  <1>6. DB!KeeperIsGone
    BY DEF DB!KeeperIsGone, KeeperInv
  <1>7. QED
    BY <1>2, <1>3, <1>4, <1>5, <1>6

-----------------------------------------------------------------------------
(* The process: one part of it goes on at a time, the others stay.          *)

\* Whatever goes on, the start takes a step of its own or none.
LEMMA StartStepOrNone ==
  ASSUME [Next]_vars
  PROVE  [SU!Next]_(SU!suVars)
  BY DEF Next, vars, suVars, SU!suVars, OfStartup, OfBridge, OfShutdown

\* So do the windows.
LEMMA WindowStepOrNone ==
  ASSUME [Next]_vars
  PROVE  [DB!Next]_(DB!dbVars)
  BY DEF Next, vars, dbVars, DB!dbVars, OfStartup, OfBridge, OfShutdown

\* So does the end.
LEMMA EndStepOrNone ==
  ASSUME [Next]_vars
  PROVE  [SH!Next]_(SH!shVars)
  BY DEF Next, vars, shVars, SH!shVars, OfStartup, OfBridge, OfShutdown

\* No two threads load one model, the handle of the own model server is held as long as it is
\* needed, every step of the cleanup is taken once and in order, and no entry of the action log
\* is lost without a reason: for every interleaving of the start's tasks with turns, and of the
\* signal's thread with the main one.
THEOREM StartsAndStops == Spec => []StartsAndStopsOnce
  <1>1. Init => StartInv /\ EndInv
    BY StartBegins, EndBegins DEF Init
  <1>2. StartInv /\ EndInv /\ [Next]_vars => (StartInv /\ EndInv)'
    BY StartStepOrNone, EndStepOrNone, StartSteps, EndSteps
  <1>3. StartInv /\ EndInv => StartsAndStopsOnce
    BY StartPromise, EndPromise DEF StartsAndStopsOnce
  <1>4. QED
    BY <1>1, <1>2, <1>3, PTL DEF Spec

\* A window that was told shows the state told last when nothing is under way, the overlay is
\* visible while its window knows of a state that is not idle, a window that chose a setting
\* last shows the engine's, and a handler that keeps the loop has no window any more: for every number of connections and changes.
THEOREM WindowsFollowed == Spec => []WindowsFollow
  <1>1. Init => WindowInv
    BY WindowBegins DEF Init
  <1>2. WindowInv /\ [Next]_vars => WindowInv'
    BY WindowStepOrNone, WindowSteps
  <1>3. WindowInv => WindowsFollow
    BY WindowPromise DEF WindowsFollow
  <1>4. QED
    BY <1>1, <1>2, <1>3, PTL DEF Spec
=============================================================================
