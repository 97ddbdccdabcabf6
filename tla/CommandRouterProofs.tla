------------------------ MODULE CommandRouterProofs ------------------------
(***************************************************************************)
(* From what is said to what is done.                                      *)
(*                                                                         *)
(* The first part is about the composition MCCommands, for any number of   *)
(* courtesies before a command, any words that a catalog shows, any        *)
(* programs, pieces, limits, levels and bounds: one invariant for each     *)
(* module, whose parts are played one at a time.  The parser's says that   *)
(* every nested call reads a rest of the same words, and that the outer    *)
(* ones understand no more than the last one; the tiers', that a question  *)
(* stays one and that what is executed is complete; the readers', that     *)
(* what is left to read leads to the number that was said.                 *)
(*                                                                         *)
(* The second is about CommandRouter, for any apps and files, any number   *)
(* of rounds, chains of any length and any sessions: the questions that    *)
(* the user was asked are the questions that are stored, useless replies   *)
(* come to an end, a question leads to one command, and a follow-up acts   *)
(* on what was fresh.  Almost all of it is promised for the voice alone:   *)
(* AloneInv says where a question, a task and a reference can be at each   *)
(* point of its turn.                                                      *)
(***************************************************************************)
EXTENDS CommandRouter, MCCommands, Integers, SequenceTheorems, FiniteSetTheorems,
        WellFoundedInduction, TLAPS

-----------------------------------------------------------------------------
(* Numbers.                                                                *)

\* Numbers are well founded, so a set of them has a least one.
Before == {p \in Nat \X Nat : p[1] < p[2]}

\* A set of numbers has a least one.
LEMMA LeastNumber ==
  ASSUME NEW T \in SUBSET Nat, T # {}
  PROVE  \E x \in T : \A y \in T : x <= y
  <1>1. IsWellFoundedOn(Before, Nat)
    BY NatLessThanWellFounded DEF OpToRel, Before
  <1>2. PICK x \in T : \A y \in T : ~(<<y, x>> \in Before)
    BY <1>1, WFMin
  <1>3. ASSUME NEW y \in T PROVE x <= y
    <2>1. <<y, x>> \in Nat \X Nat
      OBVIOUS
    <2>2. QED
      BY <1>2, <2>1 DEF Before
  <1>4. QED
    BY <1>3

\* A bounded one has a greatest, too.
LEMMA GreatestNumber ==
  ASSUME NEW N \in Nat, NEW T \in SUBSET (0 .. N), T # {}
  PROVE  \E x \in T : \A y \in T : y <= x
  <1>5. \A y \in T : y \in Nat /\ y <= N /\ N - y \in Nat
    <2>1. \A y \in 0 .. N : y \in Nat /\ y <= N /\ N - y \in Nat
      OBVIOUS
    <2>2. QED
      BY <2>1
  <1>1. {N - y : y \in T} \in SUBSET Nat /\ {N - y : y \in T} # {}
    BY <1>5
  <1>2. PICK z \in {N - y : y \in T} : \A w \in {N - y : y \in T} : z <= w
    BY <1>1, LeastNumber
  <1>3. PICK x \in T : z = N - x
    OBVIOUS
  <1>4. \A y \in T : N - x <= N - y
    BY <1>2, <1>3
  <1>6. QED
    BY <1>4, <1>5

\* The k-th number of a set has k numbers of the set up to it.
LEMMA KthNumber ==
  ASSUME NEW N \in Nat, NEW S \in SUBSET (1 .. N), NEW k \in 1 .. Cardinality(S)
  PROVE  \E i \in S : Cardinality({j \in S : j <= i}) = k
  <1> DEFINE Up(m) == {j \in S : j <= m}
             Reached == {m \in Nat : Cardinality(Up(m)) >= k}
  <1>0. \A j \in S : j \in Nat /\ 1 <= j /\ j <= N
    <2>1. \A j \in 1 .. N : j \in Nat /\ 1 <= j /\ j <= N
      OBVIOUS
    <2>2. QED
      BY <2>1
  <1>11. k \in Nat /\ 1 <= k /\ k <= Cardinality(S)
    <2>1. IsFiniteSet(1 .. N) /\ S \subseteq 1 .. N
      BY FS_Interval
    <2>2. Cardinality(S) \in Nat
      BY <2>1, FS_Subset, FS_CardinalityType
    <2>3. QED
      BY <2>2
  <1>1. \A m \in Nat : IsFiniteSet(Up(m)) /\ Cardinality(Up(m)) \in Nat
    <2>1. IsFiniteSet(1 .. N)
      BY FS_Interval
    <2>2. \A m \in Nat : Up(m) \subseteq 1 .. N
      OBVIOUS
    <2>3. QED
      BY <2>1, <2>2, FS_Subset, FS_CardinalityType
  <1>2. N \in Reached
    <2>1. Up(N) = S
      BY <1>0
    <2>2. QED
      BY <1>1, <1>11, <2>1
  <1>3. PICK m \in Reached : \A n \in Reached : m <= n
    <2>1. Reached \in SUBSET Nat /\ Reached # {}
      BY <1>2
    <2>2. QED
      BY <2>1, LeastNumber
  <1>4. m # 0
    <2>0. \A j \in S : ~(j <= 0)
      BY <1>0
    <2>1. Up(0) = {}
      BY <2>0
    <2>2. Cardinality(Up(0)) = 0
      BY <2>1, FS_EmptySet
    <2>3. QED
      BY <1>3, <1>11, <2>2
  <1>5. Cardinality(Up(m - 1)) < k
    <2>1. m \in Nat /\ m - 1 \in Nat
      BY <1>4
    <2>6. ~(m <= m - 1)
      BY <2>1
    <2>2. m - 1 \notin Reached
      BY <1>3, <2>6
    <2>3. ~(Cardinality(Up(m - 1)) >= k)
      BY <2>1, <2>2
    <2>4. Cardinality(Up(m - 1)) \in Nat
      BY <1>1, <2>1
    <2>5. QED
      BY <1>11, <2>3, <2>4
  <1>6. m \in S
    <2>1. ASSUME m \notin S PROVE Up(m) = Up(m - 1)
      <3>1. m \in Nat /\ \A j \in S : j <= m <=> j <= m - 1
        BY <1>0, <2>1
      <3>2. QED
        BY <3>1
    <2>2. QED
      BY <1>1, <1>3, <1>5, <1>11, <2>1
  <1>7. Up(m) = Up(m - 1) \cup {m} /\ m \notin Up(m - 1)
    <2>1. m \in Nat /\ \A j \in S : j <= m <=> (j <= m - 1 \/ j = m)
      BY <1>0
    <2>2. ~(m <= m - 1)
      BY <2>1
    <2>3. QED
      BY <1>6, <2>1, <2>2
  <1>8. Cardinality(Up(m)) = Cardinality(Up(m - 1)) + 1
    <2>1. m - 1 \in Nat
      BY <1>4
    <2>2. QED
      BY <1>1, <1>7, <2>1, FS_AddElement
  <1>9. Cardinality(Up(m)) = k
    <2>1. m - 1 \in Nat
      BY <1>4
    <2>2. Cardinality(Up(m)) >= k
      BY <1>3
    <2>3. QED
      <3>1. PICK c : c = Cardinality(Up(m - 1))
        OBVIOUS
      <3>2. c \in Nat
        BY <1>1, <2>1, <3>1
      <3>3. c < k /\ c + 1 >= k
        BY <1>5, <1>8, <2>2, <3>1
      <3>4. c + 1 = k
        BY <1>11, <3>2, <3>3
      <3>5. QED
        BY <1>8, <3>1, <3>4
  <1>10. QED
    BY <1>6, <1>9

-----------------------------------------------------------------------------
(* Radios.                                                                 *)

\* The snapshot holds what both radios were after a single "on", and the jobs of the "off" ask for
\* that; what one job has read is so as long as no hand and no other job wants the opposite.
RadioSteps  == {"queued", "winrt", "winrt_read", "powershell", "powershell_read", "done"}
RadioJobs   == [radio : {Wifi, Bluetooth}, on : BOOLEAN, step : RadioSteps, by : {"nobody", "read", "unread", "adapter"}]
WhatIsRead  == ~touched /\ Radio!Agree => \A j \in jobs : j.by = "read" => radios[j.radio] = j.on
AsksBefore  == \A r \in {Wifi, Bluetooth} : \E j \in jobs : j.radio = r /\ j.on = before[r]
RadiosInv ==
  /\ Radio!TypeOK
  /\ jobs \subseteq RadioJobs /\ asked \in [on : Nat, off : Nat]
  /\ \A j \in jobs : j.by = "unread" => ~verifying
  /\ WhatIsRead
  /\ order = "none" => jobs = {}
  /\ ~available => saved = {}
  /\ asked.on = 1 /\ asked.off = 0 /\ saved # {} => \A k \in {Wifi, Bluetooth} : <<k, before[k]>> \in saved
  /\ order = "restore" /\ asked.on = 1 /\ asked.off = 1 => AsksBefore

\* Nothing was asked of the radios.
LEMMA RadiosBegin == Radio!Init => RadiosInv
  <1> SUFFICES ASSUME Radio!Init PROVE RadiosInv
    OBVIOUS
  <1>1. jobs = {} /\ saved = {} /\ order = "none" /\ touched = FALSE /\ before = radios
    BY DEF Radio!Init
  <1>2. asked \in [on : Nat, off : Nat] /\ asked.on = 0
    BY DEF Radio!Init, Radio!NothingAsked
  <1>3. available \in BOOLEAN /\ restore \in BOOLEAN /\ verifying \in BOOLEAN /\ radios \in [Radio!Kinds -> BOOLEAN]
    BY DEF Radio!Init
  <1>4. Radio!TypeOK
    BY <1>1, <1>3 DEF Radio!TypeOK
  <1>5. QED
    BY <1>1, <1>2, <1>4 DEF RadiosInv, WhatIsRead

\* A new order has new jobs.
LEMMA NewJobs ==
  ASSUME NEW r \in {Wifi, Bluetooth}, NEW b \in BOOLEAN
  PROVE  /\ Radio!Job(r, b) \in RadioJobs /\ Radio!Job(r, b).by = "nobody"
         /\ Radio!Job(r, b).radio = r /\ Radio!Job(r, b).on = b
  BY DEF Radio!Job, RadioJobs, RadioSteps

\* An order, the jobs and the report keep it.
LEMMA RadiosSteps == RadiosInv /\ [Radio!Next]_Radio!raVars => RadiosInv'
  <1> SUFFICES ASSUME RadiosInv, [Radio!Next]_Radio!raVars PROVE RadiosInv'
    OBVIOUS
  <1> USE CommandsAssumption
  <1>0. /\ Radio!TypeOK /\ jobs \subseteq RadioJobs /\ asked \in [on : Nat, off : Nat]
        /\ Radio!Kinds = {Wifi, Bluetooth, Modem}
    BY DEF RadiosInv, Radio!Kinds
  <1>g. ASSUME NEW given, Radio!Gives(given), given \in {"radio", "airplane_on", "airplane_off", "restore"},
               jobs' \subseteq RadioJobs, \A j \in jobs' : j.by = "nobody",
               saved' \subseteq Radio!Kinds \X BOOLEAN, ~available => saved' = {},
               before' \in [Radio!Kinds -> BOOLEAN], asked' \in [on : Nat, off : Nat],
               asked'.on = 1 /\ asked'.off = 0 /\ saved' # {} => \A k \in {Wifi, Bluetooth} : <<k, before'[k]>> \in saved',
               given = "restore" /\ asked'.on = 1 /\ asked'.off = 1 => AsksBefore'
        PROVE  RadiosInv'
    <2>1. order' = given /\ touched' = FALSE /\ UNCHANGED <<available, restore, verifying, radios>>
      BY <1>g DEF Radio!Gives
    <2>2. \A j \in jobs' : j.radio \in {Wifi, Bluetooth}
      BY <1>g DEF RadioJobs
    <2>3. Radio!TypeOK'
      BY <1>0, <1>g, <2>1, <2>2 DEF Radio!TypeOK
    <2>4. WhatIsRead' /\ (\A j \in jobs' : j.by = "unread" => ~verifying')
      BY <1>g DEF WhatIsRead
    <2>5. QED
      BY <1>g, <2>1, <2>3, <2>4 DEF RadiosInv
  <1>2. ASSUME NEW r \in {Wifi, Bluetooth}, NEW on_ \in BOOLEAN, Radio!SetRadio(r, on_) PROVE RadiosInv'
    <2>1. Radio!Gives("radio") /\ jobs' = {Radio!Job(r, on_)} /\ UNCHANGED <<saved, before, asked>>
      BY <1>2 DEF Radio!SetRadio
    <2>2. jobs' \subseteq RadioJobs /\ \A j \in jobs' : j.by = "nobody"
      BY <2>1, NewJobs
    <2>3. ~available => saved' = {}
      BY <2>1 DEF RadiosInv
    <2>4. asked'.on = 1 /\ asked'.off = 0 /\ saved' # {} => \A k \in {Wifi, Bluetooth} : <<k, before'[k]>> \in saved'
      BY <2>1 DEF RadiosInv
    <2>5. saved' \subseteq Radio!Kinds \X BOOLEAN /\ before' \in [Radio!Kinds -> BOOLEAN] /\ asked' \in [on : Nat, off : Nat]
      BY <1>0, <2>1 DEF Radio!TypeOK
    <2>6. QED
      BY <1>g, <2>1, <2>2, <2>3, <2>4, <2>5
  <1>3. CASE Radio!AirplaneOn
    <2>1. /\ Radio!Gives("airplane_on")
          /\ jobs' = {Radio!Job(Wifi, FALSE), Radio!Job(Bluetooth, FALSE)}
          /\ saved' \in {{<<k, radios[k]>> : k \in Radio!Kinds}, {}, saved}
          /\ available => saved' \in {{<<k, radios[k]>> : k \in Radio!Kinds}, {}}
          /\ ~available => saved' = saved
      BY <1>3 DEF Radio!AirplaneOn
    <2>2. jobs' \subseteq RadioJobs /\ \A j \in jobs' : j.by = "nobody"
      BY <2>1, NewJobs
    <2>3. ~available => saved' = {}
      BY <2>1 DEF RadiosInv
    <2>4. saved' \subseteq Radio!Kinds \X BOOLEAN
      BY <1>0, <2>1 DEF Radio!TypeOK
    <2>5. asked' \in [on : Nat, off : Nat] /\ asked'.off = 0 /\ before' \in [Radio!Kinds -> BOOLEAN]
      BY <1>0, <1>3 DEF Radio!AirplaneOn, Radio!TypeOK
    <2>6. asked'.on = 1 => before' = radios
      BY <1>0, <1>3 DEF Radio!AirplaneOn
    <2>7. asked'.on = 1 /\ saved' # {} => \A k \in {Wifi, Bluetooth} : <<k, before'[k]>> \in saved'
      BY <1>0, <2>1, <2>3, <2>6
    <2>8. QED
      BY <1>g, <2>1, <2>2, <2>3, <2>4, <2>5, <2>7
  <1>4. CASE Radio!AirplaneOff
    <2>1. asked' \in [on : Nat, off : Nat] /\ asked'.on = asked.on /\ asked'.off = asked.off + 1 /\ UNCHANGED before
      BY <1>0, <1>4 DEF Radio!AirplaneOff
    <2>a. asked'.off # 0 /\ (asked'.off = 1 => asked.off = 0)
      BY <1>0, <2>1
    <2>b. before' \in [Radio!Kinds -> BOOLEAN]
      BY <1>0, <2>1 DEF Radio!TypeOK
    <2>2. ASSUME restore, saved # {}, Radio!Gives("restore"),
                 jobs' = {Radio!Job(Radio!RadioOf(s[1]), s[2]) : s \in saved}, saved' = {}
          PROVE  RadiosInv'
      <3>1. \A s \in saved : Radio!RadioOf(s[1]) \in {Wifi, Bluetooth} /\ s[2] \in BOOLEAN
        BY <1>0 DEF Radio!RadioOf, Radio!TypeOK
      <3>2. jobs' \subseteq RadioJobs /\ \A j \in jobs' : j.by = "nobody"
        BY <2>2, <3>1, NewJobs
      <3>3. ASSUME asked'.on = 1, asked'.off = 1 PROVE AsksBefore'
        <4>1. asked.on = 1 /\ asked.off = 0
          BY <2>1, <2>a, <3>3
        <4>2. ASSUME NEW r \in {Wifi, Bluetooth} PROVE \E j \in jobs' : j.radio = r /\ j.on = before'[r]
          <5>1. <<r, before[r]>> \in saved
            BY <2>2, <4>1 DEF RadiosInv
          <5>2. Radio!RadioOf(r) = r /\ before[r] \in BOOLEAN
            BY <1>0 DEF Radio!RadioOf, Radio!TypeOK
          <5>3. Radio!Job(r, before[r]) \in jobs'
            BY <2>2, <5>1, <5>2
          <5>4. QED
            BY <2>1, <5>2, <5>3, NewJobs
        <4>3. QED
          BY <4>2 DEF AsksBefore
      <3>4. QED
        BY <1>g, <2>1, <2>a, <2>b, <2>2, <3>2, <3>3
    <2>3. ASSUME Radio!Gives("airplane_off"), jobs' = {Radio!Job(Wifi, TRUE), Radio!Job(Bluetooth, TRUE)}, UNCHANGED saved
          PROVE  RadiosInv'
      <3>1. jobs' \subseteq RadioJobs /\ \A j \in jobs' : j.by = "nobody"
        BY <2>3, NewJobs
      <3>2. (~available => saved' = {}) /\ saved' \subseteq Radio!Kinds \X BOOLEAN
        BY <1>0, <2>3 DEF RadiosInv, Radio!TypeOK
      <3>3. QED
        BY <1>g, <2>1, <2>a, <2>b, <2>3, <3>1, <3>2
    <2>4. QED
      BY <1>4, <2>2, <2>3 DEF Radio!AirplaneOff
  <1>5. CASE Radio!Report
    <2>1. /\ order' = "none" /\ jobs' = {} /\ saved' \in {saved, {}}
          /\ UNCHANGED <<available, restore, verifying, radios, orders, touched, before, asked>>
      BY <1>5 DEF Radio!Report
    <2>2. Radio!TypeOK'
      BY <1>0, <2>1 DEF Radio!TypeOK
    <2>3. QED
      BY <2>1, <2>2 DEF RadiosInv, WhatIsRead
  <1>6. CASE Radio!ByHand
    <2>1. /\ touched' = TRUE /\ radios' \in [Radio!Kinds -> BOOLEAN]
          /\ UNCHANGED <<available, restore, verifying, saved, order, jobs, before, asked>>
      BY <1>0, <1>6 DEF Radio!ByHand, Radio!TypeOK
    <2>2. Radio!TypeOK' /\ (AsksBefore' <=> AsksBefore)
      BY <1>0, <2>1 DEF Radio!TypeOK, AsksBefore
    <2>3. QED
      BY <2>1, <2>2 DEF RadiosInv, WhatIsRead
  <1>7. ASSUME NEW j \in jobs, NEW to_ \in RadioSteps, NEW by_ \in {"nobody", "read", "unread", "adapter"},
               Radio!Turns(j, to_, by_), radios' \in {radios, [radios EXCEPT ![j.radio] = j.on]},
               by_ = "read" => radios'[j.radio] = j.on, by_ = "unread" => ~verifying
        PROVE  RadiosInv'
    <2>1. PICK k : k = [j EXCEPT !.step = to_, !.by = by_]
      OBVIOUS
    <2>2. k \in RadioJobs /\ k.radio = j.radio /\ k.on = j.on /\ k.by = by_
      BY <1>0, <2>1 DEF RadioJobs
    <2>3. jobs' = (jobs \ {j}) \cup {k}
          /\ UNCHANGED <<available, restore, verifying, saved, order, orders, touched, before, asked>>
      BY <1>7, <2>1 DEF Radio!Turns
    <2>4. radios' \in [Radio!Kinds -> BOOLEAN]
      BY <1>0, <1>7 DEF Radio!TypeOK, RadioJobs
    <2>5. jobs' \subseteq RadioJobs /\ \A i \in jobs' : i.radio \in {Wifi, Bluetooth}
      BY <1>0, <2>2, <2>3 DEF RadioJobs
    <2>6. Radio!TypeOK'
      BY <1>0, <2>3, <2>4, <2>5 DEF Radio!TypeOK
    <2>7. \A i \in jobs' : i.by = "unread" => ~verifying'
      BY <1>7, <2>2, <2>3 DEF RadiosInv
    <2>8. WhatIsRead'
      <3> SUFFICES ASSUME ~touched', Radio!Agree', NEW i \in jobs', i.by = "read" PROVE radios'[i.radio] = i.on
        BY DEF WhatIsRead
      <3>1. CASE i = k
        BY <1>7, <2>2, <3>1
      <3>2. CASE i # k
        <4>1. i \in jobs \ {j}
          BY <2>3, <3>2
        <4>2. Radio!Agree
          <5>1. ASSUME NEW x \in jobs, NEW y \in jobs, x.radio = y.radio PROVE x.on = y.on
            <6>1. \A z \in jobs : \E w \in jobs' : w.radio = z.radio /\ w.on = z.on
              BY <2>2, <2>3
            <6>2. QED
              BY <5>1, <6>1 DEF Radio!Agree
          <5>2. QED
            BY <5>1 DEF Radio!Agree
        <4>3. radios[i.radio] = i.on
          BY <2>3, <4>1, <4>2 DEF RadiosInv, WhatIsRead
        <4>4. i.radio = j.radio => i.on = j.on
          BY <4>1, <4>2 DEF Radio!Agree
        <4>5. j.radio \in Radio!Kinds /\ i.radio \in Radio!Kinds /\ radios \in [Radio!Kinds -> BOOLEAN]
          BY <1>0, <4>1 DEF RadioJobs, Radio!TypeOK
        <4>6. QED
          BY <1>7, <4>3, <4>4, <4>5
      <3>3. QED
        BY <3>1, <3>2
    <2>9. AsksBefore => AsksBefore'
      BY <2>2, <2>3 DEF AsksBefore
    <2>10. order # "none"
      BY <1>7 DEF RadiosInv
    <2>11. QED
      BY <2>3, <2>5, <2>6, <2>7, <2>8, <2>9, <2>10 DEF RadiosInv
  <1>8. ASSUME NEW j \in jobs, Radio!Begin(j) \/ Radio!Switch(j) \/ Radio!ReadBack(j) PROVE RadiosInv'
    <2>1. j.radio \in Radio!Kinds /\ j.on \in BOOLEAN /\ radios \in [Radio!Kinds -> BOOLEAN]
      BY <1>0 DEF RadioJobs, Radio!TypeOK
    <2>2. CASE Radio!Begin(j)
      BY <1>7, <2>2 DEF Radio!Begin, RadioSteps
    <2>3. CASE Radio!Switch(j)
      BY <1>7, <2>3 DEF Radio!Switch, RadioSteps
    <2>4. CASE Radio!ReadBack(j)
      BY <1>7, <2>4 DEF Radio!ReadBack, RadioSteps
    <2>5. QED
      BY <1>8, <2>2, <2>3, <2>4
  <1>9. CASE UNCHANGED Radio!raVars
    <2>1. UNCHANGED <<available, restore, verifying, radios, saved, order, jobs, orders, touched, before, asked>>
      BY <1>9 DEF Radio!raVars
    <2>2. (Radio!TypeOK' <=> Radio!TypeOK) /\ (AsksBefore' <=> AsksBefore) /\ (Radio!Agree' <=> Radio!Agree)
      BY <2>1 DEF Radio!TypeOK, AsksBefore, Radio!Agree
    <2>3. QED
      BY <2>1, <2>2 DEF RadiosInv, WhatIsRead
  <1>10. QED
    BY <1>2, <1>3, <1>4, <1>5, <1>6, <1>8, <1>9 DEF Radio!Next

\* What one step of the radios may not do, without the box.
SaidDone == Radio!Report /\ Radio!Succeeded /\ verifying /\ ~touched /\ Radio!Agree
DoneIsSet == SaidDone => \A j \in jobs : Radio!ReadAs(j.radio, j.on)
BackBefore ==
  SaidDone /\ order = "restore" /\ asked = [on |-> 1, off |-> 1] => \A r \in {Wifi, Bluetooth} : Radio!ReadAs(r, before[r])

\* What is reported as done is as it was read, and the "off" has asked for what was before the "on".
LEMMA RadiosMean == RadiosInv /\ [Radio!Next]_Radio!raVars => [DoneIsSet]_Radio!raVars /\ [BackBefore]_Radio!raVars
  <1> SUFFICES ASSUME RadiosInv, Radio!Next PROVE DoneIsSet /\ BackBefore
    OBVIOUS
  <1>1. ASSUME SaidDone, NEW j \in jobs PROVE Radio!ReadAs(j.radio, j.on)
    <2>1. j.by \in {"nobody", "read", "unread", "adapter"}
      BY DEF RadiosInv, RadioJobs
    <2>2. j.by \in {"read", "adapter"}
      BY <1>1, <2>1 DEF SaidDone, Radio!Succeeded, RadiosInv
    <2>3. j.by = "read" => radios[j.radio] = j.on
      BY <1>1 DEF SaidDone, RadiosInv, WhatIsRead
    <2>4. QED
      BY <2>2, <2>3 DEF Radio!ReadAs
  <1>2. ASSUME SaidDone, order = "restore", asked = [on |-> 1, off |-> 1], NEW r \in {Wifi, Bluetooth} PROVE Radio!ReadAs(r, before[r])
    <2>1. PICK j \in jobs : j.radio = r /\ j.on = before[r]
      BY <1>2 DEF RadiosInv, AsksBefore
    <2>2. QED
      BY <1>1, <1>2, <2>1
  <1>3. QED
    BY <1>1, <1>2 DEF DoneIsSet, BackBefore

-----------------------------------------------------------------------------
(* Volume, mute and brightness.                                            *)

\* The top level is a number.
LEMMA TopIsNat == Top \in Nat /\ Top >= 1
  BY CommandsAssumption

\* The greater of two levels.
LEMMA LevelsMax == ASSUME NEW a \in Int, NEW b \in Int PROVE Levels!Max({a, b}) = IF a >= b THEN a ELSE b
  <1> DEFINE P(x) == \A y \in {a, b} : x >= y
             m == IF a >= b THEN a ELSE b
  <1>1. m \in {a, b} /\ P(m)
    OBVIOUS
  <1>2. ASSUME NEW x \in {a, b}, P(x) PROVE x = m
    BY <1>2
  <1>3. (CHOOSE x \in {a, b} : P(x)) = m
    <2> HIDE DEF P, m
    <2>1. PICK x : x = CHOOSE z \in {a, b} : P(z)
      OBVIOUS
    <2>2. x \in {a, b} /\ P(x)
      BY <1>1, <2>1
    <2>3. QED
      BY <1>2, <2>1, <2>2
  <1>4. QED
    BY <1>3 DEF Levels!Max

\* The smaller of two levels.
LEMMA LevelsMin == ASSUME NEW a \in Int, NEW b \in Int PROVE Levels!Min({a, b}) = IF a <= b THEN a ELSE b
  <1> DEFINE P(x) == \A y \in {a, b} : x <= y
             m == IF a <= b THEN a ELSE b
  <1>1. m \in {a, b} /\ P(m)
    OBVIOUS
  <1>2. ASSUME NEW x \in {a, b}, P(x) PROVE x = m
    BY <1>2
  <1>3. (CHOOSE x \in {a, b} : P(x)) = m
    <2> HIDE DEF P, m
    <2>1. PICK x : x = CHOOSE z \in {a, b} : P(z)
      OBVIOUS
    <2>2. x \in {a, b} /\ P(x)
      BY <1>1, <2>1
    <2>3. QED
      BY <1>2, <2>1, <2>2
  <1>4. QED
    BY <1>3 DEF Levels!Min

\* Clamped to the scale.
LEMMA LevelsClamp ==
  ASSUME NEW n \in Int
  PROVE  /\ Levels!Clamp(n) \in 0 .. Top
         /\ Levels!Clamp(n) = IF n < 0 THEN 0 ELSE IF n > Top THEN Top ELSE n
  <1>1. Levels!Min({Top, n}) = IF Top <= n THEN Top ELSE n
    BY TopIsNat, LevelsMin
  <1>2. PICK m \in Int : m = Levels!Min({Top, n})
    BY <1>1, TopIsNat
  <1>3. Levels!Max({0, m}) = IF 0 >= m THEN 0 ELSE m
    BY LevelsMax
  <1>4. Levels!Clamp(n) = IF 0 >= m THEN 0 ELSE m
    BY <1>2, <1>3 DEF Levels!Clamp
  <1>5. QED
    BY <1>1, <1>2, <1>4, TopIsNat

SetterPlaces == {"pycaw", "powershell", "check1", "check2"}

\* No backend of a command for more has gone below where it began, or aims below it.
UpOrDown ==
  /\ ~begun.touched /\ ~begun.cut /\ do.key = "volume_up" =>
       level >= begun.level /\ (place \in SetterPlaces => goal >= begun.level)
  /\ ~begun.touched /\ do.key = "volume_down" =>
       level <= begun.level /\ (place \in SetterPlaces => goal <= begun.level)
LevelsInv ==
  /\ Levels!TypeOK
  /\ do \in Levels!Commands \cup {Levels!NoCommand}
  /\ DOMAIN begun = {"level", "muted", "touched", "cut"} /\ begun.level \in 0 .. Top
  /\ place = "template" => runs < 2
  /\ place \notin {"template", "end"} => runs = 0
  /\ place = "idle" => do.key = "none"
  /\ UpOrDown

\* "up" goes up and "down" goes down, and both are about the volume.
LEMMA ShiftOf ==
  ASSUME NEW d \in Levels!Commands \cup {Levels!NoCommand}
  PROVE  /\ d.value \in 0 .. Top /\ Levels!Shift(d) \in {-1, 0, 1}
         /\ d.key = "volume_up" => Levels!Shift(d) = 1 /\ ~Levels!Bright(d)
         /\ d.key = "volume_down" => Levels!Shift(d) = -1 /\ ~Levels!Bright(d)
  BY TopIsNat DEF Levels!Shift, Levels!Bright, Levels!Commands, Levels!NoCommand

\* Nothing was asked of the levels.
LEMMA LevelsBegin == Levels!Init => LevelsInv
  <1> SUFFICES ASSUME Levels!Init PROVE LevelsInv
    OBVIOUS
  <1>1. level \in 0 .. Top /\ bright \in 0 .. Top /\ goal \in 0 .. Top /\ runs \in 0 .. 2 /\ runs = 0
    BY TopIsNat DEF Levels!Init
  <1>2. DOMAIN begun = {"level", "muted", "touched", "cut"} /\ begun.level \in 0 .. Top
    BY <1>1 DEF Levels!Init, Levels!State
  <1>3. do = Levels!NoCommand /\ do.key = "none" /\ report = "none" /\ by = "none" /\ place = "idle"
    BY DEF Levels!Init, Levels!NoCommand
  <1>4. QED
    BY <1>1, <1>2, <1>3 DEF LevelsInv, UpOrDown, Levels!TypeOK

\* The setters, the templates and the hands keep it.
LEMMA LevelsSteps == LevelsInv /\ [Levels!Next]_Levels!lvVars => LevelsInv'
  <1> SUFFICES ASSUME LevelsInv, [Levels!Next]_Levels!lvVars PROVE LevelsInv'
    OBVIOUS
  <1>0. /\ level \in 0 .. Top /\ bright \in 0 .. Top /\ goal \in 0 .. Top /\ runs \in 0 .. 2
        /\ do \in Levels!Commands \cup {Levels!NoCommand}
        /\ DOMAIN begun = {"level", "muted", "touched", "cut"} /\ begun.level \in 0 .. Top
    BY DEF LevelsInv, Levels!TypeOK
  <1>s. /\ Levels!Shift(do) \in {-1, 0, 1} /\ do.value \in 0 .. Top
        /\ do.key = "volume_up" => Levels!Shift(do) = 1 /\ ~Levels!Bright(do)
        /\ do.key = "volume_down" => Levels!Shift(do) = -1 /\ ~Levels!Bright(do)
    BY <1>0, ShiftOf
  <1>1. ASSUME NEW d \in Levels!Commands, Levels!Begin(d) PROVE LevelsInv'
    <2>1. /\ do' = d /\ goal' = d.value /\ begun' = Levels!State
          /\ UNCHANGED <<level, muted, bright, verify, runs, report, by>> /\ runs = 0
      BY <1>1 DEF Levels!Begin, LevelsInv
    <2>2. d.value \in 0 .. Top
      BY ShiftOf
    <2>3. place' \in {"read", "sbc", "mute1", "pycaw"}
      BY <1>1 DEF Levels!Begin, Levels!First
    <2>4. d.key \in {"volume_up", "volume_down"} => place' = "read"
      BY <1>1, ShiftOf DEF Levels!Begin
    <2>5. DOMAIN begun' = {"level", "muted", "touched", "cut"} /\ begun'.level = level
      BY <2>1 DEF Levels!State
    <2>6. UpOrDown'
      <3>1. level' <= begun'.level /\ level' >= begun'.level
        <4>1. level' = level /\ begun'.level = level /\ level \in Int
          <5>1. level \in Int
            BY <1>0, TopIsNat
          <5>2. QED
            BY <2>1, <2>5, <5>1
        <4>2. QED
          BY <4>1
      <3>2. do'.key = "volume_up" \/ do'.key = "volume_down" => place' \notin SetterPlaces
        BY <2>1, <2>4 DEF SetterPlaces
      <3>3. QED
        BY <3>1, <3>2 DEF UpOrDown
    <2>7. Levels!TypeOK'
      BY <1>0, <2>1, <2>2 DEF LevelsInv, Levels!TypeOK
    <2>8. QED
      BY <1>0, <2>1, <2>3, <2>5, <2>6, <2>7 DEF LevelsInv
  <1>2. ASSUME UNCHANGED <<do, begun, level, goal, runs>>, bright' \in 0 .. Top, report' \in {"none", "success", "failure", "exception"},
               by' \in {"none", "native", "template"}, place' \in {"template", "end"} \/ runs = 0,
               place' = "template" => runs < 2, place' = "idle" => place = "idle",
               place' \in SetterPlaces => place \in SetterPlaces
        PROVE  LevelsInv'
    BY <1>0, <1>2 DEF LevelsInv, UpOrDown, Levels!TypeOK
  <1>3. CASE Levels!Read
    <2>1. CASE UNCHANGED goal /\ Levels!Goes("template")
      BY <1>0, <1>2, <1>3, <2>1
         DEF Levels!Read, Levels!Goes, Levels!Machine, LevelsInv, Levels!TypeOK, SetterPlaces
    <2>2. ASSUME goal' = Levels!Clamp((IF Levels!Bright(do) THEN bright ELSE level) + Levels!Shift(do)), Levels!Goes(Levels!First(do))
          PROVE LevelsInv'
      <3>1. /\ goal' \in 0 .. Top
            /\ (do.key = "volume_up" => goal' >= level)
            /\ (do.key = "volume_down" => goal' <= level)
        <4>1. PICK n \in Int : n = (IF Levels!Bright(do) THEN bright ELSE level) + Levels!Shift(do)
          BY <1>0, <1>s
        <4>2. goal' \in 0 .. Top /\ goal' = IF n < 0 THEN 0 ELSE IF n > Top THEN Top ELSE n
          BY <2>2, <4>1, LevelsClamp
        <4>3. do.key = "volume_up" => n = level + 1
          BY <1>s, <4>1
        <4>4. do.key = "volume_down" => n = level - 1
          BY <1>s, <4>1
        <4>5. QED
          BY <1>0, <4>2, <4>3, <4>4, TopIsNat
      <3>2. place' \in {"sbc", "mute1", "pycaw"} /\ UNCHANGED <<report, by>>
        BY <2>2 DEF Levels!Goes, Levels!First
      <3>3. UNCHANGED <<level, muted, bright, do, begun, runs>> /\ runs = 0
        BY <1>3 DEF Levels!Read, Levels!Machine, LevelsInv
      <3>4. UpOrDown'
        <4>1. /\ (do.key = "volume_up" /\ level >= begun.level => goal' >= begun.level)
              /\ (do.key = "volume_down" /\ level <= begun.level => goal' <= begun.level)
          BY <1>0, <3>1
        <4>2. QED
          BY <3>3, <4>1 DEF LevelsInv, UpOrDown
      <3>5. QED
        BY <1>0, <3>1, <3>2, <3>3, <3>4 DEF LevelsInv, Levels!TypeOK
    <2>3. QED
      BY <1>3, <2>1, <2>2 DEF Levels!Read
  <1>4. ASSUME NEW next \in {"powershell", "template"}, NEW check \in {"check1", "check2"}, NEW here \in {"pycaw", "powershell"},
               Levels!SetVolume(here, next, check)
        PROVE  LevelsInv'
    <2>1. /\ level' \in {level, goal}
          /\ UNCHANGED <<do, begun, bright, goal, runs>>
          /\ runs = 0
          /\ place \in SetterPlaces
      BY <1>4 DEF Levels!SetVolume, LevelsInv, SetterPlaces
    <2>2. place' \in {"powershell", "template", "check1", "check2", "end"}
      BY <1>4 DEF Levels!SetVolume, Levels!AfterSetter, Levels!Goes, Levels!Ends
    <2>3. report' \in {report, "success"} /\ by' \in {by, "native"}
      BY <1>4 DEF Levels!SetVolume, Levels!AfterSetter, Levels!Goes, Levels!Ends
    <2>4. UpOrDown'
      BY <2>1 DEF LevelsInv, UpOrDown
    <2>5. QED
      BY <1>0, <2>1, <2>2, <2>3, <2>4 DEF LevelsInv, Levels!TypeOK
  <1>c. ASSUME Levels!Cut
        PROVE  /\ level' \in 0 .. Top /\ UNCHANGED bright
               /\ goal <= begun.level /\ level <= begun.level => level' <= begun.level
               /\ begun'.level = begun.level /\ begun'.cut
               /\ begun'.touched = begun.touched
               /\ DOMAIN begun' = {"level", "muted", "touched", "cut"}
    <2>1. Levels!Max({level, goal}) = IF level >= goal THEN level ELSE goal
      BY <1>0, LevelsMax
    <2>2. PICK m \in 0 .. Top : m = IF level >= goal THEN level ELSE goal
      BY <1>0
    <2>3. level' \in 0 .. m
      BY <1>c, <2>1, <2>2 DEF Levels!Cut
    <2>4. /\ level' \in 0 .. Top
          /\ goal <= begun.level /\ level <= begun.level => level' <= begun.level
      BY <1>0, <2>2, <2>3, TopIsNat
    <2>5. begun' = [begun EXCEPT !.cut = TRUE] /\ UNCHANGED bright
      BY <1>c DEF Levels!Cut
    <2>6. QED
      BY <1>0, <2>4, <2>5
  <1>p. ASSUME place = "powershell", Levels!Cut, Levels!Goes("template"),
               UNCHANGED <<verify, do, goal, runs, hands>>
        PROVE  LevelsInv'
    <2>1. place' = "template" /\ UNCHANGED <<report, by, do, goal, runs>> /\ runs = 0
      BY <1>p DEF Levels!Goes, LevelsInv
    <2>2. do.key = "volume_down" /\ ~begun.touched => goal <= begun.level /\ level <= begun.level
      BY <1>p DEF LevelsInv, UpOrDown, SetterPlaces
    <2>3. UpOrDown'
      BY <1>c, <1>p, <2>1, <2>2 DEF UpOrDown, SetterPlaces
    <2>4. QED
      BY <1>0, <1>c, <1>p, <2>1, <2>3 DEF LevelsInv, Levels!TypeOK
  <1>5. ASSUME NEW next \in {"powershell", "template"}, NEW here \in {"check1", "check2"}, Levels!Verify(here, next)
        PROVE  LevelsInv'
    BY <1>0, <1>2, <1>5
       DEF Levels!Verify, Levels!Goes, Levels!Ends, Levels!Machine, LevelsInv, Levels!TypeOK,
           SetterPlaces
  <1>6. CASE Levels!ToggleMutePycaw
    BY <1>0, <1>2, <1>6
       DEF Levels!ToggleMutePycaw, Levels!Goes, Levels!Ends, LevelsInv, Levels!TypeOK, SetterPlaces
  <1>7. CASE Levels!ToggleMutePowershell
    BY <1>0, <1>2, <1>7
       DEF Levels!ToggleMutePowershell, Levels!Goes, Levels!Ends, LevelsInv, Levels!TypeOK, SetterPlaces
  <1>8. ASSUME NEW next \in {"wmi", "posh", "template"}, NEW here \in {"sbc", "wmi", "posh"}, Levels!SetBrightness(here, next)
        PROVE  LevelsInv'
    BY <1>0, <1>2, <1>8
       DEF Levels!SetBrightness, Levels!Goes, Levels!Ends, LevelsInv, Levels!TypeOK, SetterPlaces
  <1>9. CASE Levels!RunTemplate
    <2>1. runs < 2 /\ runs' = runs + 1 /\ runs' \in 0 .. 2 /\ UNCHANGED <<do, goal>>
      BY <1>0, <1>9 DEF Levels!RunTemplate, LevelsInv
    <2>2. place' = "end" \/ (place' = "template" /\ runs' < 2)
      BY <1>9 DEF Levels!RunTemplate, Levels!Goes, Levels!Ends
    <2>3. (report' \in {"success", "failure", "exception"} /\ by' = "template") \/ UNCHANGED <<report, by>>
      BY <1>9 DEF Levels!RunTemplate, Levels!Goes, Levels!Ends
    <2>4. ASSUME Levels!Effect
          PROVE  /\ level' \in 0 .. Top /\ bright' \in 0 .. Top
                 /\ do.key = "volume_up" => level' >= level
                 /\ do.key = "volume_down" => level' <= level
      <3>1. CASE do.key = "volume_set" \/ do.key = "volume_mute" \/ do.key = "brightness_set"
        <4> USE DEF Levels!Bright, Levels!Shift
        <4>1. ASSUME do.key = "volume_set" PROVE level' = do.value /\ UNCHANGED <<muted, bright>>
          BY <2>4, <4>1 DEF Levels!Effect
        <4>2. ASSUME do.key = "volume_mute" PROVE UNCHANGED <<level, bright>>
          BY <2>4, <4>2 DEF Levels!Effect
        <4>3. ASSUME do.key = "brightness_set" PROVE bright' = do.value /\ UNCHANGED <<level, muted>>
          BY <2>4, <4>3 DEF Levels!Effect
        <4>4. QED
          BY <1>0, <1>s, <3>1, <4>1, <4>2, <4>3
      <3>2. CASE ~(do.key = "volume_set" \/ do.key = "volume_mute" \/ do.key = "brightness_set")
        <4>1. CASE Levels!Bright(do) /\ Levels!Shift(do) # 0
          <5>1. bright' = Levels!Max({Levels!Lowest, Levels!Clamp(bright + Levels!Shift(do))})
                /\ UNCHANGED level
            BY <2>4, <3>2, <4>1 DEF Levels!Effect
          <5>2. PICK n \in Int : n = bright + Levels!Shift(do)
            BY <1>0, <1>s
          <5>3. bright' \in 0 .. Top
            <6>1. PICK c \in 0 .. Top : c = Levels!Clamp(n)
              BY LevelsClamp
            <6>2. PICK l \in {0, 1} : l = Levels!Lowest
              BY DEF Levels!Lowest
            <6>3. Levels!Max({l, c}) = IF l >= c THEN l ELSE c
              BY LevelsMax
            <6>4. bright' = IF l >= c THEN l ELSE c
              BY <5>1, <5>2, <6>1, <6>2, <6>3
            <6>5. QED
              BY <6>4, TopIsNat
          <5>4. QED
            BY <1>0, <5>1, <5>3
        <4>2. CASE ~(Levels!Bright(do) /\ Levels!Shift(do) # 0)
          <5>1. level' = Levels!Clamp(level + Levels!Shift(do)) /\ UNCHANGED bright
            BY <2>4, <3>2, <4>2 DEF Levels!Effect
          <5>2. PICK n \in Int : n = level + Levels!Shift(do)
            BY <1>0, <1>s
          <5>3. level' \in 0 .. Top /\ level' = IF n < 0 THEN 0 ELSE IF n > Top THEN Top ELSE n
            BY <5>1, <5>2, LevelsClamp
          <5>4. (do.key = "volume_up" => n = level + 1) /\ (do.key = "volume_down" => n = level - 1)
            BY <1>s, <5>2
          <5>5. QED
            BY <1>0, <5>1, <5>3, <5>4, TopIsNat
        <4>3. QED
          BY <4>1, <4>2
      <3>3. QED
        BY <3>1, <3>2
    <2>a. ASSUME Levels!Effect \/ UNCHANGED Levels!Machine
          PROVE  /\ level' \in 0 .. Top /\ bright' \in 0 .. Top
                 /\ do.key = "volume_up" => level' >= level
                 /\ do.key = "volume_down" => level' <= level
      BY <1>0, <2>4, <2>a DEF Levels!Machine
    <2>b. \/ (Levels!Effect \/ UNCHANGED Levels!Machine) /\ UNCHANGED begun
          \/ do.key = "volume_set" /\ Levels!Cut
      BY <1>9 DEF Levels!RunTemplate, Levels!Partly
    <2>5. /\ level' \in 0 .. Top /\ bright' \in 0 .. Top
          /\ do.key = "volume_up" => level' >= level /\ UNCHANGED begun
          /\ do.key = "volume_down" => level' <= level /\ UNCHANGED begun
          /\ DOMAIN begun' = {"level", "muted", "touched", "cut"}
          /\ begun'.level = begun.level
      BY <1>0, <1>c, <2>a, <2>b
    <2>6. UpOrDown'
      <3>1. /\ (do.key = "volume_up" /\ level >= begun.level => level' >= begun.level)
            /\ (do.key = "volume_down" /\ level <= begun.level => level' <= begun.level)
        BY <1>0, <2>5
      <3>2. place' \notin SetterPlaces
        BY <2>2 DEF SetterPlaces
      <3>3. QED
        BY <2>1, <2>5, <3>1, <3>2 DEF LevelsInv, UpOrDown
    <2>7. QED
      BY <1>0, <2>1, <2>2, <2>3, <2>5, <2>6 DEF LevelsInv, Levels!TypeOK
  <1>10. CASE Levels!Answer
    <2>1. /\ do' = Levels!NoCommand
          /\ do'.key = "none"
          /\ goal' = 0
          /\ runs' = 0
          /\ place' = "idle"
          /\ report' = "none"
          /\ by' = "none"
      BY <1>10 DEF Levels!Answer, Levels!NoCommand
    <2>2. DOMAIN begun' = {"level", "muted", "touched", "cut"} /\ begun'.level \in 0 .. Top
      BY <1>0, <1>10 DEF Levels!Answer, Levels!State
    <2>3. UNCHANGED <<level, bright>>
      BY <1>10 DEF Levels!Answer, Levels!Machine
    <2>4. 0 \in 0 .. Top
      BY TopIsNat
    <2>5. QED
      BY <1>0, <2>1, <2>2, <2>3, <2>4 DEF LevelsInv, UpOrDown, Levels!TypeOK
  <1>11. CASE Levels!ByHand
    <2>1. level' \in 0 .. Top /\ bright' \in 0 .. Top /\ UNCHANGED <<do, place, goal, runs, report, by>>
      BY TopIsNat, <1>11 DEF Levels!ByHand
    <2>2. DOMAIN begun' = {"level", "muted", "touched", "cut"} /\ begun'.level \in 0 .. Top /\ begun'.touched
      BY <1>0, <1>11 DEF Levels!ByHand
    <2>3. QED
      BY <1>0, <2>1, <2>2 DEF LevelsInv, UpOrDown, Levels!TypeOK
  <1>12. CASE UNCHANGED Levels!lvVars
    BY <1>12 DEF Levels!lvVars, LevelsInv, UpOrDown, Levels!TypeOK
  <1>13. QED
    BY <1>1, <1>3, <1>4, <1>p, <1>5, <1>6, <1>7, <1>8, <1>9, <1>10, <1>11, <1>12
       DEF Levels!Next, Levels!SetVolumePycaw, Levels!SetVolumePowershell

\* What is said of the volume with the verification on, without the box.
SaidIsSo ==
  verify /\ place \in SetterPlaces /\ place' = "end" /\ report' = "success" => level' = goal

\* "up" is never down.
LEMMA LevelsMean == LevelsInv => Levels!NeverBackwards
  BY DEF LevelsInv, UpOrDown, Levels!NeverBackwards, Levels!Shift

\* A setter ends with success only when the level was read back.
LEMMA LevelsSay == [Levels!Next]_Levels!lvVars => [SaidIsSo]_Levels!lvVars
  <1> SUFFICES ASSUME Levels!Next, verify, place \in SetterPlaces, place' = "end", report' = "success" PROVE level' = goal
    BY DEF SaidIsSo
  <1>1. ASSUME NEW here, NEW next \in {"powershell", "template"}, NEW check \in {"check1", "check2"},
               Levels!SetVolume(here, next, check) PROVE FALSE
    BY <1>1 DEF Levels!SetVolume, Levels!AfterSetter, Levels!Goes
  <1>2. ASSUME NEW here, NEW next \in {"powershell", "template"}, Levels!Verify(here, next) PROVE level' = goal
    BY <1>2 DEF Levels!Verify, Levels!Goes, Levels!Ends, Levels!Confirms, Levels!Machine
  <1>c. ASSUME Levels!Goes("template") PROVE FALSE
    BY <1>c DEF Levels!Goes
  <1>3. QED
    BY <1>1, <1>2, <1>c
       DEF SetterPlaces, Levels!Next, Levels!Begin, Levels!Read, Levels!SetVolumePycaw,
           Levels!SetVolumePowershell,
       Levels!ToggleMutePycaw, Levels!ToggleMutePowershell, Levels!SetBrightness, Levels!RunTemplate, Levels!Answer, Levels!ByHand

-----------------------------------------------------------------------------
(* Windows settings.                                                       *)

\* Only what is written is read back, and only the captions are looked for; a third hotkey is
\* never sent.
TogglesInv ==
  /\ Toggles!TypeOK
  /\ spot \in {"write", "read", "second"} => wish.setting \in Toggles!Written
  /\ spot \in {"look", "press", "poll", "wait"} => wish.setting = "captions"
  /\ spot \in {"press", "wait"} => presses < 2
  /\ spot \notin {"press", "poll", "wait", "end"} => presses = 0
  /\ wish.want \in BOOLEAN

\* No setting was asked for.
LEMMA TogglesBegin == Toggles!Init => TogglesInv
  BY DEF Toggles!Init, TogglesInv, Toggles!TypeOK, Toggles!NoOne

\* The writes, the hotkeys and the hands keep it.
LEMMA TogglesSteps == TogglesInv /\ [Toggles!Next]_Toggles!wtVars => TogglesInv'
  <1> SUFFICES ASSUME TogglesInv, [Toggles!Next]_Toggles!wtVars PROVE TogglesInv'
    OBVIOUS
  <1> USE DEF TogglesInv, Toggles!TypeOK
  <1>1. ASSUME NEW s \in Toggles!Settings, NEW want \in BOOLEAN, Toggles!Request(s, want) PROVE TogglesInv'
    BY <1>1 DEF Toggles!Request, Toggles!Settings
  <1>2. CASE Toggles!Write
    BY <1>2 DEF Toggles!Write, Toggles!AfterFirst, Toggles!Goes, Toggles!Returns
  <1>3. CASE Toggles!ReadBack
    BY <1>3 DEF Toggles!ReadBack, Toggles!AfterFirst, Toggles!Goes, Toggles!Returns
  <1>4. CASE Toggles!EnergySaverRegistry
    BY <1>4 DEF Toggles!EnergySaverRegistry, Toggles!Returns
  <1>5. CASE Toggles!Look
    BY <1>5 DEF Toggles!Look, Toggles!Found, Toggles!Goes, Toggles!Returns
  <1>6. CASE Toggles!Press
    BY <1>6 DEF Toggles!Press, Toggles!NotYet, Toggles!PressedOn, Toggles!Present, Toggles!Goes, Toggles!Returns
  <1>7. CASE Toggles!Poll
    BY <1>7 DEF Toggles!Poll, Toggles!Found, Toggles!NotYet, Toggles!Goes, Toggles!Returns
  <1>8. CASE Toggles!Wait
    BY <1>8 DEF Toggles!Wait, Toggles!Goes
  <1>9. CASE Toggles!Arrive
    BY <1>9 DEF Toggles!Arrive
  <1>10. CASE Toggles!ByHand
    BY <1>10 DEF Toggles!ByHand
  <1>11. CASE Toggles!Answer
    BY <1>11 DEF Toggles!Answer, Toggles!NoOne
  <1>12. CASE UNCHANGED Toggles!wtVars
    BY <1>12 DEF Toggles!wtVars
  <1>13. QED
    BY <1>1, <1>2, <1>3, <1>4, <1>5, <1>6, <1>7, <1>8, <1>9, <1>10, <1>11, <1>12 DEF Toggles!Next

\* What a success means, without the box.
AsWished ==
  verdict = "none" /\ verdict' \in {"success", "unread"} =>
    \/ wish.want = IF wish.setting = "captions" THEN Toggles!Present ELSE on[wish.setting]
    \/ /\ verdict' = "unread"
       /\ wish.setting = "night_light" \/ (wish.setting = "captions" /\ ~wish.want)

\* Success is said of a setting that was read back, or of a window that was seen.
LEMMA TogglesSay == TogglesInv /\ [Toggles!Next]_Toggles!wtVars => [AsWished]_Toggles!wtVars
  <1> SUFFICES ASSUME TogglesInv, Toggles!Next, verdict = "none", verdict' \in {"success", "unread"}
               PROVE  \/ wish.want = IF wish.setting = "captions" THEN Toggles!Present ELSE on[wish.setting]
                      \/ /\ verdict' = "unread"
                         /\ wish.setting = "night_light" \/ (wish.setting = "captions" /\ ~wish.want)
    BY DEF AsWished
  <1>1. CASE Toggles!ReadBack
    <2>1. wish.setting \in Toggles!Written /\ wish.setting # "captions"
      BY <1>1 DEF Toggles!ReadBack, TogglesInv, Toggles!Written
    <2>2. on[wish.setting] = wish.want \/ (verdict' = "unread" /\ wish.setting = "night_light")
      BY <1>1 DEF Toggles!ReadBack, Toggles!AfterFirst, Toggles!Goes, Toggles!Returns
    <2>3. QED
      BY <2>1, <2>2
  <1>s. ASSUME NEW seen_ \in Toggles!Seen, seen_ = wish.want, Toggles!Found(seen_), wish.setting = "captions", wish.want \in BOOLEAN
        PROVE  wish.want = Toggles!Present \/ (verdict' = "unread" /\ ~wish.want)
    BY <1>s DEF Toggles!Seen, Toggles!Found, Toggles!Returns
  <1>n. ASSUME NEW any, Toggles!NotYet(any) PROVE FALSE
    BY <1>n DEF Toggles!NotYet, Toggles!Goes, Toggles!Returns
  <1>g. ASSUME NEW any, Toggles!Goes(any) PROVE FALSE
    BY <1>g DEF Toggles!Goes
  <1>2. CASE Toggles!Look \/ Toggles!Poll
    <2>1. wish.setting = "captions" /\ wish.want \in BOOLEAN
      BY <1>2 DEF Toggles!Look, Toggles!Poll, TogglesInv
    <2>2. PICK seen_ \in Toggles!Seen : seen_ = wish.want /\ Toggles!Found(seen_)
      BY <1>2, <1>n, <1>g DEF Toggles!Look, Toggles!Poll
    <2>3. QED
      BY <1>s, <2>1, <2>2
  <1>4. ASSUME Toggles!Write \/ Toggles!EnergySaverRegistry PROVE FALSE
    BY <1>4
       DEF Toggles!Write, Toggles!EnergySaverRegistry, Toggles!AfterFirst, Toggles!Goes, Toggles!Returns
  <1>5. ASSUME Toggles!Press PROVE FALSE
    BY <1>5, <1>g, <1>n DEF Toggles!Press
  <1>6. QED
    BY <1>1, <1>2, <1>4, <1>5
       DEF Toggles!Next, Toggles!Request, Toggles!Wait, Toggles!Goes, Toggles!Arrive, Toggles!ByHand, Toggles!Answer

-----------------------------------------------------------------------------
(* The screen recorder.                                                    *)

RecorderInv == Recorder!TypeOK /\ Recorder!RecordingIsHeld /\ proc \in used \cup {NoProc}

\* Nothing is recorded.
LEMMA RecorderBegins == Recorder!Init => RecorderInv
  BY DEF Recorder!Init, RecorderInv, Recorder!TypeOK, Recorder!RecordingIsHeld

\* The starts, the stops and the end of a process keep it.
LEMMA RecorderSteps == RecorderInv /\ [Recorder!Next]_Recorder!srVars => RecorderInv'
  <1> SUFFICES ASSUME RecorderInv, [Recorder!Next]_Recorder!srVars PROVE RecorderInv'
    OBVIOUS
  <1> USE AbsentAssumption DEF RecorderInv, Recorder!TypeOK, Recorder!RecordingIsHeld
  <1>1. ASSUME NEW p \in Procs, Recorder!StartFfmpeg(p) PROVE RecorderInv'
    BY <1>1 DEF Recorder!StartFfmpeg, Recorder!Polls
  <1>2. CASE Recorder!StartGamebar
    BY <1>2 DEF Recorder!StartGamebar, Recorder!Polls
  <1>3. CASE Recorder!StopFfmpeg
    BY <1>3 DEF Recorder!StopFfmpeg, Recorder!Polls
  <1>4. CASE Recorder!StopGamebar
    BY <1>4 DEF Recorder!StopGamebar
  <1>5. ASSUME NEW p \in Procs, Recorder!ProcessEnds(p) PROVE RecorderInv'
    BY <1>5 DEF Recorder!ProcessEnds
  <1>6. CASE UNCHANGED Recorder!srVars
    BY <1>6 DEF Recorder!srVars
  <1>7. QED
    BY <1>1, <1>2, <1>3, <1>4, <1>5, <1>6 DEF Recorder!Next

-----------------------------------------------------------------------------
(* System commands.                                                        *)

\* What the proofs need of the table of the families.
FamilyIsSound(f) ==
  /\ Controls!F(f).native.calls \in 0 .. 2 /\ Controls!F(f).native.acts \in 0 .. 4
  /\ Controls!F(f).native.raises \in BOOLEAN
  /\ Controls!F(f).template \in BOOLEAN /\ Controls!F(f).destructive \in BOOLEAN
  /\ Controls!F(f).native.calls = 2 => Controls!F(f).native.acts <= 2
  /\ Controls!F(f).destructive =>
       Controls!F(f).native.calls = 0 /\ Controls!F(f).native.acts = 0 /\ Controls!F(f).template
  /\ ~Controls!F(f).template => Controls!F(f).native.calls = 1
\* Every family has it.
LEMMA FamilyFacts == ASSUME NEW f \in Controls!Names PROVE f # "none" /\ FamilyIsSound(f)
  <1> USE DEF Controls!F, Controls!Families, Controls!Family, Controls!Native, Controls!NoNative
  <1>1. ASSUME f = "power" PROVE FamilyIsSound(f)
    <2>1. Controls!F(f).native.calls = 1 /\ Controls!F(f).native.acts = 2
      BY <1>1
    <2>2. Controls!F(f).native.raises = FALSE /\ Controls!F(f).template = TRUE /\ Controls!F(f).destructive = FALSE
      BY <1>1
    <2> HIDE DEF Controls!F
    <2>3. /\ Controls!F(f).native.calls \in 0 .. 2 /\ Controls!F(f).native.acts \in 0 .. 4
          /\ Controls!F(f).native.calls = 2 => Controls!F(f).native.acts <= 2
      BY <2>1
    <2>4. QED
      BY <2>1, <2>2, <2>3, Zenon DEF FamilyIsSound
  <1>2. ASSUME f = "destructive" PROVE FamilyIsSound(f)
    <2>1. Controls!F(f).native.calls = 0 /\ Controls!F(f).native.acts = 0
      BY <1>2
    <2>2. Controls!F(f).native.raises = FALSE /\ Controls!F(f).template = TRUE /\ Controls!F(f).destructive = TRUE
      BY <1>2
    <2> HIDE DEF Controls!F
    <2>3. /\ Controls!F(f).native.calls \in 0 .. 2 /\ Controls!F(f).native.acts \in 0 .. 4
          /\ Controls!F(f).native.calls = 2 => Controls!F(f).native.acts <= 2
      BY <2>1
    <2>4. QED
      BY <2>1, <2>2, <2>3, Zenon DEF FamilyIsSound
  <1>3. ASSUME f = "levels" PROVE FamilyIsSound(f)
    <2>1. Controls!F(f).native.calls = 1 /\ Controls!F(f).native.acts = 3
      BY <1>3
    <2>2. Controls!F(f).native.raises = TRUE /\ Controls!F(f).template = TRUE /\ Controls!F(f).destructive = FALSE
      BY <1>3
    <2> HIDE DEF Controls!F
    <2>3. /\ Controls!F(f).native.calls \in 0 .. 2 /\ Controls!F(f).native.acts \in 0 .. 4
          /\ Controls!F(f).native.calls = 2 => Controls!F(f).native.acts <= 2
      BY <2>1
    <2>4. QED
      BY <2>1, <2>2, <2>3, Zenon DEF FamilyIsSound
  <1>4. ASSUME f = "media" PROVE FamilyIsSound(f)
    <2>1. Controls!F(f).native.calls = 1 /\ Controls!F(f).native.acts = 1
      BY <1>4
    <2>2. Controls!F(f).native.raises = FALSE /\ Controls!F(f).template = TRUE /\ Controls!F(f).destructive = FALSE
      BY <1>4
    <2> HIDE DEF Controls!F
    <2>3. /\ Controls!F(f).native.calls \in 0 .. 2 /\ Controls!F(f).native.acts \in 0 .. 4
          /\ Controls!F(f).native.calls = 2 => Controls!F(f).native.acts <= 2
      BY <2>1
    <2>4. QED
      BY <2>1, <2>2, <2>3, Zenon DEF FamilyIsSound
  <1>5. ASSUME f = "screenshot" PROVE FamilyIsSound(f)
    <2>1. Controls!F(f).native.calls = 2 /\ Controls!F(f).native.acts = 2
      BY <1>5
    <2>2. Controls!F(f).native.raises = FALSE /\ Controls!F(f).template = TRUE /\ Controls!F(f).destructive = FALSE
      BY <1>5
    <2> HIDE DEF Controls!F
    <2>3. /\ Controls!F(f).native.calls \in 0 .. 2 /\ Controls!F(f).native.acts \in 0 .. 4
          /\ Controls!F(f).native.calls = 2 => Controls!F(f).native.acts <= 2
      BY <2>1
    <2>4. QED
      BY <2>1, <2>2, <2>3, Zenon DEF FamilyIsSound
  <1>6. ASSUME f = "windows" PROVE FamilyIsSound(f)
    <2>1. Controls!F(f).native.calls = 1 /\ Controls!F(f).native.acts = 4
      BY <1>6
    <2>2. Controls!F(f).native.raises = TRUE /\ Controls!F(f).template = FALSE /\ Controls!F(f).destructive = FALSE
      BY <1>6
    <2> HIDE DEF Controls!F
    <2>3. /\ Controls!F(f).native.calls \in 0 .. 2 /\ Controls!F(f).native.acts \in 0 .. 4
          /\ Controls!F(f).native.calls = 2 => Controls!F(f).native.acts <= 2
      BY <2>1
    <2>4. QED
      BY <2>1, <2>2, <2>3, Zenon DEF FamilyIsSound
  <1>7. ASSUME f = "plain" PROVE FamilyIsSound(f)
    <2>1. Controls!F(f).native.calls = 0 /\ Controls!F(f).native.acts = 0
      BY <1>7
    <2>2. Controls!F(f).native.raises = FALSE /\ Controls!F(f).template = TRUE /\ Controls!F(f).destructive = FALSE
      BY <1>7
    <2> HIDE DEF Controls!F
    <2>3. /\ Controls!F(f).native.calls \in 0 .. 2 /\ Controls!F(f).native.acts \in 0 .. 4
          /\ Controls!F(f).native.calls = 2 => Controls!F(f).native.acts <= 2
      BY <2>1
    <2>4. QED
      BY <2>1, <2>2, <2>3, Zenon DEF FamilyIsSound
  <1>8. f \in {"power", "destructive", "levels", "media", "screenshot", "windows", "plain"}
    BY DEF Controls!Names
  <1>9. f # "none"
    BY <1>8
  <1>10. QED
    <2> HIDE DEF Controls!F
    <2>1. QED
      BY <1>1, <1>2, <1>3, <1>4, <1>5, <1>6, <1>7, <1>8, <1>9

\* Each way has its number of calls, and each call acts so often at most.
NativeMost(f) ==
  Controls!F(f).native.acts + (IF Controls!F(f).native.calls = 2 THEN Controls!F(f).native.acts ELSE 0)
MostEffects(f) == NativeMost(f) + (IF Controls!F(f).template THEN Controls!Attempts(f) ELSE 0)
Explained ==
  logged \/ (outcome = "exception" /\ (Controls!F(family).native.raises \/ (Controls!F(family).template /\ tries > 0)))
WayInv ==
  /\ step = "native" => /\ tries < Controls!F(family).native.calls
                        /\ effects <= (IF tries = 0 THEN 0 ELSE Controls!F(family).native.acts)
  /\ step = "template" => /\ Controls!F(family).template /\ tries < Controls!Attempts(family)
                          /\ effects <= NativeMost(family) + tries
  /\ step = "end" => effects <= MostEffects(family) /\ Explained
ControlsInv == Controls!TypeOK /\ IF family = "none" THEN step = "end" ELSE WayInv

\* Nothing was commanded.
LEMMA ControlsBegin == Controls!Init => ControlsInv
  <1> SUFFICES ASSUME Controls!Init PROVE ControlsInv
    OBVIOUS
  <1>1. tries = 0 /\ effects = 0 /\ logged = FALSE /\ unanswered = {}
    BY DEF Controls!Init
  <1>2. tries \in 0 .. 2 /\ effects \in 0 .. 6
    BY <1>1
  <1>3. family = "none" /\ step = "end" /\ outcome = "none"
    BY DEF Controls!Init
  <1>4. QED
    BY <1>1, <1>2, <1>3 DEF ControlsInv, Controls!TypeOK

\* A command begins with no effect.
LEMMA ExecuteKeeps ==
  ASSUME NEW f \in Controls!Names, Controls!Execute(f)
  PROVE  /\ family' = f /\ step' \in {"native", "template"} /\ tries' = 0 /\ effects' = 0 /\ outcome' = "none" /\ logged' = FALSE
         /\ WayInv'
  <1>1. family' = f /\ tries' = 0 /\ effects' = 0 /\ outcome' = "none" /\ logged' = FALSE
    BY DEF Controls!Execute
  <1>2. step' = IF Controls!F(f).native.calls > 0 THEN "native" ELSE "template"
    BY DEF Controls!Execute
  <1>3. Controls!Attempts(f) \in 1 .. 2
    BY DEF Controls!Attempts
  <1>4. FamilyIsSound(f)
    BY FamilyFacts
  <1>5. Controls!F(f).native.calls \in 0 .. 2 /\ NativeMost(f) \in 0 .. 8 /\ (Controls!F(f).native.calls = 0 => Controls!F(f).template)
    BY <1>4 DEF FamilyIsSound, NativeMost
  <1>6. CASE Controls!F(f).native.calls > 0
    BY <1>1, <1>2, <1>5, <1>6 DEF WayInv
  <1>7. CASE Controls!F(f).native.calls = 0
    BY <1>1, <1>2, <1>3, <1>5, <1>7 DEF WayInv, NativeMost, Controls!Attempts
  <1>8. Controls!F(f).native.calls > 0 \/ Controls!F(f).native.calls = 0
    BY <1>5
  <1>9. QED
    BY <1>6, <1>7, <1>8

\* The requests, the native ways and the templates keep it.
LEMMA ControlsSteps == ControlsInv /\ [Controls!Next]_Controls!scVars => ControlsInv'
  <1> SUFFICES ASSUME ControlsInv, [Controls!Next]_Controls!scVars PROVE ControlsInv'
    OBVIOUS
  <1>0. /\ family \in Controls!Names \cup {"none"} /\ unanswered \subseteq {f \in Controls!Names : Controls!F(f).confirm}
        /\ step \in {"native", "template", "end"} /\ tries \in 0 .. 2 /\ effects \in 0 .. 6
        /\ outcome \in {"none", "success", "failure", "exception"} /\ logged \in BOOLEAN
    BY DEF ControlsInv, Controls!TypeOK
  <1>n. \A g \in Controls!Names : g # "none"
    BY FamilyFacts
  <1>z. ASSUME tries' \in 0 .. 2, effects' \in 0 .. 6, family' \in Controls!Names \cup {"none"},
               unanswered' \subseteq {g \in Controls!Names : Controls!F(g).confirm},
               step' \in {"native", "template", "end"}, outcome' \in {"none", "success", "failure", "exception"},
               logged' \in BOOLEAN, IF family' = "none" THEN step' = "end" ELSE WayInv'
        PROVE  ControlsInv'
    BY <1>z DEF ControlsInv, Controls!TypeOK
  <1>w. ASSUME UNCHANGED <<family, step, tries, effects, outcome, logged>>, unanswered' \subseteq {g \in Controls!Names : Controls!F(g).confirm}
        PROVE  ControlsInv'
    <2>1. WayInv' <=> WayInv
      BY <1>w DEF WayInv, Explained
    <2>2. QED
      BY <1>0, <1>w, <1>z, <2>1 DEF ControlsInv
  <1>e. ASSUME NEW f \in Controls!Names, Controls!Execute(f), unanswered' \subseteq unanswered PROVE ControlsInv'
    <2>1. /\ family' = f /\ step' \in {"native", "template"} /\ tries' = 0 /\ effects' = 0 /\ outcome' = "none" /\ logged' = FALSE
          /\ WayInv'
      BY <1>e, ExecuteKeeps
    <2>2. tries' \in 0 .. 2 /\ effects' \in 0 .. 6
      BY <2>1
    <2>3. QED
      BY <1>0, <1>e, <1>n, <1>z, <2>1, <2>2
  <1>1. ASSUME NEW f \in Controls!Names, Controls!Request(f) PROVE ControlsInv'
    <2>1. CASE Controls!Execute(f) /\ UNCHANGED unanswered
      BY <1>e, <2>1
    <2>2. CASE Controls!Refused /\ unanswered' \subseteq unanswered \cup {g \in {f} : Controls!F(g).confirm}
      BY <1>0, <1>w, <2>2 DEF Controls!Refused
    <2>3. QED
      BY <1>1, <2>1, <2>2 DEF Controls!Request
  <1>2. ASSUME NEW f \in Controls!Names, Controls!Confirm(f) \/ Controls!Expire(f) PROVE ControlsInv'
    <2>1. CASE Controls!Execute(f) /\ unanswered' \subseteq unanswered
      BY <1>e, <2>1
    <2>2. CASE Controls!Refused /\ unanswered' \subseteq unanswered
      BY <1>0, <1>w, <2>2 DEF Controls!Refused
    <2>3. QED
      BY <1>2, <2>1, <2>2 DEF Controls!Confirm, Controls!Expire
  <1>3. ASSUME Controls!TryNative, family \in Controls!Names, WayInv PROVE ControlsInv'
    <2>1. PICK c \in 0 .. 2, a \in 0 .. 4, r \in BOOLEAN, u \in BOOLEAN :
             /\ Controls!F(family).native.calls = c /\ Controls!F(family).native.acts = a
             /\ Controls!F(family).native.raises = r /\ Controls!F(family).template = u
             /\ c = 2 => a <= 2
             /\ ~u => c = 1
      <3>1. FamilyIsSound(family)
        BY <1>3, FamilyFacts
      <3>2. QED
        BY <3>1 DEF FamilyIsSound
    <2>2. PICK act \in 0 .. a : effects' = effects + act
      BY <1>3, <2>1 DEF Controls!TryNative
    <2>3. /\ UNCHANGED <<unanswered, family>> /\ step = "native"
          /\ tries < c /\ effects <= (IF tries = 0 THEN 0 ELSE a)
      BY <1>3, <2>1 DEF Controls!TryNative, WayInv
    <2>4. PICK most \in 0 .. 4 : most = NativeMost(family) /\ (c = 2 => most = a + a) /\ (c # 2 => most = a)
      BY <2>1 DEF NativeMost
    <2>5. /\ effects' \in 0 .. 6 /\ effects' <= most
          /\ tries = 0 => effects' <= a
      BY <1>0, <2>1, <2>2, <2>3, <2>4
    <2>a. Controls!Attempts(family) \in 1 .. 2
      BY DEF Controls!Attempts
    <2>6. ASSUME step' = "end", outcome' \in {"success", "failure", "exception"}, logged' \in BOOLEAN,
                 tries' = tries, logged' \/ (outcome' = "exception" /\ r)
          PROVE  ControlsInv'
      <3>1. effects' <= MostEffects(family)
        BY <2>1, <2>4, <2>5, <2>a DEF MostEffects
      <3>2. WayInv'
        BY <2>1, <2>3, <2>6, <3>1 DEF WayInv, Explained
      <3>3. QED
        BY <1>0, <1>3, <1>n, <1>z, <2>3, <2>5, <2>6, <3>2
    <2>7. CASE Controls!Ends("success", TRUE) /\ UNCHANGED tries
      BY <2>6, <2>7 DEF Controls!Ends
    <2>8. CASE r /\ Controls!Ends("exception", FALSE) /\ UNCHANGED tries
      BY <2>6, <2>8 DEF Controls!Ends
    <2>9. CASE Controls!NextWay
      <3>1. CASE ~u
        BY <2>1, <2>6, <2>9, <3>1 DEF Controls!NextWay, Controls!Ends
      <3>2. CASE u /\ tries + 1 < c
        <4>1. tries' = tries + 1 /\ UNCHANGED <<step, outcome, logged>>
          BY <2>1, <2>9, <3>2 DEF Controls!NextWay
        <4>2. tries' \in 0 .. 2 /\ tries' < c /\ effects' <= (IF tries' = 0 THEN 0 ELSE a)
          BY <1>0, <2>1, <2>3, <2>5, <3>2, <4>1
        <4>3. WayInv'
          BY <2>1, <2>3, <4>1, <4>2 DEF WayInv
        <4>4. QED
          BY <1>0, <1>3, <1>n, <1>z, <2>3, <2>5, <4>1, <4>2, <4>3
      <3>3. CASE u /\ ~(tries + 1 < c)
        <4>1. tries' = 0 /\ step' = "template" /\ UNCHANGED <<outcome, logged>>
          BY <2>1, <2>9, <3>3 DEF Controls!NextWay
        <4>2. tries' < Controls!Attempts(family) /\ effects' <= most + tries' /\ tries' \in 0 .. 2
          BY <2>a, <2>5, <4>1
        <4>3. WayInv'
          BY <2>1, <2>3, <2>4, <3>3, <4>1, <4>2 DEF WayInv, Controls!Attempts, NativeMost
        <4>4. QED
          BY <1>0, <1>3, <1>n, <1>z, <2>3, <2>5, <4>1, <4>2, <4>3
      <3>4. QED
        BY <2>1, <3>1, <3>2, <3>3
    <2>10. QED
      BY <1>3, <2>1, <2>7, <2>8, <2>9 DEF Controls!TryNative
  <1>4. ASSUME Controls!TryTemplate, family \in Controls!Names, WayInv PROVE ControlsInv'
    <2>1. PICK effect \in 0 .. 1, end \in {"ok", "failed", "retryable", "expired"} :
       /\ effects' = effects + effect
       /\ CASE end = "ok" -> Controls!Ends("success", TRUE)
            [] end = "failed" -> Controls!Ends("failure", TRUE)
            [] end = "expired" -> Controls!Ends("exception", FALSE)
            [] end = "retryable" /\ tries' < Controls!Attempts(family) -> UNCHANGED <<step, outcome, logged>>
            [] OTHER -> Controls!Ends("failure", TRUE)
      BY <1>4 DEF Controls!TryTemplate
    <2>2. PICK n \in 0 .. 4, a \in 1 .. 2 : n = NativeMost(family) /\ a = Controls!Attempts(family)
      <3>1. PICK c \in 0 .. 2, b \in 0 .. 4 : c = Controls!F(family).native.calls /\ b = Controls!F(family).native.acts /\ (c = 2 => b <= 2)
        <4>1. FamilyIsSound(family)
          BY <1>4, FamilyFacts
        <4>2. QED
          BY <4>1 DEF FamilyIsSound
      <3>2. NativeMost(family) \in 0 .. 4
        BY <3>1 DEF NativeMost
      <3>3. Controls!Attempts(family) \in 1 .. 2
        BY DEF Controls!Attempts
      <3>4. QED
        BY <3>2, <3>3
    <2>3. /\ UNCHANGED <<unanswered, family>> /\ tries' = tries + 1 /\ tries < a /\ effects <= n + tries
          /\ Controls!F(family).template
      BY <1>4, <2>2 DEF Controls!TryTemplate, WayInv
    <2>4. /\ tries' \in 0 .. 2
          /\ tries' <= a
          /\ effects' \in 0 .. 6
          /\ effects' <= n + tries'
          /\ effects' <= n + a
      BY <1>0, <2>1, <2>2, <2>3
    <2>5. CASE Controls!Ends("success", TRUE) \/ Controls!Ends("failure", TRUE) \/ Controls!Ends("exception", FALSE)
      <3>1. /\ step' = "end"
            /\ outcome' \in {"success", "failure", "exception"}
            /\ logged' \in BOOLEAN
            /\ (outcome' = "exception" \/ logged')
        BY <2>5 DEF Controls!Ends
      <3>2. effects' <= MostEffects(family) /\ tries' > 0
        BY <1>0, <2>2, <2>3, <2>4 DEF MostEffects
      <3>3. WayInv'
        BY <2>3, <3>1, <3>2 DEF WayInv, Explained
      <3>4. QED
        BY <1>0, <1>z, <2>3, <2>4, <3>1, <3>3
    <2>6. CASE tries' < a /\ UNCHANGED <<step, outcome, logged>>
      <3>1. step' = "template"
        BY <1>4, <2>6 DEF Controls!TryTemplate
      <3>2. QED
        <4>1. WayInv'
          BY <2>2, <2>3, <2>4, <2>6, <3>1 DEF WayInv, Controls!Attempts, NativeMost
        <4>2. QED
          BY <1>0, <1>4, <1>n, <1>z, <2>3, <2>4, <2>6, <3>1, <4>1
    <2>7. QED
      <3>1. CASE end = "ok"
        BY <2>1, <2>5, <3>1
      <3>2. CASE end = "failed"
        BY <2>1, <2>5, <3>2
      <3>3. CASE end = "expired"
        BY <2>1, <2>5, <3>3
      <3>4. CASE end = "retryable" /\ tries' < a
        BY <2>1, <2>2, <2>6, <3>4
      <3>5. CASE end = "retryable" /\ ~(tries' < a)
        BY <2>1, <2>2, <2>5, <3>5
      <3>6. QED
        BY <3>1, <3>2, <3>3, <3>4, <3>5
  <1>5. CASE Controls!Answer
    BY <1>0, <1>5, <1>z DEF Controls!Answer
  <1>6. CASE Controls!ChangePolicy \/ UNCHANGED Controls!scVars
    BY <1>0, <1>6, <1>w DEF Controls!ChangePolicy, Controls!scVars
  <1>7. ASSUME Controls!TryNative \/ Controls!TryTemplate PROVE family \in Controls!Names /\ WayInv
    BY <1>0, <1>7 DEF Controls!TryNative, Controls!TryTemplate, ControlsInv
  <1>8. QED
    BY <1>1, <1>2, <1>3, <1>4, <1>5, <1>6, <1>7 DEF Controls!Next

\* An effect that must not be repeated is had once, and what has no row ended in an exception.
LEMMA ControlsMean == ControlsInv => Controls!EffectOnce /\ Controls!EffectIsLogged
  <1> SUFFICES ASSUME ControlsInv, family # "none"
               PROVE  /\ Controls!F(family).destructive => effects <= 1
                      /\ ~Controls!F(family).template => effects <= Controls!F(family).native.acts
                      /\ step = "end" /\ ~logged =>
                           /\ outcome = "exception"
                           /\ Controls!F(family).native.raises \/ (Controls!F(family).template /\ tries > 0)
    BY DEF Controls!EffectOnce, Controls!EffectIsLogged
  <1>1. WayInv /\ family \in Controls!Names /\ step \in {"native", "template", "end"}
    BY DEF ControlsInv, Controls!TypeOK
  <1>2. effects \in 0 .. 6 /\ tries \in 0 .. 2
    BY DEF ControlsInv, Controls!TypeOK
  <1>3. PICK c \in 0 .. 2, a \in 0 .. 4, u \in BOOLEAN, d \in BOOLEAN :
             /\ Controls!F(family).native.calls = c /\ Controls!F(family).native.acts = a
             /\ Controls!F(family).template = u /\ Controls!F(family).destructive = d
             /\ c = 2 => a <= 2
             /\ d => c = 0 /\ a = 0 /\ u
             /\ ~u => c = 1
    <2>1. FamilyIsSound(family)
      BY <1>1, FamilyFacts
    <2>2. QED
      BY <2>1 DEF FamilyIsSound
  <1>4. step = "end" /\ ~logged =>
          /\ outcome = "exception"
          /\ Controls!F(family).native.raises \/ (Controls!F(family).template /\ tries > 0)
    BY <1>1 DEF WayInv, Explained
  <1>5. PICK most \in 0 .. 4 : most = NativeMost(family) /\ (c # 2 => most = a)
    BY <1>3 DEF NativeMost
  <1>6. ASSUME d PROVE effects <= 1
    <2>1. Controls!Attempts(family) = 1
      BY <1>3, <1>6 DEF Controls!Attempts
    <2>2. MostEffects(family) = 1
      BY <1>3, <1>5, <1>6, <2>1 DEF MostEffects
    <2>3. QED
      BY <1>1, <1>2, <1>3, <1>5, <1>6, <2>1, <2>2 DEF WayInv
  <1>7. ASSUME ~u PROVE effects <= a
    <2>1. MostEffects(family) = a
      BY <1>3, <1>5, <1>7 DEF MostEffects
    <2>2. QED
      BY <1>1, <1>2, <1>3, <1>7, <2>1 DEF WayInv
  <1>8. QED
    BY <1>3, <1>4, <1>6, <1>7

-----------------------------------------------------------------------------
(* Plans of tool calls.                                                    *)

StepResults == [tool : Planner!Tools, ok : BOOLEAN, path : BOOLEAN]
StepValues  == Planner!Values \cup {"not executed"}

\* Every step but the last has succeeded, and the last if the plan goes on; a reference stands for
\* what an earlier step has found.
PlannerTypes ==
  /\ plan \in Seq(MCCalls) /\ results \in Seq(StepResults) /\ values \in Seq(StepValues)
  /\ Len(results) <= Len(plan) /\ Len(values) = Len(results)
PlannerEnds ==
  /\ planned \in {"running", "done", "failed", "raised"}
  /\ \A i \in 1 .. Len(results) : ~results[i].ok => i = Len(results) /\ planned = "failed"
  /\ planned = "running" => Len(results) < Len(plan)
  /\ planned = "done" => Len(results) = Len(plan)
  /\ planned = "failed" => Len(results) > 0 /\ ~results[Len(results)].ok
  /\ Planner!ConvertedFirst
PlannerInv == PlannerTypes /\ PlannerEnds /\ Planner!OnlyEarlierResults

\* The fields of a call.
LEMMA CallFacts ==
  /\ MCCalls \subseteq Planner!Call
  /\ \A c \in MCCalls : c.to \in Nat /\ (c.says \in {"result", "negative"} => c.to >= 1)
  /\ \A c \in MCCalls : c.tool \in Planner!Tools /\ c.says \in Planner!Says
  <1>1. \A c \in MCCalls : c.tool \in Planner!Tools /\ c.says \in Planner!Says
    BY DEF MCCalls, TheCalls, AllTools, Planner!Tools, Planner!Says
  <1>2. \A c \in MCCalls : c.to \in {0, 1, 2} /\ (c.says \in {"result", "negative"} => c.to # 0)
    <2> TAKE c \in MCCalls
    <2>1. CASE c \in TheCalls(AllTools, {"own", "empty", "no number"}, {0})
      BY <2>1 DEF TheCalls
    <2>2. CASE c \in TheCalls(AllTools, {"result", "negative"}, {1, 2})
      BY <2>2 DEF TheCalls
    <2>3. QED
      BY <2>1, <2>2 DEF MCCalls
  <1>3. \A c \in MCCalls : c.to \in Nat /\ (c.says \in {"result", "negative"} => c.to >= 1)
    BY <1>2
  <1>4. \A c \in MCCalls : c = [tool |-> c.tool, says |-> c.says, to |-> c.to]
    <2>1. \A T, S, N : \A c \in TheCalls(T, S, N) : c = [tool |-> c.tool, says |-> c.says, to |-> c.to]
      BY DEF TheCalls
    <2>2. QED
      BY <2>1 DEF MCCalls
  <1>5. \A c \in MCCalls : c.says \in {"result", "negative"} => c.to > 0
    BY <1>3
  <1>6. \A c \in MCCalls : c \in [tool : Planner!Tools, says : Planner!Says, to : Nat]
    BY <1>1, <1>3, <1>4
  <1>7. QED
    BY <1>1, <1>3, <1>5, <1>6 DEF Planner!Call

\* A plan is a sequence of calls.
LEMMA PlanFacts == \A p \in MCPlans : p \in Seq(MCCalls) /\ Len(p) >= 1
  <1>1. ASSUME NEW n \in 1 .. 3, NEW p \in [1 .. n -> MCCalls] PROVE p \in Seq(MCCalls) /\ Len(p) >= 1
    OBVIOUS
  <1>2. Chained \subseteq MCCalls
    BY DEF Chained
  <1>3. [1 .. 3 -> Chained] \subseteq [1 .. 3 -> MCCalls]
    BY <1>2
  <1>4. QED
    BY <1>1, <1>3 DEF MCPlans

\* Nothing was executed of a plan.
LEMMA PlannerBegins == Planner!Init => PlannerInv
  <1> SUFFICES ASSUME Planner!Init PROVE PlannerInv
    OBVIOUS
  <1>1. plan \in Seq(MCCalls) /\ Len(plan) >= 1
    BY PlanFacts DEF Planner!Init
  <1>2. results = <<>> /\ values = <<>> /\ planned = "running"
    BY DEF Planner!Init
  <1>3. Len(results) = 0 /\ Len(values) = 0 /\ results \in Seq(StepResults) /\ values \in Seq(StepValues)
    BY <1>2
  <1>4. Len(plan) \in Nat
    BY <1>1
  <1>5. QED
    <2>1. \A i \in DOMAIN values : FALSE
      BY <1>3
    <2>2. \A i \in 1 .. Len(results) : FALSE
      BY <1>3
    <2>3. PlannerTypes
      BY <1>1, <1>3, <1>4 DEF PlannerTypes
    <2>4. Len(results) < Len(plan)
      BY <1>1, <1>3, <1>4
    <2>5. QED
      BY <1>2, <2>1, <2>2, <2>3, <2>4 DEF PlannerInv, PlannerEnds, Planner!ConvertedFirst, Planner!OnlyEarlierResults

\* Every step of a plan keeps it.
LEMMA PlannerSteps == PlannerInv /\ [Planner!Next]_Planner!tpVars => PlannerInv'
  <1> SUFFICES ASSUME PlannerInv, [Planner!Next]_Planner!tpVars PROVE PlannerInv'
    OBVIOUS
  <1>0. /\ plan \in Seq(MCCalls) /\ results \in Seq(StepResults) /\ values \in Seq(StepValues)
        /\ Len(results) \in Nat /\ Len(plan) \in Nat /\ Len(results) <= Len(plan) /\ Len(values) = Len(results)
    BY DEF PlannerInv, PlannerTypes
  <1>1. CASE Planner!Step
    <2> DEFINE n == Len(results)
               call == plan[n + 1]
               value == IF Len(plan) > 1 THEN Planner!ValueOf(call)
                        ELSE IF call.says \in {"own", "empty"} THEN call.says ELSE "reference"
               to == Planner!NamedBy(call, n + 1)
    <2>1. planned = "running" /\ Planner!Converts(plan) /\ n < Len(plan) /\ plan' = plan
      BY <1>1 DEF Planner!Step
    <2>2. call \in MCCalls
      <3>1. n < Len(plan)
        BY <2>1
      <3>2. QED
        BY <1>0, <3>1
    <2>3. PICK o \in Planner!Outcomes(call.tool, value) :
         /\ results' = Append(results, [tool |-> call.tool, ok |-> o.ok, path |-> o.path])
         /\ values' = Append(values, IF call.tool = "unheard_of" THEN "not executed" ELSE value)
         /\ IF Planner!Stops(o.ok) THEN Planner!Ends("failed")
            ELSE IF Len(results') = Len(plan) THEN Planner!Ends("done") ELSE Planner!Ends("running")
      BY <1>1 DEF Planner!Step, Planner!Current
    <2>4. o.ok \in BOOLEAN /\ o.path \in BOOLEAN
      <3> DEFINE O == Planner!Outcomes(call.tool, value)
      <3>0. o \in O
        BY <2>3
      <3> HIDE DEF O
      <3>1. CASE call.tool = "unheard_of"
        <4>1. O = {[ok |-> FALSE, path |-> FALSE]}
          BY <3>1 DEF O, Planner!Outcomes
        <4>2. o = [ok |-> FALSE, path |-> FALSE]
          BY <3>0, <4>1
        <4>3. o.ok = (FALSE) /\ o.path = FALSE
          BY <4>2
        <4>4. QED
          BY <4>3
      <3>2. CASE call.tool = "search_files"
        <4>1. O = {[ok |-> value # "empty", path |-> FALSE]}
          BY <3>2 DEF O, Planner!Outcomes
        <4>2. o = [ok |-> value # "empty", path |-> FALSE]
          BY <3>0, <4>1
        <4>3. o.ok = (value # "empty") /\ o.path = FALSE
          BY <4>2
        <4>4. QED
          BY <4>3
      <3>3. CASE call.tool = "open_folder"
        <4>1. O = {[ok |-> TRUE, path |-> FALSE]}
          BY <3>3 DEF O, Planner!Outcomes
        <4>2. o = [ok |-> TRUE, path |-> FALSE]
          BY <3>0, <4>1
        <4>3. o.ok = (TRUE) /\ o.path = FALSE
          BY <4>2
        <4>4. QED
          BY <4>3
      <3>4. CASE call.tool = "screenshot"
        <4>1. O = {[ok |-> k, path |-> p] : k, p \in BOOLEAN} \ {[ok |-> FALSE, path |-> TRUE]}
          BY <3>4 DEF O, Planner!Outcomes
        <4>2. QED
          BY <3>0, <4>1
      <3>5. CASE call.tool \notin {"unheard_of", "open_folder", "search_files", "screenshot"}
        <4>1. O = {[ok |-> k, path |-> FALSE] : k \in BOOLEAN}
          BY <3>5 DEF O, Planner!Outcomes
        <4>2. PICK k \in BOOLEAN : o = [ok |-> k, path |-> FALSE]
          BY <3>0, <4>1
        <4>3. o.ok = k /\ o.path = FALSE
          BY <4>2
        <4>4. QED
          BY <4>3
      <3>6. QED
        BY <3>1, <3>2, <3>3, <3>4, <3>5
    <2>5. PICK r : r = [tool |-> call.tool, ok |-> o.ok, path |-> o.path]
      OBVIOUS
    <2>6. r \in StepResults /\ r.ok = o.ok
      BY <2>2, <2>4, <2>5, CallFacts DEF StepResults
    <2>7. PICK v : v = IF call.tool = "unheard_of" THEN "not executed" ELSE value
      OBVIOUS
    <2>8. /\ value \in Planner!Values
          /\ (value \in {"path", "printed"} => /\ call.says \in {"result", "negative"}
                                               /\ value = Planner!Resolved(to))
      <3>1. \A any : Planner!Resolved(any) \in Planner!Values
        BY DEF Planner!Resolved, Planner!Values
      <3>2. call.says \in Planner!Says
        BY <2>2, CallFacts
      <3>3. CASE call.says \in {"own", "empty"}
        BY <3>3 DEF Planner!ValueOf, Planner!Values
      <3>4. CASE call.says = "no number"
        BY <3>4 DEF Planner!ValueOf, Planner!Values
      <3>5. CASE call.says = "negative"
        BY <3>1, <3>5 DEF Planner!ValueOf, Planner!Values
      <3>6. CASE call.says = "result"
        BY <3>1, <3>6 DEF Planner!ValueOf, Planner!Values
      <3>7. QED
        BY <3>2, <3>3, <3>4, <3>5, <3>6 DEF Planner!Says
    <2> HIDE DEF to
    <2>9. v \in StepValues
      BY <2>7, <2>8 DEF StepValues
    <2> HIDE DEF value
    <2>10. /\ results' = Append(results, r) /\ values' = Append(values, v)
           /\ planned' \in {"failed", "done", "running"} /\ (planned' = "failed" <=> ~r.ok)
           /\ planned' = "done" => Len(results') = Len(plan)
           /\ planned' = "running" => Len(results') # Len(plan)
      BY <2>3, <2>4, <2>5, <2>6, <2>7 DEF Planner!Stops, Planner!Ends
    <2>11. /\ results' \in Seq(StepResults) /\ values' \in Seq(StepValues)
           /\ Len(results') = n + 1 /\ Len(values') = n + 1
           /\ results'[n + 1] = r /\ values'[n + 1] = v
           /\ \A i \in 1 .. n : results'[i] = results[i] /\ values'[i] = values[i]
      BY <1>0, <2>6, <2>9, <2>10
    <2>12. \A i \in 1 .. n : results[i].ok
      BY <2>1 DEF PlannerInv, PlannerEnds
    <2>13. \A i \in 1 .. n + 1 : i \in 1 .. n \/ i = n + 1
      BY <1>0
    <2>14. \A i \in 1 .. n + 1 : ~results'[i].ok => i = n + 1 /\ planned' = "failed"
      BY <2>10, <2>11, <2>12, <2>13
    <2>15. /\ Len(results') <= Len(plan)
           /\ (Len(results') # Len(plan) => Len(results') < Len(plan))
           /\ Len(results') > 0
      <3>1. n < Len(plan) /\ Len(results') = n + 1
        BY <2>1, <2>11
      <3>2. QED
        BY <1>0, <3>1
    <2>16. Planner!OnlyEarlierResults'
      <3>1. DOMAIN values' = 1 .. n + 1 /\ DOMAIN values = 1 .. n
        BY <1>0, <2>11
      <3>2. ASSUME NEW i \in 1 .. n, values'[i] \in {"path", "printed"}
            PROVE  /\ plan[i].says \in {"result", "negative"} /\ Planner!NamedBy(plan[i], i) \in 1 .. i - 1
                   /\ results'[Planner!NamedBy(plan[i], i)].ok
                   /\ values'[i] = "path" <=> results'[Planner!NamedBy(plan[i], i)].path
        <4>1. /\ plan[i].says \in {"result", "negative"} /\ Planner!NamedBy(plan[i], i) \in 1 .. i - 1
              /\ results[Planner!NamedBy(plan[i], i)].ok
              /\ values[i] = "path" <=> results[Planner!NamedBy(plan[i], i)].path
          BY <2>11, <3>1, <3>2 DEF PlannerInv, Planner!OnlyEarlierResults
        <4>2. Planner!NamedBy(plan[i], i) \in 1 .. n
          BY <1>0, <4>1
        <4>3. QED
          BY <2>11, <4>1, <4>2
      <3>3. ASSUME v \in {"path", "printed"}
            PROVE  /\ call.says \in {"result", "negative"} /\ to \in 1 .. n /\ results'[to].ok
                   /\ v = "path" <=> results'[to].path
        <4>1. v = Planner!Resolved(to) /\ call.says \in {"result", "negative"}
          BY <2>7, <2>8, <3>3
        <4>2. call.to \in Nat /\ call.to >= 1
          BY <2>2, <4>1, CallFacts
        <4>3. to <= n /\ results[to].ok /\ v = IF results[to].path THEN "path" ELSE "printed"
          BY <3>3, <4>1 DEF Planner!Resolved
        <4>4. to \in 1 .. n
          <5>1. to <= n
            BY <4>3
          <5>2. CASE call.says = "negative"
            <6>1. ~Planner!RaisesBefore
              <7>1. Len(plan) > 1
                BY <1>0, <2>1, <3>3, <2>7, <5>2 DEF value
              <7>2. QED
                BY <1>1, <7>1 DEF Planner!Step
            <6>2. call.to <= n
              BY <1>0, <4>2, <5>2, <6>1 DEF Planner!RaisesBefore, Planner!Current
            <6>3. QED
              BY <1>0, <4>2, <5>1, <5>2, <6>2 DEF to, Planner!NamedBy
          <5>3. CASE call.says # "negative"
            BY <1>0, <4>2, <5>1, <5>3 DEF to, Planner!NamedBy
          <5>4. QED
            BY <5>2, <5>3
        <4>5. results'[to] = results[to]
          BY <2>11, <4>4
        <4>6. QED
          BY <4>1, <4>3, <4>4, <4>5
      <3>4. n + 1 - 1 = n
        BY <1>0
      <3>5. to = Planner!NamedBy(plan[n + 1], n + 1)
        BY DEF to
      <3>6. \A i \in DOMAIN values' : values'[i] \in {"path", "printed"}
              => /\ plan[i].says \in {"result", "negative"} /\ Planner!NamedBy(plan[i], i) \in 1 .. i - 1
                 /\ results'[Planner!NamedBy(plan[i], i)].ok
                 /\ values'[i] = "path" <=> results'[Planner!NamedBy(plan[i], i)].path
        <4> TAKE i \in DOMAIN values'
        <4>1. CASE i \in 1 .. n
          BY <3>2, <4>1
        <4>2. CASE i = n + 1
          BY <2>11, <3>3, <3>4, <3>5, <4>2
        <4>3. QED
          BY <2>13, <3>1, <4>1, <4>2
      <3>7. QED
        BY <2>1, <3>6 DEF Planner!OnlyEarlierResults, Planner!NamedBy
    <2>17. planned' \in {"running", "done", "failed", "raised"} /\ planned' # "raised"
      BY <2>10
    <2>18. plan' = plan /\ Planner!Converts(plan)' /\ (planned' = "failed" => ~results'[Len(results')].ok)
      BY <2>1, <2>10, <2>11 DEF Planner!Converts
    <2>19. PlannerTypes'
      BY <1>0, <2>11, <2>15, <2>18 DEF PlannerTypes
    <2>20. PlannerEnds'
      <3>1. Planner!ConvertedFirst'
        BY <2>17, <2>18 DEF Planner!ConvertedFirst
      <3>2. QED
        BY <2>10, <2>11, <2>14, <2>15, <2>17, <2>18, <3>1 DEF PlannerEnds
    <2>21. QED
      BY <2>16, <2>19, <2>20 DEF PlannerInv
  <1>2. CASE Planner!Raise
    <2>1. /\ UNCHANGED <<plan, results, values>> /\ planned = "running" /\ planned' = "raised"
          /\ \/ ~Planner!Converts(plan)
             \/ Len(results) < Len(plan) /\ Planner!RaisesBefore
      BY <1>2 DEF Planner!Raise, Planner!Ends
    <2>2. \A i \in DOMAIN results : results[i].ok
      BY <1>0, <2>1 DEF PlannerInv, PlannerEnds
    <2>3. Planner!ConvertedFirst'
      <3>1. Planner!ToldFailed = {}
        BY <2>2 DEF Planner!ToldFailed
      <3>2. /\ Planner!ToldFailed' = Planner!ToldFailed /\ Planner!RaisesBefore' = Planner!RaisesBefore
            /\ Planner!Converts(plan)' = Planner!Converts(plan)
        BY <2>1 DEF Planner!ToldFailed, Planner!RaisesBefore, Planner!Current, Planner!Converts
      <3>3. ~Planner!Converts(plan) => results = <<>>
        BY DEF PlannerInv, PlannerEnds, Planner!ConvertedFirst
      <3>4. QED
        BY <2>1, <3>1, <3>2, <3>3 DEF Planner!ConvertedFirst
    <2>4. Planner!OnlyEarlierResults'
      BY <2>1 DEF PlannerInv, Planner!OnlyEarlierResults, Planner!NamedBy
    <2>5. PlannerEnds'
      BY <1>0, <2>1, <2>2, <2>3 DEF PlannerEnds
    <2>6. PlannerTypes'
      BY <1>0, <2>1 DEF PlannerTypes
    <2>7. QED
      BY <2>4, <2>5, <2>6 DEF PlannerInv
  <1>3. CASE UNCHANGED Planner!tpVars
    BY <1>3
       DEF Planner!tpVars, PlannerInv, PlannerTypes, PlannerEnds, Planner!OnlyEarlierResults,
           Planner!ConvertedFirst, Planner!Converts, Planner!NamedBy, Planner!RaisesBefore, Planner!Current,
           Planner!ToldFailed
  <1>4. QED
    BY <1>1, <1>2, <1>3 DEF Planner!Next

\* What it says of the ends of a plan.
LEMMA PlannerMeans ==
  PlannerInv => Planner!TypeOK /\ Planner!FailureIsLast /\ Planner!OnlyEarlierResults /\ Planner!ConvertedFirst
  <1> SUFFICES ASSUME PlannerInv PROVE Planner!TypeOK /\ Planner!FailureIsLast /\ Planner!OnlyEarlierResults /\ Planner!ConvertedFirst
    OBVIOUS
  <1>1. Planner!TypeOK
    <2>0. PlannerTypes /\ planned \in {"running", "done", "failed", "raised"}
      BY DEF PlannerInv, PlannerEnds
    <2>1. \A i \in DOMAIN plan : plan[i] \in Planner!Call
      BY <2>0, CallFacts DEF PlannerTypes
    <2>2. \A i \in DOMAIN values : values[i] \in StepValues
      BY <2>0 DEF PlannerTypes
    <2>3. QED
      BY <2>0, <2>1, <2>2 DEF Planner!TypeOK, PlannerTypes, StepValues
  <1>2. DOMAIN results = 1 .. Len(results) /\ DOMAIN plan = 1 .. Len(plan) /\ Len(results) \in Nat
    BY DEF PlannerInv, PlannerTypes
  <1>3. planned = "done" => Planner!ToldDone = DOMAIN plan
    BY <1>2 DEF Planner!ToldDone, PlannerInv, PlannerEnds
  <1>4. planned = "failed" => Planner!ToldFailed = {Len(results)}
    <2>1. Len(results) > 0 => Len(results) \in 1 .. Len(results)
      BY <1>2
    <2>2. QED
      BY <1>2, <2>1 DEF Planner!ToldFailed, PlannerInv, PlannerEnds
  <1>5. Planner!FailureIsLast
    BY <1>2, <1>3, <1>4 DEF Planner!FailureIsLast, PlannerInv, PlannerEnds
  <1>6. QED
    BY <1>1, <1>5 DEF PlannerInv, PlannerEnds

-----------------------------------------------------------------------------
(* The buffer before the speech.                                           *)

\* FlattenSeq is defined by a recursive function: what it means to be that function.
Joins(c, f) == f = [i \in 1 .. Len(c) |-> IF i = 1 THEN c[i] ELSE f[i - 1] \o c[i]]
Joined(c)   == CHOOSE f : Joins(c, f)

\* FlattenSeq is the last of those joins.
LEMMA FlattenIs == ASSUME NEW c, Len(c) # 0 PROVE Buffer!FlattenSeq(c) = Joined(c)[Len(c)]
  BY DEF Buffer!FlattenSeq, Joined, Joins

\* No pieces are no text.
LEMMA FlattenEmpty == Buffer!FlattenSeq(<<>>) = <<>>
  BY DEF Buffer!FlattenSeq

\* Prefixes of the function exist, by the least length without one.
LEMMA JoinExists ==
  ASSUME NEW S, NEW c \in Seq(S)
  PROVE  \E f : Joins(c, f)
  <1> DEFINE Upto(n) == \E f : f = [i \in 1 .. n |-> IF i = 1 THEN c[i] ELSE f[i - 1] \o c[i]]
             Gaps == {n \in Nat : ~Upto(n)}
  <1>1. CASE Gaps = {}
    <2>1. Len(c) \in Nat
      OBVIOUS
    <2>2. QED
      BY <1>1, <2>1 DEF Joins
  <1>2. ASSUME Gaps # {} PROVE FALSE
    <2>1. PICK n \in Gaps : \A m \in Gaps : n <= m
      <3>1. Gaps \in SUBSET Nat
        OBVIOUS
      <3>2. QED
        BY <1>2, <3>1, LeastNumber
    <2>2. n \in Nat /\ ~Upto(n)
      OBVIOUS
    <2>3. CASE n = 0
      <3>1. PICK f : f = [i \in 1 .. n |-> 0]
        OBVIOUS
      <3>2. f = [i \in 1 .. n |-> IF i = 1 THEN c[i] ELSE f[i - 1] \o c[i]]
        BY <2>3, <3>1
      <3>3. QED
        BY <2>2, <3>2
    <2>4. CASE n # 0
      <3>1. n - 1 \in Nat /\ ~(n <= n - 1)
        BY <2>2, <2>4
      <3>2. Upto(n - 1)
        BY <2>1, <3>1
      <3>3. PICK f : f = [i \in 1 .. n - 1 |-> IF i = 1 THEN c[i] ELSE f[i - 1] \o c[i]]
        BY <3>2
      <3>4. PICK g : g = [i \in 1 .. n |-> IF i = 1 THEN c[i] ELSE f[i - 1] \o c[i]]
        OBVIOUS
      <3>5. \A i \in 1 .. n - 1 : g[i] = f[i]
        <4>1. TAKE i \in 1 .. n - 1
        <4>2. f[i] = IF i = 1 THEN c[i] ELSE f[i - 1] \o c[i]
          BY <3>3, Zenon
        <4>3. i \in 1 .. n
          BY <2>2
        <4>4. g[i] = IF i = 1 THEN c[i] ELSE f[i - 1] \o c[i]
          BY <3>4, <4>3
        <4>5. QED
          BY <4>2, <4>4
      <3>6. \A i \in 1 .. n : i # 1 => i - 1 \in 1 .. n - 1
        BY <2>2
      <3>7. \A i \in 1 .. n : (IF i = 1 THEN c[i] ELSE f[i - 1] \o c[i]) = (IF i = 1 THEN c[i] ELSE g[i - 1] \o c[i])
        BY <3>5, <3>6
      <3>8. g = [i \in 1 .. n |-> IF i = 1 THEN c[i] ELSE g[i - 1] \o c[i]]
        BY <3>4, <3>7
      <3>9. QED
        BY <2>2, <3>8
    <2>5. QED
      BY <2>3, <2>4
  <1>3. QED
    BY <1>1, <1>2

\* There is such a function.
LEMMA JoinedJoins ==
  ASSUME NEW S, NEW c \in Seq(S)
  PROVE  /\ Joined(c) = [i \in 1 .. Len(c) |-> IF i = 1 THEN c[i] ELSE Joined(c)[i - 1] \o c[i]]
         /\ \A i \in 1 .. Len(c) : Joined(c)[i] = IF i = 1 THEN c[i] ELSE Joined(c)[i - 1] \o c[i]
  <1>1. Joins(c, Joined(c))
    BY JoinExists DEF Joined
  <1>2. PICK f : f = Joined(c)
    OBVIOUS
  <1>3. f = [i \in 1 .. Len(c) |-> IF i = 1 THEN c[i] ELSE f[i - 1] \o c[i]]
    BY <1>1, <1>2 DEF Joins
  <1>4. \A i \in 1 .. Len(c) : f[i] = IF i = 1 THEN c[i] ELSE f[i - 1] \o c[i]
    BY <1>3, Zenon
  <1>5. QED
    BY <1>2, <1>3, <1>4

\* A chunk more at the end.
LEMMA FlattenAppend ==
  ASSUME NEW S, NEW c \in Seq(Seq(S)), NEW x \in Seq(S)
  PROVE  Buffer!FlattenSeq(Append(c, x)) = IF c = <<>> THEN x ELSE Buffer!FlattenSeq(c) \o x
  <1> DEFINE d == Append(c, x)
  <1>1. d \in Seq(Seq(S)) /\ Len(d) = Len(c) + 1 /\ Len(c) \in Nat /\ d[Len(c) + 1] = x /\ \A i \in 1 .. Len(c) : d[i] = c[i]
    OBVIOUS
  <1> HIDE DEF d
  <1>2. PICK f : f = Joined(c)
    OBVIOUS
  <1>3. PICK g : g = Joined(d)
    OBVIOUS
  <1>4. \A i \in 1 .. Len(c) : f[i] = IF i = 1 THEN c[i] ELSE f[i - 1] \o c[i]
    BY <1>2, JoinedJoins
  <1>5. \A i \in 1 .. Len(d) : g[i] = IF i = 1 THEN d[i] ELSE g[i - 1] \o d[i]
    BY <1>1, <1>3, JoinedJoins
  <1> DEFINE Differ == {i \in 1 .. Len(c) : f[i] # g[i]}
  <1>6. Differ = {}
    <2> SUFFICES ASSUME Differ # {} PROVE FALSE
      OBVIOUS
    <2>1. Differ \in SUBSET Nat
      BY <1>1
    <2>2. PICK i \in Differ : \A j \in Differ : i <= j
      BY <2>1, LeastNumber
    <2>3. i \in 1 .. Len(c) /\ i \in 1 .. Len(d) /\ i \in Nat /\ f[i] # g[i]
      BY <1>1
    <2>4. CASE i = 1
      BY <1>1, <1>4, <1>5, <2>3, <2>4
    <2>5. CASE i # 1
      <3>1. i - 1 \in 1 .. Len(c) /\ ~(i <= i - 1)
        BY <1>1, <2>3, <2>5
      <3>2. f[i - 1] = g[i - 1]
        BY <2>2, <3>1
      <3>3. f[i] = f[i - 1] \o c[i] /\ g[i] = g[i - 1] \o d[i] /\ d[i] = c[i]
        BY <1>1, <1>4, <1>5, <2>3, <2>5
      <3>4. QED
        BY <2>3, <3>2, <3>3
    <2>6. QED
      BY <2>4, <2>5
  <1>7. Buffer!FlattenSeq(d) = g[Len(c) + 1]
    BY <1>1, <1>3, FlattenIs
  <1>8. Len(c) + 1 \in 1 .. Len(d)
    BY <1>1
  <1>9. CASE c = <<>>
    <2>1. Len(c) = 0
      BY <1>9
    <2>2. QED
      BY <1>1, <1>5, <1>7, <1>8, <1>9, <2>1 DEF d
  <1>10. CASE c # <<>>
    <2>1. Len(c) # 0 /\ Len(c) \in 1 .. Len(c)
      BY <1>1, <1>10
    <2>2. Buffer!FlattenSeq(c) = f[Len(c)]
      BY <1>2, <2>1, FlattenIs
    <2>3. g[Len(c)] = f[Len(c)]
      BY <1>6, <2>1
    <2>4. g[Len(c) + 1] = g[Len(c)] \o x
      <3>1. PICK k : k = Len(c) + 1
        OBVIOUS
      <3>2. k # 1 /\ k - 1 = Len(c) /\ d[k] = x
        BY <1>1, <2>1, <3>1
      <3>3. g[k] = g[k - 1] \o d[k]
        BY <1>5, <1>8, <3>1, <3>2
      <3>4. QED
        BY <3>1, <3>2, <3>3
    <2>5. QED
      BY <1>7, <1>10, <2>2, <2>3, <2>4 DEF d
  <1>11. QED
    BY <1>9, <1>10

\* The cardinality the buffer counts with is that of the library.
LEMMA BufferCount == \A S : Buffer!Cardinality(S) = Cardinality(S)
  BY DEF Buffer!Cardinality, Cardinality

\* A word begins at some of the places of a text.
LEMMA StartsFacts ==
  ASSUME NEW t \in Seq(Pieces)
  PROVE  /\ Buffer!Starts(t) \in SUBSET (1 .. Len(t)) /\ Len(t) \in Nat
         /\ IsFiniteSet(Buffer!Starts(t)) /\ Buffer!WordCount(t) = Cardinality(Buffer!Starts(t))
         /\ Buffer!WordCount(t) \in Nat
         /\ t # <<>> => 1 \in Buffer!Starts(t)
  <1>1. Buffer!Starts(t) \in SUBSET (1 .. Len(t)) /\ Len(t) \in Nat
    BY DEF Buffer!Starts
  <1>2. IsFiniteSet(Buffer!Starts(t))
    <2>1. IsFiniteSet(1 .. Len(t))
      BY <1>1, FS_Interval
    <2>2. QED
      BY <1>1, <2>1, FS_Subset
  <1>3. Buffer!WordCount(t) = Cardinality(Buffer!Starts(t)) /\ Buffer!WordCount(t) \in Nat
    BY <1>2, FS_CardinalityType, BufferCount DEF Buffer!WordCount
  <1>4. t # <<>> => 1 \in Buffer!Starts(t)
    BY DEF Buffer!Starts
  <1>5. QED
    BY <1>1, <1>2, <1>3, <1>4

\* The beginnings of words in a text cut after k pieces are those up to k.
LEMMA StartsOfPrefix ==
  ASSUME NEW t \in Seq(Pieces), NEW k \in 1 .. Len(t)
  PROVE  /\ SubSeq(t, 1, k) \in Seq(Pieces) /\ Len(SubSeq(t, 1, k)) = k
         /\ Buffer!Starts(SubSeq(t, 1, k)) = {j \in Buffer!Starts(t) : j <= k}
  <1>1. k \in Nat /\ 1 <= k /\ k <= Len(t) /\ Len(t) \in Nat
    OBVIOUS
  <1>2. PICK u : u = SubSeq(t, 1, k)
    OBVIOUS
  <1>3. u \in Seq(Pieces) /\ Len(u) = k /\ \A i \in 1 .. k : u[i] = t[i]
    BY <1>1, <1>2
  <1>4. DOMAIN u = 1 .. k /\ DOMAIN t = 1 .. Len(t)
    BY <1>3
  <1>5. \A j : j \in 1 .. k <=> j \in 1 .. Len(t) /\ j <= k
    BY <1>1
  <1>6. Buffer!Starts(u) = {j \in Buffer!Starts(t) : j <= k}
    BY <1>3, <1>4, <1>5 DEF Buffer!Starts
  <1>7. QED
    BY <1>2, <1>3, <1>6

\* A text of n words can be cut after the n-th of them.
LEMMA CutExists ==
  ASSUME NEW t \in Seq(Pieces), NEW n \in Nat, 1 <= n, n <= Buffer!WordCount(t)
  PROVE  /\ Buffer!HardCut(t, n) \in 1 .. Len(t)
         /\ Buffer!WordCount(SubSeq(t, 1, Buffer!HardCut(t, n))) = n
  <1> DEFINE S == Buffer!Starts(t)
             N == Len(t)
             Good(k) == Buffer!WordCount(SubSeq(t, 1, k)) = n /\ (k = Len(t) \/ k + 1 \in Buffer!Starts(t))
  <1>1. /\ S \in SUBSET (1 .. N)
        /\ N \in Nat
        /\ IsFiniteSet(S)
        /\ Buffer!WordCount(t) = Cardinality(S)
        /\ Cardinality(S) \in Nat
    BY StartsFacts
  <1>0. \A j \in S : j \in Nat /\ 1 <= j /\ j <= N
    <2>1. \A j \in 1 .. N : j \in Nat /\ 1 <= j /\ j <= N
      BY <1>1
    <2>2. QED
      BY <1>1, <2>1
  <1> HIDE DEF S, N
  <1>2. n \in 1 .. Cardinality(S)
    BY <1>1
  <1>3. PICK i \in S : Cardinality({j \in S : j <= i}) = n
    BY <1>1, <1>2, KthNumber
  <1> DEFINE Later == {j \in S : j > i}
  <1>4. \E k \in 1 .. N : {j \in S : j <= k} = {j \in S : j <= i} /\ (k = N \/ k + 1 \in S)
    <2>1. CASE Later = {}
      <3>1. \A j \in S : j <= N /\ j <= i
        BY <1>0, <2>1
      <3>2. N \in 1 .. N
        BY <1>0, <1>1, <1>3
      <3>3. QED
        BY <3>1, <3>2
    <2>2. CASE Later # {}
      <3>1. Later \in SUBSET Nat
        BY <1>0
      <3>2. PICK m \in Later : \A j \in Later : m <= j
        BY <2>2, <3>1, LeastNumber
      <3>3. m \in Nat /\ m > i /\ m \in S /\ i \in Nat /\ 1 <= i /\ m <= N
        BY <1>0, <1>3
      <3>4. m - 1 \in 1 .. N /\ m - 1 + 1 \in S
        BY <1>1, <3>3
      <3>5. ASSUME NEW j \in S PROVE j <= m - 1 <=> j <= i
        <4>1. j \in Nat
          BY <1>0
        <4>2. j > i => m <= j
          BY <3>2
        <4>3. QED
          BY <3>3, <4>1, <4>2
      <3>6. QED
        BY <3>4, <3>5
    <2>3. QED
      BY <2>1, <2>2
  <1>5. PICK k \in 1 .. N : {j \in S : j <= k} = {j \in S : j <= i} /\ (k = N \/ k + 1 \in S)
    BY <1>4
  <1>6. Good(k)
    <2>1. SubSeq(t, 1, k) \in Seq(Pieces) /\ Buffer!Starts(SubSeq(t, 1, k)) = {j \in S : j <= k}
      BY StartsOfPrefix DEF S, N
    <2>2. Buffer!WordCount(SubSeq(t, 1, k)) = n
      BY <1>3, <1>5, <2>1, StartsFacts
    <2>3. QED
      BY <1>5, <2>2 DEF S, N
  <1>7. DOMAIN t = 1 .. N
    BY DEF N
  <1>8. Buffer!HardCut(t, n) = CHOOSE l \in DOMAIN t : Good(l)
    BY <1>1 DEF Buffer!HardCut
  <1> HIDE DEF Good
  <1>9. Buffer!HardCut(t, n) \in DOMAIN t /\ Good(Buffer!HardCut(t, n))
    <2>1. PICK c : c = CHOOSE l \in DOMAIN t : Good(l)
      OBVIOUS
    <2>2. c \in DOMAIN t /\ Good(c)
      BY <1>6, <1>7, <2>1
    <2>3. QED
      BY <1>8, <2>1, <2>2
  <1>10. QED
    BY <1>7, <1>9 DEF N, Good

\* The limits.
LEMMA LimitsAreNumbers == Hard \in Nat /\ Hard >= 1 /\ Soft \in Nat
  BY CommandsAssumption

\* Where a text is cut it has a piece, and a text at the hard limit is cut unless a connector
\* stands at its end or the limit is one word.
LEMMA CutFacts ==
  ASSUME NEW t \in Seq(Pieces)
  PROVE  /\ Buffer!Cut(t) \in 0 .. Len(t)
         /\ Hard > 1 /\ Buffer!WordCount(t) >= Hard /\ ~Buffer!EndsWithConnector(t) => Buffer!Cut(t) > 0
  <1>0. Len(t) \in Nat /\ DOMAIN t = 1 .. Len(t) /\ Buffer!WordCount(t) \in Nat
    BY StartsFacts
  <1>1. Buffer!LastBoundary(t) \in 0 .. Len(t)
    <2> DEFINE M == {k \in DOMAIN t : t[k].mark}
               Top1(k) == \A j \in M : j <= k
    <2>1. CASE M = {}
      BY <1>0, <2>1 DEF Buffer!LastBoundary
    <2>2. CASE M # {}
      <3>1. M \in SUBSET (0 .. Len(t))
        BY <1>0
      <3>2. \E k \in M : Top1(k)
        BY <1>0, <2>2, <3>1, GreatestNumber
      <3>3. Buffer!LastBoundary(t) = CHOOSE k \in M : Top1(k)
        BY <2>2 DEF Buffer!LastBoundary
      <3> HIDE DEF M, Top1
      <3>4. (CHOOSE k \in M : Top1(k)) \in M
        BY <3>2
      <3>5. QED
        BY <3>1, <3>3, <3>4
    <2>3. QED
      BY <2>1, <2>2
  <1>2. Buffer!SoftFlush(t) \in 0 .. Len(t)
    BY <1>0, <1>1 DEF Buffer!SoftFlush
  <1>3. /\ Buffer!HardFlush(t) \in 0 .. Len(t)
        /\ Hard > 1 /\ Buffer!WordCount(t) >= Hard /\ ~Buffer!EndsWithConnector(t) => Buffer!HardFlush(t) > 0
    <2>1. CASE Buffer!WordCount(t) < Hard \/ Buffer!EndsWithConnector(t)
      BY <1>0, <2>1, LimitsAreNumbers DEF Buffer!HardFlush
    <2>2. CASE ~(Buffer!WordCount(t) < Hard \/ Buffer!EndsWithConnector(t))
      <3> DEFINE cut  == Buffer!HardCut(t, Hard)
                 next == Buffer!HardCut(t, Hard + 1)
                 at_  == IF Buffer!EndsWithConnector(Buffer!Upto(t, cut)) /\ next > cut THEN next ELSE cut
      <3>1. cut \in 1 .. Len(t) /\ Buffer!WordCount(SubSeq(t, 1, cut)) = Hard
        BY <1>0, <2>2, LimitsAreNumbers, CutExists
      <3>2. next = 0 \/ (next \in 1 .. Len(t) /\ Buffer!WordCount(SubSeq(t, 1, next)) = Hard + 1)
        <4>1. CASE Buffer!WordCount(t) < Hard + 1
          BY <4>1 DEF Buffer!HardCut
        <4>2. CASE Hard + 1 <= Buffer!WordCount(t)
          BY <1>0, <4>2, LimitsAreNumbers, CutExists
        <4>3. QED
          BY <1>0, <4>1, <4>2, LimitsAreNumbers
      <3>3. Buffer!HardFlush(t) = IF Buffer!WordCount(Buffer!Upto(t, at_)) > 1 THEN at_ ELSE 0
        BY <2>2 DEF Buffer!HardFlush
      <3> HIDE DEF cut, next
      <3>4. at_ \in 1 .. Len(t) /\ Buffer!WordCount(SubSeq(t, 1, at_)) \in {Hard, Hard + 1}
        BY <1>0, <3>1, <3>2
      <3>5. QED
        <4> HIDE DEF at_
        <4>1. Buffer!WordCount(Buffer!Upto(t, at_)) = Hard \/ Buffer!WordCount(Buffer!Upto(t, at_)) = Hard + 1
          BY <3>4 DEF Buffer!Upto
        <4>2. QED
          BY <1>0, <3>3, <3>4, <4>1, LimitsAreNumbers
    <2>3. QED
      BY <2>1, <2>2
  <1>4. QED
    BY <1>0, <1>2, <1>3 DEF Buffer!Cut

BufferInv ==
  /\ Buffer!TypeOK /\ Buffer!NothingLost
  /\ Buffer!FlattenSeq(chunks) \in Seq(Pieces)

\* Nothing was heard of an answer.
LEMMA BufferBegins == Buffer!Init => BufferInv
  <1> SUFFICES ASSUME Buffer!Init PROVE BufferInv
    OBVIOUS
  <1>1. buf = <<>> /\ chunks = <<>> /\ received = <<>> /\ ended = FALSE
    BY DEF Buffer!Init
  <1>2. Buffer!FlattenSeq(chunks) = <<>>
    BY <1>1, FlattenEmpty
  <1>3. <<>> \in Seq(Pieces) /\ <<>> \in Seq(Seq(Pieces))
    OBVIOUS
  <1>4. Buffer!FlattenSeq(chunks) \o buf = received
    <2>1. <<>> \o <<>> = <<>>
      BY <1>3, ConcatEmptySeq
    <2>2. QED
      BY <1>1, <1>2, <2>1, Zenon
  <1>5. Buffer!TypeOK
    BY <1>1, <1>3, Zenon DEF Buffer!TypeOK
  <1>6. Buffer!FlattenSeq(chunks) \in Seq(Pieces)
    BY <1>2, <1>3, Zenon
  <1>7. QED
    BY <1>4, <1>5, <1>6, Zenon DEF BufferInv, Buffer!NothingLost

\* What one chunk more adds to what was given out.
LEMMA ChunkAdds ==
  ASSUME NEW c \in Seq(Seq(Pieces)), NEW x \in Seq(Pieces), Buffer!FlattenSeq(c) \in Seq(Pieces)
  PROVE  Buffer!FlattenSeq(Append(c, x)) = Buffer!FlattenSeq(c) \o x
  <1>1. CASE c = <<>>
    <2>1. Buffer!FlattenSeq(Append(c, x)) = x /\ Buffer!FlattenSeq(c) = <<>>
      BY <1>1, FlattenAppend, FlattenEmpty
    <2>2. <<>> \o x = x
      BY ConcatEmptySeq
    <2>3. QED
      BY <2>1, <2>2
  <1>2. CASE c # <<>>
    BY <1>2, FlattenAppend
  <1>3. QED
    BY <1>1, <1>2

\* Texts are joined in any order.
LEMMA TextsAssociate ==
  \A x, y, z \in Seq(Pieces) : (x \o y) \o z = x \o (y \o z)
  <1> TAKE x, y, z \in Seq(Pieces)
  <1>1. QED
    BY ConcatAssociative

\* A chunk for each token that reaches the limit, without the box.
GivesChunk ==
  Hard > 1 /\ received' # received /\ Buffer!WordCount(Append(buf, received'[Len(received')])) >= Hard
    /\ ~Buffer!EndsWithConnector(Append(buf, received'[Len(received')]))
  => Len(chunks') = Len(chunks) + 1

\* A token is kept, in the buffer or in what it makes of it.
LEMMA BufferToken ==
  ASSUME BufferInv, NEW p \in Pieces, Buffer!AddToken(p)
  PROVE  BufferInv' /\ GivesChunk
  <1> DEFINE flat == Buffer!FlattenSeq(chunks)
  <1>0. /\ buf \in Seq(Pieces) /\ received \in Seq(Pieces) /\ chunks \in Seq(Seq(Pieces)) /\ ended \in BOOLEAN
        /\ flat \o buf = received /\ flat \in Seq(Pieces)
    BY DEF BufferInv, Buffer!TypeOK, Buffer!NothingLost
  <1>1. PICK t : t = Append(buf, p)
    OBVIOUS
  <1>2. t \in Seq(Pieces) /\ Len(t) \in Nat
    BY <1>0, <1>1
  <1>3. PICK k : k = Buffer!Cut(t)
    OBVIOUS
  <1>4. k \in 0 .. Len(t) /\ k \in Nat /\ k <= Len(t)
    BY <1>2, <1>3, CutFacts
  <1>5. /\ received' = Append(received, p) /\ ended' = ended
        /\ chunks' = IF k > 0 THEN Append(chunks, SubSeq(t, 1, k)) ELSE chunks
        /\ buf' = SubSeq(t, k + 1, Len(t))
    BY <1>1, <1>3 DEF Buffer!AddToken, Buffer!Upto, Buffer!Rest
  <1>6. /\ SubSeq(t, 1, k) \in Seq(Pieces)
        /\ SubSeq(t, k + 1, Len(t)) \in Seq(Pieces)
        /\ SubSeq(t, 1, k) \o SubSeq(t, k + 1, Len(t)) = t
    <2>1. SubSeq(t, 1, k) \o SubSeq(t, k + 1, Len(t)) = SubSeq(t, 1, Len(t))
      <3>1. 1 \in 1 .. Len(t) + 1 /\ k \in 1 - 1 .. Len(t) /\ Len(t) \in k .. Len(t)
        BY <1>2, <1>4
      <3>2. QED
        BY <1>2, <3>1, ConcatAdjacentSubSeq
    <2>2. SubSeq(t, 1, Len(t)) = t
      BY <1>2
    <2>3. SubSeq(t, 1, k) \in Seq(Pieces)
      BY <1>2, <1>4
    <2>4. SubSeq(t, k + 1, Len(t)) \in Seq(Pieces)
      BY <1>2, <1>4
    <2>5. QED
      BY <2>1, <2>2, <2>3, <2>4
  <1> HIDE DEF flat
  <1>7. received' = flat \o t /\ received' \in Seq(Pieces)
    <2>1. Append(received, p) = received \o <<p>> /\ t = buf \o <<p>> /\ <<p>> \in Seq(Pieces)
      BY <1>0, <1>1, AppendIsConcat
    <2>2. (flat \o buf) \o <<p>> = flat \o (buf \o <<p>>)
      <3>1. flat \in Seq(Pieces) /\ buf \in Seq(Pieces) /\ <<p>> \in Seq(Pieces)
        BY <1>0, <2>1, Zenon
      <3>2. QED
        BY <3>1, TextsAssociate, Zenon
    <2>3. QED
      BY <1>0, <1>5, <2>1, <2>2, SMTT(30)
  <1>8. /\ chunks' \in Seq(Seq(Pieces)) /\ Buffer!FlattenSeq(chunks') = flat \o SubSeq(t, 1, k)
        /\ Len(chunks') = IF k > 0 THEN Len(chunks) + 1 ELSE Len(chunks)
    <2>1. CASE k > 0
      <3>1. chunks' = Append(chunks, SubSeq(t, 1, k))
        BY <1>5, <2>1
      <3>2. Buffer!FlattenSeq(Append(chunks, SubSeq(t, 1, k))) = flat \o SubSeq(t, 1, k)
        BY <1>0, <1>6, ChunkAdds DEF flat
      <3>3. QED
        BY <1>0, <1>6, <2>1, <3>1, <3>2
    <2>2. CASE k = 0
      <3>1. SubSeq(t, 1, k) = <<>>
        BY <2>2, SubSeqEmpty
      <3>2. chunks' = chunks /\ flat \o <<>> = flat
        BY <1>0, <1>5, <2>2, ConcatEmptySeq
      <3>3. QED
        BY <1>0, <2>2, <3>1, <3>2 DEF flat
    <2>3. QED
      BY <1>4, <2>1, <2>2
  <1>9. Buffer!FlattenSeq(chunks') \in Seq(Pieces) /\ Buffer!FlattenSeq(chunks') \o buf' = received'
    <2>1. (flat \o SubSeq(t, 1, k)) \o SubSeq(t, k + 1, Len(t)) = flat \o t
      <3>1. PICK x, y : x = SubSeq(t, 1, k) /\ y = SubSeq(t, k + 1, Len(t))
        OBVIOUS
      <3>2. flat \in Seq(Pieces) /\ x \in Seq(Pieces) /\ y \in Seq(Pieces) /\ x \o y = t
        BY <1>0, <1>6, <3>1, Zenon
      <3>3. (flat \o x) \o y = flat \o (x \o y)
        BY <3>2, TextsAssociate, Zenon
      <3>4. QED
        BY <3>1, <3>2, <3>3, Zenon
    <2>2. flat \o SubSeq(t, 1, k) \in Seq(Pieces)
      BY <1>0, <1>6, ConcatProperties
    <2>3. QED
      BY <1>5, <1>7, <1>8, <2>1, <2>2
  <1>10. BufferInv'
    <2>1. buf' \in Seq(Pieces)
      BY <1>5, <1>6
    <2>2. QED
      BY <1>0, <1>5, <1>7, <1>8, <1>9, <2>1 DEF BufferInv, Buffer!TypeOK, Buffer!NothingLost
  <1>11. GivesChunk
    <2>1. Append(buf, received'[Len(received')]) = t
      BY <1>0, <1>1, <1>5
    <2>2. Hard > 1 /\ Buffer!WordCount(t) >= Hard /\ ~Buffer!EndsWithConnector(t) => k > 0
      BY <1>2, <1>3, CutFacts
    <2>3. QED
      BY <1>8, <2>1, <2>2 DEF GivesChunk
  <1>12. QED
    BY <1>10, <1>11

\* The last flush keeps what is left.
LEMMA BufferFlush ==
  ASSUME BufferInv, Buffer!Flush
  PROVE  BufferInv'
  <1>0. /\ buf \in Seq(Pieces) /\ received \in Seq(Pieces) /\ chunks \in Seq(Seq(Pieces))
        /\ Buffer!FlattenSeq(chunks) \o buf = received /\ Buffer!FlattenSeq(chunks) \in Seq(Pieces)
    BY DEF BufferInv, Buffer!TypeOK, Buffer!NothingLost
  <1>1. buf' = <<>> /\ received' = received /\ ended' = TRUE /\ chunks' = IF buf = <<>> THEN chunks ELSE Append(chunks, buf)
    BY DEF Buffer!Flush
  <1>2. Buffer!FlattenSeq(chunks') = received /\ chunks' \in Seq(Seq(Pieces))
    <2>1. CASE buf = <<>>
      BY <1>0, <1>1, <2>1, ConcatEmptySeq
    <2>2. CASE buf # <<>>
      <3>1. PICK c : c = Append(chunks, buf)
        OBVIOUS
      <3>2. c \in Seq(Seq(Pieces))
        BY <1>0, <3>1
      <3>3. Buffer!FlattenSeq(c) = received
        BY <1>0, <3>1, ChunkAdds
      <3>4. chunks' = c
        BY <1>1, <2>2, <3>1
      <3>5. QED
        BY <3>2, <3>3, <3>4, Zenon
    <2>3. QED
      BY <2>1, <2>2
  <1>3. received \o <<>> = received
    BY <1>0, ConcatEmptySeq
  <1>4. <<>> \in Seq(Pieces)
    OBVIOUS
  <1>5. QED
    BY <1>0, <1>1, <1>2, <1>3, <1>4 DEF BufferInv, Buffer!TypeOK, Buffer!NothingLost

\* Tokens and the flush keep it.
LEMMA BufferSteps ==
  ASSUME BufferInv, [Buffer!Next]_Buffer!sbVars
  PROVE  BufferInv' /\ [GivesChunk]_Buffer!sbVars
  <1>1. ASSUME NEW p \in Pieces, Buffer!AddToken(p) PROVE BufferInv' /\ [GivesChunk]_Buffer!sbVars
    BY <1>1, BufferToken
  <1>2. CASE Buffer!Flush
    <2>1. received' = received
      BY <1>2 DEF Buffer!Flush
    <2>2. QED
      BY <1>2, <2>1, BufferFlush DEF GivesChunk
  <1>3. CASE UNCHANGED Buffer!sbVars
    BY <1>3 DEF Buffer!sbVars, BufferInv, Buffer!TypeOK, Buffer!NothingLost
  <1>4. QED
    BY <1>1, <1>2, <1>3 DEF Buffer!Next

USE AbsentAssumption

-----------------------------------------------------------------------------
(* The catalog of applications.                                            *)

\* The scan s has read what is installed and has not been applied.
Busy(s) == scan[s].at \in {"save", "apply"}

\* The cache file lists what is asked for.
InCache == cache # NoCache /\ request.app \in cache.apps

\* Another scan than the request's own has read and is not applied.
OtherBusy == \E s \in Catalog!Scanners \ {"miss"} : Busy(s)

CatalogTypes ==
  /\ installed \subseteq Apps /\ catalog \subseteq Apps
  /\ cache \in {NoCache} \cup [apps : SUBSET Apps, fresh : BOOLEAN]
  /\ lock \in Catalog!Locking \cup {Absent}
  /\ scan \in [Catalog!Scanners -> [at : {"rest", "begin", "cached", "read", "save", "apply"}, found : SUBSET Apps]]
  /\ request \in [app : Apps \cup {Absent}, at : {"idle", "missed", "waits", "again", "known", "unknown"}, there : BOOLEAN]

\* A request waits while its own scan runs, which never reads the cache; who does has one.
OwnScan ==
  /\ request.at = "waits" <=> scan["miss"].at # "rest"
  /\ scan["miss"].at # "cached"
  /\ \A s \in Catalog!Scanners : scan[s].at = "cached" => cache # NoCache

\* What was installed when it was asked for, and stayed so, is in what the request's own scan
\* read; once that is saved it is in the cache, or another scan is about to overtake; once it
\* is applied it is in the catalog, in the cache and in whatever is applied next.
OwnScanFinds ==
  /\ request.there => request.app \in installed
  /\ Busy("miss") /\ request.there => request.app \in scan["miss"].found
  /\ scan["miss"].at = "apply" /\ request.there => overtaken \/ InCache \/ OtherBusy
  /\ request.at = "again" /\ request.there =>
       overtaken \/ (InCache /\ request.app \in catalog
                     /\ \A s \in Catalog!Scanners : Busy(s) => request.app \in scan[s].found)

CatalogInv == CatalogTypes /\ OwnScan /\ OwnScanFinds /\ Catalog!UnknownIsTrue

\* One scan goes on.
LEMMA ScanGoes ==
  ASSUME CatalogTypes, NEW s \in Catalog!Scanners, NEW there \in {"rest", "begin", "cached", "read", "save", "apply"},
         NEW set \in SUBSET Apps,
         \/ scan' = [scan EXCEPT ![s].at = there] /\ set = scan[s].found
         \/ scan' = [scan EXCEPT ![s] = [at |-> there, found |-> set]]
  PROVE  /\ scan' \in [Catalog!Scanners -> [at : {"rest", "begin", "cached", "read", "save", "apply"}, found : SUBSET Apps]]
         /\ scan'[s].at = there /\ scan'[s].found = set
         /\ \A t \in Catalog!Scanners \ {s} : scan'[t] = scan[t]
  <1>0. scan \in [Catalog!Scanners -> [at : {"rest", "begin", "cached", "read", "save", "apply"}, found : SUBSET Apps]]
    BY DEF CatalogTypes
  <1>1. CASE scan' = [scan EXCEPT ![s].at = there] /\ set = scan[s].found
    BY <1>0, <1>1
  <1>2. CASE scan' = [scan EXCEPT ![s] = [at |-> there, found |-> set]]
    BY <1>0, <1>2
  <1>3. QED
    BY <1>1, <1>2

\* The scanners that are named.
LEMMA ScannersAre ==
  /\ "miss" \in Catalog!Scanners /\ "rescan" \in Catalog!Scanners /\ "startup" \in Catalog!Scanners
  /\ Catalog!Watchers \subseteq Catalog!Scanners /\ "miss" \notin Catalog!Watchers
  BY DEF Catalog!Scanners, Catalog!Watchers

\* Nothing was scanned, and the first scan is about to begin.
LEMMA CatalogBegins == Catalog!Init => CatalogInv
  <1> SUFFICES ASSUME Catalog!Init PROVE CatalogInv
    OBVIOUS
  <1>1. /\ \A s \in Catalog!Scanners : scan[s] = [at |-> IF s = "startup" THEN "begin" ELSE "rest", found |-> {}]
        /\ scan = [s \in Catalog!Scanners |-> scan[s]]
    BY DEF Catalog!Init, Catalog!Resting
  <1>2. scan \in [Catalog!Scanners -> [at : {"rest", "begin", "cached", "read", "save", "apply"}, found : SUBSET Apps]]
    BY <1>1
  <1>3. request = [app |-> Absent, at |-> "idle", there |-> FALSE]
    BY DEF Catalog!Init, Catalog!NoRequest
  <1>4. CatalogTypes
    BY <1>2, <1>3 DEF Catalog!Init, CatalogTypes
  <1>5. OwnScan /\ OwnScanFinds /\ Catalog!UnknownIsTrue
    BY <1>1, <1>3, ScannersAre DEF OwnScan, OwnScanFinds, Busy, Catalog!UnknownIsTrue
  <1>6. QED
    BY <1>4, <1>5 DEF CatalogInv

\* A scan begins, from the cache or from the machine.
LEMMA CatalogBegin ==
  ASSUME CatalogInv, NEW s \in Catalog!Scanners, Catalog!Begin(s)
  PROVE  CatalogInv'
  <1>1. PICK there \in {"read", "cached"} : scan' = [scan EXCEPT ![s].at = there] /\ (s = "miss" => there = "read")
                                        /\ (there = "cached" => cache # NoCache)
    BY DEF Catalog!Begin, Catalog!Goes, Catalog!Forced
  <1>2. /\ scan' \in [Catalog!Scanners -> [at : {"rest", "begin", "cached", "read", "save", "apply"}, found : SUBSET Apps]]
        /\ scan'[s].at = there /\ scan'[s].found = scan[s].found
        /\ \A t \in Catalog!Scanners \ {s} : scan'[t] = scan[t]
    <2>1. scan[s].found \in SUBSET Apps
      BY DEF CatalogInv, CatalogTypes
    <2>2. CatalogTypes /\ there \in {"rest", "begin", "cached", "read", "save", "apply"}
      BY <1>1 DEF CatalogInv
    <2>3. PICK set : set = scan[s].found
      OBVIOUS
    <2>4. set \in SUBSET Apps /\ scan' = [scan EXCEPT ![s].at = there] /\ set = scan[s].found
      BY <1>1, <2>1, <2>3
    <2>5. QED
      BY <2>2, <2>3, <2>4, ScanGoes
  <1>3. scan[s].at = "begin" /\ UNCHANGED <<installed, catalog, cache, request, overtaken>>
    BY DEF Catalog!Begin, Catalog!At
  <1>4. lock' \in Catalog!Locking \cup {Absent}
    BY DEF Catalog!Begin, CatalogInv, CatalogTypes
  <1>5. CatalogTypes'
    BY <1>2, <1>3, <1>4 DEF CatalogInv, CatalogTypes
  <1>6. \A t \in Catalog!Scanners : Busy(t)' => t # s /\ Busy(t) /\ scan'[t] = scan[t]
    BY <1>2 DEF Busy
  <1>7. \A t \in Catalog!Scanners : Busy(t) => Busy(t)'
    BY <1>2, <1>3 DEF Busy
  <1>8. OwnScan'
    BY <1>1, <1>2, <1>3, ScannersAre DEF CatalogInv, OwnScan
  <1>9. OwnScanFinds'
    BY <1>1, <1>2, <1>3, <1>6, <1>7, ScannersAre DEF CatalogInv, OwnScanFinds, InCache, OtherBusy
  <1>10. QED
    BY <1>3, <1>5, <1>8, <1>9 DEF CatalogInv, Catalog!UnknownIsTrue

\* A scan takes the cache, or reads the machine.
LEMMA CatalogFromCache ==
  ASSUME CatalogInv, NEW s \in Catalog!Scanners, Catalog!FromCache(s)
  PROVE  CatalogInv'
  <1>0. /\ s # "miss"
        /\ scan[s].at = "cached"
        /\ UNCHANGED <<installed, catalog, cache, lock, request, overtaken>>
    BY DEF Catalog!FromCache, Catalog!At, CatalogInv, OwnScan
  <1>1. PICK there \in {"apply", "read"}, set \in SUBSET Apps : scan' = [scan EXCEPT ![s] = [at |-> there, found |-> set]] /\ set \in SUBSET Apps
                                 /\ (there = "apply" => set = cache.apps)
    <2>0. scan[s] = [at |-> scan[s].at, found |-> scan[s].found] /\ scan[s].found \in SUBSET Apps
      BY DEF CatalogInv, CatalogTypes
    <2>1. CASE cache.fresh /\ cache # NoCache
      <3>1. cache.apps \in SUBSET Apps
        BY <2>1 DEF CatalogInv, CatalogTypes
      <3>2. scan' = [scan EXCEPT ![s] = [at |-> "apply", found |-> cache.apps]]
        BY <2>1 DEF Catalog!FromCache
      <3>3. QED
        BY <3>1, <3>2
    <2>2. CASE ~cache.fresh
      <3>1. scan' = [scan EXCEPT ![s] = [@ EXCEPT !.at = "read"]]
        BY <2>2 DEF Catalog!FromCache
      <3>2. [scan[s] EXCEPT !.at = "read"] = [at |-> "read", found |-> scan[s].found]
        BY <2>0
      <3>3. scan' = [scan EXCEPT ![s] = [at |-> "read", found |-> scan[s].found]]
        BY <3>1, <3>2
      <3>4. QED
        BY <2>0, <3>3
    <2>3. cache # NoCache
      BY <1>0 DEF CatalogInv, OwnScan
    <2>4. QED
      BY <2>1, <2>2, <2>3
  <1>2. /\ scan' \in [Catalog!Scanners -> [at : {"rest", "begin", "cached", "read", "save", "apply"}, found : SUBSET Apps]]
        /\ scan'[s].at = there /\ scan'[s].found = set
        /\ \A t \in Catalog!Scanners \ {s} : scan'[t] = scan[t]
    <2>2. CatalogTypes /\ there \in {"rest", "begin", "cached", "read", "save", "apply"}
      BY <1>1 DEF CatalogInv
    <2>3. QED
      BY <1>1, <2>2, ScanGoes
  <1>3. CatalogTypes'
    BY <1>0, <1>2 DEF CatalogInv, CatalogTypes
  <1>4. \A t \in Catalog!Scanners \ {s} : Busy(t)' <=> Busy(t)
    BY <1>2 DEF Busy
  <1>5. ~Busy(s) /\ (Busy(s)' => set = cache.apps)
    BY <1>0, <1>1, <1>2 DEF Busy
  <1>6. OwnScan'
    BY <1>0, <1>1, <1>2, ScannersAre DEF CatalogInv, OwnScan
  <1>7. OwnScanFinds'
    BY <1>0, <1>2, <1>4, <1>5, ScannersAre DEF CatalogInv, OwnScanFinds, InCache, OtherBusy
  <1>8. QED
    BY <1>0, <1>3, <1>6, <1>7 DEF CatalogInv, Catalog!UnknownIsTrue

\* A scan reads what is installed.
LEMMA CatalogRead ==
  ASSUME CatalogInv, NEW s \in Catalog!Scanners, Catalog!Read(s)
  PROVE  CatalogInv'
  <1>0. /\ scan[s].at = "read" /\ UNCHANGED <<installed, catalog, cache, lock, request, overtaken>>
        /\ scan' = [scan EXCEPT ![s] = [at |-> "save", found |-> installed]] /\ installed \in SUBSET Apps
    BY DEF Catalog!Read, Catalog!At, CatalogInv, CatalogTypes
  <1>2. /\ scan' \in [Catalog!Scanners -> [at : {"rest", "begin", "cached", "read", "save", "apply"}, found : SUBSET Apps]]
        /\ scan'[s].at = "save" /\ scan'[s].found = installed
        /\ \A t \in Catalog!Scanners \ {s} : scan'[t] = scan[t]
    <2>2. CatalogTypes /\ "save" \in {"rest", "begin", "cached", "read", "save", "apply"}
      BY DEF CatalogInv
    <2>3. QED
      BY <1>0, <2>2, ScanGoes
  <1>3. CatalogTypes'
    BY <1>0, <1>2 DEF CatalogInv, CatalogTypes
  <1>4. \A t \in Catalog!Scanners \ {s} : Busy(t)' <=> Busy(t)
    BY <1>2 DEF Busy
  <1>6. OwnScan'
    BY <1>0, <1>2, ScannersAre DEF CatalogInv, OwnScan
  <1>7. OwnScanFinds'
    <2>0. ~Busy(s) /\ (OtherBusy => OtherBusy') /\ (InCache' <=> InCache)
      BY <1>0, <1>4 DEF Busy, OtherBusy, InCache
    <2>1. (request.there => request.app \in installed)'
      BY <1>0 DEF CatalogInv, OwnScanFinds
    <2>2. (Busy("miss") /\ request.there => request.app \in scan["miss"].found)'
      <3>1. CASE s = "miss"
        BY <1>0, <1>2, <2>1, <3>1
      <3>2. CASE s # "miss"
        BY <1>0, <1>2, <1>4, <3>2, ScannersAre DEF CatalogInv, OwnScanFinds
      <3>3. QED
        BY <3>1, <3>2
    <2>3. (scan["miss"].at = "apply" /\ request.there => overtaken \/ InCache \/ OtherBusy)'
      <3>1. scan'["miss"].at = "apply" => scan'["miss"] = scan["miss"]
        BY <1>2, ScannersAre
      <3>2. QED
        BY <1>0, <2>0, <3>1 DEF CatalogInv, OwnScanFinds
    <2>4. (request.at = "again" /\ request.there =>
       overtaken \/ (InCache /\ request.app \in catalog
                     /\ \A t \in Catalog!Scanners : Busy(t) => request.app \in scan[t].found))'
      <3> SUFFICES ASSUME request.at = "again", request.there, ~overtaken
                   PROVE  InCache' /\ request.app \in catalog /\ \A t \in Catalog!Scanners : Busy(t)' => request.app \in scan'[t].found
        BY <1>0
      <3>1. InCache /\ request.app \in catalog /\ \A t \in Catalog!Scanners : Busy(t) => request.app \in scan[t].found
        BY DEF CatalogInv, OwnScanFinds
      <3>2. request.app \in installed
        BY DEF CatalogInv, OwnScanFinds
      <3>3. QED
        BY <1>2, <1>4, <2>0, <3>1, <3>2
    <2>5. QED
      BY <2>1, <2>2, <2>3, <2>4 DEF OwnScanFinds
  <1>8. QED
    BY <1>0, <1>3, <1>6, <1>7 DEF CatalogInv, Catalog!UnknownIsTrue

\* A scan saves what it has read.
LEMMA CatalogSave ==
  ASSUME CatalogInv, NEW s \in Catalog!Scanners, Catalog!Save(s)
  PROVE  CatalogInv'
  <1>0. /\ scan[s].at = "save" /\ UNCHANGED <<installed, catalog, lock, request, overtaken>>
        /\ scan' = [scan EXCEPT ![s].at = "apply"] /\ scan[s].found \in SUBSET Apps
    BY DEF Catalog!Save, Catalog!At, Catalog!Goes, CatalogInv, CatalogTypes
  <1>1. /\ cache' = cache \/ cache' = [apps |-> scan[s].found, fresh |-> TRUE]
        /\ scan[s].found # {} => cache' = [apps |-> scan[s].found, fresh |-> TRUE]
    BY DEF Catalog!Save
  <1>2. /\ scan' \in [Catalog!Scanners -> [at : {"rest", "begin", "cached", "read", "save", "apply"}, found : SUBSET Apps]]
        /\ scan'[s].at = "apply" /\ scan'[s].found = scan[s].found
        /\ \A t \in Catalog!Scanners \ {s} : scan'[t] = scan[t]
    <2>2. CatalogTypes /\ "apply" \in {"rest", "begin", "cached", "read", "save", "apply"}
      BY DEF CatalogInv
    <2>3. QED
      BY <1>0, <2>2, ScanGoes
  <1>9. [apps |-> scan[s].found, fresh |-> TRUE] \in [apps : SUBSET Apps, fresh : BOOLEAN]
    BY <1>0
  <1>10. [apps |-> scan[s].found, fresh |-> TRUE] # NoCache
    BY <1>9
  <1>3. CatalogTypes'
    BY <1>0, <1>1, <1>2, <1>9 DEF CatalogInv, CatalogTypes
  <1>4. \A t \in Catalog!Scanners : Busy(t)' <=> Busy(t)
    BY <1>0, <1>2 DEF Busy
  <1>5. \A t \in Catalog!Scanners : scan'[t].found = scan[t].found
    BY <1>2
  <1>6. OwnScan'
    <2>1. cache' = NoCache => cache = NoCache
      BY <1>1, <1>10
    <2>2. QED
      BY <1>0, <1>2, <2>1, ScannersAre DEF CatalogInv, OwnScan
  <1>7. OwnScanFinds'
    <2>1. (request.there => request.app \in installed)'
      BY <1>0 DEF CatalogInv, OwnScanFinds
    <2>2. (Busy("miss") /\ request.there => request.app \in scan["miss"].found)'
      BY <1>0, <1>4, <1>5, ScannersAre DEF CatalogInv, OwnScanFinds
    <2>3. (scan["miss"].at = "apply" /\ request.there => overtaken \/ InCache \/ OtherBusy)'
      <3>1. CASE s = "miss"
        <4>1. Busy("miss")
          BY <1>0, <3>1 DEF Busy
        <4>2. request.there => InCache'
          <5>1. request.there => request.app \in scan[s].found
            BY <3>1, <4>1 DEF CatalogInv, OwnScanFinds
          <5>2. QED
            BY <1>0, <1>1, <1>10, <5>1 DEF InCache
        <4>3. QED
          BY <1>0, <4>2
      <3>2. CASE s # "miss"
        <4>1. OtherBusy'
          BY <1>2, <3>2 DEF OtherBusy, Busy
        <4>2. QED
          BY <4>1
      <3>3. QED
        BY <3>1, <3>2
    <2>4. (request.at = "again" /\ request.there =>
       overtaken \/ (InCache /\ request.app \in catalog
                     /\ \A t \in Catalog!Scanners : Busy(t) => request.app \in scan[t].found))'
      <3> SUFFICES ASSUME request.at = "again", request.there, ~overtaken
                   PROVE  InCache' /\ request.app \in catalog /\ \A t \in Catalog!Scanners : Busy(t)' => request.app \in scan'[t].found
        BY <1>0
      <3>1. InCache /\ request.app \in catalog /\ \A t \in Catalog!Scanners : Busy(t) => request.app \in scan[t].found
        BY DEF CatalogInv, OwnScanFinds
      <3>2. request.app \in scan[s].found
        BY <1>0, <3>1 DEF Busy
      <3>3. InCache'
        BY <1>0, <1>1, <1>10, <3>2 DEF InCache
      <3>4. QED
        BY <1>4, <1>5, <3>1, <3>3
    <2>5. QED
      BY <2>1, <2>2, <2>3, <2>4 DEF OwnScanFinds
  <1>8. QED
    BY <1>0, <1>3, <1>6, <1>7 DEF CatalogInv, Catalog!UnknownIsTrue

\* A scan replaces the catalog.
LEMMA CatalogApply ==
  ASSUME CatalogInv, NEW s \in Catalog!Scanners, Catalog!Apply(s)
  PROVE  CatalogInv'
  <1>0. /\ scan[s].at = "apply" /\ UNCHANGED <<installed, cache>> /\ catalog' = scan[s].found
        /\ scan' = [scan EXCEPT ![s] = [at |-> "rest", found |-> {}]] /\ scan[s].found \in SUBSET Apps
        /\ lock' \in Catalog!Locking \cup {Absent}
        /\ request' = IF s = "miss" THEN [request EXCEPT !.at = "again"] ELSE request
        /\ overtaken' <=> (overtaken \/ \E t \in Catalog!Scanners \ {s} : Busy(t))
    BY DEF Catalog!Apply, Catalog!At, Catalog!Goes, Catalog!Resting, CatalogInv, CatalogTypes, Busy
  <1>2. /\ scan' \in [Catalog!Scanners -> [at : {"rest", "begin", "cached", "read", "save", "apply"}, found : SUBSET Apps]]
        /\ scan'[s].at = "rest"
        /\ \A t \in Catalog!Scanners \ {s} : scan'[t] = scan[t]
    <2>2. /\ CatalogTypes
          /\ "rest" \in {"rest", "begin", "cached", "read", "save", "apply"}
          /\ {} \in SUBSET Apps
      BY DEF CatalogInv
    <2>3. QED
      BY <1>0, <2>2, ScanGoes
  <1>3. /\ request' \in [app : Apps \cup {Absent}, at : {"idle", "missed", "waits", "again", "known", "unknown"}, there : BOOLEAN]
        /\ request'.app = request.app /\ request'.there = request.there
        /\ s = "miss" => request'.at = "again"
        /\ s # "miss" => request' = request
    <2>1. request \in [app : Apps \cup {Absent}, at : {"idle", "missed", "waits", "again", "known", "unknown"}, there : BOOLEAN]
      BY DEF CatalogInv, CatalogTypes
    <2>2. QED
      BY <1>0, <2>1
  <1>4. CatalogTypes'
    BY <1>0, <1>2, <1>3 DEF CatalogInv, CatalogTypes
  <1>5. \A t \in Catalog!Scanners : Busy(t)' => t # s /\ Busy(t) /\ scan'[t] = scan[t]
    BY <1>2 DEF Busy
  <1>6. OwnScan'
    BY <1>0, <1>2, <1>3, ScannersAre DEF CatalogInv, OwnScan
  <1>7. OwnScanFinds'
    <2>1. (request.there => request.app \in installed)'
      BY <1>0, <1>3 DEF CatalogInv, OwnScanFinds
    <2>2. (Busy("miss") /\ request.there => request.app \in scan["miss"].found)'
      BY <1>3, <1>5, ScannersAre DEF CatalogInv, OwnScanFinds
    <2>3. (scan["miss"].at = "apply" /\ request.there => overtaken \/ InCache \/ OtherBusy)'
      <3>1. CASE s = "miss"
        BY <1>2, <3>1
      <3>2. CASE s # "miss"
        <4>1. scan["miss"].at = "apply" => overtaken'
          BY <1>0, <3>2, ScannersAre DEF Busy
        <4>2. QED
          BY <1>2, <3>2, <4>1, ScannersAre
      <3>3. QED
        BY <3>1, <3>2
    <2>4. (request.at = "again" /\ request.there =>
       overtaken \/ (InCache /\ request.app \in catalog
                     /\ \A t \in Catalog!Scanners : Busy(t) => request.app \in scan[t].found))'
      <3> SUFFICES ASSUME request'.at = "again", request'.there, ~overtaken'
                   PROVE  InCache' /\ request'.app \in catalog' /\ \A t \in Catalog!Scanners : Busy(t)' => request'.app \in scan'[t].found
        OBVIOUS
      <3>1. ~overtaken /\ \A t \in Catalog!Scanners \ {s} : ~Busy(t)
        BY <1>0
      <3>2. \A t \in Catalog!Scanners : ~Busy(t)'
        BY <1>5, <3>1
      <3>3. CASE s = "miss"
        <4>1. Busy("miss") /\ ~OtherBusy
          BY <1>0, <3>1, <3>3 DEF Busy, OtherBusy
        <4>2. InCache /\ request.app \in scan[s].found
          BY <1>0, <1>3, <3>1, <3>3, <4>1 DEF CatalogInv, OwnScanFinds
        <4>3. InCache'
          BY <1>0, <1>3, <4>2 DEF InCache
        <4>4. QED
          BY <1>0, <1>3, <3>2, <4>2, <4>3
      <3>4. CASE s # "miss"
        <4>1. InCache /\ \A t \in Catalog!Scanners : Busy(t) => request.app \in scan[t].found
          BY <1>3, <3>1, <3>4 DEF CatalogInv, OwnScanFinds
        <4>2. request.app \in scan[s].found
          BY <1>0, <4>1 DEF Busy
        <4>3. InCache'
          BY <1>0, <1>3, <4>1 DEF InCache
        <4>4. QED
          BY <1>0, <1>3, <3>2, <4>2, <4>3
      <3>5. QED
        BY <3>3, <3>4
    <2>5. QED
      BY <2>1, <2>2, <2>3, <2>4 DEF OwnScanFinds
  <1>9. (Catalog!UnknownIsTrue)'
    <2>1. request'.at = "unknown" => s # "miss"
      BY <1>3
    <2>2. QED
      BY <1>0, <1>3, <2>1 DEF CatalogInv, Catalog!UnknownIsTrue
  <1>10. QED
    BY <1>4, <1>6, <1>7, <1>9 DEF CatalogInv

\* What only begins a scan: nothing is read yet.
LEMMA CatalogStarts ==
  ASSUME CatalogInv, NEW s \in Catalog!Scanners \ {"miss"}, scan[s].at = "rest", scan' = [scan EXCEPT ![s].at = "begin"],
         UNCHANGED <<installed, catalog, cache, lock, request, overtaken>>
  PROVE  CatalogInv'
  <1>2. /\ scan' \in [Catalog!Scanners -> [at : {"rest", "begin", "cached", "read", "save", "apply"}, found : SUBSET Apps]]
        /\ scan'[s].at = "begin"
        /\ \A t \in Catalog!Scanners \ {s} : scan'[t] = scan[t]
    <2>2. /\ CatalogTypes
          /\ "begin" \in {"rest", "begin", "cached", "read", "save", "apply"}
          /\ scan[s].found \in SUBSET Apps
      BY DEF CatalogInv, CatalogTypes
    <2>3. QED
      BY <2>2, ScanGoes, ZenonT(40)
  <1>3. CatalogTypes'
    BY <1>2 DEF CatalogInv, CatalogTypes
  <1>4. \A t \in Catalog!Scanners : (Busy(t)' <=> Busy(t)) /\ (Busy(t) => scan'[t] = scan[t])
    BY <1>2 DEF Busy
  <1>5. OwnScan'
    BY <1>2, ScannersAre DEF CatalogInv, OwnScan
  <1>6. OwnScanFinds'
    BY <1>2, <1>4, ScannersAre DEF CatalogInv, OwnScanFinds, InCache, OtherBusy
  <1>7. QED
    BY <1>3, <1>5, <1>6 DEF CatalogInv, Catalog!UnknownIsTrue

\* What changes the request alone.
LEMMA CatalogRequest ==
  ASSUME CatalogInv,
         Catalog!Miss \/ Catalog!Again \/ Catalog!Install \/ \E a \in Apps : Catalog!Ask(a)
  PROVE  CatalogInv'
  <1>0. request \in [app : Apps \cup {Absent}, at : {"idle", "missed", "waits", "again", "known", "unknown"}, there : BOOLEAN]
    BY DEF CatalogInv, CatalogTypes
  <1>1. CASE Catalog!Install
    <2>1. /\ request' = [request EXCEPT !.there = FALSE]
          /\ UNCHANGED <<catalog, cache, lock, scan, overtaken>>
          /\ installed' \subseteq Apps
      BY <1>1 DEF Catalog!Install, CatalogInv, CatalogTypes
    <2>2. request' \in [app : Apps \cup {Absent}, at : {"idle", "missed", "waits", "again", "known", "unknown"}, there : BOOLEAN]
          /\ request'.at = request.at /\ ~request'.there
      BY <1>0, <2>1
    <2>3. CatalogTypes'
      BY <2>1, <2>2 DEF CatalogInv, CatalogTypes
    <2>4. OwnScan' /\ OwnScanFinds' /\ (Catalog!UnknownIsTrue)'
      BY <2>1, <2>2 DEF CatalogInv, OwnScan, OwnScanFinds, Catalog!UnknownIsTrue
    <2>5. QED
      BY <2>3, <2>4 DEF CatalogInv
  <1>2. ASSUME NEW a \in Apps, Catalog!Ask(a) PROVE CatalogInv'
    <2>1. /\ request' = [app |-> a, at |-> IF a \in catalog THEN "known" ELSE "missed", there |-> a \in installed]
          /\ UNCHANGED <<installed, catalog, cache, lock, scan, overtaken>> /\ request.at \in {"idle", "known", "unknown"}
      BY <1>2 DEF Catalog!Ask
    <2>2. /\ request' \in [app : Apps \cup {Absent}, at : {"idle", "missed", "waits", "again", "known", "unknown"}, there : BOOLEAN]
          /\ request'.at \in {"known", "missed"} /\ request'.app = a /\ request'.there = (a \in installed)
      BY <2>1
    <2>3. CatalogTypes'
      BY <2>1, <2>2 DEF CatalogInv, CatalogTypes
    <2>6. ~Busy("miss")' /\ scan'["miss"].at = "rest"
      BY <2>1 DEF CatalogInv, OwnScan, Busy
    <2>4. OwnScan' /\ OwnScanFinds' /\ (Catalog!UnknownIsTrue)'
      BY <2>1, <2>2, <2>6 DEF CatalogInv, OwnScan, OwnScanFinds, Catalog!UnknownIsTrue
    <2>5. QED
      BY <2>3, <2>4 DEF CatalogInv
  <1>3. CASE Catalog!Again
    <2>1. /\ request' = [request EXCEPT !.at = IF request.app \in catalog THEN "known" ELSE "unknown"]
          /\ UNCHANGED <<installed, catalog, cache, lock, scan, overtaken>> /\ request.at = "again"
      BY <1>3 DEF Catalog!Again
    <2>2. /\ request' \in [app : Apps \cup {Absent}, at : {"idle", "missed", "waits", "again", "known", "unknown"}, there : BOOLEAN]
          /\ request'.at = (IF request.app \in catalog THEN "known" ELSE "unknown") /\ request'.app = request.app /\ request'.there = request.there
      BY <1>0, <2>1
    <2>3. CatalogTypes'
      BY <2>1, <2>2 DEF CatalogInv, CatalogTypes
    <2>6. ~Busy("miss")' /\ scan'["miss"].at = "rest"
      BY <2>1 DEF CatalogInv, OwnScan, Busy
    <2>4. OwnScan' /\ OwnScanFinds' /\ (Catalog!UnknownIsTrue)'
      BY <2>1, <2>2, <2>6 DEF CatalogInv, OwnScan, OwnScanFinds, Catalog!UnknownIsTrue
    <2>5. QED
      BY <2>3, <2>4 DEF CatalogInv
  <1>4. CASE Catalog!Miss /\ ~Catalog!Old
    <2>1. /\ request' = [request EXCEPT !.at = "unknown", !.there = FALSE]
          /\ UNCHANGED <<installed, catalog, cache, lock, scan, overtaken>> /\ request.at = "missed"
      BY <1>4 DEF Catalog!Miss
    <2>2. /\ request' \in [app : Apps \cup {Absent}, at : {"idle", "missed", "waits", "again", "known", "unknown"}, there : BOOLEAN]
          /\ request'.at = "unknown" /\ ~request'.there
      BY <1>0, <2>1
    <2>3. CatalogTypes'
      BY <2>1, <2>2 DEF CatalogInv, CatalogTypes
    <2>4. OwnScan' /\ OwnScanFinds' /\ (Catalog!UnknownIsTrue)'
      BY <2>1, <2>2 DEF CatalogInv, OwnScan, OwnScanFinds, Catalog!UnknownIsTrue
    <2>5. QED
      BY <2>3, <2>4 DEF CatalogInv
  <1>5. CASE Catalog!Miss /\ Catalog!Old
    <2>1. /\ request' = [request EXCEPT !.at = "waits"] /\ scan' = [scan EXCEPT !["miss"].at = "begin"]
          /\ UNCHANGED <<installed, catalog, cache, lock, overtaken>> /\ request.at = "missed"
      BY <1>5 DEF Catalog!Miss, Catalog!Goes
    <2>2. /\ request' \in [app : Apps \cup {Absent}, at : {"idle", "missed", "waits", "again", "known", "unknown"}, there : BOOLEAN]
          /\ request'.at = "waits" /\ request'.app = request.app /\ request'.there = request.there
      BY <1>0, <2>1
    <2>7. /\ scan' \in [Catalog!Scanners -> [at : {"rest", "begin", "cached", "read", "save", "apply"}, found : SUBSET Apps]]
          /\ scan'["miss"].at = "begin"
          /\ \A t \in Catalog!Scanners \ {"miss"} : scan'[t] = scan[t]
      <3>2. /\ CatalogTypes
            /\ "begin" \in {"rest", "begin", "cached", "read", "save", "apply"}
            /\ scan["miss"].found \in SUBSET Apps
        BY ScannersAre DEF CatalogInv, CatalogTypes
      <3>3. PICK set : set = scan["miss"].found
        OBVIOUS
      <3>4. set \in SUBSET Apps /\ scan' = [scan EXCEPT !["miss"].at = "begin"] /\ set = scan["miss"].found
        BY <2>1, <3>2, <3>3
      <3>5. QED
        BY <3>2, <3>3, <3>4, ScanGoes, ScannersAre
    <2>3. CatalogTypes'
      BY <2>1, <2>2, <2>7 DEF CatalogInv, CatalogTypes
    <2>4. OwnScan' /\ OwnScanFinds' /\ (Catalog!UnknownIsTrue)'
      BY <2>1, <2>2, <2>7, ScannersAre DEF CatalogInv, OwnScan, OwnScanFinds, Busy, Catalog!UnknownIsTrue
    <2>5. QED
      BY <2>3, <2>4 DEF CatalogInv
  <1>6. QED
    BY <1>1, <1>2, <1>3, <1>4, <1>5

\* Every step of the scanners, of the machine and of a request keeps it.
LEMMA CatalogSteps == CatalogInv /\ [Catalog!Next]_Catalog!acVars => CatalogInv'
  <1> SUFFICES ASSUME CatalogInv, [Catalog!Next]_Catalog!acVars PROVE CatalogInv'
    OBVIOUS
  <1>1. ASSUME NEW s \in Catalog!Scanners, Catalog!ScanStep(s) PROVE CatalogInv'
    BY <1>1, CatalogBegin, CatalogFromCache, CatalogRead, CatalogSave, CatalogApply DEF Catalog!ScanStep
  <1>2. CASE Catalog!Rescan
    <2>1. "rescan" \in Catalog!Scanners \ {"miss"}
      BY ScannersAre
    <2>2. /\ scan["rescan"].at = "rest" /\ scan' = [scan EXCEPT !["rescan"].at = "begin"]
          /\ UNCHANGED <<installed, catalog, cache, lock, request, overtaken>>
      BY <1>2 DEF Catalog!Rescan, Catalog!At, Catalog!Goes
    <2>3. QED
      BY <2>1, <2>2, CatalogStarts
  <1>3. CASE Catalog!Fire
    BY <1>3, CatalogStarts, ScannersAre DEF Catalog!Fire, Catalog!At, Catalog!Goes
  <1>4. CASE Catalog!Age
    <2>1. /\ cache # NoCache /\ cache' = [cache EXCEPT !.fresh = FALSE]
          /\ UNCHANGED <<installed, catalog, lock, scan, request, overtaken>>
      BY <1>4 DEF Catalog!Age
    <2>2. cache' \in [apps : SUBSET Apps, fresh : BOOLEAN] /\ cache'.apps = cache.apps
      BY <2>1 DEF CatalogInv, CatalogTypes
    <2>3. cache' # NoCache
      BY <2>2
    <2>4. CatalogTypes'
      BY <2>1, <2>2 DEF CatalogInv, CatalogTypes
    <2>5. OwnScan' /\ (Catalog!UnknownIsTrue)'
      BY <2>1, <2>3 DEF CatalogInv, OwnScan, Catalog!UnknownIsTrue
    <2>6. \A s \in Catalog!Scanners : Busy(s)' = Busy(s)
      BY <2>1 DEF Busy
    <2>8. InCache' = InCache /\ OtherBusy' = OtherBusy /\ Busy("miss")' = Busy("miss")
      BY <2>1, <2>2, <2>3, <2>6, ScannersAre DEF InCache, OtherBusy
    <2>7. OwnScanFinds'
      BY <2>1, <2>6, <2>8 DEF CatalogInv, OwnScanFinds
    <2>9. QED
      BY <2>4, <2>5, <2>7 DEF CatalogInv
  <1>5. CASE Catalog!Miss \/ Catalog!Again \/ Catalog!Install \/ \E a \in Apps : Catalog!Ask(a)
    BY <1>5, CatalogRequest
  <1>6. CASE UNCHANGED Catalog!acVars
    BY <1>6
       DEF Catalog!acVars, CatalogInv, CatalogTypes, OwnScan, OwnScanFinds, Busy, InCache, OtherBusy,
           Catalog!UnknownIsTrue
  <1>7. QED
    BY <1>1, <1>2, <1>3, <1>4, <1>5, <1>6 DEF Catalog!Next

\* What is said to be unknown is not installed, or is new.
LEMMA CatalogMeans == CatalogInv => Catalog!TypeOK /\ Catalog!UnknownIsTrue
  BY DEF CatalogInv, CatalogTypes, Catalog!TypeOK, Catalog!At

HIDE AbsentAssumption

-----------------------------------------------------------------------------
(* The programs.                                                           *)

\* A spoken name says of each program how well it resembles it.
LikesAre == [sim : 0 .. 100, prefix : BOOLEAN, used : 0 .. 10, recent : BOOLEAN, there : BOOLEAN]

IsName(n) ==
  /\ n.folder = FALSE /\ n.close \in BOOLEAN /\ n.single \in BOOLEAN
  /\ n.like \in [Programs -> LikesAre]

\* The names that are spoken.
LEMMA NamesAre == \A n \in MCNames : IsName(n)
  <1>1. Likes \subseteq LikesAre /\ Unlike \in LikesAre
    BY DEF Likes, Unlike, Like, LikesAre
  <1> TAKE n \in MCNames
  <1> DEFINE A == {Spelling(c, l) : c \in BOOLEAN, l \in [Programs \ {Shell} -> Likes]}
             B == [close : BOOLEAN, folder : {FALSE}, alias : Programs, single : {TRUE}, like : {[p \in Programs |-> Unlike]}]
  <1>5. MCNames = A \cup B
    BY DEF MCNames
  <1>2. CASE n \in A
    <2>1. PICK c \in BOOLEAN, l \in [Programs \ {Shell} -> Likes] : n = Spelling(c, l)
      BY <1>2
    <2>2. [p \in Programs |-> IF p = Shell THEN Unlike ELSE l[p]] \in [Programs -> LikesAre]
      BY <1>1
    <2>3. QED
      BY <2>1, <2>2 DEF Spelling, IsName
  <1>3. CASE n \in B
    <2>1. [p \in Programs |-> Unlike] \in [Programs -> LikesAre]
      BY <1>1
    <2>2. QED
      BY <1>3, <2>1 DEF IsName
  <1> HIDE DEF A, B
  <1>4. QED
    BY <1>2, <1>3, <1>5

\* The least and the greatest of two numbers, and of finitely many.
LEMMA ControlMin ==
  ASSUME NEW a \in Int, NEW b \in Int
  PROVE  Control!Min({a, b}) = IF a <= b THEN a ELSE b
  <1> DEFINE Least(x) == \A y \in {a, b} : x <= y
  <1>1. Control!Min({a, b}) = CHOOSE x \in {a, b} : Least(x)
    BY DEF Control!Min
  <1>2. \E x \in {a, b} : Least(x)
    OBVIOUS
  <1> HIDE DEF Least
  <1>3. PICK c : c = CHOOSE x \in {a, b} : Least(x)
    OBVIOUS
  <1>4. c \in {a, b} /\ Least(c)
    BY <1>2, <1>3
  <1>5. QED
    BY <1>1, <1>3, <1>4 DEF Least

\* No score is higher.
ScoreTop == 10000

\* The scores are numbers.
LEMMA ScoreTopIs == ScoreTop \in Nat /\ \A x \in 0 .. ScoreTop : x \in Int /\ x >= 0
  BY DEF ScoreTop

\* The greatest number of a bounded set, for any bound.
LEMMA GreatestOf == \A N \in Nat : \A T \in SUBSET (0 .. N) : T # {} => \E x \in T : \A y \in T : y <= x
  BY GreatestNumber

\* The greatest of the scores.
LEMMA ControlMax ==
  ASSUME NEW S \in SUBSET (0 .. ScoreTop), S # {}
  PROVE  Control!Max(S) \in S /\ \A y \in S : y <= Control!Max(S)
  <1> DEFINE Most(x) == \A y \in S : x >= y
  <1>1. Control!Max(S) = CHOOSE x \in S : Most(x)
    BY DEF Control!Max
  <1>6. \A y \in S : y \in Int
    BY ScoreTopIs, Zenon
  <1>2. \E x \in S : Most(x)
    <2>3. PICK x \in S : \A y \in S : y <= x
      BY ScoreTopIs, GreatestOf, Zenon
    <2>4. \A y \in S : x >= y
      BY <1>6, <2>3
    <2>5. QED
      BY <2>4
  <1> HIDE DEF Most
  <1>3. PICK c : c = CHOOSE x \in S : Most(x)
    OBVIOUS
  <1>4. c \in S /\ Most(c)
    BY <1>2, <1>3
  <1>5. \A y \in S : y <= c
    BY <1>4, <1>6 DEF Most
  <1>7. QED
    BY <1>1, <1>3, <1>4, <1>5

\* What runs, resembles the name or was used adds to the score.
Extra(p, n, seen) == IF ~(Control!ProcessOf(p, seen) \in seen) THEN 0 ELSE IF n.close THEN 1600 ELSE 400

Bonus(l, extra) ==
  (IF l.prefix THEN 500 ELSE 0) + Control!Min({1200, 200 * l.used})
  + (IF l.recent THEN 600 ELSE 0) + (IF l.there THEN 300 ELSE 0) + extra

\* A program that resembles more in every respect gets more.
LEMMA BonusGrows ==
  ASSUME NEW a \in LikesAre, NEW b \in LikesAre, NEW x \in Nat, NEW y \in Nat,
         a.used >= b.used, b.prefix => a.prefix, b.recent => a.recent, b.there => a.there, x >= y
  PROVE  Bonus(a, x) \in Nat /\ Bonus(b, y) \in Nat /\ Bonus(a, x) >= Bonus(b, y)
  <1>1. a.used \in Nat /\ b.used \in Nat
    BY DEF LikesAre
  <1>2. Control!Min({1200, 200 * a.used}) = (IF 1200 <= 200 * a.used THEN 1200 ELSE 200 * a.used)
    BY <1>1, ControlMin
  <1>3. Control!Min({1200, 200 * b.used}) = (IF 1200 <= 200 * b.used THEN 1200 ELSE 200 * b.used)
    BY <1>1, ControlMin
  <1>4. QED
    BY <1>1, <1>2, <1>3 DEF Bonus

\* How a name resembles a program.
LEMMA LikeOf ==
  ASSUME NEW n, IsName(n), NEW p \in Programs
  PROVE  n.like[p] \in LikesAre /\ n.like[p].sim \in Nat /\ n.like[p].used \in Nat
  BY DEF IsName, LikesAre

\* What is added to the resemblance is a number.
LEMMA BonusIs ==
  ASSUME NEW n, IsName(n), NEW p \in Programs, NEW seen
  PROVE  Extra(p, n, seen) \in Nat /\ Bonus(n.like[p], Extra(p, n, seen)) \in Nat
  <1>1. PICK x : x = Extra(p, n, seen)
    OBVIOUS
  <1>2. x \in Nat /\ x >= x
    BY <1>1 DEF Extra
  <1>3. PICK l : l = n.like[p]
    OBVIOUS
  <1>4. l \in LikesAre /\ l.used >= l.used
    BY <1>3, LikeOf
  <1>5. Bonus(l, x) \in Nat
    BY <1>2, <1>4, BonusGrows
  <1>6. QED
    BY <1>1, <1>2, <1>3, <1>5

\* The score by its parts.
LEMMA ScoreIs ==
  ASSUME NEW n, IsName(n), NEW p \in Programs, NEW seen,
         NEW s \in Nat, s = n.like[p].sim, NEW bonus \in Nat, bonus = Bonus(n.like[p], Extra(p, n, seen))
  PROVE  Control!Score(p, n, seen) = IF 10000 <= 78 * s + bonus THEN 10000 ELSE 78 * s + bonus
  <1>1. Control!Score(p, n, seen) = Control!Min({10000, 78 * n.like[p].sim + Bonus(n.like[p], Extra(p, n, seen))})
    BY ZenonT(40) DEF Control!Score, Bonus, Extra
  <1>2. PICK m \in Nat : m = 78 * s + bonus
    OBVIOUS
  <1>3. Control!Min({10000, m}) = (IF 10000 <= m THEN 10000 ELSE m)
    BY ControlMin
  <1>4. Control!Score(p, n, seen) = Control!Min({10000, m})
    BY <1>1, <1>2
  <1>5. QED
    BY <1>2, <1>3, <1>4

\* A score is bounded.
LEMMA ScoreRange ==
  \A n, seen : IsName(n) => \A p \in Programs : Control!Score(p, n, seen) \in 0 .. ScoreTop
  <1> TAKE n, seen
  <1> SUFFICES ASSUME IsName(n), NEW p \in Programs PROVE Control!Score(p, n, seen) \in 0 .. ScoreTop
    OBVIOUS
  <1>1. PICK s \in Nat, bonus \in Nat : s = n.like[p].sim /\ bonus = Bonus(n.like[p], Extra(p, n, seen))
    BY LikeOf, BonusIs
  <1>2. Control!Score(p, n, seen) = IF 10000 <= 78 * s + bonus THEN 10000 ELSE 78 * s + bonus
    BY <1>1, ScoreIs
  <1>3. Control!Score(p, n, seen) \in Nat /\ Control!Score(p, n, seen) <= 10000
    BY <1>2
  <1>4. PICK u : u = Control!Score(p, n, seen)
    OBVIOUS
  <1>5. u \in Nat /\ u <= ScoreTop
    BY <1>3, <1>4 DEF ScoreTop
  <1>6. u \in 0 .. ScoreTop
    BY <1>5, ScoreTopIs
  <1>7. QED
    BY <1>4, <1>6

\* p resembles n no less than q, as Matches says of the request.
MatchesIn(n, seen, p, q) ==
  /\ n.like[p].sim >= n.like[q].sim /\ n.like[p].used >= n.like[q].used
  /\ (n.like[q].prefix => n.like[p].prefix) /\ (n.like[q].recent => n.like[p].recent)
  /\ (n.like[q].there => n.like[p].there)
  /\ Control!ProcessOf(q, seen) \in seen => Control!ProcessOf(p, seen) \in seen

\* What resembles the name no less has no smaller score.
LEMMA ScoreGrows ==
  ASSUME NEW n, IsName(n), NEW p \in Programs, NEW q \in Programs, NEW seen, MatchesIn(n, seen, p, q)
  PROVE  Control!Score(p, n, seen) >= Control!Score(q, n, seen)
  <1>1. PICK x, y : x = Extra(p, n, seen) /\ y = Extra(q, n, seen)
    OBVIOUS
  <1>2. x \in Nat /\ y \in Nat /\ x >= y
    BY <1>1 DEF Extra, MatchesIn
  <1>3. PICK k, l : k = n.like[p] /\ l = n.like[q]
    OBVIOUS
  <1>4. k \in LikesAre /\ l \in LikesAre
    BY <1>3, LikeOf
  <1>5. /\ k.used >= l.used /\ (l.prefix => k.prefix) /\ (l.recent => k.recent) /\ (l.there => k.there)
        /\ k.sim >= l.sim
    BY <1>3 DEF MatchesIn
  <1>6. PICK a, b \in Nat : a = Bonus(k, x) /\ b = Bonus(l, y) /\ a >= b
    BY <1>2, <1>4, <1>5, BonusGrows
  <1>7. PICK s, u \in Nat : s = k.sim /\ u = l.sim
    BY <1>3, LikeOf
  <1>8. Control!Score(p, n, seen) = IF 10000 <= 78 * s + a THEN 10000 ELSE 78 * s + a
    BY <1>1, <1>3, <1>6, <1>7, ScoreIs
  <1>9. Control!Score(q, n, seen) = IF 10000 <= 78 * u + b THEN 10000 ELSE 78 * u + b
    BY <1>1, <1>3, <1>6, <1>7, ScoreIs
  <1>10. s >= u
    BY <1>5, <1>7
  <1>11. QED
    BY <1>6, <1>8, <1>9, <1>10

\* The score of another candidate is what the first must lead.
LEMMA LeadIs ==
  ASSUME NEW n, IsName(n), NEW programs \in SUBSET Programs, NEW seen, NEW p \in programs, NEW margin \in Int
  PROVE  /\ Control!Leads(p, n, programs, seen, margin) =>
              \A q \in Control!Candidates(n, programs) \ {p} : Control!Score(p, n, seen) - Control!Score(q, n, seen) >= margin
         /\ (\A q \in Control!Candidates(n, programs) : Control!Score(p, n, seen) >= Control!Score(q, n, seen))
              => Control!Leads(p, n, programs, seen, 0)
  <1> DEFINE C == Control!Candidates(n, programs)
             S == {0} \cup {Control!Score(q, n, seen) : q \in C \ {p}}
  <1>1. C \subseteq programs
    BY DEF Control!Candidates
  <1>2. \A q \in programs : Control!Score(q, n, seen) \in 0 .. ScoreTop
    BY ScoreRange
  <1>3. S \in SUBSET (0 .. ScoreTop) /\ S # {}
    <2>1. 0 \in 0 .. ScoreTop
      BY ScoreTopIs
    <2>2. QED
      BY <1>1, <1>2, <2>1, Zenon
  <1>7. 0 \in S /\ (\A q \in C \ {p} : Control!Score(q, n, seen) \in S)
        /\ \A y \in S : y = 0 \/ \E q \in C : y = Control!Score(q, n, seen)
    OBVIOUS
  <1>10. \A x : Control!Leads(p, n, programs, seen, x) <=> Control!Score(p, n, seen) - Control!Max(S) >= x
    BY DEF Control!Leads
  <1> HIDE DEF S
  <1>4. PICK m : m = Control!Max(S)
    OBVIOUS
  <1>5. m \in S /\ \A y \in S : y <= m
    BY <1>3, <1>4, ControlMax
  <1>11. m \in Int
    BY <1>3, <1>5, ScoreTopIs
  <1>12. PICK s \in Int : s = Control!Score(p, n, seen) /\ s >= 0
    <2>1. QED
      BY <1>2, ScoreTopIs, Zenon
  <1>6. \A x : Control!Leads(p, n, programs, seen, x) <=> s - m >= x
    BY <1>4, <1>10, <1>12
  <1>8. ASSUME Control!Leads(p, n, programs, seen, margin)
        PROVE  \A q \in C \ {p} : Control!Score(p, n, seen) - Control!Score(q, n, seen) >= margin
    <2> TAKE q \in C \ {p}
    <2>1. s - m >= margin
      BY <1>6, <1>8
    <2>5. Control!Score(q, n, seen) \in 0 .. ScoreTop /\ Control!Score(q, n, seen) <= m
      BY <1>1, <1>2, <1>5, <1>7
    <2>2. PICK u \in Int : u = Control!Score(q, n, seen) /\ u <= m
      <3>1. QED
        BY <2>5, ScoreTopIs, Zenon
    <2>3. s - u >= margin
      BY <1>11, <2>1, <2>2
    <2>4. QED
      BY <1>12, <2>2, <2>3
  <1>9. ASSUME \A q \in C : Control!Score(p, n, seen) >= Control!Score(q, n, seen)
        PROVE  Control!Leads(p, n, programs, seen, 0)
    <2>1. m = 0 \/ \E q \in C : m = Control!Score(q, n, seen)
      BY <1>5, <1>7
    <2>2. s >= m
      BY <1>9, <1>12, <2>1
    <2>3. s - m >= 0
      BY <1>11, <2>2
    <2>4. QED
      BY <1>6, <2>3
  <1>13. QED
    BY <1>8, <1>9

\* One of the candidates leads them all.
LEMMA LeaderExists ==
  ASSUME NEW n, IsName(n), NEW programs \in SUBSET Programs, NEW seen, Control!Candidates(n, programs) # {}
  PROVE  \E p \in Control!Candidates(n, programs) : Control!Leads(p, n, programs, seen, 0)
  <1> DEFINE C == Control!Candidates(n, programs)
             S == {Control!Score(q, n, seen) : q \in C}
  <1>1. C \subseteq programs
    BY DEF Control!Candidates
  <1>2. \A q \in programs : Control!Score(q, n, seen) \in 0 .. ScoreTop
    BY ScoreRange
  <1>3. S \in SUBSET (0 .. ScoreTop) /\ S # {}
    BY <1>1, <1>2
  <1>4. /\ (\A y \in S : \E p \in C : y = Control!Score(p, n, seen))
        /\ (\A q \in C : Control!Score(q, n, seen) \in S)
    OBVIOUS
  <1> HIDE DEF S
  <1>5. PICK m \in S : \A y \in S : y <= m
    <2>1. PICK k : k = Control!Max(S)
      OBVIOUS
    <2>2. k \in S /\ \A y \in S : y <= k
      BY <1>3, <2>1, ControlMax
    <2>3. QED
      BY <2>2
  <1>6. PICK p \in C : m = Control!Score(p, n, seen)
    BY <1>4
  <1>7. \A q \in C : Control!Score(p, n, seen) >= Control!Score(q, n, seen)
    <2> TAKE q \in C
    <2>0. Control!Score(q, n, seen) \in 0 .. ScoreTop /\ Control!Score(p, n, seen) \in 0 .. ScoreTop
      BY <1>1, <1>2
    <2>1. PICK u, w \in Int : u = Control!Score(q, n, seen) /\ w = Control!Score(p, n, seen)
      BY <2>0, ScoreTopIs, Zenon
    <2>2. u <= w
      BY <1>4, <1>5, <1>6, <2>1
    <2>3. w >= u
      BY <2>2
    <2>4. QED
      BY <2>1, <2>3
  <1>8. p \in programs /\ 0 \in Int
    BY <1>1
  <1>9. QED
    BY <1>7, <1>8, LeadIs

\* Cardinality of the instance.
LEMMA ControlCount == \A S : Control!Cardinality(S) = Cardinality(S)
  BY DEF Control!Cardinality, Cardinality

\* What is matched by resemblance leads every other one in some respect.
LEMMA MatchFacts ==
  ASSUME NEW n, IsName(n), NEW programs \in SUBSET Programs, NEW seen
  PROVE  /\ Control!Match(n, programs, seen).how \in {"none", "exact", "high_confidence", "likely", "ambiguous"}
         /\ Control!Match(n, programs, seen).program \in programs \cup {"nobody"}
         /\ Control!Match(n, programs, seen).how \in {"high_confidence", "likely"} =>
              \A p \in programs \ {Control!Match(n, programs, seen).program} :
                 ~MatchesIn(n, seen, p, Control!Match(n, programs, seen).program)
  <1> DEFINE M == Control!Match(n, programs, seen)
             C == Control!Candidates(n, programs)
             Top1(p) == Control!Leads(p, n, programs, seen, 0)
             first == CHOOSE p \in C : Top1(p)
             score == Control!Score(first, n, seen)
  <1>1. CASE n.alias \in programs
    <2>1. M = [how |-> "exact", program |-> n.alias]
      BY <1>1 DEF Control!Match
    <2>2. QED
      BY <1>1, <2>1
  <1>2. CASE n.alias \notin programs /\ C = {}
    <2>1. M = [how |-> "none", program |-> "nobody"]
      BY <1>2 DEF Control!Match, Control!Nothing, Control!Nobody
    <2>2. QED
      BY <2>1
  <1>3. CASE n.alias \notin programs /\ C # {}
    <2>1. M = IF score >= Control!HighFloor(n) /\ Control!Leads(first, n, programs, seen, 800)
              THEN [how |-> "high_confidence", program |-> first]
              ELSE IF Control!Cardinality(C) > 1 /\ score >= 6200 /\ ~Control!Leads(first, n, programs, seen, 1400)
              THEN [how |-> "ambiguous", program |-> "nobody"]
              ELSE IF score >= Control!LikelyFloor(n) THEN [how |-> "likely", program |-> first]
              ELSE [how |-> "none", program |-> "nobody"]
      BY <1>3 DEF Control!Match, Control!Nothing, Control!Nobody
    <2>2. \E p \in C : Top1(p)
      BY <1>3, LeaderExists
    <2> HIDE DEF Top1, M
    <2>3. first \in C /\ C \subseteq programs
      <3>1. first \in C
        BY <2>2
      <3>2. QED
        BY <3>1 DEF Control!Candidates
    <2>4. PICK f : f = first
      OBVIOUS
    <2>5. f \in C /\ f \in programs /\ f \in Programs /\ n.like[f].sim >= 46
      BY <2>3, <2>4 DEF Control!Candidates
    <2> HIDE DEF first
    <2>6. ASSUME NEW p \in programs \ {f}, MatchesIn(n, seen, p, f)
          PROVE  M.how \notin {"high_confidence", "likely"}
      <3>1. p \in C \ {f}
        <4>1. n.like[p].sim >= 46
          <5>1. n.like[p].sim \in Nat /\ n.like[f].sim \in Nat
            BY <2>5, LikeOf
          <5>2. QED
            BY <2>5, <2>6, <5>1 DEF MatchesIn
        <4>2. QED
          BY <4>1 DEF Control!Candidates
      <3>2. PICK u, w \in Int : u = Control!Score(p, n, seen) /\ w = Control!Score(f, n, seen) /\ u >= w /\ w >= 0
        <4>1. Control!Score(p, n, seen) \in 0 .. ScoreTop /\ Control!Score(f, n, seen) \in 0 .. ScoreTop
          BY <2>5, ScoreRange
        <4>2. Control!Score(p, n, seen) >= Control!Score(f, n, seen)
          BY <2>5, <2>6, ScoreGrows
        <4>3. /\ Control!Score(p, n, seen) \in Int
              /\ Control!Score(f, n, seen) \in Int
              /\ Control!Score(f, n, seen) >= 0
          BY <4>1, ScoreTopIs, Zenon
        <4>4. QED
          BY <4>2, <4>3
      <3>3. ~(w - u >= 800) /\ ~(w - u >= 1400)
        BY <3>2
      <3>4. ~Control!Leads(f, n, programs, seen, 800) /\ ~Control!Leads(f, n, programs, seen, 1400)
        <4>1. /\ ~(Control!Score(f, n, seen) - Control!Score(p, n, seen) >= 800)
              /\ ~(Control!Score(f, n, seen) - Control!Score(p, n, seen) >= 1400)
          BY <3>2, <3>3
        <4>2. 800 \in Int /\ 1400 \in Int
          OBVIOUS
        <4>3. QED
          BY <2>5, <3>1, <4>1, <4>2, LeadIs
      <3>5. Control!Cardinality(C) > 1
        <4>1. IsFiniteSet(C)
          <5>1. C \subseteq Programs
            BY <2>3
          <5>2. IsFiniteSet(Programs)
            BY CommandsAssumption
          <5>3. QED
            BY <5>1, <5>2, FS_Subset
        <4>2. C # {} /\ C # {f}
          BY <3>1
        <4>3. IsFiniteSet(C \ {f}) /\ Cardinality(C \ {f}) = Cardinality(C) - 1 /\ Cardinality(C) \in Nat
          BY <2>5, <4>1, FS_RemoveElement, FS_CardinalityType
        <4>4. Cardinality(C \ {f}) # 0 /\ Cardinality(C \ {f}) \in Nat
          BY <3>1, <4>3, FS_EmptySet, FS_CardinalityType
        <4>5. Cardinality(C) > 1
          BY <4>3, <4>4
        <4>6. QED
          BY <4>5, ControlCount
      <3>6. Control!LikelyFloor(n) \in {6200, 7400}
        BY DEF Control!LikelyFloor
      <3>7. w >= Control!LikelyFloor(n) => w >= 6200
        BY <3>2, <3>6
      <3>10. score = w
        BY <2>4, <3>2 DEF score
      <3>8. M = [how |-> "ambiguous", program |-> "nobody"] \/ M = [how |-> "none", program |-> "nobody"]
        BY <2>1, <2>4, <3>4, <3>5, <3>7, <3>10
      <3>9. QED
        BY <3>8
    <2>7. M.how \in {"high_confidence", "likely"} => M.program = f
      BY <2>1, <2>4
    <2>8. /\ M.how \in {"none", "exact", "high_confidence", "likely", "ambiguous"}
          /\ M.program \in programs \cup {"nobody"}
      BY <2>1, <2>4, <2>5
    <2>9. QED
      BY <2>6, <2>7, <2>8 DEF M
  <1>4. QED
    BY <1>1, <1>2, <1>3

-----------------------------------------------------------------------------
(* The requests.                                                           *)

\* The processes and the snapshot; what runs has run lately, and what a snapshot shows too.
ProcessesInv ==
  /\ Shell \in known /\ known \subseteq Programs /\ Shell \in alive
  /\ alive \subseteq Control!Processes /\ snapshot \subseteq Control!Processes
  /\ prompts \subseteq Control!Processes
  /\ alive \subseteq lately /\ (current => snapshot \subseteq lately)

\* The request, its pace and what it works on.
RequestInv ==
  /\ name \in MCNames \cup {Control!NoName}
  /\ pace \in {"idle", "ask", "do", "open", "kill", "end"}
  /\ target \in Control!Processes \cup {"nobody"}
  /\ how \in {"none", "exact", "high_confidence", "likely", "ambiguous"}
  /\ attempts \in {0, 1, 2} /\ (pace \in {"idle", "ask", "do"} => attempts = 0)
  /\ pace \in {"open", "kill"} => attempts \in {0, 1}
  /\ pace \in {"idle", "ask", "do"} => target = "nobody"
  /\ pace = "open" => target \in Control!Processes
  /\ pace = "idle" \/ pace = "kill" => how = "none"
  /\ pace = "ask" => how = "none"

\* What was matched by resemblance leads the others.
MatchInv ==
  how \in {"high_confidence", "likely"} /\ target \in known
    => /\ name \in MCNames
       /\ \A p \in known \ {target} : ~MatchesIn(name, shown, p, target)

ProgramsInv == ProcessesInv /\ RequestInv /\ MatchInv

\* What a name matches, by what was shown.
LEMMA MatchesAre == \A p, q : Control!Matches(p, q) <=> MatchesIn(name, shown, p, q)
  BY Zenon DEF Control!Matches, MatchesIn

\* No tie is acted on, and the shell lives.
LEMMA ProgramsMean == ProgramsInv => Control!TypeOK /\ Control!NoTieIsActedOn /\ Control!ShellLives
  <1> SUFFICES ASSUME ProgramsInv PROVE Control!TypeOK /\ Control!NoTieIsActedOn /\ Control!ShellLives
    OBVIOUS
  <1>1. attempts \in {0, 1, 2}
    BY DEF ProgramsInv, RequestInv
  <1>2. attempts \in 0 .. 2
    BY <1>1
  <1>3. Control!TypeOK
    BY <1>2 DEF ProgramsInv, ProcessesInv, RequestInv, Control!TypeOK, Control!Nobody
  <1>4. Control!NoTieIsActedOn
    BY MatchesAre, Zenon DEF ProgramsInv, MatchInv, Control!NoTieIsActedOn
  <1>5. QED
    BY <1>3, <1>4 DEF ProgramsInv, ProcessesInv, Control!ShellLives

\* Programs are processes, and no program is nobody.
LEMMA ProgramsAre ==
  /\ Programs \subseteq Control!Processes /\ Shell \in Programs /\ "nobody" \notin Programs
  /\ Spelled \in Control!Processes /\ Twin \in Control!Processes /\ Spelled \notin Programs
  BY CommandsAssumption, AbsentAssumption DEF Control!Processes

\* Nothing was asked of the programs.
LEMMA ProgramsBegin == Control!Init => ProgramsInv
  <1> SUFFICES ASSUME Control!Init PROVE ProgramsInv
    OBVIOUS
  <1>1. ProcessesInv
    BY ProgramsAre DEF Control!Init, ProcessesInv
  <1>2. RequestInv /\ MatchInv
    BY DEF Control!Init, RequestInv, MatchInv, Control!Nobody
  <1>3. QED
    BY <1>1, <1>2 DEF ProgramsInv

\* What is seen when a name is resolved.
LEMMA SeenIs ==
  ASSUME ProcessesInv
  PROVE  /\ Control!Seen \subseteq Control!Processes
         /\ Control!Seen \subseteq lately \/ (~psutil /\ Control!Seen = {})
         /\ Control!Seen \subseteq lately
  BY DEF ProcessesInv, Control!Seen

\* A name is resolved to a program, or to none, and leads the others by what was seen.
LEMMA ResolvedIs ==
  ASSUME ProcessesInv, RequestInv
  PROVE  /\ Control!Resolved.how \in {"none", "exact", "high_confidence", "likely", "ambiguous"}
         /\ Control!Resolved.program \in Programs \cup {"nobody"}
         /\ Control!Resolved.how \in {"high_confidence", "likely"} =>
              /\ name \in MCNames
              /\ \A p \in (IF Control!Missed THEN Programs ELSE known) \ {Control!Resolved.program} :
                    ~MatchesIn(name, Control!Seen, p, Control!Resolved.program)
  <1>1. CASE name.folder
    <2>1. Control!Resolved = [how |-> "none", program |-> "nobody"]
      BY <1>1 DEF Control!Resolved, Control!Nothing, Control!Nobody
    <2>2. QED
      BY <2>1
  <1>2. CASE ~name.folder
    <2>1. name \in MCNames
      BY <1>2 DEF RequestInv, Control!NoName
    <2>2. PICK programs : programs = IF Control!Missed THEN Programs ELSE known
      OBVIOUS
    <2>3. programs \in SUBSET Programs
      BY <2>2 DEF ProcessesInv
    <2>4. Control!Resolved = Control!Match(name, programs, Control!Seen)
      BY <1>2, <2>2 DEF Control!Resolved
    <2>5. IsName(name)
      BY <2>1, NamesAre
    <2>6. PICK seen : seen = Control!Seen
      OBVIOUS
    <2>7. /\ Control!Match(name, programs, seen).how \in {"none", "exact", "high_confidence", "likely", "ambiguous"}
          /\ Control!Match(name, programs, seen).program \in programs \cup {"nobody"}
          /\ Control!Match(name, programs, seen).how \in {"high_confidence", "likely"} =>
              \A p \in programs \ {Control!Match(name, programs, seen).program} :
                 ~MatchesIn(name, seen, p, Control!Match(name, programs, seen).program)
      BY <2>3, <2>5, MatchFacts
    <2>8. PICK m : m = Control!Resolved
      OBVIOUS
    <2>9. m = Control!Match(name, programs, seen)
      BY <2>4, <2>6, <2>8
    <2>10. QED
      BY <2>1, <2>2, <2>3, <2>6, <2>7, <2>8, <2>9
  <1>3. QED
    BY <1>1, <1>2

\* What a resolution leaves behind.
LEMMA ResolveKeeps ==
  ASSUME ProgramsInv, Control!Resolve, UNCHANGED <<alive, lately>>, prompts' \subseteq Control!Processes
  PROVE  /\ ProcessesInv'
         /\ known' = IF Control!Missed THEN Programs ELSE known
         /\ how' = Control!Resolved.how /\ shown' = Control!Seen
  <1>1. /\ known' = (IF Control!Missed THEN Programs ELSE known) /\ how' = Control!Resolved.how /\ shown' = Control!Seen
        /\ snapshot' = Control!Seen
    BY DEF Control!Resolve
  <1>2. ProcessesInv
    BY DEF ProgramsInv
  <1>3. Shell \in known' /\ known' \subseteq Programs
    BY <1>1, <1>2, ProgramsAre DEF ProcessesInv
  <1>4. Control!Seen \subseteq Control!Processes /\ Control!Seen \subseteq lately
    BY <1>2, SeenIs
  <1>5. ProcessesInv'
    BY <1>1, <1>2, <1>3, <1>4 DEF ProcessesInv
  <1>6. QED
    BY <1>1, <1>5

\* What only is asked about while it runs.
RunsLately == \A p \in prompts' \ prompts : psutil => p \in lately

\* A spoken name is routed.
LEMMA ProgramsRoute ==
  ASSUME ProgramsInv, Control!Route
  PROVE  ProgramsInv'
  <1>1. /\ pace = "ask" /\ Control!Resolve /\ pace' \in {"end", "do"} /\ (pace' = "do" => Control!Resolved.how # "ambiguous")
        /\ UNCHANGED <<alive, lately, name, target, attempts, prompts>>
    BY DEF Control!Route
  <1>2. ProcessesInv /\ RequestInv
    BY DEF ProgramsInv
  <1>3. prompts' \subseteq Control!Processes
    BY <1>1, <1>2 DEF ProcessesInv
  <1>4. /\ ProcessesInv'
        /\ known' = (IF Control!Missed THEN Programs ELSE known)
        /\ how' = Control!Resolved.how
    BY <1>1, <1>3, ResolveKeeps
  <1>5. how' \in {"none", "exact", "high_confidence", "likely", "ambiguous"}
    BY <1>2, <1>4, ResolvedIs
  <1>6. target' = "nobody" /\ attempts' = 0
    BY <1>1, <1>2 DEF RequestInv
  <1>7. RequestInv'
    BY <1>1, <1>2, <1>5, <1>6 DEF RequestInv
  <1>8. target' \notin known'
    BY <1>4, <1>6, ProgramsAre DEF ProcessesInv
  <1>9. QED
    BY <1>4, <1>7, <1>8 DEF ProgramsInv, MatchInv

\* What a resolution gives the request to work on.
LEMMA TargetIsMatched ==
  ASSUME ProgramsInv, Control!Resolve, UNCHANGED <<alive, lately, name>>,
         target' = "nobody" \/ target' = Spelled \/ target' = Control!Resolved.program
  PROVE  MatchInv'
  <1>1. ProcessesInv /\ RequestInv
    BY DEF ProgramsInv
  <1>2. /\ known' = (IF Control!Missed THEN Programs ELSE known)
        /\ how' = Control!Resolved.how
        /\ shown' = Control!Seen
    BY DEF Control!Resolve
  <1>3. known' \subseteq Programs
    BY <1>1, <1>2 DEF ProcessesInv
  <1>4. CASE target' = "nobody" \/ target' = Spelled
    BY <1>3, <1>4, ProgramsAre DEF MatchInv
  <1>5. CASE target' = Control!Resolved.program
    <2>1. how' \in {"high_confidence", "likely"} =>
              /\ name \in MCNames
              /\ \A p \in known' \ {target'} : ~MatchesIn(name, shown', p, target')
      BY <1>1, <1>2, <1>5, ResolvedIs
    <2>2. name' = name
      OBVIOUS
    <2>3. QED
      BY <2>1, <2>2 DEF MatchInv, MatchesIn
  <1>6. QED
    BY <1>4, <1>5

\* A program is opened.
LEMMA ProgramsOpen ==
  ASSUME ProgramsInv, Control!Open
  PROVE  ProgramsInv'
  <1>1. /\ pace = "do" /\ UNCHANGED <<alive, lately, name, attempts>>
        /\ \/ pace' = "end" /\ UNCHANGED <<target, prompts, known, snapshot, current, how, shown>>
           \/ Control!Resolve /\ pace' = "end" /\ UNCHANGED <<target, prompts>>
           \/ /\ Control!Resolve /\ pace' = "open" /\ UNCHANGED prompts
              /\ target' = Spelled \/ (target' = Control!Resolved.program /\ target' # "nobody")
    BY DEF Control!Open, Control!Fails, Control!Resolution, Control!Nobody
  <1>2. ProcessesInv /\ RequestInv /\ target = "nobody" /\ attempts = 0
    BY <1>1 DEF ProgramsInv, RequestInv
  <1>3. prompts' \subseteq Control!Processes
    BY <1>1, <1>2 DEF ProcessesInv
  <1>4. CASE pace' = "end" /\ UNCHANGED <<target, prompts, known, snapshot, current, how, shown>>
    <2>1. ProcessesInv'
      BY <1>1, <1>2, <1>4 DEF ProcessesInv
    <2>2. RequestInv'
      BY <1>1, <1>2, <1>4 DEF RequestInv
    <2>3. target' \notin known'
      BY <1>2, <1>4, ProgramsAre DEF ProcessesInv
    <2>4. QED
      BY <2>1, <2>2, <2>3 DEF ProgramsInv, MatchInv
  <1>5. CASE Control!Resolve
    <2>1. ProcessesInv' /\ how' = Control!Resolved.how
      BY <1>1, <1>3, <1>5, ResolveKeeps
    <2>2. /\ how' \in {"none", "exact", "high_confidence", "likely", "ambiguous"}
          /\ Control!Resolved.program \in Programs \cup {"nobody"}
      BY <1>2, <2>1, ResolvedIs
    <2>3. /\ pace' \in {"end", "open"}
          /\ (target' = "nobody" \/ target' = Spelled \/ target' = Control!Resolved.program)
      BY <1>1, <1>2
    <2>4. target' \in Control!Processes \cup {"nobody"} /\ (pace' = "open" => target' \in Control!Processes)
      BY <1>1, <2>2, <2>3, ProgramsAre
    <2>5. RequestInv'
      BY <1>1, <1>2, <2>2, <2>3, <2>4 DEF RequestInv
    <2>6. MatchInv'
      BY <1>1, <1>5, <2>3, TargetIsMatched
    <2>7. QED
      BY <2>1, <2>5, <2>6 DEF ProgramsInv
  <1>6. QED
    BY <1>1, <1>4, <1>5

\* The end of a program is requested, of one that was seen.
LEMMA ProgramsClose ==
  ASSUME ProgramsInv, Control!RequestClose
  PROVE  ProgramsInv' /\ RunsLately
  <1>1. /\ pace = "do" /\ pace' = "end" /\ UNCHANGED <<alive, psutil, lately, name, attempts>>
        /\ \/ UNCHANGED <<target, prompts, known, snapshot, current, how, shown>>
           \/ Control!Resolve /\ UNCHANGED <<target, prompts>>
           \/ /\ Control!Resolve /\ Control!IsRunning
              /\ target' = Control!Resolved.program /\ prompts' = prompts \cup {Control!Named}
    BY DEF Control!RequestClose, Control!Resolution
  <1>2. ProcessesInv /\ RequestInv /\ target = "nobody" /\ attempts = 0
    BY <1>1 DEF ProgramsInv, RequestInv
  <1>4. CASE UNCHANGED <<target, prompts, known, snapshot, current, how, shown>>
    <2>1. ProcessesInv'
      BY <1>1, <1>2, <1>4 DEF ProcessesInv
    <2>2. RequestInv'
      BY <1>1, <1>2, <1>4 DEF RequestInv
    <2>3. target' \notin known'
      BY <1>2, <1>4, ProgramsAre DEF ProcessesInv
    <2>4. QED
      BY <1>4, <2>1, <2>2, <2>3 DEF ProgramsInv, MatchInv, RunsLately
  <1>5. CASE Control!Resolve
    <2>0. /\ Control!Resolved.how \in {"none", "exact", "high_confidence", "likely", "ambiguous"}
          /\ Control!Resolved.program \in Programs \cup {"nobody"}
      BY <1>2, ResolvedIs
    <2>8. Control!Named \in Control!Processes
      <3>1. PICK p : p = IF Control!Resolved.program = "nobody" THEN Spelled ELSE Control!Resolved.program
        OBVIOUS
      <3>2. p \in Control!Processes
        BY <2>0, <3>1, ProgramsAre
      <3>3. Control!Named = Control!ProcessOf(p, Control!Seen)
        BY <3>1 DEF Control!Named, Control!Nobody
      <3>4. QED
        BY <3>2, <3>3, ProgramsAre DEF Control!ProcessOf
    <2>9. prompts' \subseteq Control!Processes
      BY <1>1, <1>2, <2>8 DEF ProcessesInv
    <2>1. ProcessesInv' /\ how' = Control!Resolved.how
      BY <1>1, <1>5, <2>9, ResolveKeeps
    <2>3. target' = "nobody" \/ target' = Control!Resolved.program
      BY <1>1, <1>2
    <2>4. target' \in Control!Processes \cup {"nobody"}
      BY <2>0, <2>3, ProgramsAre
    <2>5. RequestInv'
      BY <1>1, <1>2, <2>0, <2>1, <2>4 DEF RequestInv
    <2>6. MatchInv'
      BY <1>1, <1>5, <2>3, TargetIsMatched
    <2>7. RunsLately
      <3>1. Control!IsRunning => (psutil => Control!Named \in Control!Seen)
        BY DEF Control!IsRunning
      <3>2. Control!Seen \subseteq lately
        BY <1>2, SeenIs
      <3>3. QED
        BY <1>1, <3>1, <3>2 DEF RunsLately
    <2>10. QED
      BY <2>1, <2>5, <2>6, <2>7 DEF ProgramsInv
  <1>6. QED
    BY <1>1, <1>4, <1>5

\* A template is run: the shell lives, and what runs has run lately.
LEMMA ProgramsAttempt ==
  ASSUME ProgramsInv, Control!RunOpen \/ Control!RunClose
  PROVE  ProgramsInv'
  <1>0. ProcessesInv /\ RequestInv
    BY DEF ProgramsInv
  <1>1. PICK effect : Control!Attempt(effect) /\ pace \in {"open", "kill"} /\ Shell \in effect /\ effect \subseteq Control!Processes
    <2>1. CASE Control!RunOpen
      <3>1. pace = "open" /\ Control!Attempt(alive \cup {target})
        BY <2>1 DEF Control!RunOpen
      <3>2. Shell \in alive \cup {target} /\ alive \cup {target} \subseteq Control!Processes
        BY <1>0, <3>1 DEF ProcessesInv, RequestInv
      <3>3. QED
        BY <3>1, <3>2
    <2>2. CASE Control!RunClose
      <3>1. pace = "kill" /\ Control!Attempt(IF target = Shell THEN alive ELSE alive \ {target})
        BY <2>2 DEF Control!RunClose
      <3>2. /\ Shell \in (IF target = Shell THEN alive ELSE alive \ {target})
            /\ (IF target = Shell THEN alive ELSE alive \ {target}) \subseteq Control!Processes
        BY <1>0 DEF ProcessesInv
      <3>3. QED
        BY <3>1, <3>2
    <2>3. QED
      BY <2>1, <2>2
  <1>2. /\ UNCHANGED <<known, psutil, snapshot, current, name, target, how, shown, prompts>>
        /\ alive' = effect \/ alive' = alive
        /\ lately' = lately \cup alive'
    BY <1>1 DEF Control!Attempt
  <1>3. /\ attempts' = attempts + 1 /\ (pace' = "end" \/ (pace' = pace /\ attempts' < 2))
    BY <1>1 DEF Control!Attempt
  <1>4. ProcessesInv'
    BY <1>0, <1>1, <1>2 DEF ProcessesInv
  <1>5. attempts \in {0, 1}
    BY <1>0, <1>1 DEF RequestInv
  <1>6. attempts' \in {1, 2} /\ (pace' = "end" \/ (pace' = pace /\ attempts' = 1))
    BY <1>3, <1>5
  <1>7. RequestInv'
    BY <1>0, <1>1, <1>2, <1>6 DEF RequestInv
  <1>8. MatchInv'
    BY <1>2 DEF ProgramsInv, MatchInv, MatchesIn
  <1>9. QED
    BY <1>4, <1>7, <1>8 DEF ProgramsInv

\* The turns of the user.
LEMMA ProgramsAsked ==
  ASSUME ProgramsInv, Control!Answer \/ Control!Age \/ \E n \in MCNames \cup {Control!NoName} : Control!Asked(n)
  PROVE  ProgramsInv' /\ RunsLately
  <1>0. ProcessesInv /\ RequestInv /\ MatchInv
    BY DEF ProgramsInv
  <1>1. CASE Control!Answer
    <2>1. /\ name' = Control!NoName /\ pace' = "idle" /\ target' = "nobody" /\ how' = "none" /\ attempts' = 0
          /\ UNCHANGED <<known, alive, psutil, snapshot, current, lately, prompts>>
      BY <1>1 DEF Control!Answer, Control!Nobody
    <2>2. ProcessesInv' /\ RequestInv' /\ MatchInv' /\ RunsLately
      BY <1>0, <2>1 DEF ProcessesInv, RequestInv, MatchInv, RunsLately
    <2>3. QED
      BY <2>2 DEF ProgramsInv
  <1>2. CASE Control!Age
    <2>1. /\ current' = FALSE /\ lately' = alive
          /\ UNCHANGED <<known, alive, psutil, snapshot, name, pace, target, how, shown, attempts, prompts>>
      BY <1>2 DEF Control!Age
    <2>2. ProcessesInv' /\ RequestInv' /\ RunsLately
      BY <1>0, <2>1 DEF ProcessesInv, RequestInv, RunsLately
    <2>3. MatchInv'
      BY <1>0, <2>1 DEF MatchInv, MatchesIn
    <2>4. QED
      BY <2>2, <2>3 DEF ProgramsInv
  <1>3. ASSUME NEW n \in MCNames \cup {Control!NoName}, Control!Asked(n) PROVE ProgramsInv' /\ RunsLately
    <2>1. /\ pace = "idle" /\ name' = n /\ pace' = "ask"
          /\ UNCHANGED <<known, alive, psutil, snapshot, current, lately, target, how, shown, attempts, prompts>>
      BY <1>3 DEF Control!Asked
    <2>2. target = "nobody" /\ how = "none" /\ attempts = 0
      BY <1>0, <2>1 DEF RequestInv
    <2>3. ProcessesInv' /\ RequestInv' /\ MatchInv' /\ RunsLately
      BY <1>0, <2>1, <2>2 DEF ProcessesInv, RequestInv, MatchInv, RunsLately
    <2>4. QED
      BY <2>3 DEF ProgramsInv
  <1>4. QED
    BY <1>1, <1>2, <1>3

\* A confirmation, its end, and what the processes do themselves.
LEMMA ProgramsProcess ==
  ASSUME ProgramsInv, NEW p \in Control!Processes, Control!Confirm(p) \/ Control!Expire(p) \/ Control!Move(p)
  PROVE  ProgramsInv' /\ RunsLately
  <1>0. ProcessesInv /\ RequestInv /\ MatchInv
    BY DEF ProgramsInv
  <1>1. CASE Control!Confirm(p)
    <2>1. /\ pace = "idle" /\ pace' = "kill" /\ target' = p /\ prompts' = prompts \ {p}
          /\ UNCHANGED <<known, alive, psutil, snapshot, current, lately, name, how, shown, attempts>>
      BY <1>1 DEF Control!Confirm
    <2>2. how = "none" /\ attempts = 0
      BY <1>0, <2>1 DEF RequestInv
    <2>3. ProcessesInv' /\ RequestInv' /\ MatchInv' /\ RunsLately
      BY <1>0, <2>1, <2>2 DEF ProcessesInv, RequestInv, MatchInv, RunsLately
    <2>4. QED
      BY <2>3 DEF ProgramsInv
  <1>2. CASE Control!Expire(p)
    <2>1. /\ prompts' = prompts \ {p}
          /\ UNCHANGED <<known, alive, psutil, snapshot, current, lately, name, pace, target, how, shown, attempts>>
      BY <1>2 DEF Control!Expire, Control!Environment
    <2>2. ProcessesInv' /\ RequestInv' /\ RunsLately
      BY <1>0, <2>1 DEF ProcessesInv, RequestInv, RunsLately
    <2>3. MatchInv'
      BY <1>0, <2>1 DEF MatchInv, MatchesIn
    <2>4. QED
      BY <2>2, <2>3 DEF ProgramsInv
  <1>3. CASE Control!Move(p)
    <2>1. /\ p # Shell /\ alive' = (IF p \in alive THEN alive \ {p} ELSE alive \cup {p}) /\ lately' = lately \cup alive'
          /\ UNCHANGED <<known, psutil, snapshot, current, name, pace, target, how, shown, attempts, prompts>>
      BY <1>3 DEF Control!Move
    <2>2. ProcessesInv' /\ RequestInv' /\ RunsLately
      BY <1>0, <2>1 DEF ProcessesInv, RequestInv, RunsLately
    <2>3. MatchInv'
      BY <1>0, <2>1 DEF MatchInv, MatchesIn
    <2>4. QED
      BY <2>2, <2>3 DEF ProgramsInv
  <1>4. QED
    BY <1>1, <1>2, <1>3

\* Every step keeps it, and asks only of what was seen running.
LEMMA ProgramsSteps ==
  ASSUME ProgramsInv, [Control!Next]_Control!pcVars
  PROVE  ProgramsInv' /\ [RunsLately]_Control!pcVars
  <1>1. CASE Control!Route
    <2>1. prompts' = prompts
      BY <1>1 DEF Control!Route
    <2>2. QED
      BY <1>1, <2>1, ProgramsRoute DEF RunsLately
  <1>2. CASE Control!Open
    <2>1. prompts' = prompts
      BY <1>2 DEF Control!Open, Control!Fails
    <2>2. QED
      BY <1>2, <2>1, ProgramsOpen DEF RunsLately
  <1>3. CASE Control!RequestClose
    BY <1>3, ProgramsClose
  <1>4. CASE Control!RunOpen \/ Control!RunClose
    <2>1. prompts' = prompts
      BY <1>4 DEF Control!RunOpen, Control!RunClose, Control!Attempt
    <2>2. QED
      BY <1>4, <2>1, ProgramsAttempt DEF RunsLately
  <1>5. CASE Control!Answer \/ Control!Age \/ \E n \in MCNames \cup {Control!NoName} : Control!Asked(n)
    BY <1>5, ProgramsAsked
  <1>6. ASSUME NEW p \in Control!Processes, Control!Confirm(p) \/ Control!Expire(p) \/ Control!Move(p)
        PROVE  ProgramsInv' /\ [RunsLately]_Control!pcVars
    BY <1>6, ProgramsProcess
  <1>7. CASE UNCHANGED Control!pcVars
    BY <1>7 DEF Control!pcVars, ProgramsInv, ProcessesInv, RequestInv, MatchInv, MatchesIn
  <1>8. QED
    BY <1>1, <1>2, <1>3, <1>4, <1>5, <1>6, <1>7 DEF Control!Next

-----------------------------------------------------------------------------
(* The score of the words.                                                 *)

\* A word matches by 90 hundredths at least.
LEMMA QualitiesAre == Qualities \subseteq 90 .. 100
  BY CommandsAssumption

WordsHeard == \A w \in DOMAIN heard : heard[w] \in Qualities

\* Of words that are heard one is heard best.
LEMMA BestIs ==
  ASSUME WordsHeard, NEW ws, Keywords!Heard(ws) # {}
  PROVE  Keywords!Best(ws) \in Nat /\ 90 <= Keywords!Best(ws) /\ Keywords!Best(ws) <= 100
  <1> DEFINE S == {heard[w] : w \in Keywords!Heard(ws)}
             Most(q) == \A w \in Keywords!Heard(ws) : heard[w] <= q
  <1>0. \A x \in 90 .. 100 : x \in Nat /\ 90 <= x /\ x <= 100 /\ x \in 0 .. 100
    OBVIOUS
  <1>1. \A w \in Keywords!Heard(ws) : heard[w] \in 90 .. 100
    BY QualitiesAre DEF Keywords!Heard, WordsHeard
  <1>2. S \in SUBSET (0 .. 100) /\ S # {}
    BY <1>0, <1>1
  <1>3. \E q \in S : Most(q)
    <2>1. PICK N \in Nat : N = 100
      OBVIOUS
    <2>2. PICK q \in S : \A y \in S : y <= q
      BY <1>2, <2>1, GreatestOf
    <2>3. QED
      BY <2>2
  <1>4. Keywords!Best(ws) = CHOOSE q \in S : Most(q)
    BY DEF Keywords!Best
  <1>5. \A q \in S : q \in 90 .. 100
    BY <1>1
  <1> HIDE DEF S, Most
  <1>6. Keywords!Best(ws) \in S
    BY <1>3, <1>4
  <1>7. QED
    BY <1>0, <1>5, <1>6

\* What an intent is scored by, without its words.
Pts(v, n)      == (IF v THEN 2 ELSE 0) + (IF n THEN 1 ELSE 0)

\* A verb counts two, a noun one.
LEMMA PointsAre ==
  ASSUME NEW i
  PROVE  /\ Keywords!Points(i) \in Nat /\ Keywords!Points(i) <= 3
         /\ i # "screenshot" => Keywords!Points(i) = (IF Keywords!HasVerb(i) THEN 2 ELSE 0) + (IF Keywords!HasNoun(i) THEN 1 ELSE 0)
  <1>1. \/ Keywords!Points(i) = 0
        \/ Keywords!Points(i) = (IF Keywords!HasVerb(i) THEN 2 ELSE 0) + (IF Keywords!HasNoun(i) THEN 1 ELSE 0)
    BY DEF Keywords!Points
  <1>2. QED
    BY <1>1 DEF Keywords!Points

\* The quality of two words.
LEMMA QualityIs ==
  ASSUME WordsHeard, NEW i
  PROVE  Keywords!Quality2(i) \in Nat /\ Keywords!Quality2(i) <= 200
  <1>1. Keywords!HasVerb(i) => Keywords!Best(Keywords!Actions[i]) \in Nat /\ Keywords!Best(Keywords!Actions[i]) <= 100
    BY BestIs DEF Keywords!HasVerb
  <1>2. Keywords!HasNoun(i) => Keywords!Best(Keywords!Targets[i]) \in Nat /\ Keywords!Best(Keywords!Targets[i]) <= 100
    BY BestIs DEF Keywords!HasNoun
  <1>3. PICK a, t : a = Keywords!Best(Keywords!Actions[i]) /\ t = Keywords!Best(Keywords!Targets[i])
    OBVIOUS
  <1>4. CASE Keywords!HasVerb(i) /\ Keywords!HasNoun(i)
    <2>1. Keywords!Quality2(i) = a + t
      BY <1>3, <1>4 DEF Keywords!Quality2
    <2>2. QED
      BY <1>1, <1>2, <1>3, <1>4, <2>1
  <1>5. CASE Keywords!HasVerb(i) /\ ~Keywords!HasNoun(i)
    <2>1. Keywords!Quality2(i) = 2 * a
      BY <1>3, <1>5 DEF Keywords!Quality2
    <2>2. QED
      BY <1>1, <1>3, <1>5, <2>1
  <1>6. CASE ~Keywords!HasVerb(i) /\ Keywords!HasNoun(i)
    <2>1. Keywords!Quality2(i) = 2 * t
      BY <1>3, <1>6 DEF Keywords!Quality2
    <2>2. QED
      BY <1>2, <1>3, <1>6, <2>1
  <1>7. CASE ~Keywords!HasVerb(i) /\ ~Keywords!HasNoun(i)
    <2>1. Keywords!Quality2(i) = 0
      BY <1>7 DEF Keywords!Quality2
    <2>2. QED
      BY <2>1
  <1>8. QED
    BY <1>4, <1>5, <1>6, <1>7

\* No confidence is higher than this.
TopConfidence == 400000

\* The confidence is bounded.
LEMMA ConfidenceIs ==
  ASSUME WordsHeard, NEW i
  PROVE  Keywords!Confidence(i) \in Nat /\ Keywords!Confidence(i) <= TopConfidence
  <1>1. PICK p, q \in Nat : p = Keywords!Points(i) /\ q = Keywords!Quality2(i) /\ p <= 3 /\ q <= 200
    BY PointsAre, QualityIs
  <1>2. PICK m : m = Keywords!MostPoints(i)
    OBVIOUS
  <1>3. m = 2 \/ m = 3
    BY <1>2 DEF Keywords!MostPoints
  <1>4. Keywords!Shared(i) = (p * (13000 + 35 * q) * 6) \div m
    BY <1>1, <1>2 DEF Keywords!Shared
  <1>5. PICK x \in Nat : x = p * (13000 + 35 * q) * 6 /\ x <= 360000
    <2>1. p = 0 \/ p = 1 \/ p = 2 \/ p = 3
      BY <1>1
    <2>2. 13000 + 35 * q <= 20000 /\ 13000 + 35 * q \in Nat
      BY <1>1
    <2>3. QED
      BY <2>1, <2>2
  <1>6. x \div m \in Nat /\ x \div m <= 360000
    BY <1>3, <1>5
  <1>7. Keywords!HasNoun(i) => Keywords!Alone(i) \in Nat /\ Keywords!Alone(i) <= 360000
    BY BestIs DEF Keywords!HasNoun, Keywords!Alone
  <1>8. QED
    BY <1>4, <1>5, <1>6, <1>7 DEF Keywords!Confidence, TopConfidence

\* Of some intents one is above the others.
LEMMA FirstIs ==
  ASSUME WordsHeard, NEW is, is # {}
  PROVE  Keywords!First(is) \in is /\ \A j \in is : Keywords!Above(Keywords!First(is), j)
  <1> DEFINE V(i) == Keywords!Points(i) * (TopConfidence + 1) + Keywords!Confidence(i)
             S == {V(i) : i \in is}
             Top1(i) == \A j \in is : Keywords!Above(i, j)
  <1>1. PICK K \in Nat : K = TopConfidence + 1
    BY DEF TopConfidence
  <1>2. \A i : Keywords!Points(i) \in Nat /\ Keywords!Points(i) <= 3 /\ Keywords!Confidence(i) \in Nat /\ Keywords!Confidence(i) < K
    <2> TAKE i
    <2>1. Keywords!Confidence(i) <= TopConfidence /\ TopConfidence \in Nat /\ Keywords!Confidence(i) \in Nat
      BY ConfidenceIs DEF TopConfidence
    <2>2. QED
      BY <1>1, <2>1, PointsAre
  <1>3. \A p, c \in Nat : p <= 3 /\ c < K => p * K + c \in 0 .. 4 * K
    <2> TAKE p, c \in Nat
    <2> SUFFICES ASSUME p <= 3, c < K PROVE p * K + c \in 0 .. 4 * K
      OBVIOUS
    <2>1. p = 0 \/ p = 1 \/ p = 2 \/ p = 3
      OBVIOUS
    <2>2. QED
      BY <2>1
  <1>4. \A i : V(i) \in 0 .. 4 * K
    BY <1>1, <1>2, <1>3
  <1>5. 4 * K \in Nat
    BY <1>1
  <1>6. PICK m \in S : \A y \in S : y <= m
    <2>1. S \in SUBSET (0 .. 4 * K) /\ S # {}
      BY <1>4
    <2> HIDE DEF S
    <2>2. QED
      BY <1>5, <2>1, GreatestOf
  <1>7. PICK b \in is : m = V(b)
    OBVIOUS
  <1>8. \A p, c, q, d \in Nat : q <= 3 /\ p <= 3 /\ c < K /\ d < K /\ q * K + d <= p * K + c => p > q \/ (p = q /\ c >= d)
    <2> TAKE p, c, q, d \in Nat
    <2> SUFFICES ASSUME q <= 3, p <= 3, c < K, d < K, q * K + d <= p * K + c PROVE p > q \/ (p = q /\ c >= d)
      OBVIOUS
    <2>1. p = 0 \/ p = 1 \/ p = 2 \/ p = 3
      OBVIOUS
    <2>2. q = 0 \/ q = 1 \/ q = 2 \/ q = 3
      OBVIOUS
    <2>3. QED
      BY <2>1, <2>2
  <1>9. \A j \in is : Keywords!Above(b, j)
    <2> TAKE j \in is
    <2>1. V(j) <= V(b)
      BY <1>6, <1>7
    <2>2. Keywords!Points(j) * K + Keywords!Confidence(j) <= Keywords!Points(b) * K + Keywords!Confidence(b)
      BY <1>1, <2>1
    <2>3. QED
      BY <1>2, <1>8, <2>2 DEF Keywords!Above
  <1>10. Keywords!First(is) = CHOOSE i \in is : Top1(i)
    BY DEF Keywords!First
  <1>11. Top1(b)
    BY <1>9
  <1> HIDE DEF Top1
  <1>12. Keywords!First(is) \in is /\ Top1(Keywords!First(is))
    BY <1>10, <1>11
  <1>13. QED
    BY <1>12 DEF Top1

\* A setting and its opposite are applied to the same things.
LEMMA OppositeIs ==
  ASSUME NEW s \in Keywords!Settings
  PROVE  /\ Keywords!Opposite[s] \in Keywords!Settings /\ Keywords!Opposite[s] # s
         /\ s \in Keywords!Intents /\ s # "screenshot" /\ s # "unknown"
         /\ Keywords!Targets[Keywords!Opposite[s]] = Keywords!Targets[s] /\ Keywords!Targets[s] # {}
  BY DEF Keywords!Settings, Keywords!Opposite, Keywords!Targets, Keywords!Intents, Keywords!Actions

\* The words that are heard, and nothing that is found by them without a reason.
KeywordsInv ==
  /\ WordsHeard /\ Keywords!TypeOK
  /\ Keywords!NamedIsNotSwitched /\ Keywords!OppositesCancel /\ Keywords!ResemblanceIsIdle

\* Nothing was found in the words.
LEMMA KeywordsBegin == Keywords!Init => KeywordsInv
  <1> SUFFICES ASSUME Keywords!Init PROVE KeywordsInv
    OBVIOUS
  <1>1. WordsHeard /\ found = "none"
    BY DEF Keywords!Init, WordsHeard
  <1>2. "none" \notin Keywords!Settings
    BY DEF Keywords!Settings
  <1>3. QED
    BY <1>1, <1>2
       DEF KeywordsInv, Keywords!TypeOK, Keywords!NamedIsNotSwitched, Keywords!OppositesCancel,
           Keywords!ResemblanceIsIdle

\* What is found comes first, is sure enough and is not near to another one.
LEMMA FoundIs ==
  ASSUME WordsHeard, NEW b, b = Keywords!Mapped(Keywords!Classified), b \in Keywords!Settings
  PROVE  /\ b \in Keywords!Candidates /\ \A j \in Keywords!Candidates : Keywords!Above(b, j)
         /\ ~(Keywords!Confidence(b) < 78000)
         /\ \A o \in Keywords!Candidates \ {b} :
              ~(Keywords!Points(o) = Keywords!Points(b) /\ Keywords!Confidence(b) < Keywords!Confidence(o) + 9600)
  <1>1. b # "unknown"
    BY OppositeIs
  <1>2. b = Keywords!Classified /\ ~(Keywords!Confidence(b) < Keywords!Floor(b))
    BY <1>1 DEF Keywords!Mapped
  <1>3. Keywords!Floor(b) = 78000
    BY DEF Keywords!Floor, Keywords!Hundredths
  <1>4. Keywords!Candidates # {} /\ b = Keywords!First(Keywords!Candidates)
        /\ ~(Keywords!Candidates \ {b} # {} /\ Keywords!NearTie(b, Keywords!First(Keywords!Candidates \ {b})))
    BY <1>1, <1>2 DEF Keywords!Classified
  <1>5. b \in Keywords!Candidates /\ \A j \in Keywords!Candidates : Keywords!Above(b, j)
    BY <1>4, FirstIs
  <1>6. ASSUME NEW o \in Keywords!Candidates \ {b}, Keywords!Points(o) = Keywords!Points(b),
               Keywords!Confidence(b) < Keywords!Confidence(o) + 9600
        PROVE  FALSE
    <2>1. PICK s : s = Keywords!First(Keywords!Candidates \ {b})
      OBVIOUS
    <2>2. s \in Keywords!Candidates \ {b} /\ Keywords!Above(s, o)
      BY <1>6, <2>1, FirstIs
    <2>3. Keywords!Above(b, s) /\ ~Keywords!NearTie(b, s)
      BY <1>4, <1>5, <2>1, <2>2
    <2>4. PICK pb, ps, po, cb, cs, co \in Nat :
            /\ pb = Keywords!Points(b) /\ ps = Keywords!Points(s) /\ po = Keywords!Points(o)
            /\ cb = Keywords!Confidence(b) /\ cs = Keywords!Confidence(s) /\ co = Keywords!Confidence(o)
      BY PointsAre, ConfidenceIs
    <2>5. (ps > po \/ (ps = po /\ cs >= co)) /\ (pb > ps \/ (pb = ps /\ cb >= cs)) /\ ~(pb = ps /\ cb < cs + 9600)
          /\ po = pb /\ cb < co + 9600
      <3>1. Keywords!Hundredths(8) = 9600
        BY DEF Keywords!Hundredths
      <3>2. QED
        BY <1>6, <2>2, <2>3, <2>4, <3>1 DEF Keywords!Above, Keywords!NearTie
    <2>6. QED
      BY <2>5
  <1>7. QED
    BY <1>2, <1>3, <1>5, <1>6

\* The confidence in a setting is made of its words.
LEMMA SettingScore ==
  ASSUME NEW s \in Keywords!Settings
  PROVE  /\ Keywords!Points(s) = Pts(Keywords!HasVerb(s), Keywords!HasNoun(s))
         /\ Keywords!MostPoints(s) = 3
         /\ s \in Keywords!Candidates <=> Keywords!HasVerb(s) \/ Keywords!HasNoun(s)
  <1>1. s # "screenshot" /\ s \in Keywords!Intents
    BY OppositeIs
  <1>2. Keywords!Points(s) = Pts(Keywords!HasVerb(s), Keywords!HasNoun(s))
    BY <1>1, PointsAre DEF Pts
  <1>3. Keywords!MostPoints(s) = 3
    BY OppositeIs DEF Keywords!MostPoints
  <1>4. s \in Keywords!Candidates <=> Keywords!Points(s) > 0
    BY <1>1 DEF Keywords!Candidates
  <1>5. QED
    BY <1>2, <1>3, <1>4 DEF Pts

\* A setting that is only named is not found.
LEMMA NamedOnly ==
  ASSUME WordsHeard, NEW b, b = Keywords!Mapped(Keywords!Classified), b \in Keywords!Settings
  PROVE  Keywords!HasVerb(b)
  <1> SUFFICES ASSUME ~Keywords!HasVerb(b) PROVE FALSE
    OBVIOUS
  <1>1. PICK o : o = Keywords!Opposite[b]
    OBVIOUS
  <1>2. o \in Keywords!Settings /\ o # b /\ Keywords!Targets[o] = Keywords!Targets[b]
    BY <1>1, OppositeIs
  <1>3. b \in Keywords!Candidates /\ Keywords!HasNoun(b)
    BY FoundIs, SettingScore
  <1>4. Keywords!HasNoun(o)
    BY <1>2, <1>3 DEF Keywords!HasNoun
  <1>5. o \in Keywords!Candidates /\ Keywords!Above(b, o)
    BY <1>2, <1>4, FoundIs, SettingScore
  <1>6. Keywords!Points(b) = 1
    BY <1>3, SettingScore DEF Pts
  <1>7. ~Keywords!HasVerb(o) /\ Keywords!Points(o) = 1
    <2>1. Keywords!Points(o) = IF Keywords!HasVerb(o) THEN 3 ELSE 1
      BY <1>2, <1>4, SettingScore DEF Pts
    <2>2. ~(Keywords!Points(o) > 1)
      BY <1>5, <1>6, <2>1 DEF Keywords!Above
    <2>3. QED
      BY <2>1, <2>2
  <1>8. Keywords!Confidence(o) = Keywords!Confidence(b)
    <2>1. Keywords!Quality2(o) = Keywords!Quality2(b)
      BY <1>2, <1>3, <1>4, <1>7 DEF Keywords!Quality2
    <2>2. Keywords!Shared(o) = Keywords!Shared(b)
      BY <1>2, <1>6, <1>7, <2>1, SettingScore DEF Keywords!Shared
    <2>3. Keywords!Alone(o) = Keywords!Alone(b)
      BY <1>2 DEF Keywords!Alone
    <2>4. QED
      BY <1>3, <1>4, <1>6, <1>7, <2>2, <2>3, Zenon DEF Keywords!Confidence
  <1>9. Keywords!Confidence(b) \in Nat
    BY ConfidenceIs
  <1>10. Keywords!Confidence(b) < Keywords!Confidence(o) + 9600
    BY <1>8, <1>9
  <1>11. QED
    BY <1>2, <1>5, <1>6, <1>7, <1>10, FoundIs

\* Two opposite orders cancel each other.
LEMMA OppositeOrders ==
  ASSUME WordsHeard, NEW b, b = Keywords!Mapped(Keywords!Classified), b \in Keywords!Settings,
         Keywords!HasVerb(Keywords!Opposite[b]),
         Keywords!Best(Keywords!Actions[b]) = Keywords!Best(Keywords!Actions[Keywords!Opposite[b]])
  PROVE  FALSE
  <1>1. PICK o : o = Keywords!Opposite[b]
    OBVIOUS
  <1>2. o \in Keywords!Settings /\ o # b /\ Keywords!Targets[o] = Keywords!Targets[b]
    BY <1>1, OppositeIs
  <1>3. /\ Keywords!HasVerb(b)
        /\ Keywords!HasVerb(o)
        /\ Keywords!Best(Keywords!Actions[b]) = Keywords!Best(Keywords!Actions[o])
    BY <1>1, NamedOnly
  <1>4. Keywords!HasNoun(o) <=> Keywords!HasNoun(b)
    BY <1>2 DEF Keywords!HasNoun
  <1>5. o \in Keywords!Candidates
    BY <1>2, <1>3, SettingScore
  <1>6. Keywords!Points(o) = Keywords!Points(b)
    BY <1>2, <1>3, <1>4, SettingScore DEF Pts
  <1>7. Keywords!Confidence(o) = Keywords!Confidence(b)
    <2>1. Keywords!Quality2(o) = Keywords!Quality2(b)
      <3>1. CASE Keywords!HasNoun(b)
        BY <1>2, <1>3, <1>4, <3>1 DEF Keywords!Quality2
      <3>2. CASE ~Keywords!HasNoun(b)
        BY <1>2, <1>3, <1>4, <3>2 DEF Keywords!Quality2
      <3>3. QED
        BY <3>1, <3>2
    <2>2. Keywords!Shared(o) = Keywords!Shared(b)
      BY <1>2, <1>6, <2>1, SettingScore DEF Keywords!Shared
    <2>3. QED
      BY <1>3, <1>6, <2>2, Zenon DEF Keywords!Confidence
  <1>8. Keywords!Confidence(b) \in Nat
    BY ConfidenceIs
  <1>9. Keywords!Confidence(b) < Keywords!Confidence(o) + 9600
    BY <1>7, <1>8
  <1>10. QED
    BY <1>2, <1>5, <1>6, <1>9, FoundIs

\* A noun was heard, or a verb was heard nearly as it is written.
LEMMA ResembledOnly ==
  ASSUME WordsHeard, NEW b, b = Keywords!Mapped(Keywords!Classified), b \in Keywords!Settings
  PROVE  Keywords!HasNoun(b) \/ Keywords!Best(Keywords!Actions[b]) > 92
  <1> SUFFICES ASSUME ~Keywords!HasNoun(b), ~(Keywords!Best(Keywords!Actions[b]) > 92) PROVE FALSE
    OBVIOUS
  <1>1. Keywords!HasVerb(b)
    BY NamedOnly
  <1>2. PICK a \in Nat : a = Keywords!Best(Keywords!Actions[b])
    BY <1>1, BestIs DEF Keywords!HasVerb
  <1>3. a <= 92
    BY <1>2
  <1>4. Keywords!Quality2(b) = 2 * a
    BY <1>1, <1>2 DEF Keywords!Quality2
  <1>5. Keywords!Points(b) = 2 /\ Keywords!MostPoints(b) = 3
    BY <1>1, SettingScore DEF Pts
  <1>6. Keywords!Confidence(b) = Keywords!Shared(b)
    BY <1>1, <1>5 DEF Keywords!Confidence
  <1>7. Keywords!Shared(b) = (2 * (13000 + 35 * (2 * a)) * 6) \div 3
    BY <1>4, <1>5 DEF Keywords!Shared
  <1>8. (2 * (13000 + 35 * (2 * a)) * 6) \div 3 < 78000
    BY <1>2, <1>3
  <1>9. QED
    BY <1>6, <1>7, <1>8, FoundIs

\* What is found in the words keeps it.
LEMMA KeywordsSteps == KeywordsInv /\ [Keywords!Next]_Keywords!ksVars => KeywordsInv'
  <1> SUFFICES ASSUME KeywordsInv, [Keywords!Next]_Keywords!ksVars PROVE KeywordsInv'
    OBVIOUS
  <1>1. CASE Keywords!Next
    <2>1. heard' = heard /\ found' = Keywords!Mapped(Keywords!Classified)
      BY <1>1 DEF Keywords!Next, Keywords!Classify
    <2>2. WordsHeard
      BY DEF KeywordsInv
    <2>3. WordsHeard'
      BY <2>1, <2>2 DEF WordsHeard
    <2>4. PICK b : b = Keywords!Mapped(Keywords!Classified)
      OBVIOUS
    <2>5. b \in Keywords!Intents \cup {"unknown", "none"}
      <3>1. Keywords!Classified \in Keywords!Intents \cup {"unknown"}
        <4>1. Keywords!Candidates # {} => Keywords!First(Keywords!Candidates) \in Keywords!Candidates
          BY <2>2, FirstIs
        <4>2. Keywords!Candidates \subseteq Keywords!Intents
          BY DEF Keywords!Candidates
        <4>3. QED
          BY <4>1, <4>2 DEF Keywords!Classified
      <3>2. QED
        BY <2>4, <3>1 DEF Keywords!Mapped
    <2>6. b \in Keywords!Settings =>
            /\ Keywords!HasVerb(b) /\ (Keywords!HasNoun(b) \/ Keywords!Best(Keywords!Actions[b]) > 92)
            /\ ~(Keywords!HasVerb(Keywords!Opposite[b]) /\ Keywords!Best(Keywords!Actions[b]) = Keywords!Best(Keywords!Actions[Keywords!Opposite[b]]))
      BY <2>2, <2>4, NamedOnly, OppositeOrders, ResembledOnly
    <2>7. (Keywords!TypeOK)'
      BY <2>1, <2>4, <2>5 DEF Keywords!TypeOK
    <2>8. (Keywords!NamedIsNotSwitched)' /\ (Keywords!OppositesCancel)' /\ (Keywords!ResemblanceIsIdle)'
      BY <2>1, <2>4, <2>6
         DEF Keywords!NamedIsNotSwitched, Keywords!OppositesCancel, Keywords!ResemblanceIsIdle,
         Keywords!HasVerb, Keywords!HasNoun, Keywords!Best, Keywords!Heard
    <2>9. QED
      BY <2>3, <2>7, <2>8 DEF KeywordsInv
  <1>2. CASE UNCHANGED Keywords!ksVars
    BY <1>2
       DEF Keywords!ksVars, KeywordsInv, WordsHeard, Keywords!TypeOK, Keywords!NamedIsNotSwitched,
           Keywords!OppositesCancel,
       Keywords!ResemblanceIsIdle, Keywords!HasVerb, Keywords!HasNoun, Keywords!Best, Keywords!Heard
  <1>3. QED
    BY <1>1, <1>2

-----------------------------------------------------------------------------
(* Spoken numbers.                                                         *)

\* The smaller of two numbers.
LEMMA SpokenMin ==
  ASSUME NEW a \in Int, NEW b \in Int
  PROVE  Spoken!Min({a, b}) = IF a <= b THEN a ELSE b
  <1> DEFINE Least(x) == \A y \in {a, b} : x <= y
  <1>1. Spoken!Min({a, b}) = CHOOSE x \in {a, b} : Least(x)
    BY DEF Spoken!Min
  <1>2. \E x \in {a, b} : Least(x)
    OBVIOUS
  <1> HIDE DEF Least
  <1>3. PICK c : c = CHOOSE x \in {a, b} : Least(x)
    OBVIOUS
  <1>4. c \in {a, b} /\ Least(c)
    BY <1>2, <1>3
  <1>5. QED
    BY <1>1, <1>3, <1>4 DEF Least

\* The greater of two numbers.
LEMMA SpokenMax ==
  ASSUME NEW a \in Int, NEW b \in Int
  PROVE  Spoken!Max({a, b}) = IF a >= b THEN a ELSE b
  <1> DEFINE Most(x) == \A y \in {a, b} : x >= y
  <1>1. Spoken!Max({a, b}) = CHOOSE x \in {a, b} : Most(x)
    BY DEF Spoken!Max
  <1>2. \E x \in {a, b} : Most(x)
    OBVIOUS
  <1> HIDE DEF Most
  <1>3. PICK c : c = CHOOSE x \in {a, b} : Most(x)
    OBVIOUS
  <1>4. c \in {a, b} /\ Most(c)
    BY <1>2, <1>3
  <1>5. QED
    BY <1>1, <1>3, <1>4 DEF Most

\* What the copy that knows thousands, or one that does not, makes of a word.
WordRead(full, w, r) == IF full THEN Spoken!SystemReads(w, r) ELSE Spoken!Reads(w, r)

SpokenWords == [kind : {"one", "ten", "hundred", "thousand", "and"}, value : Nat]
Sums        == [total : Nat, current : Nat, found : BOOLEAN]

\* Hearing the words w takes the sum from a to b: the sums in between are a function.
HearsTo(full, w, a, b) ==
  \E f : /\ f[0] = a /\ f[Len(w)] = b
         /\ \A i \in 1 .. Len(w) : f[i] = WordRead(full, w[i], f[i - 1])

\* Without words a sum stays.
LEMMA HearsNothing == ASSUME NEW full, NEW a PROVE HearsTo(full, <<>>, a, a)
  <1>1. PICK f : f = [i \in {0} |-> a]
    OBVIOUS
  <1>2. f[0] = a /\ Len(<<>>) = 0 /\ \A i \in 1 .. Len(<<>>) : FALSE
    BY <1>1
  <1>3. QED
    BY <1>2 DEF HearsTo

\* One word is read once.
LEMMA HearsOne == ASSUME NEW full, NEW w, NEW a PROVE HearsTo(full, <<w>>, a, WordRead(full, w, a))
  <1>1. PICK b : b = WordRead(full, w, a)
    OBVIOUS
  <1>2. PICK f : f = [i \in {0, 1} |-> IF i = 0 THEN a ELSE b]
    OBVIOUS
  <1>3. f[0] = a /\ f[1] = b /\ Len(<<w>>) = 1 /\ <<w>>[1] = w
    BY <1>2
  <1>4. \A i \in 1 .. Len(<<w>>) : i = 1 /\ i - 1 = 0
    BY <1>3
  <1>5. \A i \in 1 .. Len(<<w>>) : f[i] = WordRead(full, <<w>>[i], f[i - 1])
    <2> TAKE i \in 1 .. Len(<<w>>)
    <2>1. i = 1 /\ i - 1 = 0
      BY <1>4
    <2>2. QED
      BY <1>1, <1>3, <2>1
  <1>6. QED
    BY <1>1, <1>3, <1>5 DEF HearsTo

\* Words are read one after the other.
LEMMA HearsBoth ==
  ASSUME NEW full, NEW S, NEW u \in Seq(S), NEW w \in Seq(S), NEW a, NEW b, NEW c,
         HearsTo(full, u, a, b), HearsTo(full, w, b, c)
  PROVE  HearsTo(full, u \o w, a, c)
  <1>1. PICK f : f[0] = a /\ f[Len(u)] = b /\ \A i \in 1 .. Len(u) : f[i] = WordRead(full, u[i], f[i - 1])
    BY DEF HearsTo
  <1>2. PICK g : g[0] = b /\ g[Len(w)] = c /\ \A i \in 1 .. Len(w) : g[i] = WordRead(full, w[i], g[i - 1])
    BY DEF HearsTo
  <1>3. PICK m, n \in Nat : m = Len(u) /\ n = Len(w)
    OBVIOUS
  <1>4. PICK v : v = u \o w
    OBVIOUS
  <1>5. Len(v) = m + n /\ (\A i \in 1 .. m : v[i] = u[i]) /\ (\A i \in m + 1 .. m + n : v[i] = w[i - m])
    BY <1>3, <1>4, ConcatProperties
  <1>6. PICK h : h = [i \in 0 .. m + n |-> IF i <= m THEN f[i] ELSE g[i - m]]
    OBVIOUS
  <1>7. \A i \in 0 .. m + n : h[i] = IF i <= m THEN f[i] ELSE g[i - m]
    BY <1>6
  <1>8. h[0] = a
    BY <1>1, <1>3, <1>7
  <1>9. h[m + n] = c
    <2>1. CASE n = 0
      BY <1>1, <1>2, <1>3, <1>7, <2>1
    <2>2. CASE n # 0
      <3>1. m + n \in 0 .. m + n /\ ~(m + n <= m) /\ m + n - m = n
        BY <1>3, <2>2
      <3>2. QED
        BY <1>2, <1>3, <1>7, <3>1
    <2>3. QED
      BY <2>1, <2>2
  <1>10. \A i \in 1 .. m + n : h[i] = WordRead(full, v[i], h[i - 1])
    <2> TAKE i \in 1 .. m + n
    <2>1. i \in 0 .. m + n /\ i - 1 \in 0 .. m + n
      BY <1>3
    <2>2. CASE i <= m
      <3>1. i \in 1 .. m /\ i - 1 <= m
        BY <1>3, <2>2
      <3>2. h[i] = f[i] /\ h[i - 1] = f[i - 1] /\ v[i] = u[i]
        BY <1>5, <1>7, <2>1, <2>2, <3>1
      <3>3. QED
        BY <1>1, <1>3, <3>1, <3>2
    <2>3. CASE ~(i <= m)
      <3>1. i \in m + 1 .. m + n /\ i - m \in 1 .. n /\ (i - m) - 1 = (i - 1) - m
        BY <1>3, <2>3
      <3>2. h[i] = g[i - m] /\ v[i] = w[i - m]
        BY <1>5, <1>7, <2>1, <2>3, <3>1
      <3>3. h[i - 1] = g[(i - m) - 1]
        <4>1. CASE i - 1 <= m
          <5>1. i - 1 = m /\ (i - m) - 1 = 0
            BY <1>3, <2>3, <4>1
          <5>2. QED
            BY <1>1, <1>2, <1>3, <1>7, <2>1, <5>1
        <4>2. CASE ~(i - 1 <= m)
          BY <1>7, <2>1, <3>1, <4>2
        <4>3. QED
          BY <4>1, <4>2
      <3>4. g[i - m] = WordRead(full, w[i - m], g[(i - m) - 1])
        BY <1>2, <1>3, <3>1
      <3>5. QED
        BY <3>2, <3>3, <3>4
    <2>4. QED
      BY <2>2, <2>3
  <1>11. HearsTo(full, v, a, c)
    BY <1>5, <1>8, <1>9, <1>10 DEF HearsTo
  <1>12. QED
    BY <1>4, <1>11

\* The words left after one is heard.
LEMMA HearsOn ==
  ASSUME NEW full, NEW S, NEW w \in Seq(S), w # <<>>, NEW a, NEW b, HearsTo(full, w, a, b)
  PROVE  HearsTo(full, Tail(w), WordRead(full, Head(w), a), b)
  <1>1. PICK f : f[0] = a /\ f[Len(w)] = b /\ \A i \in 1 .. Len(w) : f[i] = WordRead(full, w[i], f[i - 1])
    BY DEF HearsTo
  <1>2. PICK n \in Nat : Len(w) = n + 1
    <2>1. Len(w) \in Nat /\ Len(w) # 0
      OBVIOUS
    <2>2. Len(w) - 1 \in Nat /\ Len(w) = (Len(w) - 1) + 1
      BY <2>1
    <2>3. QED
      BY <2>2
  <1>3. PICK t : t = Tail(w)
    OBVIOUS
  <1>4. Len(t) = n /\ \A i \in 1 .. n : t[i] = w[i + 1]
    BY <1>2, <1>3
  <1>5. Head(w) = w[1]
    OBVIOUS
  <1>6. PICK g : g = [i \in 0 .. n |-> f[i + 1]]
    OBVIOUS
  <1>7. \A i \in 0 .. n : g[i] = f[i + 1]
    BY <1>6
  <1>8. g[0] = WordRead(full, w[1], a) /\ g[n] = b
    <2>1. 0 \in 0 .. n /\ n \in 0 .. n /\ 1 \in 1 .. Len(w) /\ 1 - 1 = 0 /\ 0 + 1 = 1
      BY <1>2
    <2>2. f[1] = WordRead(full, w[1], f[0])
      BY <1>1, <2>1
    <2>3. QED
      BY <1>1, <1>2, <1>7, <2>1, <2>2
  <1>9. \A i \in 1 .. n : g[i] = WordRead(full, t[i], g[i - 1])
    <2> TAKE i \in 1 .. n
    <2>1. i \in 0 .. n /\ i - 1 \in 0 .. n /\ i + 1 \in 1 .. Len(w) /\ (i + 1) - 1 = i /\ (i - 1) + 1 = i
      BY <1>2
    <2>2. f[i + 1] = WordRead(full, w[i + 1], f[i])
      BY <1>1, <2>1
    <2>3. QED
      BY <1>4, <1>7, <2>1, <2>2
  <1>10. HearsTo(full, t, g[0], b)
    BY <1>4, <1>8, <1>9 DEF HearsTo
  <1>11. QED
    BY <1>3, <1>5, <1>8, <1>10

\* A sum as it stands.
SumAt(t, c, f) == [total |-> t, current |-> c, found |-> f]
Found == TRUE

\* The copy that knows thousands and those that do not.
Full   == TRUE
Partly == FALSE


\* A sum has its type.
LEMMA SumIs == \A t, c \in Nat : \A f \in BOOLEAN : SumAt(t, c, f) \in Sums
  BY DEF SumAt, Sums

\* The fields of a sum.
LEMMA SumFields ==
  \A f : \A t, c \in Nat : SumAt(t, c, f).total = t /\ SumAt(t, c, f).current = c /\ SumAt(t, c, f).found = f
  BY DEF SumAt

\* At least one is multiplied.
AtLeastOne(c) == IF c = 0 THEN 1 ELSE c

\* A multiplier is a number.
LEMMA AtLeastOneIs == \A c \in Nat : AtLeastOne(c) \in Nat /\ AtLeastOne(c) * 100 \in Nat /\ AtLeastOne(c) * 1000 \in Nat
  BY DEF AtLeastOne

\* The fields of a word.
LEMMA WordFields == \A k : \A n \in Nat : Spoken!Word(k, n).kind = k /\ Spoken!Word(k, n).value = n
  BY DEF Spoken!Word

\* The multiplier of the code.
LEMMA MaxIsAtLeastOne == \A c \in Nat : Spoken!Max({1, c}) = AtLeastOne(c) /\ AtLeastOne(c) \in Nat
  <1> TAKE c \in Nat
  <1>1. Spoken!Max({1, c}) = IF 1 >= c THEN 1 ELSE c
    BY SpokenMax
  <1>2. (IF 1 >= c THEN 1 ELSE c) = AtLeastOne(c) /\ AtLeastOne(c) \in Nat
    BY DEF AtLeastOne
  <1>3. QED
    BY <1>1, <1>2

\* What the words read without thousands do to a sum.
LEMMA ReadsAre ==
  \A w, r :
    /\ w.kind = "one" \/ w.kind = "ten"
         => Spoken!Reads(w, r) = [[r EXCEPT !.current = r.current + w.value] EXCEPT !.found = Found]
    /\ w.kind = "hundred"
         => Spoken!Reads(w, r) = [[r EXCEPT !.current = Spoken!Max({1, r.current}) * 100] EXCEPT !.found = Found]
    /\ w.kind = "thousand" \/ w.kind = "and" => Spoken!Reads(w, r) = r
  <1> TAKE w, r
  <1>1. ASSUME w.kind = "one" \/ w.kind = "ten"
        PROVE  Spoken!Reads(w, r) = [[r EXCEPT !.current = r.current + w.value] EXCEPT !.found = Found]
    <2>1. w.kind \in {"one", "ten"} /\ w.kind # "hundred"
      BY <1>1
    <2>2. Spoken!Reads(w, r) = [r EXCEPT !.current = @ + w.value, !.found = Found]
      BY <2>1 DEF Spoken!Reads, Found
    <2>3. QED
      BY <2>2
  <1>2. ASSUME w.kind = "hundred"
        PROVE  Spoken!Reads(w, r) = [[r EXCEPT !.current = Spoken!Max({1, r.current}) * 100] EXCEPT !.found = Found]
    <2>1. w.kind \notin {"one", "ten"}
      BY <1>2
    <2>2. Spoken!Reads(w, r) = [r EXCEPT !.current = Spoken!Max({1, @}) * 100, !.found = Found]
      BY <1>2, <2>1 DEF Spoken!Reads, Found
    <2>3. QED
      BY <2>2
  <1>3. ASSUME w.kind = "thousand" \/ w.kind = "and" PROVE Spoken!Reads(w, r) = r
    <2>1. w.kind \notin {"one", "ten"} /\ w.kind # "hundred"
      BY <1>3
    <2>2. QED
      BY <2>1 DEF Spoken!Reads, Found
  <1>4. QED
    BY <1>1, <1>2, <1>3

\* A word that adds n to the sum.
Adds(w, n) == (w.kind = "one" \/ w.kind = "ten") /\ w.value = n

\* Digits and tens add.
LEMMA OneAdds == \A n \in Nat : Adds(Spoken!Word("one", n), n) /\ Adds(Spoken!Word("ten", n), n)
  BY DEF Adds, Spoken!Word

\* What a word that adds does.
LEMMA OneDoes ==
  \A full, f, w : \A n, t, c \in Nat : Adds(w, n) => WordRead(full, w, SumAt(t, c, f)) = SumAt(t, c + n, Found)
  <1> SUFFICES ASSUME NEW full, NEW f, NEW w, NEW n \in Nat, NEW t \in Nat, NEW c \in Nat, Adds(w, n)
               PROVE  WordRead(full, w, SumAt(t, c, f)) = SumAt(t, c + n, Found)
    OBVIOUS
  <1>1. PICK r : r = SumAt(t, c, f)
    OBVIOUS
  <1>2. (w.kind = "one" \/ w.kind = "ten") /\ w.value = n
    BY DEF Adds
  <1>3. r.current = c
    BY <1>1, SumFields
  <1>4. Spoken!Reads(w, r) = [[r EXCEPT !.current = r.current + w.value] EXCEPT !.found = Found]
    BY <1>2, ReadsAre
  <1>5. Spoken!Reads(w, r) = SumAt(t, c + n, Found)
    <2>1. PICK d \in Nat : d = c + n
      OBVIOUS
    <2>2. Spoken!Reads(w, r) = [[r EXCEPT !.current = d] EXCEPT !.found = Found]
      BY <1>2, <1>3, <1>4, <2>1
    <2>3. PICK u : u = [r EXCEPT !.current = d]
      OBVIOUS
    <2>4. u = [total |-> t, current |-> d, found |-> f]
      BY <1>1, <2>3 DEF SumAt
    <2>5. PICK v : v = [u EXCEPT !.found = Found]
      OBVIOUS
    <2>6. v = [total |-> t, current |-> d, found |-> Found]
      BY <2>4, <2>5
    <2>7. v = SumAt(t, d, Found)
      BY <2>6 DEF SumAt
    <2>8. Spoken!Reads(w, r) = v
      BY <2>2, <2>3, <2>5
    <2>9. QED
      BY <2>1, <2>7, <2>8
  <1>6. w.kind # "thousand"
    BY <1>2
  <1>7. WordRead(full, w, r) = Spoken!Reads(w, r)
    BY <1>6 DEF WordRead, Spoken!SystemReads
  <1>8. QED
    BY <1>1, <1>5, <1>7

\* What "hundred" does.
LEMMA HundredDoes ==
  \A full, f : \A t, c \in Nat :
    WordRead(full, Spoken!Hundred, SumAt(t, c, f)) = SumAt(t, AtLeastOne(c) * 100, Found)
  <1> TAKE full, f
  <1> TAKE t, c \in Nat
  <1>1. PICK w, r, m : w = Spoken!Word("hundred", 100) /\ r = SumAt(t, c, f) /\ m = Spoken!Max({1, r.current})
    OBVIOUS
  <1>2. w.kind = "hundred" /\ r.current = c
    BY <1>1, WordFields, SumFields
  <1>3. m = AtLeastOne(c)
    BY <1>1, <1>2, MaxIsAtLeastOne
  <1>4. Spoken!Reads(w, r) = [[r EXCEPT !.current = m * 100] EXCEPT !.found = Found]
    <2>1. Spoken!Reads(w, r) = [[r EXCEPT !.current = Spoken!Max({1, r.current}) * 100] EXCEPT !.found = Found]
      BY <1>2, ReadsAre
    <2>2. QED
      BY <1>1, <2>1
  <1>5. Spoken!Reads(w, r) = SumAt(t, m * 100, Found)
    <2>1. PICK d \in Nat : d = m * 100
      BY <1>3, AtLeastOneIs
    <2>2. PICK u : u = [r EXCEPT !.current = d]
      OBVIOUS
    <2>3. u = [total |-> t, current |-> d, found |-> f]
      BY <1>1, <2>2 DEF SumAt
    <2>4. PICK v : v = [u EXCEPT !.found = Found]
      OBVIOUS
    <2>5. v = [total |-> t, current |-> d, found |-> Found]
      BY <2>3, <2>4
    <2>6. v = SumAt(t, d, Found)
      BY <2>5 DEF SumAt
    <2>7. Spoken!Reads(w, r) = v
      BY <1>4, <2>1, <2>2, <2>4
    <2>8. QED
      BY <2>1, <2>6, <2>7
  <1>6. w.kind # "thousand"
    BY <1>2
  <1>7. WordRead(full, w, r) = Spoken!Reads(w, r)
    BY <1>6 DEF WordRead, Spoken!SystemReads
  <1>8. QED
    BY <1>1, <1>3, <1>5, <1>7 DEF Spoken!Hundred

\* What "and" does.
LEMMA AndDoes ==
  \A full, f : \A t, c \in Nat : WordRead(full, Spoken!And, SumAt(t, c, f)) = SumAt(t, c, f)
  <1> TAKE full, f
  <1> TAKE t, c \in Nat
  <1>1. PICK w, r, m : w = Spoken!Word("and", 0) /\ r = SumAt(t, c, f) /\ m = Spoken!Max({1, r.current})
    OBVIOUS
  <1>2. w.kind = "and"
    BY <1>1, WordFields
  <1>3. Spoken!Reads(w, r) = r
    BY <1>1, <1>2, ReadsAre
  <1>4. w.kind # "thousand"
    BY <1>2
  <1>5. WordRead(full, w, r) = Spoken!Reads(w, r)
    BY <1>4 DEF WordRead, Spoken!SystemReads
  <1>6. QED
    BY <1>1, <1>3, <1>5 DEF Spoken!And

\* What "thousand" does, where it is understood.
LEMMA ThousandDoes ==
  \A f : \A t, c \in Nat :
    WordRead(Full, Spoken!Thousand, SumAt(t, c, f)) = SumAt(t + AtLeastOne(c) * 1000, 0, Found)
  <1> TAKE f
  <1> TAKE t, c \in Nat
  <1>1. PICK w, r : w = Spoken!Word("thousand", 1000) /\ r = SumAt(t, c, f)
    OBVIOUS
  <1>2. w.kind = "thousand" /\ r.current = c /\ r.total = t
    BY <1>1, WordFields, SumFields
  <1>3. Spoken!SystemReads(w, r) = [total |-> r.total + Spoken!Max({1, r.current}) * 1000, current |-> 0, found |-> Found]
    BY <1>2 DEF Spoken!SystemReads, Found
  <1>4. Spoken!SystemReads(w, r) = SumAt(t + AtLeastOne(c) * 1000, 0, Found)
    <2>1. Spoken!Max({1, r.current}) = AtLeastOne(c)
      BY <1>2, MaxIsAtLeastOne
    <2>2. QED
      BY <1>2, <1>3, <2>1 DEF SumAt
  <1>5. QED
    BY <1>1, <1>4 DEF Spoken!Thousand, WordRead, Full

\* The words of a number.
LEMMA WordsAre ==
  /\ \A n \in Nat : Spoken!Word("one", n) \in SpokenWords /\ Spoken!Word("ten", n) \in SpokenWords
  /\ Spoken!And \in SpokenWords /\ Spoken!Hundred \in SpokenWords /\ Spoken!Thousand \in SpokenWords
  BY DEF SpokenWords, Spoken!Word, Spoken!And, Spoken!Hundred, Spoken!Thousand

\* The words w add up to n from a sum that stands at c and goes to d.
Counts(full, w, t, c, f, d) == HearsTo(full, w, SumAt(t, c, f), SumAt(t, d, Found))

\* A number below a hundred, or tens of any size.
LEMMA SmallCounts ==
  ASSUME NEW full, NEW n \in Nat, NEW t \in Nat, NEW c \in Nat, NEW f
  PROVE  Spoken!Small(n) \in Seq(SpokenWords) /\ Counts(full, Spoken!Small(n), t, c, f, c + n)
  <1>1. CASE n < 20
    <2>1. Spoken!Small(n) = <<Spoken!Word("one", n)>>
      BY <1>1 DEF Spoken!Small
    <2>2. PICK w : w = Spoken!Word("one", n)
      OBVIOUS
    <2>3. w \in SpokenWords /\ WordRead(full, w, SumAt(t, c, f)) = SumAt(t, c + n, Found)
      <3>1. w \in SpokenWords /\ Adds(w, n)
        BY <2>2, WordsAre, OneAdds
      <3>2. QED
        BY <3>1, OneDoes
    <2>4. HearsTo(full, <<w>>, SumAt(t, c, f), WordRead(full, w, SumAt(t, c, f)))
      BY HearsOne
    <2>5. <<w>> \in Seq(SpokenWords)
      BY <2>3
    <2>6. QED
      BY <2>1, <2>2, <2>3, <2>4, <2>5 DEF Counts
  <1>2. CASE ~(n < 20)
    <2>1. PICK a, b \in Nat : a = 10 * (n \div 10) /\ b = n % 10 /\ a + b = n
      OBVIOUS
    <2>2. PICK u, w : u = Spoken!Word("ten", a) /\ w = Spoken!Word("one", b)
      OBVIOUS
    <2>3. u \in SpokenWords /\ w \in SpokenWords /\ Adds(u, a) /\ Adds(w, b)
      BY <2>2, WordsAre, OneAdds
    <2>4. Spoken!Small(n) = <<u>> \o IF b = 0 THEN <<>> ELSE <<w>>
      BY <1>2, <2>1, <2>2 DEF Spoken!Small
    <2>5. WordRead(full, u, SumAt(t, c, f)) = SumAt(t, c + a, Found)
      BY <2>3, OneDoes
    <2>6. HearsTo(full, <<u>>, SumAt(t, c, f), SumAt(t, c + a, Found))
      BY <2>5, HearsOne
    <2>7. CASE b = 0
      <3>1. <<u>> \in Seq(SpokenWords) /\ <<u>> \o <<>> = <<u>>
        BY <2>3
      <3>2. c + a = c + n
        BY <2>1, <2>7
      <3>3. QED
        BY <2>4, <2>6, <2>7, <3>1, <3>2 DEF Counts
    <2>8. CASE b # 0
      <3>1. (c + a) + b = c + n
        BY <2>1
      <3>2. WordRead(full, w, SumAt(t, c + a, Found)) = SumAt(t, c + n, Found)
        <4>1. PICK e \in Nat : e = c + a
          OBVIOUS
        <4>2. WordRead(full, w, SumAt(t, e, Found)) = SumAt(t, e + b, Found)
          BY <2>3, OneDoes
        <4>3. e + b = c + n
          BY <3>1, <4>1
        <4>4. QED
          BY <4>1, <4>2, <4>3
      <3>3. HearsTo(full, <<w>>, SumAt(t, c + a, Found), SumAt(t, c + n, Found))
        BY <3>2, HearsOne
      <3>4. <<u>> \in Seq(SpokenWords) /\ <<w>> \in Seq(SpokenWords) /\ <<u>> \o <<w>> \in Seq(SpokenWords)
        BY <2>3
      <3>5. HearsTo(full, <<u>> \o <<w>>, SumAt(t, c, f), SumAt(t, c + n, Found))
        BY <2>6, <3>3, <3>4, HearsBoth
      <3>6. QED
        BY <2>4, <2>8, <3>4, <3>5 DEF Counts
    <2>9. QED
      BY <2>7, <2>8
  <1>3. QED
    BY <1>1, <1>2

\* A number is counted from nothing.
LEMMA UpCounts ==
  ASSUME NEW full, NEW n \in Nat, NEW bare, NEW joined, NEW t \in Nat, NEW f
  PROVE  Spoken!UpToThousand(n, bare, joined) \in Seq(SpokenWords)
         /\ Counts(full, Spoken!UpToThousand(n, bare, joined), t, 0, f, n)
  <1>1. CASE n < 100
    <2>1. Spoken!UpToThousand(n, bare, joined) = Spoken!Small(n)
      BY <1>1 DEF Spoken!UpToThousand
    <2>2. PICK z \in Nat : z = 0
      OBVIOUS
    <2>3. Spoken!Small(n) \in Seq(SpokenWords) /\ Counts(full, Spoken!Small(n), t, z, f, z + n)
      BY SmallCounts
    <2>4. z + n = n
      BY <2>2
    <2>5. QED
      BY <2>1, <2>2, <2>3, <2>4
  <1>2. CASE ~(n < 100)
    <2>1. PICK q, m \in Nat : q = n \div 100 /\ m = n % 100 /\ q # 0 /\ q * 100 + m = n
      <3>1. PICK q, m \in Nat : q = n \div 100 /\ m = n % 100 /\ m < 100 /\ q * 100 + m = n
        OBVIOUS
      <3>2. q # 0
        BY <1>2, <3>1
      <3>3. QED
        BY <3>1, <3>2
    <2>2. PICK u : u = IF bare /\ q = 1 THEN <<>> ELSE Spoken!Small(q)
      OBVIOUS
    <2>3. PICK v : v = IF m = 0 THEN <<>> ELSE (IF joined THEN <<Spoken!And>> ELSE <<>>) \o Spoken!Small(m)
      OBVIOUS
    <2>4. PICK h \in SpokenWords : h = Spoken!Hundred
      BY WordsAre
    <2>5. Spoken!UpToThousand(n, bare, joined) = u \o <<h>> \o v
      BY <1>2, <2>1, <2>2, <2>3, <2>4 DEF Spoken!UpToThousand
    <2>6. PICK z, hundreds \in Nat : z = 0 /\ hundreds = q * 100
      OBVIOUS
    <2>7. <<h>> \in Seq(SpokenWords)
      OBVIOUS
    <2>8. u \in Seq(SpokenWords) /\ HearsTo(full, u \o <<h>>, SumAt(t, z, f), SumAt(t, hundreds, Found))
      <3>1. CASE bare /\ q = 1
        <4>1. u = <<>> /\ u \in Seq(SpokenWords) /\ u \o <<h>> = <<h>>
          BY <2>2, <2>7, <3>1
        <4>2. AtLeastOne(z) * 100 = hundreds
          BY <2>6, <3>1 DEF AtLeastOne
        <4>3. WordRead(full, h, SumAt(t, z, f)) = SumAt(t, AtLeastOne(z) * 100, Found)
          BY <2>4, HundredDoes
        <4>4. WordRead(full, h, SumAt(t, z, f)) = SumAt(t, hundreds, Found)
          BY <4>2, <4>3
        <4>5. QED
          BY <4>1, <4>4, HearsOne
      <3>2. CASE ~(bare /\ q = 1)
        <4>1. u = Spoken!Small(q)
          BY <2>2, <3>2
        <4>2. u \in Seq(SpokenWords) /\ HearsTo(full, u, SumAt(t, z, f), SumAt(t, z + q, Found))
          BY <4>1, SmallCounts DEF Counts
        <4>3. z + q = q /\ AtLeastOne(q) * 100 = hundreds
          BY <2>1, <2>6 DEF AtLeastOne
        <4>4. WordRead(full, h, SumAt(t, q, Found)) = SumAt(t, AtLeastOne(q) * 100, Found)
          BY <2>4, HundredDoes
        <4>5. HearsTo(full, <<h>>, SumAt(t, q, Found), SumAt(t, hundreds, Found))
          BY <4>3, <4>4, HearsOne
        <4>6. HearsTo(full, u, SumAt(t, z, f), SumAt(t, q, Found))
          BY <4>2, <4>3
        <4>7. QED
          BY <2>7, <4>2, <4>5, <4>6, HearsBoth
      <3>3. QED
        BY <3>1, <3>2
    <2>9. v \in Seq(SpokenWords) /\ HearsTo(full, v, SumAt(t, hundreds, Found), SumAt(t, n, Found))
      <3>1. CASE m = 0
        <4>1. v = <<>> /\ v \in Seq(SpokenWords)
          BY <2>3, <3>1
        <4>2. hundreds = n
          BY <2>1, <2>6, <3>1
        <4>3. QED
          BY <4>1, <4>2, HearsNothing
      <3>2. CASE m # 0
        <4>1. PICK a : a = IF joined THEN <<Spoken!And>> ELSE <<>>
          OBVIOUS
        <4>2. PICK s : s = Spoken!Small(m)
          OBVIOUS
        <4>3. v = a \o s
          BY <2>3, <3>2, <4>1, <4>2
        <4>4. /\ a \in Seq(SpokenWords)
              /\ HearsTo(full, a, SumAt(t, hundreds, Found), SumAt(t, hundreds, Found))
          <5>1. CASE joined
            <6>1. PICK w \in SpokenWords : w = Spoken!And
              BY WordsAre
            <6>2. a = <<w>> /\ a \in Seq(SpokenWords)
              BY <4>1, <5>1, <6>1
            <6>3. WordRead(full, w, SumAt(t, hundreds, Found)) = SumAt(t, hundreds, Found)
              BY <6>1, AndDoes
            <6>4. QED
              BY <6>2, <6>3, HearsOne
          <5>2. CASE ~joined
            <6>1. a = <<>> /\ a \in Seq(SpokenWords)
              BY <4>1, <5>2
            <6>2. QED
              BY <6>1, HearsNothing
          <5>3. QED
            BY <5>1, <5>2
        <4>5. /\ s \in Seq(SpokenWords)
              /\ HearsTo(full, s, SumAt(t, hundreds, Found), SumAt(t, hundreds + m, Found))
          BY <4>2, SmallCounts DEF Counts
        <4>6. hundreds + m = n
          BY <2>1, <2>6
        <4>7. HearsTo(full, s, SumAt(t, hundreds, Found), SumAt(t, n, Found))
          BY <4>5, <4>6
        <4>8. HearsTo(full, a \o s, SumAt(t, hundreds, Found), SumAt(t, n, Found))
          BY <4>4, <4>5, <4>7, HearsBoth
        <4>9. a \o s \in Seq(SpokenWords)
          BY <4>4, <4>5
        <4>10. QED
          BY <4>3, <4>8, <4>9
      <3>3. QED
        BY <3>1, <3>2
    <2>10. u \o <<h>> \in Seq(SpokenWords)
      BY <2>7, <2>8
    <2>11. HearsTo(full, u \o <<h>> \o v, SumAt(t, z, f), SumAt(t, n, Found))
      BY <2>8, <2>9, <2>10, HearsBoth
    <2>12. u \o <<h>> \o v \in Seq(SpokenWords)
      BY <2>9, <2>10
    <2>13. QED
      BY <2>5, <2>6, <2>11, <2>12 DEF Counts
  <1>3. QED
    BY <1>1, <1>2

\* What hearing the words w from nothing comes to.
Means(full, w, n) ==
  \E t, c \in Nat : t + c = n /\ HearsTo(full, w, SumAt(0, 0, FALSE), SumAt(t, c, Found))

\* A number in words is what it says: to the copy that knows thousands always, to the others
\* if it needs none.
LEMMA PhraseCounts ==
  ASSUME NEW s, ~s.digits, s.number \in Nat
  PROVE  /\ Spoken!Phrase(s) \in Seq(SpokenWords) /\ Means(Full, Spoken!Phrase(s), s.number)
         /\ s.number < 1000 => Means(Partly, Spoken!Phrase(s), s.number)
  <1>1. PICK n \in Nat : n = s.number
    OBVIOUS
  <1>2. PICK z \in Nat : z = 0
    OBVIOUS
  <1>3. CASE n < 1000
    <2>1. PICK p : p = Spoken!UpToThousand(n, s.bare, s.joined)
      OBVIOUS
    <2>2. Spoken!Phrase(s) = p
      BY <1>1, <1>3, <2>1 DEF Spoken!Phrase
    <2>3. p \in Seq(SpokenWords) /\ \A full : HearsTo(full, p, SumAt(z, 0, FALSE), SumAt(z, n, Found))
      BY <2>1, UpCounts DEF Counts
    <2>4. z + n = n
      BY <1>2
    <2>5. \A full : HearsTo(full, p, SumAt(0, 0, FALSE), SumAt(z, n, Found))
      BY <1>2, <2>3
    <2>6. \A full : Means(full, p, n)
      BY <2>4, <2>5 DEF Means
    <2>7. QED
      BY <1>1, <2>2, <2>3, <2>6
  <1>4. CASE ~(n < 1000)
    <2>1. PICK q, m \in Nat : q = n \div 1000 /\ m = n % 1000 /\ q # 0 /\ q * 1000 + m = n
      <3>1. PICK q, m \in Nat : q = n \div 1000 /\ m = n % 1000 /\ m < 1000 /\ q * 1000 + m = n
        OBVIOUS
      <3>2. q # 0
        BY <1>4, <3>1
      <3>3. QED
        BY <3>1, <3>2
    <2>2. PICK u : u = Spoken!UpToThousand(q, FALSE, s.joined)
      OBVIOUS
    <2>3. PICK v : v = IF m = 0 THEN <<>> ELSE Spoken!UpToThousand(m, FALSE, s.joined)
      OBVIOUS
    <2>4. PICK h \in SpokenWords : h = Spoken!Thousand
      BY WordsAre
    <2>5. Spoken!Phrase(s) = u \o <<h>> \o v
      <3>1. ~(s.number < 1000)
        BY <1>1, <1>4
      <3>2. Spoken!Phrase(s) = Spoken!UpToThousand(s.number \div 1000, FALSE, s.joined) \o <<Spoken!Thousand>>
              \o IF s.number % 1000 = 0 THEN <<>> ELSE Spoken!UpToThousand(s.number % 1000, FALSE, s.joined)
        BY <3>1, Zenon DEF Spoken!Phrase
      <3>3. s.number \div 1000 = q /\ s.number % 1000 = m
        BY <1>1, <2>1
      <3>4. \A x : x = q => Spoken!UpToThousand(x, FALSE, s.joined) = u
        BY <2>2, Zenon
      <3>5. Spoken!UpToThousand(s.number \div 1000, FALSE, s.joined) = u
        BY <3>3, <3>4, ZenonT(40)
      <3>6. \A x : x = m => v = IF x = 0 THEN <<>> ELSE Spoken!UpToThousand(x, FALSE, s.joined)
        BY <2>3, Zenon
      <3>7. v = IF s.number % 1000 = 0 THEN <<>> ELSE Spoken!UpToThousand(s.number % 1000, FALSE, s.joined)
        BY <3>3, <3>6, ZenonT(40)
      <3>8. QED
        BY <2>4, <3>2, <3>5, <3>7, Zenon
    <2>6. PICK thousands \in Nat : thousands = q * 1000
      OBVIOUS
    <2>7. u \in Seq(SpokenWords) /\ HearsTo(Full, u, SumAt(z, 0, FALSE), SumAt(z, q, Found))
      BY <2>2, UpCounts DEF Counts
    <2>8. z + AtLeastOne(q) * 1000 = thousands
      BY <1>2, <2>1, <2>6 DEF AtLeastOne
    <2>9. WordRead(Full, h, SumAt(z, q, Found)) = SumAt(z + AtLeastOne(q) * 1000, 0, Found)
      BY <2>4, ThousandDoes
    <2>10. HearsTo(Full, <<h>>, SumAt(z, q, Found), SumAt(thousands, 0, Found))
      BY <2>8, <2>9, HearsOne
    <2>11. <<h>> \in Seq(SpokenWords) /\ u \o <<h>> \in Seq(SpokenWords)
      BY <2>7
    <2>12. HearsTo(Full, u \o <<h>>, SumAt(z, 0, FALSE), SumAt(thousands, 0, Found))
      BY <2>7, <2>10, <2>11, HearsBoth
    <2>13. /\ v \in Seq(SpokenWords)
           /\ HearsTo(Full, v, SumAt(thousands, 0, Found), SumAt(thousands, m, Found))
      <3>1. CASE m = 0
        <4>1. v = <<>> /\ v \in Seq(SpokenWords)
          BY <2>3, <3>1
        <4>2. HearsTo(Full, v, SumAt(thousands, m, Found), SumAt(thousands, m, Found))
          BY <4>1, HearsNothing
        <4>3. QED
          BY <3>1, <4>1, <4>2
      <3>2. CASE m # 0
        BY <2>3, <3>2, UpCounts DEF Counts
      <3>3. QED
        BY <3>1, <3>2
    <2>14. HearsTo(Full, u \o <<h>> \o v, SumAt(z, 0, FALSE), SumAt(thousands, m, Found))
      BY <2>11, <2>12, <2>13, HearsBoth
    <2>15. u \o <<h>> \o v \in Seq(SpokenWords)
      BY <2>11, <2>13
    <2>16. thousands + m = n
      BY <2>1, <2>6
    <2>17. Means(Full, u \o <<h>> \o v, n)
      BY <1>2, <2>14, <2>16 DEF Means
    <2>18. QED
      BY <1>1, <1>4, <2>5, <2>15, <2>17
  <1>5. QED
    BY <1>3, <1>4

\* What is left to hear brings the sum r to n.
Leaves(full, w, r, n) == \E t, c \in Nat : t + c = n /\ HearsTo(full, w, r, SumAt(t, c, Found))

\* A sum by its fields.
LEMMA SumOf == ASSUME NEW r \in Sums PROVE \E t, c \in Nat : r = SumAt(t, c, r.found) /\ r.total = t /\ r.current = c
  BY DEF Sums, SumAt

\* A word makes a sum of a sum.
LEMMA WordKeeps ==
  ASSUME NEW full, NEW w \in SpokenWords, NEW r \in Sums
  PROVE  WordRead(full, w, r) \in Sums
  <1>1. PICK t, c \in Nat : r = SumAt(t, c, r.found) /\ r.total = t /\ r.current = c
    BY SumOf
  <1>2. PICK n \in Nat : n = w.value
    BY DEF SpokenWords
  <1>3. PICK f \in BOOLEAN : f = r.found
    BY DEF Sums
  <1>4. Found \in BOOLEAN
    BY DEF Found
  <1>5. ASSUME Adds(w, n) PROVE WordRead(full, w, r) \in Sums
    <2>1. WordRead(full, w, SumAt(t, c, r.found)) = SumAt(t, c + n, Found)
      BY <1>5, OneDoes
    <2>2. PICK e \in Nat : e = c + n
      OBVIOUS
    <2>3. SumAt(t, e, Found) \in Sums
      BY <1>4, SumIs
    <2>4. QED
      BY <1>1, <2>1, <2>2, <2>3
  <1>6. ASSUME w.kind = "hundred" PROVE WordRead(full, w, r) \in Sums
    <2>1. Spoken!Reads(w, r) = [[r EXCEPT !.current = Spoken!Max({1, r.current}) * 100] EXCEPT !.found = Found]
      BY <1>6, ReadsAre
    <2>2. PICK d \in Nat : d = Spoken!Max({1, r.current}) * 100
      <3>1. PICK m \in Nat : m = Spoken!Max({1, r.current})
        BY <1>1, MaxIsAtLeastOne
      <3>2. QED
        BY <3>1
    <2>3. Spoken!Reads(w, r) \in Sums
      BY <1>4, <2>1, <2>2 DEF Sums
    <2>4. WordRead(full, w, r) = Spoken!Reads(w, r)
      <3>1. w.kind # "thousand"
        BY <1>6
      <3>2. QED
        BY <3>1 DEF WordRead, Spoken!SystemReads
    <2>5. QED
      BY <2>3, <2>4
  <1>7. ASSUME w.kind = "and" PROVE WordRead(full, w, r) \in Sums
    <2>1. Spoken!Reads(w, r) = r
      BY <1>7, ReadsAre
    <2>2. w.kind # "thousand"
      BY <1>7
    <2>3. QED
      BY <2>1, <2>2 DEF WordRead, Spoken!SystemReads
  <1>8. ASSUME w.kind = "thousand" PROVE WordRead(full, w, r) \in Sums
    <2>1. Spoken!Reads(w, r) = r
      BY <1>8, ReadsAre
    <2>2. PICK m \in Nat : m = Spoken!Max({1, r.current})
      BY <1>1, MaxIsAtLeastOne
    <2>3. Spoken!SystemReads(w, r) = [total |-> r.total + m * 1000, current |-> 0, found |-> TRUE]
      BY <1>8, <2>2 DEF Spoken!SystemReads
    <2>4. r.total + m * 1000 \in Nat
      BY <1>1
    <2>5. Spoken!SystemReads(w, r) \in Sums
      BY <2>3, <2>4 DEF Sums
    <2>6. QED
      BY <2>1, <2>5 DEF WordRead
  <1>9. Adds(w, n) \/ w.kind \in {"hundred", "and", "thousand"}
    BY <1>2 DEF Adds, SpokenWords
  <1>10. QED
    BY <1>5, <1>6, <1>7, <1>8, <1>9

\* Reading on leaves the same number.
LEMMA LeavesOn ==
  ASSUME NEW full, NEW w \in Seq(SpokenWords), w # <<>>, NEW r, NEW n, Leaves(full, w, r, n)
  PROVE  Leaves(full, Tail(w), WordRead(full, Head(w), r), n)
  <1>1. PICK t, c \in Nat : t + c = n /\ HearsTo(full, w, r, SumAt(t, c, Found))
    BY DEF Leaves
  <1>2. HearsTo(full, Tail(w), WordRead(full, Head(w), r), SumAt(t, c, Found))
    BY <1>1, HearsOn
  <1>3. QED
    BY <1>1, <1>2 DEF Leaves

\* Read to the end, the number is there.
LEMMA LeavesNothing ==
  ASSUME NEW full, NEW r, NEW n, Leaves(full, <<>>, r, n)
  PROVE  r.total \in Nat /\ r.current \in Nat /\ r.total + r.current = n /\ r.found
  <1>1. PICK t, c \in Nat : t + c = n /\ HearsTo(full, <<>>, r, SumAt(t, c, Found))
    BY DEF Leaves
  <1>2. r = SumAt(t, c, Found)
    <2>1. PICK f : f[0] = r /\ f[Len(<<>>)] = SumAt(t, c, Found)
      BY <1>1 DEF HearsTo
    <2>2. Len(<<>>) = 0
      OBVIOUS
    <2>3. QED
      BY <2>1, <2>2
  <1>3. r.total = t /\ r.current = c /\ r.found = Found
    BY <1>2, SumFields
  <1>4. QED
    BY <1>1, <1>3 DEF Found

SpokenInv ==
  /\ spoken.number \in Nat /\ spoken.unit \in {1, 60, 3600} /\ spoken.digits \in BOOLEAN
  /\ words \in Seq(SpokenWords)
  /\ reads.system \in Sums /\ reads.parser \in Sums /\ reads.classifier \in Sums
  /\ ~spoken.digits => Leaves(Full, words, reads.system, spoken.number)
  /\ ~spoken.digits /\ spoken.number < 1000
       => /\ Leaves(Partly, words, reads.parser, spoken.number)
          /\ Leaves(Partly, words, reads.classifier, spoken.number)

\* No word was read.
LEMMA SpokenBegins == Spoken!Init => SpokenInv
  <1> SUFFICES ASSUME Spoken!Init PROVE SpokenInv
    OBVIOUS
  <1>1. spoken \in [number : Numbers, digits : BOOLEAN, bare : BOOLEAN, joined : BOOLEAN,
                    unit : {1, 60, 3600}, form : {"unit", "plain"}]
    BY DEF Spoken!Init
  <1>2. spoken.number \in Nat
    <2>1. spoken.number \in Numbers
      BY <1>1
    <2>2. Numbers \subseteq Nat
      BY CommandsAssumption
    <2>3. QED
      BY <2>1, <2>2
  <1>3. spoken.unit \in {1, 60, 3600} /\ spoken.digits \in BOOLEAN
    BY <1>1
  <1>4. words = Spoken!Phrase(spoken)
    BY DEF Spoken!Init
  <1>5. words \in Seq(SpokenWords)
    <2>1. CASE spoken.digits
      <3>1. words = <<>>
        BY <1>4, <2>1 DEF Spoken!Phrase
      <3>2. QED
        BY <3>1
    <2>2. CASE ~spoken.digits
      BY <1>2, <1>4, <2>2, PhraseCounts
    <2>3. QED
      BY <2>1, <2>2
  <1>6. PICK s : s = SumAt(0, 0, FALSE)
    OBVIOUS
  <1>7. reads.system = s /\ reads.parser = s /\ reads.classifier = s
    <2>1. reads = [c \in Spoken!Copies |-> s]
      BY <1>6 DEF Spoken!Init, SumAt
    <2>2. QED
      BY <2>1 DEF Spoken!Copies
  <1>8. s \in Sums
    BY <1>6 DEF SumAt, Sums
  <1>9. ASSUME ~spoken.digits PROVE Leaves(Full, words, s, spoken.number)
    <2>1. Means(Full, words, spoken.number)
      BY <1>2, <1>4, <1>9, PhraseCounts
    <2>2. QED
      BY <1>6, <2>1 DEF Means, Leaves
  <1>10. ASSUME ~spoken.digits, spoken.number < 1000 PROVE Leaves(Partly, words, s, spoken.number)
    <2>1. Means(Partly, words, spoken.number)
      BY <1>2, <1>4, <1>10, PhraseCounts
    <2>2. QED
      BY <1>6, <2>1 DEF Means, Leaves
  <1>11. QED
    BY <1>2, <1>3, <1>5, <1>7, <1>8, <1>9, <1>10 DEF SpokenInv

\* Every word keeps it.
LEMMA SpokenSteps == SpokenInv /\ [Spoken!Next]_Spoken!snVars => SpokenInv'
  <1> SUFFICES ASSUME SpokenInv, [Spoken!Next]_Spoken!snVars PROVE SpokenInv'
    OBVIOUS
  <1>1. CASE UNCHANGED Spoken!snVars
    BY <1>1 DEF SpokenInv, Spoken!snVars
  <1>2. CASE Spoken!Next
    <2>1. PICK w \in Seq(SpokenWords) : w = words /\ w # <<>> /\ words' = Tail(w)
      BY <1>2 DEF Spoken!Next, Spoken!Hear, SpokenInv
    <2>2. Head(w) \in SpokenWords /\ Tail(w) \in Seq(SpokenWords)
      BY <2>1
    <2>3. PICK h \in SpokenWords : h = Head(w)
      BY <2>2
    <2>4. PICK a, b, c \in Sums : a = reads.system /\ b = reads.parser /\ c = reads.classifier
      BY DEF SpokenInv
    <2>5. spoken' = spoken
      BY <1>2 DEF Spoken!Next, Spoken!Hear
    <2>6. reads' = [system     |-> Spoken!SystemReads(h, a),
                    parser     |-> Spoken!ParserReads(h, b),
                    classifier |-> Spoken!ClassifierReads(h, c)]
      BY <1>2, <2>1, <2>3, <2>4 DEF Spoken!Next, Spoken!Hear
    <2>7. reads'.system = WordRead(Full, h, a)
      BY <2>6 DEF WordRead, Full
    <2>8. reads'.parser = WordRead(Partly, h, b)
      BY <2>6 DEF WordRead, Partly, Spoken!ParserReads
    <2>9. reads'.classifier = WordRead(Partly, h, c)
      BY <2>6 DEF WordRead, Partly, Spoken!ClassifierReads
    <2>10. reads'.system \in Sums /\ reads'.parser \in Sums /\ reads'.classifier \in Sums
      BY <2>7, <2>8, <2>9, WordKeeps
    <2>11. ASSUME ~spoken.digits PROVE Leaves(Full, Tail(w), WordRead(Full, h, a), spoken.number)
      <3>1. Leaves(Full, w, a, spoken.number)
        BY <2>1, <2>4, <2>11 DEF SpokenInv
      <3>2. QED
        BY <2>1, <2>3, <3>1, LeavesOn
    <2>12. ASSUME ~spoken.digits, spoken.number < 1000
           PROVE  /\ Leaves(Partly, Tail(w), WordRead(Partly, h, b), spoken.number)
                  /\ Leaves(Partly, Tail(w), WordRead(Partly, h, c), spoken.number)
      <3>1. Leaves(Partly, w, b, spoken.number) /\ Leaves(Partly, w, c, spoken.number)
        BY <2>1, <2>4, <2>12 DEF SpokenInv
      <3>2. QED
        BY <2>1, <2>3, <3>1, LeavesOn
    <2>13. ~spoken'.digits => Leaves(Full, words', reads'.system, spoken'.number)
      BY <2>1, <2>5, <2>7, <2>11
    <2>14. ~spoken'.digits /\ spoken'.number < 1000
             => /\ Leaves(Partly, words', reads'.parser, spoken'.number)
                /\ Leaves(Partly, words', reads'.classifier, spoken'.number)
      BY <2>1, <2>5, <2>8, <2>9, <2>12
    <2>15. words' \in Seq(SpokenWords)
      BY <2>1, <2>2
    <2>16. spoken'.number \in Nat /\ spoken'.unit \in {1, 60, 3600} /\ spoken'.digits \in BOOLEAN
      <3>1. spoken.number \in Nat /\ spoken.unit \in {1, 60, 3600} /\ spoken.digits \in BOOLEAN
        BY DEF SpokenInv
      <3>2. QED
        BY <2>5, <3>1
    <2>17. (~spoken.digits => Leaves(Full, words, reads.system, spoken.number))'
      BY <2>13 DEF Leaves, HearsTo
    <2>18. (~spoken.digits /\ spoken.number < 1000
              => /\ Leaves(Partly, words, reads.parser, spoken.number)
                 /\ Leaves(Partly, words, reads.classifier, spoken.number))'
      BY <2>14 DEF Leaves, HearsTo
    <2>19. QED
      BY <2>10, <2>15, <2>16, <2>17, <2>18 DEF SpokenInv
  <1>3. QED
    BY <1>1, <1>2

\* The words heard, a number that all copies know is what was said.
LEMMA NumbersAre ==
  ASSUME SpokenInv, Spoken!Heard
  PROVE  /\ Spoken!Number("system") \in Int /\ Spoken!Number("parser") \in Int /\ Spoken!Number("classifier") \in Int
         /\ ~spoken.digits \/ spoken.number < 10000 => Spoken!Number("system") = spoken.number
         /\ Spoken!Common => /\ Spoken!Number("system") = spoken.number
                             /\ Spoken!Number("parser") = spoken.number
                             /\ Spoken!Number("classifier") = spoken.number
  <1>1. PICK n \in Nat : n = spoken.number
    BY DEF SpokenInv
  <1>2. words = <<>>
    BY DEF Spoken!Heard
  <1>3. CASE spoken.digits
    <2>1. \A c : Spoken!Number(c) = Spoken!FirstDigits(spoken.number)
      BY <1>3 DEF Spoken!Number
    <2>2. Spoken!FirstDigits(n) \in Int /\ (n < 10000 => Spoken!FirstDigits(n) = n)
      <3>1. n \div 10 \in Int /\ n \div 100 \in Int
        OBVIOUS
      <3>2. QED
        BY <3>1 DEF Spoken!FirstDigits
    <2>3. Spoken!Common => n < 10000
      BY <1>1, <1>3 DEF Spoken!Common
    <2>4. QED
      BY <1>1, <1>3, <2>1, <2>2, <2>3
  <1>4. CASE ~spoken.digits
    <2>1. \A c : Spoken!Number(c) = IF reads[c].found THEN reads[c].total + reads[c].current ELSE Spoken!NoNumber
      BY <1>4 DEF Spoken!Number
    <2>2. /\ reads["system"] = reads.system
          /\ reads["parser"] = reads.parser
          /\ reads["classifier"] = reads.classifier
      OBVIOUS
    <2>3. ASSUME NEW c, reads[c] \in Sums PROVE Spoken!Number(c) \in Int
      <3>1. reads[c].total + reads[c].current \in Int
        BY <2>3 DEF Sums
      <3>2. Spoken!NoNumber \in Int
        BY DEF Spoken!NoNumber
      <3>3. QED
        BY <2>1, <3>1, <3>2
    <2>4. /\ Spoken!Number("system") \in Int
          /\ Spoken!Number("parser") \in Int
          /\ Spoken!Number("classifier") \in Int
      BY <2>2, <2>3 DEF SpokenInv
    <2>5. ASSUME NEW full, NEW c, Leaves(full, words, reads[c], n) PROVE Spoken!Number(c) = n
      <3>1. Leaves(full, <<>>, reads[c], n)
        BY <1>2, <2>5
      <3>2. reads[c].total + reads[c].current = n /\ reads[c].found
        BY <3>1, LeavesNothing
      <3>3. QED
        BY <2>1, <3>2
    <2>6. Spoken!Number("system") = n
      <3>1. Leaves(Full, words, reads["system"], n)
        BY <1>1, <1>4, <2>2 DEF SpokenInv
      <3>2. QED
        BY <2>5, <3>1
    <2>7. ASSUME Spoken!Common PROVE Spoken!Number("parser") = n /\ Spoken!Number("classifier") = n
      <3>1. spoken.number < 1000
        BY <1>4, <2>7 DEF Spoken!Common
      <3>2. Leaves(Partly, words, reads["parser"], n) /\ Leaves(Partly, words, reads["classifier"], n)
        BY <1>1, <1>4, <2>2, <3>1 DEF SpokenInv
      <3>3. QED
        BY <2>5, <3>2
    <2>8. QED
      BY <1>1, <2>4, <2>6, <2>7
  <1>5. QED
    BY <1>3, <1>4 DEF SpokenInv

\* What was read at the end is what was said.
LEMMA SpokenMeans ==
  SpokenInv => Spoken!TypeOK /\ Spoken!SaidIsMeant /\ Spoken!DurationsAgree /\ Spoken!PercentsAgree
  <1> SUFFICES ASSUME SpokenInv
               PROVE  Spoken!TypeOK /\ Spoken!SaidIsMeant /\ Spoken!DurationsAgree /\ Spoken!PercentsAgree
    OBVIOUS
  <1>1. Spoken!TypeOK
    <2>1. \A c \in Spoken!Copies : reads[c] \in Sums
      BY DEF SpokenInv, Spoken!Copies
    <2>2. \A c \in Spoken!Copies : reads[c].total \in Nat /\ reads[c].current \in Nat
      BY <2>1 DEF Sums
    <2>3. \A i \in DOMAIN words : words[i] \in SpokenWords
      BY DEF SpokenInv
    <2>4. \A i \in DOMAIN words : words[i].kind \in {"one", "ten", "hundred", "thousand", "and"}
      BY <2>3 DEF SpokenWords
    <2>5. QED
      BY <2>2, <2>4 DEF Spoken!TypeOK
  <1>2. Spoken!SaidIsMeant
    BY NumbersAre DEF Spoken!SaidIsMeant
  <1>3. Spoken!DurationsAgree
    <2> SUFFICES ASSUME Spoken!Heard, Spoken!Common, spoken.form = "unit", Spoken!ParserSeconds < 3600
                 PROVE  Spoken!ParserSeconds = Spoken!SystemSeconds /\ Spoken!ParserSeconds = Spoken!ClassifierSeconds
      BY DEF Spoken!DurationsAgree
    <2>1. PICK x : x = spoken.number * spoken.unit
      OBVIOUS
    <2>2. x \in Nat
      BY <2>1 DEF SpokenInv
    <2>3. /\ Spoken!Number("system") * spoken.unit = x
          /\ Spoken!Number("parser") * spoken.unit = x
          /\ Spoken!Number("classifier") * spoken.unit = x
      BY <2>1, NumbersAre
    <2>4. Spoken!ParserSeconds = Spoken!Max({1, Spoken!Min({86400, x})})
      BY <2>3 DEF Spoken!ParserSeconds, Spoken!DurationToSeconds
    <2>5. Spoken!SystemSeconds = Spoken!Max({1, Spoken!Min({3600, x})})
      BY <2>3 DEF Spoken!SystemSeconds
    <2>6. Spoken!ClassifierSeconds = Spoken!Max({1, Spoken!Min({3600, x})})
      BY <2>3 DEF Spoken!ClassifierSeconds
    <2>7. PICK day, hour \in Nat : day = Spoken!Min({86400, x}) /\ hour = Spoken!Min({3600, x})
                                   /\ day = (IF 86400 <= x THEN 86400 ELSE x)
                                   /\ hour = (IF 3600 <= x THEN 3600 ELSE x)
      BY <2>2, SpokenMin
    <2>8. Spoken!ParserSeconds = IF 1 >= day THEN 1 ELSE day
      <3>1. Spoken!Max({1, day}) = IF 1 >= day THEN 1 ELSE day
        BY SpokenMax
      <3>2. QED
        BY <2>4, <2>7, <3>1
    <2>9. Spoken!Max({1, hour}) = IF 1 >= hour THEN 1 ELSE hour
      BY SpokenMax
    <2>10. (IF 1 >= day THEN 1 ELSE day) < 3600
      BY <2>8
    <2>11. (IF 1 >= day THEN 1 ELSE day) = IF 1 >= hour THEN 1 ELSE hour
      BY <2>2, <2>7, <2>10
    <2>12. QED
      BY <2>5, <2>6, <2>7, <2>8, <2>9, <2>11
  <1>4. Spoken!PercentsAgree
    <2> SUFFICES ASSUME Spoken!Heard
                 PROVE  Spoken!SystemPercent \in 0 .. 100 /\ (Spoken!Common => Spoken!SystemPercent = Spoken!ClassifierPercent)
      BY DEF Spoken!PercentsAgree
    <2>1. PICK n \in Int : n = Spoken!Number("system")
      BY NumbersAre
    <2>2. PICK m \in Int : m = Spoken!Min({100, n}) /\ m = IF 100 <= n THEN 100 ELSE n
      <3>1. Spoken!Min({100, n}) = IF 100 <= n THEN 100 ELSE n
        BY SpokenMin
      <3>2. QED
        BY <3>1
    <2>3. Spoken!Max({0, m}) = IF 0 >= m THEN 0 ELSE m
      BY SpokenMax
    <2>4. Spoken!Max({0, m}) \in 0 .. 100
      BY <2>2, <2>3
    <2>5. Spoken!SystemPercent = Spoken!Max({0, m})
      BY <2>1, <2>2 DEF Spoken!SystemPercent
    <2>6. Spoken!Common => Spoken!Number("classifier") = n
      BY <2>1, NumbersAre
    <2>7. Spoken!Common => Spoken!ClassifierPercent = Spoken!Max({0, m})
      BY <2>2, <2>6 DEF Spoken!ClassifierPercent
    <2>8. QED
      BY <2>4, <2>5, <2>7
  <1>5. QED
    BY <1>1, <1>2, <1>3, <1>4

-----------------------------------------------------------------------------
(* The tiers.                                                              *)

\* A reading that has what its intent needs.
Complete(r) == r.intent \in Tiers!Scored => Tiers!Required(r) \subseteq r.given

Scores == 0 .. 100

\* The scores of the code.
LEMMA ScoresAre ==
  /\ 0 \in Scores /\ 35 \in Scores /\ 45 \in Scores /\ 58 \in Scores /\ 72 \in Scores
  /\ 80 \in Scores /\ 92 \in Scores /\ 95 \in Scores /\ 98 \in Scores /\ 100 \in Scores
  BY DEF Scores

\* A reading that lacks something is not sure of it.
Sound(r) == r \in Tiers!Reading /\ (Complete(r) \/ r.score = 0)

\* The fields of a reading.
LEMMA ReadFields ==
  \A i, a, g, s : /\ Read(i, a, g, s).intent = i /\ Read(i, a, g, s).action = a
                  /\ Read(i, a, g, s).given = g /\ Read(i, a, g, s).score = s
  BY DEF Read

\* A reading has its type.
LEMMA ReadIs == \A i \in Tiers!Intents : \A a \in Tiers!Actions : \A g \in SUBSET Tiers!Arguments : \A s \in Scores : Read(i, a, g, s) \in Tiers!Reading
  BY DEF Read, Tiers!Reading, Scores

\* What each intent requires.
LEMMA RequiredIs ==
  \A r : /\ r.intent = "OS_APP_OPEN" \/ r.intent = "OS_APP_CLOSE" => Tiers!Required(r) = {"app_name"}
         /\ r.intent = "OS_FILE_SEARCH" => Tiers!Required(r) = {"filename"}
         /\ r.intent = "OS_SYSTEM_COMMAND" => Tiers!Required(r) = {"action_key"}
  <1> TAKE r
  <1>1. r.intent = "OS_APP_OPEN" \/ r.intent = "OS_APP_CLOSE" => Tiers!Required(r) = {"app_name"}
    BY DEF Tiers!Required
  <1>2. r.intent = "OS_FILE_SEARCH" => Tiers!Required(r) = {"filename"}
    BY DEF Tiers!Required
  <1>3. r.intent = "OS_SYSTEM_COMMAND" => Tiers!Required(r) = {"action_key"}
    BY DEF Tiers!Required
  <1>4. QED
    BY <1>1, <1>2, <1>3

\* A question is sound.
LEMMA QueryIs == Sound(Tiers!Query) /\ Tiers!IsQuery(Tiers!Query) /\ ~Tiers!IsSearch(Tiers!Query)
  <1>1. Tiers!Query = Read("LLM_QUERY", "", {}, 100)
    BY DEF Tiers!Query, Read
  <1>2. PICK q : q = Tiers!Query
    OBVIOUS
  <1>3. q.intent = "LLM_QUERY"
    BY <1>2 DEF Tiers!Query
  <1>4. "LLM_QUERY" \in Tiers!Intents /\ "" \in Tiers!Actions /\ {} \in SUBSET Tiers!Arguments
    BY DEF Tiers!Actions, Tiers!Intents
  <1>5. q \in Tiers!Reading
    BY <1>1, <1>2, <1>4, ReadIs, ScoresAre, Zenon
  <1>6. Complete(q)
    BY <1>3 DEF Complete, Tiers!Scored
  <1>7. Tiers!IsQuery(q) /\ ~Tiers!IsSearch(q)
    BY <1>3 DEF Tiers!IsQuery, Tiers!IsSearch
  <1>8. QED
    BY <1>2, <1>5, <1>6, <1>7 DEF Sound

\* The readings of the code that are complete.
LEMMA CompleteIs ==
  /\ \A a, s : /\ Complete(Read("OS_APP_OPEN", a, {"app_name"}, s))
               /\ Complete(Read("OS_APP_CLOSE", a, {"app_name"}, s))
               /\ Complete(Read("OS_FILE_SEARCH", a, {"filename"}, s))
               /\ Complete(Read("OS_SYSTEM_COMMAND", a, {"action_key"}, s))
  /\ \A i, a, g, s : i \notin Tiers!Scored => Complete(Read(i, a, g, s))
  <1>1. ASSUME NEW i, NEW a, NEW g, NEW s, i \notin Tiers!Scored PROVE Complete(Read(i, a, g, s))
    BY <1>1, ReadFields DEF Complete
  <1>2. ASSUME NEW i, NEW a, NEW g, NEW s, NEW r, r = Read(i, a, g, s), Tiers!Required(r) = g
        PROVE  Complete(r)
    BY <1>2, ReadFields DEF Complete
  <1>3. ASSUME NEW a, NEW s
        PROVE  /\ Complete(Read("OS_APP_OPEN", a, {"app_name"}, s))
               /\ Complete(Read("OS_APP_CLOSE", a, {"app_name"}, s))
               /\ Complete(Read("OS_FILE_SEARCH", a, {"filename"}, s))
               /\ Complete(Read("OS_SYSTEM_COMMAND", a, {"action_key"}, s))
    <2>1. PICK o : o = Read("OS_APP_OPEN", a, {"app_name"}, s)
      OBVIOUS
    <2>2. PICK c : c = Read("OS_APP_CLOSE", a, {"app_name"}, s)
      OBVIOUS
    <2>3. PICK f : f = Read("OS_FILE_SEARCH", a, {"filename"}, s)
      OBVIOUS
    <2>4. PICK m : m = Read("OS_SYSTEM_COMMAND", a, {"action_key"}, s)
      OBVIOUS
    <2>5. /\ o.intent = "OS_APP_OPEN"
          /\ c.intent = "OS_APP_CLOSE"
          /\ f.intent = "OS_FILE_SEARCH"
          /\ m.intent = "OS_SYSTEM_COMMAND"
      BY <2>1, <2>2, <2>3, <2>4, ReadFields
    <2>6. /\ Tiers!Required(o) = {"app_name"} /\ Tiers!Required(c) = {"app_name"}
          /\ Tiers!Required(f) = {"filename"} /\ Tiers!Required(m) = {"action_key"}
      BY <2>5, RequiredIs
    <2>7. QED
      BY <1>2, <2>1, <2>2, <2>3, <2>4, <2>6
  <1>4. QED
    BY <1>1, <1>3

\* What is complete, or scores nothing, is sound.
LEMMA SoundIs ==
  \A i \in Tiers!Intents : \A a \in Tiers!Actions : \A g \in SUBSET Tiers!Arguments : \A s \in Scores :
    s = 0 \/ Complete(Read(i, a, g, s)) => Sound(Read(i, a, g, s))
  BY ReadIs, ReadFields DEF Sound

\* Every reading of this instance is sound.
LEMMA ReadingsAre == \A r \in MCReadings : Sound(r)
  <1> SUFFICES ASSUME NEW r \in MCReadings PROVE Sound(r)
    OBVIOUS
  <1> DEFINE A == {Read(i, "", {}, 0) : i \in {"OS_APP_OPEN", "OS_APP_CLOSE", "OS_FILE_SEARCH",
                                              "OS_SYSTEM_COMMAND", "OS_FILE_NAVIGATION"}}
             B == {Read(i, "", {}, 100) : i \in {"OS_TIMER", "OS_EMAIL", "unknown"}}
             C == {Read("OS_APP_OPEN", "", {"app_name"}, s) : s \in {35, 45, 58, 98}}
             D == {Read("OS_APP_CLOSE", "", {"app_name"}, 92), Read("OS_FILE_SEARCH", "", {"filename"}, 58)}
             E == {Read("OS_SYSTEM_COMMAND", a, {"action_key"}, 72) :
                     a \in {"volume_up", "shutdown", "browser_search_web"}}
             F == {Read("OS_FILE_NAVIGATION", "list_directory", g, 72) : g \in {{}, {"path"}}}
             G == {Read("OS_FILE_NAVIGATION", "delete_item", {"path"}, 95)}
             H == {Read("OS_TIMER", "set", {"seconds"}, 100), Read("OS_TIMER", "cancel", {}, 100)}
  <1>1. r \in A \cup B \cup C \cup D \cup E \cup F \cup G \cup H
    BY DEF MCReadings
  <1>2. /\ "" \in Tiers!Actions /\ "list_directory" \in Tiers!Actions /\ "delete_item" \in Tiers!Actions
        /\ "set" \in Tiers!Actions /\ "cancel" \in Tiers!Actions
        /\ {} \in SUBSET Tiers!Arguments /\ {"app_name"} \in SUBSET Tiers!Arguments
        /\ {"filename"} \in SUBSET Tiers!Arguments /\ {"action_key"} \in SUBSET Tiers!Arguments
        /\ {"path"} \in SUBSET Tiers!Arguments /\ {"seconds"} \in SUBSET Tiers!Arguments
        /\ "OS_APP_OPEN" \in Tiers!Intents /\ "OS_APP_CLOSE" \in Tiers!Intents /\ "OS_FILE_SEARCH" \in Tiers!Intents
        /\ "OS_SYSTEM_COMMAND" \in Tiers!Intents /\ "OS_FILE_NAVIGATION" \in Tiers!Intents /\ "OS_TIMER" \in Tiers!Intents
    BY DEF Tiers!Actions, Tiers!Arguments, Tiers!Intents
  <1>3. r \in A => Sound(r)
    <2>1. \A i \in Tiers!Intents : Sound(Read(i, "", {}, 0))
      BY <1>2, SoundIs, ScoresAre, Zenon
    <2>2. {"OS_APP_OPEN", "OS_APP_CLOSE", "OS_FILE_SEARCH", "OS_SYSTEM_COMMAND", "OS_FILE_NAVIGATION"} \subseteq Tiers!Intents
      BY DEF Tiers!Intents
    <2>3. QED
      BY <2>1, <2>2, Zenon
  <1>4. r \in B => Sound(r)
    <2>1. \A i \in {"OS_TIMER", "OS_EMAIL", "unknown"} : i \notin Tiers!Scored /\ i \in Tiers!Intents
      BY DEF Tiers!Scored, Tiers!Intents
    <2>2. \A i \in {"OS_TIMER", "OS_EMAIL", "unknown"} : Sound(Read(i, "", {}, 100))
      BY <1>2, <2>1, SoundIs, CompleteIs, ScoresAre, Zenon
    <2>3. QED
      BY <2>2, Zenon
  <1>5. r \in C => Sound(r)
    <2>1. \A s \in Scores : Sound(Read("OS_APP_OPEN", "", {"app_name"}, s))
      BY <1>2, SoundIs, CompleteIs, Zenon
    <2>2. {35, 45, 58, 98} \subseteq Scores
      BY ScoresAre
    <2>3. QED
      BY <2>1, <2>2, ZenonT(40)
  <1>6. r \in D => Sound(r)
    <2>1. Sound(Read("OS_APP_CLOSE", "", {"app_name"}, 92))
      BY <1>2, SoundIs, CompleteIs, ScoresAre, Zenon
    <2>2. Sound(Read("OS_FILE_SEARCH", "", {"filename"}, 58))
      BY <1>2, SoundIs, CompleteIs, ScoresAre, Zenon
    <2>3. QED
      BY <2>1, <2>2, Zenon
  <1>7. r \in E => Sound(r)
    <2>1. \A a \in Tiers!Actions : Sound(Read("OS_SYSTEM_COMMAND", a, {"action_key"}, 72))
      BY <1>2, SoundIs, CompleteIs, ScoresAre, Zenon
    <2>2. {"volume_up", "shutdown", "browser_search_web"} \subseteq Tiers!Actions
      BY DEF Tiers!Actions
    <2>3. QED
      BY <2>1, <2>2, Zenon
  <1>8. \A a, g, s : Complete(Read("OS_FILE_NAVIGATION", a, g, s)) /\ Complete(Read("OS_TIMER", a, g, s))
    <2>1. "OS_FILE_NAVIGATION" \notin Tiers!Scored /\ "OS_TIMER" \notin Tiers!Scored
      BY DEF Tiers!Scored
    <2>2. QED
      BY <2>1, CompleteIs, Zenon
  <1>9. \A a \in Tiers!Actions : \A g \in SUBSET Tiers!Arguments : \A s \in Scores :
          Sound(Read("OS_FILE_NAVIGATION", a, g, s)) /\ Sound(Read("OS_TIMER", a, g, s))
    BY <1>2, <1>8, SoundIs, Zenon
  <1>10. r \in F => Sound(r)
    <2>1. {{}, {"path"}} \subseteq SUBSET Tiers!Arguments
      BY DEF Tiers!Arguments
    <2>2. \A g \in SUBSET Tiers!Arguments : Sound(Read("OS_FILE_NAVIGATION", "list_directory", g, 72))
      BY <1>2, <1>9, ScoresAre, Zenon
    <2>3. QED
      BY <2>1, <2>2, Zenon
  <1>11. r \in G => Sound(r)
    <2>1. Sound(Read("OS_FILE_NAVIGATION", "delete_item", {"path"}, 95))
      BY <1>2, <1>9, ScoresAre, Zenon
    <2>2. QED
      BY <2>1, Zenon
  <1>12. r \in H => Sound(r)
    <2>1. Sound(Read("OS_TIMER", "set", {"seconds"}, 100)) /\ Sound(Read("OS_TIMER", "cancel", {}, 100))
      BY <1>2, <1>9, ScoresAre, Zenon
    <2>2. QED
      BY <2>1, Zenon
  <1> HIDE DEF A, B, C, D, E, F, G, H
  <1>13. QED
    BY <1>1, <1>3, <1>4, <1>5, <1>6, <1>7, <1>10, <1>11, <1>12

\* The texts are texts, and an explanation is information.
LEMMA TextsAre == \A t \in MCTexts : t \in Tiers!Features /\ (t.explains => t.informs)
  <1>1. \A a, b, c, s, m \in BOOLEAN : \A v \in 0 .. 2 : Looks(a, b, c, s, v, m, m) \in Tiers!Features
    BY DEF Looks, Tiers!Features
  <1>2. \A a, b, c, s, v, m : Looks(a, b, c, s, v, m, m).explains = a /\ Looks(a, b, c, s, v, m, m).informs = b
    BY DEF Looks
  <1> DEFINE Fine(t) == t \in Tiers!Features /\ (t.explains => t.informs)
  <1>3. ASSUME NEW k \in TextKinds, NEW s \in BOOLEAN, NEW v \in 0 .. 2, NEW m \in BOOLEAN
        PROVE  Fine(Looks(k[1], k[2], k[3], s, v, m, m))
    <2>1. k[1] \in BOOLEAN /\ k[2] \in BOOLEAN /\ k[3] \in BOOLEAN /\ (k[1] => k[2])
      <3>1. \/ k = <<TRUE, TRUE, TRUE>> \/ k = <<FALSE, TRUE, TRUE>> \/ k = <<FALSE, TRUE, FALSE>>
            \/ k = <<FALSE, FALSE, FALSE>> \/ k = <<FALSE, FALSE, TRUE>>
        BY DEF TextKinds
      <3>2. CASE k = <<TRUE, TRUE, TRUE>>
        BY <3>2
      <3>3. CASE k = <<FALSE, TRUE, TRUE>>
        BY <3>3
      <3>4. CASE k = <<FALSE, TRUE, FALSE>>
        BY <3>4
      <3>5. CASE k = <<FALSE, FALSE, FALSE>>
        BY <3>5
      <3>6. CASE k = <<FALSE, FALSE, TRUE>>
        BY <3>6
      <3>7. QED
        BY <3>1, <3>2, <3>3, <3>4, <3>5, <3>6, Zenon
    <2>2. PICK a, b, c : a = k[1] /\ b = k[2] /\ c = k[3]
      OBVIOUS
    <2>3. Looks(a, b, c, s, v, m, m) \in Tiers!Features
      BY <1>1, <2>1, <2>2, Zenon
    <2>4. PICK t : t = Looks(a, b, c, s, v, m, m)
      OBVIOUS
    <2>5. t.explains = a /\ t.informs = b
      BY <2>4 DEF Looks
    <2>6. Fine(t)
      BY <2>1, <2>2, <2>3, <2>4, <2>5, Zenon
    <2>7. QED
      BY <2>2, <2>4, <2>6, Zenon
  <1>4. 0 \in 0 .. 2
    OBVIOUS
  <1> HIDE DEF Fine
  <1>5. ASSUME NEW t \in MCTexts PROVE Fine(t)
    <2>1. \/ \E k \in TextKinds, s \in BOOLEAN, v \in 0 .. 2 : t = Looks(k[1], k[2], k[3], s, v, FALSE, FALSE)
          \/ \E k \in TextKinds : t = Looks(k[1], k[2], k[3], FALSE, 0, TRUE, TRUE)
      <3> DEFINE X(k, s, v) == Looks(k[1], k[2], k[3], s, v, FALSE, FALSE)
                 Y(k) == Looks(k[1], k[2], k[3], FALSE, 0, TRUE, TRUE)
                 A == {X(k, s, v) : k \in TextKinds, s \in BOOLEAN, v \in 0 .. 2}
                 B == {Y(k) : k \in TextKinds}
      <3>1. MCTexts = A \cup B
        <4>1. A = {Looks(k[1], k[2], k[3], s, v, FALSE, FALSE) : k \in TextKinds, s \in BOOLEAN, v \in 0 .. 2}
          OBVIOUS
        <4>2. B = {Looks(k[1], k[2], k[3], FALSE, 0, TRUE, TRUE) : k \in TextKinds}
          OBVIOUS
        <4> HIDE DEF A, B
        <4>3. QED
          BY <4>1, <4>2 DEF MCTexts
      <3> HIDE DEF X, Y
      <3>2. t \in A => \E k \in TextKinds, s \in BOOLEAN, v \in 0 .. 2 : t = X(k, s, v)
        OBVIOUS
      <3>3. t \in B => \E k \in TextKinds : t = Y(k)
        OBVIOUS
      <3> HIDE DEF A, B
      <3>4. \/ \E k \in TextKinds, s \in BOOLEAN, v \in 0 .. 2 : t = X(k, s, v)
            \/ \E k \in TextKinds : t = Y(k)
        BY <3>1, <3>2, <3>3
      <3>5. QED
        BY <3>4 DEF X, Y
    <2>2. ASSUME NEW k \in TextKinds, NEW s \in BOOLEAN, NEW v \in 0 .. 2,
                 t = Looks(k[1], k[2], k[3], s, v, FALSE, FALSE)
          PROVE  Fine(t)
      BY <1>3, <2>2, Zenon
    <2>3. ASSUME NEW k \in TextKinds, t = Looks(k[1], k[2], k[3], FALSE, 0, TRUE, TRUE) PROVE Fine(t)
      BY <1>3, <1>4, <2>3, Zenon
    <2>4. QED
      BY <2>1, <2>2, <2>3, Zenon
  <1>6. QED
    BY <1>5 DEF Fine

\* A reading is none of what stands for none.
LEMMA SoundIsSome == \A r : Sound(r) => r # Absent /\ r \in Tiers!Reading
  BY AbsentAssumption DEF Sound

\* What is sure enough not to be asked about is complete.
LEMMA SureIsComplete ==
  ASSUME NEW t, NEW r, Sound(r), ~Tiers!IsQuery(r), NEW fs, ~Tiers!Assess(t, r, fs).asks
  PROVE  Complete(r)
  <1>1. ~Tiers!Weak(t, r)
    BY Zenon DEF Tiers!Assess
  <1> SUFFICES ASSUME ~Complete(r) PROVE FALSE
    OBVIOUS
  <1>2. r.intent \in Tiers!Scored /\ r.score = 0
    BY DEF Sound, Complete
  <1>3. Tiers!IsScored(r)
    BY <1>2 DEF Tiers!IsScored
  <1>4. Tiers!Score(r) = 0
    BY <1>2, <1>3 DEF Tiers!Score
  <1>5. PICK b \in Nat : b = IF t.mixed THEN 3 ELSE 0
    OBVIOUS
  <1>6. \/ Tiers!Threshold(t, r) = 58 + b \/ Tiers!Threshold(t, r) = 60 + b
        \/ Tiers!Threshold(t, r) = 56 + b \/ Tiers!Threshold(t, r) = 55 + b
    <2>1. CASE r.intent = "OS_APP_OPEN"
      BY <1>5, <2>1 DEF Tiers!Threshold
    <2>2. CASE r.intent = "OS_APP_CLOSE"
      BY <1>5, <2>2 DEF Tiers!Threshold
    <2>3. CASE r.intent = "OS_FILE_SEARCH"
      BY <1>5, <2>3 DEF Tiers!Threshold
    <2>4. CASE r.intent = "OS_SYSTEM_COMMAND"
      BY <1>5, <2>4 DEF Tiers!Threshold
    <2>5. QED
      BY <1>2, <2>1, <2>2, <2>3, <2>4 DEF Tiers!Scored
  <1>7. 0 < Tiers!Threshold(t, r)
    BY <1>5, <1>6
  <1>8. QED
    BY <1>1, <1>3, <1>4, <1>7 DEF Tiers!Weak

\* What the enrichment finds keeps the meaning and makes it complete.
LEMMA ExtractedIs ==
  ASSUME NEW r, Sound(r), Tiers!Missing(r) # {}, NEW x \in Tiers!Extracted(r)
  PROVE  /\ Sound(x) /\ Complete(x) /\ x.intent = r.intent /\ x.action = r.action /\ r.given \subseteq x.given
         /\ Tiers!Risk(x) = Tiers!Risk(r) /\ Tiers!Required(x) = Tiers!Required(r)
         /\ (Tiers!IsSearch(x) <=> Tiers!IsSearch(r)) /\ (Tiers!IsQuery(x) <=> Tiers!IsQuery(r))
  <1>1. r \in Tiers!Reading
    BY DEF Sound
  <1>2. PICK s \in Scores : x = [r EXCEPT !.given = @ \cup Tiers!Slots(r), !.score = s]
    <2>1. {35, 45, 58, 80, 98} \subseteq Scores
      BY ScoresAre
    <2>2. QED
      BY <2>1 DEF Tiers!Extracted
  <1>3. PICK g : g = r.given \cup Tiers!Slots(r)
    OBVIOUS
  <1>4. PICK y : y = [r EXCEPT !.given = g]
    OBVIOUS
  <1>5. x = [y EXCEPT !.score = s]
    BY <1>2, <1>3, <1>4
  <1>6. Tiers!Slots(r) \subseteq Tiers!Arguments
    BY DEF Tiers!Slots, Tiers!Arguments
  <1>7. g \in SUBSET Tiers!Arguments
    BY <1>1, <1>3, <1>6 DEF Tiers!Reading
  <1>8. y \in Tiers!Reading /\ y.intent = r.intent /\ y.action = r.action /\ y.given = g
    BY <1>1, <1>4, <1>7 DEF Tiers!Reading
  <1>9. x \in Tiers!Reading /\ x.intent = r.intent /\ x.action = r.action /\ x.given = g
    BY <1>5, <1>8 DEF Tiers!Reading, Scores
  <1>10. Tiers!Required(x) = Tiers!Required(r)
    BY <1>9 DEF Tiers!Required
  <1>11. Tiers!Risk(x) = Tiers!Risk(r)
    BY <1>9 DEF Tiers!Risk
  <1>12. (Tiers!IsSearch(x) <=> Tiers!IsSearch(r)) /\ (Tiers!IsQuery(x) <=> Tiers!IsQuery(r))
    BY <1>9 DEF Tiers!IsSearch, Tiers!IsQuery
  <1>13. Complete(x)
    <2> SUFFICES ASSUME x.intent \in Tiers!Scored PROVE Tiers!Required(r) \subseteq g
      BY <1>9, <1>10 DEF Complete
    <2>1. Tiers!Slots(r) # {}
      BY DEF Tiers!Missing
    <2>2. \/ r.intent = "OS_APP_OPEN" \/ r.intent = "OS_APP_CLOSE" \/ r.intent = "OS_FILE_SEARCH"
          \/ r.intent = "OS_SYSTEM_COMMAND"
      BY <1>9 DEF Tiers!Scored
    <2>3. CASE r.intent = "OS_APP_OPEN" \/ r.intent = "OS_APP_CLOSE"
      BY <1>3, <2>3, RequiredIs DEF Tiers!Slots
    <2>4. CASE r.intent = "OS_FILE_SEARCH"
      BY <1>3, <2>4, RequiredIs DEF Tiers!Slots
    <2>5. CASE r.intent = "OS_SYSTEM_COMMAND"
      BY <2>1, <2>5 DEF Tiers!Slots
    <2>6. QED
      BY <2>2, <2>3, <2>4, <2>5
  <1>14. QED
    BY <1>3, <1>9, <1>10, <1>11, <1>12, <1>13 DEF Sound

TiersTypes ==
  /\ index \in {"none", "built", "loaded", "ready", "failed"} /\ tier \in {"low", "medium"}
  /\ shifts \in 0 .. MaxShifts /\ text \in MCTexts /\ near \in BOOLEAN /\ calls \in {0, 1}
  /\ Sound(candidate) /\ (parsed = Absent \/ Sound(parsed))
  /\ stage \in {"parse", "fast", "switch", "semantic", "keyword", "guard", "tools", "tie",
                "structured", "keep", "slots", "assess", "done"}
  /\ result \in {"none", "sum", "tools", "ask", "answer", "run"}

\* The tiers come one after the other, and nothing is settled before the end.
TiersOrder ==
  /\ stage \in {"parse", "fast", "switch", "semantic", "keyword", "guard", "tools"} => calls = 0
  /\ stage \in {"slots", "assess"} => parsed # Absent
  /\ stage = "parse" => parsed = Absent /\ checked = Absent
  /\ stage # "done" => result = "none"

\* An explanation stays a query.
ExplainsInv ==
  text.explains => /\ stage \in {"parse", "keep", "slots", "assess", "done"}
                   /\ stage # "parse" => Tiers!IsQuery(candidate)
                   /\ parsed = Absent \/ Tiers!IsQuery(parsed)
                   /\ result \notin {"run", "tools"}

\* After the guard a question is no search.
InformsInv ==
  /\ stage \in {"tools", "tie", "structured", "keep", "slots", "assess", "done"}
  /\ text.informs /\ parsed # Absent /\ Tiers!IsSearch(parsed)
  => ~Tiers!IsQuery(candidate)

\* A tie waits until it is settled.
NearInv ==
  near => /\ stage \notin {"parse", "fast", "switch", "semantic"}
          /\ \/ parsed = Absent /\ stage \in {"keyword", "guard", "tools", "tie"}
             \/ parsed # Absent /\ source \in {"keyword", "guard"}
             \/ stage = "done" /\ result \in {"ask", "tools"}

ModelInv ==
  source = "model" =>
    parsed # Absent /\ Tiers!Risk(parsed) = "low" /\ Tiers!Required(parsed) \subseteq parsed.given

\* What was checked at once is asked about or complete.
CheckedInv ==
  checked # Absent => parsed # Absent /\ ~Tiers!IsQuery(candidate) /\ (checked.asks \/ Complete(parsed))

RunsInv == result = "run" => parsed # Absent /\ Complete(parsed)

TiersInv ==
  TiersTypes /\ TiersOrder /\ ExplainsInv /\ InformsInv /\ NearInv /\ ModelInv /\ CheckedInv /\ RunsInv

\* No tier has seen the text.
LEMMA TiersBegin == Tiers!Init => TiersInv
  <1> SUFFICES ASSUME Tiers!Init PROVE TiersInv
    OBVIOUS
  <1>1. Sound(candidate)
    BY QueryIs DEF Tiers!Init
  <1>2. shifts \in 0 .. MaxShifts
    <2>1. shifts = 0 /\ MaxShifts \in Nat
      BY CommandsAssumption DEF Tiers!Init
    <2>2. QED
      BY <2>1
  <1>3. TiersTypes
    BY <1>1, <1>2 DEF Tiers!Init, TiersTypes
  <1>4. TiersOrder
    BY DEF Tiers!Init, TiersOrder
  <1>5. ExplainsInv /\ InformsInv /\ NearInv
    BY DEF Tiers!Init, ExplainsInv, InformsInv, NearInv
  <1>6. ModelInv /\ CheckedInv /\ RunsInv
    BY DEF Tiers!Init, ModelInv, CheckedInv, RunsInv
  <1>7. QED
    BY <1>3, <1>4, <1>5, <1>6 DEF TiersInv

\* What it says of a text that was understood.
LEMMA TiersMean ==
  TiersInv => /\ Tiers!TypeOK /\ Tiers!ExplainingRunsNothing /\ Tiers!InformationIsAnswered
              /\ Tiers!TieIsSettled /\ Tiers!ModelRunsSafely /\ Tiers!NothingRunsBare
  <1> SUFFICES ASSUME TiersInv
               PROVE  /\ Tiers!TypeOK /\ Tiers!ExplainingRunsNothing /\ Tiers!InformationIsAnswered
                      /\ Tiers!TieIsSettled /\ Tiers!ModelRunsSafely /\ Tiers!NothingRunsBare
    OBVIOUS
  <1>1. Tiers!TypeOK
    <2>1. text \in Tiers!Features /\ (text.explains => text.informs)
      BY TextsAre DEF TiersInv, TiersTypes
    <2>2. calls \in 0 .. 1
      <3>1. calls \in {0, 1}
        BY DEF TiersInv, TiersTypes
      <3>2. QED
        BY <3>1
    <2>3. candidate \in Tiers!Reading /\ parsed \in Tiers!Reading \cup {Absent}
      BY SoundIsSome DEF TiersInv, TiersTypes
    <2>4. QED
      <3>1. index \in {"none", "built", "loaded", "ready", "failed"} /\ tier \in {"low", "medium"}
        BY DEF TiersInv, TiersTypes
      <3>2. shifts \in 0 .. MaxShifts /\ near \in BOOLEAN
        BY DEF TiersInv, TiersTypes
      <3>3. /\ stage \in {"parse", "fast", "switch", "semantic", "keyword", "guard", "tools", "tie",
                          "structured", "keep", "slots", "assess", "done"}
            /\ result \in {"none", "sum", "tools", "ask", "answer", "run"}
        BY DEF TiersInv, TiersTypes
      <3>4. QED
        BY <2>1, <2>2, <2>3, <3>1, <3>2, <3>3, Zenon DEF Tiers!TypeOK
  <1>2. Tiers!ExplainingRunsNothing
    BY DEF TiersInv, ExplainsInv, Tiers!ExplainingRunsNothing
  <1>3. Tiers!InformationIsAnswered
    BY DEF TiersInv, InformsInv, RunsInv, TiersOrder, Tiers!InformationIsAnswered, Tiers!Runs
  <1>4. Tiers!TieIsSettled
    BY DEF TiersInv, NearInv, Tiers!TieIsSettled
  <1>5. Tiers!ModelRunsSafely
    BY DEF TiersInv, ModelInv, Tiers!ModelRunsSafely
  <1>6. Tiers!NothingRunsBare
    BY DEF TiersInv, RunsInv, Complete, Tiers!NothingRunsBare, Tiers!Runs
  <1>7. QED
    BY <1>1, <1>2, <1>3, <1>4, <1>5, <1>6

\* The other threads change neither the text nor what is made of it.
LEMMA TiersWorld == ASSUME TiersInv, Tiers!Load \/ Tiers!ShiftTier PROVE TiersInv'
  <1>1. /\ stage' = stage /\ text' = text /\ candidate' = candidate /\ parsed' = parsed /\ source' = source
        /\ near' = near /\ calls' = calls /\ checked' = checked /\ result' = result
    BY DEF Tiers!Load, Tiers!ShiftTier
  <1>2. index' \in {"none", "built", "loaded", "ready", "failed"}
    BY DEF Tiers!Load, Tiers!ShiftTier, TiersInv, TiersTypes
  <1>3. tier' \in {"low", "medium"}
    BY DEF Tiers!Load, Tiers!ShiftTier, TiersInv, TiersTypes
  <1>4. shifts' \in 0 .. MaxShifts
    <2>1. shifts \in 0 .. MaxShifts /\ MaxShifts \in Nat
      BY CommandsAssumption DEF TiersInv, TiersTypes
    <2>2. shifts' = shifts \/ (shifts < MaxShifts /\ shifts' = shifts + 1)
      BY DEF Tiers!Load, Tiers!ShiftTier
    <2>3. QED
      BY <2>1, <2>2
  <1>5. TiersTypes'
    BY <1>1, <1>2, <1>3, <1>4, Zenon DEF TiersInv, TiersTypes, Sound, Complete
  <1>6. TiersOrder'
    BY <1>1 DEF TiersInv, TiersOrder
  <1>7. ExplainsInv' /\ InformsInv' /\ NearInv'
    BY <1>1 DEF TiersInv, ExplainsInv, InformsInv, NearInv, Tiers!IsQuery, Tiers!IsSearch
  <1>8. ModelInv' /\ CheckedInv' /\ RunsInv'
    BY <1>1 DEF TiersInv, ModelInv, CheckedInv, RunsInv, Complete, Tiers!IsQuery
  <1>9. QED
    BY <1>5, <1>6, <1>7, <1>8 DEF TiersInv

\* What a step of the tiers leaves alone.
LEMMA WorldStays ==
  ASSUME TiersInv, Tiers!Steps
  PROVE  index' = index /\ tier' = tier /\ shifts' = shifts /\ text' = text
  BY
     DEF Tiers!Steps, Tiers!world, Tiers!Parse, Tiers!FastPath, Tiers!CodeSwitch, Tiers!Semantic,
         Tiers!Keyword,
         Tiers!Guardrail, Tiers!Tools, Tiers!Tie, Tiers!StructuredTier, Tiers!Keep, Tiers!Enrich, Tiers!Decide

\* A step that makes sound readings of sound readings keeps the types.
LEMMA TypesStay ==
  ASSUME TiersInv, Tiers!Steps, NEW s, NEW r, NEW m, NEW k, NEW c, NEW e,
         s = stage', r = candidate', m = parsed', k = near', c = calls', e = result',
         Sound(r), m = Absent \/ Sound(m), k \in BOOLEAN, c \in {0, 1},
         s \in {"parse", "fast", "switch", "semantic", "keyword", "guard", "tools", "tie",
                "structured", "keep", "slots", "assess", "done"},
         e \in {"none", "sum", "tools", "ask", "answer", "run"}
  PROVE  TiersTypes'
  <1>1. index' = index /\ tier' = tier /\ shifts' = shifts /\ text' = text
    BY WorldStays
  <1>2. index' \in {"none", "built", "loaded", "ready", "failed"} /\ tier' \in {"low", "medium"}
    BY <1>1 DEF TiersInv, TiersTypes
  <1>3. shifts' \in 0 .. MaxShifts /\ text' \in MCTexts
    BY <1>1 DEF TiersInv, TiersTypes
  <1>4. near' \in BOOLEAN /\ calls' \in {0, 1}
    OBVIOUS
  <1>5. Sound(candidate') /\ (parsed' = Absent \/ Sound(parsed'))
    BY Zenon
  <1>6. /\ stage' \in {"parse", "fast", "switch", "semantic", "keyword", "guard", "tools", "tie",
                       "structured", "keep", "slots", "assess", "done"}
        /\ result' \in {"none", "sum", "tools", "ask", "answer", "run"}
    OBVIOUS
  <1>7. QED
    BY <1>2, <1>3, <1>4, <1>5, <1>6, Zenon DEF TiersTypes, Sound, Complete

\* The rules of the parser.
LEMMA TiersParse == ASSUME TiersInv, Tiers!Parse PROVE TiersInv'
  <1>1. PICK r \in MCReadings \cup {Tiers!Query} : candidate' = Tiers!Candidate(r)
    BY DEF Tiers!Parse
  <1>2. Sound(candidate') /\ (text.explains => Tiers!IsQuery(candidate'))
    <2>1. Sound(r) /\ Sound(Tiers!Query) /\ Tiers!IsQuery(Tiers!Query)
      BY ReadingsAre, QueryIs
    <2>2. QED
      BY <1>1, <2>1 DEF Tiers!Candidate
  <1>3. /\ stage = "parse"
        /\ parsed' = parsed
        /\ source' = source
        /\ near' = near
        /\ calls' = calls
        /\ checked' = checked
    BY DEF Tiers!Parse
  <1>4. \/ stage' = "done" /\ result' = "sum"
        \/ stage' = (IF text.explains THEN "keep" ELSE "fast") /\ result' = result
    BY DEF Tiers!Parse, Tiers!Ends, Tiers!Goes
  <1>5. text' = text
    BY DEF Tiers!Parse
  <1>6. parsed = Absent /\ checked = Absent /\ calls = 0 /\ ~near /\ result = "none" /\ source # "model"
    BY <1>3 DEF TiersInv, TiersTypes, TiersOrder, NearInv, ModelInv
  <1>7. TiersTypes'
    <2>1. Tiers!Steps
      BY DEF Tiers!Steps
    <2>2. near' \in BOOLEAN /\ calls' \in {0, 1}
      BY <1>3 DEF TiersInv, TiersTypes
    <2>3. stage' \in {"parse", "fast", "switch", "semantic", "keyword", "guard", "tools", "tie",
                      "structured", "keep", "slots", "assess", "done"}
      BY <1>4
    <2>4. result' \in {"none", "sum", "tools", "ask", "answer", "run"}
      BY <1>4, <1>6
    <2>5. parsed' = Absent
      BY <1>3, <1>6
    <2>6. QED
      BY <1>2, <2>1, <2>2, <2>3, <2>4, <2>5, TypesStay
  <1>8. TiersOrder'
    BY <1>3, <1>4, <1>6 DEF TiersOrder
  <1>9. ExplainsInv'
    BY <1>2, <1>3, <1>4, <1>5, <1>6 DEF ExplainsInv, Tiers!IsQuery
  <1>10. InformsInv' /\ NearInv'
    BY <1>3, <1>6 DEF InformsInv, NearInv
  <1>11. ModelInv' /\ CheckedInv' /\ RunsInv'
    BY <1>3, <1>4, <1>6 DEF ModelInv, CheckedInv, RunsInv
  <1>12. QED
    BY <1>7, <1>8, <1>9, <1>10, <1>11 DEF TiersInv

\* The fast path.
LEMMA TiersFastPath == ASSUME TiersInv, Tiers!FastPath PROVE TiersInv'
  <1>1. /\ stage = "fast" /\ stage' = "switch" /\ text' = text /\ candidate' = candidate
        /\ near' = near /\ calls' = calls /\ result' = result
    BY DEF Tiers!FastPath, Tiers!Goes
  <1>2. \/ /\ parsed' = candidate /\ source' = "parser" /\ ~Tiers!IsQuery(candidate)
           /\ checked'.asks \/ Complete(candidate)
        \/ parsed' = parsed /\ source' = source /\ checked' = checked
    <2>1. PICK fs \in BOOLEAN :
            LET a == Tiers!Assess(text, candidate, fs) IN
            IF candidate.intent \notin Tiers!Unquick /\ (a.asks \/ a.confidence >= Tiers!Gate)
            THEN Tiers!Claims(candidate, "parser") /\ checked' = a
            ELSE UNCHANGED <<parsed, source, checked>>
      BY Zenon DEF Tiers!FastPath
    <2>2. PICK a : a = Tiers!Assess(text, candidate, fs)
      OBVIOUS
    <2>3. \/ candidate.intent \notin Tiers!Unquick /\ Tiers!Claims(candidate, "parser") /\ checked' = a
          \/ UNCHANGED <<parsed, source, checked>>
      BY <2>1, <2>2, Zenon
    <2>4. candidate.intent \notin Tiers!Unquick => ~Tiers!IsQuery(candidate)
      BY DEF Tiers!Unquick, Tiers!IsQuery
    <2>5. ~Tiers!IsQuery(candidate) => a.asks \/ Complete(candidate)
      <3>1. Sound(candidate)
        BY DEF TiersInv, TiersTypes
      <3>2. QED
        BY <2>2, <3>1, SureIsComplete
    <2>6. QED
      BY <2>3, <2>4, <2>5 DEF Tiers!Claims
  <1>3. calls = 0 /\ ~near /\ result = "none" /\ ~text.explains
    BY <1>1 DEF TiersInv, TiersOrder, NearInv, ExplainsInv, TiersTypes
  <1>4. Sound(candidate) /\ candidate # Absent
    BY SoundIsSome DEF TiersInv, TiersTypes
  <1>5. TiersTypes'
    <2>1. Tiers!Steps
      BY DEF Tiers!Steps
    <2>2. near' \in BOOLEAN
      BY <1>1 DEF TiersInv, TiersTypes
    <2>3. calls' \in {0, 1}
      BY <1>1 DEF TiersInv, TiersTypes
    <2>4. stage' \in {"parse", "fast", "switch", "semantic", "keyword", "guard", "tools", "tie",
                      "structured", "keep", "slots", "assess", "done"}
      BY <1>1
    <2>5. result' \in {"none", "sum", "tools", "ask", "answer", "run"}
      BY <1>1 DEF TiersInv, TiersTypes
    <2>6. Sound(candidate') /\ (parsed' = Absent \/ Sound(parsed'))
      BY <1>1, <1>2, <1>4 DEF TiersInv, TiersTypes
    <2>7. QED
      BY <2>1, <2>2, <2>3, <2>4, <2>5, <2>6, TypesStay
  <1>6. TiersOrder'
    BY <1>1, <1>3 DEF TiersOrder
  <1>7. ExplainsInv' /\ InformsInv' /\ NearInv'
    BY <1>1, <1>3 DEF ExplainsInv, InformsInv, NearInv
  <1>8. ModelInv'
    BY <1>2 DEF TiersInv, ModelInv
  <1>9. CheckedInv'
    BY <1>1, <1>2, <1>4 DEF TiersInv, CheckedInv, Complete, Tiers!IsQuery
  <1>10. RunsInv'
    BY <1>1, <1>3 DEF RunsInv
  <1>11. QED
    BY <1>5, <1>6, <1>7, <1>8, <1>9, <1>10 DEF TiersInv

\* The mixed scripts.
LEMMA TiersSwitch == ASSUME TiersInv, Tiers!CodeSwitch PROVE TiersInv'
  <1>1. /\ stage = "switch" /\ stage' = "semantic" /\ text' = text /\ candidate' = candidate
        /\ near' = near /\ calls' = calls /\ result' = result /\ checked' = checked
    BY DEF Tiers!CodeSwitch, Tiers!Goes
  <1>2. \/ parsed = Absent /\ source' = "switch" /\ \E r \in MCReadings : parsed' = r
        \/ parsed' = parsed /\ source' = source
    BY DEF Tiers!CodeSwitch, Tiers!Claims, Tiers!Switchable, Tiers!Unclaimed
  <1>3. calls = 0 /\ ~near /\ result = "none" /\ ~text.explains
    BY <1>1 DEF TiersInv, TiersOrder, NearInv, ExplainsInv, TiersTypes
  <1>4. (parsed' = parsed /\ source' = source) \/ (parsed = Absent /\ source' = "switch" /\ Sound(parsed') /\ parsed' # Absent)
    BY <1>2, ReadingsAre, SoundIsSome
  <1>5. TiersTypes'
    <2>1. Tiers!Steps
      BY DEF Tiers!Steps
    <2>2. near' \in BOOLEAN
      BY <1>1 DEF TiersInv, TiersTypes
    <2>3. calls' \in {0, 1}
      BY <1>1 DEF TiersInv, TiersTypes
    <2>4. stage' \in {"parse", "fast", "switch", "semantic", "keyword", "guard", "tools", "tie",
                      "structured", "keep", "slots", "assess", "done"}
      BY <1>1
    <2>5. result' \in {"none", "sum", "tools", "ask", "answer", "run"}
      BY <1>1 DEF TiersInv, TiersTypes
    <2>6. Sound(candidate') /\ (parsed' = Absent \/ Sound(parsed'))
      BY <1>1, <1>4 DEF TiersInv, TiersTypes
    <2>7. QED
      BY <2>1, <2>2, <2>3, <2>4, <2>5, <2>6, TypesStay
  <1>6. TiersOrder'
    BY <1>1, <1>3 DEF TiersOrder
  <1>7. ExplainsInv' /\ InformsInv' /\ NearInv'
    BY <1>1, <1>3 DEF ExplainsInv, InformsInv, NearInv
  <1>8. ModelInv'
    BY <1>4 DEF TiersInv, ModelInv
  <1>9. CheckedInv'
    BY <1>1, <1>4 DEF TiersInv, CheckedInv, Complete, Tiers!IsQuery
  <1>10. RunsInv'
    BY <1>1, <1>3 DEF RunsInv
  <1>11. QED
    BY <1>5, <1>6, <1>7, <1>8, <1>9, <1>10 DEF TiersInv

\* The semantic router.
LEMMA TiersSemantic == ASSUME TiersInv, Tiers!Semantic PROVE TiersInv'
  <1>1. /\ stage = "semantic" /\ stage' = "keyword" /\ text' = text /\ candidate' = candidate
        /\ calls' = calls /\ result' = result /\ checked' = checked
    BY DEF Tiers!Semantic, Tiers!Goes
  <1>2. \/ parsed = Absent /\ source' = "semantic" /\ near' = near /\ \E r \in MCReadings : parsed' = r
        \/ parsed = Absent /\ near' = TRUE /\ parsed' = parsed /\ source' = source
        \/ parsed' = parsed /\ source' = source /\ near' = near
    BY DEF Tiers!Semantic, Tiers!Claims, Tiers!Routed, Tiers!Unclaimed
  <1>3. calls = 0 /\ near = FALSE /\ result = "none" /\ ~text.explains
    BY <1>1 DEF TiersInv, TiersOrder, NearInv, ExplainsInv, TiersTypes
  <1>4. \/ parsed' = parsed /\ source' = source
        \/ parsed = Absent /\ source' = "semantic" /\ Sound(parsed') /\ parsed' # Absent /\ near' = FALSE
    BY <1>2, <1>3, ReadingsAre, SoundIsSome
  <1>5. near' => parsed' = Absent
    BY <1>2, <1>3
  <1>6. TiersTypes'
    <2>1. Tiers!Steps
      BY DEF Tiers!Steps
    <2>2. near' \in BOOLEAN
      BY <1>2, <1>3
    <2>3. calls' \in {0, 1}
      BY <1>1 DEF TiersInv, TiersTypes
    <2>4. stage' \in {"parse", "fast", "switch", "semantic", "keyword", "guard", "tools", "tie",
                      "structured", "keep", "slots", "assess", "done"}
      BY <1>1
    <2>5. result' \in {"none", "sum", "tools", "ask", "answer", "run"}
      BY <1>1 DEF TiersInv, TiersTypes
    <2>6. Sound(candidate') /\ (parsed' = Absent \/ Sound(parsed'))
      BY <1>1, <1>4 DEF TiersInv, TiersTypes
    <2>7. QED
      BY <2>1, <2>2, <2>3, <2>4, <2>5, <2>6, TypesStay
  <1>7. TiersOrder'
    BY <1>1, <1>3 DEF TiersOrder
  <1>8. ExplainsInv' /\ InformsInv' /\ NearInv'
    BY <1>1, <1>3, <1>5 DEF ExplainsInv, InformsInv, NearInv
  <1>9. ModelInv'
    BY <1>4 DEF TiersInv, ModelInv
  <1>10. CheckedInv'
    BY <1>1, <1>4 DEF TiersInv, CheckedInv, Complete, Tiers!IsQuery
  <1>11. RunsInv'
    BY <1>1, <1>3 DEF RunsInv
  <1>12. QED
    BY <1>6, <1>7, <1>8, <1>9, <1>10, <1>11 DEF TiersInv

\* The keywords.
LEMMA TiersKeyword == ASSUME TiersInv, Tiers!Keyword PROVE TiersInv'
  <1>1. /\ stage = "keyword" /\ stage' = "guard" /\ text' = text /\ candidate' = candidate
        /\ near' = near /\ calls' = calls /\ result' = result /\ checked' = checked
    BY DEF Tiers!Keyword, Tiers!Goes
  <1>2. \/ parsed = Absent /\ source' = "keyword" /\ \E r \in MCReadings : parsed' = r
        \/ parsed' = parsed /\ source' = source
    BY DEF Tiers!Keyword, Tiers!Claims, Tiers!Keyed, Tiers!Unclaimed
  <1>3. calls = 0 /\ result = "none" /\ ~text.explains
    BY <1>1 DEF TiersInv, TiersOrder, ExplainsInv, TiersTypes
  <1>4. (parsed' = parsed /\ source' = source) \/ (parsed = Absent /\ source' = "keyword" /\ Sound(parsed') /\ parsed' # Absent)
    BY <1>2, ReadingsAre, SoundIsSome
  <1>5. TiersTypes'
    <2>1. Tiers!Steps
      BY DEF Tiers!Steps
    <2>2. near' \in BOOLEAN
      BY <1>1 DEF TiersInv, TiersTypes
    <2>3. calls' \in {0, 1}
      BY <1>1 DEF TiersInv, TiersTypes
    <2>4. stage' \in {"parse", "fast", "switch", "semantic", "keyword", "guard", "tools", "tie",
                      "structured", "keep", "slots", "assess", "done"}
      BY <1>1
    <2>5. result' \in {"none", "sum", "tools", "ask", "answer", "run"}
      BY <1>1 DEF TiersInv, TiersTypes
    <2>6. Sound(candidate') /\ (parsed' = Absent \/ Sound(parsed'))
      BY <1>1, <1>4 DEF TiersInv, TiersTypes
    <2>7. QED
      BY <2>1, <2>2, <2>3, <2>4, <2>5, <2>6, TypesStay
  <1>6. TiersOrder'
    BY <1>1, <1>3 DEF TiersOrder
  <1>7. ExplainsInv' /\ InformsInv'
    BY <1>1, <1>3 DEF ExplainsInv, InformsInv
  <1>8. NearInv'
    BY <1>1, <1>4 DEF TiersInv, NearInv
  <1>9. ModelInv'
    BY <1>4 DEF TiersInv, ModelInv
  <1>10. CheckedInv'
    BY <1>1, <1>4 DEF TiersInv, CheckedInv, Complete, Tiers!IsQuery
  <1>11. RunsInv'
    BY <1>1, <1>3 DEF RunsInv
  <1>12. QED
    BY <1>5, <1>6, <1>7, <1>8, <1>9, <1>10, <1>11 DEF TiersInv

\* The guardrail of questions.
LEMMA TiersGuardrail == ASSUME TiersInv, Tiers!Guardrail PROVE TiersInv'
  <1>1. /\ stage = "guard" /\ stage' = "tools" /\ text' = text /\ candidate' = candidate
        /\ near' = near /\ calls' = calls /\ result' = result /\ checked' = checked
    BY DEF Tiers!Guardrail, Tiers!Goes
  <1>2. \/ Tiers!Guarded /\ parsed' = candidate /\ source' = "guard"
        \/ ~Tiers!Guarded /\ parsed' = parsed /\ source' = source
    BY DEF Tiers!Guardrail, Tiers!Claims
  <1>3. calls = 0 /\ result = "none" /\ ~text.explains
    BY <1>1 DEF TiersInv, TiersOrder, ExplainsInv, TiersTypes
  <1>4. Sound(candidate) /\ candidate # Absent
    BY SoundIsSome DEF TiersInv, TiersTypes
  <1>5. TiersTypes'
    <2>1. Tiers!Steps
      BY DEF Tiers!Steps
    <2>2. near' \in BOOLEAN
      BY <1>1 DEF TiersInv, TiersTypes
    <2>3. calls' \in {0, 1}
      BY <1>1 DEF TiersInv, TiersTypes
    <2>4. stage' \in {"parse", "fast", "switch", "semantic", "keyword", "guard", "tools", "tie",
                      "structured", "keep", "slots", "assess", "done"}
      BY <1>1
    <2>5. result' \in {"none", "sum", "tools", "ask", "answer", "run"}
      BY <1>1 DEF TiersInv, TiersTypes
    <2>6. Sound(candidate') /\ (parsed' = Absent \/ Sound(parsed'))
      BY <1>1, <1>2, <1>4 DEF TiersInv, TiersTypes
    <2>7. QED
      BY <2>1, <2>2, <2>3, <2>4, <2>5, <2>6, TypesStay
  <1>6. TiersOrder'
    BY <1>1, <1>3 DEF TiersOrder
  <1>7. ExplainsInv'
    BY <1>1, <1>3 DEF ExplainsInv
  <1>8. InformsInv'
    BY <1>1, <1>2 DEF InformsInv, Tiers!Guarded, Tiers!IsQuery, Tiers!IsSearch
  <1>9. NearInv'
    BY <1>1, <1>2, <1>4 DEF TiersInv, NearInv
  <1>10. ModelInv'
    BY <1>2 DEF TiersInv, ModelInv
  <1>11. CheckedInv'
    BY <1>1, <1>2 DEF TiersInv, CheckedInv, Complete, Tiers!IsQuery, Tiers!Guarded
  <1>12. RunsInv'
    BY <1>1, <1>3 DEF RunsInv
  <1>13. QED
    BY <1>5, <1>6, <1>7, <1>8, <1>9, <1>10, <1>11, <1>12 DEF TiersInv

\* The tool calls of the model.
LEMMA TiersTools == ASSUME TiersInv, Tiers!Tools PROVE TiersInv'
  <1>1. /\ stage = "tools" /\ text' = text /\ candidate' = candidate /\ parsed' = parsed /\ source' = source
        /\ near' = near /\ checked' = checked
    BY DEF Tiers!Tools
  <1>2. \/ stage' = "done" /\ result' = "tools"
        \/ stage' = "tie" /\ result' = result
    BY DEF Tiers!Tools, Tiers!Ends, Tiers!Goes
  <1>3. calls = 0 /\ result = "none" /\ ~text.explains
    BY <1>1 DEF TiersInv, TiersOrder, ExplainsInv, TiersTypes
  <1>4. calls' \in {0, 1}
    <2>1. calls' = calls \/ calls' = calls + 1
      BY DEF Tiers!Tools
    <2>2. calls = 0
      BY <1>3
    <2>3. QED
      BY <2>1, <2>2
  <1>5. TiersTypes'
    <2>1. Tiers!Steps
      BY DEF Tiers!Steps
    <2>2. near' \in BOOLEAN
      BY <1>1 DEF TiersInv, TiersTypes
    <2>3. calls' \in {0, 1}
      BY <1>4
    <2>4. stage' \in {"parse", "fast", "switch", "semantic", "keyword", "guard", "tools", "tie",
                      "structured", "keep", "slots", "assess", "done"}
      BY <1>2
    <2>5. result' \in {"none", "sum", "tools", "ask", "answer", "run"}
      BY <1>2 DEF TiersInv, TiersTypes
    <2>6. Sound(candidate') /\ (parsed' = Absent \/ Sound(parsed'))
      BY <1>1 DEF TiersInv, TiersTypes
    <2>7. QED
      BY <2>1, <2>2, <2>3, <2>4, <2>5, <2>6, TypesStay
  <1>6. TiersOrder'
    BY <1>2, <1>3 DEF TiersOrder
  <1>7. ExplainsInv'
    BY <1>1, <1>3 DEF ExplainsInv
  <1>8. InformsInv'
    BY <1>1 DEF TiersInv, InformsInv, Tiers!IsQuery, Tiers!IsSearch
  <1>9. NearInv'
    BY <1>1, <1>2 DEF TiersInv, NearInv
  <1>10. ModelInv'
    BY <1>1 DEF TiersInv, ModelInv
  <1>11. CheckedInv'
    BY <1>1 DEF TiersInv, CheckedInv, Complete, Tiers!IsQuery
  <1>12. RunsInv'
    BY <1>2, <1>3 DEF RunsInv
  <1>13. QED
    BY <1>5, <1>6, <1>7, <1>8, <1>9, <1>10, <1>11, <1>12 DEF TiersInv

\* Two close meanings.
LEMMA TiersTie == ASSUME TiersInv, Tiers!Tie PROVE TiersInv'
  <1>1. /\ stage = "tie" /\ text' = text /\ candidate' = candidate /\ parsed' = parsed /\ source' = source
        /\ near' = near /\ checked' = checked /\ calls' = calls
    BY DEF Tiers!Tie
  <1>2. \/ stage' = "done" /\ result' = "ask"
        \/ ~(parsed = Absent /\ near) /\ stage' = "structured" /\ result' = result
    BY DEF Tiers!Tie, Tiers!Ends, Tiers!Goes
  <1>3. result = "none" /\ ~text.explains
    BY <1>1 DEF TiersInv, TiersOrder, ExplainsInv, TiersTypes
  <1>4. TiersTypes'
    <2>1. Tiers!Steps
      BY DEF Tiers!Steps
    <2>2. near' \in BOOLEAN
      BY <1>1 DEF TiersInv, TiersTypes
    <2>3. calls' \in {0, 1}
      BY <1>1 DEF TiersInv, TiersTypes
    <2>4. stage' \in {"parse", "fast", "switch", "semantic", "keyword", "guard", "tools", "tie",
                      "structured", "keep", "slots", "assess", "done"}
      BY <1>2
    <2>5. result' \in {"none", "sum", "tools", "ask", "answer", "run"}
      BY <1>2 DEF TiersInv, TiersTypes
    <2>6. Sound(candidate') /\ (parsed' = Absent \/ Sound(parsed'))
      BY <1>1 DEF TiersInv, TiersTypes
    <2>7. QED
      BY <2>1, <2>2, <2>3, <2>4, <2>5, <2>6, TypesStay
  <1>5. TiersOrder'
    BY <1>2, <1>3 DEF TiersOrder
  <1>6. ExplainsInv'
    BY <1>1, <1>3 DEF ExplainsInv
  <1>7. InformsInv'
    BY <1>1 DEF TiersInv, InformsInv, Tiers!IsQuery, Tiers!IsSearch
  <1>8. NearInv'
    BY <1>1, <1>2 DEF TiersInv, NearInv
  <1>9. ModelInv'
    BY <1>1 DEF TiersInv, ModelInv
  <1>10. CheckedInv'
    BY <1>1 DEF TiersInv, CheckedInv, Complete, Tiers!IsQuery
  <1>11. RunsInv'
    BY <1>2, <1>3 DEF RunsInv
  <1>12. QED
    BY <1>4, <1>5, <1>6, <1>7, <1>8, <1>9, <1>10, <1>11 DEF TiersInv

\* The structured answer of the model.
LEMMA TiersStructured == ASSUME TiersInv, Tiers!StructuredTier PROVE TiersInv'
  <1>1. /\ stage = "structured" /\ stage' = "keep" /\ text' = text /\ candidate' = candidate
        /\ near' = near /\ result' = result /\ checked' = checked
    BY DEF Tiers!StructuredTier, Tiers!Goes
  <1>2. \/ /\ parsed = Absent /\ source' = "model" /\ ~text.informs
           /\ \E r \in MCReadings : parsed' = r /\ Tiers!Risk(r) = "low" /\ Tiers!Required(r) \subseteq r.given
        \/ parsed' = parsed /\ source' = source
    BY DEF Tiers!StructuredTier, Tiers!Claims, Tiers!Verified, Tiers!Uncertain
  <1>3. result = "none" /\ ~text.explains
    BY <1>1 DEF TiersInv, TiersOrder, ExplainsInv, TiersTypes
  <1>4. calls' \in {0, 1}
    <2>1. calls' = calls \/ (~(calls > 0) /\ calls' = calls + 1)
      BY DEF Tiers!StructuredTier, Tiers!Asked
    <2>2. calls \in {0, 1}
      BY DEF TiersInv, TiersTypes
    <2>3. QED
      BY <2>1, <2>2
  <1>5. \/ parsed' = parsed /\ source' = source
        \/ /\ parsed = Absent /\ source' = "model" /\ ~text.informs /\ Sound(parsed') /\ parsed' # Absent
           /\ Tiers!Risk(parsed') = "low" /\ Tiers!Required(parsed') \subseteq parsed'.given
    BY <1>2, ReadingsAre, SoundIsSome
  <1>6. TiersTypes'
    <2>1. Tiers!Steps
      BY DEF Tiers!Steps
    <2>2. near' \in BOOLEAN
      BY <1>1 DEF TiersInv, TiersTypes
    <2>3. calls' \in {0, 1}
      BY <1>4
    <2>4. stage' \in {"parse", "fast", "switch", "semantic", "keyword", "guard", "tools", "tie",
                      "structured", "keep", "slots", "assess", "done"}
      BY <1>1
    <2>5. result' \in {"none", "sum", "tools", "ask", "answer", "run"}
      BY <1>1 DEF TiersInv, TiersTypes
    <2>6. Sound(candidate') /\ (parsed' = Absent \/ Sound(parsed'))
      BY <1>1, <1>5 DEF TiersInv, TiersTypes
    <2>7. QED
      BY <2>1, <2>2, <2>3, <2>4, <2>5, <2>6, TypesStay
  <1>7. TiersOrder'
    BY <1>1, <1>3 DEF TiersOrder
  <1>8. ExplainsInv'
    BY <1>1, <1>3 DEF ExplainsInv
  <1>9. InformsInv'
    BY <1>1, <1>5 DEF TiersInv, InformsInv, Tiers!IsQuery, Tiers!IsSearch
  <1>10. NearInv'
    BY <1>1, <1>5 DEF TiersInv, NearInv
  <1>11. ModelInv'
    <2>1. CASE parsed' = parsed /\ source' = source
      BY <2>1 DEF TiersInv, ModelInv
    <2>2. CASE parsed' # Absent /\ Tiers!Risk(parsed') = "low" /\ Tiers!Required(parsed') \subseteq parsed'.given
      BY <2>2 DEF ModelInv, Tiers!Risk, Tiers!Required
    <2>3. QED
      BY <1>5, <2>1, <2>2
  <1>12. CheckedInv'
    BY <1>1, <1>5 DEF TiersInv, CheckedInv, Complete, Tiers!IsQuery
  <1>13. RunsInv'
    BY <1>1, <1>3 DEF RunsInv
  <1>14. QED
    BY <1>6, <1>7, <1>8, <1>9, <1>10, <1>11, <1>12, <1>13 DEF TiersInv

\* What is kept of it.
LEMMA TiersKeep == ASSUME TiersInv, Tiers!Keep PROVE TiersInv'
  <1>1. /\ stage = "keep" /\ stage' = "slots" /\ text' = text /\ candidate' = candidate
        /\ near' = near /\ calls' = calls /\ result' = result /\ checked' = checked
    BY DEF Tiers!Keep, Tiers!Goes
  <1>2. \/ parsed = Absent /\ parsed' = candidate /\ source' = "parser"
        \/ parsed # Absent /\ parsed' = parsed /\ source' = source
    BY DEF Tiers!Keep, Tiers!Claims
  <1>3. result = "none" /\ (text.explains => Tiers!IsQuery(candidate))
    BY <1>1 DEF TiersInv, TiersOrder, ExplainsInv, TiersTypes
  <1>4. Sound(candidate) /\ candidate # Absent
    BY SoundIsSome DEF TiersInv, TiersTypes
  <1>5. TiersTypes'
    <2>1. Tiers!Steps
      BY DEF Tiers!Steps
    <2>2. near' \in BOOLEAN
      BY <1>1 DEF TiersInv, TiersTypes
    <2>3. calls' \in {0, 1}
      BY <1>1 DEF TiersInv, TiersTypes
    <2>4. stage' \in {"parse", "fast", "switch", "semantic", "keyword", "guard", "tools", "tie",
                      "structured", "keep", "slots", "assess", "done"}
      BY <1>1
    <2>5. result' \in {"none", "sum", "tools", "ask", "answer", "run"}
      BY <1>1 DEF TiersInv, TiersTypes
    <2>6. Sound(candidate') /\ (parsed' = Absent \/ Sound(parsed'))
      BY <1>1, <1>2, <1>4 DEF TiersInv, TiersTypes
    <2>7. QED
      BY <2>1, <2>2, <2>3, <2>4, <2>5, <2>6, TypesStay
  <1>6. TiersOrder'
    BY <1>1, <1>2, <1>3, <1>4 DEF TiersOrder
  <1>7. ExplainsInv'
    BY <1>1, <1>2, <1>3 DEF TiersInv, ExplainsInv, Tiers!IsQuery
  <1>8. InformsInv'
    BY <1>1, <1>2 DEF TiersInv, InformsInv, Tiers!IsQuery, Tiers!IsSearch
  <1>9. NearInv'
    BY <1>1, <1>2, <1>4 DEF TiersInv, NearInv
  <1>10. ModelInv'
    BY <1>2 DEF TiersInv, ModelInv
  <1>11. CheckedInv'
    BY <1>1, <1>2 DEF TiersInv, CheckedInv, Complete, Tiers!IsQuery
  <1>12. RunsInv'
    BY <1>1, <1>3 DEF RunsInv
  <1>13. QED
    BY <1>5, <1>6, <1>7, <1>8, <1>9, <1>10, <1>11, <1>12 DEF TiersInv

\* The arguments that are extracted.
LEMMA TiersEnrich == ASSUME TiersInv, Tiers!Enrich PROVE TiersInv'
  <1>1. /\ stage = "slots" /\ text' = text /\ candidate' = candidate /\ source' = source
        /\ near' = near /\ calls' = calls /\ checked' = checked
    BY DEF Tiers!Enrich
  <1>2. \/ stage' = "done" /\ result' = "ask"
        \/ stage' = "assess" /\ result' = result
    BY DEF Tiers!Enrich, Tiers!Ends, Tiers!Goes
  <1>3. \/ parsed' = parsed
        \/ ~Tiers!IsQuery(parsed) /\ Tiers!Missing(parsed) # {} /\ parsed' \in Tiers!Extracted(parsed)
    BY DEF Tiers!Enrich
  <1>4. result = "none" /\ parsed # Absent /\ Sound(parsed)
    BY <1>1 DEF TiersInv, TiersOrder, TiersTypes
  <1>5. /\ parsed' # Absent /\ Sound(parsed') /\ (Complete(parsed) => Complete(parsed'))
        /\ (Tiers!IsSearch(parsed') <=> Tiers!IsSearch(parsed)) /\ (Tiers!IsQuery(parsed') <=> Tiers!IsQuery(parsed))
        /\ Tiers!Risk(parsed') = Tiers!Risk(parsed)
        /\ Tiers!Required(parsed) \subseteq parsed.given => Tiers!Required(parsed') \subseteq parsed'.given
    <2>1. CASE parsed' = parsed
      BY <1>4, <2>1
    <2>2. CASE Tiers!Missing(parsed) # {} /\ parsed' \in Tiers!Extracted(parsed)
      <3>1. PICK x : x = parsed'
        OBVIOUS
      <3>2. /\ Sound(x) /\ Complete(x) /\ parsed.given \subseteq x.given
            /\ Tiers!Risk(x) = Tiers!Risk(parsed) /\ Tiers!Required(x) = Tiers!Required(parsed)
            /\ (Tiers!IsSearch(x) <=> Tiers!IsSearch(parsed)) /\ (Tiers!IsQuery(x) <=> Tiers!IsQuery(parsed))
        BY <1>4, <2>2, <3>1, ExtractedIs
      <3>3. x # Absent
        BY <3>2, SoundIsSome
      <3>4. Tiers!Required(parsed) \subseteq parsed.given => Tiers!Required(x) \subseteq x.given
        BY <3>2
      <3>5. QED
        BY <3>1, <3>2, <3>3, <3>4, Zenon
    <2>3. QED
      BY <1>3, <2>1, <2>2
  <1>6. TiersTypes'
    <2>1. Tiers!Steps
      BY DEF Tiers!Steps
    <2>2. near' \in BOOLEAN
      BY <1>1 DEF TiersInv, TiersTypes
    <2>3. calls' \in {0, 1}
      BY <1>1 DEF TiersInv, TiersTypes
    <2>4. stage' \in {"parse", "fast", "switch", "semantic", "keyword", "guard", "tools", "tie",
                      "structured", "keep", "slots", "assess", "done"}
      BY <1>2
    <2>5. result' \in {"none", "sum", "tools", "ask", "answer", "run"}
      BY <1>2 DEF TiersInv, TiersTypes
    <2>6. Sound(candidate') /\ (parsed' = Absent \/ Sound(parsed'))
      BY <1>1, <1>5 DEF TiersInv, TiersTypes
    <2>7. QED
      BY <2>1, <2>2, <2>3, <2>4, <2>5, <2>6, TypesStay
  <1>7. TiersOrder'
    BY <1>2, <1>4, <1>5 DEF TiersOrder
  <1>8. ExplainsInv'
    BY <1>1, <1>2, <1>4, <1>5 DEF TiersInv, ExplainsInv, Tiers!IsQuery
  <1>9. InformsInv'
    BY <1>1, <1>4, <1>5 DEF TiersInv, InformsInv, Tiers!IsQuery, Tiers!IsSearch
  <1>10. NearInv'
    BY <1>1, <1>2, <1>4, <1>5 DEF TiersInv, NearInv
  <1>11. ModelInv'
    <2>1. ASSUME source' = "model"
          PROVE  Tiers!Risk(parsed') = "low" /\ Tiers!Required(parsed') \subseteq parsed'.given
      BY <1>1, <1>5, <2>1 DEF TiersInv, ModelInv
    <2>2. QED
      BY <1>5, <2>1 DEF ModelInv, Tiers!Risk, Tiers!Required
  <1>12. CheckedInv'
    <2>1. (checked' # Absent) => parsed' # Absent /\ ~Tiers!IsQuery(candidate) /\ (checked'.asks \/ Complete(parsed'))
      BY <1>1, <1>5 DEF TiersInv, CheckedInv
    <2>2. QED
      BY <1>1, <2>1 DEF CheckedInv, Complete, Tiers!IsQuery, Tiers!Required
  <1>13. RunsInv'
    BY <1>2, <1>4 DEF RunsInv
  <1>14. QED
    BY <1>6, <1>7, <1>8, <1>9, <1>10, <1>11, <1>12, <1>13 DEF TiersInv

\* The decision.
LEMMA TiersDecide == ASSUME TiersInv, Tiers!Decide PROVE TiersInv'
  <1>1. /\ stage = "assess" /\ stage' = "done" /\ text' = text /\ candidate' = candidate /\ parsed' = parsed
        /\ source' = source /\ near' = near /\ calls' = calls /\ checked' = checked
    BY DEF Tiers!Decide, Tiers!Ends
  <1>2. parsed # Absent /\ Sound(parsed)
    BY <1>1 DEF TiersInv, TiersOrder, TiersTypes
  <1>3. PICK fs \in BOOLEAN :
          LET a == IF checked # Absent THEN checked ELSE Tiers!Assess(text, parsed, fs) IN
          result' = IF a.asks THEN "ask" ELSE IF Tiers!IsQuery(parsed) THEN "answer" ELSE "run"
    BY DEF Tiers!Decide, Tiers!Ends
  <1>4. PICK a : a = IF checked # Absent THEN checked ELSE Tiers!Assess(text, parsed, fs)
    OBVIOUS
  <1>5. result' = IF a.asks THEN "ask" ELSE IF Tiers!IsQuery(parsed) THEN "answer" ELSE "run"
    BY <1>3, <1>4, Zenon
  <1>6. result' \in {"ask", "answer", "run"} /\ (result' = "run" => ~a.asks /\ ~Tiers!IsQuery(parsed))
    BY <1>5
  <1>7. result' = "run" => Complete(parsed)
    <2>1. CASE checked # Absent
      BY <1>4, <1>6, <2>1 DEF TiersInv, CheckedInv
    <2>2. CASE checked = Absent
      BY <1>2, <1>4, <1>6, <2>2, SureIsComplete
    <2>3. QED
      BY <2>1, <2>2
  <1>8. TiersTypes'
    <2>1. Tiers!Steps
      BY DEF Tiers!Steps
    <2>2. near' \in BOOLEAN
      BY <1>1 DEF TiersInv, TiersTypes
    <2>3. calls' \in {0, 1}
      BY <1>1 DEF TiersInv, TiersTypes
    <2>4. stage' \in {"parse", "fast", "switch", "semantic", "keyword", "guard", "tools", "tie",
                      "structured", "keep", "slots", "assess", "done"}
      BY <1>1
    <2>5. result' \in {"none", "sum", "tools", "ask", "answer", "run"}
      BY <1>6
    <2>6. Sound(candidate') /\ (parsed' = Absent \/ Sound(parsed'))
      BY <1>1 DEF TiersInv, TiersTypes
    <2>7. QED
      BY <2>1, <2>2, <2>3, <2>4, <2>5, <2>6, TypesStay
  <1>9. TiersOrder'
    BY <1>1 DEF TiersOrder
  <1>10. ExplainsInv'
    BY <1>1, <1>2, <1>6 DEF TiersInv, ExplainsInv, Tiers!IsQuery
  <1>11. InformsInv'
    BY <1>1 DEF TiersInv, InformsInv, Tiers!IsQuery, Tiers!IsSearch
  <1>12. NearInv'
    BY <1>1, <1>2 DEF TiersInv, NearInv
  <1>13. ModelInv'
    BY <1>1 DEF TiersInv, ModelInv
  <1>14. CheckedInv'
    BY <1>1 DEF TiersInv, CheckedInv, Complete, Tiers!IsQuery
  <1>15. RunsInv'
    BY <1>1, <1>2, <1>7 DEF RunsInv, Complete
  <1>16. QED
    BY <1>8, <1>9, <1>10, <1>11, <1>12, <1>13, <1>14, <1>15 DEF TiersInv

\* Every tier keeps it.
LEMMA TiersSteps == TiersInv /\ [Tiers!Next]_Tiers!unVars => TiersInv'
  <1> SUFFICES ASSUME TiersInv, [Tiers!Next]_Tiers!unVars PROVE TiersInv'
    OBVIOUS
  <1>1. CASE UNCHANGED Tiers!unVars
    BY <1>1 DEF Tiers!unVars, TiersInv, TiersTypes, TiersOrder, ExplainsInv, InformsInv, NearInv, ModelInv,
                CheckedInv, RunsInv, Sound, Complete, Tiers!IsQuery, Tiers!IsSearch
  <1>2. CASE Tiers!Steps
    BY <1>2, TiersParse, TiersFastPath, TiersSwitch, TiersSemantic, TiersKeyword, TiersGuardrail,
       TiersTools,
       TiersTie, TiersStructured, TiersKeep, TiersEnrich, TiersDecide DEF Tiers!Steps
  <1>3. CASE Tiers!Load \/ Tiers!ShiftTier
    BY <1>3, TiersWorld
  <1>4. QED
    BY <1>1, <1>2, <1>3 DEF Tiers!Next

-----------------------------------------------------------------------------
(* The parser.                                                             *)

\* The leading words.
LeadWords == {Parser!Polite, Parser!Not}

\* What is left of the words w without courtesies that open them.
Left(w, d) == SubSeq(w, d + 1, Len(w))
Polites(w) == {d \in 0 .. Len(w) : \A k \in 1 .. d : w[k] = Parser!Polite}
Tails(w)   == {Left(w, d) : d \in Polites(w)}
Bare(l)    == Parser!Run(l) = {}
Said(l)    == {l[k] : k \in DOMAIN l}

\* The words that are left are words, one by one.
LEMMA LeftIs ==
  ASSUME NEW w \in Seq(LeadWords), NEW d \in 0 .. Len(w)
  PROVE  /\ Left(w, d) \in Seq(LeadWords) /\ Len(Left(w, d)) = Len(w) - d /\ Len(w) - d \in Nat
         /\ DOMAIN Left(w, d) = 1 .. Len(w) - d
         /\ \A k \in 1 .. Len(w) - d : Left(w, d)[k] = w[d + k]
  <1>1. Len(w) \in Nat /\ DOMAIN w = 1 .. Len(w) /\ \A k \in 1 .. Len(w) : w[k] \in LeadWords
    BY LenProperties
  <1>2. d + 1 \in Int /\ Len(w) \in Int /\ \A k \in d + 1 .. Len(w) : w[k] \in LeadWords
    BY <1>1
  <1>3. /\ Left(w, d) \in Seq(LeadWords)
        /\ Len(Left(w, d)) = IF d + 1 <= Len(w) THEN Len(w) - (d + 1) + 1 ELSE 0
        /\ \A k \in 1 .. Len(w) - (d + 1) + 1 : Left(w, d)[k] = w[d + 1 + k - 1]
    BY <1>2, SubSeqProperties DEF Left
  <1>4. Len(Left(w, d)) = Len(w) - d /\ Len(w) - d \in Nat
    <2>1. PICK u, v : u \in Nat /\ u = Len(w) /\ v = Len(Left(w, d))
      BY <1>1
    <2>2. d \in 0 .. u /\ v = IF d + 1 <= u THEN u - (d + 1) + 1 ELSE 0
      BY <1>3, <2>1
    <2>3. v = u - d /\ u - d \in Nat
      BY <2>1, <2>2
    <2>4. QED
      BY <2>1, <2>3
  <1>5. DOMAIN Left(w, d) = 1 .. Len(w) - d
    BY <1>3, <1>4, LenProperties
  <1>6. \A k \in 1 .. Len(w) - d : Left(w, d)[k] = w[d + k]
    <2> TAKE k \in 1 .. Len(w) - d
    <2>1. k \in 1 .. Len(w) - (d + 1) + 1 /\ d + 1 + k - 1 = d + k
      BY <1>1
    <2>2. QED
      BY <1>3, <2>1
  <1>7. QED
    BY <1>3, <1>4, <1>5, <1>6

\* A nested call drops more of the same courtesies.
LEMMA DropsOn ==
  ASSUME NEW w \in Seq(LeadWords), NEW l \in Tails(w), NEW n \in Parser!Run(l)
  PROVE  Parser!Drop(l, n) \in Tails(w)
  <1>1. PICK d \in Polites(w) : l = Left(w, d)
    BY DEF Tails
  <1>2. d \in 0 .. Len(w) /\ Len(w) \in Nat /\ \A k \in 1 .. d : w[k] = Parser!Polite
    BY LenProperties DEF Polites
  <1>3. /\ Len(l) = Len(w) - d /\ DOMAIN l = 1 .. Len(w) - d /\ l \in Seq(LeadWords)
        /\ \A k \in 1 .. Len(w) - d : l[k] = w[d + k]
    BY <1>1, <1>2, LeftIs
  <1>4. n \in 1 .. Len(w) - d /\ \A k \in 1 .. n : l[k] = Parser!Polite
    BY <1>3 DEF Parser!Run
  <1>5. n \in 0 .. Len(l) /\ d + n \in 0 .. Len(w)
    BY <1>2, <1>3, <1>4
  <1>6. Parser!Drop(l, n) = Left(l, n)
    BY DEF Parser!Drop, Left
  <1>7. /\ Left(l, n) \in Seq(LeadWords) /\ Len(Left(l, n)) = Len(l) - n
        /\ \A k \in 1 .. Len(l) - n : Left(l, n)[k] = l[n + k]
    BY <1>3, <1>5, LeftIs
  <1>8. /\ Left(w, d + n) \in Seq(LeadWords) /\ Len(Left(w, d + n)) = Len(w) - (d + n)
        /\ \A k \in 1 .. Len(w) - (d + n) : Left(w, d + n)[k] = w[d + n + k]
    BY <1>5, LeftIs
  <1>9. Left(l, n) = Left(w, d + n)
    <2>1. Len(Left(l, n)) = Len(Left(w, d + n))
      BY <1>2, <1>3, <1>4, <1>7, <1>8
    <2>2. ASSUME NEW k \in 1 .. Len(Left(l, n)) PROVE Left(l, n)[k] = Left(w, d + n)[k]
      <3>1. /\ k \in 1 .. Len(l) - n
            /\ n + k \in 1 .. Len(w) - d
            /\ k \in 1 .. Len(w) - (d + n)
            /\ d + (n + k) = d + n + k
        BY <1>2, <1>3, <1>4, <1>7
      <3>2. QED
        BY <1>3, <1>7, <1>8, <3>1
    <2>3. QED
      BY <1>7, <1>8, <2>1, <2>2, SeqEqual
  <1>10. d + n \in Polites(w)
    <2>1. ASSUME NEW k \in 1 .. d + n PROVE w[k] = Parser!Polite
      <3>1. CASE k <= d
        <4>1. k \in 1 .. d
          BY <1>2, <3>1
        <4>2. QED
          BY <1>2, <4>1
      <3>2. CASE ~(k <= d)
        <4>1. k - d \in 1 .. n /\ k - d \in 1 .. Len(w) - d /\ d + (k - d) = k
          BY <1>2, <1>4, <3>2
        <4>2. QED
          BY <1>3, <1>4, <4>1
      <3>3. QED
        BY <3>1, <3>2
    <2>2. QED
      BY <1>5, <2>1 DEF Polites
  <1>11. QED
    BY <1>6, <1>9, <1>10 DEF Tails

\* The words w themselves.
LEMMA AllLeft == ASSUME NEW w \in Seq(LeadWords) PROVE w \in Tails(w)
  <1>1. Len(w) \in Nat /\ 0 \in 0 .. Len(w) /\ Len(w) - 0 = Len(w)
    BY LenProperties
  <1>2. Left(w, 0) \in Seq(LeadWords) /\ Len(Left(w, 0)) = Len(w) /\ \A k \in 1 .. Len(w) : Left(w, 0)[k] = w[0 + k]
    BY <1>1, LeftIs
  <1>3. \A k \in 1 .. Len(w) : Left(w, 0)[k] = w[k]
    <2> TAKE k \in 1 .. Len(w)
    <2>1. 0 + k = k
      OBVIOUS
    <2>2. QED
      BY <1>2, <2>1
  <1>4. Left(w, 0) = w
    BY <1>2, <1>3, SeqEqual
  <1>5. 0 \in Polites(w)
    BY <1>1 DEF Polites
  <1>6. QED
    BY <1>4, <1>5 DEF Tails

\* What opens with no courtesy is empty or opens with a negation.
LEMMA BareIs ==
  ASSUME NEW l \in Seq(LeadWords)
  PROVE  /\ Len(l) \in Nat /\ DOMAIN l = 1 .. Len(l) /\ (l = <<>> <=> Len(l) = 0)
         /\ Bare(l) <=> Len(l) = 0 \/ l[1] # Parser!Polite
  <1>1. Len(l) \in Nat /\ DOMAIN l = 1 .. Len(l) /\ (l = <<>> <=> Len(l) = 0)
    BY LenProperties, EmptySeq
  <1>2. ASSUME Len(l) # 0, l[1] = Parser!Polite PROVE ~Bare(l)
    <2>1. 1 \in 1 .. Len(l) /\ \A k \in 1 .. 1 : k = 1
      BY <1>1, <1>2
    <2>2. 1 \in Parser!Run(l)
      BY <1>2, <2>1 DEF Parser!Run
    <2>3. QED
      BY <2>2 DEF Bare
  <1>3. ASSUME NEW n \in Parser!Run(l) PROVE Len(l) # 0 /\ l[1] = Parser!Polite
    <2>1. n \in 1 .. Len(l) /\ \A k \in 1 .. n : l[k] = Parser!Polite
      BY DEF Parser!Run
    <2>2. 1 \in 1 .. n /\ Len(l) # 0
      BY <1>1, <2>1
    <2>3. QED
      BY <2>1, <2>2
  <1>4. QED
    BY <1>1, <1>2, <1>3 DEF Bare

\* The call that finds nothing to strip reads what all the others read, and less.
LEMMA BareIsLast ==
  ASSUME NEW w \in Seq(LeadWords), NEW l \in Tails(w), NEW c \in Tails(w), Bare(c)
  PROVE  /\ l \in Seq(LeadWords) /\ c \in Seq(LeadWords)
         /\ Said(c) \subseteq Said(l) /\ Said(l) \subseteq Said(w)
         /\ Bare(l) => l = c
         /\ Parser!Not \in Said(w) => Parser!Not \in Said(c)
  <1>1. PICK d \in Polites(w), e \in Polites(w) : l = Left(w, d) /\ c = Left(w, e)
    BY DEF Tails
  <1>2. /\ d \in 0 .. Len(w) /\ e \in 0 .. Len(w) /\ Len(w) \in Nat
        /\ \A k \in 1 .. d : w[k] = Parser!Polite
        /\ \A k \in 1 .. e : w[k] = Parser!Polite
    BY LenProperties DEF Polites
  <1>3. /\ Len(l) = Len(w) - d /\ DOMAIN l = 1 .. Len(w) - d /\ l \in Seq(LeadWords)
        /\ \A k \in 1 .. Len(w) - d : l[k] = w[d + k]
    BY <1>1, <1>2, LeftIs
  <1>4. /\ Len(c) = Len(w) - e /\ DOMAIN c = 1 .. Len(w) - e /\ c \in Seq(LeadWords)
        /\ \A k \in 1 .. Len(w) - e : c[k] = w[e + k]
    BY <1>1, <1>2, LeftIs
  <1>5. d <= e
    <2>1. ASSUME e < d PROVE FALSE
      <3>1. e + 1 \in 1 .. d /\ 1 \in 1 .. Len(w) - e /\ Len(c) # 0
        BY <1>2, <1>4, <2>1
      <3>2. c[1] = Parser!Polite
        BY <1>2, <1>4, <3>1
      <3>3. QED
        BY <1>4, <3>1, <3>2, BareIs
    <2>2. QED
      BY <1>2, <2>1
  <1>6. DOMAIN w = 1 .. Len(w)
    BY LenProperties
  <1>7. Said(l) \subseteq Said(w)
    <2>1. ASSUME NEW k \in DOMAIN l PROVE l[k] \in Said(w)
      <3>1. k \in 1 .. Len(w) - d /\ d + k \in 1 .. Len(w)
        BY <1>2, <1>3
      <3>2. QED
        BY <1>3, <1>6, <3>1 DEF Said
    <2>2. QED
      BY <2>1 DEF Said
  <1>8. Said(c) \subseteq Said(l)
    <2>1. ASSUME NEW k \in DOMAIN c PROVE c[k] \in Said(l)
      <3>1. k \in 1 .. Len(w) - e /\ (e - d) + k \in 1 .. Len(w) - d /\ d + ((e - d) + k) = e + k
        BY <1>2, <1>4, <1>5
      <3>2. l[(e - d) + k] = c[k]
        BY <1>3, <1>4, <3>1
      <3>3. QED
        BY <1>3, <3>1, <3>2 DEF Said
    <2>2. QED
      BY <2>1 DEF Said
  <1>9. ASSUME Bare(l) PROVE l = c
    <2>1. ASSUME d < e PROVE FALSE
      <3>1. d + 1 \in 1 .. e /\ 1 \in 1 .. Len(w) - d /\ Len(l) # 0
        BY <1>2, <1>3, <2>1
      <3>2. l[1] = Parser!Polite
        BY <1>2, <1>3, <3>1
      <3>3. QED
        BY <1>3, <1>9, <3>1, <3>2, BareIs
    <2>2. d = e
      BY <1>2, <1>5, <2>1
    <2>3. QED
      BY <1>1, <2>2
  <1>10. ASSUME Parser!Not \in Said(w) PROVE Parser!Not \in Said(c)
    <2>1. PICK k \in 1 .. Len(w) : w[k] = Parser!Not
      BY <1>6, <1>10 DEF Said
    <2>2. Parser!Not # Parser!Polite
      BY DEF Parser!Not, Parser!Polite
    <2>3. k \notin 1 .. e
      BY <1>2, <2>1, <2>2
    <2>4. k - e \in 1 .. Len(w) - e /\ e + (k - e) = k
      BY <1>2, <2>3
    <2>5. QED
      BY <1>4, <2>1, <2>4 DEF Said
  <1>11. QED
    BY <1>3, <1>4, <1>7, <1>8, <1>9, <1>10

\* There is such a call.
LEMMA BareIsLeft ==
  ASSUME NEW w \in Seq(LeadWords)
  PROVE  \E c \in Tails(w) : Bare(c)
  <1>1. Len(w) \in Nat /\ 0 \in 0 .. Len(w) /\ DOMAIN w = 1 .. Len(w)
    BY LenProperties
  <1>2. 0 \in Polites(w)
    BY <1>1 DEF Polites
  <1>3. Polites(w) \in SUBSET (0 .. Len(w))
    BY DEF Polites
  <1>4. PICK d \in Polites(w) : \A e \in Polites(w) : e <= d
    BY <1>1, <1>2, <1>3, GreatestNumber
  <1>5. d \in 0 .. Len(w) /\ \A k \in 1 .. d : w[k] = Parser!Polite
    BY <1>4 DEF Polites
  <1>6. /\ Len(Left(w, d)) = Len(w) - d /\ Left(w, d) \in Seq(LeadWords)
        /\ \A k \in 1 .. Len(w) - d : Left(w, d)[k] = w[d + k]
    BY <1>5, LeftIs
  <1>7. Bare(Left(w, d))
    <2>1. ASSUME Len(Left(w, d)) # 0, Left(w, d)[1] = Parser!Polite PROVE FALSE
      <3>1. 1 \in 1 .. Len(w) - d /\ d + 1 \in 0 .. Len(w) /\ d + 1 > d
        <4>1. PICK n \in Nat : n = Len(w) /\ d \in 0 .. n /\ n - d # 0
          BY <1>1, <1>5, <1>6, <2>1
        <4>2. 1 \in 1 .. n - d /\ d + 1 \in 0 .. n /\ d + 1 > d
          BY <4>1
        <4>3. QED
          BY <4>1, <4>2
      <3>2. w[d + 1] = Parser!Polite
        BY <1>6, <2>1, <3>1
      <3>3. ASSUME NEW k \in 1 .. d + 1 PROVE w[k] = Parser!Polite
        <4>1. k \in 1 .. d \/ k = d + 1
          BY <1>5
        <4>2. QED
          BY <1>5, <3>2, <4>1
      <3>4. d + 1 \in Polites(w)
        BY <3>1, <3>3 DEF Polites
      <3>5. QED
        BY <1>4, <1>5, <3>1, <3>4
    <2>2. QED
      BY <1>6, <2>1, BareIs
  <1>8. QED
    BY <1>4, <1>7 DEF Tails

\* The actions that change a file.
FileActions == {"create_directory", "copy_item", "move_item", "rename_item", "delete_item",
                "delete_item_permanent", "move_item_followup", "rename_item_followup"}
Changing(c) ==
  \/ c[1] = "OS_FILE_NAVIGATION" /\ c[2] \in FileActions
  \/ c[1] = "OS_FILE_NAVIGATION_BATCH"

\* A matcher of such commands reads the text with its negation, from the first word on.
Heeds(row) == Changing(row.command) => row.reads = "raw" /\ row.skips = {}
Harmless(T) == \A row \in T : ~Changing(row.command)
Heedful(T) == \A row \in T : Heeds(row)

\* The commands of an intent.
LEMMA OfIs == \A i, A : \A c \in CP!Of(i, A) : c[1] = i /\ c[2] \in A /\ c = <<i, c[2]>>
  BY DEF CP!Of

\* The commands that change a file.
LEMMA FileChangesAre == \A c \in Parser!FileChanges : Changing(c)
  BY DEF Parser!FileChanges, Parser!Of, Changing, FileActions

\* The rows of a table.
LEMMA RowsAre == \A r, s, C : \A row \in CP!Rows(r, s, C) : row.reads = r /\ row.skips = s /\ row.command \in C
  BY DEF CP!Rows

\* Tables that read the whole text from its first word.
LEMMA RawHeeds == \A C : Heedful(CP!Rows("raw", CP!Anchored, C))
  BY RowsAre DEF Heedful, Heeds, CP!Anchored

\* Two tables.
LEMMA BothHeed == \A A, B : Heedful(A) /\ Heedful(B) => Heedful(A \cup B)
  BY DEF Heedful

\* The commands of other intents, and other commands of files.
LEMMA Innocent ==
  /\ \A i, A : i # "OS_FILE_NAVIGATION" /\ i # "OS_FILE_NAVIGATION_BATCH" => \A c \in CP!Of(i, A) : ~Changing(c)
  /\ \A A : A \cap FileActions = {} => \A c \in CP!Of("OS_FILE_NAVIGATION", A) : ~Changing(c)
  BY OfIs DEF Changing

\* The commands of the system.
LEMMA SystemIsInnocent == \A A : \A c \in CP!System(A) : ~Changing(c)
  BY Innocent DEF CP!System

\* Tables without changes of files.
LEMMA HarmlessRows == \A r, s, C : (\A c \in C : ~Changing(c)) => Heedful(CP!Rows(r, s, C))
  BY RowsAre DEF Heedful, Heeds

\* The table of structural phrases.
LEMMA StructuralHeeds == Heedful(CP!PriorityStructuralTable)
  <1>1. \A c \in CP!NotificationPhrases \cup CP!SoundPhrases \cup CP!RadioPhrases : ~Changing(c)
    BY SystemIsInnocent DEF CP!NotificationPhrases, CP!SoundPhrases, CP!RadioPhrases
  <1>2. \A c \in CP!ScreenPhrases : ~Changing(c)
    BY SystemIsInnocent, Innocent DEF CP!ScreenPhrases
  <1>3. QED
    BY <1>1, <1>2, HarmlessRows DEF CP!PriorityStructuralTable

\* The table of keywords.
LEMMA KeywordsHeed == Heedful(CP!KeywordTable)
  <1>1. \A c \in CP!VoiceWords : ~Changing(c)
    BY Innocent DEF CP!VoiceWords
  <1>2. \A c \in CP!ServiceWords : ~Changing(c)
    <2>1. \A c \in {"AUDIT_RESEAL", "AUDIT_VERIFY", "METRICS_REPORT"} \X {""} : ~Changing(c)
      BY DEF Changing
    <2>2. QED
      BY <2>1, Innocent DEF CP!ServiceWords
  <1>3. \A c \in CP!ClockWords \cup CP!OfficeWords : ~Changing(c)
    BY Innocent DEF CP!ClockWords, CP!OfficeWords
  <1>4. \A c \in CP!UndoWords : ~Changing(c)
    <2>1. {"list_drives", "open_in_explorer", "pwd"} \cap FileActions = {}
      BY DEF FileActions
    <2>2. QED
      BY <2>1, Innocent DEF CP!UndoWords
  <1>5. QED
    BY <1>1, <1>2, <1>3, <1>4, HarmlessRows DEF CP!KeywordTable

\* The table of the first patterns.
LEMMA PriorityHeeds == Heedful(CP!PriorityRegexTable)
  <1>1. Heedful(CP!LevelPatterns) /\ Heedful(CP!FirstFilePatterns)
    BY SystemIsInnocent, HarmlessRows, RawHeeds DEF CP!LevelPatterns, CP!FirstFilePatterns
  <1>2. Heedful(CP!PreferencePatterns)
    BY Innocent, HarmlessRows, RawHeeds, BothHeed DEF CP!PreferencePatterns
  <1>3. QED
    BY <1>1, <1>2, BothHeed DEF CP!PriorityRegexTable

\* The commands of mixed scripts.
LEMMA CodeswitchedHeeds == Heedful(CP!CodeswitchedCommand)
  <1>1. \A c \in CP!CodeswitchedOpenClose : ~Changing(c)
    <2>1. {"list_directory"} \cap FileActions = {}
      BY DEF FileActions
    <2>2. QED
      BY <2>1, SystemIsInnocent, Innocent DEF CP!CodeswitchedOpenClose
  <1>2. \A c \in CP!CodeswitchedSearch \cup CP!CodeswitchedLevels : ~Changing(c)
    <2>1. ~Changing(CP!LlmQuery)
      BY DEF Changing, CP!LlmQuery
    <2>2. QED
      BY <2>1, SystemIsInnocent, Innocent DEF CP!CodeswitchedSearch, CP!CodeswitchedLevels
  <1>3. QED
    BY <1>1, <1>2, HarmlessRows DEF CP!CodeswitchedCommand

\* The table of patterns.
LEMMA RegexHeeds == Heedful(CP!RegexTable)
  <1>1. Heedful(CP!VoicePatterns) /\ Heedful(CP!TuningPatterns)
    BY Innocent, HarmlessRows, RawHeeds, BothHeed DEF CP!VoicePatterns, CP!TuningPatterns
  <1>2. Heedful(CP!PowerPatterns) /\ Heedful(CP!ArabicPatterns)
    BY SystemIsInnocent, HarmlessRows DEF CP!PowerPatterns, CP!ArabicPatterns
  <1>3. Heedful(CP!TogglePatterns)
    BY SystemIsInnocent, Innocent, HarmlessRows DEF CP!TogglePatterns
  <1>4. Heedful(CP!AdminPatterns)
    BY Innocent, HarmlessRows, RawHeeds, BothHeed DEF CP!AdminPatterns
  <1>5. Heedful(CP!FilePatterns) /\ Heedful(CP!ExplorerPatterns) /\ Heedful(CP!TimerPatterns)
    BY RawHeeds DEF CP!FilePatterns, CP!ExplorerPatterns, CP!TimerPatterns
  <1>6. Heedful(CP!ReminderPatterns) /\ Heedful(CP!OfficePatterns) /\ Heedful(CP!OpenPatterns)
    BY RawHeeds DEF CP!ReminderPatterns, CP!OfficePatterns, CP!OpenPatterns
  <1>7. ASSUME NEW row \in CP!RegexTable PROVE Heeds(row)
    <2>1. \/ row \in CP!VoicePatterns \/ row \in CP!TuningPatterns \/ row \in CP!PowerPatterns
          \/ row \in CP!ArabicPatterns \/ row \in CP!TogglePatterns \/ row \in CP!AdminPatterns
          \/ row \in CP!FilePatterns \/ row \in CP!ExplorerPatterns \/ row \in CP!TimerPatterns
          \/ row \in CP!ReminderPatterns \/ row \in CP!OfficePatterns \/ row \in CP!OpenPatterns
      BY <1>7 DEF CP!RegexTable
    <2>2. QED
      BY <1>1, <1>2, <1>3, <1>4, <1>5, <1>6, <2>1 DEF Heedful
  <1>8. QED
    BY <1>7 DEF Heedful

\* The matchers of natural phrases.
LEMMA NaturalTables ==
  /\ Heedful(CP!NaturalSchedule) /\ Heedful(CP!NaturalFileSearch) /\ Heedful(CP!MediaOpen)
  /\ Heedful(CP!NaturalMediaControl) /\ Heedful(CP!NaturalBrowser) /\ Heedful(CP!NaturalWindow)
  /\ Heedful(CP!NaturalAppOpen) /\ Heedful(CP!CatalogRefresh) /\ Heedful(CP!DriveOpen)
  <1>1. /\ Heedful(CP!NaturalSchedule)
        /\ Heedful(CP!NaturalFileSearch)
        /\ Heedful(CP!MediaOpen)
        /\ Heedful(CP!NaturalWindow)
    BY RawHeeds DEF CP!NaturalSchedule, CP!NaturalFileSearch, CP!MediaOpen, CP!NaturalWindow
  <1>2. Heedful(CP!NaturalMediaControl) /\ Heedful(CP!NaturalBrowser) /\ Heedful(CP!CatalogRefresh)
    BY SystemIsInnocent, HarmlessRows, BothHeed
       DEF CP!NaturalMediaControl, CP!NaturalBrowser, CP!CatalogRefresh
  <1>3. Heedful(CP!NaturalAppOpen)
    BY Innocent, HarmlessRows DEF CP!NaturalAppOpen
  <1>4. Heedful(CP!DriveOpen)
    <2>1. {"list_directory"} \cap FileActions = {}
      BY DEF FileActions
    <2>2. QED
      BY <2>1, Innocent, HarmlessRows DEF CP!DriveOpen
  <1>5. QED
    BY <1>1, <1>2, <1>3, <1>4

\* The matchers of single phrases.
LEMMA PhraseTables ==
  /\ Heedful(CP!NoteCommand) /\ Heedful(CP!CommandChaining) /\ Heedful(CP!OpenCommand)
  /\ Heedful(CP!NaturalFileOperation) /\ Heedful(CP!BatchFileOperations) /\ Heedful(CP!SystemAction)
  /\ Heedful(CP!CloseCommand) /\ Heedful(CP!CdCommands) /\ Heedful(CP!ScreenDescribe)
  /\ Heedful(CP!IdentityQuestion)
  <1>1. Heedful(CP!NaturalFileOperation) /\ Heedful(CP!BatchFileOperations)
    BY RawHeeds DEF CP!NaturalFileOperation, CP!BatchFileOperations
  <1>2. /\ Heedful(CP!NoteCommand)
        /\ Heedful(CP!CommandChaining)
        /\ Heedful(CP!CloseCommand)
        /\ Heedful(CP!IdentityQuestion)
    BY Innocent, HarmlessRows DEF CP!NoteCommand, CP!CommandChaining, CP!CloseCommand, CP!IdentityQuestion
  <1>3. Heedful(CP!SystemAction)
    BY SystemIsInnocent, HarmlessRows DEF CP!SystemAction
  <1>4. Heedful(CP!ScreenDescribe)
    <2>1. ~Changing(CP!Describe)
      BY DEF Changing, CP!Describe
    <2>2. QED
      BY <2>1, HarmlessRows DEF CP!ScreenDescribe
  <1>5. {"cd"} \cap FileActions = {} /\ {"list_directory"} \cap FileActions = {}
    BY DEF FileActions
  <1>6. Heedful(CP!CdCommands)
    BY <1>5, Innocent, HarmlessRows DEF CP!CdCommands
  <1>7. Heedful(CP!OpenCommand)
    <2>1. \A c \in CP!Of("OS_FILE_NAVIGATION", {"list_directory"}) \cup CP!Of("OS_APP_OPEN", {""}) : ~Changing(c)
      BY <1>5, Innocent
    <2>2. QED
      BY <2>1, SystemIsInnocent, HarmlessRows, BothHeed DEF CP!OpenCommand
  <1>8. QED
    BY <1>1, <1>2, <1>3, <1>4, <1>6, <1>7

\* The matchers one by one.
LEMMA CascadeIs ==
  /\ CP!Places = 1 .. 24 /\ Parser!Places = 1 .. 24
  /\ CP!Cascade[2] = CP!PriorityRegexTable /\ CP!Cascade[4] = CP!CommandChaining
  /\ CP!Cascade[6] = CP!CodeswitchedCommand /\ CP!Cascade[13] = CP!NaturalWindow
  /\ CP!Cascade[14] = CP!NaturalAppOpen /\ CP!Cascade[18] = CP!NaturalFileOperation
  /\ CP!Cascade[23] = CP!ScreenDescribe
  BY DEF CP!Places, Parser!Places, CP!Cascade, Parser!Cascade

\* Every matcher of a change of a file heeds the negation.
LEMMA CascadeHeeds == \A i \in 1 .. 24 : Heedful(CP!Cascade[i])
  <1> TAKE i \in 1 .. 24
  <1>1. \/ i = 1 \/ i = 2 \/ i = 3 \/ i = 4 \/ i = 5 \/ i = 6 \/ i = 7 \/ i = 8 \/ i = 9 \/ i = 10
        \/ i = 11 \/ i = 12 \/ i = 13 \/ i = 14 \/ i = 15 \/ i = 16 \/ i = 17 \/ i = 18 \/ i = 19
        \/ i = 20 \/ i = 21 \/ i = 22 \/ i = 23 \/ i = 24
    OBVIOUS
  <1>2. QED
    BY <1>1, StructuralHeeds, PriorityHeeds, KeywordsHeed, CodeswitchedHeeds, RegexHeeds, NaturalTables,
       PhraseTables
       DEF CP!Cascade

-----------------------------------------------------------------------------
\* The command of a window and the description of the screen.
Focus == <<"OS_SYSTEM_COMMAND", "focus_window">>

\* What is known of a body.
Matchable(body) ==
  /\ DOMAIN body \in SUBSET (1 .. 24)
  /\ \A i \in DOMAIN body : Heeds(body[i])
  /\ \A i \in DOMAIN body : body[i].command = Parser!LlmQuery => DOMAIN body = {i}
  /\ 23 \in DOMAIN body => DOMAIN body = {23} /\ body[23].command = Parser!Describe
  /\ 13 \in DOMAIN body => body[13].command = Focus

\* The matcher of windows.
LEMMA WindowRows == \A row \in CP!NaturalWindow : row.command = Focus
  <1> TAKE row \in CP!NaturalWindow
  <1>1. row.command \in CP!System({"focus_window"})
    BY RowsAre DEF CP!NaturalWindow
  <1>2. QED
    BY <1>1 DEF CP!System, CP!Of, Focus

\* The matcher of the screen.
LEMMA ScreenRows == \A row \in CP!ScreenDescribe : row.command = Parser!Describe
  <1>1. CP!Describe = Parser!Describe
    BY DEF CP!Describe, Parser!Describe
  <1>2. QED
    BY <1>1, RowsAre DEF CP!ScreenDescribe

\* A text that one matcher knows.
LEMMA OneIsKnown == \A body \in OneMatcher : Matchable(body)
  <1> SUFFICES ASSUME NEW i \in 1 .. 24, NEW row \in CP!Cascade[i] PROVE Matchable(Single(i, row))
    BY CascadeIs DEF OneMatcher
  <1>1. PICK body : body = Single(i, row)
    OBVIOUS
  <1>2. DOMAIN body = {i} /\ body[i] = row
    BY <1>1 DEF Single
  <1>3. Heeds(row)
    BY CascadeHeeds DEF Heedful
  <1>4. 23 \in DOMAIN body => body[23].command = Parser!Describe
    BY <1>2, CascadeIs, ScreenRows
  <1>5. 13 \in DOMAIN body => body[13].command = Focus
    BY <1>2, CascadeIs, WindowRows
  <1>6. QED
    BY <1>1, <1>2, <1>3, <1>4, <1>5 DEF Matchable

\* Two matchers know files, a chain or a window, none of them a question or the screen.
LEMMA TwoAreKnown == \A body \in TwoMatchers : Matchable(body)
  <1>1. ASSUME NEW i \in 1 .. 24, NEW j \in 1 .. 24, NEW a \in CP!Cascade[i], NEW b \in CP!Cascade[j], i # j,
               i # 23, j # 23, j # 13, a.command[1] # "LLM_QUERY", b.command[1] # "LLM_QUERY"
        PROVE  Matchable(Double(i, a, j, b))
    <2>1. PICK body : body = Double(i, a, j, b)
      OBVIOUS
    <2>2. DOMAIN body = {i, j} /\ body[i] = a /\ body[j] = b
      BY <1>1, <2>1 DEF Double
    <2>3. Heeds(a) /\ Heeds(b)
      BY CascadeHeeds DEF Heedful
    <2>4. Parser!LlmQuery[1] = "LLM_QUERY"
      BY DEF Parser!LlmQuery
    <2>5. a.command # Parser!LlmQuery /\ b.command # Parser!LlmQuery
      BY <1>1, <2>4
    <2>6. 13 \in DOMAIN body => body[13].command = Focus
      BY <1>1, <2>2, CascadeIs, WindowRows
    <2>7. 23 \notin DOMAIN body
      BY <1>1, <2>2
    <2>8. DOMAIN body \in SUBSET (1 .. 24)
      BY <2>2
    <2>9. QED
      BY <2>1, <2>2, <2>3, <2>5, <2>6, <2>7, <2>8 DEF Matchable
  <1>2. ASSUME NEW a \in Rows(2, "OS_FILE_NAVIGATION_BATCH"), NEW b \in Rows(18, "OS_FILE_NAVIGATION")
        PROVE  Matchable(Double(2, a, 18, b))
    <2>1. /\ a \in CP!Cascade[2] /\ b \in CP!Cascade[18] /\ a.command[1] # "LLM_QUERY" /\ b.command[1] # "LLM_QUERY"
      BY DEF Rows
    <2>2. QED
      BY <1>1, <2>1
  <1>3. ASSUME NEW a \in Rows(4, "COMMAND_CHAIN"), NEW b \in Rows(6, "OS_APP_OPEN")
        PROVE  Matchable(Double(4, a, 6, b))
    <2>1. /\ a \in CP!Cascade[4] /\ b \in CP!Cascade[6] /\ a.command[1] # "LLM_QUERY" /\ b.command[1] # "LLM_QUERY"
      BY DEF Rows
    <2>2. QED
      BY <1>1, <2>1
  <1>4. ASSUME NEW a \in Rows(13, "OS_SYSTEM_COMMAND"), NEW b \in Rows(14, "OS_APP_OPEN")
        PROVE  Matchable(Double(13, a, 14, b))
    <2>1. /\ a \in CP!Cascade[13] /\ b \in CP!Cascade[14] /\ a.command[1] # "LLM_QUERY" /\ b.command[1] # "LLM_QUERY"
      BY DEF Rows
    <2>2. QED
      BY <1>1, <2>1
  <1>5. QED
    BY <1>2, <1>3, <1>4 DEF TwoMatchers

\* A negation inverts what has an opposite, and nothing becomes a question or a change of a file.
LEMMA InvertedIs ==
  /\ \A c : Parser!Inverted(c) = Parser!LlmQuery <=> c = Parser!LlmQuery
  /\ \A c : Parser!Inverted(c) \in Parser!FileChanges => c \in Parser!FileChanges
  /\ Parser!Inverted(Focus) = Focus /\ Parser!Inverted(Parser!Describe) = Parser!Describe
  <1> DEFINE Keys == {"wifi_on", "bluetooth_on", "notifications_on",
             "notifications_off", "media_play", "volume_up", "volume_down", "volume_mute",
             "volume_unmute", "brightness_up"}
             O == {<<"OS_APP_OPEN", "">>} \cup Parser!System(Keys)
             Key(c) == CASE c[2] = "wifi_on" -> "wifi_off"
                    [] c[2] = "bluetooth_on" -> "bluetooth_off"
                    [] c[2] = "notifications_on" -> "notifications_off"
                    [] c[2] = "notifications_off" -> "notifications_on"
                    [] c[2] = "media_play" -> "media_stop"
                    [] c[2] = "volume_up" -> "volume_down"
                    [] c[2] = "volume_down" -> "volume_up"
                    [] c[2] = "volume_mute" -> "volume_unmute"
                    [] c[2] = "volume_unmute" -> "volume_mute"
                    [] c[2] = "brightness_up" -> "brightness_down"
             Other(c) == IF c = <<"OS_APP_OPEN", "">> THEN <<"OS_APP_CLOSE", "">> ELSE <<c[1], Key(c)>>
  <1>0. Parser!Opposite = [c \in O |-> Other(c)]
    BY DEF Parser!Opposite
  <1>1. \A c \in O : c[1] = "OS_APP_OPEN" \/ (c[1] = "OS_SYSTEM_COMMAND" /\ c[2] # "focus_window")
    <2> TAKE c \in O
    <2>1. CASE c = <<"OS_APP_OPEN", "">>
      BY <2>1
    <2>2. ASSUME NEW k \in Keys, c = <<"OS_SYSTEM_COMMAND", k>> PROVE c[1] = "OS_SYSTEM_COMMAND" /\ c[2] # "focus_window"
      BY <2>2
    <2>3. QED
      BY <2>1, <2>2 DEF Parser!System, Parser!Of
  <1> HIDE DEF Key, O
  <1>2. \A c \in O : Other(c)[1] \in {"OS_APP_CLOSE", "OS_SYSTEM_COMMAND"}
    <2> TAKE c \in O
    <2>1. CASE c = <<"OS_APP_OPEN", "">>
      BY <2>1
    <2>2. CASE c # <<"OS_APP_OPEN", "">>
      <3>1. c[1] = "OS_SYSTEM_COMMAND"
        BY <2>2 DEF O, Parser!System, Parser!Of
      <3>2. Other(c) = <<c[1], Key(c)>>
        BY <2>2
      <3>3. QED
        BY <3>1, <3>2
    <2>3. QED
      BY <2>1, <2>2
  <1>3. Parser!LlmQuery[1] = "LLM_QUERY" /\ Parser!Describe[1] = "OS_SCREEN_DESCRIBE"
        /\ Focus[1] = "OS_SYSTEM_COMMAND" /\ Focus[2] = "focus_window"
    BY DEF Parser!LlmQuery, Parser!Describe, Focus
  <1>4. \A c \in Parser!FileChanges : c[1] \notin {"OS_APP_CLOSE", "OS_SYSTEM_COMMAND"}
    BY FileChangesAre DEF Changing
  <1> HIDE DEF Other
  <1>5. \A c : Parser!Inverted(c) = IF c \in O THEN Other(c) ELSE c
    BY <1>0 DEF Parser!Inverted
  <1>6. \A c : Parser!Inverted(c) = Parser!LlmQuery <=> c = Parser!LlmQuery
    BY <1>1, <1>2, <1>3, <1>5
  <1>7. \A c : Parser!Inverted(c) \in Parser!FileChanges => c \in Parser!FileChanges
    BY <1>2, <1>4, <1>5
  <1>8. Parser!Inverted(Focus) = Focus /\ Parser!Inverted(Parser!Describe) = Parser!Describe
    BY <1>1, <1>3, <1>5
  <1>9. QED
    BY <1>6, <1>7, <1>8

-----------------------------------------------------------------------------
\* What the cascade makes of the body b behind the words l.
Reads(l, r) == IF r = "raw" THEN l ELSE Parser!Stripped(l)
Knows(l, b) == {i \in DOMAIN b : Said(Reads(l, b[i].reads)) \subseteq b[i].skips}
Negating(l, c) == IF Parser!Negated(l) THEN Parser!Inverted(c) ELSE c
Matched(l, b) ==
  IF Knows(l, b) = {} THEN Negating(l, Parser!LlmQuery)
  ELSE IF Parser!First(Knows(l, b)) = 13 THEN b[Parser!First(Knows(l, b))].command
  ELSE Negating(l, b[Parser!First(Knows(l, b))].command)

\* The first is one of them.
LEMMA FirstPlace ==
  ASSUME NEW S \in SUBSET (1 .. 24), S # {}
  PROVE  Parser!First(S) \in S
  <1> DEFINE Least(i) == \A j \in S : i <= j
  <1>1. PICK i \in S : Least(i)
    <2>1. S \in SUBSET Nat
      OBVIOUS
    <2>2. QED
      BY <2>1, LeastNumber
  <1>2. Parser!First(S) = CHOOSE j \in S : Least(j)
    BY DEF Parser!First
  <1> HIDE DEF Least
  <1>3. QED
    BY <1>1, <1>2

\* The matchers that know a text behind some words.
LEMMA KnowsIs ==
  ASSUME NEW b, Matchable(b), NEW l
  PROVE  Knows(l, b) \in SUBSET (1 .. 24) /\ Knows(l, b) \in SUBSET DOMAIN b
  BY DEF Knows, Matchable

\* What is read of words.
LEMMA ReadsAreSaid ==
  ASSUME NEW l \in Seq(LeadWords), NEW r
  PROVE  /\ Said(Reads(l, r)) \subseteq Said(l)
         /\ l # <<>> /\ ~Parser!Negated(l) => Reads(l, r) = l
  <1>1. CASE r = "raw" \/ ~Parser!Negated(l)
    BY <1>1 DEF Reads, Parser!Stripped
  <1>2. CASE r # "raw" /\ Parser!Negated(l)
    <2>1. Reads(l, r) = Tail(l) /\ l # <<>>
      BY <1>2 DEF Reads, Parser!Stripped, Parser!Negated
    <2>2. Len(l) \in Nat /\ DOMAIN l = 1 .. Len(l) /\ Len(l) # 0
      BY <2>1, LenProperties, EmptySeq
    <2>3. /\ Tail(l) \in Seq(LeadWords) /\ Len(Tail(l)) = Len(l) - 1
          /\ \A k \in 1 .. Len(l) - 1 : Tail(l)[k] = l[k + 1]
      BY <2>1, HeadTailProperties
    <2>4. DOMAIN Tail(l) = 1 .. Len(l) - 1
      BY <2>3, LenProperties
    <2>5. ASSUME NEW k \in DOMAIN Tail(l) PROVE Tail(l)[k] \in Said(l)
      <3>1. k \in 1 .. Len(l) - 1 /\ k + 1 \in DOMAIN l
        BY <2>2, <2>4
      <3>2. QED
        BY <2>3, <3>1 DEF Said
    <2>6. QED
      BY <1>2, <2>1, <2>5 DEF Said
  <1>3. QED
    BY <1>1, <1>2

\* The outer calls know no more than the last.
LEMMA LastKnowsAll ==
  ASSUME NEW w \in Seq(LeadWords), NEW l \in Tails(w), NEW c \in Tails(w), Bare(c), l # c, NEW b
  PROVE  Knows(l, b) \subseteq Knows(c, b) /\ ~Parser!Negated(l)
  <1>1. l \in Seq(LeadWords) /\ c \in Seq(LeadWords) /\ Said(c) \subseteq Said(l) /\ ~Bare(l)
    BY BareIsLast
  <1>2. Len(l) # 0 /\ l # <<>> /\ l[1] = Parser!Polite
    BY <1>1, BareIs
  <1>3. ~Parser!Negated(l)
    <2>1. Parser!Polite # Parser!Not
      BY DEF Parser!Polite, Parser!Not
    <2>2. Head(l) = l[1]
      BY <1>1, <1>2, HeadTailProperties
    <2>3. QED
      BY <1>2, <2>1, <2>2 DEF Parser!Negated
  <1>4. \A r : Reads(l, r) = l /\ Said(Reads(c, r)) \subseteq Said(c)
    BY <1>1, <1>2, <1>3, ReadsAreSaid
  <1>5. \A r : Said(Reads(c, r)) \subseteq Said(Reads(l, r))
    BY <1>1, <1>4
  <1>6. QED
    BY <1>3, <1>5 DEF Knows

\* When the last call finds nothing, no other does.
LEMMA NothingStays ==
  ASSUME NEW w \in Seq(LeadWords), NEW l \in Tails(w), NEW c \in Tails(w), Bare(c), NEW b, Matchable(b),
         Matched(c, b) = Parser!LlmQuery
  PROVE  Matched(l, b) = Parser!LlmQuery
  <1>1. CASE l = c
    BY <1>1
  <1>2. CASE l # c
    <2>1. Knows(l, b) \subseteq Knows(c, b) /\ ~Parser!Negated(l)
      BY <1>2, LastKnowsAll
    <2>2. Knows(c, b) \in SUBSET (1 .. 24) /\ Knows(c, b) \in SUBSET DOMAIN b
      BY KnowsIs
    <2>3. CASE Knows(c, b) = {}
      BY <2>1, <2>3 DEF Matched, Negating
    <2>4. CASE Knows(c, b) # {}
      <3>1. PICK i \in Knows(c, b) : i = Parser!First(Knows(c, b))
        BY <2>2, <2>4, FirstPlace
      <3>2. b[i].command = Parser!LlmQuery
        BY <2>4, <3>1, InvertedIs DEF Matched, Negating
      <3>3. DOMAIN b = {i}
        BY <2>2, <3>2 DEF Matchable
      <3>4. CASE Knows(l, b) = {}
        BY <2>1, <3>4 DEF Matched, Negating
      <3>5. CASE Knows(l, b) # {}
        <4>1. Parser!First(Knows(l, b)) = i
          <5>1. Knows(l, b) = {i} /\ Knows(l, b) \in SUBSET (1 .. 24)
            BY <2>1, <2>2, <3>3, <3>5
          <5>2. QED
            BY <5>1, FirstPlace
        <4>2. QED
          BY <2>1, <3>2, <3>5, <4>1 DEF Matched, Negating
      <3>6. QED
        BY <3>4, <3>5
    <2>5. QED
      BY <2>3, <2>4
  <1>3. QED
    BY <1>1, <1>2

\* What is a command was made by a matcher, inverted behind a negation.
LEMMA ResultIs ==
  ASSUME NEW l, NEW b, Matchable(b)
  PROVE  \/ Matched(l, b) = Parser!LlmQuery
         \/ \E i \in Knows(l, b) : Matched(l, b) = Negating(l, b[i].command)
  <1>1. CASE Knows(l, b) = {}
    BY <1>1, InvertedIs DEF Matched, Negating
  <1>2. CASE Knows(l, b) # {}
    <2>1. Knows(l, b) \in SUBSET (1 .. 24) /\ Knows(l, b) \in SUBSET DOMAIN b
      BY KnowsIs
    <2>2. PICK i \in Knows(l, b) : i = Parser!First(Knows(l, b))
      BY <1>2, <2>1, FirstPlace
    <2>3. CASE i = 13
      <3>1. b[i].command = Focus
        BY <2>1, <2>2, <2>3 DEF Matchable
      <3>2. Matched(l, b) = Negating(l, b[i].command)
        BY <1>2, <2>2, <2>3, <3>1, InvertedIs DEF Matched, Negating
      <3>3. QED
        BY <3>2
    <2>4. CASE i # 13
      <3>1. Matched(l, b) = Negating(l, b[i].command)
        BY <1>2, <2>2, <2>4 DEF Matched
      <3>2. QED
        BY <3>1
    <2>5. QED
      BY <2>3, <2>4
  <1>3. QED
    BY <1>1, <1>2

\* Where the negation is still read, no file is changed.
LEMMA ResultHeeds ==
  ASSUME NEW l \in Seq(LeadWords), Parser!Not \in Said(l), NEW b, Matchable(b)
  PROVE  Matched(l, b) \notin Parser!FileChanges
  <1>1. Parser!LlmQuery \notin Parser!FileChanges
    <2>1. Parser!LlmQuery[1] = "LLM_QUERY"
      BY DEF Parser!LlmQuery
    <2>2. QED
      BY <2>1, FileChangesAre DEF Changing
  <1>2. ASSUME NEW i \in Knows(l, b), Negating(l, b[i].command) \in Parser!FileChanges PROVE FALSE
    <2>1. i \in DOMAIN b /\ Said(Reads(l, b[i].reads)) \subseteq b[i].skips
      BY DEF Knows
    <2>2. b[i].command \in Parser!FileChanges
      BY <1>2, InvertedIs DEF Negating
    <2>3. b[i].reads = "raw" /\ b[i].skips = {}
      BY <2>1, <2>2, FileChangesAre DEF Matchable, Heeds
    <2>4. QED
      BY <2>1, <2>3 DEF Reads
  <1>3. QED
    BY <1>1, <1>2, ResultIs

-----------------------------------------------------------------------------
\* What the whole text is, when c is left of its words.
Understood(c) ==
  IF 23 \in DOMAIN said.body THEN Parser!Describe
  ELSE IF said.question THEN Parser!LlmQuery ELSE Matched(c, said.body)

\* Every call reads what is left of the words without courtesies before it.
CallsInv ==
  /\ said.lead \in Seq(LeadWords) /\ Matchable(said.body)
  /\ lead \in Tails(said.lead) /\ callers \in Seq(Tails(said.lead)) /\ Len(callers) <= MaxCalls
  /\ at \in {"guards", "match", "done"}

\* The answer says that it is negated only where there is a negation.
AnswerInv ==
  /\ answer = [command |-> answer.command, negated |-> answer.negated] /\ answer.negated \in BOOLEAN
  /\ Parser!Not \notin Said(said.lead) => answer.negated = FALSE

\* Nested calls and matchers see no guarded text; a call that is not the last comes to its matchers
\* only when the last has found nothing; and what is found is what the last one finds.
UnderstoodInv ==
  /\ at = "match" \/ callers # <<>> => 23 \notin DOMAIN said.body /\ ~said.question
  /\ at = "match" => \A c \in Tails(said.lead) : Bare(c) => lead = c \/ Matched(c, said.body) = Parser!LlmQuery
  /\ at = "done" => \A c \in Tails(said.lead) : Bare(c) => answer.command = Understood(c)

ParserInv == CallsInv /\ AnswerInv /\ UnderstoodInv

\* The leading words of a text.
LEMMA LeadsAreWords == Leads \subseteq Seq(LeadWords)
  <1>1. ASSUME NEW n \in 0 .. MaxLeads, NEW l \in [1 .. n -> {"polite", "not"}] PROVE l \in Seq(LeadWords)
    <2>1. n \in Nat
      BY CommandsAssumption
    <2>2. LeadWords = {"polite", "not"}
      BY DEF LeadWords, Parser!Polite, Parser!Not
    <2>3. QED
      BY <2>1, <2>2, SeqDef
  <1>2. QED
    BY <1>1 DEF Leads

\* Nothing was parsed.
LEMMA ParserBegins == Parser!Init => ParserInv
  <1> SUFFICES ASSUME Parser!Init PROVE ParserInv
    OBVIOUS
  <1>1. /\ said \in [lead : Leads, body : MCBodies, question : BOOLEAN]
        /\ lead = said.lead /\ callers = <<>> /\ at = "guards" /\ answer = [command |-> Parser!LlmQuery, negated |-> FALSE]
    BY DEF Parser!Init, Parser!Parsed
  <1>2. said.lead \in Leads /\ said.body \in MCBodies
    BY <1>1
  <1>3. said.lead \in Seq(LeadWords) /\ Matchable(said.body)
    BY <1>2, LeadsAreWords, OneIsKnown, TwoAreKnown DEF MCBodies
  <1>4. lead \in Tails(said.lead)
    BY <1>1, <1>3, AllLeft
  <1>5. callers \in Seq(Tails(said.lead)) /\ Len(callers) <= MaxCalls
    <2>1. Len(callers) = 0 /\ MaxCalls \in Nat
      BY <1>1, CommandsAssumption, EmptySeq
    <2>2. QED
      BY <1>1, <2>1, EmptySeq
  <1>6. CallsInv
    BY <1>1, <1>3, <1>4, <1>5 DEF CallsInv
  <1>7. AnswerInv /\ UnderstoodInv
    BY <1>1 DEF AnswerInv, UnderstoodInv
  <1>8. QED
    BY <1>6, <1>7 DEF ParserInv

\* The parser's own words for it.
LEMMA RecognisersAre ==
  ASSUME Matchable(said.body)
  PROVE  Parser!Recognisers(said.body) = Knows(lead, said.body)
  <1>1. \A r : Parser!Reading(r) = Reads(lead, r)
    BY DEF Parser!Reading, Reads
  <1>2. \A i \in DOMAIN said.body :
          Parser!SkipsAll(said.body[i]) <=> Said(Reads(lead, said.body[i].reads)) \subseteq said.body[i].skips
    BY <1>1 DEF Parser!SkipsAll, Said
  <1>3. QED
    BY <1>2 DEF Parser!Recognisers, Knows

\* The cascade.
LEMMA ParserMatch ==
  ASSUME ParserInv, Parser!Match
  PROVE  ParserInv'
  <1>1. /\ said.lead \in Seq(LeadWords) /\ Matchable(said.body) /\ lead \in Tails(said.lead)
        /\ at = "match" /\ at' = "done" /\ UNCHANGED <<said, lead, callers>>
        /\ 23 \notin DOMAIN said.body /\ ~said.question
    BY DEF ParserInv, CallsInv, UnderstoodInv, Parser!Match
  <1>2. /\ answer'.command = Matched(lead, said.body)
        /\ answer' = [command |-> answer'.command, negated |-> answer'.negated]
        /\ answer'.negated \in {FALSE, Parser!Negated(lead)}
    <2>1. PICK R : R = Knows(lead, said.body) /\ R = Parser!Recognisers(said.body)
      BY <1>1, RecognisersAre
    <2>2. answer' = IF R = {} THEN Parser!Finalized(Parser!LlmQuery)
               ELSE IF Parser!First(R) = 13 THEN Parser!Parsed(said.body[Parser!First(R)].command, FALSE)
                    ELSE Parser!Finalized(said.body[Parser!First(R)].command)
      BY <2>1 DEF Parser!Match, Parser!WindowPlace
    <2>3. \A c : Parser!Finalized(c) = [command |-> Negating(lead, c), negated |-> Parser!Negated(lead)]
      BY DEF Parser!Finalized, Parser!Parsed, Negating
    <2>4. CASE R = {}
      BY <2>1, <2>2, <2>3, <2>4 DEF Matched
    <2>5. CASE R # {} /\ Parser!First(R) = 13
      BY <2>1, <2>2, <2>5 DEF Matched, Parser!Parsed
    <2>6. CASE R # {} /\ Parser!First(R) # 13
      BY <2>1, <2>2, <2>3, <2>6 DEF Matched
    <2>7. QED
      BY <2>4, <2>5, <2>6
  <1>3. Parser!Negated(lead) \in BOOLEAN /\ (Parser!Negated(lead) => Parser!Not \in Said(said.lead))
    <2>1. Parser!Negated(lead) \in BOOLEAN
      BY DEF Parser!Negated
    <2>2. ASSUME Parser!Negated(lead) PROVE Parser!Not \in Said(said.lead)
      <3>1. PICK c \in Tails(said.lead) : Bare(c)
        BY <1>1, BareIsLeft
      <3>2. lead \in Seq(LeadWords) /\ Said(lead) \subseteq Said(said.lead)
        BY <1>1, <3>1, BareIsLast
      <3>3. lead # <<>> /\ Head(lead) = Parser!Not
        BY <2>2 DEF Parser!Negated
      <3>4. Len(lead) \in Nat /\ DOMAIN lead = 1 .. Len(lead) /\ Len(lead) # 0 /\ lead[1] = Parser!Not
        BY <3>2, <3>3, LenProperties, EmptySeq, HeadTailProperties
      <3>5. 1 \in DOMAIN lead
        BY <3>4
      <3>6. QED
        BY <3>2, <3>4, <3>5 DEF Said
    <2>3. QED
      BY <2>1, <2>2
  <1>4. AnswerInv'
    BY <1>1, <1>2, <1>3 DEF AnswerInv
  <1>5. ASSUME NEW c \in Tails(said.lead), Bare(c) PROVE answer'.command = Understood(c)
    <2>1. Matched(lead, said.body) = Matched(c, said.body)
      <3>1. CASE lead = c
        BY <3>1
      <3>2. CASE lead # c
        <4>1. Matched(c, said.body) = Parser!LlmQuery
          BY <1>1, <1>5, <3>2 DEF ParserInv, UnderstoodInv
        <4>2. QED
          BY <1>1, <1>5, <4>1, NothingStays
      <3>3. QED
        BY <3>1, <3>2
    <2>2. QED
      BY <1>1, <1>2, <2>1 DEF Understood
  <1>6. UnderstoodInv'
    BY <1>1, <1>5 DEF UnderstoodInv, Understood
  <1>7. CallsInv'
    BY <1>1 DEF ParserInv, CallsInv
  <1>8. QED
    BY <1>4, <1>6, <1>7 DEF ParserInv

\* The return from a nested call.
LEMMA ParserReturn ==
  ASSUME ParserInv, Parser!Return
  PROVE  ParserInv'
  <1> DEFINE T == Tails(said.lead)
  <1>1. /\ said' = said /\ at = "done" /\ callers # <<>> /\ callers \in Seq(T) /\ Len(callers) <= MaxCalls
        /\ lead' = callers[Len(callers)] /\ callers' = SubSeq(callers, 1, Len(callers) - 1)
        /\ 23 \notin DOMAIN said.body /\ ~said.question
    BY DEF ParserInv, CallsInv, UnderstoodInv, Parser!Return
  <1>2. Len(callers) \in Nat /\ Len(callers) # 0 /\ \A k \in 1 .. Len(callers) : callers[k] \in T
    BY <1>1, LenProperties, EmptySeq
  <1>3. lead' \in T
    <2>1. Len(callers) \in 1 .. Len(callers)
      BY <1>2
    <2>2. QED
      BY <1>1, <1>2, <2>1
  <1>4. callers' \in Seq(T) /\ Len(callers') <= MaxCalls
    <2>1. PICK n \in Nat : n = Len(callers) /\ n # 0
      BY <1>2
    <2>2. \A k \in 1 .. n - 1 : callers[k] \in T
      BY <1>2, <2>1
    <2>3. callers' \in Seq(T) /\ Len(callers') = IF 1 <= n - 1 THEN (n - 1) - 1 + 1 ELSE 0
      BY <1>1, <2>1, <2>2, SubSeqProperties
    <2>4. MaxCalls \in Nat
      BY CommandsAssumption
    <2>5. QED
      BY <1>1, <2>1, <2>3, <2>4
  <1>5. CASE answer.command # Parser!LlmQuery
    <2>1. answer' = [command |-> answer.command, negated |-> FALSE] /\ at' = "done"
      BY <1>5 DEF Parser!Return, Parser!Parsed
    <2>2. CallsInv'
      BY <1>1, <1>3, <1>4, <2>1 DEF ParserInv, CallsInv
    <2>3. AnswerInv'
      BY <2>1 DEF AnswerInv
    <2>4. UnderstoodInv'
      BY <1>1, <2>1 DEF ParserInv, UnderstoodInv, Understood
    <2>5. QED
      BY <2>2, <2>3, <2>4 DEF ParserInv
  <1>6. CASE answer.command = Parser!LlmQuery
    <2>1. answer' = answer /\ at' = "match"
      BY <1>6 DEF Parser!Return
    <2>2. CallsInv'
      BY <1>1, <1>3, <1>4, <2>1 DEF ParserInv, CallsInv
    <2>3. AnswerInv'
      BY <1>1, <2>1 DEF ParserInv, AnswerInv
    <2>4. ASSUME NEW c \in T, Bare(c) PROVE Matched(c, said.body) = Parser!LlmQuery
      BY <1>1, <1>6, <2>4 DEF ParserInv, UnderstoodInv, Understood
    <2>5. UnderstoodInv'
      BY <1>1, <2>1, <2>4 DEF UnderstoodInv
    <2>6. QED
      BY <2>2, <2>3, <2>5 DEF ParserInv
  <1>7. QED
    BY <1>5, <1>6

\* Every step of a call keeps it.
LEMMA ParserSteps == ParserInv /\ [Parser!Next]_Parser!vars => ParserInv'
  <1> SUFFICES ASSUME ParserInv, [Parser!Next]_Parser!vars PROVE ParserInv'
    OBVIOUS
  <1>1. CASE Parser!Guarded
    <2>1. /\ at' = "done" /\ UNCHANGED <<said, lead, callers>> /\ answer' = [command |-> answer'.command, negated |-> FALSE]
          /\ \/ 23 \in DOMAIN said.body /\ answer'.command = Parser!Describe
             \/ 23 \notin DOMAIN said.body /\ said.question /\ answer'.command = Parser!LlmQuery
      BY <1>1 DEF Parser!Guarded, Parser!ScreenPlace, Parser!Parsed
    <2>2. CallsInv'
      BY <2>1 DEF ParserInv, CallsInv
    <2>0. answer'.negated = FALSE /\ answer' = [command |-> answer'.command, negated |-> answer'.negated]
      BY <2>1
    <2>9. AnswerInv'
      BY <2>0 DEF AnswerInv
    <2>3. \A c : answer'.command = Understood(c)
      BY <2>1 DEF Understood
    <2>4. UnderstoodInv'
      BY <2>1, <2>3 DEF ParserInv, UnderstoodInv, Understood
    <2>5. QED
      BY <2>2, <2>4, <2>9 DEF ParserInv
  <1>2. CASE Parser!Reparse
    <2>1. /\ at = "guards" /\ 23 \notin DOMAIN said.body /\ ~said.question
          /\ Len(callers) < MaxCalls /\ callers' = Append(callers, lead) /\ UNCHANGED <<said, at, answer>>
      BY <1>2 DEF Parser!Reparse, Parser!Unguarded, Parser!ScreenPlace
    <2>2. PICK n \in Parser!Run(lead) : lead' = Parser!Drop(lead, n)
      BY <1>2 DEF Parser!Reparse
    <2>3. said.lead \in Seq(LeadWords) /\ lead \in Tails(said.lead) /\ callers \in Seq(Tails(said.lead))
      BY DEF ParserInv, CallsInv
    <2>4. lead' \in Tails(said.lead)
      BY <2>2, <2>3, DropsOn
    <2>5. callers' \in Seq(Tails(said.lead)) /\ Len(callers') <= MaxCalls
      <3>1. callers' \in Seq(Tails(said.lead)) /\ Len(callers') = Len(callers) + 1 /\ Len(callers) \in Nat
        BY <2>1, <2>3, AppendProperties, LenProperties
      <3>2. MaxCalls \in Nat
        BY CommandsAssumption
      <3>3. QED
        BY <2>1, <3>1, <3>2
    <2>6. CallsInv'
      BY <2>1, <2>4, <2>5 DEF ParserInv, CallsInv
    <2>7. AnswerInv' /\ UnderstoodInv'
      BY <2>1 DEF ParserInv, AnswerInv, UnderstoodInv
    <2>8. QED
      BY <2>6, <2>7 DEF ParserInv
  <1>3. CASE Parser!NothingToStrip
    <2>1. /\ 23 \notin DOMAIN said.body /\ ~said.question /\ Bare(lead)
          /\ at' = "match" /\ UNCHANGED <<said, lead, callers, answer>>
      BY <1>3 DEF Parser!NothingToStrip, Parser!Unguarded, Parser!ScreenPlace, Bare
    <2>2. CallsInv' /\ AnswerInv'
      BY <2>1 DEF ParserInv, CallsInv, AnswerInv
    <2>3. said.lead \in Seq(LeadWords) /\ lead \in Tails(said.lead)
      BY DEF ParserInv, CallsInv
    <2>4. ASSUME NEW c \in Tails(said.lead), Bare(c) PROVE lead = c
      BY <2>1, <2>3, <2>4, BareIsLast
    <2>5. UnderstoodInv'
      BY <2>1, <2>4 DEF UnderstoodInv
    <2>6. QED
      BY <2>2, <2>5 DEF ParserInv
  <1>4. CASE UNCHANGED Parser!vars
    BY <1>4 DEF Parser!vars, ParserInv, CallsInv, AnswerInv, UnderstoodInv, Understood
  <1>5. QED
    BY <1>1, <1>2, <1>3, <1>4, ParserMatch, ParserReturn DEF Parser!Next

\* A text with a negation leaves one to read; a text without leaves nothing.
LEMMA LastReads ==
  ASSUME ParserInv, NEW c \in Tails(said.lead), Bare(c)
  PROVE  /\ c \in Seq(LeadWords)
         /\ Parser!SaysNot <=> Parser!Not \in Said(said.lead)
         /\ Parser!SaysNot => Parser!Not \in Said(c) /\ Parser!Negated(c)
         /\ ~Parser!SaysNot => c = <<>>
  <1>1. said.lead \in Seq(LeadWords)
    BY DEF ParserInv, CallsInv
  <1>2. /\ c \in Seq(LeadWords) /\ Said(c) \subseteq Said(said.lead)
        /\ Parser!Not \in Said(said.lead) => Parser!Not \in Said(c)
    BY <1>1, BareIsLast
  <1>3. Parser!SaysNot <=> Parser!Not \in Said(said.lead)
    BY DEF Parser!SaysNot, Said
  <1>4. /\ Len(c) \in Nat /\ DOMAIN c = 1 .. Len(c) /\ (c = <<>> <=> Len(c) = 0)
        /\ Len(c) = 0 \/ c[1] # Parser!Polite
    BY <1>2, BareIs
  <1>5. ASSUME c # <<>> PROVE Head(c) = Parser!Not /\ Parser!Not \in Said(c)
    <2>1. 1 \in 1 .. Len(c) /\ Head(c) = c[1]
      BY <1>2, <1>4, <1>5, HeadTailProperties
    <2>2. c[1] \in LeadWords /\ c[1] \in Said(c)
      BY <1>2, <1>4, <2>1, LenProperties DEF Said
    <2>3. c[1] = Parser!Not
      BY <1>4, <1>5, <2>2 DEF LeadWords
    <2>4. QED
      BY <2>1, <2>2, <2>3
  <1>6. ASSUME Parser!Not \in Said(c) PROVE c # <<>>
    <2>1. PICK k \in DOMAIN c : c[k] = Parser!Not
      BY <1>6 DEF Said
    <2>2. QED
      BY <1>4, <2>1
  <1>7. QED
    BY <1>2, <1>3, <1>5, <1>6 DEF Parser!Negated

\* What it says of a parse that has ended.
LEMMA ParserMeans ==
  ParserInv => Parser!TypeOK /\ Parser!NegatedFilesStay /\ Parser!InvertedOnce /\ Parser!CourtesyIsIdle
  <1> SUFFICES ASSUME ParserInv
               PROVE  Parser!TypeOK /\ Parser!NegatedFilesStay /\ Parser!InvertedOnce /\ Parser!CourtesyIsIdle
    OBVIOUS
  <1>1. said.lead \in Seq(LeadWords) /\ Matchable(said.body) /\ lead \in Tails(said.lead)
    BY DEF ParserInv, CallsInv
  <1>2. PICK c \in Tails(said.lead) : Bare(c)
    BY <1>1, BareIsLeft
  <1>3. /\ c \in Seq(LeadWords)
        /\ Parser!SaysNot <=> Parser!Not \in Said(said.lead)
        /\ Parser!SaysNot => Parser!Not \in Said(c) /\ Parser!Negated(c)
        /\ ~Parser!SaysNot => c = <<>>
    BY <1>2, LastReads
  <1>4. Parser!Finished => answer.command = Understood(c)
    BY <1>2 DEF Parser!Finished, ParserInv, UnderstoodInv
  <1>5. Parser!TypeOK
    <2>1. lead \in Seq(LeadWords)
      BY <1>1, <1>2, BareIsLast
    <2>2. Len(callers) \in 0 .. MaxCalls
      <3>1. Len(callers) \in Nat /\ Len(callers) <= MaxCalls
        BY LenProperties DEF ParserInv, CallsInv
      <3>2. MaxCalls \in Nat
        BY CommandsAssumption
      <3>3. QED
        BY <3>1, <3>2
    <2>3. DOMAIN said.body \subseteq Parser!Places
      BY <1>1, CascadeIs DEF Matchable
    <2>4. at \in {"guards", "match", "done"} /\ answer.negated \in BOOLEAN
      BY DEF ParserInv, CallsInv, AnswerInv
    <2>5. QED
      BY <2>1, <2>2, <2>3, <2>4 DEF Parser!TypeOK, LeadWords
  <1>6. Parser!NegatedFilesStay
    <2>1. Parser!Describe \notin Parser!FileChanges /\ Parser!LlmQuery \notin Parser!FileChanges
      <3>1. Parser!LlmQuery[1] = "LLM_QUERY" /\ Parser!Describe[1] = "OS_SCREEN_DESCRIBE"
        BY DEF Parser!LlmQuery, Parser!Describe
      <3>2. QED
        BY <3>1, FileChangesAre DEF Changing
    <2>2. Parser!SaysNot => Understood(c) \notin Parser!FileChanges
      BY <1>1, <1>3, <2>1, ResultHeeds DEF Understood
    <2>3. QED
      BY <1>4, <2>2 DEF Parser!NegatedFilesStay
  <1>7. Parser!InvertedOnce
    <2> SUFFICES ASSUME Parser!Finished, Parser!SaysNot, ~said.question, answer.command # Parser!LlmQuery
                 PROVE  \E i \in DOMAIN said.body : answer.command = Parser!Inverted(said.body[i].command)
      BY DEF Parser!InvertedOnce
    <2>1. CASE 23 \in DOMAIN said.body
      <3>1. answer.command = Parser!Describe /\ said.body[23].command = Parser!Describe
        BY <1>1, <1>4, <2>1 DEF Understood, Matchable
      <3>2. QED
        BY <2>1, <3>1, InvertedIs
    <2>2. CASE 23 \notin DOMAIN said.body
      <3>1. answer.command = Matched(c, said.body)
        BY <1>4, <2>2 DEF Understood
      <3>2. PICK i \in Knows(c, said.body) : answer.command = Negating(c, said.body[i].command)
        BY <1>1, <3>1, ResultIs
      <3>3. i \in DOMAIN said.body
        BY DEF Knows
      <3>4. QED
        BY <1>3, <3>2, <3>3 DEF Negating
    <2>3. QED
      BY <2>1, <2>2
  <1>8. Parser!CourtesyIsIdle
    <2> SUFFICES ASSUME Parser!Finished, ~Parser!SaysNot, ~said.question
                 PROVE  answer = Parser!Parsed(Parser!Meant, FALSE)
      BY DEF Parser!CourtesyIsIdle
    <2>1. answer = [command |-> answer.command, negated |-> FALSE]
      BY <1>3 DEF ParserInv, AnswerInv
    <2>2. answer.command = Parser!Meant
      <3>1. CASE 23 \in DOMAIN said.body
        <4>1. /\ answer.command = Parser!Describe
              /\ said.body[23].command = Parser!Describe
              /\ DOMAIN said.body = {23}
          BY <1>1, <1>4, <3>1 DEF Understood, Matchable
        <4>2. Parser!First({23}) = 23
          <5>1. {23} \in SUBSET (1 .. 24)
            OBVIOUS
          <5>2. QED
            BY <5>1, FirstPlace
        <4>3. QED
          BY <4>1, <4>2 DEF Parser!Meant
      <3>2. CASE 23 \notin DOMAIN said.body
        <4>1. answer.command = Matched(<<>>, said.body)
          BY <1>3, <1>4, <3>2 DEF Understood
        <4>2. ~Parser!Negated(<<>>)
          BY DEF Parser!Negated
        <4>3. \A r : Said(Reads(<<>>, r)) = {}
          BY <4>2 DEF Said, Reads, Parser!Stripped
        <4>4. Knows(<<>>, said.body) = DOMAIN said.body
          BY <4>3 DEF Knows
        <4>5. QED
          BY <4>1, <4>2, <4>4 DEF Matched, Negating, Parser!Meant
      <3>3. QED
        BY <3>1, <3>2
    <2>3. QED
      BY <2>1, <2>2 DEF Parser!Parsed
  <1>9. QED
    BY <1>5, <1>6, <1>7, <1>8

-----------------------------------------------------------------------------
(* All the parts.                                                          *)

\* What holds of every part; what is heard, planned and spelled out only while it is played.
CommandsInv ==
  /\ part = "parser" => ParserInv
  /\ part = "keywords" => KeywordsInv
  /\ part = "planner" => PlannerInv
  /\ part = "numbers" => SpokenInv
  /\ TiersInv /\ BufferInv /\ RadiosInv /\ RecorderInv /\ ControlsInv /\ CatalogInv /\ ProgramsInv
  /\ LevelsInv /\ TogglesInv

\* A step of the whole is a step of one part, and the others stay.
LEMMA CommandsSteps ==
  ASSUME [CommandsNext]_commandsVars
  PROVE  /\ part' = part
         /\ part = "parser" => [Parser!Next]_Parser!vars
         /\ part = "keywords" => [Keywords!Next]_Keywords!ksVars
         /\ part = "planner" => [Planner!Next]_Planner!tpVars
         /\ part = "numbers" => [Spoken!Next]_Spoken!snVars
         /\ [Tiers!Next]_Tiers!unVars /\ [Buffer!Next]_Buffer!sbVars /\ [Radio!Next]_Radio!raVars
         /\ [Recorder!Next]_Recorder!srVars /\ [Controls!Next]_Controls!scVars
         /\ [Catalog!Next]_Catalog!acVars /\ [Control!Next]_Control!pcVars
         /\ [Levels!Next]_Levels!lvVars /\ [Toggles!Next]_Toggles!wtVars
  <1> USE DEF cpVars, unVars, ksVars, tpVars, snVars, sbVars, raVars, srVars, scVars, lvVars, wtVars, acVars, pcVars,
              textVars, switchVars, appVars, OnText, OnSwitches,
              Parser!vars, Tiers!unVars, Keywords!ksVars, Planner!tpVars, Spoken!snVars, Buffer!sbVars, Radio!raVars,
              Recorder!srVars, Controls!scVars, Levels!lvVars, Toggles!wtVars, Catalog!acVars, Control!pcVars
  <1>1. CASE UNCHANGED commandsVars
    BY <1>1 DEF commandsVars
  <1>2. CASE OfParser(Parser!Next)
    BY <1>2 DEF OfParser
  <1>3. CASE OfTiers(Tiers!Next)
    BY <1>3 DEF OfTiers
  <1>4. CASE OfKeywords(Keywords!Next)
    BY <1>4 DEF OfKeywords
  <1>5. CASE OfPlanner(Planner!Next)
    BY <1>5 DEF OfPlanner
  <1>6. CASE OfNumbers(Spoken!Next)
    BY <1>6 DEF OfNumbers
  <1>7. CASE OfBuffer(Buffer!Next)
    BY <1>7 DEF OfBuffer
  <1>8. CASE OfRadios(Radio!Next)
    BY <1>8 DEF OfRadios
  <1>9. CASE OfRecorder(Recorder!Next)
    BY <1>9 DEF OfRecorder
  <1>10. CASE OfControls(Controls!Next)
    BY <1>10 DEF OfControls
  <1>11. CASE OfLevels(Levels!Next)
    BY <1>11 DEF OfLevels
  <1>12. CASE OfToggles(Toggles!Next)
    BY <1>12 DEF OfToggles
  <1>13. CASE OfCatalog(Catalog!Next)
    BY <1>13 DEF OfCatalog
  <1>14. CASE OfPrograms(Control!Next)
    BY <1>14 DEF OfPrograms
  <1>15. QED
    BY <1>1, <1>2, <1>3, <1>4, <1>5, <1>6, <1>7, <1>8, <1>9, <1>10, <1>11, <1>12, <1>13, <1>14
    DEF CommandsNext

\* Every part keeps its invariant.
LEMMA CommandsHold == CommandsSpec => []CommandsInv
  <1>1. CommandsInit => CommandsInv
    BY ParserBegins, KeywordsBegin, PlannerBegins, SpokenBegins, TiersBegin, BufferBegins, RadiosBegin,
       RecorderBegins,
       ControlsBegin, CatalogBegins, ProgramsBegin, LevelsBegin, TogglesBegin DEF CommandsInit, CommandsInv
  <1>2. CommandsInv /\ [CommandsNext]_commandsVars => CommandsInv'
    BY CommandsSteps, ParserSteps, KeywordsSteps, PlannerSteps, SpokenSteps, TiersSteps, BufferSteps,
       RadiosSteps,
       RecorderSteps, ControlsSteps, CatalogSteps, ProgramsSteps, LevelsSteps, TogglesSteps DEF CommandsInv
  <1>3. QED
    BY <1>1, <1>2, PTL DEF CommandsSpec

\* A sentence that opens with "don't" changes no file, is inverted once and only once, and courtesies
\* change nothing, over the nested calls: command_parser.py.
THEOREM NegationKept == CommandsSpec => []NegationIsKept
  <1>1. CommandsInv => NegationIsKept
    BY ParserMeans DEF CommandsInv, NegationIsKept
  <1>2. QED
    BY <1>1, CommandsHold, PTL

\* Whatever tier has understood a text, a question stays one, two close meanings are asked about, what
\* is executed is complete and no guess, and a number is what was said: nlp/, command_router.py,
\* intent_schema.py and the numbers of command_parser.py.
THEOREM UnderstandingIsSafe == CommandsSpec => []UnderstoodSafely
  <1>1. CommandsInv => UnderstoodSafely
    BY TiersMean, SpokenMeans DEF CommandsInv, KeywordsInv, UnderstoodSafely
  <1>2. QED
    BY <1>1, CommandsHold, PTL

\* The steps of a plan end at the first that fails and work on what was really found; none runs when an
\* argument cannot be converted, and who hears of an error after a step had none that failed:
\* action_planner.py, tool_caller.py.
THEOREM PlansStop == CommandsSpec => []PlanStops
  <1>1. CommandsInv => PlanStops
    BY PlannerMeans DEF CommandsInv, PlanStops
  <1>2. QED
    BY <1>1, CommandsHold, PTL

\* The pieces that are spoken are the answer: sentence_buffer.py.
THEOREM AnswerIsWhole == CommandsSpec => []PiecesAreWhole
  <1>1. CommandsInv => PiecesAreWhole
    BY DEF CommandsInv, BufferInv, PiecesAreWhole
  <1>2. QED
    BY <1>1, CommandsHold, PTL

\* An effect that must not be repeated is had once, and is logged unless an exception ended it; a
\* recording that runs is held unless a stop failed to end it; what the catalog does not know is not
\* there, no tie is acted on, the shell lives, and "up" is down only after a cut script: system_ops.py,
\* capture_ops.py, app_scanner.py, app_ops.py and native_ops.py.
THEOREM DeedsKnown == CommandsSpec => []DeedsAreKnown
  <1>1. CommandsInv => DeedsAreKnown
    BY ControlsMean, CatalogMeans, ProgramsMean, LevelsMean
    DEF CommandsInv, ControlsInv, RecorderInv, RadiosInv, LevelsInv, TogglesInv, DeedsAreKnown
  <1>2. QED
    BY <1>1, CommandsHold, PTL

\* A word that fills the buffer to the hard limit, and is no connector, gives a piece to speak:
\* sentence_buffer.py.
THEOREM LimitChunks == CommandsSpec => Buffer!LimitGivesChunk
  <1>1. CommandsInv /\ [CommandsNext]_commandsVars => [GivesChunk]_Buffer!sbVars
    BY CommandsSteps, BufferSteps DEF CommandsInv
  <1>2. QED
    BY <1>1, CommandsHold, PTL DEF CommandsSpec, Buffer!LimitGivesChunk, GivesChunk

\* With the verification on, an order to the radios is said to be done when each radio is as it was read
\* and wanted, and the "off" after an "on" brings each back to where it was, unless a hand switches one
\* or the order wants one radio both ways: radio_ops.py.
THEOREM RadiosAreTrue == CommandsSpec => Radio!NoPartialSuccess /\ Radio!RestoresBefore
  <1>1. CommandsInv /\ [CommandsNext]_commandsVars => [DoneIsSet]_Radio!raVars /\ [BackBefore]_Radio!raVars
    BY CommandsSteps, RadiosMean DEF CommandsInv
  <1>2. QED
    BY <1>1, CommandsHold, PTL
       DEF CommandsSpec, Radio!NoPartialSuccess, Radio!RestoresBefore, DoneIsSet, BackBefore, SaidDone

\* A level is said to be set when it was read back: native_ops.py.
THEOREM LevelIsSaid == CommandsSpec => Levels!SaidWhenTrue
  <1>1. [CommandsNext]_commandsVars => [SaidIsSo]_Levels!lvVars
    BY CommandsSteps, LevelsSay
  <1>2. QED
    BY <1>1, PTL DEF CommandsSpec, Levels!SaidWhenTrue, SaidIsSo, SetterPlaces

\* A setting of Windows is said to be changed when it is as it was wished, or could not be read, which a
\* night light and captions to be closed may: windows_toggles.py.
THEOREM SettingIsVerified == CommandsSpec => Toggles!VerifiedIsTrue
  <1>1. CommandsInv /\ [CommandsNext]_commandsVars => [AsWished]_Toggles!wtVars
    BY CommandsSteps, TogglesSay DEF CommandsInv
  <1>2. QED
    BY <1>1, CommandsHold, PTL DEF CommandsSpec, Toggles!VerifiedIsTrue, AsWished

\* The user is asked to confirm the end of a program only if it was seen running, where processes can be
\* seen: app_ops.py.
THEOREM AskedOfRunning == CommandsSpec => Control!AskedWhileRunning
  <1>1. CommandsInv /\ [CommandsNext]_commandsVars => [RunsLately]_Control!pcVars
    BY CommandsSteps, ProgramsSteps DEF CommandsInv
  <1>2. QED
    BY <1>1, CommandsHold, PTL DEF CommandsSpec, Control!AskedWhileRunning, RunsLately

-----------------------------------------------------------------------------
(* The router.                                                             *)

USE RouterAssumption, SessionAssumption, NoneAssumption

-----------------------------------------------------------------------------
(* The invariant.                                                          *)

\* The turn has not come to the cascade yet.
Early == {"target", "age", "task", "value", "pending", "reply"}

\* What the turn r carries along fits the point where it is.
Fits(r) ==
  /\ r.pc = "reply" => r.seen # None
  /\ r.pc = "value" => r.left \in 1 .. 3
  /\ r.way = "both" => r.cmd.kind = "close" /\ r.place = "top"
  /\ r.way = "blocked" =>
       r.said = "it" /\ r.pc \in {"task", "value", "pending", "reply", "route"}
  /\ r.pc \in {"target", "age"} => r.said = "it" /\ r.way = "plain"

TurnsOk == \A t \in Threads : Fits(turn[t])

\* Nothing is counted while a desktop is connected.
Uncounted == session.desktop => rounds = 0 /\ answered = 0

\* The user is asked only what is stored, and nothing but the reply takes it away.
AskedInv(r) ==
  /\ r.pc \in Early => waiting = "no"
  /\ waiting = "direct" => pending # None

\* Whoever comes to the cascade has no question and no task to answer, and leaves the one
\* that it asks.
AwaitedInv(r) ==
  /\ r.pc = "idle" /\ pending # None => waiting = "direct"
  /\ task # None => pending = None
  /\ r.pc = "value" => pending = None
  /\ r.pc \in {"pending", "reply", "route"} => task = None
  /\ r.pc \in {"route", "dispatch"} => pending = None
  /\ r.pc = "after" /\ pending # None =>
       waiting = "direct" /\ r.outcome = "done" /\ r.place = "top" /\ r.way # "both"
  /\ r.pc = "dispatch" /\ r.place = "top" => task = None
  /\ r.pc = "after" /\ r.place = "top" /\ (r.outcome = "question" \/ r.way = "both") => task = None

\* A question counts its useless replies, and is answered by what was not answered yet.
CountInv(r) ==
  /\ pending # None => rounds <= pending.attempts /\ answered = 0
  /\ r.pc = "reply" => rounds <= r.seen.attempts /\ answered = 0
  /\ rounds < MaxRounds /\ answered <= 1

\* What the turn took for fresh was fresh when it read it.
FreshInv(r) ==
  /\ r.pc = "age" /\ last[Ref(r.cmd)].fresh => r.fresh
  /\ /\ r.pc \in {"task", "value", "pending", "reply", "route", "dispatch", "after"}
     /\ r.way # "blocked"
     => r.fresh
  /\ ~staleUse

\* r is the turn of the voice.
Alone(r) == AskedInv(r) /\ (~stray => AwaitedInv(r)) /\ CountInv(r) /\ FreshInv(r)

AloneInv == ~session.desktop => (\A t \in Threads \ {Voice} : turn[t].pc = "idle") /\ Alone(turn[Voice])

RouterInv == TypeOK /\ TurnsOk /\ Uncounted /\ AloneInv

-----------------------------------------------------------------------------
(* Types.                                                                  *)

\* The types of what the threads share.
Memory ==
  /\ pending \in Question \cup {None}
  /\ task \in 1..3 \cup {None}
  /\ last \in [{"app", "file"} -> [target : Targets \cup {None}, fresh : BOOLEAN]]
  /\ previous \in Targets \cup {None}
  /\ remembered \in BOOLEAN /\ queued \in BOOLEAN /\ stray \in BOOLEAN /\ staleUse \in BOOLEAN
  /\ batch \in Kinds \cup {None}
  /\ waiting \in {"no", "direct", "nested"}
  /\ rounds \in Nat /\ answered \in Nat
  /\ inBatch \subseteq BatchRefuses
  /\ session \in Sessions

\* The type invariant in two parts.
LEMMA TypeParts == TypeOK <=> turn \in [Threads -> Turn] /\ Memory
  BY DEF TypeOK, Memory

\* The same for the next state.
LEMMA TypePartsNext == TypeOK' <=> turn' \in [Threads -> Turn] /\ Memory'
  BY DEF TypeOK, Memory

\* The fields of a session.
LEMMA SessionTyped ==
  ASSUME NEW s \in Sessions
  PROVE  s.kinds \subseteq Kinds /\ s.desktop \in BOOLEAN
  OBVIOUS

\* The commands that the cascade makes are commands.
LEMMA Commands ==
  /\ \A kinds : Of(kinds) \subseteq Command
  /\ \A kinds : \A c \in Of(kinds) : c.kind \in kinds
  /\ \A k \in Kinds : Simple(k) \in Command /\ Simple(k).kind = k
  /\ Query \in Command /\ Query.kind = "query"
  BY DEF Of, Command, Simple, Query, Kinds, OnTarget, Plain

\* The fields of a turn.
Fields(r, pc, word, cmd, way, depth, rest, end, seen, fresh) ==
  /\ r \in Turn
  /\ r.pc = pc /\ r.said = word /\ r.cmd = cmd /\ r.way = way /\ r.place = depth
  /\ r.left = rest /\ r.outcome = end /\ r.seen = seen /\ r.fresh = fresh

\* The turn that has not begun.
LEMMA IdleFields == Fields(Idle, "idle", "noise", Query, "plain", "top", 0, "none", None, TRUE)
  BY Commands DEF Idle, Turn, Fields, Points, Utterances

\* ReadTarget keeps the kind of the command.
LEMMA Aimed ==
  ASSUME NEW c \in Command, NEW x \in Targets \cup {None}
  PROVE  /\ [c EXCEPT !.target = x] \in Command
         /\ [c EXCEPT !.target = x].kind = c.kind
         /\ [c EXCEPT !.target = x].target = x
  BY DEF Command

-----------------------------------------------------------------------------
(* Steps.                                                                  *)

\* The memory as it was.
Still ==
  /\ pending' = pending /\ task' = task /\ last' = last /\ previous' = previous
  /\ remembered' = remembered /\ queued' = queued /\ batch' = batch /\ session' = session
  /\ waiting' = waiting /\ stray' = stray /\ rounds' = rounds /\ staleUse' = staleUse
  /\ answered' = answered /\ inBatch' = inBatch

\* Thread t becomes r: what there is to show.
LEMMA Step ==
  ASSUME RouterInv, NEW t \in Threads, NEW r \in Turn, Become(t, r), Fits(r),
         session' = session, Memory', Uncounted',
         ~session.desktop => t = Voice /\ Alone(r)'
  PROVE  RouterInv'
<1>1. turn \in [Threads -> Turn] /\ Memory
  BY TypeParts DEF RouterInv
<1>2. turn' \in [Threads -> Turn] /\ turn'[t] = r /\ \A u \in Threads \ {t} : turn'[u] = turn[u]
  BY <1>1 DEF Become
<1>3. TypeOK'
  BY <1>2, TypePartsNext
<1>4. TurnsOk'
  BY <1>2 DEF RouterInv, TurnsOk, Fits
<1>5. AloneInv'
  <2>1. CASE session.desktop
    BY <2>1 DEF AloneInv
  <2>2. CASE ~session.desktop
    <3>1. \A u \in Threads \ {Voice} : turn'[u].pc = "idle"
      BY <1>2, <2>2 DEF RouterInv, AloneInv
    <3>2. turn'[Voice] = r /\ Alone(r)'
      BY <1>2, <2>2
    <3>3. Alone(turn[Voice])'
      BY <3>2 DEF Alone, AskedInv, AwaitedInv, CountInv, FreshInv
    <3> QED
      BY <3>1, <3>3 DEF AloneInv
  <2> QED
    BY <2>1, <2>2
<1> QED
  BY <1>3, <1>4, <1>5 DEF RouterInv

\* Who is under way without a desktop is the voice, and what is known of its turn.
LEMMA Mine ==
  ASSUME RouterInv, NEW t \in Threads, ~session.desktop, turn[t].pc # "idle"
  PROVE  t = Voice /\ Alone(turn[t])
  BY DEF RouterInv, AloneInv

\* What is known of thread t.
LEMMA Known ==
  ASSUME RouterInv, NEW t \in Threads
  PROVE  /\ turn[t] \in Turn /\ Fits(turn[t]) /\ Memory /\ Uncounted
         /\ session.kinds \subseteq Kinds /\ session.desktop \in BOOLEAN
<1>1. turn \in [Threads -> Turn] /\ Memory
  BY TypeParts DEF RouterInv
<1> QED
  BY <1>1, SessionTyped DEF RouterInv, TurnsOk, Memory

\* A step that leaves the memory alone.
LEMMA QuietStep ==
  ASSUME RouterInv, NEW t \in Threads, NEW r \in Turn, Become(t, r), Fits(r), Still,
         turn[t].pc # "idle",
         ~session.desktop /\ Alone(turn[t]) => Alone(r)
  PROVE  RouterInv'
<1>1. Memory /\ Uncounted
  BY Known
<1>2. Memory' /\ Uncounted'
  BY <1>1 DEF Still, Memory, Uncounted
<1>3. ASSUME ~session.desktop
      PROVE  t = Voice /\ Alone(r)'
  <2>1. t = Voice /\ Alone(r)
    BY <1>3, Mine
  <2> QED
    BY <2>1 DEF Still, Alone, AskedInv, AwaitedInv, CountInv, FreshInv
<1> QED
  BY <1>2, <1>3, Step DEF Still

-----------------------------------------------------------------------------
(* The utterance, and what it refers to.                                   *)

\* Hear begins a turn: nothing is asked any more, and nothing is known yet.
LEMMA HearStep ==
  ASSUME RouterInv, NEW t \in Threads, Hear(t)
  PROVE  RouterInv'
<1>1. turn[t] \in Turn /\ Memory /\ Uncounted /\ session.kinds \subseteq Kinds
  BY Known
<1>2. PICK r : /\ Become(t, r)
               /\ \/ \E u \in Utterances \ {"it"} : r = [Idle EXCEPT !.pc = "task", !.said = u]
                  \/ \E k \in OnTarget \cap session.kinds :
                       r = [Idle EXCEPT !.pc = "target", !.said = "it", !.cmd = Simple(k)]
  BY DEF Hear
<1>3. /\ r \in Turn /\ r.pc \in {"task", "target"} /\ r.way = "plain" /\ r.fresh
      /\ r.pc = "target" => r.said = "it"
  <2>1. CASE \E u \in Utterances \ {"it"} : r = [Idle EXCEPT !.pc = "task", !.said = u]
    <3>1. PICK u \in Utterances \ {"it"} : r = [Idle EXCEPT !.pc = "task", !.said = u]
      BY <2>1
    <3> QED
      BY <3>1, IdleFields DEF Fields, Turn, Points
  <2>2. CASE \E k \in OnTarget \cap session.kinds :
               r = [Idle EXCEPT !.pc = "target", !.said = "it", !.cmd = Simple(k)]
    <3>1. PICK k \in OnTarget \cap session.kinds :
                 r = [Idle EXCEPT !.pc = "target", !.said = "it", !.cmd = Simple(k)]
      BY <2>2
    <3>2. Simple(k) \in Command
      BY <1>1, Commands
    <3> QED
      BY <3>1, <3>2, IdleFields DEF Fields, Turn, Points, Utterances
  <2> QED
    BY <1>2, <2>1, <2>2
<1>4. /\ waiting' = "no" /\ pending' = pending /\ task' = task /\ last' = last /\ stray' = stray
      /\ rounds' = rounds /\ staleUse' = staleUse /\ answered' = answered /\ session' = session
  BY DEF Hear, store, refs
<1>5. Memory' /\ Uncounted'
  BY <1>1, <1>4 DEF Hear, store, refs, Memory, Uncounted
<1>6. Fits(r)
  BY <1>3 DEF Fits
<1>7. ASSUME ~session.desktop
      PROVE  t = Voice /\ Alone(r)'
  <2>1. t = Voice /\ turn[t].pc = "idle"
    BY <1>7 DEF Hear, At
  <2>2. Alone(turn[Voice])
    BY <1>7 DEF RouterInv, AloneInv
  <2>3. AskedInv(r)'
    BY <1>3, <1>4 DEF AskedInv
  <2>4. ~stray' => AwaitedInv(r)'
    BY <1>3, <1>4, <2>1, <2>2 DEF Alone, AwaitedInv
  <2>5. CountInv(r)'
    BY <1>3, <1>4, <2>1, <2>2 DEF Alone, CountInv
  <2>6. FreshInv(r)'
    BY <1>3, <1>4, <2>1, <2>2 DEF Alone, FreshInv
  <2> QED
    BY <2>1, <2>3, <2>4, <2>5, <2>6 DEF Alone
<1> QED
  BY <1>2, <1>3, <1>4, <1>5, <1>6, <1>7, Step

\* ReadTarget takes the value and whether it is fresh.
LEMMA ReadTargetStep ==
  ASSUME RouterInv, NEW t \in Threads, ReadTarget(t)
  PROVE  RouterInv'
<1> DEFINE m == turn[t]
           ref == last[Ref(m.cmd)]
<1>1. m \in Turn /\ Fits(m) /\ Memory
  BY Known
<1>2. PICK r : r = [m EXCEPT !.pc = "age", !.cmd.target = ref.target, !.fresh = ref.fresh]
  OBVIOUS
<1>3. Become(t, r) /\ Still /\ m.pc = "target"
  BY <1>2 DEF ReadTarget, Me, At, store, refs, history, Still
<1>4. ref.target \in Targets \cup {None} /\ ref.fresh \in BOOLEAN /\ m.cmd \in Command
  BY <1>1 DEF Memory, Ref, Turn
<1>5. /\ r \in Turn /\ r.pc = "age" /\ r.said = m.said /\ r.way = m.way /\ r.fresh = ref.fresh
      /\ Ref(r.cmd) = Ref(m.cmd)
  <2>1. PICK x \in Targets \cup {None}, f \in BOOLEAN : x = ref.target /\ f = ref.fresh
    BY <1>4
  <2>2. r = [m EXCEPT !.pc = "age", !.cmd.target = x, !.fresh = f]
    BY <1>2, <2>1
  <2>3. /\ r \in Turn /\ r.pc = "age" /\ r.said = m.said /\ r.way = m.way /\ r.fresh = f
        /\ r.cmd.kind = m.cmd.kind
    BY <1>1, <2>2 DEF Turn, Points, Command
  <2> QED
    BY <2>1, <2>3 DEF Ref
<1>6. Fits(r)
  BY <1>1, <1>3, <1>5 DEF Fits
<1>7. Alone(m) => Alone(r)
  BY <1>1, <1>3, <1>5 DEF Fits, Alone, AskedInv, AwaitedInv, CountInv, FreshInv, Early
<1> QED
  BY <1>3, <1>5, <1>6, <1>7, QuietStep

\* ReadAge blocks what is not usable.
LEMMA ReadAgeStep ==
  ASSUME RouterInv, NEW t \in Threads, ReadAge(t)
  PROVE  RouterInv'
<1> DEFINE m == turn[t]
<1>1. m \in Turn /\ Fits(m) /\ Memory
  BY Known
<1>2. PICK r : r = [m EXCEPT !.pc = "task", !.way = IF Usable(t) THEN "plain" ELSE "blocked"]
  OBVIOUS
<1>3. Become(t, r) /\ Still /\ m.pc = "age"
  BY <1>2 DEF ReadAge, Me, At, store, refs, history, Still
<1>4. /\ r \in Turn /\ r.pc = "task" /\ r.said = m.said /\ r.fresh = m.fresh
      /\ (r.way = "plain" /\ last[Ref(m.cmd)].fresh) \/ r.way = "blocked"
  BY <1>1, <1>2 DEF Turn, Points, Usable, Me
<1>5. Fits(r)
  BY <1>1, <1>3, <1>4 DEF Fits
<1>6. Alone(m) => Alone(r)
  BY <1>1, <1>3, <1>4 DEF Alone, AskedInv, AwaitedInv, CountInv, FreshInv, Early
<1> QED
  BY <1>3, <1>4, <1>5, <1>6, QuietStep

\* ReadTask goes on to the question, or to the value of the task.
LEMMA ReadTaskStep ==
  ASSUME RouterInv, NEW t \in Threads, ReadTask(t)
  PROVE  RouterInv'
<1> DEFINE m == turn[t]
<1>1. m \in Turn /\ Fits(m) /\ Memory
  BY Known
<1>2. PICK r : r = IF task = None THEN [m EXCEPT !.pc = "pending"]
                   ELSE [m EXCEPT !.pc = "value", !.left = task]
  OBVIOUS
<1>3. Become(t, r) /\ Still /\ m.pc = "task"
  BY <1>2 DEF ReadTask, Me, At, store, refs, history, Still
<1>4. /\ r \in Turn /\ r.said = m.said /\ r.fresh = m.fresh /\ r.way = m.way /\ r.cmd = m.cmd
      /\ r.place = m.place
      /\ \/ task = None /\ r.pc = "pending"
         \/ task # None /\ r.pc = "value" /\ r.left \in 1 .. 3
  <2>1. CASE task = None
    BY <1>1, <1>2, <2>1 DEF Turn, Points
  <2>2. CASE task # None
    <3>1. task \in 1 .. 3
      BY <1>1, <2>2 DEF Memory
    <3>2. task \in Nat /\ r = [m EXCEPT !.pc = "value", !.left = task]
      BY <1>2, <2>2, <3>1
    <3>3. /\ r \in Turn /\ r.said = m.said /\ r.fresh = m.fresh /\ r.way = m.way /\ r.cmd = m.cmd
          /\ r.place = m.place /\ r.pc = "value" /\ r.left = task
      BY <1>1, <3>2 DEF Turn, Points
    <3> QED
      BY <2>2, <3>1, <3>3
  <2> QED
    BY <2>1, <2>2
<1>5. Fits(r)
  BY <1>1, <1>3, <1>4 DEF Fits
<1>6. Alone(m) => Alone(r)
  BY <1>1, <1>3, <1>4 DEF Alone, AskedInv, AwaitedInv, CountInv, FreshInv, Early
<1> QED
  BY <1>3, <1>4, <1>5, <1>6, QuietStep

\* ReadPending copies the question, if there is one.
LEMMA ReadPendingStep ==
  ASSUME RouterInv, NEW t \in Threads, ReadPending(t)
  PROVE  RouterInv'
<1> DEFINE m == turn[t]
<1>1. m \in Turn /\ Fits(m) /\ Memory
  BY Known
<1>2. PICK r : r = [m EXCEPT !.pc = IF pending = None THEN "route" ELSE "reply", !.seen = pending]
  OBVIOUS
<1>3. Become(t, r) /\ Still /\ m.pc = "pending"
  BY <1>2 DEF ReadPending, Me, At, store, refs, history, Still
<1>4. /\ r \in Turn /\ r.said = m.said /\ r.fresh = m.fresh /\ r.way = m.way /\ r.cmd = m.cmd
      /\ r.place = m.place /\ r.seen = pending
      /\ \/ pending = None /\ r.pc = "route"
         \/ pending # None /\ r.pc = "reply"
  BY <1>1, <1>2 DEF Turn, Points, Memory
<1>5. Fits(r)
  BY <1>1, <1>3, <1>4 DEF Fits
<1>6. Alone(m) => Alone(r)
  BY <1>1, <1>3, <1>4 DEF Alone, AskedInv, AwaitedInv, CountInv, FreshInv, Early
<1> QED
  BY <1>3, <1>4, <1>5, <1>6, QuietStep

-----------------------------------------------------------------------------
(* Turns that end.                                                         *)

\* The turn of thread t ends: what there is to show.
LEMMA EndStep ==
  ASSUME RouterInv, NEW t \in Threads, EndTurn(t), turn[t].pc # "idle",
         session' = session, Memory', Uncounted',
         ~session.desktop /\ Alone(turn[t]) => Alone(Idle)'
  PROVE  RouterInv'
<1>1. Idle \in Turn /\ Idle.pc = "idle" /\ Idle.way = "plain"
  BY IdleFields DEF Fields
<1>2. Become(t, Idle) /\ Fits(Idle)
  BY <1>1 DEF EndTurn, Fits
<1>3. ~session.desktop => t = Voice /\ Alone(Idle)'
  BY Mine
<1> QED
  BY <1>1, <1>2, <1>3, Step

\* What is to show of the voice's turn when it is idle.
LEMMA AloneIdle ==
  Alone(Idle)' <=>
    /\ waiting' = "direct" => pending' # None
    /\ ~stray' => /\ pending' # None => waiting' = "direct"
                  /\ task' # None => pending' = None
    /\ pending' # None => rounds' <= pending'.attempts /\ answered' = 0
    /\ rounds' < MaxRounds /\ answered' <= 1 /\ ~staleUse'
<1>1. Idle.pc = "idle"
  BY IdleFields DEF Fields
<1> QED
  BY <1>1 DEF Alone, AskedInv, AwaitedInv, CountInv, FreshInv, Early

\* WriteTask stores what is left of the task.
LEMMA WriteTaskStep ==
  ASSUME RouterInv, NEW t \in Threads, WriteTask(t)
  PROVE  RouterInv'
<1> DEFINE m == turn[t]
<1>1. m \in Turn /\ Fits(m) /\ Memory /\ Uncounted
  BY Known
<1>2. /\ EndTurn(t) /\ m.pc = "value" /\ task' = Missing(m.left)
      /\ pending' = pending /\ last' = last /\ previous' = previous /\ remembered' = remembered
      /\ queued' = queued /\ batch' = batch /\ session' = session /\ waiting' = waiting
      /\ stray' = stray /\ rounds' = rounds /\ staleUse' = staleUse /\ answered' = answered
      /\ inBatch' = inBatch
  BY DEF WriteTask, Me, At, refs, history
<1>3. task' \in 1 .. 3 \cup {None}
  BY <1>1, <1>2 DEF Missing, Fits
<1>4. Memory' /\ Uncounted'
  BY <1>1, <1>2, <1>3 DEF Memory, Uncounted
<1>5. Alone(m) => Alone(Idle)'
  BY <1>2, AloneIdle DEF Alone, AskedInv, AwaitedInv, CountInv, FreshInv, Early
<1> QED
  BY <1>2, <1>4, <1>5, EndStep

-----------------------------------------------------------------------------
(* The pending question.                                                   *)

\* What is known of a thread that has read a question.
LEMMA Replying ==
  ASSUME RouterInv, NEW t \in Threads, At(t, "reply")
  PROVE  /\ turn[t].pc = "reply" /\ turn[t].seen \in Question
         /\ turn[t].seen.attempts \in 0 .. MaxRounds /\ turn[t].seen.kind \in Kinds
         /\ ~session.desktop /\ Alone(turn[t]) =>
              /\ waiting = "no" /\ (~stray => task = None)
              /\ rounds <= turn[t].seen.attempts /\ answered = 0
<1>1. turn[t] \in Turn /\ Fits(turn[t])
  BY Known
<1>2. turn[t].pc = "reply" /\ turn[t].seen \in Question
  BY <1>1 DEF At, Fits, Turn
<1> QED
  BY <1>2 DEF Question, Alone, AskedInv, AwaitedInv, CountInv, Early

\* Resolve takes the question away and makes the command it was about.
LEMMA ResolveStep ==
  ASSUME RouterInv, NEW t \in Threads, Resolve(t)
  PROVE  RouterInv'
<1> DEFINE m == turn[t]
           kinds == {IF m.seen.kind = "note" THEN "simple" ELSE m.seen.kind}
<1>1. m \in Turn /\ Memory /\ Uncounted /\ session.desktop \in BOOLEAN
  BY Known
<1>2. At(t, "reply")
  BY DEF Resolve, Replies
<1>3. PICK c \in Of(kinds) : Become(t, [Idle EXCEPT !.pc = "dispatch", !.cmd = c, !.way = "answer"])
  BY DEF Resolve, Me
<1>4. PICK r : r = [Idle EXCEPT !.pc = "dispatch", !.cmd = c, !.way = "answer"]
  OBVIOUS
<1>5. c \in Command
  BY Commands
<1>6. r \in Turn /\ r.pc = "dispatch" /\ r.way = "answer" /\ r.fresh
  BY <1>4, <1>5, IdleFields DEF Fields, Turn, Points
<1>7. Fits(r) /\ Become(t, r)
  BY <1>3, <1>4, <1>6 DEF Fits
<1>8. /\ pending' = None /\ remembered' = (remembered \/ m.seen.reason = "choice")
      /\ answered' = (IF session.desktop THEN answered ELSE answered + 1)
      /\ task' = task /\ last' = last /\ previous' = previous /\ queued' = queued /\ batch' = batch
      /\ session' = session /\ waiting' = waiting /\ stray' = stray /\ rounds' = rounds
      /\ staleUse' = staleUse /\ inBatch' = inBatch
  BY DEF Resolve, ClearAnswered, Count, Me, refs
<1>9. Memory' /\ Uncounted'
  BY <1>1, <1>8 DEF Memory, Uncounted
<1>10. ASSUME ~session.desktop
       PROVE  t = Voice /\ Alone(r)'
  <2>1. t = Voice /\ Alone(m)
    BY <1>2, <1>10, Mine DEF At
  <2>2. waiting = "no" /\ (~stray => task = None) /\ answered = 0
    BY <1>2, <1>10, <2>1, Replying
  <2>3. rounds < MaxRounds /\ ~staleUse
    BY <2>1 DEF Alone, CountInv, FreshInv
  <2> QED
    BY <1>6, <1>8, <1>10, <2>1, <2>2, <2>3 DEF Alone, AskedInv, AwaitedInv, CountInv, FreshInv, Early
<1> QED
  BY <1>6, <1>7, <1>8, <1>9, <1>10, Step

\* CancelQuestion takes the question away.
LEMMA CancelQuestionStep ==
  ASSUME RouterInv, NEW t \in Threads, CancelQuestion(t)
  PROVE  RouterInv'
<1> DEFINE m == turn[t]
<1>1. m \in Turn /\ Memory /\ Uncounted
  BY Known
<1>2. At(t, "reply") /\ m.pc # "idle"
  BY DEF CancelQuestion, Replies, At
<1>3. /\ EndTurn(t) /\ pending' = None /\ task' = task /\ last' = last /\ previous' = previous
      /\ remembered' = remembered /\ queued' = queued /\ batch' = batch
      /\ session' = session /\ waiting' = waiting /\ stray' = stray /\ rounds' = rounds
      /\ staleUse' = staleUse /\ answered' = answered /\ inBatch' = inBatch
  BY DEF CancelQuestion, ClearCanceled, store, refs, history
<1>4. Memory' /\ Uncounted'
  BY <1>1, <1>3 DEF Memory, Uncounted
<1>5. ~session.desktop /\ Alone(m) => Alone(Idle)'
  BY <1>2, <1>3, Replying, AloneIdle DEF Alone, CountInv, FreshInv
<1> QED
  BY <1>2, <1>3, <1>4, <1>5, EndStep

\* Reprompt counts the reply and asks again.
LEMMA RepromptStep ==
  ASSUME RouterInv, NEW t \in Threads, Reprompt(t)
  PROVE  RouterInv'
<1> DEFINE m == turn[t]
           q == m.seen
           paged == q.reason = "choice" /\ m.said = "more"
<1>1. m \in Turn /\ Memory /\ Uncounted /\ session.desktop \in BOOLEAN
  BY Known
<1>2. At(t, "reply") /\ m.pc # "idle"
  BY DEF Reprompt, Useless, Replies, At
<1>3. q \in Question /\ q.attempts \in 0 .. MaxRounds /\ q # None
  BY <1>2, Replying
<1>4. /\ EndTurn(t) /\ pending' = Again(q, paged) /\ waiting' = "direct"
      /\ rounds' = (IF q.reason = "choice" \/ session.desktop THEN rounds ELSE rounds + 1)
      /\ task' = task /\ last' = last /\ previous' = previous
      /\ remembered' = remembered /\ queued' = queued /\ batch' = batch
      /\ session' = session /\ stray' = stray
      /\ staleUse' = staleUse /\ answered' = answered /\ inBatch' = inBatch
  BY DEF Reprompt, Count, Me, store, refs
<1>5. q.reason # "choice" => q.attempts + 1 < MaxRounds
  BY <1>3 DEF Reprompt, GivesUp, LastRound, Me
<1>6. /\ pending' \in Question /\ q.attempts <= pending'.attempts
      /\ q.reason # "choice" => pending'.attempts = q.attempts + 1
  <2>1. CASE paged \/ q.attempts = MaxRounds
    BY <1>3, <1>4, <1>5, <2>1 DEF Again
  <2>2. CASE ~(paged \/ q.attempts = MaxRounds)
    <3>1. PICK n \in 0 .. MaxRounds : n = q.attempts + 1
      BY <1>3, <2>2
    <3>2. pending' = [q EXCEPT !.attempts = n]
      BY <1>4, <2>2, <3>1 DEF Again
    <3>3. pending' \in Question /\ pending'.attempts = n
      BY <1>3, <3>2 DEF Question
    <3> QED
      BY <1>3, <3>1, <3>3
  <2> QED
    BY <2>1, <2>2
<1>7. Memory' /\ Uncounted'
  BY <1>1, <1>4, <1>6 DEF Memory, Uncounted
<1>8. ASSUME ~session.desktop, Alone(m)
      PROVE  Alone(Idle)'
  <2>1. (~stray => task = None) /\ rounds <= q.attempts /\ answered = 0
    BY <1>2, <1>8, Replying
  <2>2. rounds < MaxRounds /\ ~staleUse
    BY <1>8 DEF Alone, CountInv, FreshInv
  <2>3. rounds \in Nat /\ pending' # None /\ pending'.attempts \in Nat
    BY <1>1, <1>6 DEF Memory, Question
  <2>4. rounds' <= pending'.attempts /\ rounds' < MaxRounds
    BY <1>3, <1>4, <1>5, <1>6, <1>8, <2>1, <2>2, <2>3
  <2> QED
    BY <1>4, <2>1, <2>2, <2>3, <2>4, AloneIdle
<1> QED
  BY <1>2, <1>4, <1>7, <1>8, EndStep

\* What GiveUp and Bypass do to the memory.
LEMMA Forgotten ==
  ASSUME RouterInv, NEW t \in Threads, NEW r \in Turn, Become(t, r), Fits(r), At(t, "reply"),
         pending' = None, UNCHANGED <<store, session, history>>,
         r.pc \in {"route", "dispatch"},
         (r.way = turn[t].way /\ r.fresh = turn[t].fresh) \/ r.fresh
  PROVE  RouterInv'
<1> DEFINE m == turn[t]
<1>1. Memory /\ Uncounted /\ m.pc = "reply"
  BY Known DEF At
<1>2. /\ task' = task /\ last' = last /\ previous' = previous
      /\ remembered' = remembered /\ queued' = queued /\ batch' = batch
      /\ session' = session /\ waiting' = waiting /\ stray' = stray /\ rounds' = rounds
      /\ staleUse' = staleUse /\ answered' = answered /\ inBatch' = inBatch
  BY DEF store, refs, history
<1>3. Memory' /\ Uncounted'
  BY <1>1, <1>2 DEF Memory, Uncounted
<1>4. ASSUME ~session.desktop
      PROVE  t = Voice /\ Alone(r)'
  <2>1. t = Voice /\ Alone(m)
    BY <1>1, <1>4, Mine
  <2>2. waiting = "no" /\ (~stray => task = None)
    BY <1>4, <2>1, Replying
  <2>3. rounds < MaxRounds /\ answered <= 1 /\ ~staleUse /\ (m.way # "blocked" => m.fresh)
    BY <1>1, <2>1 DEF Alone, CountInv, FreshInv
  <2> QED
    BY <1>1, <1>2, <2>1, <2>2, <2>3 DEF Alone, AskedInv, AwaitedInv, CountInv, FreshInv, Early
<1> QED
  BY <1>2, <1>3, <1>4, Step

\* GiveUp answers, or goes to the cascade.
LEMMA GiveUpStep ==
  ASSUME RouterInv, NEW t \in Threads, GiveUp(t)
  PROVE  RouterInv'
<1> DEFINE m == turn[t]
<1>1. m \in Turn /\ Fits(m)
  BY Known
<1>2. At(t, "reply") /\ pending' = None /\ UNCHANGED <<store, session, history>>
  BY DEF GiveUp, Useless, Replies
<1>3. CASE m.seen.reason = "amount"
  <2>1. PICK r : r = [Idle EXCEPT !.pc = "dispatch", !.way = "answer"]
    OBVIOUS
  <2>2. r \in Turn /\ r.pc = "dispatch" /\ r.way = "answer" /\ r.fresh
    BY <2>1, IdleFields DEF Fields, Turn, Points
  <2>3. Become(t, r) /\ Fits(r)
    BY <1>3, <2>1, <2>2 DEF GiveUp, Me, Fits
  <2> QED
    BY <1>2, <2>2, <2>3, Forgotten
<1>4. CASE m.seen.reason # "amount"
  <2>1. PICK r : r = [m EXCEPT !.pc = "route", !.seen = None]
    OBVIOUS
  <2>2. /\ r \in Turn /\ r.pc = "route" /\ r.way = m.way /\ r.fresh = m.fresh
        /\ r.said = m.said /\ r.cmd = m.cmd /\ r.place = m.place
    BY <1>1, <2>1 DEF Turn, Points
  <2>3. Become(t, r) /\ Fits(r)
    BY <1>1, <1>4, <2>1, <2>2 DEF GiveUp, Me, Fits
  <2> QED
    BY <1>2, <2>2, <2>3, Forgotten
<1> QED
  BY <1>3, <1>4

\* Bypass goes to the cascade.
LEMMA BypassStep ==
  ASSUME RouterInv, NEW t \in Threads, Bypass(t)
  PROVE  RouterInv'
<1> DEFINE m == turn[t]
<1>1. m \in Turn /\ Fits(m)
  BY Known
<1>2. At(t, "reply") /\ pending' = None /\ UNCHANGED <<store, session, history>>
  BY DEF Bypass, Replies
<1>3. PICK r : r = [m EXCEPT !.pc = "route", !.seen = None]
  OBVIOUS
<1>4. /\ r \in Turn /\ r.pc = "route" /\ r.way = m.way /\ r.fresh = m.fresh
      /\ r.said = m.said /\ r.cmd = m.cmd /\ r.place = m.place
  BY <1>1, <1>3 DEF Turn, Points
<1>5. Become(t, r) /\ Fits(r)
  BY <1>1, <1>3, <1>4 DEF Bypass, Me, Fits
<1> QED
  BY <1>2, <1>4, <1>5, Forgotten

-----------------------------------------------------------------------------
(* The cascade of parser, classifiers and tools.                           *)

\* A question is asked where no task is open, and is the only one.
LEMMA AskStep ==
  ASSUME RouterInv, NEW t \in Threads, NEW reason \in Reasons, NEW c \in Command,
         Ask(t, reason, c), turn[t].pc # "idle",
         ~session.desktop /\ Alone(turn[t]) /\ ~stray => task = None
  PROVE  RouterInv'
<1> DEFINE m == turn[t]
<1>1. Memory /\ Uncounted
  BY Known
<1>2. /\ EndTurn(t) /\ pending' = [reason |-> reason, attempts |-> 0, kind |-> c.kind]
      /\ waiting' = "direct" /\ rounds' = 0 /\ answered' = 0
      /\ task' = task /\ last' = last /\ previous' = previous
      /\ remembered' = remembered /\ queued' = queued /\ batch' = batch
      /\ session' = session /\ stray' = stray /\ staleUse' = staleUse /\ inBatch' = inBatch
  BY DEF Ask, store, refs
<1>3. pending' \in Question /\ pending'.attempts = 0 /\ pending' # None
  BY <1>2 DEF Question, Command, Reasons
<1>4. Memory' /\ Uncounted'
  BY <1>1, <1>2, <1>3 DEF Memory, Uncounted
<1>5. ~session.desktop /\ Alone(m) => Alone(Idle)'
  BY <1>2, <1>3, AloneIdle DEF Alone, FreshInv
<1> QED
  BY <1>2, <1>4, <1>5, EndStep

\* What is known of a thread in the cascade.
LEMMA AtRoute ==
  ASSUME RouterInv, NEW t \in Threads, At(t, "route")
  PROVE  /\ turn[t].pc = "route" /\ turn[t].fresh \in BOOLEAN
         /\ Candidates(t) \subseteq Command
         /\ turn[t].way # "both" \/ turn[t].cmd.kind = "close"
         /\ Alone(turn[t]) => /\ ~stray => task = None /\ pending = None
                              /\ turn[t].way # "blocked" => turn[t].fresh
<1>1. turn[t] \in Turn /\ Fits(turn[t])
  BY Known
<1>2. turn[t].pc = "route"
  BY DEF At
<1>3. Candidates(t) \subseteq Command
  <2>1. turn[t].cmd \in Command
    BY <1>1 DEF Turn
  <2> QED
    BY <2>1, Commands DEF Candidates, Me
<1> QED
  BY <1>1, <1>2, <1>3 DEF Turn, Fits, Alone, AwaitedInv, FreshInv

\* AskTie asks which of two is meant.
LEMMA AskTieStep ==
  ASSUME RouterInv, NEW t \in Threads, AskTie(t)
  PROVE  RouterInv'
<1>1. At(t, "route")
  BY DEF AskTie, Routing
<1>2. PICK c \in Of((OnTarget \cup {"simple"}) \cap session.kinds) : Ask(t, "tie", c)
  BY DEF AskTie
<1>3. c \in Command
  BY Commands
<1> QED
  BY <1>1, <1>2, <1>3, AskStep, AtRoute DEF Reasons

\* AskSlot asks for a missing value or a duration.
LEMMA AskSlotStep ==
  ASSUME RouterInv, NEW t \in Threads, AskSlot(t)
  PROVE  RouterInv'
<1>1. At(t, "route")
  BY DEF AskSlot, Routing
<1>2. PICK c \in Candidates(t) : Ask(t, "slot", c) \/ Ask(t, "amount", c)
  BY DEF AskSlot
<1> QED
  BY <1>1, <1>2, AskStep, AtRoute DEF Reasons

\* AskChoice asks which of several is meant.
LEMMA AskChoiceStep ==
  ASSUME RouterInv, NEW t \in Threads, AskChoice(t)
  PROVE  RouterInv'
<1>1. At(t, "route")
  BY DEF AskChoice, Routing
<1>2. PICK c \in Candidates(t) : Ask(t, "choice", c)
  BY DEF AskChoice
<1> QED
  BY <1>1, <1>2, AskStep, AtRoute DEF Reasons

\* A turn that ends in the cascade leaves no question.
LEMMA LeaveStep ==
  ASSUME RouterInv, NEW t \in Threads, At(t, "route"), EndTurn(t), Still
  PROVE  RouterInv'
<1>1. Memory /\ Uncounted
  BY Known
<1>2. Memory' /\ Uncounted'
  BY <1>1 DEF Still, Memory, Uncounted
<1>3. ~session.desktop /\ Alone(turn[t]) => Alone(Idle)'
  BY AtRoute, AloneIdle DEF Still, Alone, AskedInv, CountInv, FreshInv
<1> QED
  BY <1>2, <1>3, AtRoute, EndStep DEF Still

\* AnswerAtOnce ends the turn.
LEMMA AnswerAtOnceStep ==
  ASSUME RouterInv, NEW t \in Threads, AnswerAtOnce(t)
  PROVE  RouterInv'
<1>1. At(t, "route") /\ EndTurn(t) /\ Still
  BY DEF AnswerAtOnce, Still, store, refs, history
<1> QED
  BY <1>1, LeaveStep

\* The cascade has decided for a command, whose turn goes on as r.
LEMMA DecideStep ==
  ASSUME RouterInv, NEW t \in Threads, At(t, "route"), turn[t].way # "blocked", Still,
         NEW r \in Turn, Become(t, r), Fits(r), r.pc = "dispatch", r.fresh = turn[t].fresh
  PROVE  RouterInv'
<1>1. Alone(turn[t]) => Alone(r)
  BY AtRoute DEF Alone, AskedInv, AwaitedInv, CountInv, FreshInv, Early
<1> QED
  BY <1>1, AtRoute, QuietStep

\* The record with which a command is dispatched.
LEMMA RunFields ==
  ASSUME RouterInv, NEW t \in Threads, NEW c \in Command
  PROVE  Fields(Run(t, c), "dispatch", "noise", c, "plain", "top", 0, "none", None, turn[t].fresh)
<1>1. turn[t].fresh \in BOOLEAN
  BY Known DEF Turn
<1> QED
  BY <1>1, IdleFields DEF Run, Me, Fields, Turn, Points

\* RouteCommand dispatches what the utterance was taken for.
LEMMA RouteCommandStep ==
  ASSUME RouterInv, NEW t \in Threads, RouteCommand(t)
  PROVE  RouterInv'
<1>1. At(t, "route") /\ turn[t].way # "blocked" /\ Still
  BY DEF RouteCommand, Routing, Me, Still, store, refs, history
<1>2. PICK c \in Candidates(t) : Become(t, Run(t, c))
  BY DEF RouteCommand
<1>3. Fields(Run(t, c), "dispatch", "noise", c, "plain", "top", 0, "none", None, turn[t].fresh)
  BY <1>1, AtRoute, RunFields
<1>4. PICK r \in Turn : Become(t, r) /\ Fits(r) /\ r.pc = "dispatch" /\ r.fresh = turn[t].fresh
  BY <1>2, <1>3 DEF Fields, Fits
<1> QED
  BY <1>1, <1>4, DecideStep

\* RouteTools dispatches the first command of a plan.
LEMMA RouteToolsStep ==
  ASSUME RouterInv, NEW t \in Threads, RouteTools(t)
  PROVE  RouterInv'
<1>1. At(t, "route") /\ turn[t].way # "blocked" /\ Still
  BY DEF RouteTools, Routing, Me, Still, store, refs, history
<1>2. PICK c \in Of((OnTarget \cup Plain) \cap session.kinds), n \in 1..ChainLength :
        Become(t, [Run(t, c) EXCEPT !.way = "tool", !.place = "plan", !.left = n])
  BY DEF RouteTools
<1>3. c \in Command
  BY Commands
<1>4. PICK r : r = [Run(t, c) EXCEPT !.way = "tool", !.place = "plan", !.left = n]
  OBVIOUS
<1>5. r \in Turn /\ r.pc = "dispatch" /\ r.way = "tool" /\ r.fresh = turn[t].fresh
  <2>1. n \in Nat
    OBVIOUS
  <2>2. /\ Run(t, c) \in Turn /\ Run(t, c).pc = "dispatch"
        /\ Run(t, c).fresh = turn[t].fresh
    BY <1>3, RunFields DEF Fields
  <2> QED
    BY <1>4, <2>1, <2>2 DEF Turn
<1> QED
  BY <1>1, <1>2, <1>4, <1>5, DecideStep DEF Fits

\* ReuseChoice dispatches what was chosen before.
LEMMA ReuseChoiceStep ==
  ASSUME RouterInv, NEW t \in Threads, ReuseChoice(t)
  PROVE  RouterInv'
<1>1. At(t, "route") /\ turn[t].way # "blocked" /\ Still
  BY DEF ReuseChoice, Routing, Me, Still, store, refs, history
<1>2. PICK c \in Candidates(t) : Become(t, [Run(t, c) EXCEPT !.way = "reused"])
  BY DEF ReuseChoice
<1>3. PICK r : r = [Run(t, c) EXCEPT !.way = "reused"]
  OBVIOUS
<1>4. r \in Turn /\ r.pc = "dispatch" /\ r.way = "reused" /\ r.fresh = turn[t].fresh
  <2>1. c \in Command
    BY <1>1, AtRoute
  <2> QED
    BY <1>3, <2>1, RunFields DEF Fields, Turn
<1> QED
  BY <1>1, <1>2, <1>3, <1>4, DecideStep DEF Fits

\* RouteBoth closes the last app, and the one before it, or ends.
LEMMA RouteBothStep ==
  ASSUME RouterInv, NEW t \in Threads, RouteBoth(t)
  PROVE  RouterInv'
<1> DEFINE c == [kind |-> "close", target |-> last["app"].target]
<1>1. At(t, "route") /\ Still /\ turn[t].said = "both"
  BY DEF RouteBoth, Me, Still, store, refs, history
<1>2. CASE last["app"].fresh /\ previous # None
  <2>1. PICK r : r = [Run(t, c) EXCEPT !.way = "both", !.left = 2]
    OBVIOUS
  <2>2. Become(t, r)
    BY <1>2, <2>1 DEF RouteBoth
  <2>3. turn[t].way # "blocked"
    BY <1>1, Known DEF Fits
  <2>4. c \in Command /\ c.kind = "close"
    BY Known DEF Memory, Command, Kinds, OnTarget
  <2>5. /\ r \in Turn /\ r.pc = "dispatch" /\ r.way = "both" /\ r.fresh = turn[t].fresh
        /\ r.cmd = c /\ r.place = "top"
    <3>1. Fields(Run(t, c), "dispatch", "noise", c, "plain", "top", 0, "none", None, turn[t].fresh)
      BY <2>4, RunFields
    <3> HIDE DEF c
    <3> QED
      BY <2>1, <3>1 DEF Fields, Turn
  <2> QED
    BY <1>1, <2>2, <2>3, <2>4, <2>5, DecideStep DEF Fits
<1>3. CASE ~(last["app"].fresh /\ previous # None)
  <2>1. EndTurn(t)
    BY <1>3 DEF RouteBoth, EndTurn
  <2> QED
    BY <1>1, <2>1, LeaveStep
<1> QED
  BY <1>2, <1>3

-----------------------------------------------------------------------------
(* _dispatch().                                                            *)

\* What is known of a thread that dispatches.
LEMMA AtDispatch ==
  ASSUME RouterInv, NEW t \in Threads, At(t, "dispatch")
  PROVE  /\ turn[t] \in Turn /\ turn[t].pc = "dispatch" /\ turn[t].way # "blocked"
         /\ turn[t].way = "both" => turn[t].cmd.kind = "close" /\ turn[t].place = "top"
         /\ Alone(turn[t]) =>
              /\ waiting = "direct" => pending # None
              /\ ~stray => pending = None /\ (turn[t].place = "top" => task = None)
              /\ pending # None => rounds <= pending.attempts /\ answered = 0
              /\ rounds < MaxRounds /\ answered <= 1
              /\ turn[t].fresh /\ ~staleUse
<1>1. turn[t] \in Turn /\ Fits(turn[t]) /\ turn[t].pc = "dispatch"
  BY Known DEF At
<1>2. /\ turn[t].way # "blocked"
      /\ (turn[t].way = "both" => turn[t].cmd.kind = "close" /\ turn[t].place = "top")
  BY <1>1 DEF Fits
<1> QED
  BY <1>1, <1>2 DEF Alone, AskedInv, AwaitedInv, CountInv, FreshInv

\* The turn after a dispatch.
LEMMA ResultFields ==
  ASSUME RouterInv, NEW t \in Threads, At(t, "dispatch"),
         NEW o \in {"done", "failed", "question"}, Result(t, o)
  PROVE  \E r \in Turn : /\ Become(t, r) /\ Fits(r) /\ r.pc = "after" /\ r.outcome = o
                         /\ r.way = turn[t].way /\ r.place = turn[t].place
                         /\ r.fresh = turn[t].fresh /\ r.cmd = turn[t].cmd
<1> DEFINE m == turn[t]
<1>1. m \in Turn /\ m.way # "blocked" /\ (m.way = "both" => m.cmd.kind = "close" /\ m.place = "top")
  BY AtDispatch
<1>2. PICK r : r = [m EXCEPT !.pc = "after", !.outcome = o]
  OBVIOUS
<1>3. /\ r \in Turn /\ r.pc = "after" /\ r.outcome = o /\ r.way = m.way /\ r.place = m.place
      /\ r.fresh = m.fresh /\ r.cmd = m.cmd
  BY <1>1, <1>2 DEF Turn, Points
<1>4. Fits(r) /\ Become(t, r)
  BY <1>1, <1>2, <1>3 DEF Fits, Result, Me
<1> QED
  BY <1>3, <1>4

\* A result that changes nothing of what is asked.
LEMMA ResultStep ==
  ASSUME RouterInv, NEW t \in Threads, At(t, "dispatch"),
         NEW o \in {"done", "failed", "question"}, Result(t, o),
         Memory', session' = session, pending' = pending, task' = task, last' = last,
         waiting' = waiting, stray' = stray, rounds' = rounds, answered' = answered,
         staleUse' = staleUse
  PROVE  RouterInv'
<1> DEFINE m == turn[t]
<1>1. PICK r \in Turn : /\ Become(t, r) /\ Fits(r) /\ r.pc = "after" /\ r.outcome = o
                        /\ r.way = m.way /\ r.place = m.place /\ r.fresh = m.fresh
  BY ResultFields
<1>2. Uncounted'
  BY Known DEF Uncounted
<1>3. ASSUME ~session.desktop
      PROVE  t = Voice /\ Alone(r)'
  <2>1. t = Voice /\ Alone(m)
    BY <1>3, AtDispatch, Mine
  <2> QED
    BY <1>1, <2>1, AtDispatch DEF Alone, AskedInv, AwaitedInv, CountInv, FreshInv, Early
<1> QED
  BY <1>1, <1>2, <1>3, Step

\* Fail has a result, and changes nothing.
LEMMA FailStep ==
  ASSUME RouterInv, NEW t \in Threads, Fail(t)
  PROVE  RouterInv'
<1>1. At(t, "dispatch") /\ Result(t, "failed") /\ Still
  BY DEF Fail, Still, store, refs, history
<1>2. Memory'
  BY <1>1, Known DEF Still, Memory
<1> QED
  BY <1>1, <1>2, ResultStep DEF Still

\* Ambiguous has a question for a result, and changes nothing.
LEMMA AmbiguousStep ==
  ASSUME RouterInv, NEW t \in Threads, Ambiguous(t)
  PROVE  RouterInv'
<1>1. At(t, "dispatch") /\ Result(t, "question") /\ Still
  BY DEF Ambiguous, Dispatching, Still, store, refs, history
<1>2. Memory'
  BY <1>1, Known DEF Still, Memory
<1> QED
  BY <1>1, <1>2, ResultStep DEF Still

\* Act uses the reference that the turn carries along.
LEMMA ActStep ==
  ASSUME RouterInv, NEW t \in Threads, Act(t)
  PROVE  RouterInv'
<1> DEFINE m == turn[t]
<1>1. /\ At(t, "dispatch") /\ Result(t, "done") /\ staleUse' = (staleUse \/ ~m.fresh)
      /\ inBatch' = (IF InBatch(t) THEN inBatch \cup ({m.cmd.kind} \cap BatchRefuses) ELSE inBatch)
      /\ pending' = pending /\ task' = task /\ last' = last /\ previous' = previous
      /\ remembered' = remembered /\ queued' = queued /\ batch' = batch /\ session' = session
      /\ waiting' = waiting /\ stray' = stray /\ rounds' = rounds /\ answered' = answered
  BY DEF Act, Dispatching, Me, store, refs
<1>2. Memory /\ m \in Turn /\ Uncounted
  BY Known
<1>3. staleUse' \in BOOLEAN /\ inBatch' \subseteq BatchRefuses
  BY <1>1, <1>2 DEF Memory
<1>4. Memory' /\ Uncounted'
  BY <1>1, <1>2, <1>3 DEF Memory, Uncounted
<1>5. PICK r \in Turn : /\ Become(t, r) /\ Fits(r) /\ r.pc = "after" /\ r.outcome = "done"
                        /\ r.way = m.way /\ r.place = m.place /\ r.fresh = m.fresh
  BY <1>1, ResultFields
<1>6. ASSUME ~session.desktop
      PROVE  t = Voice /\ Alone(r)'
  <2>1. t = Voice /\ Alone(m)
    BY <1>1, <1>6, AtDispatch, Mine
  <2>2. ~staleUse' /\ m.fresh
    BY <1>1, <2>1, AtDispatch
  <2> QED
    BY <1>1, <1>5, <2>1, <2>2, AtDispatch DEF Alone, AskedInv, AwaitedInv, CountInv, FreshInv, Early
<1> QED
  BY <1>1, <1>4, <1>5, <1>6, Step

\* AskNote asks from inside the dispatch; what nobody hears is a stray question.
LEMMA AskNoteStep ==
  ASSUME RouterInv, NEW t \in Threads, AskNote(t)
  PROVE  RouterInv'
<1> DEFINE m == turn[t]
           direct == m.place = "top"
<1>1. /\ At(t, "dispatch") /\ Result(t, "done") /\ m.cmd.kind = "note"
      /\ pending' = [reason |-> "slot", attempts |-> 0, kind |-> "note"]
      /\ waiting' = (IF direct THEN "direct" ELSE waiting) /\ stray' = (stray \/ ~direct)
      /\ rounds' = 0 /\ answered' = 0
      /\ task' = task /\ last' = last /\ previous' = previous
      /\ remembered' = remembered /\ queued' = queued /\ batch' = batch /\ session' = session
      /\ staleUse' = staleUse /\ inBatch' = inBatch
  BY DEF AskNote, Dispatching, Me, store, refs
<1>2. Memory /\ Uncounted
  BY Known
<1>3. pending' \in Question /\ pending'.attempts = 0 /\ pending' # None
  BY <1>1 DEF Question, Reasons, Kinds
<1>4. Memory' /\ Uncounted'
  BY <1>1, <1>2, <1>3 DEF Memory, Uncounted
<1>5. PICK r \in Turn : /\ Become(t, r) /\ Fits(r) /\ r.pc = "after" /\ r.outcome = "done"
                        /\ r.way = m.way /\ r.place = m.place /\ r.fresh = m.fresh
  BY <1>1, ResultFields
<1>6. m.way # "both"
  BY <1>1, AtDispatch
<1>7. ASSUME ~session.desktop
      PROVE  t = Voice /\ Alone(r)'
  <2>1. t = Voice /\ Alone(m)
    BY <1>1, <1>7, AtDispatch, Mine
  <2>2. AskedInv(r)' /\ CountInv(r)' /\ FreshInv(r)'
    BY <1>1, <1>3, <1>5, <2>1, AtDispatch DEF AskedInv, CountInv, FreshInv, Early
  <2>3. ~stray' => AwaitedInv(r)'
    BY <1>1, <1>3, <1>5, <1>6, <2>1, AtDispatch DEF AwaitedInv
  <2> QED
    BY <2>1, <2>2, <2>3 DEF Alone
<1> QED
  BY <1>1, <1>4, <1>5, <1>7, Step

\* Email opens a task.
LEMMA EmailStep ==
  ASSUME RouterInv, NEW t \in Threads, Email(t)
  PROVE  RouterInv'
<1> DEFINE m == turn[t]
<1>1. /\ At(t, "dispatch") /\ Result(t, "done") /\ m.cmd.kind = "email" /\ task' = 3
      /\ pending' = pending /\ last' = last /\ previous' = previous
      /\ remembered' = remembered /\ queued' = queued /\ batch' = batch /\ session' = session
      /\ waiting' = waiting /\ stray' = stray /\ rounds' = rounds /\ answered' = answered
      /\ staleUse' = staleUse /\ inBatch' = inBatch
  BY DEF Email, Dispatching, Me, refs, history
<1>2. Memory /\ Uncounted
  BY Known
<1>3. Memory' /\ Uncounted'
  BY <1>1, <1>2 DEF Memory, Uncounted
<1>4. PICK r \in Turn : /\ Become(t, r) /\ Fits(r) /\ r.pc = "after" /\ r.outcome = "done"
                        /\ r.way = m.way /\ r.place = m.place /\ r.fresh = m.fresh
  BY <1>1, ResultFields
<1>5. m.way # "both"
  BY <1>1, AtDispatch
<1>6. ASSUME ~session.desktop
      PROVE  t = Voice /\ Alone(r)'
  <2>1. t = Voice /\ Alone(m)
    BY <1>1, <1>6, AtDispatch, Mine
  <2> QED
    BY <1>1, <1>4, <1>5, <2>1, AtDispatch DEF Alone, AskedInv, AwaitedInv, CountInv, FreshInv, Early
<1> QED
  BY <1>1, <1>3, <1>4, <1>6, Step

\* Enqueue leaves a job behind.
LEMMA EnqueueStep ==
  ASSUME RouterInv, NEW t \in Threads, Enqueue(t)
  PROVE  RouterInv'
<1>1. /\ At(t, "dispatch") /\ Result(t, "done") /\ queued' = TRUE
      /\ pending' = pending /\ task' = task /\ last' = last /\ previous' = previous
      /\ remembered' = remembered /\ batch' = batch /\ session' = session
      /\ waiting' = waiting /\ stray' = stray /\ rounds' = rounds /\ answered' = answered
      /\ staleUse' = staleUse /\ inBatch' = inBatch
  BY DEF Enqueue, Dispatching, refs, history
<1>2. Memory'
  BY <1>1, Known DEF Memory
<1> QED
  BY <1>1, <1>2, ResultStep

\* AddToBatch leaves a planned command behind.
LEMMA AddToBatchStep ==
  ASSUME RouterInv, NEW t \in Threads, AddToBatch(t)
  PROVE  RouterInv'
<1>1. /\ At(t, "dispatch") /\ Result(t, "done") /\ batch' \in session.kinds
      /\ pending' = pending /\ task' = task /\ last' = last /\ previous' = previous
      /\ remembered' = remembered /\ queued' = queued /\ session' = session
      /\ waiting' = waiting /\ stray' = stray /\ rounds' = rounds /\ answered' = answered
      /\ staleUse' = staleUse /\ inBatch' = inBatch
  BY DEF AddToBatch, Dispatching, refs, history
<1>2. Memory'
  BY <1>1, Known DEF Memory
<1> QED
  BY <1>1, <1>2, ResultStep

\* CommitBatch goes on inside the batch.
LEMMA CommitBatchStep ==
  ASSUME RouterInv, NEW t \in Threads, CommitBatch(t)
  PROVE  RouterInv'
<1> DEFINE m == turn[t]
<1>1. /\ At(t, "dispatch") /\ m.cmd.kind = "batch" /\ batch' = None
      /\ pending' = pending /\ task' = task /\ last' = last /\ previous' = previous
      /\ remembered' = remembered /\ queued' = queued /\ session' = session
      /\ waiting' = waiting /\ stray' = stray /\ rounds' = rounds /\ answered' = answered
      /\ staleUse' = staleUse /\ inBatch' = inBatch
  BY DEF CommitBatch, Dispatching, Me, refs, history
<1>2. PICK c \in Of({batch}) : Become(t, [m EXCEPT !.place = "batch", !.cmd = c])
  BY DEF CommitBatch, Me
<1>3. PICK r : r = [m EXCEPT !.place = "batch", !.cmd = c]
  OBVIOUS
<1>4. Memory /\ Uncounted /\ c \in Command
  BY Known, Commands
<1>5. r \in Turn /\ r.pc = "dispatch" /\ r.way = m.way /\ r.place = "batch" /\ r.fresh = m.fresh
  BY <1>1, <1>3, <1>4, AtDispatch DEF Turn
<1>6. Memory' /\ Uncounted'
  BY <1>1, <1>4 DEF Memory, Uncounted
<1>7. Fits(r)
  BY <1>1, <1>5, AtDispatch DEF Fits
<1>8. ASSUME ~session.desktop
      PROVE  t = Voice /\ Alone(r)'
  <2>1. t = Voice /\ Alone(m)
    BY <1>1, <1>8, AtDispatch, Mine
  <2> QED
    BY <1>1, <1>5, <2>1, AtDispatch DEF Alone, AskedInv, AwaitedInv, CountInv, FreshInv, Early
<1> QED
  BY <1>1, <1>2, <1>3, <1>5, <1>6, <1>7, <1>8, Step

\* Chain goes on inside the chain.
LEMMA ChainStep ==
  ASSUME RouterInv, NEW t \in Threads, Chain(t)
  PROVE  RouterInv'
<1> DEFINE m == turn[t]
           p == IF m.place = "batch" THEN "batchchain" ELSE "chain"
<1>1. At(t, "dispatch") /\ m.cmd.kind = "chain" /\ Still
  BY DEF Chain, Dispatching, Me, Still, store, refs, history
<1>2. PICK c \in Of(session.kinds \ {"chain"}) :
        Become(t, [m EXCEPT !.place = p, !.left = ChainLength, !.cmd = c])
  BY DEF Chain, Me
<1>3. PICK r : r = [m EXCEPT !.place = p, !.left = ChainLength, !.cmd = c]
  OBVIOUS
<1>4. /\ r \in Turn /\ r.pc = "dispatch" /\ r.way = m.way /\ r.fresh = m.fresh
      /\ r.place \in {"chain", "batchchain"}
  <2>1. c \in Command /\ p \in {"chain", "batchchain"}
    BY Commands
  <2> HIDE DEF p
  <2> QED
    BY <1>1, <1>3, <2>1, AtDispatch DEF Turn
<1>5. Fits(r)
  BY <1>1, <1>4, AtDispatch DEF Fits
<1>6. Alone(m) => Alone(r)
  BY <1>1, <1>4, AtDispatch DEF Alone, AskedInv, AwaitedInv, CountInv, FreshInv, Early
<1> QED
  BY <1>1, <1>2, <1>3, <1>4, <1>5, <1>6, AtDispatch, QuietStep

-----------------------------------------------------------------------------
(* After a dispatch.                                                       *)

\* What is known of a thread after its dispatch.
LEMMA AtAfter ==
  ASSUME RouterInv, NEW t \in Threads, At(t, "after")
  PROVE  /\ turn[t] \in Turn /\ turn[t].pc = "after" /\ turn[t].way # "blocked"
         /\ turn[t].way = "both" => turn[t].cmd.kind = "close" /\ turn[t].place = "top"
         /\ Alone(turn[t]) =>
              /\ waiting = "direct" => pending # None
              /\ ~stray =>
                   /\ task # None => pending = None
                   /\ pending # None => /\ waiting = "direct" /\ turn[t].outcome = "done"
                                        /\ turn[t].place = "top" /\ turn[t].way # "both"
                   /\ turn[t].place = "top" /\ (turn[t].outcome = "question" \/ turn[t].way = "both")
                        => task = None
              /\ pending # None => rounds <= pending.attempts /\ answered = 0
              /\ rounds < MaxRounds /\ answered <= 1
              /\ turn[t].fresh /\ ~staleUse
<1>1. turn[t] \in Turn /\ Fits(turn[t]) /\ turn[t].pc = "after"
  BY Known DEF At
<1>2. /\ turn[t].way # "blocked"
      /\ (turn[t].way = "both" => turn[t].cmd.kind = "close" /\ turn[t].place = "top")
  BY <1>1 DEF Fits
<1> QED
  BY <1>1, <1>2 DEF Alone, AskedInv, AwaitedInv, CountInv, FreshInv

\* NextInChain dispatches the next command of a chain or a plan.
LEMMA NextInChainStep ==
  ASSUME RouterInv, NEW t \in Threads, NextInChain(t)
  PROVE  RouterInv'
<1> DEFINE m == turn[t]
<1>1. /\ At(t, "after") /\ m.place \in {"chain", "batchchain", "plan"} /\ m.left > 1 /\ Still
  BY DEF NextInChain, After, Me, Still, store, refs, history
<1>2. PICK c \in Command : Become(t, [m EXCEPT !.pc = "dispatch", !.left = @ - 1, !.cmd = c])
  BY Commands DEF NextInChain, Me
<1>3. PICK n \in Nat : n = m.left - 1
  BY <1>1, AtAfter DEF Turn
<1>4. PICK r : r = [m EXCEPT !.pc = "dispatch", !.left = n, !.cmd = c]
  OBVIOUS
<1>5. r \in Turn /\ r.pc = "dispatch" /\ r.way = m.way /\ r.place = m.place /\ r.fresh = m.fresh
  <2>1. m \in Turn
    BY <1>1, AtAfter
  <2>2. r.pc = "dispatch" /\ r.way = m.way /\ r.place = m.place /\ r.fresh = m.fresh
    BY <1>4, <2>1 DEF Turn
  <2>3. "dispatch" \in Points
    BY DEF Points
  <2>4. r \in Turn
    BY <1>4, <2>1, <2>3 DEF Turn
  <2>5. QED
    BY <2>2, <2>4
<1>6. Become(t, r)
  BY <1>2, <1>3, <1>4
<1>7. Fits(r)
  BY <1>1, <1>5, AtAfter DEF Fits
<1>8. Alone(m) => Alone(r)
  BY <1>1, <1>5, AtAfter DEF Alone, AskedInv, AwaitedInv, CountInv, FreshInv, Early
<1> QED
  BY <1>1, <1>5, <1>6, <1>7, <1>8, AtAfter, QuietStep

\* Return leaves the chain or the batch.
LEMMA ReturnStep ==
  ASSUME RouterInv, NEW t \in Threads, Return(t)
  PROVE  RouterInv'
<1> DEFINE m == turn[t]
           p == IF m.place = "batchchain" THEN "batch" ELSE "top"
           o == IF m.outcome = "failed" THEN "failed" ELSE "done"
<1>1. At(t, "after") /\ m.place \in {"chain", "batchchain", "batch"} /\ Still
  BY DEF Return, After, Me, Still, store, refs, history
<1>2. Become(t, [m EXCEPT !.place = p, !.cmd = Simple("chain"), !.outcome = o])
  BY DEF Return, Me
<1>3. p \in {"batch", "top"} /\ o \in {"failed", "done"}
  OBVIOUS
<1> HIDE DEF p, o
<1>4. PICK r : r = [m EXCEPT !.place = p, !.cmd = Simple("chain"), !.outcome = o]
  OBVIOUS
<1>5. Simple("chain") \in Command
  BY Commands DEF Kinds
<1>6. r \in Turn /\ r.pc = "after" /\ r.way = m.way /\ r.outcome = o /\ r.fresh = m.fresh
  BY <1>1, <1>3, <1>4, <1>5, AtAfter DEF Turn
<1>7. Fits(r)
  BY <1>1, <1>6, AtAfter DEF Fits
<1>8. Alone(m) => Alone(r)
  BY <1>1, <1>3, <1>6, AtAfter DEF Alone, AskedInv, AwaitedInv, CountInv, FreshInv, Early
<1> QED
  BY <1>1, <1>2, <1>4, <1>6, <1>7, <1>8, AtAfter, QuietStep

\* ToolsAnswer ends the turn, perhaps with a question of which nothing is stored.
LEMMA ToolsAnswerStep ==
  ASSUME RouterInv, NEW t \in Threads, ToolsAnswer(t)
  PROVE  RouterInv'
<1> DEFINE m == turn[t]
<1>1. /\ At(t, "after") /\ m.place = "plan" /\ EndTurn(t)
      /\ waiting' = (IF m.outcome = "question" THEN "nested" ELSE waiting)
      /\ pending' = pending /\ task' = task /\ last' = last /\ previous' = previous
      /\ remembered' = remembered /\ queued' = queued /\ batch' = batch /\ session' = session
      /\ stray' = stray /\ rounds' = rounds /\ answered' = answered
      /\ staleUse' = staleUse /\ inBatch' = inBatch
  BY DEF ToolsAnswer, After, Me, store, refs
<1>2. Memory /\ Uncounted
  BY Known
<1>3. Memory' /\ Uncounted'
  BY <1>1, <1>2 DEF Memory, Uncounted
<1>4. Alone(m) => Alone(Idle)'
  BY <1>1, AtAfter, AloneIdle
<1> QED
  BY <1>1, <1>3, <1>4, AtAfter, EndStep

\* AskWhich stores the question of the dispatch.
LEMMA AskWhichStep ==
  ASSUME RouterInv, NEW t \in Threads, AskWhich(t)
  PROVE  RouterInv'
<1> DEFINE m == turn[t]
<1>1. At(t, "after") /\ m.place = "top" /\ m.outcome = "question" /\ Ask(t, "choice", m.cmd)
  BY DEF AskWhich, After, Me
<1>2. m.cmd \in Command
  BY <1>1, AtAfter DEF Turn
<1> QED
  BY <1>1, <1>2, AtAfter, AskStep DEF Reasons

\* ReuseWhich dispatches what was chosen before.
LEMMA ReuseWhichStep ==
  ASSUME RouterInv, NEW t \in Threads, ReuseWhich(t)
  PROVE  RouterInv'
<1> DEFINE m == turn[t]
<1>1. /\ At(t, "after") /\ m.place = "top" /\ m.outcome = "question" /\ Still
      /\ Become(t, [m EXCEPT !.pc = "dispatch", !.way = "reused"])
  BY DEF ReuseWhich, After, Me, Still, store, refs, history
<1>2. PICK r : r = [m EXCEPT !.pc = "dispatch", !.way = "reused"]
  OBVIOUS
<1>3. r \in Turn /\ r.pc = "dispatch" /\ r.way = "reused" /\ r.place = m.place /\ r.fresh = m.fresh
  BY <1>1, <1>2, AtAfter DEF Turn, Points
<1>4. Fits(r)
  BY <1>3 DEF Fits
<1>5. Alone(m) => Alone(r)
  BY <1>1, <1>3, AtAfter DEF Alone, AskedInv, AwaitedInv, CountInv, FreshInv, Early
<1> QED
  BY <1>1, <1>2, <1>3, <1>4, <1>5, AtAfter, QuietStep

\* UpdateContext remembers what was acted on, and ends the turn or closes the other app.
LEMMA UpdateContextStep ==
  ASSUME RouterInv, NEW t \in Threads, UpdateContext(t)
  PROVE  RouterInv'
<1> DEFINE m == turn[t]
           c == m.cmd
           again == (m.way = "both" /\ m.left = 2) /\ previous # None
           entry == [target |-> c.target, fresh |-> TRUE]
<1>1. /\ At(t, "after") /\ m.place = "top"
      /\ waiting' = (IF m.outcome = "question" THEN "nested" ELSE waiting)
      /\ pending' = pending /\ task' = task
      /\ remembered' = remembered /\ queued' = queued /\ batch' = batch /\ session' = session
      /\ stray' = stray /\ rounds' = rounds /\ answered' = answered
      /\ staleUse' = staleUse /\ inBatch' = inBatch
  BY DEF UpdateContext, After, Me
<1>2. Memory /\ Uncounted /\ m \in Turn /\ c \in Command
  BY Known DEF Turn
<1>3. /\ last' \in {last, [last EXCEPT ![Ref(c)] = entry]}
      /\ previous' \in {previous, last["app"].target}
  BY DEF UpdateContext, Me, refs
<1>4. Memory' /\ Uncounted'
  <2>1. /\ entry \in [target : Targets \cup {None}, fresh : BOOLEAN]
        /\ Ref(c) \in {"app", "file"}
    BY <1>2 DEF Command, Ref
  <2>2. last' \in [{"app", "file"} -> [target : Targets \cup {None}, fresh : BOOLEAN]]
    <3> HIDE DEF entry
    <3> QED
      BY <1>2, <1>3, <2>1 DEF Memory
  <2>3. previous' \in Targets \cup {None}
    BY <1>2, <1>3 DEF Memory
  <2> QED
    BY <1>1, <1>2, <2>2, <2>3 DEF Memory, Uncounted
<1>5. CASE again
  <2>1. PICK x \in Targets \cup {None} : x = previous
    BY <1>2 DEF Memory
  <2>2. PICK r : r = [m EXCEPT !.pc = "dispatch", !.left = 1, !.cmd.target = x]
    OBVIOUS
  <2>3. Become(t, r)
    BY <1>5, <2>1, <2>2 DEF UpdateContext, Me
  <2>4. /\ r \in Turn /\ r.pc = "dispatch" /\ r.way = m.way /\ r.place = m.place /\ r.fresh = m.fresh
        /\ r.cmd.kind = m.cmd.kind
    BY <1>2, <2>2 DEF Turn, Points, Command
  <2>5. Fits(r)
    BY <1>1, <2>4, AtAfter DEF Fits
  <2>6. ASSUME ~session.desktop
        PROVE  t = Voice /\ Alone(r)'
    <3>1. t = Voice /\ Alone(m)
      BY <1>1, <2>6, AtAfter, Mine
    <3> QED
      BY <1>1, <1>5, <2>4, <3>1, AtAfter DEF Alone, AskedInv, AwaitedInv, CountInv, FreshInv, Early
  <2> QED
    BY <1>1, <1>4, <2>3, <2>4, <2>5, <2>6, Step
<1>6. CASE ~again
  <2>1. EndTurn(t)
    BY <1>6 DEF UpdateContext, Me
  <2>2. Alone(m) => Alone(Idle)'
    BY <1>1, AtAfter, AloneIdle
  <2> QED
    BY <1>1, <1>4, <2>1, <2>2, AtAfter, EndStep
<1> QED
  BY <1>5, <1>6

-----------------------------------------------------------------------------
(* The worker and time.                                                    *)

\* A step of nobody's turn: what there is to show.
LEMMA BackgroundStep ==
  ASSUME RouterInv, turn' = turn, session' = session, Memory', Uncounted',
         ~session.desktop /\ Alone(turn[Voice]) /\ Memory /\ turn[Voice].pc \in Points
           => Alone(turn[Voice])'
  PROVE  RouterInv'
<1>1. turn \in [Threads -> Turn] /\ Memory
  BY TypeParts DEF RouterInv
<1>2. TypeOK'
  BY <1>1, TypePartsNext
<1>3. TurnsOk'
  BY DEF RouterInv, TurnsOk, Fits
<1>4. AloneInv'
  <2>1. turn[Voice].pc \in Points
    BY <1>1 DEF Threads, Turn
  <2>2. ~session.desktop => Alone(turn[Voice])'
    BY <1>1, <2>1 DEF RouterInv, AloneInv
  <2> QED
    BY <2>2 DEF RouterInv, AloneInv
<1> QED
  BY <1>2, <1>3, <1>4 DEF RouterInv

\* RunJob stores only what is stray.
LEMMA RunJobStep ==
  ASSUME RouterInv, RunJob
  PROVE  RouterInv'
<1> DEFINE note == [reason |-> "slot", attempts |-> 0, kind |-> "note"]
<1>1. Memory /\ Uncounted
  BY TypeParts DEF RouterInv
<1>2. /\ turn' = turn /\ queued' = FALSE /\ last' = last /\ previous' = previous
      /\ remembered' = remembered /\ batch' = batch /\ session' = session
      /\ waiting' = waiting /\ staleUse' = staleUse /\ inBatch' = inBatch
      /\ \/ /\ pending' = pending /\ task' = task /\ stray' = stray
            /\ rounds' = rounds /\ answered' = answered
         \/ /\ pending' = note
            /\ stray' = TRUE /\ rounds' = 0 /\ answered' = 0 /\ task' = task
         \/ /\ task' = 3 /\ stray' = TRUE
            /\ pending' = pending /\ rounds' = rounds /\ answered' = answered
  BY DEF RunJob, refs
<1>3. note \in Question /\ note.attempts = 0 /\ note # None
  BY DEF Question, Reasons, Kinds
<1> HIDE DEF note
<1>4. Memory' /\ Uncounted'
  <2>1. /\ pending' \in Question \cup {None} /\ task' \in 1 .. 3 \cup {None}
        /\ stray' \in BOOLEAN /\ rounds' \in {rounds, 0} /\ answered' \in {answered, 0}
    <3>1. /\ pending' \in {pending, note} /\ task' \in {task, 3}
          /\ rounds' \in {rounds, 0} /\ answered' \in {answered, 0}
      BY <1>2
    <3>2. stray' = stray \/ stray' = TRUE
      BY <1>2
    <3>3. stray' \in BOOLEAN
      BY <1>1, <3>2 DEF Memory
    <3> QED
      BY <1>1, <1>3, <3>1, <3>3 DEF Memory
  <2>2. rounds' \in Nat /\ answered' \in Nat
    BY <1>1, <2>1 DEF Memory
  <2>3. Memory'
    BY <1>1, <1>2, <2>1, <2>2 DEF Memory
  <2> QED
    BY <1>1, <1>2, <2>1, <2>3 DEF Uncounted
<1>5. ASSUME Alone(turn[Voice])
      PROVE  Alone(turn[Voice])'
  <2>1. AskedInv(turn[Voice])' /\ FreshInv(turn[Voice])'
    BY <1>2, <1>3, <1>5 DEF Alone, AskedInv, FreshInv
  <2>2. ~stray' => AwaitedInv(turn[Voice])'
    BY <1>2, <1>5 DEF Alone, AwaitedInv
  <2>3. CountInv(turn[Voice])'
    <3>1. CountInv(turn[Voice]) /\ turn'[Voice] = turn[Voice]
      BY <1>2, <1>5 DEF Alone
    <3>2. CASE pending' = pending /\ rounds' = rounds /\ answered' = answered
      BY <1>2, <3>1, <3>2 DEF CountInv
    <3>3. CASE pending' = note /\ rounds' = 0 /\ answered' = 0
      <4>1. ASSUME turn[Voice].pc = "reply"
            PROVE  turn[Voice].seen.attempts >= 0
        BY <4>1, Known, Replying DEF Threads, At
      <4> QED
        BY <1>3, <3>1, <3>3, <4>1 DEF CountInv
    <3> QED
      BY <1>2, <3>2, <3>3
  <2> QED
    BY <2>1, <2>2, <2>3 DEF Alone
<1> QED
  BY <1>2, <1>4, <1>5, BackgroundStep

\* What expires, grows old or decays only frees.
LEMMA TimeStep ==
  ASSUME RouterInv, Expire \/ TaskExpires \/ Age \/ ChoiceAges
  PROVE  RouterInv'
<1>1. Memory /\ Uncounted
  BY TypeParts DEF RouterInv
<1>2. CASE Expire
  <2>1. /\ turn' = turn /\ pending' = None /\ waiting' = "no" /\ task' = task /\ last' = last
        /\ previous' = previous /\ remembered' = remembered /\ queued' = queued /\ batch' = batch
        /\ session' = session /\ stray' = stray /\ rounds' = rounds /\ staleUse' = staleUse
        /\ answered' = answered /\ inBatch' = inBatch
    BY <1>2 DEF Expire, store, refs
  <2>2. Memory' /\ Uncounted'
    BY <1>1, <2>1 DEF Memory, Uncounted
  <2>3. Alone(turn[Voice]) => Alone(turn[Voice])'
    BY <2>1 DEF Alone, AskedInv, AwaitedInv, CountInv, FreshInv
  <2> QED
    BY <2>1, <2>2, <2>3, BackgroundStep
<1>3. CASE TaskExpires
  <2>1. /\ turn' = turn /\ pending' = pending /\ waiting' = waiting /\ task' = None /\ last' = last
        /\ previous' = previous /\ remembered' = remembered /\ queued' = queued /\ batch' = batch
        /\ session' = session /\ stray' = stray /\ rounds' = rounds /\ staleUse' = staleUse
        /\ answered' = answered /\ inBatch' = inBatch
    BY <1>3 DEF TaskExpires, refs, history
  <2>2. Memory' /\ Uncounted'
    BY <1>1, <2>1 DEF Memory, Uncounted
  <2>3. Alone(turn[Voice]) => Alone(turn[Voice])'
    BY <2>1 DEF Alone, AskedInv, AwaitedInv, CountInv, FreshInv
  <2> QED
    BY <2>1, <2>2, <2>3, BackgroundStep
<1>4. CASE Age
  <2>1. /\ turn' = turn /\ pending' = pending /\ waiting' = waiting /\ task' = task
        /\ previous' = previous /\ remembered' = remembered /\ queued' = queued /\ batch' = batch
        /\ session' = session /\ stray' = stray /\ rounds' = rounds /\ staleUse' = staleUse
        /\ answered' = answered /\ inBatch' = inBatch
    BY <1>4 DEF Age, history
  <2>2. PICK s \in {"app", "file"} : last' = [last EXCEPT ![s].fresh = FALSE]
    BY <1>4 DEF Age
  <2>3. /\ last' \in [{"app", "file"} -> [target : Targets \cup {None}, fresh : BOOLEAN]]
        /\ \A u \in {"app", "file"} : last'[u].fresh => last[u].fresh
    BY <1>1, <2>2 DEF Memory
  <2>4. Memory' /\ Uncounted'
    BY <1>1, <2>1, <2>3 DEF Memory, Uncounted
  <2>5. Alone(turn[Voice]) => Alone(turn[Voice])'
    BY <2>1, <2>3 DEF Alone, AskedInv, AwaitedInv, CountInv, FreshInv, Ref
  <2> QED
    BY <2>1, <2>4, <2>5, BackgroundStep
<1>5. CASE ChoiceAges
  <2>1. /\ turn' = turn /\ pending' = pending /\ waiting' = waiting /\ task' = task /\ last' = last
        /\ previous' = previous /\ remembered' = FALSE /\ queued' = queued /\ batch' = batch
        /\ session' = session /\ stray' = stray /\ rounds' = rounds /\ staleUse' = staleUse
        /\ answered' = answered /\ inBatch' = inBatch
    BY <1>5 DEF ChoiceAges, refs, history
  <2>2. Memory' /\ Uncounted'
    BY <1>1, <2>1 DEF Memory, Uncounted
  <2>3. Alone(turn[Voice]) => Alone(turn[Voice])'
    BY <2>1 DEF Alone, AskedInv, AwaitedInv, CountInv, FreshInv
  <2> QED
    BY <2>1, <2>2, <2>3, BackgroundStep
<1> QED
  BY <1>2, <1>3, <1>4, <1>5

-----------------------------------------------------------------------------
(* The theorems.                                                           *)

\* In the beginning nobody has said anything.
LEMMA InitRouter == Init => RouterInv
<1> SUFFICES ASSUME Init
             PROVE  RouterInv
  OBVIOUS
<1>1. Fields(Idle, "idle", "noise", Query, "plain", "top", 0, "none", None, TRUE)
  BY IdleFields
<1>2. turn = [t \in Threads |-> Idle] /\ Voice \in Threads
  BY DEF Init, Threads
<1>3. turn \in [Threads -> Turn] /\ \A t \in Threads : turn[t] = Idle
  BY <1>1, <1>2 DEF Fields
<1>4. Memory
  BY DEF Init, Memory
<1>5. TypeOK
  BY <1>3, <1>4, TypeParts
<1>6. TurnsOk /\ Uncounted
  BY <1>1, <1>3 DEF TurnsOk, Fits, Fields, Uncounted, Init
<1>7. Alone(Idle)
  BY <1>1 DEF Alone, AskedInv, AwaitedInv, CountInv, FreshInv, Early, Fields, Init
<1>8. AloneInv
  BY <1>1, <1>2, <1>3, <1>7 DEF AloneInv, Fields
<1> QED
  BY <1>5, <1>6, <1>8 DEF RouterInv

\* Nothing happens.
LEMMA StutterRouter ==
  ASSUME RouterInv, UNCHANGED vars
  PROVE  RouterInv'
<1>1. Memory /\ Uncounted
  BY TypeParts DEF RouterInv
<1>2. turn' = turn /\ Still
  BY DEF vars, store, refs, history, Still
<1>3. Memory' /\ Uncounted'
  BY <1>1, <1>2 DEF Still, Memory, Uncounted
<1>4. Alone(turn[Voice]) => Alone(turn[Voice])'
  BY <1>2 DEF Still, Alone, AskedInv, AwaitedInv, CountInv, FreshInv
<1> QED
  BY <1>2, <1>3, <1>4, BackgroundStep DEF Still

\* Every step keeps the invariant.
LEMMA StepRouter == RouterInv /\ [Next]_vars => RouterInv'
<1> SUFFICES ASSUME RouterInv, [Next]_vars
             PROVE  RouterInv'
  OBVIOUS
<1>1. ASSUME NEW t \in Threads,
             Hear(t) \/ ReadTarget(t) \/ ReadAge(t) \/ ReadTask(t) \/ WriteTask(t)
      PROVE  RouterInv'
  BY <1>1, HearStep, ReadTargetStep, ReadAgeStep, ReadTaskStep, WriteTaskStep
<1>2. ASSUME NEW t \in Threads, Reply(t)
      PROVE  RouterInv'
  BY <1>2, ReadPendingStep, ResolveStep, CancelQuestionStep, RepromptStep, GiveUpStep, BypassStep
     DEF Reply
<1>3. ASSUME NEW t \in Threads, Route(t)
      PROVE  RouterInv'
  BY <1>3, AnswerAtOnceStep, RouteCommandStep, RouteToolsStep, AskTieStep, AskSlotStep,
     AskChoiceStep, ReuseChoiceStep, RouteBothStep DEF Route
<1>4. ASSUME NEW t \in Threads, Dispatch(t)
      PROVE  RouterInv'
  BY <1>4, FailStep, ActStep, AmbiguousStep, AskNoteStep, EmailStep, EnqueueStep,
     AddToBatchStep, CommitBatchStep, ChainStep DEF Dispatch
<1>5. ASSUME NEW t \in Threads, Finish(t)
      PROVE  RouterInv'
  BY <1>5, NextInChainStep, ReturnStep, ToolsAnswerStep, AskWhichStep, ReuseWhichStep,
     UpdateContextStep DEF Finish
<1>6. CASE UNCHANGED vars
  BY <1>6, StutterRouter
<1> QED
  BY <1>1, <1>2, <1>3, <1>4, <1>5, <1>6, RunJobStep, TimeStep DEF Next

\* What the invariant means for the questions, and for the replies.
LEMMA RouterInvMatches == RouterInv => QuestionsMatch /\ RepliesAreSound
<1> SUFFICES ASSUME RouterInv
             PROVE  QuestionsMatch /\ RepliesAreSound
  OBVIOUS
<1>1. TypeOK /\ Memory /\ Uncounted
  BY TypeParts DEF RouterInv
<1>2. ~session.desktop => Alone(turn[Voice])
  BY DEF RouterInv, AloneInv
<1>3. QuestionIsPending /\ PendingWasAsked
  BY <1>2 DEF QuestionIsPending, PendingWasAsked, Between, At, Alone, AskedInv, AwaitedInv
<1>4. RoundsBounded /\ AnsweredOnce
  <2>1. CASE session.desktop
    BY <1>1, <2>1 DEF Uncounted, RoundsBounded, AnsweredOnce
  <2>2. CASE ~session.desktop
    BY <1>2, <2>2 DEF Alone, CountInv, RoundsBounded, AnsweredOnce
  <2> QED
    BY <2>1, <2>2
<1>5. FollowUpIsFresh
  BY <1>2 DEF FollowUpIsFresh, Alone, FreshInv
<1> QED
  BY <1>1, <1>3, <1>4, <1>5 DEF QuestionsMatch, RepliesAreSound

\* The invariant holds throughout.
THEOREM RouterCorrect == Spec => []RouterInv
<1>1. Init => RouterInv
  BY InitRouter
<1>2. RouterInv /\ [Next]_vars => RouterInv'
  BY StepRouter
<1> QED
  BY <1>1, <1>2, PTL DEF Spec

\* With the voice alone, between two turns, the questions that the user was asked are the
\* questions that are stored (route_command, set_pending_clarification), for any sessions.
THEOREM QuestionsAreMatched == Spec => []QuestionsMatch
<1>1. RouterInv => QuestionsMatch
  BY RouterInvMatches
<1> QED
  BY <1>1, RouterCorrect, PTL

\* With the voice alone useless replies come to an end after any CLARIFY_MAX_ROUNDS, a question
\* leads to one command, and a follow-up acts on a reference that was fresh when it was read.
THEOREM RepliesSound == Spec => []RepliesAreSound
<1>1. RouterInv => RepliesAreSound
  BY RouterInvMatches
<1> QED
  BY <1>1, RouterCorrect, PTL

=============================================================================
