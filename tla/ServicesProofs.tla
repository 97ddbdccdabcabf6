--------------------------- MODULE ServicesProofs ---------------------------
(***************************************************************************)
(* What holds of the services behind the conversation, for every number of *)
(* files, changes, faults, threads and restarts: the stores, the reminders *)
(* and the wake word's model (MCServices), and then, for every number of   *)
(* jobs, workers, command threads and retries, the job queue (JobQueue).   *)
(***************************************************************************)
EXTENDS JobQueue, MCServices, SequenceTheorems, FiniteSetTheorems, WellFoundedInduction, TLAPS

-----------------------------------------------------------------------------
(* Reminders.                                                              *)

\* Where a reminder can be: a name is used once; a task is not in the process; what has a timer that
\* runs is listed.
PlaceInv ==
  /\ entries \in Seq(Names) /\ RE!IsInjective(entries) /\ created \in Seq(Names)
  /\ recurring \subseteq RE!ToSet(created) /\ tasks \subseteq RE!ToSet(created)
  /\ timer \in [Names -> {"none", "armed", "fired", "read", "showing"}]
  /\ shown \in [Names -> 0 .. MaxShown]
  /\ \A n \in Names : n \notin RE!ToSet(created) => timer[n] = "none" /\ shown[n] = 0 /\ n \notin canceled
  /\ RE!Listed \subseteq RE!ToSet(created)
  /\ \A n \in tasks : timer[n] = "none" /\ n \notin RE!Listed
  /\ RE!ListedIsLive

\* A message that is still due was not shown, unless it comes again; one that is shown counts.
DueInv ==
  /\ \A n \in Names : n \notin recurring /\ (n \in tasks \/ timer[n] \in {"armed", "fired", "read"}) => shown[n] = 0
  /\ \A n \in Names : timer[n] = "showing" => shown[n] > 0 \/ n \in missed
  /\ \A n \in Names : timer[n] \in {"fired", "read"} => shown[n] < MaxShown
  /\ RE!ShownOrDue

\* What the user was told is canceled is nowhere any more, and no thread goes on with it.
SilentInv ==
  \A n \in (canceled \ inHand) \cap Names :
    /\ n \notin RE!Listed /\ n \notin tasks
    /\ timer[n] # "read" /\ (timer[n] = "showing" => n \notin recurring)

RemindersInv == PlaceInv /\ DueInv /\ SilentInv

\* What a sequence without repetitions lists, once a name is added at its end ...
LEMMA AddedIsListed ==
  ASSUME NEW T, NEW s \in Seq(T), NEW e \in T
  PROVE  /\ Append(s, e) \in Seq(T) /\ RE!ToSet(Append(s, e)) = RE!ToSet(s) \cup {e}
         /\ RE!IsInjective(s) /\ e \notin RE!ToSet(s) => RE!IsInjective(Append(s, e))
  <1> DEFINE long == Append(s, e)
  <1>1. /\ long \in Seq(T) /\ Len(long) = Len(s) + 1 /\ long[Len(s) + 1] = e
        /\ \A i \in 1 .. Len(s) : long[i] = s[i]
        /\ DOMAIN s = 1 .. Len(s) /\ Len(s) \in Nat /\ DOMAIN long = 1 .. Len(s) + 1
    <2>1. long \in Seq(T)
      OBVIOUS
    <2>2. Len(long) = Len(s) + 1 /\ long[Len(s) + 1] = e /\ Len(s) \in Nat
      OBVIOUS
    <2>3. \A i \in 1 .. Len(s) : long[i] = s[i]
      OBVIOUS
    <2>4. QED
      BY <2>1, <2>2, <2>3
  <1> HIDE DEF long
  <1>2. RE!ToSet(long) = RE!ToSet(s) \cup {e}
    <2>1. ASSUME NEW x \in RE!ToSet(long) PROVE x \in RE!ToSet(s) \cup {e}
      BY <2>1, <1>1 DEF RE!ToSet
    <2>2. ASSUME NEW x \in RE!ToSet(s) \cup {e} PROVE x \in RE!ToSet(long)
      <3>1. CASE x = e
        BY <3>1, <1>1 DEF RE!ToSet
      <3>2. CASE x # e
        <4>1. PICK i \in 1 .. Len(s) : s[i] = x
          BY <2>2, <3>2, <1>1 DEF RE!ToSet
        <4>2. i \in DOMAIN long /\ long[i] = x
          BY <4>1, <1>1
        <4>3. QED
          BY <4>2 DEF RE!ToSet
      <3>3. QED
        BY <3>1, <3>2
    <2>3. QED
      BY <2>1, <2>2
  <1>3. ASSUME RE!IsInjective(s), e \notin RE!ToSet(s) PROVE RE!IsInjective(long)
    <2>1. \A i \in 1 .. Len(s) : s[i] # e
      BY <1>1, <1>3 DEF RE!ToSet
    <2>2. QED
      BY <1>1, <1>3, <2>1 DEF RE!IsInjective
  <1>4. QED
    BY <1>1, <1>2, <1>3 DEF long

\* ... and once one is taken out.
LEMMA RemovedIsNot ==
  ASSUME NEW T, NEW s \in Seq(T), RE!IsInjective(s), NEW k \in 1 .. Len(s)
  PROVE  /\ RE!RemoveAt(s, k) \in Seq(T) /\ RE!IsInjective(RE!RemoveAt(s, k))
         /\ RE!ToSet(RE!RemoveAt(s, k)) = RE!ToSet(s) \ {s[k]}
  <1> DEFINE short == RE!RemoveAt(s, k)
  <1>1. PICK n \in Nat : n = Len(s) /\ DOMAIN s = 1 .. n
    OBVIOUS
  <1>2. /\ SubSeq(s, 1, k - 1) \in Seq(T) /\ Len(SubSeq(s, 1, k - 1)) = k - 1
        /\ SubSeq(s, k + 1, n) \in Seq(T) /\ Len(SubSeq(s, k + 1, n)) = n - k
        /\ \A i \in 1 .. k - 1 : SubSeq(s, 1, k - 1)[i] = s[i]
        /\ \A i \in 1 .. n - k : SubSeq(s, k + 1, n)[i] = s[k + i]
    BY <1>1
  <1>3. /\ short \in Seq(T) /\ Len(short) = n - 1 /\ DOMAIN short = 1 .. n - 1
        /\ \A i \in 1 .. n - 1 : short[i] = IF i < k THEN s[i] ELSE s[i + 1]
    <2> DEFINE a == SubSeq(s, 1, k - 1)
               b == SubSeq(s, k + 1, n)
    <2>1. short = a \o b
      BY <1>1 DEF RE!RemoveAt
    <2> HIDE DEF a, b
    <2>2. a \in Seq(T) /\ b \in Seq(T) /\ Len(a) = k - 1 /\ Len(b) = n - k
      BY <1>2 DEF a, b
    <2>3. a \o b \in Seq(T) /\ Len(a \o b) = n - 1 /\ DOMAIN (a \o b) = 1 .. n - 1
      BY <1>1, <2>2
    <2>4. ASSUME NEW i \in 1 .. n - 1 PROVE (a \o b)[i] = IF i < k THEN s[i] ELSE s[i + 1]
      <3>1. CASE i < k
        <4>1. (a \o b)[i] = a[i]
          BY <1>1, <2>2, <3>1
        <4>2. QED
          BY <3>1, <4>1, <1>1, <1>2 DEF a
      <3>2. CASE ~(i < k)
        <4>1. (a \o b)[i] = b[i - (k - 1)] /\ i - (k - 1) \in 1 .. n - k
          BY <1>1, <2>2, <3>2
        <4>2. b[i - (k - 1)] = s[k + (i - (k - 1))]
          BY <4>1, <1>2 DEF b
        <4>3. k + (i - (k - 1)) = i + 1
          BY <1>1
        <4>4. QED
          BY <3>2, <4>1, <4>2, <4>3
      <3>3. QED
        BY <3>1, <3>2
    <2>5. QED
      BY <2>1, <2>3, <2>4
  <1> HIDE DEF short
  <1>4. RE!IsInjective(short)
    <2>1. ASSUME NEW i \in 1 .. n - 1, NEW j \in 1 .. n - 1, short[i] = short[j] PROVE i = j
      <3>1. PICK a \in 1 .. n : a = (IF i < k THEN i ELSE i + 1) /\ short[i] = s[a]
        BY <1>1, <1>3
      <3>2. PICK b \in 1 .. n : b = (IF j < k THEN j ELSE j + 1) /\ short[j] = s[b]
        BY <1>1, <1>3
      <3>3. a = b
        BY <1>1, <2>1, <3>1, <3>2 DEF RE!IsInjective
      <3>4. QED
        BY <1>1, <3>1, <3>2, <3>3
    <2>2. QED
      BY <1>3, <2>1 DEF RE!IsInjective
  <1>5. RE!ToSet(short) = RE!ToSet(s) \ {s[k]}
    <2>1. ASSUME NEW x \in RE!ToSet(short) PROVE x \in RE!ToSet(s) \ {s[k]}
      <3>1. PICK i \in 1 .. n - 1 : short[i] = x
        BY <2>1, <1>3 DEF RE!ToSet
      <3>2. PICK a \in 1 .. n : a = (IF i < k THEN i ELSE i + 1) /\ x = s[a]
        BY <1>1, <1>3, <3>1
      <3>3. a # k /\ k \in 1 .. n
        BY <1>1, <3>2
      <3>4. QED
        BY <1>1, <3>2, <3>3 DEF RE!ToSet, RE!IsInjective
    <2>2. ASSUME NEW x \in RE!ToSet(s), x # s[k] PROVE x \in RE!ToSet(short)
      <3>1. PICK a \in 1 .. n : s[a] = x
        BY <2>2, <1>1 DEF RE!ToSet
      <3>2. PICK i \in 1 .. n - 1 : a = (IF i < k THEN i ELSE i + 1)
        <4>1. a # k
          BY <2>2, <3>1
        <4>2. a \in Int /\ k \in 1 .. n
          BY <1>1
        <4>3. CASE a < k
          <5>1. a \in 1 .. n - 1 /\ a = (IF a < k THEN a ELSE a + 1)
            BY <1>1, <4>2, <4>3
          <5>2. QED
            BY <5>1
        <4>4. CASE ~(a < k)
          <5>1. a - 1 \in 1 .. n - 1 /\ a = (IF a - 1 < k THEN a - 1 ELSE a - 1 + 1)
            BY <1>1, <4>1, <4>2, <4>4
          <5>2. QED
            BY <5>1
        <4>5. QED
          BY <4>3, <4>4
      <3>3. short[i] = x /\ i \in DOMAIN short
        BY <1>3, <3>1, <3>2
      <3>4. QED
        BY <3>3 DEF RE!ToSet
    <2>3. QED
      BY <2>1, <2>2
  <1>6. QED
    BY <1>3, <1>4, <1>5 DEF short

\* Registering a name and removing it, as the table of the process does.
LEMMA RegisteredIsListed ==
  ASSUME entries \in Seq(Names), RE!IsInjective(entries), NEW n \in Names
  PROVE  /\ RE!Registered(n) \in Seq(Names) /\ RE!IsInjective(RE!Registered(n))
         /\ RE!ToSet(RE!Registered(n)) = RE!Listed \cup {n}
  BY AddedIsListed DEF RE!Registered, RE!Listed

LEMMA UnregisteredIsNot ==
  ASSUME entries \in Seq(Names), RE!IsInjective(entries), NEW n \in Names
  PROVE  /\ RE!Unregistered(n) \in Seq(Names) /\ RE!IsInjective(RE!Unregistered(n))
         /\ RE!ToSet(RE!Unregistered(n)) = RE!Listed \ {n}
  <1>1. CASE n \in RE!Listed
    <2>1. \E i \in DOMAIN entries : entries[i] = n
      BY <1>1 DEF RE!Listed, RE!ToSet
    <2>2. RE!Place(n) \in DOMAIN entries /\ entries[RE!Place(n)] = n
      BY <2>1 DEF RE!Place
    <2>3. DOMAIN entries = 1 .. Len(entries)
      OBVIOUS
    <2>4. QED
      BY <1>1, <2>2, <2>3, RemovedIsNot DEF RE!Unregistered, RE!Listed
  <1>2. CASE n \notin RE!Listed
    BY <1>2 DEF RE!Unregistered, RE!Listed
  <1>3. QED
    BY <1>1, <1>2

\* The state of the reminders, apart from the order in which they are listed.
LEMMA RemindersBegin == RE!Init => RemindersInv
  <1> SUFFICES ASSUME RE!Init PROVE RemindersInv
    OBVIOUS
  <1>1. RE!ToSet(entries) = {} /\ RE!ToSet(created) = {} /\ entries \in Seq(Names) /\ created \in Seq(Names)
    BY DEF RE!Init, RE!ToSet
  <1>2. RE!IsInjective(entries)
    BY DEF RE!Init, RE!IsInjective
  <1>3. QED
    BY <1>1, <1>2, ServicesAssumption DEF RE!Init, RemindersInv, PlaceInv, DueInv, SilentInv, RE!Listed,
       RE!ListedIsLive, RE!ShownOrDue


\* What an action may change of the places of a name, and of what is shown.
LEMMA SchedulePreserves ==
  ASSUME RemindersInv, NEW n \in Names, NEW again \in BOOLEAN,
         RE!Schedule(n, again) \/ RE!KeepInProcess(n, again)
  PROVE  RemindersInv'
  <1> USE DEF RemindersInv
  <1> DEFINE named == RE!ToSet(created)
             listed == RE!Listed
  <1>1. n \notin named /\ n \notin listed /\ n \notin tasks /\ timer[n] = "none" /\ shown[n] = 0 /\ n \notin canceled
    BY DEF PlaceInv, RE!Schedule, RE!KeepInProcess, RE!Fresh
  <1>2. created' \in Seq(Names) /\ RE!ToSet(created)' = named \cup {n}
    <2>1. created' = Append(created, n)
      BY DEF RE!Schedule, RE!KeepInProcess
    <2>2. QED
      BY <2>1, AddedIsListed DEF PlaceInv
  <1>3. CASE RE!Schedule(n, again)
    <2>1. RE!Listed' = listed /\ entries' = entries
      BY <1>3 DEF RE!Schedule, RE!Listed
    <2>2. PlaceInv'
      BY <1>1, <1>2, <1>3, <2>1 DEF PlaceInv, RE!Schedule, RE!ListedIsLive
    <2>3. DueInv'
      BY <1>1, <1>2, <1>3, <2>1 DEF PlaceInv, DueInv, RE!Schedule, RE!ShownOrDue
    <2>4. SilentInv'
      BY <1>1, <1>2, <1>3, <2>1 DEF PlaceInv, SilentInv, RE!Schedule
    <2>5. QED
      BY <2>2, <2>3, <2>4
  <1>4. CASE RE!KeepInProcess(n, again)
    <2>1. RE!Listed' = listed \cup {n} /\ entries' \in Seq(Names) /\ RE!IsInjective(entries)'
      <3>1. entries' = RE!Registered(n)
        BY <1>4 DEF RE!KeepInProcess
      <3>2. QED
        BY <3>1, RegisteredIsListed DEF PlaceInv, RE!Listed
    <2>2. PlaceInv'
      BY <1>1, <1>2, <1>4, <2>1 DEF PlaceInv, RE!KeepInProcess, RE!ListedIsLive
    <2>3. DueInv'
      BY <1>1, <1>2, <1>4, <2>1 DEF PlaceInv, DueInv, RE!KeepInProcess, RE!ShownOrDue
    <2>4. SilentInv'
      BY <1>1, <1>2, <1>4, <2>1 DEF PlaceInv, SilentInv, RE!KeepInProcess
    <2>5. QED
      BY <2>2, <2>3, <2>4
  <1>5. QED
    BY <1>3, <1>4

\* A reminder that comes, in the scheduler or in its own thread.
LEMMA ComingPreserves ==
  ASSUME RemindersInv, NEW n \in Names, RE!TaskFires(n) \/ RE!TaskExpires(n) \/ RE!Fires(n)
  PROVE  RemindersInv'
  <1> USE ServicesAssumption DEF RemindersInv
  <1>1. CASE RE!TaskFires(n)
    <2>1. RE!Listed' = RE!Listed
      BY <1>1 DEF RE!TaskFires, RE!Listed
    <2>2. PlaceInv'
      BY <1>1, <2>1 DEF PlaceInv, RE!TaskFires, RE!ListedIsLive
    <2>3. DueInv'
      BY <1>1, <2>1 DEF PlaceInv, DueInv, RE!TaskFires, RE!ShownOrDue
    <2>4. SilentInv'
      BY <1>1, <2>1 DEF PlaceInv, SilentInv, RE!TaskFires
    <2>5. QED
      BY <2>2, <2>3, <2>4
  <1>2. CASE RE!TimerFires(n)
    <2>1. RE!Listed' = RE!Listed
      BY <1>2 DEF RE!TimerFires, RE!Listed
    <2>2. PlaceInv'
      BY <1>2, <2>1 DEF PlaceInv, RE!TimerFires, RE!ListedIsLive
    <2>3. DueInv'
      BY <1>2, <2>1 DEF PlaceInv, DueInv, RE!TimerFires, RE!ShownOrDue
    <2>4. SilentInv'
      BY <1>2, <2>1 DEF PlaceInv, SilentInv, RE!TimerFires
    <2>5. QED
      BY <2>2, <2>3, <2>4
  <1>3. CASE RE!Show(n)
    <2>1. RE!Listed' = RE!Listed
      BY <1>3 DEF RE!Show, RE!Listed
    <2>2. PICK k \in Nat : k = shown[n] /\ k < MaxShown /\ (n \notin recurring => k = 0) /\ n \in RE!ToSet(created)
      <3>1. timer[n] = "read" /\ shown[n] < MaxShown /\ shown[n] \in Nat
        BY <1>3 DEF PlaceInv, RE!Show
      <3>2. n \notin recurring => shown[n] = 0
        BY <3>1 DEF DueInv
      <3>3. n \in RE!ToSet(created)
        BY <3>1 DEF PlaceInv
      <3>4. QED
        BY <3>1, <3>2, <3>3
    <2>3. k + 1 \in 0 .. MaxShown /\ k + 1 > 0 /\ (k = 0 => k + 1 <= 1)
      BY <2>2
    <2>4. shown' = [shown EXCEPT ![n] = k + 1] /\ timer' = [timer EXCEPT ![n] = "showing"] /\ timer[n] = "read"
      BY <1>3, <2>2 DEF RE!Show
    <2>5. PlaceInv'
      BY <1>3, <2>1, <2>2, <2>3, <2>4 DEF PlaceInv, RE!Show, RE!ListedIsLive
    <2>6. DueInv'
      <3>1. \A m \in Names : shown'[m] = IF m = n THEN k + 1 ELSE shown[m]
        BY <2>4 DEF PlaceInv
      <3>2. \A m \in Names : timer'[m] = IF m = n THEN "showing" ELSE timer[m]
        BY <2>4 DEF PlaceInv
      <3>3. n \notin tasks /\ k + 1 > 0 /\ (n \notin recurring => k + 1 <= 1)
        BY <2>2, <2>3, <2>4 DEF PlaceInv
      <3>4. UNCHANGED <<entries, recurring, tasks, created, canceled, missed, lost>>
        BY <1>3 DEF RE!Show
      <3>5. \A m \in RE!ToSet(created) : m \in Names
        BY DEF PlaceInv, RE!ToSet
      <3>6. RE!ShownOrDue'
        BY <2>1, <3>1, <3>3, <3>4, <3>5 DEF DueInv, RE!ShownOrDue
      <3>7. (\A m \in Names : m \notin recurring /\ (m \in tasks \/ timer[m] \in {"armed", "fired", "read"}) => shown[m] = 0)'
        BY <3>1, <3>2, <3>3, <3>4 DEF DueInv
      <3>8. (\A m \in Names : timer[m] = "showing" => shown[m] > 0 \/ m \in missed)'
        BY <3>1, <3>2, <3>3, <3>4 DEF DueInv
      <3>9. (\A m \in Names : timer[m] \in {"fired", "read"} => shown[m] < MaxShown)'
        BY <3>1, <3>2 DEF DueInv
      <3>10. QED
        BY <3>6, <3>7, <3>8, <3>9 DEF DueInv
    <2>7. SilentInv'
      BY <1>3, <2>1, <2>4 DEF PlaceInv, SilentInv, RE!Show
    <2>8. QED
      BY <2>5, <2>6, <2>7
  <1>6. CASE RE!ReadEntry(n)
    <2>1. RE!Listed' = RE!Listed
      BY <1>6 DEF RE!ReadEntry, RE!Listed
    <2>2. PICK reads \in {"read", "none"} :
            timer[n] = "fired" /\ timer' = [timer EXCEPT ![n] = reads] /\ (reads = "read" <=> n \in RE!Listed)
      BY <1>6 DEF RE!ReadEntry, RE!Found
    <2>3. PlaceInv'
      BY <1>6, <2>1, <2>2 DEF PlaceInv, RE!ReadEntry, RE!ListedIsLive
    <2>4. DueInv'
      BY <1>6, <2>1, <2>2 DEF PlaceInv, DueInv, RE!ReadEntry, RE!ShownOrDue
    <2>5. SilentInv'
      BY <1>6, <2>1, <2>2 DEF PlaceInv, SilentInv, RE!ReadEntry
    <2>6. QED
      BY <2>3, <2>4, <2>5
  <1>7. CASE RE!ToastFails(n)
    <2>1. RE!Listed' = RE!Listed
      BY <1>7 DEF RE!ToastFails, RE!Listed
    <2>2. PlaceInv'
      BY <1>7, <2>1 DEF PlaceInv, RE!ToastFails, RE!ListedIsLive
    <2>3. DueInv'
      BY <1>7, <2>1 DEF PlaceInv, DueInv, RE!ToastFails, RE!ShownOrDue
    <2>4. SilentInv'
      BY <1>7, <2>1 DEF PlaceInv, SilentInv, RE!ToastFails
    <2>5. QED
      BY <2>2, <2>3, <2>4
  <1>8. CASE RE!TaskExpires(n)
    <2>1. RE!Listed' = RE!Listed
      BY <1>8 DEF RE!TaskExpires, RE!Listed
    <2>2. PlaceInv'
      BY <1>8, <2>1 DEF PlaceInv, RE!TaskExpires, RE!ListedIsLive
    <2>3. DueInv'
      BY <1>8, <2>1 DEF PlaceInv, DueInv, RE!TaskExpires, RE!ShownOrDue
    <2>4. SilentInv'
      BY <1>8, <2>1 DEF PlaceInv, SilentInv, RE!TaskExpires
    <2>5. QED
      BY <2>2, <2>3, <2>4
  <1>4. CASE RE!Reschedule(n)
    <2>1. RE!Listed' = RE!Listed \cup {n} /\ entries' \in Seq(Names) /\ RE!IsInjective(entries)'
      <3>1. entries' = RE!Registered(n)
        BY <1>4 DEF RE!Reschedule
      <3>2. QED
        BY <3>1, RegisteredIsListed DEF PlaceInv, RE!Listed
    <2>2. PlaceInv'
      BY <1>4, <2>1 DEF PlaceInv, RE!Reschedule, RE!Recurs, RE!ListedIsLive
    <2>3. DueInv'
      BY <1>4, <2>1 DEF PlaceInv, DueInv, RE!Reschedule, RE!Recurs, RE!ShownOrDue
    <2>4. SilentInv'
      BY <1>4, <2>1 DEF PlaceInv, SilentInv, RE!Reschedule, RE!Recurs
    <2>5. QED
      BY <2>2, <2>3, <2>4
  <1>5. CASE RE!Finish(n)
    <2>1. RE!Listed' = RE!Listed \ {n} /\ entries' \in Seq(Names) /\ RE!IsInjective(entries)'
      <3>1. entries' = RE!Unregistered(n)
        BY <1>5 DEF RE!Finish
      <3>2. QED
        BY <3>1, UnregisteredIsNot DEF PlaceInv, RE!Listed
    <2>2. PlaceInv'
      BY <1>5, <2>1 DEF PlaceInv, RE!Finish, RE!Recurs, RE!ListedIsLive
    <2>3. DueInv'
      BY <1>5, <2>1 DEF PlaceInv, DueInv, RE!Finish, RE!Recurs, RE!ShownOrDue
    <2>4. SilentInv'
      BY <1>5, <2>1 DEF PlaceInv, SilentInv, RE!Finish
    <2>5. QED
      BY <2>2, <2>3, <2>4
  <1>9. QED
    BY <1>1, <1>2, <1>3, <1>4, <1>5, <1>6, <1>7, <1>8 DEF RE!Fires

\* A reminder that is canceled, by its name or as the last one.
LEMMA DropPreserves ==
  ASSUME RemindersInv, NEW n \in RE!Listed, RE!Drop(n)
  PROVE  RemindersInv'
  <1> USE DEF RemindersInv
  <1>1. n \in Names /\ n \in RE!ToSet(created)
    <2>1. \A m \in RE!ToSet(created) : m \in Names
      BY DEF PlaceInv, RE!ToSet
    <2>2. QED
      BY <2>1 DEF PlaceInv
  <1>2. RE!Listed' = RE!Listed \ {n} /\ entries' \in Seq(Names) /\ RE!IsInjective(entries)'
    <2>1. entries' = RE!Unregistered(n)
      BY DEF RE!Drop
    <2>2. QED
      BY <1>1, <2>1, UnregisteredIsNot DEF PlaceInv, RE!Listed
  <1>3. PlaceInv'
    BY <1>1, <1>2 DEF PlaceInv, RE!Drop, RE!Disarmed, RE!ListedIsLive
  <1>4. DueInv'
    BY <1>1, <1>2 DEF PlaceInv, DueInv, RE!Drop, RE!Disarmed, RE!ShownOrDue
  <1>5. SilentInv'
    BY <1>1, <1>2 DEF PlaceInv, SilentInv, RE!Drop, RE!Disarmed, RE!Comes, RE!Recurs
  <1>6. QED
    BY <1>3, <1>4, <1>5

LEMMA DeletePreserves ==
  ASSUME RemindersInv, NEW n \in tasks, RE!Delete(n)
  PROVE  RemindersInv'
  <1> USE DEF RemindersInv
  <1>1. n \in RE!ToSet(created) /\ n \notin RE!Listed /\ RE!Listed' = RE!Listed
    BY DEF PlaceInv, RE!Delete, RE!Listed
  <1>2. PlaceInv'
    BY <1>1 DEF PlaceInv, RE!Delete, RE!ListedIsLive
  <1>3. DueInv'
    BY <1>1 DEF PlaceInv, DueInv, RE!Delete, RE!ShownOrDue
  <1>4. SilentInv'
    BY <1>1 DEF PlaceInv, SilentInv, RE!Delete
  <1>5. QED
    BY <1>2, <1>3, <1>4

LEMMA RestartPreserves == RemindersInv /\ RE!Restart => RemindersInv'
  <1> SUFFICES ASSUME RemindersInv, RE!Restart PROVE RemindersInv'
    OBVIOUS
  <1> USE DEF RemindersInv
  <1>1. RE!Listed' = {} /\ entries' = <<>> /\ entries' \in Seq(Names) /\ RE!IsInjective(entries)'
    BY DEF RE!Restart, RE!Listed, RE!ToSet, RE!IsInjective
  <1>2. PlaceInv'
    <2>1. timer' = [n \in Names |-> "none"] /\ UNCHANGED <<recurring, tasks, shown, created, canceled>>
      BY DEF RE!Restart
    <2>2. RE!ToSet(created)' = RE!ToSet(created)
      BY <2>1 DEF RE!ToSet
    <2>3. \A n \in Names : timer'[n] = "none"
      BY <2>1
    <2>4. /\ timer' \in [Names -> {"none", "armed", "fired", "read", "showing"}]
          /\ created' \in Seq(Names)
          /\ (recurring \subseteq RE!ToSet(created) /\ tasks \subseteq RE!ToSet(created))'
          /\ (RE!Listed \subseteq RE!ToSet(created))'
      BY <1>1, <2>1, <2>2 DEF PlaceInv
    <2>5. (shown \in [Names -> 0 .. MaxShown])'
      BY <2>1 DEF PlaceInv
    <2>6. (\A n \in Names : n \notin RE!ToSet(created) => timer[n] = "none" /\ shown[n] = 0 /\ n \notin canceled)'
      BY <2>1, <2>2, <2>3 DEF PlaceInv
    <2>7. (\A n \in tasks : timer[n] = "none" /\ n \notin RE!Listed)'
      <3>1. \A n \in RE!ToSet(created) : n \in Names
        BY DEF PlaceInv, RE!ToSet
      <3>2. QED
        BY <1>1, <2>1, <2>3, <3>1 DEF PlaceInv
    <2>8. RE!ListedIsLive'
      BY <1>1, <2>3 DEF RE!ListedIsLive
    <2>9. QED
      BY <1>1, <2>4, <2>5, <2>6, <2>7, <2>8 DEF PlaceInv
  <1>3. DueInv'
    BY <1>1 DEF PlaceInv, DueInv, RE!Restart, RE!ShownOrDue
  <1>4. SilentInv'
    BY <1>1 DEF PlaceInv, SilentInv, RE!Restart
  <1>5. QED
    BY <1>2, <1>3, <1>4

\* Every step of the reminders, and every step of another service, leaves their invariant.
LEMMA RemindersSteps == RemindersInv /\ [RE!Next]_RE!reVars => RemindersInv'
  <1> SUFFICES ASSUME RemindersInv, [RE!Next]_RE!reVars PROVE RemindersInv'
    OBVIOUS
  <1>1. CASE UNCHANGED RE!reVars
    BY <1>1 DEF RE!reVars, RemindersInv, PlaceInv, DueInv, SilentInv, RE!Listed, RE!ListedIsLive, RE!ShownOrDue
  <1>2. CASE RE!CancelLast
    <2>1. CASE entries # <<>> /\ RE!Drop(RE!Last(entries))
      <3>1. Len(entries) \in DOMAIN entries
        BY <2>1 DEF RemindersInv, PlaceInv
      <3>2. RE!Last(entries) \in RE!Listed
        BY <3>1 DEF RE!Last, RE!Listed, RE!ToSet
      <3>3. QED
        BY <2>1, <3>2, DropPreserves
    <2>2. CASE \E n \in tasks : RE!Delete(n)
      BY <2>2, DeletePreserves
    <2>3. QED
      BY <1>2, <2>1, <2>2 DEF RE!CancelLast
  <1>3. CASE \E n \in Names : RE!CancelByName(n)
    BY <1>3, DropPreserves, DeletePreserves DEF RE!CancelByName
  <1>4. CASE \E n \in Names, again \in BOOLEAN : RE!Schedule(n, again) \/ RE!KeepInProcess(n, again)
    BY <1>4, SchedulePreserves
  <1>5. CASE \E n \in Names : RE!TaskFires(n) \/ RE!TaskExpires(n) \/ RE!Fires(n)
    BY <1>5, ComingPreserves
  <1>6. QED
    BY <1>1, <1>2, <1>3, <1>4, <1>5, RestartPreserves DEF RE!Next

\* "Reminder cancelled.": what a canceled reminder does then.
LEMMA CanceledIsSilent ==
  RemindersInv /\ [RE!Next]_RE!reVars => [\A n \in Names : shown'[n] > shown[n] => n \notin canceled \/ n \in inHand]_RE!reVars
  <1> SUFFICES ASSUME RemindersInv, RE!Next, NEW n \in Names, shown'[n] > shown[n], n \in canceled, n \notin inHand
               PROVE  FALSE
    OBVIOUS
  <1>1. timer[n] # "read" /\ n \notin tasks
    BY DEF RemindersInv, SilentInv
  <1>2. shown'[n] # shown[n]
    <2>1. shown[n] \in Nat
      BY DEF RemindersInv, PlaceInv
    <2>2. QED
      BY <2>1
  <1>3. PICK m \in Names : RE!TaskFires(m) \/ RE!Show(m)
    BY <1>2 DEF RE!Next, RE!Schedule, RE!KeepInProcess, RE!TaskExpires, RE!Fires, RE!TimerFires,
       RE!ReadEntry, RE!ToastFails, RE!Reschedule, RE!Finish,
       RE!CancelByName, RE!CancelLast, RE!Drop, RE!Delete, RE!Restart
  <1>4. m = n
    BY <1>2, <1>3 DEF RE!TaskFires, RE!Show, RemindersInv, PlaceInv
  <1>5. QED
    BY <1>1, <1>2, <1>3, <1>4 DEF RE!TaskFires, RE!Show

-----------------------------------------------------------------------------
(* The wake word's model.                                                  *)

Loads == [pc : {"idle", "load", "store", "answer", "listening"}, read : AW!Models \cup {Absent, Bad}, late : BOOLEAN]

\* The files: before a promotion is over, the model it replaces is older than the candidate.
FilesInv ==
  /\ live \in AW!Models \cup {Bad} /\ backup \in AW!Models \cup {Absent, Bad} /\ trained \in AW!Models
  /\ daemon \in {"waiting", "training", "copying", "moving", "promoted", "counting"}
  /\ daemon = "training" => trained < MaxRetrains
  /\ live # Bad => live <= trained
  /\ daemon = "copying" => backup = Bad /\ (live # Bad => live < trained)
  /\ daemon = "moving" => live = Bad /\ (backup \in AW!Models => backup < trained) /\ backup # Absent
  /\ daemon = "promoted" => live # Bad
  /\ AW!ModelOnDisk

\* The cache: what was read is what is live, or is known to be late.
SwapInv ==
  /\ confirmed \in 0 .. MaxConfirmed /\ up \in {"up", "text", "down"}
  /\ cache \in AW!Models \cup {Absent} /\ load \in [AW!Loaders -> Loads]
  /\ \A t \in AW!Loaders : load[t].pc = "store" =>
       /\ load[t].read \in AW!Models
       /\ ~load[t].late => load[t].read = live \/ live = Bad \/ daemon = "promoted"
  /\ daemon # "promoted" /\ cache # Absent /\ ~stale /\ live # Bad => cache = live

WakeInv == FilesInv /\ SwapInv

\* A model is a number, and no number is the mark of a damaged file or of none.
LEMMA ModelsAre ==
  /\ Absent \notin AW!Models /\ Bad \notin AW!Models /\ Absent # Bad /\ 0 \in AW!Models
  /\ AW!Loaders = {Listener, Doctor}
  BY ServicesAssumption, NothingAssumption DEF AW!Models, AW!Loaders

LEMMA WakeBegins == AW!Init => WakeInv
  <1> SUFFICES ASSUME AW!Init PROVE WakeInv
    OBVIOUS
  <1>1. FilesInv
    BY ModelsAre, ServicesAssumption, NothingAssumption DEF AW!Init, FilesInv, AW!ModelOnDisk
  <1>2. SwapInv
    BY ModelsAre, ServicesAssumption DEF AW!Init, SwapInv, Loads, AW!Idle
  <1>3. QED
    BY <1>1, <1>2 DEF WakeInv

\* The threads that load: the files stay.
LEMMA LoadersPreserve ==
  ASSUME WakeInv, NEW t \in AW!Loaders, AW!Ask(t) \/ AW!Loads(t)
  PROVE  WakeInv'
  <1> USE ModelsAre DEF WakeInv, AW!files, AW!bounds
  <1>1. FilesInv'
    BY DEF FilesInv, AW!ModelOnDisk, AW!Ask, AW!Loads, AW!LoadFile, AW!StoreModel, AW!Answer
  <1>2. CASE AW!Ask(t)
    BY <1>1, <1>2 DEF SwapInv, Loads, AW!Ask
  <1>3. CASE AW!LoadFile(t)
    <2>1. CASE live = Bad
      <3>1. load' = [load EXCEPT ![t] = AW!Idle] /\ AW!Idle \in Loads /\ AW!Idle.pc = "idle"
        BY <1>3, <2>1 DEF AW!LoadFile, AW!Idle, Loads
      <3>2. /\ up' \in {"up", "text", "down"} /\ UNCHANGED <<confirmed, trained, live, backup, daemon, cache, stale>>
        BY <1>3, <2>1 DEF AW!LoadFile, SwapInv
      <3>3. QED
        BY <1>1, <3>1, <3>2 DEF SwapInv
    <2>2. CASE live # Bad
      <3>1. live \in AW!Models
        BY <2>2 DEF FilesInv
      <3>2. load' = [load EXCEPT ![t] = [pc |-> "store", read |-> live, late |-> load[t].late]]
        BY <1>3, <2>2 DEF SwapInv, Loads, AW!LoadFile
      <3>3. QED
        BY <1>1, <1>3, <2>2, <3>1, <3>2 DEF SwapInv, Loads, AW!LoadFile
    <2>3. QED
      BY <2>1, <2>2
  <1>4. CASE AW!StoreModel(t)
    BY <1>1, <1>4 DEF SwapInv, Loads, AW!StoreModel
  <1>5. CASE AW!Answer(t)
    BY <1>1, <1>5 DEF SwapInv, Loads, AW!Idle, AW!Answer
  <1>6. QED
    BY <1>2, <1>3, <1>4, <1>5 DEF AW!Loads

LEMMA DetectPreserves ==
  ASSUME WakeInv, NEW speech \in BOOLEAN, AW!Detect(speech)
  PROVE  WakeInv'
  <1> USE ModelsAre DEF WakeInv, AW!files, AW!bounds
  <1>1. FilesInv'
    BY DEF FilesInv, AW!ModelOnDisk, AW!Detect
  <1>2. confirmed' \in 0 .. MaxConfirmed
    BY ServicesAssumption DEF SwapInv, AW!Detect
  <1>3. QED
    BY <1>1, <1>2 DEF SwapInv, Loads, AW!Idle, AW!Detect

\* The daemon.
LEMMA RetrainPreserves ==
  ASSUME WakeInv, AW!Retrains \/ AW!Reject \/ AW!MoveFails \/ AW!UnlinkFails
  PROVE  WakeInv'
  <1> USE ModelsAre DEF WakeInv, AW!files, AW!bounds
  <1>1. trained \in Nat /\ MaxRetrains \in Nat /\ \A m \in AW!Models : m \in Nat
    BY ServicesAssumption DEF FilesInv, AW!Models
  <1>2. CASE AW!RetrainDue
    BY <1>2 DEF FilesInv, SwapInv, AW!ModelOnDisk, AW!RetrainDue
  <1>3. CASE AW!CopyLive
    <2>1. trained + 1 \in AW!Models /\ trained < trained + 1 /\ (live # Bad => live < trained + 1)
      BY <1>1, <1>3 DEF FilesInv, AW!Models, AW!CopyLive
    <2>2. /\ live' = live /\ backup' = Bad /\ trained' = trained + 1 /\ daemon' = "copying"
          /\ unsure' = (live = Bad) /\ live \in AW!Models \cup {Bad}
      BY <1>3 DEF AW!CopyLive, FilesInv
    <2>3. trained' \in AW!Models /\ (live' # Bad => live' <= trained' /\ live' < trained')
      BY <1>1, <2>1, <2>2
    <2>4. AW!ModelOnDisk'
      BY <2>2 DEF AW!ModelOnDisk
    <2>5. FilesInv'
      BY <2>2, <2>3, <2>4 DEF FilesInv
    <2>6. QED
      BY <1>3, <2>2, <2>5 DEF SwapInv, AW!CopyLive
  <1>4. CASE AW!BackUp
    BY <1>1, <1>4 DEF FilesInv, SwapInv, AW!ModelOnDisk, AW!BackUp
  <1>5. CASE AW!Promote
    BY <1>1, <1>5 DEF FilesInv, SwapInv, AW!ModelOnDisk, AW!Promote
  <1>6. CASE AW!Invalidate
    <2>1. FilesInv'
      BY <1>6 DEF FilesInv, AW!ModelOnDisk, AW!Invalidate
    <2>2. cache' = Absent /\ daemon' = "counting" /\ UNCHANGED <<confirmed, up, live>>
      BY <1>6 DEF AW!Invalidate, AW!Invalidated
    <2>3. ASSUME NEW t \in AW!Loaders
          PROVE  /\ load'[t] = [pc |-> load[t].pc, read |-> load[t].read, late |-> load[t].pc = "store" /\ load[t].read # live]
                 /\ load'[t] \in Loads
      BY <1>6 DEF AW!Invalidate, SwapInv, Loads
    <2>4. load' \in [AW!Loaders -> Loads]
      BY <1>6, <2>3 DEF AW!Invalidate
    <2>5. (\A t \in AW!Loaders : load[t].pc = "store" =>
             load[t].read \in AW!Models /\ (~load[t].late => load[t].read = live \/ live = Bad \/ daemon = "promoted"))'
      <3>1. ASSUME NEW t \in AW!Loaders, load'[t].pc = "store"
            PROVE  load'[t].read \in AW!Models /\ (~load'[t].late => load'[t].read = live)
        <4>1. load[t].pc = "store" /\ load'[t].read = load[t].read
          BY <2>3, <3>1
        <4>2. load'[t].late = (load[t].pc = "store" /\ load[t].read # live)
          BY <2>3
        <4>3. QED
          BY <2>2, <4>1, <4>2 DEF SwapInv
      <3>2. QED
        BY <2>2, <3>1
    <2>6. QED
      BY <2>1, <2>2, <2>4, <2>5 DEF SwapInv
  <1>7. CASE AW!CountRetrain
    BY <1>1, <1>7, ServicesAssumption DEF FilesInv, SwapInv, AW!ModelOnDisk, AW!CountRetrain
  <1>8. CASE AW!Reject \/ AW!MoveFails
    BY <1>1, <1>8 DEF FilesInv, SwapInv, AW!ModelOnDisk, AW!Reject, AW!MoveFails
  <1>9. CASE AW!UnlinkFails
    <2>1. FilesInv'
      BY <1>1, <1>9 DEF FilesInv, AW!ModelOnDisk, AW!UnlinkFails
    <2>2. UNCHANGED <<confirmed, up, cache>> /\ stale' = (cache # Absent) /\ daemon' = "waiting" /\ live' = trained
      BY <1>9 DEF AW!UnlinkFails
    <2>3. ASSUME NEW t \in AW!Loaders
          PROVE  /\ load'[t] = [pc |-> load[t].pc, read |-> load[t].read, late |-> load[t].pc = "store" /\ load[t].read # trained]
                 /\ load'[t] \in Loads
      BY <1>9 DEF AW!UnlinkFails, SwapInv, Loads
    <2>4. load' \in [AW!Loaders -> Loads]
      BY <1>9, <2>3 DEF AW!UnlinkFails
    <2>5. ASSUME NEW t \in AW!Loaders, load'[t].pc = "store"
          PROVE  load'[t].read \in AW!Models /\ (~load'[t].late => load'[t].read = trained)
      <3>1. load[t].pc = "store" /\ load'[t].read = load[t].read
        BY <2>3, <2>5
      <3>2. load'[t].late = (load[t].pc = "store" /\ load[t].read # trained)
        BY <2>3
      <3>3. QED
        BY <3>1, <3>2 DEF SwapInv
    <2>6. QED
      BY <2>1, <2>2, <2>4, <2>5 DEF SwapInv
  <1>10. QED
    BY <1>2, <1>3, <1>4, <1>5, <1>6, <1>7, <1>8, <1>9 DEF AW!Retrains

LEMMA StartAgainPreserves == WakeInv /\ AW!StartAgain => WakeInv'
  BY ModelsAre, ServicesAssumption
  DEF WakeInv, FilesInv, SwapInv, Loads, AW!Idle, AW!ModelOnDisk, AW!StartAgain, AW!files

LEMMA WakeSteps == WakeInv /\ [AW!Next]_AW!awVars => WakeInv'
  <1> SUFFICES ASSUME WakeInv, [AW!Next]_AW!awVars PROVE WakeInv'
    OBVIOUS
  <1>1. CASE UNCHANGED AW!awVars
    BY <1>1 DEF AW!awVars, WakeInv, FilesInv, SwapInv, AW!ModelOnDisk
  <1>2. QED
    BY <1>1, LoadersPreserve, DetectPreserves, RetrainPreserves, StartAgainPreserves DEF AW!Next

-----------------------------------------------------------------------------
(* What is remembered.                                                     *)

Memories == [turns : Seq(Nat), slots : Nat, pending : Nat]

MemoryTypes ==
  /\ SM!TypeOK
  /\ runs \in 0 .. MaxRuns /\ memoryChanges \in 0 .. MemoryChanges
  /\ mem \in Memories
  /\ json # Nothing => json \in Memories /\ Len(json.turns) <= MemoryTurns
  /\ db \in [turns : Seq(Nat), slots : Nat, pending : Nat, marker : BOOLEAN] /\ Len(db.turns) <= MemoryTurns

\* Where the database is used, and what a start has in memory before it loads.
StepInv ==
  /\ step \in {"import turns", "import slots", "mark", "turns", "slots", "pending"} => backend = "sqlite"
  /\ step \in {"json", "write"} => backend = "json"
  /\ step \in {"import turns", "import slots", "mark"} => SM!Wanted
  /\ step \in {"slots", "pending"} => db.turns = mem.turns
  /\ step \in {"down", "import turns", "import slots", "mark", "load"} => mem.pending = 0
  /\ mem.pending \in {0, runs}
  /\ SM!SavedWhenAnswered

\* As long as the database works, it has the turns, or the file that is still to be imported.
StoredInv ==
  ~failed =>
    /\ backend = "sqlite"
    /\ SM!Wanted => step \in {"down", "import turns", "import slots", "mark"} /\ durable = json.turns /\ json.turns # <<>>
    /\ step \in {"import slots", "mark"} => db.turns = json.turns
    /\ ~SM!Wanted /\ step \in {"down", "load", "idle", "turns"} => db.turns = durable
    /\ SM!RestartRemembers

MemoryInv == MemoryTypes /\ StepInv /\ StoredInv

\* The newest turns are at most as many as are kept.
LEMMA NewestAre ==
  ASSUME NEW turns \in Seq(Nat)
  PROVE  SM!Newest(turns) \in Seq(Nat) /\ Len(SM!Newest(turns)) <= MemoryTurns
  <1>1. PICK n \in Nat : n = Len(turns)
    OBVIOUS
  <1>2. MemoryTurns \in Nat \ {0}
    BY ServicesAssumption
  <1>3. CASE n > MemoryTurns
    <2>1. n - MemoryTurns + 1 \in 1 .. n
      BY <1>1, <1>2, <1>3
    <2>2. SM!Newest(turns) = SubSeq(turns, n - MemoryTurns + 1, n)
      BY <1>1, <1>3 DEF SM!Newest
    <2>3. /\ SubSeq(turns, n - MemoryTurns + 1, n) \in Seq(Nat)
          /\ Len(SubSeq(turns, n - MemoryTurns + 1, n)) = n - (n - MemoryTurns + 1) + 1
      BY <1>1, <2>1
    <2>4. n - (n - MemoryTurns + 1) + 1 <= MemoryTurns
      BY <1>1, <1>2
    <2>5. QED
      BY <2>2, <2>3, <2>4
  <1>4. CASE ~(n > MemoryTurns)
    <2>1. SM!Newest(turns) = SubSeq(turns, 1, n)
      BY <1>1, <1>4 DEF SM!Newest
    <2>2. SubSeq(turns, 1, n) \in Seq(Nat) /\ Len(SubSeq(turns, 1, n)) = n
      BY <1>1
    <2>3. n <= MemoryTurns
      BY <1>1, <1>2, <1>4
    <2>4. QED
      BY <2>1, <2>2, <2>3
  <1>5. QED
    BY <1>3, <1>4

LEMMA FreshIs == SM!Fresh \in Memories /\ SM!Fresh.turns = <<>> /\ Len(SM!Fresh.turns) = 0 /\ SM!Fresh.pending = 0 /\ SM!Fresh # Nothing
  <1>1. Nothing \notin Memories
    BY NothingAssumption DEF Memories
  <1>2. SM!Fresh \in Memories /\ SM!Fresh.turns = <<>> /\ SM!Fresh.pending = 0
    BY DEF SM!Fresh, Memories
  <1>3. Len(<<>>) = 0
    OBVIOUS
  <1>4. QED
    BY <1>1, <1>2, <1>3

\* What the types are made of, number by number.
LEMMA Counts ==
  ASSUME MemoryTypes
  PROVE  /\ runs \in Nat /\ runs <= MaxRuns /\ memoryChanges \in Nat
         /\ runs < MaxRuns => runs + 1 \in 0 .. MaxRuns
         /\ memoryChanges < MemoryChanges => memoryChanges + 1 \in 0 .. MemoryChanges
         /\ memoryChanges + 1 \in Nat
         /\ \A p \in {0, runs} : p \in 0 .. MaxRuns + 1
  <1>1. MaxRuns \in Nat /\ MemoryChanges \in Nat /\ runs \in 0 .. MaxRuns /\ memoryChanges \in 0 .. MemoryChanges
    BY ServicesAssumption DEF MemoryTypes
  <1>2. QED
    BY <1>1

LEMMA MemoryBegins == SM!Init => MemoryInv
  <1> SUFFICES ASSUME SM!Init PROVE MemoryInv
    OBVIOUS
  <1>1. SM!Legacy \in Memories /\ Len(SM!Legacy.turns) = 1
    <2>1. MemoryChanges + 1 \in Nat /\ MaxRuns + 1 \in Nat
      BY ServicesAssumption
    <2>2. <<MemoryChanges + 1>> \in Seq(Nat) /\ Len(<<MemoryChanges + 1>>) = 1
      BY <2>1
    <2>3. QED
      BY <2>1, <2>2 DEF SM!Legacy, Memories
  <1>2. mem = SM!Fresh /\ db.turns = <<>> /\ db.marker = FALSE /\ step = "down" /\ backend = "sqlite" /\ runs = 0
    BY DEF SM!Init
  <1>3. MemoryTypes
    <2>0. 0 \in 0 .. MaxRuns + 1 /\ 0 \in 0 .. MaxRuns /\ 0 \in 0 .. MemoryChanges /\ 0 <= MemoryTurns /\ 1 <= MemoryTurns
      BY ServicesAssumption
    <2>1. SM!TypeOK
      <3>1. Len(mem.turns) <= MemoryTurns /\ mem.pending \in 0 .. MaxRuns + 1
        BY <1>2, <2>0, FreshIs
      <3>2. QED
        BY <1>2, <3>1 DEF SM!Init, SM!TypeOK
    <2>2. json # Nothing => json \in Memories /\ Len(json.turns) <= MemoryTurns
      BY <1>1, <2>0 DEF SM!Init
    <2>3. db \in [turns : Seq(Nat), slots : Nat, pending : Nat, marker : BOOLEAN] /\ Len(db.turns) <= MemoryTurns
      <3>1. db = [turns |-> <<>>, slots |-> 0, pending |-> 0, marker |-> FALSE] /\ <<>> \in Seq(Nat) /\ Len(<<>>) = 0
        BY DEF SM!Init
      <3>2. QED
        BY <2>0, <3>1
    <2>4. QED
      BY <1>2, <2>0, <2>1, <2>2, <2>3, FreshIs DEF SM!Init, MemoryTypes
  <1>4. StepInv
    BY <1>2, FreshIs DEF StepInv, SM!SavedWhenAnswered, SM!Kept
  <1>5. StoredInv
    <2>1. SM!Legacy.turns # <<>>
      <3>1. Len(<<>>) = 0
        OBVIOUS
      <3>2. QED
        BY <1>1, <3>1
    <2>2. QED
      BY <1>2, <2>1 DEF SM!Init, StoredInv, SM!Wanted, SM!RestartRemembers
  <1>6. QED
    BY <1>3, <1>4, <1>5 DEF MemoryInv

\* The start: the import and the load.
LEMMA StartKeeps ==
  ASSUME MemoryInv, SM!Open \/ SM!ImportTurns \/ SM!ImportSlots \/ SM!Mark \/ SM!Load
  PROVE  MemoryInv'
  <1> USE DEF MemoryInv, SM!world, SM!Goes, SM!Falls
  <1>1. CASE SM!Open
    <2>1. runs + 1 \in 0 .. MaxRuns
      BY <1>1, Counts DEF SM!Open
    <2>2. MemoryTypes'
      BY <1>1, <2>1 DEF SM!Open, MemoryTypes, SM!TypeOK
    <2>3. StepInv'
      BY <1>1 DEF SM!Open, StepInv, SM!Wanted, SM!SavedWhenAnswered, SM!Kept, MemoryTypes, SM!TypeOK
    <2>4. StoredInv'
      BY <1>1 DEF SM!Open, StoredInv, SM!Wanted, SM!RestartRemembers, MemoryTypes, SM!TypeOK
    <2>5. QED
      BY <2>2, <2>3, <2>4
  <1>2. CASE SM!ImportTurns
    <2>1. json \in Memories /\ Len(json.turns) <= MemoryTurns /\ json # Nothing
      BY <1>2 DEF SM!ImportTurns, MemoryTypes, StepInv, SM!Wanted
    <2>2. MemoryTypes'
      BY <1>2, <2>1 DEF SM!ImportTurns, MemoryTypes, SM!TypeOK, Memories
    <2>3. StepInv'
      BY <1>2 DEF SM!ImportTurns, StepInv, SM!Wanted, SM!SavedWhenAnswered, SM!Kept, MemoryTypes
    <2>4. StoredInv'
      BY <1>2 DEF SM!ImportTurns, StoredInv, StepInv, SM!Wanted, SM!RestartRemembers, MemoryTypes, SM!TypeOK
    <2>5. QED
      BY <2>2, <2>3, <2>4
  <1>3. CASE SM!ImportSlots
    <2>1. json \in Memories /\ Len(json.turns) <= MemoryTurns /\ json # Nothing
      BY <1>3 DEF SM!ImportSlots, MemoryTypes, StepInv, SM!Wanted
    <2>2. MemoryTypes'
      BY <1>3, <2>1 DEF SM!ImportSlots, MemoryTypes, SM!TypeOK, Memories
    <2>3. StepInv'
      BY <1>3 DEF SM!ImportSlots, StepInv, SM!Wanted, SM!SavedWhenAnswered, SM!Kept, MemoryTypes
    <2>4. StoredInv'
      BY <1>3 DEF SM!ImportSlots, StoredInv, StepInv, SM!Wanted, SM!RestartRemembers, MemoryTypes, SM!TypeOK
    <2>5. QED
      BY <2>2, <2>3, <2>4
  <1>4. CASE SM!Mark
    <2>2. MemoryTypes'
      BY <1>4 DEF SM!Mark, MemoryTypes, SM!TypeOK
    <2>3. StepInv'
      BY <1>4 DEF SM!Mark, StepInv, SM!Wanted, SM!SavedWhenAnswered, SM!Kept, MemoryTypes
    <2>4. StoredInv'
      BY <1>4 DEF SM!Mark, StoredInv, StepInv, SM!Wanted, SM!RestartRemembers, MemoryTypes, SM!TypeOK
    <2>5. QED
      BY <2>2, <2>3, <2>4
  <1>5. CASE SM!Load
    <2>1. PICK file : /\ file = IF backend = "sqlite" /\ dbUp THEN db ELSE IF json = Nothing THEN SM!Fresh ELSE json
                      /\ mem' = [turns |-> file.turns, slots |-> file.slots, pending |-> 0]
      BY <1>5 DEF SM!Load, SM!Pending
    <2>2. file.turns \in Seq(Nat) /\ Len(file.turns) <= MemoryTurns /\ file.slots \in Nat
      BY <2>1, FreshIs, ServicesAssumption DEF MemoryTypes, Memories
    <2>3. mem' \in Memories /\ mem'.turns = file.turns /\ mem'.pending = 0
      BY <2>1, <2>2 DEF Memories
    <2>4. /\ step' = "idle" /\ step = "load"
          /\ UNCHANGED <<json, dbUp, memoryChanges, runs, faults, unsaved, durable>>
          /\ db' = (IF backend = "sqlite" /\ dbUp THEN [db EXCEPT !.pending = 0] ELSE db)
          /\ IF (backend = "sqlite" /\ dbUp) \/ backend = "json" THEN UNCHANGED <<backend, failed>>
             ELSE backend' = "json" /\ failed' = TRUE
      BY <1>5 DEF SM!Load
    <2>5. MemoryTypes'
      <3>1. mem'.pending \in 0 .. MaxRuns + 1 /\ Len(mem'.turns) <= MemoryTurns
        BY <2>2, <2>3, Counts
      <3>2. db' \in [turns : Seq(Nat), slots : Nat, pending : Nat, marker : BOOLEAN] /\ Len(db'.turns) <= MemoryTurns
        BY <2>4 DEF MemoryTypes
      <3>3. QED
        BY <2>3, <2>4, <3>1, <3>2 DEF MemoryTypes, SM!TypeOK
    <2>6. StepInv'
      BY <2>1, <2>3, <2>4, FreshIs DEF StepInv, SM!Wanted, SM!SavedWhenAnswered, SM!Kept, MemoryTypes, SM!TypeOK
    <2>7. StoredInv'
      BY <2>1, <2>3, <2>4 DEF StoredInv, SM!Wanted, SM!RestartRemembers, MemoryTypes, SM!TypeOK
    <2>8. QED
      BY <2>5, <2>6, <2>7
  <1>6. QED
    BY <1>1, <1>2, <1>3, <1>4, <1>5

\* An operation changes what is remembered, and begins to save it.
LEMMA ChangeKeeps ==
  ASSUME MemoryInv, NEW m \in Memories, Len(m.turns) <= MemoryTurns, m.pending \in {0, runs}, SM!Changed(m)
  PROVE  MemoryInv'
  <1> USE DEF MemoryInv, SM!world, SM!Goes, SM!Changed
  <1>1. memoryChanges + 1 \in 0 .. MemoryChanges /\ m.pending \in 0 .. MaxRuns + 1
    BY ServicesAssumption DEF MemoryTypes
  <1>2. MemoryTypes'
    BY <1>1 DEF MemoryTypes, SM!TypeOK
  <1>3. StepInv'
    BY DEF StepInv, SM!Wanted, SM!SavedWhenAnswered, SM!Kept, MemoryTypes, SM!TypeOK
  <1>4. StoredInv'
    BY DEF StoredInv, SM!Wanted, SM!RestartRemembers, MemoryTypes, SM!TypeOK
  <1>5. QED
    BY <1>2, <1>3, <1>4

LEMMA OperationsKeep ==
  ASSUME MemoryInv, SM!AddTurn \/ SM!SetSlot \/ SM!Ask \/ SM!Settle \/ SM!Clear
  PROVE  MemoryInv'
  <1>1. /\ mem \in Memories /\ Len(mem.turns) <= MemoryTurns /\ mem.pending \in {0, runs}
        /\ runs \in Nat /\ memoryChanges + 1 \in Nat
    BY Counts DEF MemoryInv, MemoryTypes, StepInv, SM!TypeOK
  <1>2. CASE SM!AddTurn
    <2>1. Append(mem.turns, memoryChanges + 1) \in Seq(Nat)
      BY <1>1 DEF Memories
    <2>2. PICK t : t = SM!Newest(Append(mem.turns, memoryChanges + 1))
      OBVIOUS
    <2>3. t \in Seq(Nat) /\ Len(t) <= MemoryTurns
      BY <2>1, <2>2, NewestAre
    <2>4. [mem EXCEPT !.turns = t] \in Memories /\ [mem EXCEPT !.turns = t].turns = t /\ [mem EXCEPT !.turns = t].pending = mem.pending
      BY <1>1, <2>3 DEF Memories
    <2>5. SM!Changed([mem EXCEPT !.turns = t])
      BY <1>2, <2>2 DEF SM!AddTurn
    <2>6. QED
      BY <1>1, <2>3, <2>4, <2>5, ChangeKeeps
  <1>3. CASE SM!SetSlot
    <2>1. PICK m : m = [mem EXCEPT !.slots = memoryChanges + 1]
      OBVIOUS
    <2>2. m \in Memories /\ m.turns = mem.turns /\ m.pending = mem.pending
      BY <1>1, <2>1 DEF Memories
    <2>3. QED
      BY <1>1, <1>3, <2>1, <2>2, ChangeKeeps DEF SM!SetSlot
  <1>4. CASE SM!Ask
    <2>1. PICK m : m = [mem EXCEPT !.pending = runs]
      OBVIOUS
    <2>2. m \in Memories /\ m.turns = mem.turns /\ m.pending = runs
      BY <1>1, <2>1 DEF Memories
    <2>3. QED
      BY <1>1, <1>4, <2>1, <2>2, ChangeKeeps DEF SM!Ask
  <1>5. CASE SM!Settle
    <2>1. PICK m : m = [mem EXCEPT !.pending = 0]
      OBVIOUS
    <2>2. m \in Memories /\ m.turns = mem.turns /\ m.pending = 0
      BY <1>1, <2>1 DEF Memories
    <2>3. QED
      BY <1>1, <1>5, <2>1, <2>2, ChangeKeeps DEF SM!Settle
  <1>6. CASE SM!Clear
    <2>1. 0 <= MemoryTurns
      BY ServicesAssumption
    <2>2. QED
      BY <1>6, <2>1, FreshIs, ChangeKeeps DEF SM!Clear
  <1>7. QED
    BY <1>2, <1>3, <1>4, <1>5, <1>6

\* The save, whichever step of it fails.
LEMMA SaveKeeps ==
  ASSUME MemoryInv, SM!SaveTurns \/ SM!SaveSlots \/ SM!SavePending \/ SM!OpenJson \/ SM!SaveJson \/ SM!JsonFails
  PROVE  MemoryInv'
  <1> USE DEF MemoryInv, SM!world, SM!Goes, SM!Falls, SM!Answered
  <1>1. CASE SM!SaveTurns
    <2>1. MemoryTypes'
      BY <1>1 DEF SM!SaveTurns, MemoryTypes, SM!TypeOK, Memories
    <2>2. StepInv'
      BY <1>1 DEF SM!SaveTurns, StepInv, SM!Wanted, SM!SavedWhenAnswered, SM!Kept, MemoryTypes
    <2>3. StoredInv'
      BY <1>1 DEF SM!SaveTurns, StoredInv, SM!Wanted, SM!RestartRemembers, MemoryTypes, SM!TypeOK
    <2>4. QED
      BY <2>1, <2>2, <2>3
  <1>2. CASE SM!SaveSlots
    <2>1. MemoryTypes'
      BY <1>2 DEF SM!SaveSlots, MemoryTypes, SM!TypeOK, Memories
    <2>2. StepInv'
      BY <1>2 DEF SM!SaveSlots, StepInv, SM!Wanted, SM!SavedWhenAnswered, SM!Kept, MemoryTypes
    <2>3. StoredInv'
      BY <1>2 DEF SM!SaveSlots, StoredInv, SM!Wanted, SM!RestartRemembers, MemoryTypes, SM!TypeOK
    <2>4. QED
      BY <2>1, <2>2, <2>3
  <1>3. CASE SM!SavePending
    <2>1. MemoryTypes'
      BY <1>3 DEF SM!SavePending, MemoryTypes, SM!TypeOK, Memories
    <2>2. StepInv'
      BY <1>3 DEF SM!SavePending, StepInv, SM!Wanted, SM!SavedWhenAnswered, SM!Kept, MemoryTypes
    <2>3. StoredInv'
      BY <1>3 DEF SM!SavePending, StepInv, StoredInv, SM!Wanted, SM!RestartRemembers, MemoryTypes, SM!TypeOK
    <2>4. QED
      BY <2>1, <2>2, <2>3
  <1>4. CASE SM!OpenJson
    <2>1. MemoryTypes'
      BY <1>4 DEF SM!OpenJson, MemoryTypes, SM!TypeOK
    <2>2. StepInv'
      BY <1>4 DEF SM!OpenJson, StepInv, SM!SavedWhenAnswered
    <2>3. StoredInv'
      BY <1>4 DEF SM!OpenJson, StepInv, StoredInv
    <2>4. QED
      BY <2>1, <2>2, <2>3
  <1>5. CASE SM!SaveJson
    <2>0. mem # Nothing
      BY NothingAssumption DEF MemoryTypes, Memories
    <2>1. MemoryTypes'
      BY <1>5 DEF SM!SaveJson, MemoryTypes, SM!TypeOK
    <2>2. StepInv'
      BY <1>5, <2>0 DEF SM!SaveJson, StepInv, SM!SavedWhenAnswered, SM!Kept
    <2>3. StoredInv'
      BY <1>5 DEF SM!SaveJson, StepInv, StoredInv
    <2>4. QED
      BY <2>1, <2>2, <2>3
  <1>6. CASE SM!JsonFails
    <2>1. MemoryTypes'
      BY <1>6 DEF SM!JsonFails, MemoryTypes, SM!TypeOK
    <2>2. StepInv'
      BY <1>6 DEF SM!JsonFails, StepInv, SM!SavedWhenAnswered
    <2>3. StoredInv'
      BY <1>6 DEF SM!JsonFails, StepInv, StoredInv
    <2>4. QED
      BY <2>1, <2>2, <2>3
  <1>7. QED
    BY <1>1, <1>2, <1>3, <1>4, <1>5, <1>6

LEMMA WorldKeeps ==
  ASSUME MemoryInv, SM!Fault \/ SM!Exit
  PROVE  MemoryInv'
  <1> USE DEF MemoryInv, SM!world, SM!Goes
  <1>1. CASE SM!Fault
    BY <1>1 DEF SM!Fault, MemoryTypes, SM!TypeOK, StepInv, SM!SavedWhenAnswered, SM!Kept, StoredInv, SM!Wanted, SM!RestartRemembers
  <1>2. CASE SM!Exit
    <2>1. MemoryTypes'
      <3>1. Len(SM!Fresh.turns) <= MemoryTurns /\ SM!Fresh.pending \in 0 .. MaxRuns + 1 /\ SM!Fresh \in Memories
        <4>1. 0 <= MemoryTurns
          BY ServicesAssumption
        <4>2. QED
          BY <4>1, FreshIs, Counts
      <3>2. QED
        BY <1>2, <3>1 DEF SM!Exit, MemoryTypes, SM!TypeOK
    <2>2. StepInv'
      BY <1>2, FreshIs DEF SM!Exit, StepInv, SM!SavedWhenAnswered, SM!Kept
    <2>3. StoredInv'
      BY <1>2 DEF SM!Exit, MemoryTypes, SM!TypeOK, StepInv, StoredInv, SM!Wanted, SM!RestartRemembers
    <2>4. QED
      BY <2>1, <2>2, <2>3
  <1>3. QED
    BY <1>1, <1>2

LEMMA MemorySteps == MemoryInv /\ [SM!Next]_SM!memoryVars => MemoryInv'
  <1> SUFFICES ASSUME MemoryInv, [SM!Next]_SM!memoryVars PROVE MemoryInv'
    OBVIOUS
  <1>1. CASE UNCHANGED SM!memoryVars
    BY <1>1 DEF SM!memoryVars, MemoryInv, MemoryTypes, SM!TypeOK, StepInv, SM!SavedWhenAnswered, SM!Kept, StoredInv, SM!Wanted,
       SM!RestartRemembers
  <1>2. QED
    BY <1>1, StartKeeps, OperationsKeep, SaveKeeps, WorldKeeps DEF SM!Next

\* An answered change is saved, nothing of an earlier run is answered, and a restart remembers.
LEMMA MemoryIsSound == MemoryInv => SM!TypeOK /\ SM!SavedWhenAnswered /\ SM!FreshStart /\ SM!RestartRemembers
  BY DEF MemoryInv, MemoryTypes, StepInv, StoredInv, SM!FreshStart, SM!RestartRemembers

-----------------------------------------------------------------------------
(* The file index.                                                         *)

Walks == [pc : {"rest", "open", "visit"}, queue : SUBSET SI!Roots, todo : SUBSET Files, found : SUBSET Files]

IndexInv ==
  /\ SI!TypeOK
  /\ walk \in [SI!Threads -> Walks]
  /\ \A t \in SI!Threads : walk[t].pc # "rest" => walk[t].queue # {}
  /\ seen \in [SI!Roots -> SUBSET Files] /\ last \in [Files -> SI!Roots \cup {Nobody}]
  /\ SI!FoundUnderItsRoot /\ SI!NothingStale

LEMMA RootsAre ==
  /\ SI!Roots = {outer, inner} /\ Nobody \notin SI!Roots /\ SI!Threads = {Indexer, Asker} /\ Nobody \notin SI!Threads
  /\ \A r \in SI!Roots : Under[r] \in SUBSET Files
  <1>1. DOMAIN Order = {1, 2} /\ Order[1] = outer /\ Order[2] = inner
    BY DEF Order
  <1>2. SI!Roots = {outer, inner}
    BY <1>1 DEF SI!Roots, SI!ToSet
  <1>3. \A r \in {outer, inner} : Under[r] \in SUBSET Files
    BY NothingAssumption DEF Under, Files
  <1>4. QED
    BY <1>2, <1>3, NothingAssumption DEF SI!Threads

\* The root that is walked next is one of those to walk.
LEMMA FirstIsRoot ==
  ASSUME NEW queue \in SUBSET SI!Roots, queue # {}
  PROVE  SI!First(queue) \in queue
  <1>1. SI!Place(outer) = 1 /\ SI!Place(inner) = 2
    <2>1. DOMAIN Order = {1, 2} /\ Order[1] = outer /\ Order[2] = inner /\ outer # inner
      BY NothingAssumption DEF Order
    <2>2. QED
      BY <2>1 DEF SI!Place
  <1>2. \E r \in queue : \A q \in queue : SI!Place(r) <= SI!Place(q)
    <2>1. CASE outer \in queue
      BY <1>1, <2>1, RootsAre
    <2>2. CASE outer \notin queue
      BY <1>1, <2>2, RootsAre
    <2>3. QED
      BY <2>1, <2>2
  <1>3. QED
    BY <1>2 DEF SI!First

LEMMA IndexBegins == SI!Init => IndexInv
  BY RootsAre DEF SI!Init, SI!Rest, IndexInv, SI!TypeOK, Walks, SI!FoundUnderItsRoot, SI!NothingStale

LEMMA WalkingIs ==
  ASSUME NEW queue \in SUBSET SI!Roots, queue # {}
  PROVE  SI!Walking(queue) \in Walks /\ SI!Walking(queue).queue # {} /\ SI!Walking(queue).pc = "open" /\ SI!Walking(queue).found = {}
  BY DEF SI!Walking, SI!Rest, Walks

LEMMA RestIs == SI!Rest \in Walks /\ SI!Rest.pc = "rest" /\ SI!Rest.found = {}
  BY DEF SI!Rest, Walks

\* A thread that has nothing to walk, or roots, changes nothing that is found.
LEMMA WalkSet ==
  ASSUME IndexInv, walk' \in [SI!Threads -> Walks], tracked' \subseteq SI!Roots,
         \A t \in SI!Threads : walk'[t].pc # "rest" => walk'[t].queue # {},
         UNCHANGED <<present, rows, indexed, seen, last>>, dbLock' \in SI!Threads \cup {Nobody}
  PROVE  IndexInv'
  BY DEF IndexInv, SI!TypeOK, Walks, SI!FoundUnderItsRoot, SI!NothingStale

\* Searches, refreshes and the worker that wakes up.
LEMMA AsksKeep ==
  ASSUME IndexInv, (\E r \in SI!Roots : SI!Search(r)) \/ SI!Refresh \/ SI!Wake
  PROVE  IndexInv'
  <1>1. walk \in [SI!Threads -> Walks] /\ tracked \subseteq SI!Roots /\ dbLock \in SI!Threads \cup {Nobody}
        /\ \A t \in SI!Threads : walk[t].pc # "rest" => walk[t].queue # {}
    BY DEF IndexInv, SI!TypeOK
  <1>2. ASSUME NEW r \in SI!Roots, SI!Search(r) PROVE IndexInv'
    <2>1. /\ walk' = walk \/ walk' = [walk EXCEPT ![Asker] = SI!Walking({r})]
          /\ tracked' = tracked \cup {r} /\ UNCHANGED <<present, rows, indexed, dbLock, seen, last>>
      BY <1>2 DEF SI!Search
    <2>2. SI!Walking({r}) \in Walks /\ SI!Walking({r}).queue # {}
      BY WalkingIs
    <2>3. walk' \in [SI!Threads -> Walks] /\ \A t \in SI!Threads : walk'[t].pc # "rest" => walk'[t].queue # {}
      BY <1>1, <2>1, <2>2
    <2>4. QED
      BY <1>1, <2>1, <2>3, WalkSet
  <1>3. CASE SI!Refresh
    <2>1. PICK queue \in SUBSET SI!Roots :
            /\ queue # {} /\ walk' = [walk EXCEPT ![Asker] = SI!Walking(queue)]
            /\ tracked' \subseteq SI!Roots /\ UNCHANGED <<present, rows, indexed, dbLock, seen, last>>
      <3>1. CASE \E r \in SI!Roots : tracked' = tracked \cup {r} /\ walk' = [walk EXCEPT ![Asker] = SI!Walking({r})]
        <4>1. PICK r \in SI!Roots : tracked' = tracked \cup {r} /\ walk' = [walk EXCEPT ![Asker] = SI!Walking({r})]
          BY <3>1
        <4>2. {r} \in SUBSET SI!Roots /\ {r} # {}
          OBVIOUS
        <4>3. UNCHANGED <<present, rows, indexed, dbLock, seen, last>>
          BY <1>3 DEF SI!Refresh
        <4>4. QED
          BY <1>1, <4>1, <4>2, <4>3
      <3>2. CASE tracked # {} /\ walk' = [walk EXCEPT ![Asker] = SI!Walking(tracked)] /\ UNCHANGED tracked
        <4>1. UNCHANGED <<present, rows, indexed, dbLock, seen, last>>
          BY <1>3 DEF SI!Refresh
        <4>2. QED
          BY <1>1, <3>2, <4>1
      <3>3. QED
        BY <1>3, <3>1, <3>2 DEF SI!Refresh
    <2>2. SI!Walking(queue) \in Walks /\ SI!Walking(queue).queue # {}
      BY <2>1, WalkingIs
    <2>3. walk' \in [SI!Threads -> Walks] /\ \A t \in SI!Threads : walk'[t].pc # "rest" => walk'[t].queue # {}
      BY <1>1, <2>1, <2>2
    <2>4. QED
      BY <1>1, <2>1, <2>3, WalkSet
  <1>4. CASE SI!Wake
    <2>1. /\ tracked # {} /\ walk' = [walk EXCEPT ![Indexer] = SI!Walking(tracked)]
          /\ UNCHANGED <<present, rows, tracked, indexed, dbLock, seen, last>>
      BY <1>4 DEF SI!Wake
    <2>2. SI!Walking(tracked) \in Walks /\ SI!Walking(tracked).queue # {}
      BY <1>1, <2>1, WalkingIs
    <2>3. walk' \in [SI!Threads -> Walks] /\ \A t \in SI!Threads : walk'[t].pc # "rest" => walk'[t].queue # {}
      BY <1>1, <2>1, <2>2
    <2>4. QED
      BY <1>1, <2>1, <2>3, WalkSet
  <1>5. QED
    BY <1>2, <1>3, <1>4

\* The walk of a root, up to its end.
LEMMA WalksKeep ==
  ASSUME IndexInv, NEW t \in SI!Threads, SI!Open(t) \/ SI!Visit(t)
  PROVE  IndexInv'
  <1>1. walk \in [SI!Threads -> Walks] /\ tracked \subseteq SI!Roots /\ dbLock \in SI!Threads \cup {Nobody}
        /\ \A u \in SI!Threads : walk[u].pc # "rest" => walk[u].queue # {}
    BY DEF IndexInv, SI!TypeOK
  <1>2. CASE SI!Open(t)
    <2>1. walk[t].queue \in SUBSET SI!Roots /\ walk[t].queue # {}
      BY <1>1, <1>2 DEF SI!Open, Walks
    <2>2. PICK files \in SUBSET Files : files = Under[SI!First(walk[t].queue)]
      BY <2>1, FirstIsRoot, RootsAre
    <2>3. walk' = [walk EXCEPT ![t] = [pc |-> "visit", queue |-> walk[t].queue, todo |-> files, found |-> {}]]
      <3>1. walk' = [walk EXCEPT ![t].pc = "visit", ![t].todo = files, ![t].found = {}]
        BY <1>2, <2>2 DEF SI!Open
      <3>2. PICK w \in Walks : w = walk[t] /\ w.queue = walk[t].queue
        BY <1>1
      <3>3. [[[w EXCEPT !.pc = "visit"] EXCEPT !.todo = files] EXCEPT !.found = {}]
              = [pc |-> "visit", queue |-> w.queue, todo |-> files, found |-> {}]
        <4>1. w = [pc |-> w.pc, queue |-> w.queue, todo |-> w.todo, found |-> w.found]
          BY <3>2 DEF Walks
        <4>2. PICK v : v = [w EXCEPT !.pc = "visit"]
          OBVIOUS
        <4>3. v = [pc |-> "visit", queue |-> w.queue, todo |-> w.todo, found |-> w.found]
          BY <4>1, <4>2
        <4>4. PICK u : u = [v EXCEPT !.todo = files]
          OBVIOUS
        <4>5. u = [pc |-> "visit", queue |-> w.queue, todo |-> files, found |-> w.found]
          BY <4>3, <4>4
        <4>6. [u EXCEPT !.found = {}] = [pc |-> "visit", queue |-> w.queue, todo |-> files, found |-> {}]
          BY <4>5
        <4>7. QED
          BY <4>2, <4>4, <4>6
      <3>4. walk' = [walk EXCEPT ![t] = [[[w EXCEPT !.pc = "visit"] EXCEPT !.todo = files] EXCEPT !.found = {}]]
        BY <1>1, <3>1, <3>2
      <3>5. QED
        BY <3>2, <3>3, <3>4
    <2>4. walk' \in [SI!Threads -> Walks] /\ \A u \in SI!Threads : walk'[u].pc # "rest" => walk'[u].queue # {}
      BY <1>1, <2>1, <2>3 DEF Walks
    <2>5. dbLock' = t /\ UNCHANGED <<present, rows, tracked, indexed, seen, last>>
      BY <1>2 DEF SI!Open
    <2>6. QED
      BY <1>1, <2>4, <2>5, WalkSet
  <1>3. CASE SI!Visit(t)
    <2>1. PICK f \in walk[t].todo :
            walk' = [walk EXCEPT ![t].todo = @ \ {f}, ![t].found = IF f \in present THEN @ \cup {f} ELSE @]
      BY <1>3 DEF SI!Visit
    <2>2. PICK found \in SUBSET Files : found = IF f \in present THEN walk[t].found \cup {f} ELSE walk[t].found
      BY <1>1 DEF Walks
    <2>3. walk' = [walk EXCEPT ![t] = [pc |-> walk[t].pc, queue |-> walk[t].queue, todo |-> walk[t].todo \ {f}, found |-> found]]
      <3>1. PICK w \in Walks : w = walk[t]
        BY <1>1
      <3>2. w = [pc |-> w.pc, queue |-> w.queue, todo |-> w.todo, found |-> w.found]
        BY DEF Walks
      <3>3. PICK v : v = [w EXCEPT !.todo = w.todo \ {f}]
        OBVIOUS
      <3>4. v = [pc |-> w.pc, queue |-> w.queue, todo |-> w.todo \ {f}, found |-> w.found]
        BY <3>2, <3>3
      <3>5. [v EXCEPT !.found = found] = [pc |-> w.pc, queue |-> w.queue, todo |-> w.todo \ {f}, found |-> found]
        BY <3>4
      <3>6. walk' = [walk EXCEPT ![t] = [v EXCEPT !.found = found]]
        BY <1>1, <2>1, <2>2, <3>1, <3>3
      <3>7. QED
        BY <3>1, <3>5, <3>6
    <2>4. walk' \in [SI!Threads -> Walks] /\ \A u \in SI!Threads : walk'[u].pc # "rest" => walk'[u].queue # {}
      BY <1>1, <2>3 DEF Walks
    <2>5. UNCHANGED <<present, rows, tracked, indexed, dbLock, seen, last>>
      BY <1>3 DEF SI!Visit
    <2>6. QED
      BY <1>1, <2>4, <2>5, WalkSet
  <1>4. QED
    BY <1>2, <1>3

\* The rows of a root are replaced by what the walk saw; a row another root takes keeps that.
LEMMA CommitKeeps ==
  ASSUME IndexInv, NEW t \in SI!Threads, SI!Commit(t)
  PROVE  IndexInv'
  <1>1. PICK r, left, found :
          /\ r = SI!First(walk[t].queue) /\ left = walk[t].queue \ {r} /\ found = walk[t].found
          /\ rows' = [f \in Files |-> IF f \in found THEN r ELSE IF rows[f] = r THEN Nobody ELSE rows[f]]
          /\ indexed' = indexed \cup {r}
          /\ seen' = [seen EXCEPT ![r] = found]
          /\ last' = [f \in Files |-> IF f \in found THEN r ELSE last[f]]
          /\ walk' = [walk EXCEPT ![t] = IF left = {} \/ (stopping /\ t = Indexer) THEN SI!Rest ELSE SI!Walking(left)]
          /\ dbLock' = Nobody /\ UNCHANGED <<present, tracked>>
    BY DEF SI!Commit, SI!Replaced
  <1>2. walk[t].queue \in SUBSET SI!Roots /\ walk[t].queue # {} /\ found \in SUBSET Files
    BY <1>1 DEF IndexInv, Walks, SI!Commit
  <1>3. r \in SI!Roots /\ left \in SUBSET SI!Roots /\ r # Nobody
    BY <1>1, <1>2, FirstIsRoot, RootsAre
  <1>4. PICK w \in Walks :
          /\ w = IF left = {} \/ (stopping /\ t = Indexer) THEN SI!Rest ELSE SI!Walking(left)
          /\ w.pc # "rest" => w.queue # {}
    BY <1>3, RestIs, WalkingIs
  <1>5. walk' \in [SI!Threads -> Walks] /\ \A u \in SI!Threads : walk'[u].pc # "rest" => walk'[u].queue # {}
    BY <1>1, <1>4 DEF IndexInv
  <1>6. SI!TypeOK'
    <2>1. \A u \in SI!Threads : walk'[u].pc \in {"rest", "open", "visit"} /\ walk'[u].found \subseteq walk'[u].todo \cup Files
      BY <1>5 DEF Walks
    <2>2. QED
      BY <1>1, <1>2, <1>3, <2>1 DEF IndexInv, SI!TypeOK
  <1>7. seen' \in [SI!Roots -> SUBSET Files] /\ last' \in [Files -> SI!Roots \cup {Nobody}]
    BY <1>1, <1>2, <1>3 DEF IndexInv
  <1>8. /\ \A f \in Files : rows'[f] = IF f \in found THEN r ELSE IF rows[f] = r THEN Nobody ELSE rows[f]
        /\ \A f \in Files : last'[f] = IF f \in found THEN r ELSE last[f]
        /\ \A q \in SI!Roots : seen'[q] = IF q = r THEN found ELSE seen[q]
        /\ \A q \in indexed' : q \in SI!Roots /\ (q = r \/ q \in indexed)
    BY <1>1, <1>3 DEF IndexInv, SI!TypeOK
  <1>9. SI!FoundUnderItsRoot'
    BY <1>8 DEF IndexInv, SI!FoundUnderItsRoot
  <1>10. SI!NothingStale'
    BY <1>3, <1>8, RootsAre DEF IndexInv, SI!NothingStale
  <1>11. QED
    BY <1>5, <1>6, <1>7, <1>9, <1>10 DEF IndexInv

LEMMA IndexSteps == IndexInv /\ [SI!Next]_SI!siVars => IndexInv'
  <1> SUFFICES ASSUME IndexInv, [SI!Next]_SI!siVars PROVE IndexInv'
    OBVIOUS
  <1>1. CASE UNCHANGED SI!siVars
    BY <1>1 DEF SI!siVars, IndexInv, SI!TypeOK, SI!FoundUnderItsRoot, SI!NothingStale
  <1>2. CASE SI!Stop
    BY <1>2 DEF SI!Stop, IndexInv, SI!TypeOK, SI!FoundUnderItsRoot, SI!NothingStale
  <1>3. CASE SI!Restart
    <2>1. /\ tracked' = {} /\ indexed' = {} /\ dbLock' = Nobody /\ walk' = [t \in SI!Threads |-> SI!Rest]
          /\ seen' = [r \in SI!Roots |-> {}] /\ UNCHANGED <<present, rows, last>>
      BY <1>3 DEF SI!Restart
    <2>2. walk' \in [SI!Threads -> Walks] /\ \A t \in SI!Threads : walk'[t] = SI!Rest
      BY <2>1, RestIs
    <2>3. QED
      BY <2>1, <2>2, RestIs DEF IndexInv, SI!TypeOK, SI!FoundUnderItsRoot, SI!NothingStale
  <1>4. CASE \E f \in Files : SI!Move(f)
    BY <1>4 DEF SI!Move, IndexInv, SI!TypeOK, SI!FoundUnderItsRoot, SI!NothingStale
  <1>5. CASE SI!IndexerWorks \/ SI!Steps(Asker)
    <2>1. Indexer \in SI!Threads /\ Asker \in SI!Threads
      BY RootsAre
    <2>2. QED
      BY <1>5, <2>1, AsksKeep, WalksKeep, CommitKeeps DEF SI!IndexerWorks, SI!Steps
  <1>6. QED
    BY <1>1, <1>2, <1>3, <1>4, <1>5, AsksKeep DEF SI!Next

-----------------------------------------------------------------------------
(* The knowledge base.                                                     *)

Texts  == 1 .. MaxChanges
Stores == [meta : Seq(Docs \X KB!Contents), vec : Seq(Docs \X KB!Contents), src : [Docs -> KB!Contents]]
Visits == [pc : {"new", "off", "idle", "starting", "list", "walk", "store", "save", "prune", "save all", "done", "clear"},
           todo : SUBSET Docs, listed : SUBSET Docs, doc : Docs \cup {Nobody}, text : KB!Contents \cup {Nobody},
           prunes : BOOLEAN]

KnowledgeTypes ==
  /\ KB!TypeOK
  /\ changes \in Nat
  /\ kb \in Stores /\ saved \in Stores
  /\ user \in [KB!Users -> Visits]
  /\ \A t \in KB!Users : user[t].pc = "store" => user[t].doc \in Docs /\ user[t].text \in Texts
  /\ user[Caller].pc = "new" => \A w \in Pollers : user[w].pc = "off"

\* A new process starts from what the one before it left, and has saved nothing yet.
NewIsSaved == user[Caller].pc = "new" => ~behind

KnowledgeInv == KnowledgeTypes /\ NewIsSaved /\ KB!Aligned /\ KB!Durable

Before == {p \in Nat \X Nat : p[1] < p[2]}

\* A set of numbers that is not empty has a least one.
LEMMA LeastNumber ==
  ASSUME NEW T \in SUBSET Nat, T # {}
  PROVE  \E x \in T : \A y \in T : x <= y
  <1>1. IsWellFoundedOn(Before, Nat)
    BY NatLessThanWellFounded DEF OpToRel, Before
  <1>2. PICK x \in T : \A y \in T : ~(<<y, x>> \in Before)
    BY <1>1, WFMin
  <1>3. ASSUME NEW y \in T PROVE x <= y
    <2>1. <<y, x>> \in Nat \X Nat
      OBVIOUS
    <2>2. QED
      BY <1>2, <2>1 DEF Before
  <1>4. QED
    BY <1>3

\* The cardinality the module counts with is that of the library.
LEMMA RowCount == \A S : KB!Cardinality(S) = Cardinality(S)
  BY DEF KB!Cardinality, Cardinality

\* The k-th number of a set has k numbers of the set up to it.
LEMMA KthNumber ==
  ASSUME NEW N \in Nat, NEW S \in SUBSET (1 .. N), NEW k \in 1 .. Cardinality(S)
  PROVE  \E i \in S : Cardinality({j \in S : j <= i}) = k
  <1> DEFINE Up(m) == {j \in S : j <= m}
             Reached == {m \in Nat : Cardinality(Up(m)) >= k}
  <1>0. \A j \in S : j \in Nat /\ 1 <= j /\ j <= N
    <2>1. \A j \in 1 .. N : j \in Nat /\ 1 <= j /\ j <= N
      OBVIOUS
    <2>2. QED
      BY <2>1
  <1>11. k \in Nat /\ 1 <= k /\ k <= Cardinality(S)
    <2>1. IsFiniteSet(1 .. N) /\ S \subseteq 1 .. N
      BY FS_Interval
    <2>2. Cardinality(S) \in Nat
      BY <2>1, FS_Subset, FS_CardinalityType
    <2>3. QED
      BY <2>2
  <1>1. \A m \in Nat : IsFiniteSet(Up(m)) /\ Cardinality(Up(m)) \in Nat
    <2>1. IsFiniteSet(1 .. N)
      BY FS_Interval
    <2>2. \A m \in Nat : Up(m) \subseteq 1 .. N
      OBVIOUS
    <2>3. QED
      BY <2>1, <2>2, FS_Subset, FS_CardinalityType
  <1>2. N \in Reached
    <2>1. Up(N) = S
      BY <1>0
    <2>2. QED
      BY <1>1, <1>11, <2>1
  <1>3. PICK m \in Reached : \A n \in Reached : m <= n
    <2>1. Reached \in SUBSET Nat /\ Reached # {}
      BY <1>2
    <2>2. QED
      BY <2>1, LeastNumber
  <1>4. m # 0
    <2>0. \A j \in S : ~(j <= 0)
      BY <1>0
    <2>1. Up(0) = {}
      BY <2>0
    <2>2. Cardinality(Up(0)) = 0
      BY <2>1, FS_EmptySet
    <2>3. QED
      BY <1>3, <1>11, <2>2
  <1>5. Cardinality(Up(m - 1)) < k
    <2>1. m \in Nat /\ m - 1 \in Nat
      BY <1>4
    <2>6. ~(m <= m - 1)
      BY <2>1
    <2>2. m - 1 \notin Reached
      BY <1>3, <2>6
    <2>3. ~(Cardinality(Up(m - 1)) >= k)
      BY <2>1, <2>2
    <2>4. Cardinality(Up(m - 1)) \in Nat
      BY <1>1, <2>1
    <2>5. QED
      BY <1>11, <2>3, <2>4
  <1>6. m \in S
    <2>1. ASSUME m \notin S PROVE Up(m) = Up(m - 1)
      <3>1. m \in Nat /\ \A j \in S : j <= m <=> j <= m - 1
        BY <1>0, <2>1
      <3>2. QED
        BY <3>1
    <2>2. QED
      BY <1>1, <1>3, <1>5, <1>11, <2>1
  <1>7. Up(m) = Up(m - 1) \cup {m} /\ m \notin Up(m - 1)
    <2>1. m \in Nat /\ \A j \in S : j <= m <=> (j <= m - 1 \/ j = m)
      BY <1>0
    <2>2. ~(m <= m - 1)
      BY <2>1
    <2>3. QED
      BY <1>6, <2>1, <2>2
  <1>8. Cardinality(Up(m)) = Cardinality(Up(m - 1)) + 1
    <2>1. m - 1 \in Nat
      BY <1>4
    <2>2. QED
      BY <1>1, <1>7, <2>1, FS_AddElement
  <1>9. Cardinality(Up(m)) = k
    <2>1. m - 1 \in Nat
      BY <1>4
    <2>2. Cardinality(Up(m)) >= k
      BY <1>3
    <2>3. QED
      <3>1. PICK c : c = Cardinality(Up(m - 1))
        OBVIOUS
      <3>2. c \in Nat
        BY <1>1, <2>1, <3>1
      <3>3. c < k /\ c + 1 >= k
        BY <1>5, <1>8, <2>2, <3>1
      <3>4. c + 1 = k
        BY <1>11, <3>2, <3>3
      <3>5. QED
        BY <1>8, <3>1, <3>4
  <1>10. QED
    BY <1>6, <1>9

\* A larger number of a set has more numbers of the set up to it.
LEMMA MoreUpTo ==
  ASSUME NEW N \in Nat, NEW S \in SUBSET (1 .. N), NEW i \in S, NEW j \in S, i < j
  PROVE  Cardinality({n \in S : n <= i}) < Cardinality({n \in S : n <= j})
  <1> DEFINE Up(m) == {n \in S : n <= m}
  <1>1. \A n \in S : n \in Nat
    OBVIOUS
  <1>2. IsFiniteSet(S) /\ IsFiniteSet(Up(i)) /\ IsFiniteSet(Up(j))
    <2>1. IsFiniteSet(1 .. N)
      BY FS_Interval
    <2>2. S \subseteq 1 .. N /\ Up(i) \subseteq S /\ Up(j) \subseteq S
      OBVIOUS
    <2>3. QED
      BY <2>1, <2>2, FS_Subset
  <1>3. j \notin Up(i) /\ Up(i) \cup {j} \subseteq Up(j)
    <2>1. i \in Nat /\ j \in Nat /\ ~(j <= i) /\ j <= j
      BY <1>1
    <2>2. \A n \in S : n <= i => n <= j
      BY <1>1
    <2>3. QED
      BY <2>1, <2>2
  <1>4. Cardinality(Up(i) \cup {j}) = Cardinality(Up(i)) + 1
    BY <1>2, <1>3, FS_AddElement
  <1>5. Cardinality(Up(i) \cup {j}) <= Cardinality(Up(j))
    BY <1>2, <1>3, FS_Subset
  <1>6. Cardinality(Up(i)) \in Nat /\ Cardinality(Up(j)) \in Nat
    BY <1>2, FS_CardinalityType
  <1>7. QED
    BY <1>4, <1>5, <1>6

\* The rows at the positions of a set, in their order: each of them once.
LEMMA PickIs ==
  ASSUME NEW T, NEW s \in Seq(T), NEW S \in SUBSET (DOMAIN s)
  PROVE  /\ KB!Pick(s, S) \in Seq(T)
         /\ \A k \in DOMAIN KB!Pick(s, S) : KB!Kth(S, k) \in S /\ KB!Pick(s, S)[k] = s[KB!Kth(S, k)]
         /\ \A k, l \in DOMAIN KB!Pick(s, S) : KB!Kth(S, k) = KB!Kth(S, l) => k = l
         /\ \A i \in S : \E k \in DOMAIN KB!Pick(s, S) : KB!Kth(S, k) = i
         /\ DOMAIN KB!Pick(s, S) = 1 .. Cardinality(S)
  <1>1. PICK N \in Nat : N = Len(s) /\ DOMAIN s = 1 .. N /\ S \in SUBSET (1 .. N)
    OBVIOUS
  <1>2. IsFiniteSet(S) /\ Cardinality(S) \in Nat
    <2>1. IsFiniteSet(1 .. N) /\ S \subseteq 1 .. N
      BY <1>1, FS_Interval
    <2>2. QED
      BY <2>1, FS_Subset, FS_CardinalityType
  <1>3. KB!Pick(s, S) = [k \in 1 .. Cardinality(S) |-> s[KB!Kth(S, k)]]
    BY RowCount DEF KB!Pick
  <1>4. ASSUME NEW k \in 1 .. Cardinality(S)
        PROVE  KB!Kth(S, k) \in S /\ Cardinality({j \in S : j <= KB!Kth(S, k)}) = k
    <2>1. \E i \in S : Cardinality({j \in S : j <= i}) = k
      BY <1>1, KthNumber
    <2>2. QED
      BY <2>1, RowCount DEF KB!Kth
  <1>5. ASSUME NEW i \in S PROVE \E k \in 1 .. Cardinality(S) : KB!Kth(S, k) = i
    <2>1. PICK k : k = Cardinality({j \in S : j <= i})
      OBVIOUS
    <2>2. k \in 1 .. Cardinality(S)
      <3>1. IsFiniteSet({j \in S : j <= i}) /\ k <= Cardinality(S) /\ k \in Nat
        <4>1. {j \in S : j <= i} \subseteq S
          OBVIOUS
        <4>2. QED
          BY <1>2, <2>1, <4>1, FS_Subset, FS_CardinalityType
      <3>2. i \in {j \in S : j <= i}
        BY <1>1
      <3>3. k # 0
        BY <2>1, <3>1, <3>2, FS_EmptySet
      <3>4. QED
        BY <1>2, <3>1, <3>3
    <2>3. KB!Kth(S, k) \in S /\ Cardinality({j \in S : j <= KB!Kth(S, k)}) = k
      BY <1>4, <2>2
    <2>4. PICK h \in S : h = KB!Kth(S, k) /\ Cardinality({j \in S : j <= h}) = k
      BY <2>3
    <2>5. ~(h < i) /\ ~(i < h)
      <3>1. k \in Nat /\ ~(k < k)
        BY <1>2, <2>2
      <3>2. QED
        BY <1>1, <2>1, <2>4, <3>1, MoreUpTo
    <2>6. h \in Nat /\ i \in Nat
      BY <1>1
    <2>7. h = i
      BY <2>5, <2>6
    <2>8. QED
      BY <2>2, <2>4, <2>7
  <1>6. KB!Pick(s, S) \in Seq(T) /\ DOMAIN KB!Pick(s, S) = 1 .. Cardinality(S)
    <2>1. \A k \in 1 .. Cardinality(S) : s[KB!Kth(S, k)] \in T
      <3>1. \A i \in DOMAIN s : s[i] \in T
        OBVIOUS
      <3>2. QED
        BY <1>4, <3>1
    <2>2. QED
      BY <1>2, <1>3, <2>1
  <1>7. QED
    BY <1>3, <1>4, <1>5, <1>6

\* A row is a document and its text.
Rows == Docs \X KB!Contents

LEMMA KeptArePositions ==
  ASSUME NEW k \in Stores, NEW d
  PROVE  KB!Keep(k, d) \in SUBSET DOMAIN k.meta
  BY DEF KB!Keep

\* Taking a document out: of a sound store it takes the rows, the vectors and the name.
LEMMA WithoutIsStore ==
  ASSUME NEW k \in Stores, NEW d \in Docs
  PROVE  KB!Without(k, d) \in Stores
  <1>1. k.meta \in Seq(Rows) /\ k.vec \in Seq(Rows) /\ k.src \in [Docs -> KB!Contents]
    BY DEF Stores, Rows
  <1>2. KB!Pick(k.meta, KB!Keep(k, d)) \in Seq(Rows)
    BY <1>1, KeptArePositions, PickIs
  <1>3. CASE ~KB!Known(k, d)
    BY <1>3 DEF KB!Without
  <1>4. CASE KB!Known(k, d) /\ KB!Fails(k, d)
    <2>1. KB!Without(k, d) = [k EXCEPT !.meta = KB!Pick(k.meta, KB!Keep(k, d))]
      BY <1>4 DEF KB!Without
    <2>2. QED
      BY <1>2, <2>1 DEF Stores, Rows
  <1>5. CASE KB!Known(k, d) /\ ~KB!Fails(k, d)
    <2>1. KB!Without(k, d) = [meta |-> KB!Pick(k.meta, KB!Keep(k, d)), vec |-> KB!Vectors(k, d),
                              src |-> [k.src EXCEPT ![d] = Missing]]
      BY <1>5 DEF KB!Without
    <2>2. KB!Vectors(k, d) \in Seq(Rows)
      <3>1. CASE k.vec = <<>>
        BY <3>1 DEF KB!Vectors
      <3>2. CASE k.vec # <<>>
        <4>1. KB!Keep(k, d) \in SUBSET DOMAIN k.vec
          BY <1>5, <3>2 DEF KB!Fails
        <4>2. QED
          BY <1>1, <3>2, <4>1, PickIs DEF KB!Vectors
      <3>3. QED
        BY <3>1, <3>2
    <2>3. [k.src EXCEPT ![d] = Missing] \in [Docs -> KB!Contents]
      BY <1>1 DEF KB!Contents
    <2>4. QED
      BY <1>2, <2>1, <2>2, <2>3 DEF Stores, Rows
  <1>6. QED
    BY <1>3, <1>4, <1>5

LEMMA WithoutIsSound ==
  ASSUME NEW k \in Stores, NEW d \in Docs, KB!Consistent(k)
  PROVE  /\ ~KB!Fails(k, d) /\ KB!Consistent(KB!Without(k, d))
         /\ \A i \in DOMAIN KB!Without(k, d).meta : KB!Without(k, d).meta[i][1] # d
  <1>1. k.meta \in Seq(Rows) /\ k.vec = k.meta /\ k.src \in [Docs -> KB!Contents]
    BY DEF Stores, Rows, KB!Consistent
  <1>2. ~KB!Fails(k, d)
    BY <1>1, KeptArePositions DEF KB!Fails
  <1>3. CASE ~KB!Known(k, d)
    BY <1>2, <1>3 DEF KB!Without, KB!Known
  <1>4. CASE KB!Known(k, d)
    <2>1. PICK S : S = KB!Keep(k, d) /\ S \in SUBSET DOMAIN k.meta /\ \A i \in DOMAIN k.meta : i \in S <=> k.meta[i][1] # d
      <3>1. \A i \in DOMAIN k.meta : i \in KB!Keep(k, d) <=> k.meta[i][1] # d
        BY DEF KB!Keep
      <3>2. QED
        BY <3>1, KeptArePositions
    <2>2. k.vec # <<>>
      BY <1>1, <1>4 DEF KB!Known
    <2>3. PICK m, src : /\ m = KB!Pick(k.meta, S) /\ src = [k.src EXCEPT ![d] = Missing]
                        /\ KB!Without(k, d) = [meta |-> m, vec |-> m, src |-> src]
      BY <1>1, <1>2, <1>4, <2>1, <2>2 DEF KB!Without, KB!Vectors
    <2>4. /\ \A i \in DOMAIN m : KB!Kth(S, i) \in S /\ m[i] = k.meta[KB!Kth(S, i)]
          /\ \A i, j \in DOMAIN m : KB!Kth(S, i) = KB!Kth(S, j) => i = j
          /\ \A i \in S : \E j \in DOMAIN m : KB!Kth(S, j) = i
      BY <1>1, <2>1, <2>3, PickIs
    <2>5. \A i \in DOMAIN m : m[i][1] # d
      BY <2>1, <2>4
    <2>6. \A i, j \in DOMAIN m : m[i][1] = m[j][1] => i = j
      <3>1. \A i, j \in DOMAIN k.meta : k.meta[i][1] = k.meta[j][1] => i = j
        BY DEF KB!Consistent
      <3>2. QED
        BY <2>1, <2>4, <3>1
    <2>7. ASSUME NEW e \in Docs PROVE src[e] # Missing <=> \E i \in DOMAIN m : m[i] = <<e, src[e]>>
      <3>1. CASE e = d
        <4>1. src[e] = Missing
          BY <1>1, <2>3, <3>1
        <4>2. <<e, src[e]>>[1] = d
          BY <3>1
        <4>3. QED
          BY <2>5, <4>1, <4>2
      <3>2. CASE e # d
        <4>1. src[e] = k.src[e] /\ <<e, k.src[e]>>[1] # d
          BY <1>1, <2>3, <3>2
        <4>2. k.src[e] # Missing <=> \E i \in DOMAIN k.meta : k.meta[i] = <<e, k.src[e]>>
          BY DEF KB!Consistent
        <4>3. (\E i \in DOMAIN k.meta : k.meta[i] = <<e, k.src[e]>>) <=> \E i \in DOMAIN m : m[i] = <<e, k.src[e]>>
          <5>1. ASSUME NEW i \in DOMAIN k.meta, k.meta[i] = <<e, k.src[e]>> PROVE \E j \in DOMAIN m : m[j] = <<e, k.src[e]>>
            <6>1. i \in S
              BY <2>1, <4>1, <5>1
            <6>2. PICK j \in DOMAIN m : KB!Kth(S, j) = i
              BY <2>4, <6>1
            <6>3. m[j] = k.meta[i]
              BY <2>4, <6>2
            <6>4. QED
              BY <5>1, <6>3
          <5>2. ASSUME NEW i \in DOMAIN m, m[i] = <<e, k.src[e]>> PROVE \E j \in DOMAIN k.meta : k.meta[j] = <<e, k.src[e]>>
            BY <2>1, <2>4, <5>2
          <5>3. QED
            BY <5>1, <5>2
        <4>4. QED
          BY <4>1, <4>2, <4>3
      <3>3. QED
        BY <3>1, <3>2
    <2>8. KB!Consistent([meta |-> m, vec |-> m, src |-> src])
      BY <2>6, <2>7 DEF KB!Consistent
    <2>9. QED
      BY <1>2, <2>3, <2>5, <2>8
  <1>5. QED
    BY <1>3, <1>4

\* Storing a document: its old rows go, its new row comes last.
LEMMA WithIsStore ==
  ASSUME NEW k \in Stores, NEW d \in Docs, NEW text \in Texts
  PROVE  /\ KB!With(k, d, text) \in Stores
         /\ KB!Consistent(k) => KB!Consistent(KB!With(k, d, text))
  <1>1. PICK w \in Stores : w = KB!Without(k, d)
    BY WithoutIsStore
  <1>2. PICK m, v, src : /\ m = Append(w.meta, <<d, text>>) /\ v = Append(w.vec, <<d, text>>)
                         /\ src = [w.src EXCEPT ![d] = text]
                         /\ KB!With(k, d, text) = [meta |-> m, vec |-> v, src |-> src]
    BY <1>1 DEF KB!With
  <1>3. w.meta \in Seq(Rows) /\ w.vec \in Seq(Rows) /\ w.src \in [Docs -> KB!Contents]
    BY DEF Stores, Rows
  <1>4. text \in KB!Contents /\ <<d, text>> \in Rows
    BY DEF Texts, KB!Contents, Rows
  <1>5. m \in Seq(Rows) /\ v \in Seq(Rows) /\ src \in [Docs -> KB!Contents]
    BY <1>2, <1>3, <1>4
  <1>6. KB!With(k, d, text) \in Stores
    BY <1>2, <1>5 DEF Stores, Rows
  <1>7. ASSUME KB!Consistent(k) PROVE KB!Consistent(KB!With(k, d, text))
    <2>1. KB!Consistent(w) /\ \A i \in DOMAIN w.meta : w.meta[i][1] # d
      BY <1>1, <1>7, WithoutIsSound
    <2>2. PICK n \in Nat : n = Len(w.meta) /\ DOMAIN w.meta = 1 .. n
      BY <1>3
    <2>3. DOMAIN m = 1 .. n + 1 /\ m[n + 1] = <<d, text>> /\ \A i \in 1 .. n : m[i] = w.meta[i]
      BY <1>2, <1>3, <1>4, <2>2
    <2>4. m = v
      BY <1>2, <2>1 DEF KB!Consistent
    <2>5. \A i \in 1 .. n + 1 : i \in 1 .. n \/ i = n + 1
      BY <2>2
    <2>6. \A i \in 1 .. n : i \in 1 .. n + 1
      BY <2>2
    <2>7. n + 1 \in 1 .. n + 1
      BY <2>2
    <2>8. <<d, text>>[1] = d
      OBVIOUS
    <2>9. \A i, j \in DOMAIN m : m[i][1] = m[j][1] => i = j
      <3>1. \A i, j \in 1 .. n : w.meta[i][1] = w.meta[j][1] => i = j
        BY <2>1, <2>2 DEF KB!Consistent
      <3>2. QED
        BY <2>1, <2>2, <2>3, <2>5, <2>8, <3>1
    <2>10. ASSUME NEW e \in Docs PROVE src[e] # Missing <=> \E i \in DOMAIN m : m[i] = <<e, src[e]>>
      <3>1. CASE e = d
        <4>1. src[e] = text /\ text # Missing
          BY <1>2, <1>3, <3>1, ServicesAssumption, NothingAssumption DEF Texts
        <4>2. m[n + 1] = <<e, src[e]>> /\ n + 1 \in DOMAIN m
          BY <2>3, <2>7, <3>1, <4>1
        <4>3. QED
          BY <4>1, <4>2
      <3>2. CASE e # d
        <4>1. src[e] = w.src[e] /\ <<e, src[e]>>[1] = e
          BY <1>2, <1>3, <3>2
        <4>2. w.src[e] # Missing <=> \E i \in DOMAIN w.meta : w.meta[i] = <<e, w.src[e]>>
          BY <2>1 DEF KB!Consistent
        <4>3. m[n + 1] # <<e, src[e]>>
          BY <2>3, <2>8, <3>2, <4>1
        <4>4. QED
          BY <2>2, <2>3, <2>5, <2>6, <4>1, <4>2, <4>3
      <3>3. QED
        BY <3>1, <3>2
    <2>11. KB!Consistent([meta |-> m, vec |-> v, src |-> src])
      BY <2>4, <2>9, <2>10 DEF KB!Consistent
    <2>12. QED
      BY <1>2, <2>11
  <1>8. QED
    BY <1>6, <1>7

LEMMA EmptyIs == KB!Empty \in Stores /\ KB!Consistent(KB!Empty)
  <1>1. KB!Empty = [meta |-> <<>>, vec |-> <<>>, src |-> [d \in Docs |-> Missing]] /\ Missing \in KB!Contents
    BY DEF KB!Empty, KB!Contents
  <1>2. <<>> \in Seq(Rows) /\ DOMAIN <<>> = {}
    OBVIOUS
  <1>3. KB!Empty \in Stores
    BY <1>1, <1>2 DEF Stores, Rows
  <1>4. KB!Consistent(KB!Empty)
    BY <1>1, <1>2 DEF KB!Consistent
  <1>5. QED
    BY <1>3, <1>4

\* A thread that is not in use before the first call.
LEMMA AtIs ==
  /\ \A pc \in {"new", "off", "idle", "starting", "list", "walk", "prune", "save all", "done", "clear"} :
       KB!At(pc) \in Visits /\ KB!At(pc).pc = pc
  /\ KB!Sync \in Visits /\ KB!Sync.pc = "list"
  BY DEF KB!At, KB!Sync, Visits

LEMMA UsersAre ==
  /\ KB!Users = Pollers \cup {Caller} /\ Caller \notin Pollers /\ Nobody \notin KB!Users
  BY NothingAssumption DEF KB!Users

\* What a thread does leaves it in a place of its own.
UsersTyped ==
  /\ user \in [KB!Users -> Visits]
  /\ \A t \in KB!Users : user[t].pc = "store" => user[t].doc \in Docs /\ user[t].text \in Texts
  /\ user[Caller].pc = "new" => \A w \in Pollers : user[w].pc = "off"

LEMMA KnowledgeBegins == KB!Init => KnowledgeInv
  <1> SUFFICES ASSUME KB!Init PROVE KnowledgeInv
    OBVIOUS
  <1>1. kb = KB!Empty /\ saved = KB!Empty /\ kb \in Stores /\ KB!Consistent(kb) /\ kb.src \in [Docs -> KB!Contents]
    BY EmptyIs DEF KB!Init, Stores
  <1>2. changes \in Nat
    <2>1. \A t \in Spent : t[1] \in {0, 1}
      BY DEF Spent
    <2>2. PICK t \in Spent : changes = t[1]
      BY DEF KB!Init
    <2>3. changes \in {0, 1}
      BY <2>1, <2>2
    <2>4. QED
      BY <2>3
  <1>3. folder \in [Docs -> KB!Contents]
    BY DEF KB!Init, KB!Contents
  <1>4. UsersTyped /\ user[Caller].pc = "new"
    BY AtIs, UsersAre DEF KB!Init, UsersTyped
  <1>5. KB!TypeOK
    <2>1. \A t \in KB!Users : user[t].pc \in {"new", "off", "idle", "starting", "list", "walk", "store", "save",
                                           "prune", "save all", "done", "clear"}
      BY <1>4 DEF UsersTyped, Visits
    <2>2. lock = Nobody /\ handle = Nobody /\ stopped = FALSE /\ overtaken = {}
      BY DEF KB!Init
    <2>3. QED
      BY <1>1, <1>3, <2>1, <2>2 DEF KB!TypeOK
  <1>6. KnowledgeTypes
    BY <1>1, <1>2, <1>4, <1>5 DEF KnowledgeTypes, UsersTyped
  <1>7. ~behind
    BY DEF KB!Init
  <1>8. QED
    BY <1>1, <1>4, <1>6, <1>7 DEF KnowledgeInv, NewIsSaved, KB!Aligned, KB!Durable

LEMMA UserStep ==
  ASSUME UsersTyped, NEW t \in KB!Users, user[t].pc \notin {"new", "off"}, NEW v \in Visits, v.pc # "new",
         v.pc = "store" => v.doc \in Docs /\ v.text \in Texts, user' = [user EXCEPT ![t] = v]
  PROVE  UsersTyped' /\ (user'[Caller].pc = "new" <=> user[Caller].pc = "new") /\ user[Caller].pc # "new"
  <1>1. user[Caller].pc # "new" /\ user'[Caller].pc # "new"
    BY UsersAre DEF UsersTyped
  <1>2. QED
    BY <1>1 DEF UsersTyped

\* A step that leaves the store and the files alone, and does not let go of the lock.
LEMMA QuietKeeps ==
  ASSUME KnowledgeInv, UsersTyped', folder' \in [Docs -> KB!Contents], changes' \in Nat,
         handle' \in Pollers \cup {Nobody}, stopped' \in BOOLEAN,
         overtaken' \subseteq Docs, lock' \in KB!Users \cup {Nobody},
         UNCHANGED <<kb, saved, behind, torn>>, lock' = Nobody => lock = Nobody,
         user'[Caller].pc = "new" <=> user[Caller].pc = "new"
  PROVE  KnowledgeInv'
  BY DEF KnowledgeInv, KnowledgeTypes, UsersTyped, NewIsSaved, KB!TypeOK, Visits, KB!Aligned, KB!Durable

\* The fields a step changes, one after the other.
LEMMA FieldsAre ==
  ASSUME NEW v \in Visits
  PROVE  v = [pc |-> v.pc, todo |-> v.todo, listed |-> v.listed, doc |-> v.doc, text |-> v.text, prunes |-> v.prunes]
  BY DEF Visits

LEMMA OrdersKeep ==
  ASSUME KnowledgeInv,
         \/ \E on \in BOOLEAN : KB!SetAutoSync(on)
         \/ KB!SyncDirectory \/ KB!IndexDirectory \/ KB!OrderClear
         \/ \E d \in Docs : KB!AddDocument(d)
  PROVE  KnowledgeInv'
  <1>1. PICK v \in Visits : /\ v.pc \notin {"store", "new"} /\ user[Caller].pc = "idle" /\ user' = [user EXCEPT ![Caller] = v]
                            /\ UNCHANGED <<folder, changes, kb, saved, behind, lock, torn, overtaken>>
                            /\ handle' \in Pollers \cup {Nobody} /\ stopped' \in BOOLEAN
    <2>1. handle \in Pollers \cup {Nobody} /\ stopped \in BOOLEAN
      BY DEF KnowledgeInv, KnowledgeTypes, KB!TypeOK
    <2>2. ASSUME NEW d \in Docs
          PROVE  [KB!At("walk") EXCEPT !.todo = {d}] \in Visits /\ [KB!At("walk") EXCEPT !.todo = {d}].pc = "walk"
      BY DEF KB!At, Visits
    <2>3. ASSUME NEW v \in Visits, v.pc \notin {"store", "new"}, KB!Order(v),
                 handle' \in Pollers \cup {Nobody}, stopped' \in BOOLEAN
          PROVE  \E w \in Visits : /\ w.pc \notin {"store", "new"} /\ user[Caller].pc = "idle" /\ user' = [user EXCEPT ![Caller] = w]
                                   /\ UNCHANGED <<folder, changes, kb, saved, behind, lock, torn, overtaken>>
                                   /\ handle' \in Pollers \cup {Nobody} /\ stopped' \in BOOLEAN
      BY <2>3 DEF KB!Order, KB!outside, KB!disk
    <2>4. \E v \in Visits : v.pc \notin {"store", "new"} /\ KB!Order(v) /\ handle' \in Pollers \cup {Nobody} /\ stopped' \in BOOLEAN
      <3>1. CASE \E on \in BOOLEAN : KB!SetAutoSync(on)
        BY <2>1, <3>1, AtIs DEF KB!SetAutoSync
      <3>2. CASE KB!SyncDirectory \/ KB!IndexDirectory \/ KB!OrderClear
        BY <2>1, <3>2, AtIs DEF KB!SyncDirectory, KB!IndexDirectory, KB!OrderClear, KB!polling
      <3>3. CASE \E d \in Docs : KB!AddDocument(d)
        BY <2>1, <2>2, <3>3 DEF KB!AddDocument, KB!polling
      <3>4. QED
        BY <3>1, <3>2, <3>3
    <2>5. QED
      BY <2>3, <2>4
  <1>2. UsersTyped' /\ (user'[Caller].pc = "new" <=> user[Caller].pc = "new")
    BY <1>1, UsersAre, UserStep DEF KnowledgeInv, KnowledgeTypes, UsersTyped
  <1>3. QED
    BY <1>1, <1>2, QuietKeeps DEF KnowledgeInv, KnowledgeTypes, KB!TypeOK

\* The first call, and the automatic synchronisation.
LEMMA StartingKeeps ==
  ASSUME KnowledgeInv, KB!Initialize \/ KB!StartAutoSync
  PROVE  KnowledgeInv'
  <1>0. UsersTyped /\ KnowledgeTypes /\ KB!TypeOK
    BY DEF KnowledgeInv, KnowledgeTypes, UsersTyped
  <1>1. CASE KB!Initialize
    <2>1. /\ kb' = saved /\ lock' \in {Caller, Nobody} /\ UNCHANGED <<folder, changes, saved, behind, handle, stopped, torn, overtaken>>
      BY <1>1 DEF KB!Initialize, KB!outside, KB!histories, KB!disk, KB!polling
    <2>2. PICK v \in Visits : v.pc \notin {"store", "new"} /\ user' = [user EXCEPT ![Caller] = v] /\ user[Caller].pc = "new"
      BY <1>1, AtIs DEF KB!Initialize
    <2>3. UsersTyped' /\ user'[Caller].pc # "new"
      BY <1>0, <2>2, UsersAre DEF UsersTyped
    <2>4. KnowledgeTypes'
      BY <1>0, <2>1, <2>3, UsersAre DEF KnowledgeTypes, UsersTyped, KB!TypeOK, Visits
    <2>5. ~behind
      BY <2>2 DEF KnowledgeInv, NewIsSaved
    <2>6. KB!Aligned' /\ KB!Durable'
      BY <2>1, <2>5 DEF KnowledgeInv, KB!Aligned, KB!Durable
    <2>7. QED
      BY <2>1, <2>3, <2>4, <2>6 DEF KnowledgeInv, NewIsSaved
  <1>2. CASE KB!StartAutoSync
    <2>1. user[Caller].pc = "starting" /\ lock = Nobody
      BY <1>2 DEF KB!StartAutoSync
    <2>2. /\ lock' \in {Caller, Nobody} /\ UNCHANGED <<folder, changes, kb, saved, behind, torn, overtaken>>
      BY <1>2 DEF KB!StartAutoSync, KB!outside, KB!histories, KB!disk
    <2>3. CASE UNCHANGED <<user, handle, stopped>>
      BY <1>0, <2>1, <2>2, <2>3, UsersAre, QuietKeeps DEF KB!TypeOK, KnowledgeTypes, UsersTyped
    <2>4. CASE user' = [user EXCEPT ![Caller] = KB!At("idle")] /\ UNCHANGED <<handle, stopped>>
      <3>1. UsersTyped' /\ (user'[Caller].pc = "new" <=> user[Caller].pc = "new")
        BY <1>0, <2>1, <2>4, AtIs, UsersAre, UserStep
      <3>2. QED
        BY <1>0, <2>1, <2>2, <2>4, <3>1, UsersAre, QuietKeeps DEF KB!TypeOK, KnowledgeTypes
    <2>5. CASE /\ \E w \in Pollers : ~KB!Alive(w)
               /\ handle' = KB!Another /\ stopped' = FALSE
               /\ user' = [user EXCEPT ![Caller] = KB!At("idle"), ![KB!Another] = KB!At("idle")]
      <3>1. KB!Another \in Pollers
        BY <2>5 DEF KB!Another
      <3>2. PICK a \in Pollers : a = KB!Another
        BY <3>1
      <3>3. \A t \in KB!Users : user'[t] = IF t \in {Caller, a} THEN KB!At("idle") ELSE user[t]
        BY <1>0, <2>5, <3>2, UsersAre DEF UsersTyped
      <3>4. user' \in [KB!Users -> Visits]
        BY <1>0, <2>5, <3>2, AtIs, UsersAre DEF UsersTyped
      <3>5. UsersTyped' /\ (user'[Caller].pc = "new" <=> user[Caller].pc = "new")
        BY <1>0, <2>1, <3>3, <3>4, AtIs, UsersAre DEF UsersTyped
      <3>6. handle' \in Pollers \cup {Nobody} /\ stopped' \in BOOLEAN
        BY <2>5, <3>1
      <3>7. QED
        BY <1>0, <2>1, <2>2, <3>5, <3>6, UsersAre, QuietKeeps DEF KB!TypeOK, KnowledgeTypes
    <2>6. QED
      BY <1>2, <2>3, <2>4, <2>5 DEF KB!StartAutoSync, KB!polling
  <1>3. QED
    BY <1>1, <1>2

\* A polling worker.
LEMMA WorkerKeeps ==
  ASSUME KnowledgeInv, NEW w \in Pollers, KB!Sign(w) \/ KB!KeepSignature(w) \/ KB!WorkerEnds(w)
  PROVE  KnowledgeInv'
  <1>0. UsersTyped /\ KnowledgeTypes /\ KB!TypeOK
    BY DEF KnowledgeInv, KnowledgeTypes, UsersTyped
  <1>1. PICK v \in Visits : v.pc \notin {"store", "new"} /\ user' = [user EXCEPT ![w] = v] /\ user[w].pc \notin {"new", "off"}
    BY AtIs DEF KB!Sign, KB!KeepSignature, KB!WorkerEnds
  <1>2. UsersTyped' /\ (user'[Caller].pc = "new" <=> user[Caller].pc = "new")
    BY <1>0, <1>1, UsersAre, UserStep
  <1>3. UNCHANGED <<folder, changes, kb, saved, behind, lock, handle, stopped, torn, overtaken>>
    BY DEF KB!Sign, KB!KeepSignature, KB!WorkerEnds, KB!outside, KB!histories, KB!disk, KB!polling
  <1>4. QED
    BY <1>0, <1>2, <1>3, QuietKeeps DEF KB!TypeOK, KnowledgeTypes

\* Listing and reading, without the lock.
LEMMA ReadingKeeps ==
  ASSUME KnowledgeInv, NEW t \in KB!Users, KB!List(t) \/ KB!Read(t) \/ KB!Walked(t)
  PROVE  KnowledgeInv'
  <1>0. UsersTyped /\ KnowledgeTypes /\ KB!TypeOK /\ user[t] \in Visits /\ KB!Files \in SUBSET Docs
    BY DEF KnowledgeInv, KnowledgeTypes, UsersTyped, KB!Files
  <1>1. PICK u \in Visits : u = user[t] /\ u.pc \notin {"new", "off"}
                            /\ u = [pc |-> u.pc, todo |-> u.todo, listed |-> u.listed, doc |-> u.doc, text |-> u.text, prunes |-> u.prunes]
    BY <1>0, FieldsAre DEF KB!List, KB!Read, KB!Walked
  <1>2. PICK v \in Visits : v.pc # "new" /\ (v.pc = "store" => v.doc \in Docs /\ v.text \in Texts) /\ user' = [user EXCEPT ![t] = v]
    <2>1. CASE KB!List(t)
      <3>1. PICK a : a = [u EXCEPT !.pc = "walk"]
        OBVIOUS
      <3>2. a = [pc |-> "walk", todo |-> u.todo, listed |-> u.listed, doc |-> u.doc, text |-> u.text, prunes |-> u.prunes]
        BY <1>1, <3>1
      <3>3. PICK b : b = [a EXCEPT !.todo = KB!Files]
        OBVIOUS
      <3>4. b = [pc |-> "walk", todo |-> KB!Files, listed |-> u.listed, doc |-> u.doc, text |-> u.text, prunes |-> u.prunes]
        BY <3>2, <3>3
      <3>5. PICK c : c = [b EXCEPT !.listed = KB!Files]
        OBVIOUS
      <3>6. c = [pc |-> "walk", todo |-> KB!Files, listed |-> KB!Files, doc |-> u.doc, text |-> u.text, prunes |-> u.prunes]
        BY <3>4, <3>5
      <3>7. user' = [user EXCEPT ![t] = c]
        BY <1>0, <1>1, <2>1, <3>1, <3>3, <3>5 DEF KB!List, UsersTyped
      <3>8. c \in Visits /\ c.pc \notin {"store", "new"}
        BY <1>0, <3>6 DEF Visits
      <3>9. QED
        BY <3>7, <3>8
    <2>2. CASE KB!Read(t)
      <3>0. PICK d \in u.todo :
              user' = [user EXCEPT ![t].todo = @ \ {d},
                                   ![t].pc = IF KB!Readable(d) THEN "store" ELSE "walk",
                                   ![t].doc = IF KB!Readable(d) THEN d ELSE Nobody,
                                   ![t].text = IF KB!Readable(d) THEN folder[d] ELSE Nobody]
        BY <1>1, <2>2 DEF KB!Read
      <3>1. PICK pc, doc, text :
              /\ pc = (IF KB!Readable(d) THEN "store" ELSE "walk") /\ doc = (IF KB!Readable(d) THEN d ELSE Nobody)
              /\ text = (IF KB!Readable(d) THEN folder[d] ELSE Nobody)
        OBVIOUS
      <3>2. /\ d \in Docs /\ doc \in Docs \cup {Nobody} /\ text \in KB!Contents \cup {Nobody} /\ pc \in {"store", "walk"}
            /\ pc = "store" => doc \in Docs /\ text \in Texts
        BY <1>0, <3>1 DEF Visits, KB!Readable, KB!TypeOK, Texts
      <3>3. PICK a : a = [u EXCEPT !.todo = u.todo \ {d}]
        OBVIOUS
      <3>4. a = [pc |-> u.pc, todo |-> u.todo \ {d}, listed |-> u.listed, doc |-> u.doc, text |-> u.text, prunes |-> u.prunes]
        BY <1>1, <3>3
      <3>5. PICK b : b = [a EXCEPT !.pc = pc]
        OBVIOUS
      <3>6. b = [pc |-> pc, todo |-> u.todo \ {d}, listed |-> u.listed, doc |-> u.doc, text |-> u.text, prunes |-> u.prunes]
        BY <3>4, <3>5
      <3>7. PICK c : c = [b EXCEPT !.doc = doc]
        OBVIOUS
      <3>8. c = [pc |-> pc, todo |-> u.todo \ {d}, listed |-> u.listed, doc |-> doc, text |-> u.text, prunes |-> u.prunes]
        BY <3>6, <3>7
      <3>9. PICK e : e = [c EXCEPT !.text = text]
        OBVIOUS
      <3>10. e = [pc |-> pc, todo |-> u.todo \ {d}, listed |-> u.listed, doc |-> doc, text |-> text, prunes |-> u.prunes]
        BY <3>8, <3>9
      <3>11. user' = [user EXCEPT ![t] = e]
        BY <1>0, <1>1, <3>0, <3>1, <3>3, <3>5, <3>7, <3>9 DEF UsersTyped
      <3>12. e \in Visits /\ e.pc # "new" /\ (e.pc = "store" => e.doc \in Docs /\ e.text \in Texts)
        BY <3>2, <3>10 DEF Visits
      <3>13. QED
        BY <3>11, <3>12
    <2>3. CASE KB!Walked(t)
      <3>1. [u EXCEPT !.pc = "prune"] \in Visits /\ [u EXCEPT !.pc = "prune"].pc = "prune"
        BY DEF Visits
      <3>2. user' = [user EXCEPT ![t] = [u EXCEPT !.pc = "prune"]] \/ user' = [user EXCEPT ![t] = KB!At("idle")]
        BY <1>0, <1>1, <2>3 DEF KB!Walked, UsersTyped
      <3>3. QED
        BY <3>1, <3>2, AtIs
    <2>4. QED
      BY <2>1, <2>2, <2>3
  <1>3. UsersTyped' /\ (user'[Caller].pc = "new" <=> user[Caller].pc = "new")
    BY <1>0, <1>1, <1>2, UserStep
  <1>4. UNCHANGED <<folder, changes, kb, saved, behind, lock, handle, stopped, torn, overtaken>>
    BY DEF KB!List, KB!Read, KB!Walked, KB!outside, KB!histories, KB!disk, KB!polling
  <1>5. QED
    BY <1>0, <1>3, <1>4, QuietKeeps DEF KB!TypeOK, KnowledgeTypes

\* A step that changes the store holds the lock then, and keeps the store sound.
LEMMA ChangedStoreKeeps ==
  ASSUME KnowledgeInv, UsersTyped', kb' \in Stores, torn \/ KB!Consistent(kb)', torn \/ lock' # Nobody,
         lock' \in KB!Users \cup {Nobody}, overtaken' \subseteq Docs,
         UNCHANGED <<folder, changes, saved, behind, handle, stopped, torn>>,
         user'[Caller].pc = "new" => user[Caller].pc = "new"
  PROVE  KnowledgeInv'
  <1>1. KnowledgeTypes'
    BY DEF KnowledgeInv, KnowledgeTypes, UsersTyped, KB!TypeOK, Stores, Visits
  <1>2. KB!Aligned'
    <2>1. KB!Consistent(saved) => KB!Consistent(saved)'
      BY DEF KB!Consistent
    <2>2. QED
      BY <2>1 DEF KnowledgeInv, KB!Aligned
  <1>3. KB!Durable'
    BY DEF KB!Durable
  <1>4. QED
    BY <1>1, <1>2, <1>3 DEF KnowledgeInv, NewIsSaved

LEMMA BackIs ==
  ASSUME NEW u \in Visits
  PROVE  KB!Back(u) \in Visits /\ KB!Back(u).pc = "walk"
  <1>1. u = [pc |-> u.pc, todo |-> u.todo, listed |-> u.listed, doc |-> u.doc, text |-> u.text, prunes |-> u.prunes]
    BY FieldsAre
  <1>2. PICK a : a = [u EXCEPT !.pc = "walk"]
    OBVIOUS
  <1>3. a = [pc |-> "walk", todo |-> u.todo, listed |-> u.listed, doc |-> u.doc, text |-> u.text, prunes |-> u.prunes]
    BY <1>1, <1>2
  <1>4. PICK b : b = [a EXCEPT !.doc = Nobody]
    OBVIOUS
  <1>5. b = [pc |-> "walk", todo |-> u.todo, listed |-> u.listed, doc |-> Nobody, text |-> u.text, prunes |-> u.prunes]
    BY <1>3, <1>4
  <1>6. PICK c : c = [b EXCEPT !.text = Nobody]
    OBVIOUS
  <1>7. c = [pc |-> "walk", todo |-> u.todo, listed |-> u.listed, doc |-> Nobody, text |-> Nobody, prunes |-> u.prunes]
    BY <1>5, <1>6
  <1>8. KB!Back(u) = c
    BY <1>2, <1>4, <1>6 DEF KB!Back
  <1>9. c \in Visits
    <2>1. u.todo \in SUBSET Docs /\ u.listed \in SUBSET Docs /\ u.prunes \in BOOLEAN
      BY DEF Visits
    <2>2. QED
      BY <1>7, <2>1 DEF Visits
  <1>10. c.pc = "walk"
    BY <1>7
  <1>11. QED
    BY <1>8, <1>9, <1>10

LEMMA PlacedIs ==
  ASSUME NEW u \in Visits, NEW pc \in {"save", "save all"}
  PROVE  \E v \in Visits : v = [u EXCEPT !.pc = pc] /\ v.pc = pc
  <1>1. u = [pc |-> u.pc, todo |-> u.todo, listed |-> u.listed, doc |-> u.doc, text |-> u.text, prunes |-> u.prunes]
    BY FieldsAre
  <1>2. PICK v : v = [u EXCEPT !.pc = pc]
    OBVIOUS
  <1>3. v = [pc |-> pc, todo |-> u.todo, listed |-> u.listed, doc |-> u.doc, text |-> u.text, prunes |-> u.prunes]
    BY <1>1, <1>2
  <1>4. v \in Visits
    BY <1>2 DEF Visits
  <1>5. QED
    BY <1>2, <1>3, <1>4

LEMMA StoreKeeps ==
  ASSUME KnowledgeInv, NEW t \in KB!Users, KB!Store(t)
  PROVE  KnowledgeInv'
  <1>0. UsersTyped /\ KnowledgeTypes /\ KB!TypeOK /\ user[t] \in Visits /\ user[t].pc \notin {"new", "off"} /\ kb \in Stores
        /\ lock = Nobody /\ UNCHANGED <<folder, changes, saved, behind, handle, stopped, torn>> /\ t # Nobody
    BY UsersAre DEF KnowledgeInv, KnowledgeTypes, UsersTyped, KB!Store, KB!outside, KB!disk, KB!polling
  <1>1. PICK d \in Docs, text \in Texts : d = user[t].doc /\ text = user[t].text
    BY DEF KB!Store, KnowledgeInv, KnowledgeTypes
  <1>2. CASE kb.src[d] = text
    <2>1. user' = [user EXCEPT ![t] = KB!Back(user[t])] /\ UNCHANGED <<kb, lock, overtaken>>
      BY <1>0, <1>1, <1>2 DEF KB!Store, UsersTyped
    <2>2. UsersTyped' /\ (user'[Caller].pc = "new" <=> user[Caller].pc = "new")
      BY <1>0, <2>1, BackIs, UserStep
    <2>3. QED
      BY <1>0, <2>1, <2>2, QuietKeeps DEF KB!TypeOK, KnowledgeTypes
  <1>3. CASE kb.src[d] # text /\ KB!Fails(kb, d)
    <2>1. user' = [user EXCEPT ![t] = KB!At("idle")] /\ kb' = KB!Without(kb, d) /\ UNCHANGED <<lock, overtaken>>
      BY <1>0, <1>1, <1>3 DEF KB!Store
    <2>2. torn
      BY <1>0, <1>3, WithoutIsSound DEF KnowledgeInv, KB!Aligned
    <2>3. UsersTyped' /\ (user'[Caller].pc = "new" => user[Caller].pc = "new")
      BY <1>0, <2>1, AtIs, UserStep
    <2>4. kb' \in Stores
      BY <1>0, <2>1, WithoutIsStore
    <2>5. QED
      BY <1>0, <2>1, <2>2, <2>3, <2>4, ChangedStoreKeeps DEF KB!TypeOK
  <1>4. CASE kb.src[d] # text /\ ~KB!Fails(kb, d)
    <2>1. /\ user' = [user EXCEPT ![t].pc = "save"] /\ kb' = KB!With(kb, d, text) /\ lock' = t
          /\ overtaken' \in {overtaken, overtaken \cup {d}}
      BY <1>0, <1>1, <1>4 DEF KB!Store
    <2>2. PICK v \in Visits : v = [user[t] EXCEPT !.pc = "save"] /\ v.pc = "save"
      BY <1>0, PlacedIs
    <2>3. user' = [user EXCEPT ![t] = v]
      BY <1>0, <2>1, <2>2 DEF UsersTyped
    <2>4. UsersTyped' /\ (user'[Caller].pc = "new" => user[Caller].pc = "new")
      BY <1>0, <2>2, <2>3, UserStep
    <2>5. kb' \in Stores /\ (torn \/ KB!Consistent(kb'))
      BY <1>0, <2>1, WithIsStore DEF KnowledgeInv, KB!Aligned
    <2>6. overtaken' \subseteq Docs
      BY <1>0, <2>1 DEF KB!TypeOK
    <2>7. QED
      BY <1>0, <2>1, <2>4, <2>5, <2>6, ChangedStoreKeeps DEF KB!TypeOK
  <1>5. QED
    BY <1>2, <1>3, <1>4

LEMMA PruneKeeps ==
  ASSUME KnowledgeInv, NEW t \in KB!Users, KB!Prune(t)
  PROVE  KnowledgeInv'
  <1>0. UsersTyped /\ KnowledgeTypes /\ KB!TypeOK /\ user[t] \in Visits /\ user[t].pc \notin {"new", "off"} /\ kb \in Stores
        /\ lock \in {Nobody, t} /\ UNCHANGED <<folder, changes, saved, behind, handle, stopped, torn>> /\ t # Nobody
    BY UsersAre DEF KnowledgeInv, KnowledgeTypes, UsersTyped, KB!Prune, KB!outside, KB!disk, KB!polling
  <1>1. CASE KB!Dropped(t) = {}
    <2>1. user' = [user EXCEPT ![t].pc = "save all"] /\ lock' = t /\ UNCHANGED <<kb, overtaken>>
      BY <1>1 DEF KB!Prune
    <2>2. PICK v \in Visits : v = [user[t] EXCEPT !.pc = "save all"] /\ v.pc = "save all"
      BY <1>0, PlacedIs
    <2>3. user' = [user EXCEPT ![t] = v]
      BY <1>0, <2>1, <2>2 DEF UsersTyped
    <2>4. UsersTyped' /\ (user'[Caller].pc = "new" <=> user[Caller].pc = "new")
      BY <1>0, <2>2, <2>3, UserStep
    <2>5. QED
      BY <1>0, <2>1, <2>4, QuietKeeps DEF KB!TypeOK, KnowledgeTypes
  <1>2. CASE KB!Dropped(t) # {}
    <2>1. PICK d \in Docs :
            /\ kb' = KB!Without(kb, d)
            /\ IF KB!Fails(kb, d) THEN lock' = Nobody /\ user' = [user EXCEPT ![t] = KB!At("idle")]
               ELSE lock' = t /\ UNCHANGED user
            /\ overtaken' \in {overtaken, overtaken \cup {d}}
      BY <1>2 DEF KB!Prune, KB!Dropped
    <2>2. kb' \in Stores
      BY <1>0, <2>1, WithoutIsStore
    <2>3. torn \/ (~KB!Fails(kb, d) /\ KB!Consistent(kb'))
      BY <1>0, <2>1, WithoutIsSound DEF KnowledgeInv, KB!Aligned
    <2>4. UsersTyped' /\ (user'[Caller].pc = "new" => user[Caller].pc = "new")
      <3>1. CASE UNCHANGED user
        BY <1>0, <3>1 DEF UsersTyped
      <3>2. CASE user' = [user EXCEPT ![t] = KB!At("idle")]
        BY <1>0, <3>2, AtIs, UserStep
      <3>3. QED
        BY <2>1, <3>1, <3>2
    <2>5. overtaken' \subseteq Docs /\ lock' \in KB!Users \cup {Nobody}
      BY <1>0, <2>1 DEF KB!TypeOK
    <2>6. torn \/ lock' # Nobody
      BY <1>0, <2>1, <2>3
    <2>7. QED
      BY <1>0, <2>2, <2>3, <2>4, <2>5, <2>6, ChangedStoreKeeps
  <1>3. QED
    BY <1>1, <1>2

LEMMA ClearKeeps ==
  ASSUME KnowledgeInv, KB!Clear
  PROVE  KnowledgeInv'
  <1>0. UsersTyped /\ Caller \in KB!Users /\ user[Caller] \in Visits /\ user[Caller].pc \notin {"new", "off"} /\ Caller # Nobody
    BY UsersAre DEF KnowledgeInv, KnowledgeTypes, UsersTyped, KB!Clear
  <1>1. /\ kb' = KB!Empty /\ lock' = Caller /\ user' = [user EXCEPT ![Caller].pc = "save all"] /\ overtaken' = Docs
        /\ UNCHANGED <<folder, changes, saved, behind, handle, stopped, torn>>
    BY DEF KB!Clear, KB!outside, KB!disk, KB!polling
  <1>2. PICK v \in Visits : v = [user[Caller] EXCEPT !.pc = "save all"] /\ v.pc = "save all"
    BY <1>0, PlacedIs
  <1>3. user' = [user EXCEPT ![Caller] = v]
    BY <1>0, <1>1, <1>2 DEF UsersTyped
  <1>4. UsersTyped' /\ (user'[Caller].pc = "new" => user[Caller].pc = "new")
    BY <1>0, <1>2, <1>3, UserStep
  <1>5. QED
    BY <1>0, <1>1, <1>4, EmptyIs, ChangedStoreKeeps

\* What is saved is what is known; a store that is empty is sound again.
LEMMA SavingKeeps ==
  ASSUME KnowledgeInv, NEW t \in KB!Users, KB!Save(t)
  PROVE  KnowledgeInv'
  <1>0. UsersTyped /\ KnowledgeTypes /\ KB!TypeOK /\ user[t] \in Visits /\ user[t].pc \notin {"new", "off"} /\ kb \in Stores
    BY DEF KnowledgeInv, KnowledgeTypes, UsersTyped, KB!Save
  <1>1. /\ saved' = kb /\ lock' = Nobody /\ torn' = (torn /\ kb # KB!Empty) /\ behind' = FALSE
        /\ UNCHANGED <<folder, changes, kb, handle, stopped, overtaken>>
    BY DEF KB!Save, KB!outside, KB!polling
  <1>2. PICK v \in Visits : v.pc \notin {"store", "new"} /\ user' = [user EXCEPT ![t] = v]
    <2>1. \/ user' = [user EXCEPT ![t] = KB!Back(user[t])]
          \/ user' = [user EXCEPT ![t] = KB!At("done")] \/ user' = [user EXCEPT ![t] = KB!At("idle")]
      BY <1>0 DEF KB!Save, UsersTyped
    <2>2. QED
      BY <1>0, <2>1, BackIs, AtIs
  <1>3. UsersTyped'
    BY <1>0, <1>2, UserStep
  <1>4. KnowledgeTypes'
    BY <1>0, <1>1, <1>3 DEF KnowledgeTypes, UsersTyped, KB!TypeOK, Stores, Visits
  <1>5. KB!Aligned'
    <2>1. CASE kb = KB!Empty
      BY <1>1, <2>1, EmptyIs DEF KB!Aligned
    <2>2. CASE kb # KB!Empty
      BY <1>1, <2>2 DEF KnowledgeInv, KB!Aligned
    <2>3. QED
      BY <2>1, <2>2
  <1>6. KB!Durable'
    BY <1>1 DEF KB!Durable
  <1>7. QED
    BY <1>1, <1>4, <1>5, <1>6 DEF KnowledgeInv, NewIsSaved

\* What a save that fails leaves of the files, and one that is cut.
LEMMA CutIsStore ==
  ASSUME kb \in Stores, saved \in Stores, NEW n \in 0 .. 3, NEW cut \in BOOLEAN
  PROVE  KB!Cut(n, cut) \in Stores
  <1>1. PICK m, v, src :
          /\ m = (IF n >= 1 THEN kb.meta ELSE IF cut THEN <<>> ELSE saved.meta)
          /\ src = (IF n >= 2 THEN kb.src ELSE IF n = 1 /\ cut THEN KB!Empty.src ELSE saved.src)
          /\ v = (IF n >= 3 THEN kb.vec ELSE IF n = 2 /\ cut THEN <<>> ELSE saved.vec)
    OBVIOUS
  <1>2. KB!Cut(n, cut) = [meta |-> m, src |-> src, vec |-> v]
    BY <1>1 DEF KB!Cut
  <1>3. m \in Seq(Rows) /\ v \in Seq(Rows) /\ src \in [Docs -> KB!Contents]
    BY <1>1, EmptyIs DEF Stores, Rows
  <1>4. QED
    BY <1>2, <1>3 DEF Stores, Rows

LEMMA FailingKeeps ==
  ASSUME KnowledgeInv, NEW t \in KB!Users, KB!SaveFails(t)
  PROVE  KnowledgeInv'
  <1>0. UsersTyped /\ KnowledgeTypes /\ KB!TypeOK /\ user[t] \in Visits /\ user[t].pc \notin {"new", "off"} /\ kb \in Stores
    BY DEF KnowledgeInv, KnowledgeTypes, UsersTyped, KB!SaveFails
  <1>1. /\ lock' = Nobody /\ behind' = TRUE /\ user' = [user EXCEPT ![t] = KB!At("idle")]
        /\ UNCHANGED <<folder, changes, kb, handle, stopped, torn, overtaken>>
    BY DEF KB!SaveFails, KB!outside, KB!polling, KB!histories
  <1>2. saved' \in Stores
    BY CutIsStore DEF KB!SaveFails, KnowledgeInv, KnowledgeTypes
  <1>3. UsersTyped' /\ user'[Caller].pc # "new"
    BY <1>0, <1>1, AtIs, UserStep
  <1>4. KnowledgeTypes'
    BY <1>0, <1>1, <1>2, <1>3 DEF KnowledgeTypes, UsersTyped, KB!TypeOK, Stores, Visits
  <1>5. KB!Aligned'
    BY <1>1 DEF KnowledgeInv, KB!Aligned
  <1>6. QED
    BY <1>1, <1>3, <1>4, <1>5 DEF KnowledgeInv, NewIsSaved, KB!Durable

\* Files change.
LEMMA FilesKeep ==
  ASSUME KnowledgeInv, NEW d \in Docs, NEW content \in KB!Contents, KB!Change(d, content)
  PROVE  KnowledgeInv'
  <1>0. UsersTyped /\ KnowledgeTypes /\ KB!TypeOK
    BY DEF KnowledgeInv, KnowledgeTypes, UsersTyped
  <1>1. changes' \in Nat
    BY <1>0 DEF KB!Change, KnowledgeTypes
  <1>2. folder' \in [Docs -> KB!Contents]
    BY <1>0 DEF KB!Change, KB!TypeOK
  <1>3. overtaken' \subseteq Docs
    BY <1>0 DEF KB!Change, KB!TypeOK
  <1>4. UNCHANGED <<kb, saved, behind, lock, user, handle, stopped, torn>>
    BY DEF KB!Change, KB!disk, KB!polling
  <1>5. UsersTyped'
    BY <1>0, <1>4 DEF UsersTyped
  <1>6. QED
    BY <1>0, <1>1, <1>2, <1>3, <1>4, <1>5, QuietKeeps DEF KB!TypeOK

\* The process ends, in a save or not, and starts again.
LEMMA NewProcessKeeps ==
  ASSUME KnowledgeInv, KB!Restart
  PROVE  KnowledgeInv'
  <1>0. KnowledgeTypes /\ KB!TypeOK /\ kb \in Stores /\ saved \in Stores
    BY DEF KnowledgeInv, KnowledgeTypes
  <1>1. /\ kb' = KB!Empty /\ lock' = Nobody /\ handle' = Nobody /\ stopped' = FALSE /\ overtaken' = {}
        /\ behind' = FALSE /\ UNCHANGED <<folder, changes>>
        /\ user' = [t \in KB!Users |-> IF t = Caller THEN KB!At("new") ELSE KB!At("off")]
    BY DEF KB!Restart, KB!outside
  <1>2. UsersTyped' /\ user'[Caller].pc = "new"
    BY <1>1, AtIs, UsersAre DEF UsersTyped
  <1>3. saved' \in Stores /\ (torn' \/ (saved' = saved /\ ~torn /\ ~behind))
    <2>1. ASSUME NEW n \in 0 .. 3, NEW cut \in BOOLEAN PROVE KB!Cut(n, cut) \in Stores
      BY <1>0, CutIsStore
    <2>2. CASE KB!Saving
      <3>1. \E n \in 0 .. 3, cut \in BOOLEAN : saved' = KB!Cut(n, cut)
        BY <2>2 DEF KB!Restart
      <3>2. torn'
        BY <2>2 DEF KB!Restart
      <3>3. QED
        BY <2>1, <3>1, <3>2
    <2>3. CASE ~KB!Saving
      <3>1. saved' = saved /\ (torn \/ behind => torn')
        BY <2>3 DEF KB!Restart
      <3>2. QED
        BY <1>0, <3>1
    <2>4. QED
      BY <2>2, <2>3
  <1>4. KnowledgeTypes'
    BY <1>0, <1>1, <1>2, <1>3, EmptyIs DEF KnowledgeTypes, UsersTyped, KB!TypeOK, Stores, Visits
  <1>5. KB!Aligned'
    BY <1>1, <1>3, EmptyIs DEF KnowledgeInv, KB!Aligned
  <1>6. KB!Durable'
    BY <1>2 DEF KB!Durable
  <1>7. QED
    BY <1>1, <1>4, <1>5, <1>6 DEF KnowledgeInv, NewIsSaved

LEMMA KnowledgeSteps == KnowledgeInv /\ [KB!Next]_KB!kbVars => KnowledgeInv'
  <1> SUFFICES ASSUME KnowledgeInv, [KB!Next]_KB!kbVars PROVE KnowledgeInv'
    OBVIOUS
  <1>1. CASE UNCHANGED KB!kbVars
    <2>1. UNCHANGED <<folder, changes, kb, saved, behind, lock, user, handle, stopped, torn, overtaken>>
      BY <1>1 DEF KB!kbVars
    <2>2. UsersTyped'
      BY <2>1 DEF UsersTyped, KnowledgeInv, KnowledgeTypes
    <2>3. QED
      BY <2>1, <2>2, QuietKeeps DEF KnowledgeInv, KnowledgeTypes, KB!TypeOK
  <1>2. CASE \E t \in KB!Users : KB!Steps(t)
    BY <1>2, ReadingKeeps, StoreKeeps, PruneKeeps, SavingKeeps, FailingKeeps DEF KB!Steps
  <1>3. CASE (\E w \in Pollers : KB!Works(w) \/ KB!WorkerEnds(w)) \/ KB!Answers
    BY <1>2, <1>3, WorkerKeeps, StartingKeeps, ClearKeeps, UsersAre DEF KB!Works, KB!Answers
  <1>4. QED
    BY <1>1, <1>3, OrdersKeep, FilesKeep, NewProcessKeeps DEF KB!Next

-----------------------------------------------------------------------------
(* The services together.                                                  *)

ServicesInv == KnowledgeInv /\ MemoryInv /\ IndexInv /\ RemindersInv /\ WakeInv

\* One service takes a step, and the others stay as they are.
LEMMA ServiceSteps ==
  ASSUME [ServicesNext]_servicesVars
  PROVE  /\ [KB!Next]_KB!kbVars /\ [SM!Next]_SM!memoryVars /\ [SI!Next]_SI!siVars
         /\ [RE!Next]_RE!reVars /\ [AW!Next]_AW!awVars
  <1> USE DEF kbVars, memoryVars, siVars, reVars, awVars, KB!kbVars, SM!memoryVars, SI!siVars, RE!reVars, AW!awVars
  <1>1. CASE UNCHANGED servicesVars
    BY <1>1 DEF servicesVars
  <1>2. CASE OfKb(KB!Next)
    BY <1>2 DEF OfKb
  <1>3. CASE OfMemory(SM!Next)
    BY <1>3 DEF OfMemory
  <1>4. CASE OfIndex(SI!Next)
    BY <1>4 DEF OfIndex
  <1>5. CASE OfReminders(RE!Next)
    BY <1>5 DEF OfReminders
  <1>6. CASE OfWake(AW!Next)
    BY <1>6 DEF OfWake
  <1>7. QED
    BY <1>1, <1>2, <1>3, <1>4, <1>5, <1>6 DEF ServicesNext

LEMMA ServicesHold == ServicesSpec => []ServicesInv
  <1>1. ServicesInit => ServicesInv
    BY KnowledgeBegins, MemoryBegins, IndexBegins, RemindersBegin, WakeBegins DEF ServicesInit, ServicesInv
  <1>2. ServicesInv /\ [ServicesNext]_servicesVars => ServicesInv'
    BY ServiceSteps, KnowledgeSteps, MemorySteps, IndexSteps, RemindersSteps, WakeSteps DEF ServicesInv
  <1>3. QED
    BY <1>1, <1>2, PTL DEF ServicesSpec

\* What the stores of the services are given they keep, and what they keep they find, whatever
\* threads, errors of the database and ends of the process do: knowledge_base.py, session_memory.py
\* and search_index.py.
THEOREM StoresAreKept == ServicesSpec => []StoresAreSound
  <1>1. ServicesInv => StoresAreSound
    BY MemoryIsSound DEF ServicesInv, KnowledgeInv, KnowledgeTypes, IndexInv, StoresAreSound
  <1>2. QED
    BY <1>1, ServicesHold, PTL

\* A reminder that was accepted is shown, once if it does not recur, or is still due, canceled or
\* lost with the process; one that is listed has a timer or a thread at work: reminder_ops.py.
THEOREM RemindersAreKept == ServicesSpec => []RemindersComeDue
  <1>1. ServicesInv => RemindersComeDue
    <2> SUFFICES ASSUME ServicesInv PROVE RemindersComeDue
      OBVIOUS
    <2>1. \A n \in RE!ToSet(created) : n \in Names
      BY DEF ServicesInv, RemindersInv, PlaceInv, RE!ToSet
    <2>2. QED
      BY <2>1 DEF ServicesInv, RemindersInv, PlaceInv, DueInv, RemindersComeDue, RE!TypeOK
  <1>2. QED
    BY <1>1, ServicesHold, PTL

\* "Reminder cancelled.": the message of a canceled reminder is not shown again, unless the thread of
\* its timer had read the entry: cancel_reminder() against _fire(), which shows it without the lock.
THEOREM CanceledStaysSilent == ServicesSpec => RE!CancelHolds
  <1>1. ServicesInv /\ [ServicesNext]_servicesVars =>
          [\A n \in Names : shown'[n] > shown[n] => n \notin canceled \/ n \in inHand]_RE!reVars
    BY ServiceSteps, CanceledIsSilent DEF ServicesInv
  <1>2. QED
    BY <1>1, ServicesHold, PTL DEF ServicesSpec, RE!CancelHolds

\* A promotion cut anywhere leaves a complete model on disk, and one that was counted is the one in
\* use: adaptive_wake.py and wake_word.py.
THEOREM ModelIsKept == ServicesSpec => []WakeModelIsKept
  <1>1. ServicesInv => WakeModelIsKept
    <2> SUFFICES ASSUME ServicesInv PROVE WakeModelIsKept
      OBVIOUS
    <2>1. AW!TypeOK
      BY DEF ServicesInv, WakeInv, FilesInv, SwapInv, Loads, AW!TypeOK
    <2>2. AW!SwapIsSeen
      BY DEF ServicesInv, WakeInv, SwapInv, AW!SwapIsSeen
    <2>3. QED
      BY <2>1, <2>2 DEF ServicesInv, WakeInv, FilesInv, WakeModelIsKept
  <1>2. QED
    BY <1>1, ServicesHold, PTL

-----------------------------------------------------------------------------
(* The job queue.                                                          *)

USE QueueAssumption

-----------------------------------------------------------------------------
(* Type correctness; with it, a worker holds a row exactly while it runs.   *)

(* The claim and the end of a job keep the ordering of due jobs in range. *)
LEMMA LeaveLineTypes ==
  ASSUME TypeOK, NEW j \in Jobs, LeaveLine(j)
  PROVE  due' \subseteq Jobs /\ ahead' \in [Jobs -> SUBSET Jobs]
  BY DEF TypeOK, LeaveLine

(* start_result() keeps the worker table in range and starts no claimed row. *)
LEMMA StartTypes ==
  ASSUME TypeOK, StartResult, UNCHANGED job
  PROVE  /\ thread' \in Workers \cup {None}
         /\ stopEvent' \in BOOLEAN
         /\ worker' \in [Workers -> {"dead", "top", "claim", "run", "exit"}]
         /\ \A w \in Workers : job'[w] # None <=> worker'[w] = "run"
  BY DEF TypeOK, StartResult

\* A step of a command thread keeps the types.
LEMMA CommandKeepsTypes ==
  ASSUME TypeOK, NEW c \in Callers, CommandStep(c) \/ PendingStep(c)
  PROVE  TypeOK'
  <1> USE DEF TypeOK, table, service, workers, Begin, End
  <1>1. ASSUME NEW j \in Jobs, Enqueue(c, j) PROVE TypeOK'
    BY <1>1 DEF Enqueue, SetStatus, Statuses
  <1>2. ASSUME NEW j \in Jobs, Cancel(c, j) PROVE TypeOK'
    <2>1. CASE status[j] \in {"succeeded", "canceled"}
      BY <1>2, <2>1 DEF Cancel
    <2>2. CASE status[j] \notin {"succeeded", "canceled"}
      <3>1. due' \subseteq Jobs /\ ahead' \in [Jobs -> SUBSET Jobs]
        BY <1>2, <2>2, LeaveLineTypes DEF Cancel
      <3>2. status' \in [Jobs -> Statuses]
        BY <1>2, <2>2 DEF Cancel, SetStatus, CanceledStatus, Statuses
      <3>3. QED
        BY <1>2, <2>2, <3>1, <3>2 DEF Cancel
    <2>3. QED
      BY <2>1, <2>2
  <1>3. ASSUME NEW j \in Jobs, Retry(c, j) PROVE TypeOK'
    <2>1. due' \subseteq Jobs /\ ahead' \in [Jobs -> SUBSET Jobs]
      BY <1>3, LeaveLineTypes DEF Retry
    <2>2. status' \in [Jobs -> Statuses] /\ attempts' \in [Jobs -> Nat] /\ rerun' \subseteq Jobs
      BY <1>3 DEF Retry, SetStatus, Statuses
    <2>3. QED
      BY <1>3, <2>1, <2>2 DEF Retry
  <1>4. CASE StartCommand(c)
    BY <1>4, StartTypes DEF StartCommand
  <1>5. CASE EnqueueStarts(c)
    BY <1>5, StartTypes DEF EnqueueStarts
  <1>6. CASE StopForgets(c) \/ StopSignals(c) \/ Report(c)
    BY <1>6 DEF StopForgets, StopSignals, Report
  <1>7. QED
    BY <1>1, <1>2, <1>3, <1>4, <1>5, <1>6 DEF CommandStep, PendingStep

\* A step of a worker keeps the types.
LEMMA WorkerKeepsTypes ==
  ASSUME TypeOK, NEW w \in Workers, WorkerStep(w)
  PROVE  TypeOK'
  <1> USE DEF TypeOK, table, service, workers, Move
  <1>1. CASE SeeStop(w) \/ GoOn(w) \/ Exit(w) \/ FindNothing(w)
    BY <1>1 DEF SeeStop, GoOn, Exit, FindNothing
  <1>2. ASSUME NEW j \in Jobs, Claim(w, j) PROVE TypeOK'
    <2>1. due' \subseteq Jobs /\ ahead' \in [Jobs -> SUBSET Jobs]
      BY <1>2, LeaveLineTypes DEF Claim, MarkRunning
    <2>2. status' \in [Jobs -> Statuses] /\ attempts' \in [Jobs -> Nat]
      BY <1>2 DEF Claim, MarkRunning, SetStatus, Statuses
    <2>3. QED
      BY <1>2, <2>1, <2>2 DEF Claim
  <1>3. CASE Finish(w)
    <2>1. job[w] \in Jobs
      BY <1>3 DEF Finish
    <2>2. due' \subseteq Jobs /\ ahead' \in [Jobs -> SUBSET Jobs]
      BY <1>3, <2>1, LeaveLineTypes DEF Finish
    <2>3. status' \in [Jobs -> Statuses]
      BY <1>3, <2>1 DEF Finish, SetStatus, Statuses
    <2>4. QED
      BY <1>3, <2>1, <2>2, <2>3 DEF Finish
  <1>4. QED
    BY <1>1, <1>2, <1>3 DEF WorkerStep

\* A job that becomes due, a restart and no step at all keep the types.
LEMMA OthersKeepTypes ==
  ASSUME TypeOK, (\E j \in Jobs : BecomeDue(j)) \/ Restart \/ UNCHANGED vars
  PROVE  TypeOK'
  <1> USE DEF TypeOK, table, service, workers
  <1>1. ASSUME NEW j \in Jobs, BecomeDue(j) PROVE TypeOK'
    BY <1>1 DEF BecomeDue
  <1>2. CASE Restart
    <2>1. PICK w \in Workers : Booted(w)
      BY <1>2 DEF Restart
    <2>2. /\ worker' \in [Workers -> {"dead", "top", "claim", "run", "exit"}]
          /\ \A x \in Workers : job'[x] = None /\ worker'[x] # "run"
      BY <2>1 DEF Booted
    <2>3. job' \in [Workers -> Jobs \cup {None}] /\ tries' \in [Workers -> Nat]
      BY <2>1 DEF Booted
    <2>4. call' \in [Callers -> {"idle", "queueing", "canceling", "retrying", "stopping", "stuck"}]
      BY <2>1 DEF Booted
    <2>5. restarts' \in 0 .. MaxRestarts
      BY <1>2 DEF Restart
    <2>6. QED
      BY <1>2, <2>1, <2>2, <2>3, <2>4, <2>5 DEF Restart, Booted
  <1>3. CASE UNCHANGED vars
    BY <1>3 DEF vars
  <1>4. QED
    BY <1>1, <1>2, <1>3

(* The table, the service and its threads stay well formed. *)
THEOREM TypeCorrect == Spec => []TypeOK
  <1>1. Init => TypeOK
    <2> SUFFICES ASSUME Init PROVE TypeOK
      OBVIOUS
    <2>1. /\ worker \in [Workers -> {"dead", "top", "claim", "run", "exit"}]
          /\ \A w \in Workers : job[w] = None /\ worker[w] # "run"
      BY DEF Init
    <2>2. job \in [Workers -> Jobs \cup {None}] /\ tries \in [Workers -> Nat]
      BY DEF Init
    <2>3. /\ call \in [Callers -> {"idle", "queueing", "canceling", "retrying", "stopping", "stuck"}]
          /\ status \in [Jobs -> Statuses] /\ attempts \in [Jobs -> Nat]
      BY DEF Init, Statuses
    <2>4. ahead \in [Jobs -> SUBSET Jobs] /\ due \subseteq Jobs /\ rerun \subseteq Jobs
      BY DEF Init
    <2>5. restarts \in 0 .. MaxRestarts /\ thread \in Workers \cup {None}
      BY DEF Init
    <2>6. dbWedged \in BOOLEAN /\ stopEvent \in BOOLEAN
      BY DEF Init
    <2>7. QED
      BY <2>1, <2>2, <2>3, <2>4, <2>5, <2>6 DEF TypeOK
  <1>2. TypeOK /\ [Next]_vars => TypeOK'
    BY CommandKeepsTypes, WorkerKeepsTypes, OthersKeepTypes DEF Next
  <1>3. QED
    BY <1>1, <1>2, PTL DEF Spec

-----------------------------------------------------------------------------
(* The queue is served.  A worker leaves its loop only after it has read    *)
(* the event set, and the event is cleared only together with a new worker. *)

Serving == \E w \in Workers : worker[w] \in {"top", "claim", "run"}

(* No step of the service turns the last serving worker away unseen. *)
LEMMA NextKeepsServed == TypeOK /\ QueueIsServed /\ [Next]_vars => QueueIsServed'
  <1> SUFFICES ASSUME TypeOK, QueueIsServed, [Next]_vars, ~stopEvent'
               PROVE  Serving'
    BY DEF QueueIsServed, Serving
  <1> USE DEF Serving, TypeOK, service, workers
  <1>1. ASSUME StartResult PROVE Serving'
    <2>1. CASE Alive(thread)
      BY <1>1, <2>1 DEF StartResult, QueueIsServed
    <2>2. CASE ~Alive(thread)
      <3>1. PICK w \in Workers : worker' = [worker EXCEPT ![w] = "top"]
        BY <1>1, <2>2 DEF StartResult
      <3>2. worker'[w] = "top"
        BY <3>1
      <3>3. QED
        BY <3>2
    <2>3. QED
      BY <2>1, <2>2
  <1>2. ASSUME UNCHANGED <<worker, stopEvent>> PROVE Serving'
    BY <1>2 DEF QueueIsServed
  <1>3. ASSUME NEW c \in Callers, CommandStep(c) \/ PendingStep(c) PROVE Serving'
    BY <1>1, <1>2, <1>3 DEF CommandStep, PendingStep, Enqueue, Cancel, Retry,
       StartCommand, StopForgets, EnqueueStarts, StopSignals, Report
  <1>4. ASSUME NEW w \in Workers, WorkerStep(w) PROVE Serving'
    <2>1. CASE SeeStop(w)
      BY <1>4, <2>1 DEF SeeStop
    <2>2. CASE Exit(w)
      <3>1. PICK v \in Workers : worker[v] \in {"top", "claim", "run"}
        BY <2>2 DEF Exit, QueueIsServed
      <3>2. worker'[v] = worker[v]
        BY <3>1, <2>2 DEF Exit, Move
      <3>3. QED
        BY <3>1, <3>2
    <2>3. CASE GoOn(w) \/ FindNothing(w) \/ Finish(w) \/ \E j \in Jobs : Claim(w, j)
      <3>1. worker'[w] \in {"top", "claim", "run"}
        BY <2>3 DEF GoOn, FindNothing, Finish, Claim, Move
      <3>2. QED
        BY <3>1
    <2>4. QED
      BY <1>4, <2>1, <2>2, <2>3 DEF WorkerStep
  <1>5. ASSUME Restart PROVE Serving'
    <2>1. PICK w \in Workers : Booted(w)
      BY <1>5 DEF Restart
    <2>2. worker'[w] = "top"
      BY <2>1 DEF Booted
    <2>3. QED
      BY <2>2
  <1>6. QED
    BY <1>2, <1>3, <1>4, <1>5 DEF Next, BecomeDue, vars

(* While no stop is signalled a worker serves the queue. *)
THEOREM QueueServed == Spec => []QueueIsServed
  <1>1. Init => QueueIsServed
    BY DEF Init, QueueIsServed
  <1>2. QED
    BY <1>1, NextKeepsServed, TypeCorrect, PTL DEF Spec

-----------------------------------------------------------------------------
(* Executions of one job do not overlap.  The claimed row has left the      *)
(* queue, and only "job retry" puts it back before its execution ends.      *)

(* A row that is queued, and not being retried while it runs, is not held. *)
LEMMA QueuedIsFree ==
  ASSUME RunInv, TypeOK, NEW j \in Jobs, status[j] = "queued", j \notin rerun
  PROVE  Holders(j) = {}
  BY DEF RunInv, HeldIsNotQueued, Holders, TypeOK

\* Every step keeps who runs what.
LEMMA NextKeepsRunInv == TypeOK /\ RunInv /\ [Next]_vars => RunInv'
  <1> SUFFICES ASSUME TypeOK, RunInv, [Next]_vars PROVE RunInv'
    OBVIOUS
  <1> USE DEF TypeOK, RunInv, NoDoubleRun, HeldIsNotQueued, table, service, workers
  <1>1. ASSUME UNCHANGED <<status, job, rerun>> PROVE RunInv'
    BY <1>1
  <1>2. ASSUME NEW c \in Callers, NEW j \in Jobs, Enqueue(c, j) PROVE RunInv'
    BY <1>2 DEF Enqueue, SetStatus
  <1>3. ASSUME NEW c \in Callers, NEW j \in Jobs, Cancel(c, j) PROVE RunInv'
    <2>1. UNCHANGED <<job, rerun>>
      BY <1>3 DEF Cancel
    <2>2. \A k \in Jobs : status'[k] \in {status[k], "canceled"}
      BY <1>3 DEF Cancel, SetStatus, CanceledStatus
    <2>3. QED
      BY <2>1, <2>2
  <1>4. ASSUME NEW c \in Callers, NEW j \in Jobs, Retry(c, j) PROVE RunInv'
    <2>1. UNCHANGED job /\ rerun \subseteq rerun'
      BY <1>4 DEF Retry
    <2>2. \A k \in Jobs \ {j} : status'[k] = status[k]
      BY <1>4 DEF Retry, SetStatus
    <2>3. \A w \in Workers : job[w] = j => j \in rerun'
      BY <1>4 DEF Retry, Holders
    <2>4. QED
      BY <2>1, <2>2, <2>3
  <1>5. ASSUME NEW w \in Workers, NEW j \in Jobs, Claim(w, j) PROVE RunInv'
    <2>1. /\ UNCHANGED rerun
          /\ job' = [job EXCEPT ![w] = j]
          /\ status' = [status EXCEPT ![j] = "running"]
      BY <1>5 DEF Claim, MarkRunning, SetStatus
    <2>2. j \notin rerun => Holders(j) = {}
      BY <1>5, QueuedIsFree DEF Claim
    <2>3. QED
      BY <2>1, <2>2 DEF Holders
  <1>6. ASSUME NEW w \in Workers, Finish(w) PROVE RunInv'
    <2>1. job[w] \in Jobs /\ job' = [job EXCEPT ![w] = None]
      BY <1>6 DEF Finish, Move
    <2>2. \A k \in Jobs \ {job[w]} : status'[k] = status[k] /\ (k \in rerun => k \in rerun')
      BY <1>6, <2>1 DEF Finish, SetStatus
    <2>3. \A v \in Workers \ {w} : job[v] = job[w] => job[w] \in rerun'
      BY <1>6, <2>1 DEF Finish, Holders
    <2>4. rerun' \subseteq rerun
      BY <1>6 DEF Finish
    <2>5. QED
      BY <2>1, <2>2, <2>3, <2>4
  <1>7. ASSUME Restart PROVE RunInv'
    <2>1. \A w \in Workers : job'[w] = None
      BY <1>7 DEF Restart, Booted
    <2>2. QED
      BY <2>1
  <1>8. ASSUME NEW c \in Callers, CommandStep(c) \/ PendingStep(c) PROVE RunInv'
    BY <1>1, <1>2, <1>3, <1>4, <1>8 DEF CommandStep, PendingStep, StartCommand,
       StopForgets, EnqueueStarts, StopSignals, Report
  <1>9. ASSUME NEW w \in Workers, WorkerStep(w) PROVE RunInv'
    BY <1>1, <1>5, <1>6, <1>9 DEF WorkerStep, SeeStop, GoOn, Exit, FindNothing
  <1>10. QED
    BY <1>1, <1>7, <1>8, <1>9 DEF Next, BecomeDue, vars

(* A job is executed twice at once only if it was retried while it ran. *)
THEOREM RunsAreExclusive == Spec => []NoDoubleRun
  <1>1. Init => RunInv
    BY DEF Init, RunInv, NoDoubleRun, HeldIsNotQueued
  <1>2. RunInv => NoDoubleRun
    BY DEF RunInv
  <1>3. QED
    BY <1>1, <1>2, NextKeepsRunInv, TypeCorrect, PTL DEF Spec

-----------------------------------------------------------------------------
(* The ledger.  The refinement maps an execution to the row a worker holds  *)
(* and the budget of a job to what its row and its holders still allow.     *)

(* Sets of workers are finite, so the holders of a job can be counted. *)
LEMMA WorkersAreCountable ==
  ASSUME NEW S \in SUBSET Workers
  PROVE  /\ IsFiniteSet(S)
         /\ Cardinality(S) \in Nat
         /\ S = {} => Cardinality(S) = 0
  <1>1. IsFiniteSet(S)
    BY FS_Subset
  <1>2. QED
    BY <1>1, FS_CardinalityType, FS_EmptySet

(* The three parts of a budget, now and after a step. *)
LEMMA BudgetParts ==
  ASSUME TypeOK, TypeOK', NEW j \in Jobs
  PROVE  /\ Cardinality(Hungry(j)) \in Nat /\ Cardinality(Hungry(j)') \in Nat
         /\ Unused(j) \in 0 .. MaxRetries /\ Unused(j)' \in 0 .. MaxRetries
         /\ Holders(j) = {} => Cardinality(Hungry(j)) = 0
         /\ Holders(j)' = {} => Cardinality(Hungry(j)') = 0
         /\ Budget(j) \in Nat /\ Budget(j)' \in Nat
  <1>1. Hungry(j) \in SUBSET Workers /\ Hungry(j)' \in SUBSET Workers
    BY DEF Hungry
  <1>2. Cardinality(Hungry(j)) \in Nat /\ Cardinality(Hungry(j)') \in Nat
    BY <1>1, WorkersAreCountable
  <1>3. Unused(j) \in 0 .. MaxRetries
    BY DEF Unused, TypeOK
  <1>4. Unused(j)' \in 0 .. MaxRetries
    BY DEF Unused, TypeOK
  <1>5. Holders(j) = {} => Hungry(j) = {}
    BY DEF Holders, Hungry
  <1>6. Holders(j)' = {} => Hungry(j)' = {}
    BY DEF Holders, Hungry
  <1>7. Budget(j) \in Nat
    BY <1>2, <1>3 DEF Budget
  <1>8. Budget(j)' \in Nat
    BY <1>2, <1>4 DEF Budget
  <1>9. QED
    BY <1>1, <1>2, <1>3, <1>4, <1>5, <1>6, <1>7, <1>8, WorkersAreCountable

SameHolders(j) ==
  \A w \in Workers : /\ job'[w] = j <=> job[w] = j
                     /\ job[w] = j => tries'[w] = tries[w]

(* What a job may still cost depends on its row and its holders only. *)
LEMMA SameParts ==
  ASSUME NEW j \in Jobs, SameHolders(j)
  PROVE  /\ Holders(j)' = Holders(j)
         /\ Cardinality(Hungry(j)') = Cardinality(Hungry(j))
         /\ attempts'[j] = attempts[j] => Unused(j)' = Unused(j)
         /\ status'[j] = status[j] /\ attempts'[j] = attempts[j] => Budget(j)' = Budget(j)
  <1>1. Holders(j)' = Holders(j) /\ Hungry(j)' = Hungry(j)
    BY DEF SameHolders, Holders, Hungry
  <1>2. attempts'[j] = attempts[j] => Unused(j)' = Unused(j)
    BY DEF Unused
  <1>3. QED
    BY <1>1, <1>2 DEF Budget

(* A request buys at most MaxRetries + 1 executions. *)
LEMMA RequestBuys ==
  ASSUME TypeOK, TypeOK', NEW c \in Callers, NEW j \in Jobs, Enqueue(c, j) \/ Retry(c, j)
  PROVE  /\ Budget(j)' <= Budget(j) + (MaxRetries + 1)
         /\ \A k \in Jobs \ {j} : Budget(k)' = Budget(k)
  <1>1. \A k \in Jobs : SameHolders(k)
    BY DEF Enqueue, Retry, workers, SameHolders
  <1>2. \A k \in Jobs \ {j} : status'[k] = status[k] /\ attempts'[k] = attempts[k]
    BY DEF Enqueue, Retry, SetStatus, TypeOK
  <1>3. Budget(j)' <= Budget(j) + (MaxRetries + 1)
    BY <1>1, SameParts, BudgetParts DEF Budget
  <1>4. QED
    BY <1>1, <1>2, <1>3, SameParts

(* A cancellation buys nothing. *)
LEMMA CancelBuysNothing ==
  ASSUME TypeOK, TypeOK', NEW c \in Callers, NEW j \in Jobs, Cancel(c, j)
  PROVE  \A k \in Jobs : Budget(k)' <= Budget(k)
  <1>1. \A k \in Jobs : SameHolders(k) /\ attempts'[k] = attempts[k]
    BY DEF Cancel, workers, SameHolders, table
  <1>2. \A k \in Jobs : status'[k] \in {status[k], "canceled"}
    BY DEF Cancel, SetStatus, CanceledStatus, TypeOK, table
  <1>3. QED
    BY <1>1, <1>2, SameParts, BudgetParts DEF Budget

(* A claim costs exactly one execution. *)
LEMMA ClaimCosts ==
  ASSUME TypeOK, TypeOK', NEW w \in Workers, NEW j \in Jobs, Claim(w, j)
  PROVE  /\ Budget(j) > 0 /\ Budget(j)' = Budget(j) - 1
         /\ \A k \in Jobs \ {j} : Budget(k)' = Budget(k)
  <1>1. /\ job[w] = None /\ job' = [job EXCEPT ![w] = j]
        /\ tries' = [tries EXCEPT ![w] = attempts[j] + 1]
        /\ attempts' = [attempts EXCEPT ![j] = @ + 1]
        /\ status[j] = "queued" /\ status' = [status EXCEPT ![j] = "running"]
    BY DEF Claim, Move, MarkRunning, SetStatus, TypeOK
  <1>2. ASSUME NEW k \in Jobs \ {j} PROVE Budget(k)' = Budget(k)
    <2>1. SameHolders(k) /\ status'[k] = status[k] /\ attempts'[k] = attempts[k]
      BY <1>1 DEF SameHolders, TypeOK
    <2>2. QED
      BY <2>1, SameParts
  <1>3. w \in Holders(j)' /\ w \notin Hungry(j)
    BY <1>1 DEF Holders, Hungry, TypeOK
  <1>4. Budget(j) = 1 + Cardinality(Hungry(j)) + Unused(j)
    BY <1>1 DEF Budget
  <1>5. Budget(j)' = Cardinality(Hungry(j)') + Unused(j)'
    <2>1. status'[j] = "running" /\ Holders(j)' # {}
      BY <1>1, <1>3 DEF TypeOK
    <2>2. QED
      BY <2>1, BudgetParts DEF Budget
  <1>6. CASE attempts[j] + 1 <= MaxRetries
    <2>1. Hungry(j)' = Hungry(j) \cup {w}
      BY <1>1, <1>6 DEF Hungry, TypeOK
    <2>2. Cardinality(Hungry(j)') = Cardinality(Hungry(j)) + 1
      BY <1>3, <2>1, FS_AddElement, WorkersAreCountable DEF Hungry
    <2>3. Unused(j) = MaxRetries - attempts[j] /\ Unused(j)' = MaxRetries - (attempts[j] + 1)
      BY <1>1, <1>6 DEF Unused, TypeOK
    <2>4. attempts[j] \in Nat
      BY DEF TypeOK
    <2>5. QED
      BY <1>2, <1>4, <1>5, <2>2, <2>3, <2>4, BudgetParts
  <1>7. CASE ~(attempts[j] + 1 <= MaxRetries)
    <2>1. Hungry(j)' = Hungry(j)
      BY <1>1, <1>7 DEF Hungry, TypeOK
    <2>2. Unused(j) = 0 /\ Unused(j)' = 0
      BY <1>1, <1>7 DEF Unused, TypeOK
    <2>3. QED
      BY <1>2, <1>4, <1>5, <2>1, <2>2, BudgetParts
  <1>8. QED
    BY <1>6, <1>7

(* The end of an execution gains nothing: a requeue gives up the holder. *)
LEMMA FinishGainsNothing ==
  ASSUME TypeOK, TypeOK', NEW w \in Workers, Finish(w)
  PROVE  \A k \in Jobs : Budget(k)' <= Budget(k)
  <1>1. PICK j \in Jobs : j = job[w]
    BY DEF Finish, Move, TypeOK
  <1>2. PICK s \in {"succeeded", IF RetriesLeft(w) THEN "queued" ELSE "failed"} :
          status' = [status EXCEPT ![j] = s]
    BY <1>1 DEF Finish, SetStatus
  <1>3. /\ job' = [job EXCEPT ![w] = None]
        /\ tries' = [tries EXCEPT ![w] = 0]
        /\ attempts' = attempts
    BY DEF Finish
  <1>4. ASSUME NEW k \in Jobs \ {j} PROVE Budget(k)' <= Budget(k)
    <2>1. SameHolders(k) /\ status'[k] = status[k] /\ attempts'[k] = attempts[k]
      BY <1>1, <1>2, <1>3 DEF SameHolders, TypeOK
    <2>2. Budget(k)' = Budget(k) /\ Budget(k) \in Nat
      BY <2>1, SameParts, BudgetParts
    <2>3. QED
      BY <2>2
  <1>5. Budget(j) >= Cardinality(Hungry(j)) + Unused(j)
    <2>1. Holders(j) # {}
      BY <1>1 DEF Holders
    <2>2. QED
      BY <2>1, BudgetParts DEF Budget
  <1>6. Hungry(j)' = Hungry(j) \ {w} /\ Unused(j)' = Unused(j)
    <2>1. Unused(j)' = Unused(j)
      BY <1>3 DEF Unused
    <2>2. QED
      BY <1>1, <1>3, <2>1 DEF Hungry, TypeOK
  <1>7. Cardinality(Hungry(j)') =
          IF w \in Hungry(j) THEN Cardinality(Hungry(j)) - 1 ELSE Cardinality(Hungry(j))
    BY <1>6, FS_RemoveElement, WorkersAreCountable DEF Hungry
  <1>8. status'[j] = "queued" => w \in Hungry(j)
    BY <1>1, <1>2 DEF RetriesLeft, Hungry, TypeOK
  <1>9. Budget(j)' <= Budget(j)
    BY <1>5, <1>6, <1>7, <1>8, BudgetParts DEF Budget
  <1>10. QED
    BY <1>4, <1>9

(* The end of the process gains nothing either: its executions are over. *)
LEMMA RestartGainsNothing ==
  ASSUME TypeOK, TypeOK', Restart
  PROVE  \A k \in Jobs : Budget(k)' <= Budget(k)
  <1>1. status' = status /\ attempts' = attempts /\ \A w \in Workers : job'[w] = None
    BY DEF Restart, Booted, table
  <1>2. ASSUME NEW k \in Jobs PROVE Budget(k)' <= Budget(k)
    <2>1. Holders(k)' = {}
      BY <1>1 DEF Holders
    <2>2. Unused(k)' = Unused(k)
      BY <1>1 DEF Unused
    <2>3. QED
      BY <1>1, <2>1, <2>2, BudgetParts DEF Budget
  <1>3. QED
    BY <1>2

(* The steps that touch no row and no holder leave every budget as it is. *)
LEMMA BudgetUnchanged ==
  ASSUME UNCHANGED <<status, attempts, job, tries>>
  PROVE  \A k \in Jobs : Budget(k)' = Budget(k)
  BY SameParts DEF SameHolders

(* Each step of the queue is a step of the ledger, or none. *)
LEMMA StepIsPaidFor == TypeOK /\ TypeOK' /\ [Next]_vars => [Ledger!Next]_Ledger!vars
  <1> SUFFICES ASSUME TypeOK, TypeOK', [Next]_vars
               PROVE  Ledger!Next \/ UNCHANGED Ledger!vars
    OBVIOUS
  <1> DEFINE Kept == \A k \in Jobs : Budget(k)' = Budget(k)
             Shrunk == \A k \in Jobs : Budget(k)' <= Budget(k)
  <1>1. Kept => Shrunk
    BY BudgetParts
  <1>2. Shrunk => Ledger!NothingGained
    BY BudgetParts DEF Ledger!NothingGained
  <1>3. ASSUME Kept, UNCHANGED <<job, call>> PROVE UNCHANGED Ledger!vars
    BY <1>3 DEF Ledger!vars
  <1>4. ASSUME NEW c \in Callers, NEW j \in Jobs, Enqueue(c, j) \/ Retry(c, j)
        PROVE  Ledger!Next
    <2>1. Ledger!Requesting(c) /\ \A d \in Callers \ {c} : call'[d] = call[d]
      BY <1>4 DEF Enqueue, Retry, Begin, Ledger!Requesting, TypeOK
    <2>2. UNCHANGED job
      BY <1>4 DEF Enqueue, Retry, workers
    <2>3. /\ Budget(j)' \in 0 .. Budget(j) + (MaxRetries + 1)
          /\ \A k \in Jobs \ {j} : Budget(k)' = Budget(k)
      BY <1>4, RequestBuys, BudgetParts
    <2>4. Ledger!Request(c, j)
      BY <2>1, <2>2, <2>3 DEF Ledger!Request
    <2>5. QED
      BY <2>4 DEF Ledger!Next
  <1>5. ASSUME NEW c \in Callers, Shrunk, ~Ledger!Requesting(c),
               \A d \in Callers \ {c} : call'[d] = call[d], UNCHANGED job
        PROVE  Ledger!Next
    <2>1. Ledger!OtherCall(c)
      BY <1>2, <1>5 DEF Ledger!OtherCall
    <2>2. QED
      BY <2>1 DEF Ledger!Next
  <1>6. ASSUME NEW c \in Callers, NEW j \in Jobs, Cancel(c, j) PROVE Ledger!Next
    <2>1. ~Ledger!Requesting(c) /\ \A d \in Callers \ {c} : call'[d] = call[d]
      BY <1>6 DEF Cancel, Begin, Ledger!Requesting, TypeOK
    <2>2. UNCHANGED job
      BY <1>6 DEF Cancel, workers
    <2>3. QED
      BY <1>5, <1>6, <2>1, <2>2, CancelBuysNothing
  <1>7. ASSUME NEW c \in Callers,
               StartCommand(c) \/ StopForgets(c) \/ PendingStep(c)
        PROVE  Ledger!Next
    <2>1. ~Ledger!Requesting(c) /\ \A d \in Callers \ {c} : call'[d] = call[d]
      BY <1>7 DEF StartCommand, StopForgets, PendingStep, EnqueueStarts, StopSignals,
         Report, Begin, End, Ledger!Requesting, TypeOK
    <2>2. UNCHANGED <<status, attempts, job, tries>>
      BY <1>7 DEF StartCommand, StopForgets, PendingStep, EnqueueStarts, StopSignals,
         Report, table, workers
    <2>3. QED
      BY <1>1, <1>5, <2>1, <2>2, BudgetUnchanged
  <1>8. ASSUME NEW w \in Workers, NEW j \in Jobs, Claim(w, j) PROVE Ledger!Next
    <2>1. job[w] = None /\ job' = [job EXCEPT ![w] = j] /\ UNCHANGED call
      BY <1>8 DEF Claim, Move, TypeOK
    <2>2. /\ Budget(j) > 0 /\ Budget(j)' = Budget(j) - 1
          /\ \A k \in Jobs \ {j} : Budget(k)' = Budget(k)
      BY <1>8, ClaimCosts
    <2>3. Ledger!Run(w, j)
      BY <2>1, <2>2 DEF Ledger!Run
    <2>4. QED
      BY <2>3 DEF Ledger!Next
  <1>9. ASSUME NEW w \in Workers, Finish(w) PROVE Ledger!Next
    <2>1. job[w] # None /\ job' = [job EXCEPT ![w] = None] /\ UNCHANGED call
      BY <1>9 DEF Finish, Move, TypeOK
    <2>2. Ledger!Finish(w)
      BY <1>2, <1>9, <2>1, FinishGainsNothing DEF Ledger!Finish
    <2>3. QED
      BY <2>2 DEF Ledger!Next
  <1>10. ASSUME Restart PROVE Ledger!Next
    <2>1. job' = [w \in Workers |-> None] /\ call' = [c \in Callers |-> "idle"]
      BY <1>10 DEF Restart, Booted
    <2>2. Ledger!Restart
      BY <1>2, <1>10, <2>1, RestartGainsNothing DEF Ledger!Restart
    <2>3. QED
      BY <2>2 DEF Ledger!Next
  <1>11. ASSUME UNCHANGED <<status, attempts, job, tries, call>> PROVE UNCHANGED Ledger!vars
    BY <1>3, <1>11, BudgetUnchanged
  <1>12. ASSUME NEW w \in Workers, SeeStop(w) \/ GoOn(w) \/ Exit(w) \/ FindNothing(w)
         PROVE  UNCHANGED Ledger!vars
    BY <1>11, <1>12 DEF SeeStop, GoOn, Exit, FindNothing, table
  <1>13. ASSUME (\E j \in Jobs : BecomeDue(j)) \/ UNCHANGED vars
         PROVE  UNCHANGED Ledger!vars
    BY <1>11, <1>13 DEF BecomeDue, vars, table, workers
  <1>14. QED
    BY <1>4, <1>6, <1>7, <1>8, <1>9, <1>10, <1>12, <1>13
       DEF Next, CommandStep, WorkerStep

(***************************************************************************)
(* The job queue implements its ledger: a job is executed at most          *)
(* max_retries + 1 times for each time the user asked for it, however the  *)
(* commands, the workers and the restarts interleave.                      *)
(***************************************************************************)
THEOREM ExecutionsArePaidFor == Spec => RunsArePaidFor
  <1>1. Init => Ledger!Init
    <2> SUFFICES ASSUME Init PROVE Ledger!Init
      OBVIOUS
    <2>1. \A j \in Jobs : status[j] = "absent" /\ Holders(j) = {}
      BY DEF Init, Holders
    <2>2. \A j \in Jobs : Budget(j) = 0
      BY <2>1 DEF Budget
    <2>3. QED
      BY <2>2 DEF Ledger!Init, Init
  <1>2. QED
    BY <1>1, StepIsPaidFor, TypeCorrect, PTL DEF Spec, RunsArePaidFor, Ledger!Spec
=============================================================================
