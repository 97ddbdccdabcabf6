------------------------------- MODULE Timers -------------------------------
(***************************************************************************)
(* Timers and alarms: os_control/timer_ops.py.  Command threads set and    *)
(* cancel timers, every timer has a thread of its own that announces it,   *)
(* and both save the active timers to timers.json.  _lock is held for one  *)
(* action at a time; a file is written in two, so that a restart may find  *)
(* it truncated.  Time is only whether fires_at of a timer has passed.     *)
(***************************************************************************)
EXTENDS Naturals, TLAPS

CONSTANTS
  Timers,       \* timer ids; each is used once
  Callers,      \* threads that execute timer commands
  None,         \* Python's None
  MaxRestarts   \* bound: restarts of the process

ASSUME TimerAssumption ==
  /\ MaxRestarts \in Nat
  /\ Timers \cap Callers = {}
  /\ None \notin Timers

Threads == Callers \cup Timers
Points == {"idle", "register", "save", "open", "write", "overlay", "stuck",
           "unset", "waiting", "ring", "pop", "over"}

VARIABLES
  pc,          \* where each command and each timer thread is
  setting,     \* the timer a command thread is setting
  active,      \* _active_timers
  snapshot,    \* what a thread is about to write
  saved,       \* the timers in timers.json
  torn,        \* timers.json is truncated
  wedged,      \* a thread waits for _lock while it holds it
  persist,     \* TIMER_PERSISTENCE_ENABLED, read when the process starts
  passed,      \* timers whose fires_at is in the past
  restarts,    \* counts to MaxRestarts
  rung,        \* history: how often a timer was announced
  accepted,    \* history: set_timer() has answered
  canceled     \* history: canceled, since the process started, while
               \* their thread was still waiting

memory == <<active, setting, snapshot, wedged>>
file == <<saved, torn>>
history == <<rung, accepted, canceled>>
process == <<persist, restarts>>
vars == <<pc, memory, file, passed, process, history>>

Init ==
  /\ pc = [x \in Threads |-> IF x \in Callers THEN "idle" ELSE "unset"]
  /\ setting = [c \in Callers |-> None]
  /\ active = {}
  /\ snapshot = [x \in Threads |-> {}]
  /\ saved = {}
  /\ torn = FALSE
  /\ wedged = FALSE
  /\ persist \in BOOLEAN
  /\ passed = {}
  /\ restarts = 0
  /\ rung = [t \in Timers |-> 0]
  /\ accepted = {}
  /\ canceled = {}

Move(x, from, to) == pc[x] = from /\ pc' = [pc EXCEPT ![x] = to]

-----------------------------------------------------------------------------
(* Commands.                                                               *)

\* set_timer() starts the thread ...
SetTimer(c, t) ==
  /\ pc[c] = "idle"
  /\ pc[t] = "unset"
  /\ pc' = [pc EXCEPT ![c] = "register", ![t] = "waiting"]
  /\ setting' = [setting EXCEPT ![c] = t]
  /\ UNCHANGED <<active, snapshot, wedged, file, passed, process, history>>

\* ... and then registers it.
Register(c) ==
  /\ Move(c, "register", "save")
  /\ ~wedged
  /\ active' = active \cup {setting[c]}
  /\ UNCHANGED <<setting, snapshot, wedged, file, passed, process, history>>

\* Deviation: the thread is left running.
StillWaiting(t) == pc[t]
\* threading.Timer.cancel() works until the thread stops waiting.
AfterCancel(t) == IF pc[t] = "waiting" THEN "over" ELSE pc[t]

\* cancel_timer() of a timer found by label, by id, or as the latest.  It
\* holds _lock when it calls _save_timers(), which takes _lock.
Cancel(c) ==
  /\ pc[c] = "idle"
  /\ ~wedged
  /\ \E t \in active :
       /\ pc' = [pc EXCEPT ![t] = AfterCancel(t), ![c] = IF persist THEN "stuck" ELSE "idle"]
       /\ active' = active \ {t}
       /\ canceled' = (IF pc[t] = "waiting" THEN canceled \cup {t} ELSE canceled)
  /\ wedged' = persist
  /\ UNCHANGED <<setting, snapshot, file, passed, process, rung, accepted>>

-----------------------------------------------------------------------------
(* _save_timers(), called by command and timer threads.                    *)

Finished(x) == IF x \in Callers THEN "idle" ELSE "over"
\* Deviation: the timer being set is kept in one variable of the module.
AnswerAll(x) ==
  /\ setting' = [c \in Callers |-> None]
  /\ accepted' = (IF x \in Callers THEN accepted \cup {setting[x]} ELSE accepted)
Answer(x) ==
  /\ setting' = [c \in Callers |-> IF c = x THEN None ELSE setting[c]]
  /\ accepted' = (IF x \in Callers THEN accepted \cup {setting[x]} ELSE accepted)

SkipSave(x) ==
  /\ ~persist
  /\ Move(x, "save", Finished(x))
  /\ Answer(x)
  /\ UNCHANGED <<active, snapshot, wedged, file, passed, process, rung, canceled>>

TakeSnapshot(x) ==
  /\ persist
  /\ Move(x, "save", "open")
  /\ ~wedged
  /\ snapshot' = [snapshot EXCEPT ![x] = active]
  /\ UNCHANGED <<active, setting, wedged, file, passed, process, history>>

\* open() with mode "w" truncates the file ...
OpenFile(x) ==
  /\ Move(x, "open", "write")
  /\ torn' = TRUE
  /\ UNCHANGED <<memory, saved, passed, process, history>>

\* ... and the text goes to its beginning.  Whoever opened it before writes
\* over this text, and what is longer than theirs stays behind it.
Written(x) ==
  [y \in Threads |-> IF y = x THEN Finished(x)
                     ELSE IF pc[y] = "write" THEN "overlay" ELSE pc[y]]

WriteFile(x) ==
  /\ pc[x] \in {"write", "overlay"}
  /\ pc' = Written(x)
  /\ saved' = snapshot[x]
  /\ torn' \in {FALSE, pc[x] = "overlay"}
  /\ snapshot' = [snapshot EXCEPT ![x] = {}]
  /\ Answer(x)
  /\ UNCHANGED <<active, wedged, passed, process, rung, canceled>>

-----------------------------------------------------------------------------
(* The timer's thread: _fire_timer().                                      *)

Elapse(t) ==
  /\ Move(t, "waiting", "ring")
  /\ passed' = passed \cup {t}
  /\ UNCHANGED <<memory, file, process, history>>

\* Deviation: the announcement is made under the lock.
LockedOut == wedged
\* What _announce_timer() waits for: nothing.
AnnouncementBlocked == FALSE

Ring(t) ==
  /\ Move(t, "ring", "pop")
  /\ ~AnnouncementBlocked
  /\ rung' = [rung EXCEPT ![t] = @ + 1]
  /\ UNCHANGED <<memory, file, passed, process, accepted, canceled>>

Pop(t) ==
  /\ Move(t, "pop", "save")
  /\ ~wedged
  /\ active' = active \ {t}
  /\ UNCHANGED <<setting, snapshot, wedged, file, passed, process, history>>

-----------------------------------------------------------------------------
\* Deviation: every saved timer is armed again.
RearmAll(gone) == saved
\* remaining > 0
StillLive(gone) == saved \ gone

\* The process ends and _load_and_rearm_timers() runs; meanwhile the time of
\* some more timers may have passed.  A truncated file loads nothing.
Restart ==
  /\ restarts < MaxRestarts
  /\ restarts' = restarts + 1
  /\ persist' \in BOOLEAN
  /\ \E gone \in SUBSET Timers :
       LET rearmed == IF persist' /\ ~torn THEN StillLive(passed \cup gone) ELSE {} IN
       /\ passed' = passed \cup gone
       /\ active' = rearmed
       /\ saved' = (IF persist' /\ ~torn THEN rearmed ELSE saved)
       /\ pc' = [x \in Threads |->
                   IF x \in Callers THEN "idle"
                   ELSE IF x \in rearmed THEN "waiting"
                   ELSE IF pc[x] = "unset" THEN "unset" ELSE "over"]
  /\ setting' = [c \in Callers |-> None]
  /\ snapshot' = [x \in Threads |-> {}]
  /\ wedged' = FALSE
  /\ canceled' = {}
  /\ UNCHANGED <<torn, rung, accepted>>

SaveStep(x) == SkipSave(x) \/ TakeSnapshot(x) \/ OpenFile(x) \/ WriteFile(x)
TimerStep(t) == Elapse(t) \/ Ring(t) \/ Pop(t) \/ SaveStep(t)
CallerStep(c) == Register(c) \/ SaveStep(c)

Next ==
  \/ \E c \in Callers, t \in Timers : SetTimer(c, t)
  \/ \E c \in Callers : Cancel(c) \/ CallerStep(c)
  \/ \E t \in Timers : TimerStep(t)
  \/ Restart

Spec == Init /\ [][Next]_vars

\* Time passes and threads run; nobody has to set or cancel a timer.
FairSpec == Spec /\ \A t \in Timers : WF_vars(TimerStep(t))

-----------------------------------------------------------------------------
TypeOK ==
  /\ pc \in [Threads -> Points]
  /\ setting \in [Callers -> Timers \cup {None}]
  /\ active \subseteq Timers
  /\ snapshot \in [Threads -> SUBSET Timers]
  /\ saved \subseteq Timers
  /\ torn \in BOOLEAN
  /\ wedged \in BOOLEAN
  /\ persist \in BOOLEAN
  /\ passed \subseteq Timers
  /\ restarts \in 0 .. MaxRestarts
  /\ rung \in [Timers -> Nat]
  /\ accepted \subseteq Timers
  /\ canceled \subseteq Timers
  /\ \A c \in Callers : pc[c] \in {"register", "save", "open", "write", "overlay"} => setting[c] \in Timers

(***************************************************************************)
(* A timer is announced at most once, though a restart may come between    *)
(* the announcement and the file that no longer lists it.                  *)
(***************************************************************************)
RingsOnce == \A t \in Timers : rung[t] <= 1

\* The two things that make it inductive: who may still ring has not rung,
\* and what rang, or is about to, has a time that a restart does not wait for.
RingInv ==
  \A t \in Timers :
    /\ rung[t] <= 1
    /\ pc[t] \in {"unset", "waiting", "ring"} => rung[t] = 0
    /\ rung[t] = 1 \/ pc[t] = "ring" => t \in passed

(***************************************************************************)
(* A timer that was accepted rings, also when the lock of the timer table  *)
(* is stuck, unless it is canceled or the process ends before.             *)
(***************************************************************************)
TimerRings ==
  \A t \in Timers : t \in accepted ~> (rung[t] = 1 \/ t \in canceled \/ restarts > 0)

(***************************************************************************)
(* A timer canceled while its thread was still waiting stays silent as     *)
(* long as the process lives, whatever else is set, saved or rings.        *)
(***************************************************************************)
CanceledStaysSilent == \A t \in canceled : rung[t] = 0

\* Its thread is over, and only a restart starts one for it again.
SilentInv == \A t \in canceled : pc[t] = "over" /\ rung[t] = 0

\* Not so in this code, see README section 4.
(***************************************************************************)
(* timer_ops.py: "Named timers: label-based cancel".  So cancel_timer()    *)
(* returns to the thread that called it.                                   *)
(***************************************************************************)
CancelReturns == \A c \in Callers : pc[c] # "stuck"

\* Not so in this code, see README section 4.
(***************************************************************************)
(* timer_ops.py: "active timers survive Jarvis restarts".  So a restart    *)
(* with persistence arms every accepted, active timer whose time is to come.*)
(***************************************************************************)
ActiveTimersSurvive ==
  [][Restart /\ persist /\ persist' => (active \cap accepted) \ passed' \subseteq active']_vars

-----------------------------------------------------------------------------
(***************************************************************************)
(* What holds of timers and alarms for every number of timers, command     *)
(* threads and restarts, with persistence and without.                     *)
(***************************************************************************)
USE TimerAssumption

(* The points of the two kinds of thread are points. *)
LEMMA PointNames ==
  /\ "idle" \in Points /\ "register" \in Points /\ "save" \in Points /\ "open" \in Points
  /\ "write" \in Points /\ "overlay" \in Points /\ "stuck" \in Points /\ "unset" \in Points
  /\ "waiting" \in Points /\ "ring" \in Points /\ "pop" \in Points /\ "over" \in Points
  BY DEF Points

\* No timer is a command thread.
LEMMA TimersAreNoCallers == \A t \in Timers : t \notin Callers
  OBVIOUS

-----------------------------------------------------------------------------
(* Type correctness.  While a command thread registers and saves a timer,   *)
(* it still knows which one.                                                *)

\* A step of saving keeps the types.
LEMMA SaveKeepsTypes ==
  ASSUME TypeOK, NEW x \in Threads, SaveStep(x)
  PROVE  TypeOK'
  <1> USE PointNames DEF TypeOK, Threads, Move, Finished, memory, file, process, history
  <1>1. CASE SkipSave(x)
    <2>1. /\ setting' \in [Callers -> Timers \cup {None}]
          /\ accepted' \subseteq Timers
          /\ pc' \in [Threads -> Points]
      BY <1>1 DEF SkipSave, Answer
    <2>2. \A c \in Callers : pc'[c] \in {"register", "save", "open", "write", "overlay"} => setting'[c] \in Timers
      BY <1>1 DEF SkipSave, Answer
    <2>3. QED
      BY <1>1, <2>1, <2>2 DEF SkipSave
  <1>2. CASE TakeSnapshot(x)
    BY <1>2 DEF TakeSnapshot
  <1>3. CASE OpenFile(x)
    <2>1. pc' \in [Threads -> Points] /\ torn' \in BOOLEAN
      BY <1>3 DEF OpenFile
    <2>2. \A c \in Callers : pc'[c] \in {"register", "save", "open", "write", "overlay"} => setting'[c] \in Timers
      BY <1>3 DEF OpenFile
    <2>3. QED
      BY <1>3, <2>1, <2>2 DEF OpenFile
  <1>4. CASE WriteFile(x)
    <2>1. /\ setting' \in [Callers -> Timers \cup {None}]
          /\ accepted' \subseteq Timers
          /\ pc' \in [Threads -> Points]
      BY <1>4 DEF WriteFile, Answer, Written
    <2>2. \A c \in Callers : pc'[c] \in {"register", "save", "open", "write", "overlay"} => setting'[c] \in Timers
      BY <1>4 DEF WriteFile, Answer, Written
    <2>3. QED
      BY <1>4, <2>1, <2>2 DEF WriteFile
  <1>5. QED
    BY <1>1, <1>2, <1>3, <1>4 DEF SaveStep

\* Every step keeps the types.
LEMMA NextKeepsTypes == TypeOK /\ [Next]_vars => TypeOK'
  <1> SUFFICES ASSUME TypeOK, [Next]_vars PROVE TypeOK'
    OBVIOUS
  <1> USE PointNames DEF TypeOK, Threads, Move, memory, file, process, history
  <1>1. ASSUME NEW c \in Callers, NEW t \in Timers, SetTimer(c, t) PROVE TypeOK'
    BY <1>1 DEF SetTimer
  <1>2. ASSUME NEW c \in Callers, Cancel(c) PROVE TypeOK'
    <2>1. PICK t \in active :
            /\ pc' = [pc EXCEPT ![t] = AfterCancel(t), ![c] = IF persist THEN "stuck" ELSE "idle"]
            /\ active' = active \ {t}
            /\ canceled' = (IF pc[t] = "waiting" THEN canceled \cup {t} ELSE canceled)
      BY <1>2 DEF Cancel
    <2>2. AfterCancel(t) \in Points /\ AfterCancel(t) \in {"over", pc[t]}
      BY <2>1 DEF AfterCancel
    <2>3. pc' \in [Threads -> Points] /\ wedged' \in BOOLEAN
      BY <1>2, <2>1, <2>2 DEF Cancel
    <2>4. QED
      BY <1>2, <2>1, <2>2, <2>3 DEF Cancel
  <1>3. ASSUME NEW c \in Callers, Register(c) PROVE TypeOK'
    BY <1>3 DEF Register
  <1>4. ASSUME NEW t \in Timers, Elapse(t) \/ Ring(t) \/ Pop(t) PROVE TypeOK'
    BY <1>4 DEF Elapse, Ring, Pop
  <1>5. CASE Restart
    <2>1. PICK gone \in SUBSET Timers :
            LET rearmed == IF persist' /\ ~torn THEN StillLive(passed \cup gone) ELSE {} IN
            /\ passed' = passed \cup gone
            /\ active' = rearmed
            /\ saved' = (IF persist' /\ ~torn THEN rearmed ELSE saved)
            /\ pc' = [x \in Threads |->
                        IF x \in Callers THEN "idle"
                        ELSE IF x \in rearmed THEN "waiting"
                        ELSE IF pc[x] = "unset" THEN "unset" ELSE "over"]
      BY <1>5 DEF Restart
    <2>2. pc' \in [Threads -> Points] /\ \A c \in Callers : pc'[c] = "idle"
      BY <2>1
    <2>3. active' \subseteq Timers /\ saved' \subseteq Timers /\ passed' \subseteq Timers
      BY <2>1 DEF StillLive
    <2>4. restarts' \in 0 .. MaxRestarts
      BY <1>5 DEF Restart
    <2>5. QED
      BY <1>5, <2>2, <2>3, <2>4 DEF Restart
  <1>6. CASE UNCHANGED vars
    BY <1>6 DEF vars
  <1>7. QED
    BY <1>1, <1>2, <1>3, <1>4, <1>5, <1>6, SaveKeepsTypes DEF Next, CallerStep, TimerStep

(* The table, its file and the threads stay well formed. *)
THEOREM TypeCorrect == Spec => []TypeOK
  <1>1. Init => TypeOK
    <2> SUFFICES ASSUME Init PROVE TypeOK
      OBVIOUS
    <2>1. pc \in [Threads -> Points] /\ \A c \in Callers : pc[c] = "idle"
      BY PointNames DEF Init, Threads
    <2>2. torn \in BOOLEAN /\ wedged \in BOOLEAN
      BY DEF Init
    <2>3. restarts \in 0 .. MaxRestarts
      BY DEF Init
    <2>4. QED
      BY <2>1, <2>2, <2>3 DEF Init, TypeOK
  <1>2. QED
    BY <1>1, NextKeepsTypes, PTL DEF Spec

-----------------------------------------------------------------------------
(* A timer rings once.  Ringing takes its thread out of the points from     *)
(* which it may ring, and a restart arms only timers whose time is to come. *)

\* Every step keeps who may still ring.
LEMMA NextKeepsRingInv == TypeOK /\ RingInv /\ [Next]_vars => RingInv'
  <1> DEFINE Goal(t) == /\ rung'[t] <= 1
                        /\ pc'[t] \in {"unset", "waiting", "ring"} => rung'[t] = 0
                        /\ rung'[t] = 1 \/ pc'[t] = "ring" => t \in passed'
  <1> SUFFICES ASSUME TypeOK, RingInv, [Next]_vars, NEW t \in Timers
               PROVE  Goal(t)
    BY DEF RingInv
  <1>1. /\ rung[t] \in Nat /\ rung[t] <= 1
        /\ pc[t] \in {"unset", "waiting", "ring"} => rung[t] = 0
        /\ rung[t] = 1 \/ pc[t] = "ring" => t \in passed
    BY DEF RingInv, TypeOK
  <1>2. ASSUME UNCHANGED rung, passed \subseteq passed',
               \/ pc'[t] = pc[t]
               \/ pc[t] = "unset" /\ pc'[t] = "waiting"
               \/ pc'[t] \notin {"unset", "waiting", "ring"}
        PROVE  Goal(t)
    BY <1>1, <1>2
  <1> HIDE DEF Goal
  <1> USE DEF TypeOK, Threads, Move, memory, file, process, history
  <1>3. ASSUME NEW c \in Callers, NEW u \in Timers, SetTimer(c, u) PROVE Goal(t)
    BY <1>2, <1>3 DEF SetTimer
  <1>4. ASSUME NEW c \in Callers, Cancel(c) PROVE Goal(t)
    <2>1. UNCHANGED rung /\ UNCHANGED passed
      BY <1>4 DEF Cancel
    <2>2. pc'[t] \in {pc[t], "over"}
      BY <1>4 DEF Cancel, AfterCancel
    <2>3. QED
      BY <1>2, <2>1, <2>2
  <1>5. ASSUME NEW c \in Callers, Register(c) PROVE Goal(t)
    BY <1>2, <1>5 DEF Register
  <1>6. ASSUME NEW u \in Timers, Elapse(u) PROVE Goal(t)
    BY <1>1, <1>6 DEF Elapse, Goal
  <1>7. ASSUME NEW u \in Timers, Ring(u) PROVE Goal(t)
    BY <1>1, <1>7 DEF Ring, Goal
  <1>8. ASSUME NEW u \in Timers, Pop(u) PROVE Goal(t)
    BY <1>2, <1>8 DEF Pop
  <1>9. ASSUME NEW x \in Threads, SaveStep(x) PROVE Goal(t)
    <2>1. UNCHANGED rung /\ UNCHANGED passed
      BY <1>9 DEF SaveStep, SkipSave, TakeSnapshot, OpenFile, WriteFile
    <2>2. CASE WriteFile(x)
      <3>1. pc'[t] = Finished(t) \/ pc'[t] \in {pc[t], "overlay"}
        BY <2>2 DEF WriteFile, Written
      <3>2. Finished(t) = "over"
        BY TimersAreNoCallers DEF Finished
      <3>3. QED
        BY <1>2, <2>1, <3>1, <3>2
    <2>3. CASE SkipSave(x)
      BY <1>2, <2>1, <2>3 DEF SkipSave, Finished
    <2>4. CASE TakeSnapshot(x) \/ OpenFile(x)
      BY <1>2, <2>1, <2>4 DEF TakeSnapshot, OpenFile
    <2>5. QED
      BY <1>9, <2>2, <2>3, <2>4 DEF SaveStep
  <1>10. CASE Restart
    <2>1. PICK gone \in SUBSET Timers :
            LET rearmed == IF persist' /\ ~torn THEN StillLive(passed \cup gone) ELSE {} IN
            /\ passed' = passed \cup gone
            /\ pc' = [x \in Threads |->
                        IF x \in Callers THEN "idle"
                        ELSE IF x \in rearmed THEN "waiting"
                        ELSE IF pc[x] = "unset" THEN "unset" ELSE "over"]
      BY <1>10 DEF Restart
    <2>2. UNCHANGED rung /\ passed \subseteq passed'
      BY <1>10, <2>1 DEF Restart
    <2>3. pc'[t] = "waiting" => t \notin passed
      BY <2>1 DEF StillLive
    <2>4. pc'[t] \in {"waiting", "over"} \/ (pc[t] = "unset" /\ pc'[t] = "unset")
      BY <2>1
    <2>5. QED
      BY <1>1, <2>2, <2>3, <2>4 DEF Goal
  <1>11. CASE UNCHANGED vars
    BY <1>2, <1>11 DEF vars
  <1>12. QED
    BY <1>3, <1>4, <1>5, <1>6, <1>7, <1>8, <1>9, <1>10, <1>11 DEF Next, CallerStep, TimerStep

(* The strengthened invariant holds in every reachable state. *)
LEMMA AlwaysRingInv == Spec => []RingInv
  <1>1. Init => RingInv
    <2> SUFFICES ASSUME Init PROVE RingInv
      OBVIOUS
    <2>1. rung \in [Timers -> {0}]
      BY DEF Init
    <2>2. \A t \in Timers : pc[t] = "unset"
      BY TimersAreNoCallers DEF Init, Threads
    <2>3. \A n \in {0} : n <= 1 /\ n # 1
      OBVIOUS
    <2>4. QED
      BY <2>1, <2>2, <2>3 DEF RingInv
  <1>2. QED
    BY <1>1, TypeCorrect, NextKeepsRingInv, PTL DEF Spec

(* A timer is announced at most once, however the process is restarted      *)
(* between the announcement and the file that no longer lists the timer.    *)
THEOREM AnnouncedOnce == Spec => []RingsOnce
  <1>1. RingInv => RingsOnce
    BY DEF RingInv, RingsOnce
  <1>2. QED
    BY <1>1, AlwaysRingInv, PTL

-----------------------------------------------------------------------------
(* A canceled timer stays silent: it had not rung, and its thread is over.  *)

\* Every step keeps what was canceled silent.
LEMMA NextKeepsSilentInv == TypeOK /\ RingInv /\ SilentInv /\ [Next]_vars => SilentInv'
  <1> DEFINE Goal(t) == pc'[t] = "over" /\ rung'[t] = 0
  <1> SUFFICES ASSUME TypeOK, RingInv, SilentInv, [Next]_vars, NEW t \in Timers, t \in canceled'
               PROVE  Goal(t)
    BY NextKeepsTypes DEF SilentInv, TypeOK
  <1>1. ASSUME t \in canceled, UNCHANGED rung, pc'[t] = pc[t] PROVE Goal(t)
    BY <1>1 DEF SilentInv
  <1>2. t \in canceled => pc[t] = "over"
    BY DEF SilentInv
  <1> HIDE DEF Goal
  <1> USE DEF TypeOK, Threads, Move, memory, file, process, history
  <1>3. ASSUME NEW c \in Callers, NEW u \in Timers, SetTimer(c, u) PROVE Goal(t)
    BY <1>1, <1>2, <1>3, TimersAreNoCallers DEF SetTimer
  <1>4. ASSUME NEW c \in Callers, Cancel(c) PROVE Goal(t)
    <2>1. PICK u \in active :
            /\ pc' = [pc EXCEPT ![u] = AfterCancel(u), ![c] = IF persist THEN "stuck" ELSE "idle"]
            /\ canceled' = (IF pc[u] = "waiting" THEN canceled \cup {u} ELSE canceled)
      BY <1>4 DEF Cancel
    <2>2. pc'[t] = IF t = u THEN AfterCancel(t) ELSE pc[t]
      BY <2>1, TimersAreNoCallers
    <2>3. pc'[t] = "over"
      BY <1>2, <2>1, <2>2 DEF AfterCancel
    <2>4. rung[t] = 0
      BY <2>1 DEF RingInv, SilentInv
    <2>5. UNCHANGED rung
      BY <1>4 DEF Cancel
    <2>6. QED
      BY <2>3, <2>4, <2>5 DEF Goal
  <1>5. ASSUME NEW c \in Callers, Register(c) PROVE Goal(t)
    BY <1>1, <1>5, TimersAreNoCallers DEF Register
  <1>6. ASSUME NEW u \in Timers, Elapse(u) PROVE Goal(t)
    BY <1>1, <1>2, <1>6 DEF Elapse
  <1>7. ASSUME NEW u \in Timers, Ring(u) PROVE Goal(t)
    <2>1. t \in canceled /\ t # u
      BY <1>2, <1>7 DEF Ring
    <2>2. pc'[t] = pc[t] /\ rung'[t] = rung[t]
      BY <1>7, <2>1 DEF Ring
    <2>3. QED
      BY <2>1, <2>2 DEF Goal, SilentInv
  <1>8. ASSUME NEW u \in Timers, Pop(u) PROVE Goal(t)
    BY <1>1, <1>2, <1>8 DEF Pop
  <1>9. ASSUME NEW x \in Threads, SaveStep(x) PROVE Goal(t)
    <2>1. t \in canceled /\ UNCHANGED rung
      BY <1>9 DEF SaveStep, SkipSave, TakeSnapshot, OpenFile, WriteFile
    <2>2. pc'[t] = pc[t]
      <3>1. CASE SkipSave(x)
        BY <1>2, <2>1, <3>1 DEF SkipSave
      <3>2. CASE TakeSnapshot(x) \/ OpenFile(x)
        BY <1>2, <2>1, <3>2 DEF TakeSnapshot, OpenFile
      <3>3. CASE WriteFile(x)
        BY <1>2, <2>1, <3>3 DEF WriteFile, Written
      <3>4. QED
        BY <1>9, <3>1, <3>2, <3>3 DEF SaveStep
    <2>3. QED
      BY <1>1, <2>1, <2>2
  <1>10. CASE Restart
    BY <1>10 DEF Restart
  <1>11. CASE UNCHANGED vars
    BY <1>1, <1>11 DEF vars
  <1>12. QED
    BY <1>3, <1>4, <1>5, <1>6, <1>7, <1>8, <1>9, <1>10, <1>11 DEF Next, CallerStep, TimerStep

(* A timer canceled while its thread was still waiting is not announced as  *)
(* long as the process lives.                                               *)
THEOREM CanceledSilent == Spec => []CanceledStaysSilent
  <1>1. Init => SilentInv
    BY DEF Init, SilentInv
  <1>2. SilentInv => CanceledStaysSilent
    BY DEF SilentInv, CanceledStaysSilent
  <1>3. QED
    BY <1>1, <1>2, TypeCorrect, AlwaysRingInv, NextKeepsSilentInv, PTL DEF Spec
=============================================================================
