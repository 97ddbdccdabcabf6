----------------------------- MODULE Reminders -----------------------------
(***************************************************************************)
(* Reminders: os_control/reminder_ops.py.  A reminder is a task of the     *)
(* Windows Task Scheduler or, when that refuses it, an entry of            *)
(* _in_process with a timer thread.  The timer reads its entry under the   *)
(* lock, shows the message outside it, and then removes the entry or, for  *)
(* a recurring reminder, registers the next occurrence.  A message is      *)
(* shown by a process of its own, whose start may fail.                    *)
(*                                                                         *)
(* Times are left out: a timer may fire at any moment after it is armed    *)
(* (at least a second after, so the one-shot fallback, which arms first    *)
(* and registers afterwards, is one step).  A name is used once, as the    *)
(* random identifiers of the code are.                                     *)
(***************************************************************************)
EXTENDS Naturals, Sequences, FiniteSets, SequencesExt

CONSTANTS
  Names,
  MaxShown   \* occurrences of a reminder that are shown

VARIABLES
  entries,   \* keys of _in_process, oldest first
  recurring, \* names of recurring reminders
  timer,     \* name -> "none", "armed", "fired", "read" (it has its entry), "showing"
  tasks,     \* tasks of the scheduler (of another process: they survive a restart)
  shown,     \* name -> times its message was shown
  created,   \* HISTORY: names, oldest first
  canceled,  \* HISTORY: names the user was told are canceled
  inHand,    \* HISTORY: canceled while the timer's thread had read the entry and was
             \* still to show it or to register it again
  missed,    \* HISTORY: a message could not be shown, or a task came too late
  lost       \* HISTORY: in the process when it ended

reVars == <<entries, recurring, timer, tasks, shown, created, canceled, inHand, missed, lost>>

Init ==
  /\ entries = <<>> /\ recurring = {} /\ tasks = {} /\ created = <<>>
  /\ timer = [n \in Names |-> "none"]
  /\ shown = [n \in Names |-> 0]
  /\ canceled = {} /\ inHand = {} /\ missed = {} /\ lost = {}

Listed == ToSet(entries)
Fresh  == Names \ ToSet(created)

\* Assigning a key of a dict keeps its place; a key that is not there comes last.
Registered(n) == IF n \in Listed THEN entries ELSE Append(entries, n)
Place(n) == CHOOSE i \in DOMAIN entries : entries[i] = n
Unregistered(n) == IF n \in Listed THEN RemoveAt(entries, Place(n)) ELSE entries

\* _scheduler_create() or _scheduler_create_recurring() accepts the reminder ...
Schedule(n, again) ==
  /\ n \in Fresh
  /\ created' = Append(created, n)
  /\ recurring' = IF again THEN recurring \cup {n} ELSE recurring
  /\ tasks' = tasks \cup {n}
  /\ UNCHANGED <<entries, timer, shown, canceled, inHand, missed, lost>>

\* ... or does not: the process keeps it itself.
KeepInProcess(n, again) ==
  /\ n \in Fresh
  /\ created' = Append(created, n)
  /\ recurring' = IF again THEN recurring \cup {n} ELSE recurring
  /\ entries' = Registered(n)
  /\ timer' = [timer EXCEPT ![n] = "armed"]
  /\ UNCHANGED <<tasks, shown, canceled, inHand, missed, lost>>

TaskFires(n) ==
  /\ n \in tasks /\ shown[n] < MaxShown
  /\ shown' = [shown EXCEPT ![n] = @ + 1]
  /\ tasks' = IF n \in recurring THEN tasks ELSE tasks \ {n}
  /\ UNCHANGED <<entries, recurring, timer, created, canceled, inHand, missed, lost>>

\* A task whose time is five minutes past expires and is deleted; a recurring one has no end.
TaskExpires(n) ==
  /\ n \in tasks \ recurring
  /\ tasks' = tasks \ {n}
  /\ missed' = missed \cup {n}
  /\ UNCHANGED <<entries, recurring, timer, shown, created, canceled, inHand, lost>>

(***************************************************************************)
(* _fire(), in the timer's thread.                                         *)
(***************************************************************************)
TimerFires(n) ==
  /\ timer[n] = "armed" /\ shown[n] < MaxShown
  /\ timer' = [timer EXCEPT ![n] = "fired"]
  /\ UNCHANGED <<entries, recurring, tasks, shown, created, canceled, inHand, missed, lost>>

Found(n) == n \in Listed

ReadEntry(n) ==
  /\ timer[n] = "fired"
  /\ timer' = [timer EXCEPT ![n] = IF Found(n) THEN "read" ELSE "none"]
  /\ UNCHANGED <<entries, recurring, tasks, shown, created, canceled, inHand, missed, lost>>

Show(n) ==
  /\ timer[n] = "read" /\ shown[n] < MaxShown
  /\ timer' = [timer EXCEPT ![n] = "showing"]
  /\ shown' = [shown EXCEPT ![n] = @ + 1]
  /\ UNCHANGED <<entries, recurring, tasks, created, canceled, inHand, missed, lost>>

\* _show_toast() logs an error, and the thread goes on.
ToastFails(n) ==
  /\ timer[n] = "read"
  /\ timer' = [timer EXCEPT ![n] = "showing"]
  /\ missed' = missed \cup {n}
  /\ UNCHANGED <<entries, recurring, tasks, shown, created, canceled, inHand, lost>>

Recurs(n) == n \in recurring

\* After the toast and the beeps: the next occurrence, whatever happened meanwhile.
Reschedule(n) ==
  /\ timer[n] = "showing" /\ Recurs(n)
  /\ entries' = Registered(n)
  /\ timer' = [timer EXCEPT ![n] = "armed"]
  /\ UNCHANGED <<recurring, tasks, shown, created, canceled, inHand, missed, lost>>

\* Deviation: the entry of a one-shot reminder stays.
FinishKeep(n) ==
  /\ timer[n] = "showing" /\ ~Recurs(n)
  /\ timer' = [timer EXCEPT ![n] = "none"]
  /\ UNCHANGED <<entries, recurring, tasks, shown, created, canceled, inHand, missed, lost>>

Finish(n) ==
  /\ timer[n] = "showing" /\ ~Recurs(n)
  /\ entries' = Unregistered(n)
  /\ timer' = [timer EXCEPT ![n] = "none"]
  /\ UNCHANGED <<recurring, tasks, shown, created, canceled, inHand, missed, lost>>

(***************************************************************************)
(* cancel_reminder(): by name, or without one the entry registered last,   *)
(* or else whichever task the scheduler lists last (it lists them by their *)
(* random names).  Canceling a timer that has fired has no effect.         *)
(***************************************************************************)
Disarmed(n) == IF timer[n] = "armed" THEN "none" ELSE timer[n]

\* The thread has the entry, and goes on with it.
Comes(n) == timer[n] = "read" \/ (timer[n] = "showing" /\ Recurs(n))

Drop(n) ==
  /\ entries' = Unregistered(n)
  /\ timer' = [timer EXCEPT ![n] = Disarmed(n)]
  /\ canceled' = canceled \cup {n}
  /\ inHand' = IF Comes(n) THEN inHand \cup {n} ELSE inHand \ {n}
  /\ UNCHANGED <<recurring, tasks, shown, created, missed, lost>>

Delete(n) ==
  /\ tasks' = tasks \ {n}
  /\ canceled' = canceled \cup {n}
  /\ UNCHANGED <<entries, recurring, timer, shown, created, inHand, missed, lost>>

CancelByName(n) ==
  \/ n \in Listed /\ Drop(n)
  \/ n \notin Listed /\ n \in tasks /\ Delete(n)

CancelLast ==
  \/ entries # <<>> /\ Drop(Last(entries))
  \/ entries = <<>> /\ \E n \in tasks : Delete(n)

\* The process ends and starts again: its timers are gone, the tasks stay.
Restart ==
  /\ Listed # {} \/ \E n \in Names : timer[n] # "none"
  /\ lost' = lost \cup Listed
  /\ entries' = <<>>
  /\ timer' = [n \in Names |-> "none"]
  /\ UNCHANGED <<recurring, tasks, shown, created, canceled, inHand, missed>>

Fires(n) ==
  TimerFires(n) \/ ReadEntry(n) \/ Show(n) \/ ToastFails(n) \/ Reschedule(n) \/ Finish(n)

Next ==
  \/ \E n \in Names, again \in BOOLEAN : Schedule(n, again) \/ KeepInProcess(n, again)
  \/ \E n \in Names : TaskFires(n) \/ TaskExpires(n) \/ Fires(n) \/ CancelByName(n)
  \/ CancelLast
  \/ Restart

-----------------------------------------------------------------------------
TypeOK ==
  /\ Listed \subseteq Names /\ IsInjective(entries)
  /\ recurring \subseteq Names /\ tasks \subseteq Names
  /\ timer \in [Names -> {"none", "armed", "fired", "read", "showing"}]
  /\ shown \in [Names -> 0 .. MaxShown]

\* A reminder that is listed will come: its timer runs or its thread is at work.  None is
\* in both places, and one whose timer runs can be canceled by its name.
ListedIsLive ==
  /\ \A n \in Listed : timer[n] # "none" /\ n \notin tasks
  /\ \A n \in Names : timer[n] = "armed" => n \in Listed

\* A one-shot reminder is shown at most once, and one that is accepted is shown, canceled,
\* lost with the process or still due, unless it came when it could not be shown.
ShownOrDue ==
  \A n \in ToSet(created) :
    /\ n \notin recurring => shown[n] <= 1
    /\ shown[n] > 0 \/ n \in canceled \cup lost \cup missed \cup tasks \cup Listed

\* "Reminder cancelled." holds: after that answer the message is not shown again, unless
\* the thread of its timer had its entry in hand; and canceled once more it is silent.
CancelHolds ==
  [][\A n \in Names : shown'[n] > shown[n] => n \notin canceled \/ n \in inHand]_reVars

\* The timer of a reminder ends in a message, or an attempt to show it, a cancellation or
\* the end of the process.
ReminderComes ==
  \A n \in Names : timer[n] = "armed" ~> shown[n] > 0 \/ n \in missed \cup canceled \cup lost

\* Not so in this code, see README section 4.
\* "Reminder cancelled.", whatever the thread of its timer has read.
CancelSilences ==
  [][\A n \in Names : shown'[n] > shown[n] => n \notin canceled]_reVars

\* Not so in this code, see README section 4.
\* "Reminder set for ...": one that could not be shown when it came is not dropped.
NoneIsDropped ==
  \A n \in ToSet(created) : shown[n] > 0 \/ n \in canceled \cup lost \cup tasks \cup Listed
=============================================================================
