--------------------------- MODULE ScreenRecorder ---------------------------
(***************************************************************************)
(* Screen recording (os_control/capture_ops.py): one ffmpeg process kept in *)
(* _recording_proc, or the Game Bar, which a hotkey starts and stops and    *)
(* which says nothing back.  Each operation runs under _recording_lock, so  *)
(* each is one step; a process of ffmpeg may end by itself at any time.     *)
(***************************************************************************)
EXTENDS Naturals, FiniteSets

CONSTANTS
  Procs,     \* the ffmpeg processes that can be started
  NoProc,
  Backends,  \* SCREENRECORD_BACKEND: a subset of {"auto", "ffmpeg", "gamebar"}
  MaxKeys    \* a bound on the hotkeys sent

VARIABLES
  backend,
  proc,      \* _recording_proc
  path,      \* _recording_path: "none", "file" or "gamebar"
  running,   \* the ffmpeg processes that record
  used,      \* the processes started so far
  gamebar,   \* the Game Bar records
  left,      \* the processes given up by a stop that could not end them
  keys       \* hotkeys sent

srVars == <<backend, proc, path, running, used, gamebar, left, keys>>

Init ==
  /\ backend \in Backends /\ proc = NoProc /\ path = "none" /\ running = {} /\ used = {}
  /\ gamebar = FALSE /\ left = {} /\ keys = 0

Polls == proc # NoProc /\ proc \in running

\* ffmpeg is on the path and starts.
StartFfmpeg(p) ==
  /\ ~Polls /\ backend \in {"auto", "ffmpeg"}
  /\ p \in Procs \ used
  /\ proc' = p /\ path' = "file"
  /\ running' = running \cup {p} /\ used' = used \cup {p}
  /\ UNCHANGED <<backend, gamebar, left, keys>>

\* ffmpeg is not wanted, not there or does not start.
StartGamebar ==
  /\ ~Polls /\ keys < MaxKeys
  /\ keys' = keys + 1 /\ gamebar' = ~gamebar
  /\ proc' = NoProc /\ path' = "gamebar"
  /\ UNCHANGED <<backend, running, used, left>>

\* "q" and a wait of eight seconds, or else terminate, whose own failure is passed over: the
\* handle is dropped in either case.
StopFfmpeg ==
  /\ proc # NoProc /\ proc' = NoProc /\ path' = "none"
  /\ \/ running' = running \ {proc} /\ UNCHANGED left
     \/ Polls /\ left' = left \cup {proc} /\ UNCHANGED running
  /\ UNCHANGED <<backend, used, gamebar, keys>>

StopGamebar ==
  /\ proc = NoProc /\ path = "gamebar" /\ keys < MaxKeys
  /\ path' = "none"
  /\ \/ keys' = keys + 1 /\ gamebar' = ~gamebar
     \/ UNCHANGED <<keys, gamebar>>
  /\ UNCHANGED <<backend, proc, running, used, left>>

\* The disk is full, or the process is ended by hand.
ProcessEnds(p) ==
  /\ p \in running /\ running' = running \ {p}
  /\ UNCHANGED <<backend, proc, path, used, gamebar, left, keys>>

Next ==
  \/ StartGamebar \/ StopFfmpeg \/ StopGamebar
  \/ \E p \in Procs : StartFfmpeg(p) \/ ProcessEnds(p)

Spec == Init /\ [][Next]_srVars

-----------------------------------------------------------------------------
\* The process and the path have their types and go together.
TypeOK ==
  /\ backend \in Backends /\ proc \in Procs \cup {NoProc} /\ path \in {"none", "file", "gamebar"}
  /\ running \cup left \subseteq used /\ used \subseteq Procs /\ gamebar \in BOOLEAN
  /\ proc # NoProc <=> path = "file"

\* A process that records the screen can be stopped: it is the one the module holds, over
\* starts, stops and processes that end by themselves in any order, unless a stop has tried and
\* failed to end it; and what is held was given up by none (os_control/capture_ops.py:223).
RecordingIsHeld == running \subseteq {proc} \cup left /\ proc \notin left

\* Not so in this code, see README section 4.  Once "Recording stopped." is said nothing records
\* but what is held: terminate() may fail, and a second recording may begin beside the first.
StoppedIsOver == running \subseteq {proc}
=============================================================================
