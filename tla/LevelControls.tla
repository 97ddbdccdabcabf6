---------------------------- MODULE LevelControls ----------------------------
(***************************************************************************)
(* Volume, mute and brightness (os_control/native_ops.py and the commands   *)
(* of system_ops.py that use it): each is tried by several backends in      *)
(* turn, some are verified by reading the level back, and the command's own  *)
(* PowerShell template follows when none of them says it succeeded.  A level *)
(* is a number of steps of ten per cent; the user's hand may move it at any  *)
(* time.                                                                     *)
(***************************************************************************)
EXTENDS Integers, FiniteSetsExt

CONSTANTS
  Top,       \* the highest level
  MaxHands   \* a bound on the changes by hand and the commands

VARIABLES
  level, muted, bright,  \* of the machine
  verify,    \* CONTROLS_VERIFY_STATE
  do,        \* the command: [key, value], where value is what a "set" command asks for
  place,     \* where it stands: "idle", "read", "pycaw", "powershell", "check1", "check2",
             \* "mute1", "mute2", "sbc", "wmi", "posh", "template" or "end"
  goal,      \* the level that is set
  begun,     \* the volume and the mute state when the command began, whether a hand has changed
             \* them since, and whether the script of volume_set was cut
  runs,      \* runs of the template
  report, by,
  hands      \* changes by hand so far, and commands
lvVars == <<level, muted, bright, verify, do, place, goal, begun, runs, report, by, hands>>

State == [level |-> level, muted |-> muted, touched |-> FALSE, cut |-> FALSE]
NoCommand == [key |-> "none", value |-> 0]
Init ==
  /\ level \in 0 .. Top /\ bright \in {0, Top} /\ muted \in BOOLEAN /\ verify \in BOOLEAN
  /\ do = NoCommand /\ place = "idle" /\ goal = 0 /\ begun = State
  /\ runs = 0 /\ report = "none" /\ by = "none" /\ hands = 0

Clamp(n)  == Max({0, Min({Top, n})})
\* The template darkens the screen to ten per cent at most.
Lowest    == IF do.key = "brightness_down" THEN 1 ELSE 0
Shift(d)  == CASE d.key \in {"volume_up", "brightness_up"} -> 1
               [] d.key \in {"volume_down", "brightness_down"} -> -1
               [] OTHER -> 0
Bright(d) == d.key \in {"brightness_set", "brightness_up", "brightness_down"}
Sets(d)   == d.key \in {"volume_set", "brightness_set"}

Commands == {[key |-> k, value |-> 0] : k \in {"volume_up", "volume_down", "volume_mute",
                                               "brightness_up", "brightness_down"}}
            \cup {[key |-> k, value |-> v] : k \in {"volume_set", "brightness_set"}, v \in {0, Top}}

First(d) == IF Bright(d) THEN "sbc" ELSE IF d.key = "volume_mute" THEN "mute1" ELSE "pycaw"

\* _run_native_volume_command and _run_native_brightness_command.
Begin(d) ==
  /\ place = "idle" /\ hands < MaxHands /\ hands' = hands + 1
  /\ do' = d /\ goal' = d.value /\ begun' = State
  /\ place' = IF Shift(d) # 0 THEN "read" ELSE First(d)
  /\ UNCHANGED <<level, muted, bright, verify, runs, report, by>>

Machine  == <<level, muted, bright>>
Goes(to) == place' = to /\ UNCHANGED <<report, by>>
Ends(r, b) == place' = "end" /\ report' = r /\ by' = b

\* adjust_system_volume_percent, adjust_brightness: without a reading the template is next.
Read ==
  /\ place = "read"
  /\ \/ goal' = Clamp((IF Bright(do) THEN bright ELSE level) + Shift(do)) /\ Goes(First(do))
     \/ UNCHANGED goal /\ Goes("template")
  /\ UNCHANGED <<Machine, verify, do, begun, runs, hands>>

\* Deviation: the level is not read back.
AfterSetterUnread(check) == Ends("success", "native")

\* set_volume: the endpoint is missing or refuses, or takes the level, which need not stick.
AfterSetter(check) == IF verify THEN Goes(check) ELSE Ends("success", "native")

SetVolume(here, next, check) ==
  /\ place = here
  /\ \/ UNCHANGED level /\ Goes(next)
     \/ level' \in {level, goal} /\ AfterSetter(check)
  /\ UNCHANGED <<muted, bright, verify, do, goal, begun, runs, hands>>

\* The script of volume_set presses "down" until the level is nothing and "up" until it is the
\* goal.  It may be cut at any press, by an error or by its time.
Cut ==
  /\ level' \in 0 .. Max({level, goal}) /\ begun' = [begun EXCEPT !.cut = TRUE]
  /\ UNCHANGED <<muted, bright>>

SetVolumePycaw      == SetVolume("pycaw", "powershell", "check1")
SetVolumePowershell ==
  \/ SetVolume("powershell", "template", "check2")
  \/ /\ place = "powershell" /\ Cut /\ Goes("template")
     /\ UNCHANGED <<verify, do, goal, runs, hands>>

\* The reading back: none, one that raises, one that differs or one that confirms.
Confirms == level = goal
Verify(here, next) ==
  /\ place = here
  /\ \/ Goes(next)
     \/ Ends("exception", "native")
     \/ IF Confirms THEN Ends("success", "native") ELSE Goes(next)
  /\ UNCHANGED <<Machine, verify, do, goal, begun, runs, hands>>

\* toggle_mute: the endpoint answers with the new state, which is taken for its success.
ToggleMutePycaw ==
  /\ place = "mute1"
  /\ \/ UNCHANGED muted /\ Goes("mute2")
     \/ muted' = ~muted /\ IF muted' THEN Ends("success", "native") ELSE Goes("template")
  /\ UNCHANGED <<level, bright, verify, do, goal, begun, runs, hands>>

ToggleMutePowershell ==
  /\ place = "mute2"
  /\ \/ UNCHANGED muted /\ Goes("template")
     \/ muted' = ~muted /\ Ends("success", "native")
  /\ UNCHANGED <<level, bright, verify, do, goal, begun, runs, hands>>

\* set_brightness: the reading back is logged and changes nothing.
SetBrightness(here, next) ==
  /\ place = here
  /\ \/ UNCHANGED bright /\ Goes(next)
     \/ bright' \in {bright, goal} /\ Ends("success", "native")
  /\ UNCHANGED <<level, muted, verify, do, goal, begun, runs, hands>>

\* _run_system_template_with_safe_retry: what the command's own template does.
Effect ==
  CASE do.key = "volume_set" -> level' = do.value /\ UNCHANGED <<muted, bright>>
    [] do.key = "volume_mute" -> muted' = ~muted /\ UNCHANGED <<level, bright>>
    [] do.key = "brightness_set" -> bright' = do.value /\ UNCHANGED <<level, muted>>
    [] Bright(do) /\ Shift(do) # 0 ->
         bright' = Max({Lowest, Clamp(bright + Shift(do))}) /\ UNCHANGED <<level, muted>>
    [] OTHER -> level' = Clamp(level + Shift(do)) /\ UNCHANGED <<muted, bright>>

\* A run that fails may have done all, nothing, or part of its presses.
Partly ==
  \/ (Effect \/ UNCHANGED Machine) /\ UNCHANGED begun
  \/ do.key = "volume_set" /\ Cut

RunTemplate ==
  /\ place = "template" /\ runs' = runs + 1
  /\ \/ Effect /\ UNCHANGED begun /\ Ends("success", "template")
     \/ Partly /\ Ends("failure", "template")
     \/ Partly /\ runs' < 2 /\ Goes("template")
     \/ Partly /\ Ends("exception", "template")
  /\ UNCHANGED <<verify, do, goal, hands>>

Answer ==
  /\ place = "end" /\ place' = "idle" /\ do' = NoCommand /\ goal' = 0 /\ runs' = 0
  /\ report' = "none" /\ by' = "none" /\ begun' = State
  /\ UNCHANGED <<Machine, verify, hands>>

ByHand ==
  /\ hands < MaxHands /\ hands' = hands + 1
  /\ level' \in {0, Top} /\ muted' \in BOOLEAN /\ bright' \in {0, Top}
  /\ begun' = [begun EXCEPT !.touched = TRUE]
  /\ UNCHANGED <<verify, do, place, goal, runs, report, by>>

Next ==
  \/ \E d \in Commands : Begin(d)
  \/ Read \/ SetVolumePycaw \/ SetVolumePowershell
  \/ Verify("check1", "powershell") \/ Verify("check2", "template")
  \/ ToggleMutePycaw \/ ToggleMutePowershell
  \/ SetBrightness("sbc", "wmi") \/ SetBrightness("wmi", "posh") \/ SetBrightness("posh", "template")
  \/ RunTemplate \/ Answer \/ ByHand

Spec == Init /\ [][Next]_lvVars

-----------------------------------------------------------------------------
\* Levels stay on the scale and the command has its type.
TypeOK ==
  /\ level \in 0 .. Top /\ bright \in 0 .. Top /\ goal \in 0 .. Top /\ runs \in 0 .. 2
  /\ report \in {"none", "success", "failure", "exception"} /\ by \in {"none", "native", "template"}

\* With the verification on, a native success about the volume is said when the volume is what
\* was asked for, through every fall from one backend to the next and every hand on the knob
\* (set_volume's docstring: "only if the OS-reported volume was read back and actually
\* matches").
SaidWhenTrue ==
  [][verify /\ place \in {"pycaw", "powershell", "check1", "check2"} /\ place' = "end"
       /\ report' = "success"
     => level' = goal]_lvVars

\* However many backends and templates worked on one command, "down" is never up, and "up" is
\* down only when the script that sets the volume was cut, unless a hand moves the level at the
\* same time (os_control/native_ops.py:575).
NeverBackwards ==
  /\ place = "end" /\ do.key = "volume_up" /\ ~begun.touched /\ ~begun.cut => level >= begun.level
  /\ place = "end" /\ do.key = "volume_down" /\ ~begun.touched => level <= begun.level

\* Not so in this code, see README section 4.  "Up" that succeeds has not turned the volume down:
\* volume_set was cut after its presses of "down", and the template adds one step to nothing.
UpIsNotDown ==
  place = "end" /\ do.key = "volume_up" /\ report = "success" /\ ~begun.touched
    => level >= begun.level

\* Not so in this code, see README section 4.  A mute command that succeeds toggles the mute
\* state (toggle_mute's docstring).
MuteToggles ==
  place = "end" /\ do.key = "volume_mute" /\ report = "success" /\ ~begun.touched
    => muted # begun.muted
=============================================================================
