--------------------------- MODULE SystemControls ---------------------------
(***************************************************************************)
(* A system command from request_system_command_result to its report       *)
(* (os_control/system_ops.py, powershell_bridge.py): the policy, the        *)
(* confirmation, the native way of the command's family and the PowerShell  *)
(* template.  A family is a group of keys with the same course; what a      *)
(* command does to the machine is counted, not described.  One command runs *)
(* at a time; its native call and its template may take effect and still    *)
(* report a failure or raise.                                               *)
(***************************************************************************)
EXTENDS Naturals, FiniteSets

CONSTANTS
  MaxCommands,        \* a bound on the commands asked for
  DestructiveAllowed  \* ALLOW_DESTRUCTIVE_SYSTEM_COMMANDS: a set of BOOLEANs

VARIABLES
  destructiveAllowed,
  policy,     \* is_command_allowed("system_command")
  waiting,    \* the families with a confirmation asked for and not answered
  family,     \* the family of the command that runs, or "none"
  step,       \* "native", "template" or "end"
  tries,      \* calls of the current way that did not succeed
  effects,    \* how often the running command took effect
  outcome,    \* what it reports
  logged,     \* it has a row in the action log
  commands    \* commands asked for

scVars == <<destructiveAllowed, policy, waiting, family, step, tries, effects, outcome, logged,
            commands>>

\* The native calls of a family: how many, how often one of them acts at most, and whether it may
\* raise out of the command.
Native(calls, acts, raises) == [calls |-> calls, acts |-> acts, raises |-> raises]
NoNative == Native(0, 0, FALSE)
Family(keys, native, template, destructive, confirm) ==
  [keys |-> keys, native |-> native, template |-> template, destructive |-> destructive,
   confirm |-> confirm]

\* SYSTEM_COMMANDS and the branches of execute_system_command_result.  A window is maximized by
\* a message and by a hotkey, captions are called twice, each of two radios by two backends.
Families ==
  [power       |-> Family({"lock", "sleep"}, Native(1, 2, FALSE), TRUE, FALSE, TRUE),
   destructive |-> Family({"shutdown", "restart", "logoff", "empty_recycle_bin"}, NoNative, TRUE,
                          TRUE, TRUE),
   levels      |-> Family({"volume", "brightness"}, Native(1, 3, TRUE), TRUE, FALSE, FALSE),
   media       |-> Family({"media_play_pause", "media_next_track", "media_previous_track",
                           "media_stop"}, Native(1, 1, FALSE), TRUE, FALSE, FALSE),
   screenshot  |-> Family({"screenshot"}, Native(2, 2, FALSE), TRUE, FALSE, FALSE),
   windows     |-> Family({"window", "browser_tab", "focus_window", "toggle", "radio", "clipboard",
                           "screen_record"}, Native(1, 4, TRUE), FALSE, FALSE, FALSE),
   plain       |-> Family({"list_processes", "notifications", "media_seek", "browser_open_url",
                           "browser_search_web"}, NoNative, TRUE, FALSE, FALSE)]
Names == DOMAIN Families
F(f)  == Families[f]

Init ==
  /\ destructiveAllowed \in DestructiveAllowed /\ policy \in BOOLEAN
  /\ waiting = {} /\ family = "none" /\ step = "end" /\ tries = 0 /\ effects = 0
  /\ outcome = "none" /\ logged = FALSE /\ commands = 0

Idle == family = "none"

\* execute_system_command_result.
Execute(f) ==
  /\ family' = f /\ tries' = 0 /\ effects' = 0 /\ outcome' = "none" /\ logged' = FALSE
  /\ step' = IF F(f).native.calls > 0 THEN "native" ELSE "template"

Refused == UNCHANGED <<family, step, tries, effects, outcome, logged>>

Request(f) ==
  /\ Idle /\ commands < MaxCommands /\ commands' = commands + 1
  /\ IF ~policy THEN Refused /\ UNCHANGED waiting
     ELSE IF F(f).confirm THEN Refused /\ waiting' = waiting \cup {f}
     ELSE Execute(f) /\ UNCHANGED waiting
  /\ UNCHANGED <<destructiveAllowed, policy>>

\* The confirmation comes: the payload is executed, the policy is not asked again.
Confirm(f) ==
  /\ Idle /\ f \in waiting /\ waiting' = waiting \ {f}
  /\ IF F(f).destructive /\ ~destructiveAllowed THEN Refused ELSE Execute(f)
  /\ UNCHANGED <<destructiveAllowed, policy, commands>>

Expire(f) ==
  /\ Idle /\ f \in waiting /\ waiting' = waiting \ {f}
  /\ Refused /\ UNCHANGED <<destructiveAllowed, policy, commands>>

\* Deviation: only successes are logged.
EndsLoggingSuccess(report, row) ==
  /\ step' = "end" /\ outcome' = report /\ logged' = (row /\ report = "success")

Ends(report, row) ==
  /\ step' = "end" /\ outcome' = report /\ logged' = row

\* What follows a native call that says it failed.
NextWay ==
  IF ~F(family).template THEN Ends("failure", TRUE) /\ UNCHANGED tries
  ELSE /\ IF tries + 1 < F(family).native.calls THEN tries' = tries + 1 /\ UNCHANGED step
          ELSE tries' = 0 /\ step' = "template"
       /\ UNCHANGED <<outcome, logged>>

\* A native call acts, once or by several of its own ways, or not at all, and says so or not.  It
\* stands outside every try: what raises in it (a setting's second way, a level that cannot be
\* read back) leaves the command without a row.
TryNative ==
  /\ step = "native"
  /\ \E acts \in 0 .. F(family).native.acts : effects' = effects + acts
  /\ \/ Ends("success", TRUE) /\ UNCHANGED tries
     \/ NextWay
     \/ F(family).native.raises /\ Ends("exception", FALSE) /\ UNCHANGED tries
  /\ UNCHANGED <<destructiveAllowed, policy, waiting, family, commands>>

Attempts(f) == IF F(f).destructive THEN 1 ELSE 2

\* One run of the template: it succeeds, fails for good, fails with an error worth a retry, or
\* takes longer than its timeout, which run_template does not catch.
TryTemplate ==
  /\ step = "template" /\ tries' = tries + 1
  /\ \E effect \in 0 .. 1, end \in {"ok", "failed", "retryable", "expired"} :
       /\ effects' = effects + effect
       /\ CASE end = "ok" -> Ends("success", TRUE)
            [] end = "failed" -> Ends("failure", TRUE)
            [] end = "expired" -> Ends("exception", FALSE)
            [] end = "retryable" /\ tries' < Attempts(family) -> UNCHANGED <<step, outcome, logged>>
            [] OTHER -> Ends("failure", TRUE)
  /\ UNCHANGED <<destructiveAllowed, policy, waiting, family, commands>>

Answer ==
  /\ family # "none" /\ step = "end"
  /\ family' = "none"
  /\ UNCHANGED <<destructiveAllowed, policy, waiting, step, tries, effects, outcome, logged, commands>>

ChangePolicy ==
  /\ policy' = ~policy
  /\ UNCHANGED <<destructiveAllowed, waiting, family, step, tries, effects, outcome, logged, commands>>

Next ==
  \/ TryNative \/ TryTemplate \/ Answer \/ ChangePolicy
  \/ \E f \in Names : Request(f) \/ Confirm(f) \/ Expire(f)

Spec == Init /\ [][Next]_scVars

-----------------------------------------------------------------------------
\* The command that runs has its type.
TypeOK ==
  /\ family \in Names \cup {"none"} /\ waiting \subseteq {f \in Names : F(f).confirm}
  /\ step \in {"native", "template", "end"} /\ tries \in 0 .. 2 /\ effects \in 0 .. 6
  /\ outcome \in {"none", "success", "failure", "exception"} /\ logged \in BOOLEAN

\* A command that must not be done twice is not: a destructive one (restart, empty the bin) takes
\* effect at most once for each confirmation, also when the call failed after its effect; and
\* one without a template (a window, a setting, a radio) is not tried again after its one
\* native call, however it ended.
EffectOnce ==
  family # "none" =>
    /\ F(family).destructive => effects <= 1
    /\ ~F(family).template => effects <= F(family).native.acts

\* What changed the machine and has no row in the action log when it is answered was ended by an
\* exception: out of the native call of a level or a setting, or of a template's timeout.
EffectIsLogged ==
  family # "none" /\ step = "end" /\ effects > 0 /\ ~logged =>
    /\ outcome = "exception"
    /\ F(family).native.raises \/ (F(family).template /\ tries > 0)

\* Not so in this code, see README section 4.  Whatever changed the machine has a row in the
\* action log.
DeedIsLogged == family # "none" /\ step = "end" /\ effects > 0 => logged
=============================================================================
