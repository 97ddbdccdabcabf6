--------------------------- MODULE WindowsToggles ---------------------------
(***************************************************************************)
(* Night light, do not disturb, the energy saver and live captions          *)
(* (os_control/windows_toggles.py).  The first three write a value and read  *)
(* it back; live captions are a window that a hotkey opens or closes, that   *)
(* may come late, and that Windows refuses to open right after it closed.   *)
(* The user may switch anything at any time.                                 *)
(***************************************************************************)
EXTENDS Naturals

CONSTANT MaxSwitches   \* a bound on the requests and on the changes by hand

VARIABLES
  on,       \* what the machine's settings are, but for the captions
  window,   \* the captions' window: "closed", "coming" or "open"
  request,  \* [setting, want]
  spot,     \* "idle", "write", "read", "second", "look", "press", "poll", "wait" or "end"
  presses,  \* hotkeys and closings sent for this request
  verdict,  \* what the request returned
  switches
wtVars == <<on, window, request, spot, presses, verdict, switches>>

Written  == {"night_light", "dnd", "energy_saver"}
Settings == Written \cup {"captions"}
NoOne    == [setting |-> "none", want |-> FALSE]

Init ==
  /\ on \in [Written -> BOOLEAN] /\ window \in {"closed", "open"}
  /\ request = NoOne /\ spot = "idle" /\ presses = 0 /\ verdict = "none" /\ switches = 0

Request(s, want) ==
  /\ spot = "idle" /\ switches < MaxSwitches /\ switches' = switches + 1
  /\ request' = [setting |-> s, want |-> want]
  /\ spot' = IF s = "captions" THEN "look" ELSE "write"
  /\ UNCHANGED <<on, window, presses, verdict>>

Goes(to)   == spot' = to /\ UNCHANGED verdict
Returns(v) == spot' = "end" /\ verdict' = v

\* Without success the page of Windows' settings is opened and the answer is a failure.
AfterFirst == IF request.setting = "energy_saver" THEN Goes("second") ELSE Returns("failure")

\* The registry or powercfg: refused, without effect, or done.
Write ==
  /\ spot = "write"
  /\ \/ UNCHANGED on /\ AfterFirst
     \/ on' \in {on, [on EXCEPT ![request.setting] = request.want]} /\ Goes("read")
  /\ UNCHANGED <<window, request, presses, switches>>

\* The reading back.  A night light that cannot be read is taken for switched.
ReadBack ==
  /\ spot = "read"
  /\ \/ IF on[request.setting] = request.want THEN Returns("success") ELSE AfterFirst
     \/ IF request.setting = "night_light" THEN Returns("unread") ELSE AfterFirst
  /\ UNCHANGED <<on, window, request, presses, switches>>

\* _energy_saver_registry names a hive that does not exist.
EnergySaverRegistry ==
  /\ spot = "second" /\ Returns("exception")
  /\ UNCHANGED <<on, window, request, presses, switches>>

\* _live_captions_window_present: an enumeration that fails finds no window.
Present == window = "open"
Seen    == {Present, FALSE}
Found(seen) == Returns(IF seen = Present THEN "success" ELSE "unread")

\* set_live_captions: nothing is pressed when the window is as wanted.
Look ==
  /\ spot = "look"
  /\ \E seen \in Seen : IF seen = request.want THEN Found(seen) ELSE Goes("press")
  /\ UNCHANGED <<on, window, request, presses, switches>>

\* _attempt_live_captions_toggle: the hotkey toggles, and may be refused; the window is closed
\* by a message.
PressedOn == CASE window = "closed" -> {"closed", "coming"} [] window = "coming" -> {"coming", "closed"}
               [] OTHER -> {"closed"}

\* An opening is tried a second time.
NotYet(n) == IF request.want /\ n < 2 THEN Goes("wait") ELSE Returns("failure")

\* The key is not sent, or no window is found to close.
Press ==
  /\ spot = "press" /\ presses' = presses + 1
  /\ \/ UNCHANGED window /\ NotYet(presses')
     \/ request.want /\ window' \in PressedOn /\ Goes("poll")
     \/ ~request.want /\ Present /\ window' \in {"open", "closed"} /\ Goes("poll")
  /\ UNCHANGED <<on, request, switches>>

\* The poll sees the window as wanted, or runs out.
Poll ==
  /\ spot = "poll"
  /\ \E seen \in Seen : IF seen = request.want THEN Found(seen) ELSE NotYet(presses)
  /\ UNCHANGED <<on, window, request, presses, switches>>

\* One second; nobody looks again.
Wait == spot = "wait" /\ Goes("press") /\ UNCHANGED <<on, window, request, presses, switches>>

Arrive ==
  /\ window = "coming" /\ window' = "open"
  /\ UNCHANGED <<on, request, spot, presses, verdict, switches>>

ByHand ==
  /\ switches < MaxSwitches /\ switches' = switches + 1
  /\ \/ \E s \in Written : on' = [on EXCEPT ![s] = ~@] /\ UNCHANGED window
     \/ window' \in {"open", "closed"} /\ UNCHANGED on
  /\ UNCHANGED <<request, spot, presses, verdict>>

Answer ==
  /\ spot = "end" /\ spot' = "idle" /\ request' = NoOne /\ presses' = 0 /\ verdict' = "none"
  /\ UNCHANGED <<on, window, switches>>

Next ==
  \/ \E s \in Settings, want \in BOOLEAN : Request(s, want)
  \/ Write \/ ReadBack \/ EnergySaverRegistry \/ Look \/ Press \/ Poll \/ Wait
  \/ Arrive \/ ByHand \/ Answer

Spec == Init /\ [][Next]_wtVars

-----------------------------------------------------------------------------
\* The settings and the request have their types.
TypeOK ==
  /\ on \in [Written -> BOOLEAN] /\ window \in {"closed", "coming", "open"} /\ presses \in 0 .. 2
  /\ verdict \in {"none", "success", "unread", "failure", "exception"}

\* A success is said when the machine is as it was asked to be, whatever the hotkey did and
\* whoever switched it meanwhile, or nothing was read: of a night light, or of captions to be
\* closed, but never of captions to be opened.
VerifiedIsTrue ==
  [][verdict = "none" /\ verdict' \in {"success", "unread"}
     => \/ request.want = IF request.setting = "captions" THEN Present ELSE on[request.setting]
        \/ /\ verdict' = "unread"
           /\ request.setting = "night_light" \/ (request.setting = "captions" /\ ~request.want)]_wtVars

\* Not so in this code, see README section 4.  Captions that are said to be off are off ("verified
\* via window check"): an enumeration that fails finds none.
OffIsSeen ==
  [][verdict = "none" /\ verdict' \in {"success", "unread"} /\ request.setting = "captions"
     => Present = request.want]_wtVars

\* Not so in this code, see README section 4.  A hotkey for opening is never sent to a window
\* that has come (the comment before the retry says it clears a refused opening reliably).
LateWindowStays ==
  [][spot = "press" /\ request.want => window # "open"]_wtVars

\* Not so in this code, see README section 4.  "Each function returns bool; never raises."
NeverRaises == verdict # "exception"
=============================================================================
