------------------------------- MODULE Radios -------------------------------
(***************************************************************************)
(* Wi-Fi, Bluetooth and airplane mode (os_control/radio_ops.py).  An order  *)
(* of the voice runs as jobs of a thread pool with two threads; a job is a   *)
(* call of set_radio, which tries the Windows runtime and then PowerShell,   *)
(* and with CONTROLS_VERIFY_STATE believes neither before it has read the    *)
(* state back.  Somebody may switch a radio by hand at any time.  Extra are  *)
(* the radios Windows lists besides the two: the code gives their saved      *)
(* state to Bluetooth.                                                       *)
(***************************************************************************)
EXTENDS Naturals, FiniteSets

CONSTANTS
  Wifi, Bluetooth,
  Extra,        \* other kinds in a snapshot (a mobile modem)
  Available,    \* whether winsdk may be there: a set of BOOLEANs
  Restore,      \* AIRPLANE_RESTORE_RADIOS: a set of BOOLEANs
  MaxOrders     \* a bound on the orders given and the changes by hand

VARIABLES
  available, restore,
  verify,       \* CONTROLS_VERIFY_STATE
  radios,       \* the state of each radio: TRUE is on
  saved,        \* _pre_airplane_states: pairs of a kind and its state
  order,        \* "none" or the order that runs; an "off" with a snapshot is "restore"
  jobs,         \* the calls of set_radio: [radio, on, step, by], where by says on what ground
                \* the call succeeded
  orders,       \* orders given and changes by hand
  touched,      \* a hand has switched a radio since the order began
  before,       \* the states when airplane mode was first asked for
  asked         \* what was asked since then: a sequence of "on" and "off" as two counts

raVars == <<available, restore, verify, radios, saved, order, jobs, orders, touched, before, asked>>

Kinds   == {Wifi, Bluetooth} \cup Extra
Workers == 2

\* Two calls that ask the same are one.
Job(r, on) == [radio |-> r, on |-> on, step |-> "queued", by |-> "nobody"]

\* The key under which the code looks a kind up.
RadioOf(kind) == IF kind = Wifi THEN Wifi ELSE Bluetooth

NothingAsked == [on |-> 0, off |-> 0]

Init ==
  /\ available \in Available /\ restore \in Restore /\ verify \in BOOLEAN
  /\ radios \in [Kinds -> BOOLEAN]
  /\ saved = {} /\ order = "none" /\ jobs = {} /\ orders = 0 /\ touched = FALSE
  /\ before = radios /\ asked = NothingAsked

Gives(name) ==
  /\ order = "none" /\ order' = name
  /\ orders < MaxOrders /\ orders' = orders + 1 /\ touched' = FALSE
  /\ UNCHANGED <<available, restore, verify, radios>>

\* wifi_on ... bluetooth_off: one call in the caller's own thread.
SetRadio(r, on) ==
  /\ Gives("radio") /\ jobs' = {Job(r, on)}
  /\ UNCHANGED <<saved, before, asked>>

\* The snapshot is taken again by every "on", also when airplane mode is on already; it may
\* fail and is then empty.
AirplaneOn ==
  /\ Gives("airplane_on")
  /\ saved' \in IF available THEN {{<<k, radios[k]>> : k \in Kinds}, {}} ELSE {saved}
  /\ jobs' = {Job(Wifi, FALSE), Job(Bluetooth, FALSE)}
  /\ before' = IF asked.on = 0 \/ asked.off > 0 THEN radios ELSE before
  /\ asked' = IF asked.off > 0 THEN [on |-> 1, off |-> 0] ELSE [asked EXCEPT !.on = @ + 1]

\* The snapshot is dropped before it is applied, to all that was in it.
AirplaneOff ==
  /\ \/ /\ restore /\ saved # {} /\ Gives("restore")
        /\ jobs' = {Job(RadioOf(s[1]), s[2]) : s \in saved} /\ saved' = {}
     \/ /\ ~(restore /\ saved # {}) /\ Gives("airplane_off")
        /\ jobs' = {Job(Wifi, TRUE), Job(Bluetooth, TRUE)} /\ UNCHANGED saved
  /\ asked' = [asked EXCEPT !.off = @ + 1]
  /\ UNCHANGED before

Settled(j) == j.step = "done"
Under(j)   == j.step \notin {"queued", "done"}

\* A job of the running order goes on.
Turns(j, step, by) ==
  /\ j \in jobs /\ jobs' = (jobs \ {j}) \cup {[j EXCEPT !.step = step, !.by = by]}
  /\ UNCHANGED <<available, restore, verify, saved, order, orders, touched, before, asked>>

\* Without winsdk the first way is skipped.
Begin(j) ==
  /\ j.step = "queued" /\ Cardinality({i \in jobs : Under(i)}) < Workers
  /\ Turns(j, IF available THEN "winrt" ELSE "powershell", "nobody") /\ UNCHANGED radios

\* The radio takes the state or does not, also when the call raises.  Without the verification
\* a call that has not raised is a success.
Switch(j) ==
  /\ radios' \in {radios, [radios EXCEPT ![j.radio] = j.on]}
  /\ \/ j.step = "winrt" /\ Turns(j, "powershell", "nobody")
     \/ j.step = "winrt" /\ verify /\ Turns(j, "winrt_read", "nobody")
     \/ j.step = "powershell" /\ verify /\ Turns(j, "powershell_read", "nobody")
     \/ j.step \in {"winrt", "powershell"} /\ ~verify /\ Turns(j, "done", "unread")

\* PowerShell reads whether the Wi-Fi adapter is up, and one that is on but not connected is not.
NotConnected(j) == j.step = "powershell_read" /\ j.radio = Wifi /\ ~j.on

\* The poll reads the wanted state, or it runs out or reads nothing and the next way is tried.
ReadBack(j) ==
  /\ j.step \in {"winrt_read", "powershell_read"} /\ UNCHANGED radios
  /\ \/ radios[j.radio] = j.on /\ Turns(j, "done", "read")
     \/ radios[j.radio] # j.on /\ NotConnected(j) /\ Turns(j, "done", "adapter")
     \/ Turns(j, IF j.step = "winrt_read" THEN "powershell" ELSE "done", "nobody")

\* The pool has ended; success is the success of every job.
Succeeded == \A j \in jobs : j.by # "nobody"

Report ==
  /\ order # "none" /\ \A j \in jobs : Settled(j)
  /\ order' = "none" /\ jobs' = {}
  /\ saved' = IF order = "airplane_off" THEN {} ELSE saved
  /\ UNCHANGED <<available, restore, verify, radios, orders, touched, before, asked>>

\* Somebody turns a radio on or off at the machine.
ByHand ==
  /\ orders < MaxOrders /\ orders' = orders + 1 /\ touched' = TRUE
  /\ \E k \in Kinds : radios' = [radios EXCEPT ![k] = ~@]
  /\ UNCHANGED <<available, restore, verify, saved, order, jobs, before, asked>>

Next ==
  \/ \E r \in {Wifi, Bluetooth}, on \in BOOLEAN : SetRadio(r, on)
  \/ AirplaneOn \/ AirplaneOff \/ Report \/ ByHand
  \/ \E j \in jobs : Begin(j) \/ Switch(j) \/ ReadBack(j)

Spec == Init /\ [][Next]_raVars

-----------------------------------------------------------------------------
\* The snapshot and the jobs have their types.
TypeOK ==
  /\ available \in BOOLEAN /\ restore \in BOOLEAN /\ verify \in BOOLEAN /\ touched \in BOOLEAN
  /\ radios \in [Kinds -> BOOLEAN] /\ before \in [Kinds -> BOOLEAN]
  /\ saved \subseteq Kinds \X BOOLEAN
  /\ order \in {"none", "radio", "airplane_on", "airplane_off", "restore"}
  /\ \A j \in jobs : j.radio \in {Wifi, Bluetooth}

\* No two jobs of the order want the opposite of one radio.
Agree == \A i, j \in jobs : i.radio = j.radio => i.on = j.on

\* What was read is what was wanted: not for a Wi-Fi that was not connected.
ReadAs(r, state) == radios[r] = state \/ \E j \in jobs : j.radio = r /\ j.by = "adapter"

\* With the verification on, set_airplane says "restored" or "all radios off" only when every
\* radio is where the order wanted it, through both ways of every job and whatever a call left
\* behind that failed: a success of one job and a failure of the other is a failure.  It is so
\* unless a hand has switched a radio meanwhile, or the order itself wanted both.
NoPartialSuccess ==
  [][Report /\ Succeeded /\ verify /\ ~touched /\ Agree
     => \A j \in jobs : ReadAs(j.radio, j.on)]_raVars

\* "Radios restored." after a single "on" says that both radios are where they were before it,
\* whatever was ordered, failed or switched by hand between the two; under the same conditions.
RestoresBefore ==
  [][Report /\ order = "restore" /\ asked = [on |-> 1, off |-> 1]
       /\ Succeeded /\ verify /\ ~touched /\ Agree
     => \A r \in {Wifi, Bluetooth} : ReadAs(r, before[r])]_raVars

\* Not so in this code, see README section 4.  "Radios restored." with the verification on says
\* that both radios are where they were: the state of a modem is given to Bluetooth beside its
\* own, and the last of two jobs wins.
RestoredIsBefore ==
  [][Report /\ order = "restore" /\ asked = [on |-> 1, off |-> 1] /\ Succeeded /\ verify /\ ~touched
     => \A r \in {Wifi, Bluetooth} : ReadAs(r, before[r])]_raVars

\* Not so in this code, see README section 4.  With the verification on, "off" is said of a Wi-Fi
\* that is off (_ps_wifi_adapter_state's docstring: "False if all are disabled").
OffIsOff ==
  [][Report /\ Succeeded /\ verify /\ ~touched
     => \A j \in jobs : j.radio = Wifi /\ ~j.on => ~radios[Wifi]]_raVars
=============================================================================
