---------------------------- MODULE DesktopBridge ----------------------------
(***************************************************************************)
(* The engine and its desktop windows: the dialogue manager tells its       *)
(* listener of a change after it has released its lock, the bridge          *)
(* (ui/bridge.py) sends events to every connected window from its own       *)
(* event loop and answers the commands each window sends, and a window      *)
(* (desktop/src) reconnects, shows what it is told and hides the overlay a  *)
(* moment after the dialogue has become idle.                              *)
(***************************************************************************)
EXTENDS Naturals, Sequences, FiniteSets

CONSTANTS
  Windows,      \* the overlay and the dashboard
  Turners,      \* threads that change the dialogue state
  MaxConns,     \* bound: connections of one window
  MaxEvents     \* bound: changes of the dialogue state, commands of the windows and settings voice changes

States   == {"idle", "busy", "timed"}    \* "timed": follow-up or confirming, which run out
Settings == {"old", "new"}
Bad      == "bad"                        \* a value the engine does not take
Conns    == Windows \X (1 .. MaxConns)
Voice    == <<"voice", 0>>

VARIABLES
  dlg,        \* the dialogue state
  notice,     \* for each thread: the state it has yet to tell, or "none"
  tasks,      \* events scheduled on the loop
  told, reach,   \* the last state told, and the connections the last one was sent to
  clients,    \* registered connections
  conn,       \* for each window: its latest connection, 0 before the first
  open,       \* connections that stand
  handler,    \* for each connection: "none", "reading", "routing", the value being applied, "answering", or "spinning"
  lost,       \* connections of which a broadcast has found that they are closed
  up,         \* commands under way from a window
  down,       \* events under way to a window
  setting, setBy,      \* a setting of the engine, and who changed it last
  events,
  shown       \* what a window shows: its state, setting and answer, and the overlay's window and timer

dbVars  == <<dlg, notice, tasks, told, reach, clients, conn, open, handler, lost, up, down,
             setting, setBy, events, shown>>
dialogue == <<dlg, notice>>
sent     == <<told, reach>>
links    == <<clients, conn, open, handler, lost>>
engine   == <<setting, setBy>>

Event(k, v) == [kind |-> k, value |-> v]
Live(w)     == conn[w] > 0 /\ <<w, conn[w]>> \in open
ConnOf(w)   == <<w, conn[w]>>

Init ==
  /\ dlg = "idle" /\ notice = [t \in Turners |-> "none"]
  /\ tasks = <<>> /\ told = "idle" /\ reach = {}
  /\ clients = {} /\ conn = [w \in Windows |-> 0] /\ open = {}
  /\ handler = [c \in Conns |-> "none"] /\ lost = {}
  /\ up = [c \in Conns |-> <<>>] /\ down = [c \in Conns |-> <<>>]
  /\ setting = "old" /\ setBy = Voice /\ events = 0
  /\ shown = [w \in Windows |-> [state |-> "idle", setting |-> "none", answer |-> FALSE,
                                 visible |-> FALSE, hiding |-> FALSE]]

-----------------------------------------------------------------------------
(* The dialogue manager.                                                   *)

\* transition(): the state under the lock, the listeners after it.
Transition(t, s) ==
  /\ notice[t] = "none" /\ events < MaxEvents
  /\ dlg' = s /\ events' = events + 1
  /\ notice' = [notice EXCEPT ![t] = IF s = dlg THEN "none" ELSE s]
  /\ UNCHANGED <<tasks, sent, links, up, down, engine, shown>>

\* A read of the property finds the time of the state over; nobody is told.
Expire ==
  /\ dlg = "timed" /\ dlg' = "idle"
  /\ UNCHANGED <<notice, tasks, sent, links, up, down, engine, events, shown>>

\* _on_state_changed in the thread that made the change: broadcast() schedules a task.
Notify(t) ==
  /\ notice[t] # "none"
  /\ tasks' = Append(tasks, Event("state", notice[t])) /\ told' = notice[t]
  /\ notice' = [notice EXCEPT ![t] = "none"]
  /\ UNCHANGED <<dlg, reach, links, up, down, engine, events, shown>>

-----------------------------------------------------------------------------
(* The bridge's loop: one thread, which goes on when a handler waits.       *)

\* A handler that never waits keeps the loop for itself.
Free == \A c \in Conns : handler[c] # "spinning"

\* Where the handler goes for the next command.  A connection that is known to be closed refuses
\* to receive, and to send the error; neither waits, and the handler tries again for ever.
Back(c) == IF c \in lost THEN "spinning" ELSE "reading"

Sent(e) ==
  /\ clients' = clients \cap open /\ lost' = lost \cup (clients \ open)
  /\ down' = [c \in Conns |-> IF c \in clients \cap open THEN Append(down[c], e) ELSE down[c]]
  /\ reach' = IF e.kind = "state" THEN clients \cap open ELSE reach
  /\ UNCHANGED <<dialogue, told, conn, open, handler, up, engine, events, shown>>

\* _broadcast: every client of this moment; one that cannot be reached is dropped.
Broadcast == Free /\ tasks # <<>> /\ tasks' = Tail(tasks) /\ Sent(Head(tasks))

\* handle_client: accepted, registered, and told the configuration, not the state.
Connect(w) ==
  /\ Free /\ ~Live(w) /\ conn[w] < MaxConns
  /\ LET c == <<w, conn[w] + 1>> IN
     /\ conn' = [conn EXCEPT ![w] = @ + 1] /\ open' = open \cup {c} /\ clients' = clients \cup {c}
     /\ handler' = [handler EXCEPT ![c] = "reading"]
     /\ down' = [down EXCEPT ![c] = <<Event("config", setting)>>]
  /\ UNCHANGED <<dialogue, tasks, sent, lost, up, engine, events, shown>>

\* The connection breaks; what is under way is lost.
Drop(w) ==
  /\ Live(w) /\ conn[w] < MaxConns
  /\ open' = open \ {ConnOf(w)}
  /\ up' = [up EXCEPT ![ConnOf(w)] = <<>>] /\ down' = [down EXCEPT ![ConnOf(w)] = <<>>]
  /\ UNCHANGED <<dialogue, tasks, sent, clients, conn, handler, lost, engine, events, shown>>

\* Deviation: a handler that ends leaves its client registered.
LeaveRegistered(c) ==
  /\ Free /\ handler[c] = "reading" /\ c \notin open
  /\ handler' = [handler EXCEPT ![c] = "none"] /\ clients' = clients
  /\ UNCHANGED <<dialogue, tasks, sent, conn, open, lost, up, down, engine, events, shown>>

\* The handler that waits for a command, or that answers, is the first to find the connection closed.
Leave(c) ==
  /\ Free /\ handler[c] = "reading" /\ c \notin open
  /\ handler' = [handler EXCEPT ![c] = "none"] /\ clients' = clients \ {c}
  /\ UNCHANGED <<dialogue, tasks, sent, conn, open, lost, up, down, engine, events, shown>>

\* _handle_message takes the next command; routing and applying are done in another thread.
Handle(c) ==
  /\ Free /\ handler[c] = "reading" /\ c \in open /\ up[c] # <<>>
  /\ handler' = [handler EXCEPT ![c] = Head(up[c])] /\ up' = [up EXCEPT ![c] = Tail(@)]
  /\ UNCHANGED <<dialogue, tasks, sent, clients, conn, open, lost, down, engine, events, shown>>

\* The answer, or the sentence that says there is none, goes to every window.
Routed(c) ==
  /\ Free /\ handler[c] = "routing" /\ tasks' = Append(tasks, Event("response", "said"))
  /\ handler' = [handler EXCEPT ![c] = Back(c)]
  /\ UNCHANGED <<dialogue, sent, clients, conn, open, lost, up, down, engine, events, shown>>

\* _apply_setting_update, in the other thread: a value it does not take changes nothing.
Apply(c) ==
  /\ handler[c] \in Settings \cup {Bad}
  /\ IF handler[c] \in Settings THEN setting' = handler[c] /\ setBy' = c ELSE UNCHANGED engine
  /\ handler' = [handler EXCEPT ![c] = "answering"]
  /\ UNCHANGED <<dialogue, tasks, sent, clients, conn, open, lost, up, down, events, shown>>

\* The configuration as it is now, to the asker.
Answer(c) ==
  /\ Free /\ handler[c] = "answering"
  /\ handler' = [handler EXCEPT ![c] = Back(c)]
  /\ down' = [down EXCEPT ![c] = IF c \in open THEN Append(@, Event("config", setting)) ELSE @]
  /\ UNCHANGED <<dialogue, tasks, sent, clients, conn, open, lost, up, engine, events, shown>>

\* A voice command changes the setting: no window is told.
VoiceSets(v) ==
  /\ events < MaxEvents /\ v # setting /\ setting' = v /\ setBy' = Voice /\ events' = events + 1
  /\ UNCHANGED <<dialogue, tasks, sent, links, up, down, shown>>

-----------------------------------------------------------------------------
(* A window: useJarvisSocket, the store and the overlay.                   *)

\* send(): nothing is sent when the connection does not stand; the window shows the new value at once.
Choose(w, v) ==
  /\ events < MaxEvents /\ shown[w].setting # "none" /\ events' = events + 1
  /\ shown' = [shown EXCEPT ![w].setting = v]
  /\ up' = IF Live(w) THEN [up EXCEPT ![ConnOf(w)] = Append(@, v)] ELSE up
  /\ UNCHANGED <<dialogue, tasks, sent, links, down, engine>>

Type(w) ==
  /\ events < MaxEvents /\ Live(w) /\ events' = events + 1
  /\ up' = [up EXCEPT ![ConnOf(w)] = Append(@, "routing")]
  /\ shown' = [shown EXCEPT ![w].answer = FALSE]
  /\ UNCHANGED <<dialogue, tasks, sent, links, down, engine>>

\* Deviation: the timer is not cleared by a state that comes before it is over.
ToldKeepsTimer(s, state) ==
  IF state = s.state THEN s
  ELSE [s EXCEPT !.state = state, !.answer = @ /\ state # "idle", !.visible = @ \/ state # "idle",
                 !.hiding = @ \/ state = "idle"]

\* dispatch(), and the overlay's effect for a new state: shown and the timer cleared, or the
\* timer set.  Idle forgets the last answer.
Told(s, state) ==
  IF state = s.state THEN s
  ELSE [s EXCEPT !.state = state, !.answer = @ /\ state # "idle", !.visible = @ \/ state # "idle",
                 !.hiding = state = "idle"]

Dispatched(s, e) ==
  CASE e.kind = "state"    -> Told(s, e.value)
    [] e.kind = "config"   -> [s EXCEPT !.setting = e.value]
    [] e.kind = "response" -> [s EXCEPT !.answer = TRUE]

Receive(w) ==
  /\ Live(w) /\ down[ConnOf(w)] # <<>>
  /\ shown' = [shown EXCEPT ![w] = Dispatched(@, Head(down[ConnOf(w)]))]
  /\ down' = [down EXCEPT ![ConnOf(w)] = Tail(@)]
  /\ UNCHANGED <<dialogue, tasks, sent, links, up, engine, events>>

\* The dismissal is over.
Hide(w) ==
  /\ shown[w].hiding /\ shown' = [shown EXCEPT ![w].hiding = FALSE, ![w].visible = FALSE]
  /\ UNCHANGED <<dialogue, tasks, sent, links, up, down, engine, events>>

HandlerStep(c) == Leave(c) \/ Handle(c) \/ Routed(c) \/ Apply(c) \/ Answer(c)
WindowStep(w)  == Receive(w) \/ Hide(w)

Works ==
  \/ Broadcast \/ \E t \in Turners : Notify(t)
  \/ \E c \in Conns : HandlerStep(c)
  \/ \E w \in Windows : WindowStep(w)

Next ==
  \/ Works \/ Expire
  \/ \E t \in Turners, s \in States : Transition(t, s)
  \/ \E w \in Windows : Connect(w) \/ Drop(w) \/ Type(w)
  \/ \E v \in Settings : VoiceSets(v)
  \/ \E w \in Windows, v \in Settings \cup {Bad} : Choose(w, v)

\* The threads, the loop and the windows go on; what they have to do is finite between two events.
Spec == Init /\ [][Next]_dbVars /\ WF_dbVars(Works)

-----------------------------------------------------------------------------
\* The dialogue, the connections and the windows have their types.
TypeOK ==
  /\ dlg \in States /\ told \in States /\ notice \in [Turners -> States \cup {"none"}]
  /\ clients \subseteq Conns /\ open \subseteq Conns /\ lost \subseteq Conns /\ conn \in [Windows -> 0 .. MaxConns]
  /\ handler \in [Conns -> {"none", "reading", "routing", "answering", "spinning", Bad} \cup Settings]
  /\ setting \in Settings /\ setBy \in Conns \cup {Voice}
  /\ \A w \in Windows : shown[w].state \in States /\ shown[w].setting \in Settings \cup {"none", Bad}

\* Nothing is under way to a window.
Still(w) == tasks = <<>> /\ Live(w) /\ down[ConnOf(w)] = <<>>

\* When no event is under way, a window that was told shows the state that was told last.
ToldIsShown == \A w \in Windows : Still(w) /\ ConnOf(w) \in reach => shown[w].state = told

\* The overlay is visible while its window knows of a state that is not idle.
VisibleWhileActive ==
  \A w \in Windows : shown[w].state # "idle" => shown[w].visible

\* A window whose choice was the last to change a setting, or changed nothing, shows the engine's.
ChoiceIsEngines ==
  \A w \in Windows :
    Live(w) /\ handler[ConnOf(w)] = "reading" /\ up[ConnOf(w)] = <<>> /\ down[ConnOf(w)] = <<>>
      => shown[w].setting # Bad /\ (setBy = ConnOf(w) => shown[w].setting = setting)

\* A command typed in a window is answered there, unless its connection breaks or the loop is
\* kept by a handler that never waits.
TypedIsAnswered ==
  \A w \in Windows : \A c \in {<<w, n>> : n \in 1 .. MaxConns} :
    handler[c] = "routing" ~> c \notin open \/ shown[w].answer \/ ~Free

\* A connection that broke leaves the clients, unless the loop is kept.
DeadLeave == \A c \in Conns : c \in clients \ open ~> c \notin clients \/ ~Free

\* Only a handler whose own command was under way when its connection broke can keep the loop:
\* no window that is connected is that one's, and it is not among the clients.
KeeperIsGone == \A c \in Conns : handler[c] = "spinning" => c \notin open \cup clients

\* Not so in this code, see README section 4.
\* No handler keeps the bridge's loop for itself.
LoopIsFree == Free

\* When the dialogue is idle and nobody is told anything more, the overlay of a window that stayed
\* connected is hidden.
OverlaySinks ==
  \A w \in Windows :
    Still(w) /\ dlg = "idle" /\ (\A t \in Turners : notice[t] = "none") /\ ~shown[w].hiding
      /\ conn[w] = 1 => ~shown[w].visible
=============================================================================
