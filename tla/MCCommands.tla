----------------------------- MODULE MCCommands -----------------------------
(* From a text to the machine for TLC: the parser, the tiers after it with  *)
(* their scores and plans, spoken numbers, the buffer before the speech,    *)
(* programs and what the commands control, one of them at a time.          *)
EXTENDS Naturals, FiniteSets, Sequences, TLC

CONSTANTS
  MaxCalls, MaxLeads,
  Structured, MaxShifts, Qualities, MaxHeard,
  Soft, Hard, MaxPieces,
  Wifi, Bluetooth, Modem, MaxOrders,
  Procs, NoProc, MaxKeys,
  MaxCommands,
  Apps, NoCache, Absent, MaxInstalls, MaxScans,
  Programs, Shell, Store, Twin, Spelled, MaxAsks, MaxMoves,
  Top, MaxHands,
  MaxSwitches,
  Numbers

VARIABLES
  part,
  said, lead, callers, at, answer,
  index, tier, shifts, stage, text, candidate, parsed, source, near, calls, checked, result,
  heard, found,
  plan, results, values, planned,
  buf, chunks, received, ended,
  available, restore, verifying, radios, saved, order, jobs, orders, touched, before, asked,
  backend, proc, path, running, used, gamebar, left, keys,
  destructiveAllowed, policy, unanswered, family, step, tries, effects, outcome, logged, commands,
  installed, catalog, cache, lock, scan, timer, watching, request, installs, scans, owed, overtaken,
  known, old, alive, psutil, snapshot, current, lately, name, pace, target, how, shown, attempts,
  prompts, asks, moves,
  level, muted, bright, verify, do, place, goal, begun, runs, report, by, hands,
  on, window, wish, spot, presses, verdict, switches,
  spoken, words, reads

cpVars == <<said, lead, callers, at, answer>>
unVars == <<index, tier, shifts, stage, text, candidate, parsed, source, near, calls, checked, result>>
ksVars == <<heard, found>>
tpVars == <<plan, results, values, planned>>
sbVars == <<buf, chunks, received, ended>>
raVars == <<available, restore, verifying, radios, saved, order, jobs, orders, touched, before, asked>>
srVars == <<backend, proc, path, running, used, gamebar, left, keys>>
scVars == <<destructiveAllowed, policy, unanswered, family, step, tries, effects, outcome, logged,
            commands>>
acVars == <<installed, catalog, cache, lock, scan, timer, watching, request, installs, scans,
            owed, overtaken>>
pcVars == <<known, old, alive, psutil, snapshot, current, lately, name, pace, target, how, shown,
            attempts, prompts, asks, moves>>
lvVars == <<level, muted, bright, verify, do, place, goal, begun, runs, report, by, hands>>
wtVars == <<on, window, wish, spot, presses, verdict, switches>>
snVars == <<spoken, words, reads>>
textVars   == <<cpVars, unVars, ksVars, tpVars, snVars, sbVars>>
switchVars == <<raVars, srVars, scVars, lvVars, wtVars>>
appVars    == <<acVars, pcVars>>
commandsVars == <<part, textVars, switchVars, appVars>>

\* Every leading run of courtesies and negations up to MaxLeads words.
Leads == UNION {[1 .. n -> {"polite", "not"}] : n \in 0 .. MaxLeads}

\* The pieces of an answer: a word, a connector, the last word of a sentence, the rest of a
\* word and a bare mark.
Piece(fresh, connector, mark) == [fresh |-> fresh, connector |-> connector, mark |-> mark]
Pieces == {Piece(TRUE, FALSE, FALSE), Piece(TRUE, TRUE, FALSE), Piece(TRUE, FALSE, TRUE),
           Piece(FALSE, FALSE, FALSE), Piece(FALSE, TRUE, TRUE)}

\* What a text looks like: an explanation, a question for information with a question's opener
\* or without, an order, an order that begins like a question; mixed scripts with no verb only.
Looks(e, i, o, s, v, m, b) == [explains |-> e, informs |-> i, opener |-> o, steps |-> s,
                              verbs |-> v, mixed |-> m, brief |-> b]
TextKinds == {<<TRUE, TRUE, TRUE>>, <<FALSE, TRUE, TRUE>>, <<FALSE, TRUE, FALSE>>,
          <<FALSE, FALSE, FALSE>>, <<FALSE, FALSE, TRUE>>}
MCTexts == {Looks(k[1], k[2], k[3], s, v, FALSE, FALSE) : k \in TextKinds, s \in BOOLEAN, v \in 0 .. 2}
           \cup {Looks(k[1], k[2], k[3], FALSE, 0, TRUE, TRUE) : k \in TextKinds}

\* One reading of each kind that the tiers, the risks and the thresholds tell apart.
Read(i, a, g, s) == [intent |-> i, action |-> a, given |-> g, score |-> s]
MCReadings ==
  {Read(i, "", {}, 0) : i \in {"OS_APP_OPEN", "OS_APP_CLOSE", "OS_FILE_SEARCH", "OS_SYSTEM_COMMAND",
                               "OS_FILE_NAVIGATION"}}
  \cup {Read(i, "", {}, 100) : i \in {"OS_TIMER", "OS_EMAIL", "unknown"}}
  \cup {Read("OS_APP_OPEN", "", {"app_name"}, s) : s \in {35, 45, 58, 98}}
  \cup {Read("OS_APP_CLOSE", "", {"app_name"}, 92), Read("OS_FILE_SEARCH", "", {"filename"}, 58)}
  \cup {Read("OS_SYSTEM_COMMAND", a, {"action_key"}, 72) :
          a \in {"volume_up", "shutdown", "browser_search_web"}}
  \cup {Read("OS_FILE_NAVIGATION", "list_directory", g, 72) : g \in {{}, {"path"}}}
  \cup {Read("OS_FILE_NAVIGATION", "delete_item", {"path"}, 95)}
  \cup {Read("OS_TIMER", "set", {"seconds"}, 100), Read("OS_TIMER", "cancel", {}, 100)}

\* Every plan of one or two calls, and three calls that use what was found before.
TheCalls(tools, says, tos) == [tool : tools, says : says, to : tos]
AllTools == {"search_files", "open_folder", "open_app", "adjust_volume", "screenshot", "unheard_of"}
MCCalls  == TheCalls(AllTools, {"own", "empty", "no number"}, {0})
            \cup TheCalls(AllTools, {"result", "negative"}, {1, 2})
Chained  == {c \in MCCalls : c.says \in {"own", "negative", "result"}
                             /\ c.tool \in {"search_files", "open_folder", "screenshot"}}
MCPlans  == [1 .. 1 -> MCCalls] \cup [1 .. 2 -> MCCalls] \cup [1 .. 3 -> Chained]

\* How a spoken name resembles a program: not, somewhat, or well with or without having been
\* used; a name that is an alias resembles nothing else.  What is closed is said in one word.
Like(s, p, u, r, t) == [sim |-> s, prefix |-> p, used |-> u, recent |-> r, there |-> t]
Unlike  == Like(0, FALSE, 0, FALSE, FALSE)
Likes   == {Unlike, Like(70, FALSE, 0, FALSE, FALSE), Like(70, TRUE, 6, TRUE, TRUE),
            Like(95, TRUE, 0, FALSE, TRUE)}
Spelling(c, l) == [close |-> c, folder |-> FALSE, alias |-> "nobody", single |-> c,
                  like |-> [p \in Programs |-> IF p = Shell THEN Unlike ELSE l[p]]]
MCNames ==
  {Spelling(c, l) : c \in BOOLEAN, l \in [Programs \ {Shell} -> Likes]}
  \cup [close : BOOLEAN, folder : {FALSE}, alias : Programs, single : {TRUE},
        like : {[p \in Programs |-> Unlike]}]

CP == INSTANCE CommandParser WITH Bodies <- {}

\* Every row of every matcher alone, and texts that two matchers know: files to delete by two
\* tables, a chain whose first step is a program, a window that may be an application.
Single(i, a)       == [k \in {i} |-> a]
Double(i, a, j, b) == [k \in {i, j} |-> IF k = i THEN a ELSE b]
OneMatcher  == UNION {{Single(i, row) : row \in CP!Cascade[i]} : i \in CP!Places}
Rows(i, intent) == {row \in CP!Cascade[i] : row.command[1] = intent}
TwoMatchers ==
  {Double(2, a, 18, b) : a \in Rows(2, "OS_FILE_NAVIGATION_BATCH"), b \in Rows(18, "OS_FILE_NAVIGATION")}
  \cup {Double(4, a, 6, b) : a \in Rows(4, "COMMAND_CHAIN"), b \in Rows(6, "OS_APP_OPEN")}
  \cup {Double(13, a, 14, b) : a \in Rows(13, "OS_SYSTEM_COMMAND"), b \in Rows(14, "OS_APP_OPEN")}
MCBodies == OneMatcher \cup TwoMatchers

Parser   == INSTANCE CommandParser WITH Bodies <- MCBodies
Tiers    == INSTANCE Understanding WITH Texts <- MCTexts, Readings <- MCReadings, at <- stage, None <- Absent
Keywords == INSTANCE KeywordScore
Planner  == INSTANCE ToolPlan WITH Plans <- MCPlans, used <- values, outcome <- planned
Buffer   == INSTANCE SentenceBuffer WITH answer <- received
Radio    == INSTANCE Radios WITH Extra <- {Modem}, verify <- verifying, Available <- BOOLEAN, Restore <- BOOLEAN
Recorder == INSTANCE ScreenRecorder WITH Backends <- {"auto", "gamebar"}
Controls == INSTANCE SystemControls WITH DestructiveAllowed <- BOOLEAN, waiting <- unanswered
Catalog  == INSTANCE AppCatalog WITH None <- Absent
Control  == INSTANCE AppControl WITH Text <- Spelled, MaxOrders <- MaxAsks, Names <- MCNames, orders <- asks
Levels   == INSTANCE LevelControls
Toggles  == INSTANCE WindowsToggles WITH request <- wish
Spoken   == INSTANCE SpokenNumber WITH said <- spoken

\* The limits are numbers, a word matches by 90 hundredths at least, and there are two radios
\* and a shell.
ASSUME CommandsAssumption ==
  /\ MaxCalls \in Nat /\ MaxLeads \in Nat /\ MaxShifts \in Nat /\ MaxHeard \in Nat /\ MaxPieces \in Nat
  /\ Top \in Nat \ {0} /\ Soft \in Nat \ {0} /\ Hard \in Nat \ {0}
  /\ Qualities \subseteq 90 .. 100 /\ Numbers \subseteq Nat /\ Structured \in BOOLEAN
  /\ Wifi # Bluetooth /\ Modem \notin {Wifi, Bluetooth} /\ Shell \in Programs /\ IsFiniteSet(Programs)

\* What stands for no process, program, cache or reading is none.
ASSUME AbsentAssumption ==
  /\ NoProc \notin Procs /\ NoCache \notin [apps : SUBSET Apps, fresh : BOOLEAN]
  /\ Absent \notin Tiers!Reading /\ Absent \notin Catalog!Scanners
  /\ {Twin, Spelled} \cap Programs = {} /\ "nobody" \notin Programs

\* A part that is not played starts in one state.
CommandsInit ==
  /\ part \in {"parser", "tiers", "keywords", "planner", "buffer", "radios", "recorder",
               "controls", "catalog", "programs", "levels", "toggles", "numbers"}
  /\ IF part = "parser" THEN Parser!Init
     ELSE said = <<>> /\ lead = <<>> /\ callers = <<>> /\ at = "" /\ answer = <<>>
  /\ Tiers!Init
  /\ part # "tiers" => tier = "low" /\ text = CHOOSE t \in MCTexts : TRUE
  /\ IF part = "keywords" THEN Keywords!Init ELSE heard = <<>> /\ found = "none"
  /\ IF part = "planner" THEN Planner!Init
     ELSE plan = <<>> /\ results = <<>> /\ values = <<>> /\ planned = "running"
  /\ Buffer!Init
  /\ Radio!Init
  /\ part # "radios" => available /\ restore /\ verifying /\ \A r \in DOMAIN radios : radios[r]
  /\ Recorder!Init
  /\ part # "recorder" => backend = "auto"
  /\ Controls!Init
  /\ part # "controls" => destructiveAllowed /\ policy
  /\ Catalog!Init
  /\ part # "catalog" => installed = {} /\ cache = NoCache
  /\ Control!Init
  /\ part # "programs" => known = {Shell} /\ alive = {Shell} /\ ~old /\ psutil
  /\ Levels!Init
  /\ part # "levels" => level = 0 /\ bright = 0 /\ ~muted /\ verify
  /\ Toggles!Init
  /\ part # "toggles" => window = "closed" /\ \A s \in DOMAIN on : on[s]
  /\ IF part = "numbers" THEN Spoken!Init ELSE spoken = <<>> /\ words = <<>> /\ reads = <<>>

OnText(A)     == A /\ UNCHANGED <<part, switchVars, appVars>>
OnSwitches(A) == A /\ UNCHANGED <<part, textVars, appVars>>

OfParser(A)   == part = "parser" /\ OnText(A) /\ UNCHANGED <<unVars, ksVars, tpVars, snVars, sbVars>>
OfTiers(A)    == part = "tiers" /\ OnText(A) /\ UNCHANGED <<cpVars, ksVars, tpVars, snVars, sbVars>>
OfKeywords(A) == part = "keywords" /\ OnText(A) /\ UNCHANGED <<cpVars, unVars, tpVars, snVars, sbVars>>
OfPlanner(A)  == part = "planner" /\ OnText(A) /\ UNCHANGED <<cpVars, unVars, ksVars, snVars, sbVars>>
OfNumbers(A)  == part = "numbers" /\ OnText(A) /\ UNCHANGED <<cpVars, unVars, ksVars, tpVars, sbVars>>
OfBuffer(A)   == part = "buffer" /\ OnText(A) /\ UNCHANGED <<cpVars, unVars, ksVars, tpVars, snVars>>
OfRadios(A)   == part = "radios" /\ OnSwitches(A) /\ UNCHANGED <<srVars, scVars, lvVars, wtVars>>
OfRecorder(A) == part = "recorder" /\ OnSwitches(A) /\ UNCHANGED <<raVars, scVars, lvVars, wtVars>>
OfControls(A) == part = "controls" /\ OnSwitches(A) /\ UNCHANGED <<raVars, srVars, lvVars, wtVars>>
OfLevels(A)   == part = "levels" /\ OnSwitches(A) /\ UNCHANGED <<raVars, srVars, scVars, wtVars>>
OfToggles(A)  == part = "toggles" /\ OnSwitches(A) /\ UNCHANGED <<raVars, srVars, scVars, lvVars>>
OfCatalog(A)  == part = "catalog" /\ A /\ UNCHANGED <<part, textVars, switchVars, pcVars>>
OfPrograms(A) == part = "programs" /\ A /\ UNCHANGED <<part, textVars, switchVars, acVars>>

CommandsNext ==
  \/ OfParser(Parser!Next) \/ OfTiers(Tiers!Next) \/ OfKeywords(Keywords!Next)
  \/ OfPlanner(Planner!Next) \/ OfBuffer(Buffer!Next) \/ OfRadios(Radio!Next)
  \/ OfRecorder(Recorder!Next) \/ OfControls(Controls!Next) \/ OfCatalog(Catalog!Next)
  \/ OfPrograms(Control!Next) \/ OfLevels(Levels!Next) \/ OfToggles(Toggles!Next)
  \/ OfNumbers(Spoken!Next)

\* The parser and the tiers run on; every scan and the watcher's timer do.
CommandsFairness ==
  /\ WF_commandsVars(OfParser(Parser!Next))
  /\ WF_commandsVars(OfTiers(Tiers!Steps))
  /\ WF_commandsVars(OfCatalog(Catalog!Fire))
  /\ \A s \in Catalog!Scanners : WF_commandsVars(OfCatalog(Catalog!ScanStep(s)))

CommandsSpec == CommandsInit /\ [][CommandsNext]_commandsVars /\ CommandsFairness

\* A negation and a courtesy mean to the parser what they say, over its nested calls, see
\* CommandParser.
NegationIsKept ==
  part = "parser" =>
    Parser!TypeOK /\ Parser!NegatedFilesStay /\ Parser!InvertedOnce /\ Parser!CourtesyIsIdle

\* Whatever tier has understood a text, a question stays one, two close meanings are asked
\* about, what is executed is complete and no guess, and a number is what was said: see
\* Understanding, KeywordScore and SpokenNumber.
UnderstoodSafely ==
  /\ part = "tiers" => /\ Tiers!TypeOK /\ Tiers!ExplainingRunsNothing /\ Tiers!InformationIsAnswered
                       /\ Tiers!TieIsSettled /\ Tiers!ModelRunsSafely /\ Tiers!NothingRunsBare
  /\ part = "keywords" => /\ Keywords!TypeOK /\ Keywords!NamedIsNotSwitched
                          /\ Keywords!OppositesCancel /\ Keywords!ResemblanceIsIdle
  /\ part = "numbers" => /\ Spoken!TypeOK /\ Spoken!SaidIsMeant /\ Spoken!DurationsAgree
                         /\ Spoken!PercentsAgree

\* The steps of a plan end at the first that fails and work on what was really found, see
\* ToolPlan.
PlanStops ==
  part = "planner" =>
    Planner!TypeOK /\ Planner!FailureIsLast /\ Planner!OnlyEarlierResults /\ Planner!ConvertedFirst

\* The pieces spoken are the answer, see SentenceBuffer.
PiecesAreWhole == part = "buffer" => Buffer!TypeOK /\ Buffer!NothingLost

\* What was done to the machine was done once, is what was meant and is known: see
\* SystemControls, ScreenRecorder, Radios, AppCatalog, AppControl, LevelControls and
\* WindowsToggles.
DeedsAreKnown ==
  /\ part = "controls" => Controls!TypeOK /\ Controls!EffectOnce /\ Controls!EffectIsLogged
  /\ part = "recorder" => Recorder!TypeOK /\ Recorder!RecordingIsHeld
  /\ part = "radios"   => Radio!TypeOK
  /\ part = "catalog"  => Catalog!TypeOK /\ Catalog!UnknownIsTrue
  /\ part = "programs" => Control!TypeOK /\ Control!NoTieIsActedOn /\ Control!ShellLives
  /\ part = "levels"   => Levels!TypeOK /\ Levels!NeverBackwards
  /\ part = "toggles"  => Toggles!TypeOK

\* A text is parsed and understood, the catalog follows the machine, an answer is spoken while
\* it comes, and what is said of radios, levels, settings and programs is so: see
\* CommandParser, Understanding, AppCatalog, SentenceBuffer, Radios, LevelControls,
\* WindowsToggles and AppControl.
CommandsComeTrue ==
  /\ part = "parser" => Parser!ParseEnds
  /\ part = "tiers" => Tiers!TextIsUnderstood
  /\ part = "catalog" => Catalog!CatalogFollows
  /\ Buffer!LimitGivesChunk /\ Radio!NoPartialSuccess /\ Radio!RestoresBefore
  /\ Levels!SaidWhenTrue /\ Toggles!VerifiedIsTrue /\ Control!AskedWhileRunning

\* Not so in this code: see CommandParser, Understanding, ToolPlan, SystemControls,
\* ScreenRecorder, Radios, LevelControls and WindowsToggles.
NegationIsMarked == Parser!NegationIsMarked
CancelIsWhole    == Tiers!CancelIsWhole
FoundIsOpened    == Planner!FoundIsOpened
NothingUntold    == Planner!NothingUntold
DeedIsLogged     == Controls!DeedIsLogged
StoppedIsOver    == Recorder!StoppedIsOver
MuteToggles      == Levels!MuteToggles
UpIsNotDown      == Levels!UpIsNotDown
LateWindowStays  == Toggles!LateWindowStays
NeverRaises      == Toggles!NeverRaises
OffIsSeen        == Toggles!OffIsSeen
RestoredIsBefore == Radio!RestoredIsBefore
OffIsOff         == Radio!OffIsOff
=============================================================================
