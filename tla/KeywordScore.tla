---------------------------- MODULE KeywordScore ----------------------------
(***************************************************************************)
(* classify_intent of nlp/intent_classifier.py: the words of a text that    *)
(* match an action or a target of an intent, exactly (100) or nearly (90    *)
(* and more, nlp/fuzzy_matcher.py), give each intent points and a           *)
(* confidence; two intents that come close make the text unknown.  Then     *)
(* what the router does with a setting so found.  Words that belong to the  *)
(* same intents are one word here; confidences are in 1/120000.             *)
(***************************************************************************)
EXTENDS Naturals, FiniteSets

CONSTANTS
  Qualities,    \* how well a word may match, in hundredths: 90 at least
  MaxHeard      \* a bound on the words that match anything

\* INTENTS of nlp/keyword_engine.py, without YouTube, the calculator and Spotify, which have
\* the shape of Chrome.
Actions ==
  [open_chrome |-> {"open", "start"}, open_google |-> {"open"},
   play_music |-> {"play", "start"}, search |-> {"find", "google"},
   volume_up |-> {"raise"}, volume_down |-> {"lower"},
   wifi_on |-> {"turn on", "start"}, wifi_off |-> {"turn off"},
   bluetooth_on |-> {"turn on"}, bluetooth_off |-> {"turn off"}, screenshot |-> {"take"}]
Targets ==
  [open_chrome |-> {"chrome"}, open_google |-> {"google"}, play_music |-> {"music"},
   search |-> {}, volume_up |-> {"sound"}, volume_down |-> {"sound"},
   wifi_on |-> {"wifi"}, wifi_off |-> {"wifi"},
   bluetooth_on |-> {"bluetooth"}, bluetooth_off |-> {"bluetooth"}, screenshot |-> {"screen"}]
Intents  == DOMAIN Actions
Settings == {"volume_up", "volume_down", "wifi_on", "wifi_off", "bluetooth_on", "bluetooth_off"}
Verbs    == UNION {Actions[i] : i \in Intents}
Nouns    == UNION {Targets[i] : i \in Intents}
Opposite == [volume_up |-> "volume_down", volume_down |-> "volume_up",
             wifi_on |-> "wifi_off", wifi_off |-> "wifi_on",
             bluetooth_on |-> "bluetooth_off", bluetooth_off |-> "bluetooth_on"]

VARIABLES
  heard,   \* of each word that matches, how well
  found    \* the intent, "unknown", or "none" before it is looked for

ksVars == <<heard, found>>

Init ==
  /\ \E ws \in SUBSET (Verbs \cup Nouns) : Cardinality(ws) <= MaxHeard /\ heard \in [ws -> Qualities]
  /\ found = "none"

Heard(ws)   == ws \cap DOMAIN heard
Best(ws)    == CHOOSE q \in {heard[w] : w \in Heard(ws)} : \A w \in Heard(ws) : heard[w] <= q
HasVerb(i)  == Heard(Actions[i]) # {}
HasNoun(i)  == Heard(Targets[i]) # {}

\* _evaluate_intent: two points for an action, one for a target; a picture of the screen
\* needs its target.
Points(i) ==
  IF i = "screenshot" /\ ~HasNoun(i) THEN 0
  ELSE (IF HasVerb(i) THEN 2 ELSE 0) + (IF HasNoun(i) THEN 1 ELSE 0)
MostPoints(i) == IF Targets[i] = {} THEN 2 ELSE 3

\* The share of the points, less for words that match badly; a target alone is enough.
Quality2(i) ==
  CASE HasVerb(i) /\ HasNoun(i)  -> Best(Actions[i]) + Best(Targets[i])
    [] HasVerb(i) /\ ~HasNoun(i) -> 2 * Best(Actions[i])
    [] ~HasVerb(i) /\ HasNoun(i) -> 2 * Best(Targets[i])
    [] OTHER -> 0
Shared(i) == (Points(i) * (13000 + 35 * Quality2(i)) * 6) \div MostPoints(i)
Alone(i)  == 36000 + 600 * Best(Targets[i])
Confidence(i) ==
  IF Points(i) = 0 THEN 0
  ELSE IF HasNoun(i) /\ ~HasVerb(i) /\ Alone(i) > Shared(i) THEN Alone(i) ELSE Shared(i)
Hundredths(n) == 1200 * n

Candidates == {i \in Intents : Points(i) > 0}
Above(i, j) == Points(i) > Points(j) \/ (Points(i) = Points(j) /\ Confidence(i) >= Confidence(j))
First(is)   == CHOOSE i \in is : \A j \in is : Above(i, j)

\* The first two of the candidates, by points and then by confidence, must differ.
NearTie(i, j) == Points(i) = Points(j) /\ Confidence(i) < Confidence(j) + Hundredths(8)
Classified ==
  IF Candidates = {} THEN "unknown"
  ELSE LET best == First(Candidates)
           rest == Candidates \ {best} IN
       IF rest # {} /\ NearTie(best, First(rest)) THEN "unknown"
       ELSE IF Confidence(best) < Hundredths(35) THEN "unknown" ELSE best

\* _map_keyword_nlp_intent_to_command: a setting must be surer than a program.
Floor(i) == IF i \in Settings \cup {"screenshot"} THEN Hundredths(65) ELSE Hundredths(45)
Mapped(i) == IF i = "unknown" THEN i ELSE IF Confidence(i) < Floor(i) THEN "unknown" ELSE i

Classify == found = "none" /\ found' = Mapped(Classified) /\ UNCHANGED heard
Next == Classify
Spec == Init /\ [][Next]_ksVars

-----------------------------------------------------------------------------
(* Properties.                                                             *)

TypeOK == found \in Intents \cup {"unknown", "none"}

\* A device that is only named is not switched: its two intents tie
\* (nlp/intent_classifier.py:107).
NamedIsNotSwitched == found \in Settings => HasVerb(found)

\* Two orders in one text, one the opposite of the other and both heard equally well, change
\* nothing (nlp/intent_classifier.py:107).
OppositesCancel ==
  found \in Settings =>
    ~(HasVerb(Opposite[found]) /\ Best(Actions[found]) = Best(Actions[Opposite[found]]))

\* A word that only resembles an action, without anything it could be applied to, changes no
\* setting: "risk" is not "raise" (core/command_router.py:731).
ResemblanceIsIdle ==
  found \in Settings => HasNoun(found) \/ Best(Actions[found]) > 92
=============================================================================
