---------------------------- MODULE SpokenNumber ----------------------------
(***************************************************************************)
(* Numbers said in words and what commands make of them: a count, a          *)
(* percentage, a duration.  The program reads them with three copies of one  *)
(* loop over the words (os_control/system_ops.py, core/command_parser.py,    *)
(* core/command_classifier.py), which differ in the words they know.         *)
(***************************************************************************)
EXTENDS Integers, Sequences, FiniteSetsExt

CONSTANTS
  Numbers   \* the numbers said

Copies == {"system", "parser", "classifier"}
NoNumber == -1

VARIABLES
  said,   \* [number, digits, bare, joined, unit, form]: written in digits; "hundred" for "one
          \* hundred"; "and" after the hundreds; the unit of a duration and where it stands
  words,  \* the words not read yet
  reads   \* of each copy: [total, current, found]
snVars == <<said, words, reads>>

Word(kind, value) == [kind |-> kind, value |-> value]
Hundred  == Word("hundred", 100)
Thousand == Word("thousand", 1000)
And      == Word("and", 0)

\* How a number is said.
Small(n) ==
  IF n < 20 THEN <<Word("one", n)>>
  ELSE <<Word("ten", 10 * (n \div 10))>> \o IF n % 10 = 0 THEN <<>> ELSE <<Word("one", n % 10)>>

UpToThousand(n, bare, joined) ==
  IF n < 100 THEN Small(n)
  ELSE (IF bare /\ n \div 100 = 1 THEN <<>> ELSE Small(n \div 100)) \o <<Hundred>>
       \o IF n % 100 = 0 THEN <<>> ELSE (IF joined THEN <<And>> ELSE <<>>) \o Small(n % 100)

Phrase(s) ==
  IF s.digits THEN <<>>
  ELSE IF s.number < 1000 THEN UpToThousand(s.number, s.bare, s.joined)
  ELSE UpToThousand(s.number \div 1000, FALSE, s.joined) \o <<Thousand>>
       \o IF s.number % 1000 = 0 THEN <<>> ELSE UpToThousand(s.number % 1000, FALSE, s.joined)

Init ==
  /\ said \in [number : Numbers, digits : BOOLEAN, bare : BOOLEAN, joined : BOOLEAN,
               unit : {1, 60, 3600}, form : {"unit", "plain"}]
  /\ words = Phrase(said)
  /\ reads = [c \in Copies |-> [total |-> 0, current |-> 0, found |-> FALSE]]

\* What one word does to the sum, in every copy.
Reads(w, r) ==
  CASE w.kind \in {"one", "ten"} -> [r EXCEPT !.current = @ + w.value, !.found = TRUE]
    [] w.kind = "hundred" -> [r EXCEPT !.current = Max({1, @}) * 100, !.found = TRUE]
    [] OTHER -> r

SystemReads(w, r) ==
  IF w.kind = "thousand"
  THEN [total |-> r.total + Max({1, r.current}) * 1000, current |-> 0, found |-> TRUE]
  ELSE Reads(w, r)

ParserReads(w, r) == Reads(w, r)
ClassifierReads(w, r) == Reads(w, r)

Hear ==
  /\ words # <<>> /\ words' = Tail(words)
  /\ reads' = [system     |-> SystemReads(Head(words), reads.system),
               parser     |-> ParserReads(Head(words), reads.parser),
               classifier |-> ClassifierReads(Head(words), reads.classifier)]
  /\ UNCHANGED said

Next == Hear

Spec == Init /\ [][Next]_snVars

-----------------------------------------------------------------------------
Heard == words = <<>>

\* Of a number in digits the first four are taken.
FirstDigits(n) == IF n < 10000 THEN n ELSE IF n < 100000 THEN n \div 10 ELSE n \div 100

\* _parse_spoken_int.
Number(c) ==
  IF said.digits THEN FirstDigits(said.number)
  ELSE IF reads[c].found THEN reads[c].total + reads[c].current ELSE NoNumber

\* _parse_percent_value and _coerce_percent_int.
SystemPercent     == Max({0, Min({100, Number("system")})})
ClassifierPercent == Max({0, Min({100, Number("classifier")})})

\* _parse_duration_seconds in two of the copies.
SystemSeconds     == Max({1, Min({3600, Number("system") * said.unit})})
ClassifierSeconds == Max({1, Min({3600, Number("classifier") * said.unit})})

\* _duration_to_seconds and parse_duration_from_text: a number alone is taken as it is.
DurationToSeconds == Max({1, Min({86400, Number("parser") * said.unit})})
ParserSeconds == IF said.form = "unit" THEN DurationToSeconds ELSE Number("parser")

\* A number means to each copy what was said: in words below a thousand for all of them and
\* any for the one that knows the word, in digits if there are at most four.
Common == said.number < IF said.digits THEN 10000 ELSE 1000

SaidIsMeant ==
  Heard => /\ ~said.digits \/ said.number < 10000 => Number("system") = said.number
           /\ Common => Number("parser") = said.number /\ Number("classifier") = said.number

\* One sentence means the same duration to the parser, the classifier and the command that
\* executes it, if the shortest of their limits allows it.
DurationsAgree ==
  Heard /\ Common /\ said.form = "unit" /\ ParserSeconds < 3600
    => ParserSeconds = SystemSeconds /\ ParserSeconds = ClassifierSeconds

\* A level read from a sentence is a percentage, and the two readers agree on it.
PercentsAgree ==
  Heard => /\ SystemPercent \in 0 .. 100
           /\ Common => SystemPercent = ClassifierPercent

\* The sums are numbers and the words left are words.
TypeOK ==
  /\ \A c \in Copies : reads[c].total \in Nat /\ reads[c].current \in Nat
  /\ \A i \in DOMAIN words : words[i].kind \in {"one", "ten", "hundred", "thousand", "and"}
=============================================================================
