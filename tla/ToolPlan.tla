------------------------------ MODULE ToolPlan ------------------------------
(***************************************************************************)
(* What the language model's tool calls do: the commands they stand for     *)
(* (llm/tool_caller.py), a single one dispatched by the router, several     *)
(* executed by the planner (core/action_planner.py), which puts the result  *)
(* of an earlier step where a later one names it.                           *)
(***************************************************************************)
EXTENDS Naturals, Sequences

CONSTANT Plans    \* sequences of calls, none empty, see Call

Tools  == {"search_files", "open_folder", "open_app", "adjust_volume", "screenshot", "unheard_of"}
Known  == Tools \ {"unheard_of"}
\* What the argument says: a value of the model's own, nothing, {result_N} with a number, with a
\* negative one or with none; numbers count from 1 here, negative ones from the end.
Says   == {"own", "empty", "result", "negative", "no number"}
Call   == {c \in [tool : Tools, says : Says, to : Nat] : c.says \in {"result", "negative"} => c.to > 0}

\* What an argument can become: what the model wrote, the path of something found, a printed
\* dictionary, the reference itself.
Values == {"own", "empty", "path", "printed", "reference"}

VARIABLES
  plan,      \* the calls
  results,   \* of each step so far: [tool, ok, path], path if its data hold one
  used,      \* of each step so far, the value it was executed with, or "not executed"
  outcome    \* "running", "done", "failed" or "raised"

tpVars == <<plan, results, used, outcome>>

\* call_tool_tier drops calls without a name; the router goes on only if one of them is known.
Usable(p) == \E i \in DOMAIN p : p[i].tool \in Known

Init == plan \in {p \in Plans : Usable(p)} /\ results = <<>> /\ used = <<>> /\ outcome = "running"

Current == plan[Len(results) + 1]

\* adjust_volume converts its argument before anything is tried: the router converts all the
\* calls to see whether one is known, and a reference of any kind is no number.
Converts(p) == \A i \in DOMAIN p : p[i].tool = "adjust_volume" => p[i].says \in {"own", "empty"}

\* Deviation: for a step that is yet to come the last result is taken.
ResolvedClamped(to) ==
  IF results = <<>> THEN "reference"
  ELSE IF results[IF to <= Len(results) THEN to ELSE Len(results)].path THEN "path" ELSE "printed"

\* _resolve_references: the data's path, or the data printed; a step that failed or is yet to
\* come leaves the reference.
Resolved(to) ==
  IF to <= Len(results) /\ results[to].ok
  THEN IF results[to].path THEN "path" ELSE "printed"
  ELSE "reference"

\* The step that the argument of step i names: -1 is the one before it, -2 the one before that;
\* there is none before the first.
NamedBy(call, i) == IF call.says = "negative" THEN i - call.to ELSE call.to
ValueOf(call) ==
  CASE call.says \in {"own", "empty"} -> call.says
    [] call.says = "no number"        -> "reference"
    [] OTHER                          -> Resolved(NamedBy(call, Len(results) + 1))
RaisesBefore == Current.says = "negative" /\ Current.to > Len(results)

\* Whether the command can succeed and whether its data can hold a path.  A search that finds
\* nothing succeeds; a picture of the screen has a path if it was taken by the fallback.
Outcomes(tool, value) ==
  CASE tool = "unheard_of"   -> {[ok |-> FALSE, path |-> FALSE]}
    [] tool = "search_files" -> {[ok |-> value # "empty", path |-> FALSE]}
    [] tool = "open_folder"  -> {[ok |-> TRUE, path |-> FALSE]}
    [] tool = "screenshot"   -> {[ok |-> o, path |-> p] : o, p \in BOOLEAN} \ {[ok |-> FALSE, path |-> TRUE]}
    [] OTHER                 -> {[ok |-> o, path |-> FALSE] : o \in BOOLEAN}

Ends(end) == outcome' = end

\* One step; the first that fails ends the plan.  A single call has no references.
Stops(ok) == ~ok
Step ==
  /\ outcome = "running" /\ Converts(plan) /\ Len(results) < Len(plan)
  /\ ~(Len(plan) > 1 /\ RaisesBefore)
  /\ LET call  == Current
         value == IF Len(plan) > 1 THEN ValueOf(call)
                  ELSE IF call.says \in {"own", "empty"} THEN call.says ELSE "reference" IN
       \E o \in Outcomes(call.tool, value) :
         /\ results' = Append(results, [tool |-> call.tool, ok |-> o.ok, path |-> o.path])
         /\ used' = Append(used, IF call.tool = "unheard_of" THEN "not executed" ELSE value)
         /\ IF Stops(o.ok) THEN Ends("failed")
            ELSE IF Len(results') = Len(plan) THEN Ends("done") ELSE Ends("running")
  /\ UNCHANGED plan

\* The conversion and the resolution are outside every try: the whole turn ends with an error.
Raise ==
  /\ outcome = "running"
  /\ ~Converts(plan) \/ (Len(plan) > 1 /\ Len(results) < Len(plan) /\ RaisesBefore)
  /\ Ends("raised") /\ UNCHANGED <<plan, results, used>>

Next == Step \/ Raise
Spec == Init /\ [][Next]_tpVars /\ WF_tpVars(Next)

\* _build_success_response and _build_partial_response
ToldDone   == {i \in DOMAIN results : results[i].ok}
ToldFailed == {i \in DOMAIN results : ~results[i].ok}

-----------------------------------------------------------------------------
(* Properties.                                                             *)

TypeOK ==
  /\ \A i \in DOMAIN plan : plan[i] \in Call
  /\ Len(results) <= Len(plan) /\ Len(used) = Len(results)
  /\ \A i \in DOMAIN used : used[i] \in Values \cup {"not executed"}
  /\ outcome \in {"running", "done", "failed", "raised"}

\* Nothing is executed after a step that failed, and the answer names that step and all that
\* was done before it (core/action_planner.py:98).
FailureIsLast ==
  /\ \A i \in DOMAIN results : ~results[i].ok => i = Len(results) /\ outcome = "failed"
  /\ outcome = "done" => ToldDone = DOMAIN plan
  /\ outcome = "failed" => ToldFailed = {Len(results)}

\* What a step is given comes from the very step its argument names, which must have been
\* done before and have succeeded (core/action_planner.py:140).
OnlyEarlierResults ==
  \A i \in DOMAIN used :
    used[i] \in {"path", "printed"}
      => /\ plan[i].says \in {"result", "negative"} /\ NamedBy(plan[i], i) \in 1 .. i - 1
         /\ results[NamedBy(plan[i], i)].ok
         /\ used[i] = "path" <=> results[NamedBy(plan[i], i)].path

\* No step has been executed when the calls cannot be converted; a turn that ends with an error
\* after a step had none that failed and came to a number before the first
\* (core/command_router.py:5171, core/action_planner.py:75).
ConvertedFirst ==
  /\ ~Converts(plan) => results = <<>>
  /\ outcome = "raised" /\ results # <<>>
       => /\ Len(results) < Len(plan) /\ RaisesBefore /\ ToldFailed = {}

\* Not so in this code, see README section 4.
\* Who hears of an error has nothing left to be told: the number of the second argument is
\* looked up outside the try, after the first step was done (core/action_planner.py:144).
NothingUntold == outcome = "raised" => results = <<>>

\* The folder that is opened for a found file is that of the file.  The search puts no path
\* into its data, so the folder is named by a printed dictionary (core/action_planner.py:136).
FoundIsOpened ==
  Len(used) = 2 /\ plan[1].tool = "search_files"
    /\ plan[2] = [tool |-> "open_folder", says |-> "result", to |-> 1]
  => used[2] = "path"
=============================================================================
