--------------------------- MODULE CommandParser ---------------------------
(***************************************************************************)
(* The rule-based parser, parse_command (core/command_parser.py): a text is *)
(* put through a cascade of matchers and the first that recognises it gives *)
(* the command.  Two kinds of leading words are handled before the cascade: *)
(* courtesies ("please", "hey Jarvis", "can you"), which are stripped and   *)
(* the rest parsed by a nested call, and a negation ("don't"), which is     *)
(* stripped from one of the two copies of the text the matchers read.       *)
(*                                                                          *)
(* A text is its leading words and a body; a body is known by the matchers  *)
(* that recognise it and the command each of them makes of it.  What the    *)
(* patterns say letter by letter, and the arguments they cut out of the     *)
(* text, are left out.  A matcher reads either the "raw" text, where the    *)
(* negation still stands, or the "stripped" one; most patterns start at the *)
(* first word, and some (skips) find their words behind others.             *)
(***************************************************************************)
EXTENDS Naturals, Sequences

CONSTANTS
  Bodies,    \* the bodies said: functions from places in Cascade to rows of it
  Leads,     \* the leading words said
  MaxCalls   \* a bound on the nested calls

VARIABLES
  said,      \* the text given to the outermost call
  lead,      \* the leading words of the text of the current call
  callers,   \* the leading words of the calls that wait for it, outermost first
  at,        \* where the current call is: "guards", "match" or "done"
  answer     \* the ParsedCommand last made

vars == <<said, lead, callers, at, answer>>

Polite == "polite"
Not    == "not"

Rows(reads, skips, commands) == [reads : {reads}, skips : {skips}, command : commands]
Anchored == {}
Anywhere == {Polite, Not}

Of(intent, actions) == {intent} \X actions
System(keys)        == Of("OS_SYSTEM_COMMAND", keys)
LlmQuery            == <<"LLM_QUERY", "">>
Describe            == <<"OS_SCREEN_DESCRIBE", "">>

-----------------------------------------------------------------------------
(* The matchers, each with all the commands it can make.                    *)

NotificationPhrases == System({"notifications_on", "notifications_off"})
SoundPhrases  == System({"list_processes", "rescan_apps", "volume_up", "volume_down", "volume_mute", "volume_unmute"})
RadioPhrases  == System({"wifi_on", "wifi_off", "bluetooth_on", "bluetooth_off"})
ScreenPhrases ==
  System({"window_maximize", "window_minimize", "browser_new_tab", "browser_close_tab",
          "screen_record_start", "screen_record_stop"})
  \cup Of("OS_CLIPBOARD", {"read", "clear"})

PriorityStructuralTable ==
  Rows("stripped", Anchored, NotificationPhrases \cup SoundPhrases \cup RadioPhrases \cup ScreenPhrases)

LevelPatterns     == Rows("stripped", Anchored, System({"volume_set", "brightness_set"}))
FirstFilePatterns ==
  Rows("raw", Anchored,
       Of("BATCH_COMMAND", {"add"}) \cup Of("SEARCH_INDEX_COMMAND", {"search"})
       \cup Of("OS_FILE_NAVIGATION_BATCH", {"delete_multiple"})
       \cup Of("OS_FILE_SEARCH_ADVANCED", {"search"})
       \cup Of("OS_FILE_NAVIGATION", {"open_file", "open_in_explorer"}))
PreferencePatterns ==
  Rows("raw", Anchored, Of("MEMORY_COMMAND", {"set_preference", "forget_preference"}))
  \cup Rows("stripped", Anchored, Of("MEMORY_COMMAND", {"show_preferences"}))

PriorityRegexTable == LevelPatterns \cup FirstFilePatterns \cup PreferencePatterns

NoteCommand == Rows("stripped", Anchored, Of("OS_NOTE", {"create"}))

CommandChaining == Rows("raw", Anywhere, Of("COMMAND_CHAIN", {"parse_and_execute"}))

VoiceWords ==
  Of("VOICE_COMMAND", {"audio_ux_profile_set", "audio_ux_profiles", "audio_ux_status", "diagnostic",
                       "interrupt", "latency_status", "speech_on", "speech_off", "status",
                       "stt_backend_hybrid", "stt_backend_local", "voice_quality_set",
                       "voice_quality_status", "wake_status"})
  \cup Of("PERSONA_COMMAND", {"list", "set", "status"}) \cup Of("OBSERVABILITY_REPORT", {""})
ServiceWords ==
  Of("KNOWLEDGE_BASE_COMMAND", {"autosync_on", "autosync_off", "autosync_status", "clear",
                                "quality", "retrieval_on", "retrieval_off", "status"})
  \cup Of("MEMORY_COMMAND", {"clear", "on", "off", "set_language", "show", "status"})
  \cup Of("DEMO_MODE", {"on", "off", "status"}) \cup Of("POLICY_COMMAND", {"set_dry_run", "status"})
  \cup Of("BATCH_COMMAND", {"plan", "preview", "status", "commit", "abort"})
  \cup Of("SEARCH_INDEX_COMMAND", {"start", "status"})
  \cup Of("JOB_QUEUE_COMMAND", {"worker_start", "worker_stop", "worker_status"})
  \cup ({"AUDIT_RESEAL", "AUDIT_VERIFY", "METRICS_REPORT"} \X {""})
ClockWords ==
  Of("OS_TIMER", {"cancel", "list"}) \cup Of("OS_CLIPBOARD", {"read", "clear"})
OfficeWords ==
  Of("OS_SYSINFO", {"battery", "system"}) \cup Of("OS_EMAIL", {"draft"}) \cup Of("OS_SETTINGS", {"open"})
UndoWords ==
  Of("OS_ROLLBACK", {""}) \cup Of("OS_FILE_NAVIGATION", {"list_drives", "open_in_explorer", "pwd"})
  \cup Of("OS_REMINDER", {"cancel", "list"})

KeywordTable == Rows("stripped", Anchored, VoiceWords \cup ServiceWords \cup ClockWords \cup OfficeWords \cup UndoWords)

CodeswitchedOpenClose ==
  System({"bluetooth_on", "bluetooth_off", "wifi_on", "wifi_off", "browser_new_tab",
          "browser_close_tab", "browser_close_named_tab", "media_play_pause"})
  \cup Of("OS_APP_OPEN", {""}) \cup Of("OS_APP_CLOSE", {""})
  \cup Of("OS_FILE_NAVIGATION", {"list_directory"})
CodeswitchedSearch == {LlmQuery} \cup Of("OS_FILE_SEARCH", {""}) \cup System({"browser_search_web"})
CodeswitchedLevels ==
  System({"media_stop", "volume_up", "volume_down", "volume_set", "brightness_up",
          "brightness_down", "brightness_set"})

\* The verb may stand anywhere in the first four words.
CodeswitchedCommand ==
  Rows("raw", Anywhere, CodeswitchedOpenClose \cup CodeswitchedSearch \cup CodeswitchedLevels)

VoicePatterns ==
  Rows("raw", Anchored,
       System({"browser_close_named_tab"})
       \cup Of("VOICE_COMMAND", {"stt_backend_hybrid", "stt_backend_local", "voice_quality_set",
                                 "audio_ux_profile_set", "latency_status"}))
  \cup Rows("stripped", Anchored, Of("PERSONA_COMMAND", {"set"}))
TuningPatterns ==
  Rows("raw", Anchored,
       Of("VOICE_COMMAND", {"audio_ux_mic_threshold_set", "audio_ux_wake_threshold_set",
                            "audio_ux_wake_gain_set", "audio_ux_pause_scale_set",
                            "audio_ux_rate_offset_set", "wake_triggers_add",
                            "wake_triggers_remove", "wake_mode_set"})
       \cup Of("MEMORY_COMMAND", {"set_language"})
       \cup Of("KNOWLEDGE_BASE_COMMAND", {"add_file", "index_dir", "search", "sync_dir"}))
  \cup Rows("stripped", Anchored, Of("KNOWLEDGE_BASE_COMMAND", {"autosync_toggle"}))
PowerPatterns ==
  Rows("stripped", Anchored,
       System({"lock", "sleep", "brightness_set", "brightness_up", "brightness_down",
               "bluetooth_on", "bluetooth_off"}))
ArabicPatterns ==
  Rows("stripped", Anchored,
       System({"volume_down", "volume_up", "screenshot", "brightness_up", "brightness_down", "lock",
               "sleep", "shutdown", "restart", "media_stop", "media_play_pause", "wifi_on", "wifi_off"}))
TogglePatterns ==
  Rows("stripped", Anchored,
       System({"bluetooth_on", "bluetooth_off", "notifications_on", "notifications_off", "volume_up",
               "media_next_track", "media_previous_track"})
       \cup Of("AUDIT_LOG_REPORT", {""}))
AdminPatterns ==
  Rows("stripped", Anchored,
       Of("POLICY_COMMAND", {"set_dry_run", "set_permission", "set_profile", "set_read_only"})
       \cup Of("JOB_QUEUE_COMMAND", {"cancel", "list", "retry", "status"}))
  \cup
  Rows("raw", Anchored,
       Of("BATCH_COMMAND", {"add"}) \cup Of("SEARCH_INDEX_COMMAND", {"refresh", "search"})
       \cup Of("JOB_QUEUE_COMMAND", {"enqueue"}))
FilePatterns ==
  Rows("raw", Anchored,
       Of("OS_FILE_SEARCH", {""})
       \cup Of("OS_FILE_NAVIGATION",
               {"reveal_in_explorer", "open_file", "open_in_explorer", "list_directory", "file_info",
                "create_directory", "delete_item", "delete_item_permanent", "move_item",
                "rename_item", "rename_item_followup"}))
ExplorerPatterns ==
  Rows("raw", Anchored,
       Of("OS_FILE_NAVIGATION",
          {"move_item_followup", "copy_item", "reveal_in_explorer", "open_in_explorer"}))
TimerPatterns    == Rows("raw", Anchored, Of("OS_TIMER", {"cancel", "set", "set_alarm"}))
ReminderPatterns == Rows("raw", Anchored, Of("OS_REMINDER", {"create"}))
OfficePatterns   ==
  Rows("raw", Anchored,
       Of("OS_CLIPBOARD", {"write"}) \cup Of("OS_EMAIL", {"draft"}) \cup Of("OS_CALENDAR", {"create"}))
OpenPatterns     ==
  Rows("raw", Anchored, Of("OS_SETTINGS", {"open"}) \cup Of("OS_APP_OPEN", {""}) \cup Of("OS_APP_CLOSE", {""}))

RegexTable ==
  UNION {VoicePatterns, TuningPatterns, PowerPatterns, ArabicPatterns, TogglePatterns, AdminPatterns,
         FilePatterns, ExplorerPatterns, TimerPatterns, ReminderPatterns, OfficePatterns, OpenPatterns}

NaturalSchedule     == Rows("raw", Anchored, Of("JOB_QUEUE_COMMAND", {"enqueue"}))
NaturalFileSearch   == Rows("raw", Anchored, Of("OS_FILE_SEARCH", {""}))
MediaOpen           == Rows("raw", Anchored, Of("OS_APP_OPEN", {""}))
NaturalMediaControl ==
  Rows("raw", Anchored, System({"media_stop", "media_play_pause"}))
  \cup Rows("raw", Anywhere, System({"media_seek_forward", "media_seek_backward"}))
NaturalBrowser      ==
  Rows("raw", Anywhere, System({"browser_search_web"})) \cup Rows("raw", Anchored, System({"browser_open_url"}))
NaturalWindow       == Rows("raw", Anchored, System({"focus_window"}))
NaturalAppOpen      == Rows("stripped", Anchored, Of("OS_APP_OPEN", {""}))
CatalogRefresh      == Rows("stripped", Anchored, System({"rescan_apps"}))
DriveOpen           == Rows("stripped", Anywhere, Of("OS_FILE_NAVIGATION", {"list_directory"}))

\* normalize_system_action removes "please" before it looks the words up.
SystemActions ==
  {"shutdown", "restart", "sleep", "lock", "logoff", "empty_recycle_bin", "screenshot", "volume_up",
   "volume_down", "volume_mute", "brightness_up", "brightness_down", "wifi_on", "wifi_off",
   "notifications_on", "notifications_off", "airplane_on", "airplane_off", "window_close_active"}
OpenCommand ==
  Rows("stripped", {Polite}, System(SystemActions))
  \cup Rows("stripped", Anchored, Of("OS_FILE_NAVIGATION", {"list_directory"}) \cup Of("OS_APP_OPEN", {""}))
\* Deviation: the matcher of file operations reads the text without its negation.
FileOperationStripped ==
  Rows("stripped", Anchored, Of("OS_FILE_NAVIGATION", {"create_directory", "delete_item"}))

NaturalFileOperation ==
  Rows("raw", Anchored, Of("OS_FILE_NAVIGATION", {"create_directory", "move_item", "rename_item",
                                                  "delete_item", "delete_item_permanent"}))
BatchFileOperations == Rows("raw", Anchored, Of("OS_FILE_NAVIGATION_BATCH", {"delete_multiple"}))
SystemAction        == Rows("stripped", {Polite}, System(SystemActions))
CloseCommand        == Rows("stripped", Anchored, Of("OS_APP_CLOSE", {""}))
CdCommands          == Rows("stripped", Anchored, Of("OS_FILE_NAVIGATION", {"cd"}))
ScreenDescribe      == Rows("stripped", Anywhere, {Describe})
IdentityQuestion    == Rows("stripped", Anywhere, Of("IDENTITY", {""}))

Cascade ==
  <<PriorityStructuralTable, PriorityRegexTable, NoteCommand, CommandChaining, KeywordTable,
    CodeswitchedCommand, RegexTable, NaturalSchedule, NaturalFileSearch, MediaOpen,
    NaturalMediaControl, NaturalBrowser, NaturalWindow, NaturalAppOpen, CatalogRefresh, DriveOpen,
    OpenCommand, NaturalFileOperation, BatchFileOperations, SystemAction, CloseCommand, CdCommands,
    ScreenDescribe, IdentityQuestion>>

WindowPlace == 13
ScreenPlace == 23
Places == 1 .. Len(Cascade)

-----------------------------------------------------------------------------
(* One call.                                                                *)

\* _detect_and_strip_negation: one leading negation.
Negated(words)  == words # <<>> /\ Head(words) = Not
Stripped(words) == IF Negated(words) THEN Tail(words) ELSE words

\* The leading words a matcher finds before the body.
Reading(reads) == IF reads = "raw" THEN lead ELSE Stripped(lead)
SkipsAll(row)  == \A k \in DOMAIN Reading(row.reads) : Reading(row.reads)[k] \in row.skips

Recognisers(body) == {i \in DOMAIN body : SkipsAll(body[i])}
First(S)          == CHOOSE i \in S : \A j \in S : i <= j

\* _apply_negation_to_parsed.
Opposite ==
  [c \in {<<"OS_APP_OPEN", "">>} \cup System({"wifi_on", "bluetooth_on", "notifications_on",
             "notifications_off", "media_play", "volume_up", "volume_down", "volume_mute",
             "volume_unmute", "brightness_up"}) |->
     IF c = <<"OS_APP_OPEN", "">> THEN <<"OS_APP_CLOSE", "">>
     ELSE <<c[1], CASE c[2] = "wifi_on" -> "wifi_off"
                    [] c[2] = "bluetooth_on" -> "bluetooth_off"
                    [] c[2] = "notifications_on" -> "notifications_off"
                    [] c[2] = "notifications_off" -> "notifications_on"
                    [] c[2] = "media_play" -> "media_stop"
                    [] c[2] = "volume_up" -> "volume_down"
                    [] c[2] = "volume_down" -> "volume_up"
                    [] c[2] = "volume_mute" -> "volume_unmute"
                    [] c[2] = "volume_unmute" -> "volume_mute"
                    [] c[2] = "brightness_up" -> "brightness_down">>]
Inverted(c) == IF c \in DOMAIN Opposite THEN Opposite[c] ELSE c

Parsed(c, negated) == [command |-> c, negated |-> negated]

Finalized(c)       == Parsed(IF Negated(lead) THEN Inverted(c) ELSE c, Negated(lead))

Init ==
  /\ said \in [lead : Leads, body : Bodies, question : BOOLEAN]
  /\ lead = said.lead /\ callers = <<>> /\ at = "guards" /\ answer = Parsed(LlmQuery, FALSE)

\* Two shapes of text are settled before anything is stripped: a request to describe the
\* screen and a question that must stay with the language model.
Guarded ==
  /\ at = "guards"
  /\ \/ ScreenPlace \in DOMAIN said.body /\ answer' = Parsed(Describe, FALSE)
     \/ ScreenPlace \notin DOMAIN said.body /\ said.question /\ answer' = Parsed(LlmQuery, FALSE)
  /\ at' = "done" /\ UNCHANGED <<said, lead, callers>>

Unguarded == at = "guards" /\ ScreenPlace \notin DOMAIN said.body /\ ~said.question

\* _strip_spoken_prefixes: the courtesies at the front; their order decides how many go.
Run(words) == {n \in 1 .. Len(words) : \A k \in 1 .. n : words[k] = Polite}
Drop(words, n) == SubSeq(words, n + 1, Len(words))

Reparse ==
  /\ Unguarded /\ Len(callers) < MaxCalls
  /\ \E n \in Run(lead) : lead' = Drop(lead, n)
  /\ callers' = Append(callers, lead)
  /\ UNCHANGED <<said, at, answer>>

NothingToStrip ==
  /\ Unguarded /\ Run(lead) = {}
  /\ at' = "match" /\ UNCHANGED <<said, lead, callers, answer>>

\* The cascade; the matcher of windows returns its command as it is.
Match ==
  /\ at = "match"
  /\ LET R == Recognisers(said.body) IN
     answer' = IF R = {} THEN Finalized(LlmQuery)
               ELSE LET i == First(R) IN
                    IF i = WindowPlace THEN Parsed(said.body[i].command, FALSE)
                    ELSE Finalized(said.body[i].command)
  /\ at' = "done" /\ UNCHANGED <<said, lead, callers>>

\* The caller takes the command of a nested call that found one, but makes its own
\* ParsedCommand of it; after a nested LLM_QUERY it goes on by itself.
Return ==
  /\ at = "done" /\ callers # <<>>
  /\ lead' = callers[Len(callers)]
  /\ callers' = SubSeq(callers, 1, Len(callers) - 1)
  /\ IF answer.command # LlmQuery
     THEN answer' = Parsed(answer.command, FALSE) /\ at' = "done"
     ELSE at' = "match" /\ UNCHANGED answer
  /\ UNCHANGED said

Next == Guarded \/ Reparse \/ NothingToStrip \/ Match \/ Return

Spec == Init /\ [][Next]_vars /\ WF_vars(Next)

-----------------------------------------------------------------------------
Finished == at = "done" /\ callers = <<>>

SaysNot == \E k \in DOMAIN said.lead : said.lead[k] = Not
\* What the body means alone.
Meant == IF DOMAIN said.body = {} THEN LlmQuery ELSE said.body[First(DOMAIN said.body)].command

FileChanges ==
  Of("OS_FILE_NAVIGATION", {"create_directory", "copy_item", "move_item", "rename_item", "delete_item",
                            "delete_item_permanent", "move_item_followup", "rename_item_followup"})
  \cup Of("OS_FILE_NAVIGATION_BATCH", {"delete_multiple"})

\* The texts, the calls and the answer have their types.
TypeOK ==
  /\ DOMAIN said.body \subseteq Places
  /\ lead \in Seq({Polite, Not}) /\ Len(callers) \in 0 .. MaxCalls
  /\ at \in {"guards", "match", "done"}
  /\ answer.negated \in BOOLEAN

\* A sentence that opens with "don't" never becomes a command that changes a file, however
\* courteous it is (every matcher of such commands reads the text where the negation stands).
NegatedFilesStay == Finished /\ SaysNot => answer.command \notin FileChanges

\* A text with a "don't" among its leading words that becomes a command at all becomes what a
\* matcher makes of the body, inverted once: the calls nested for the courtesies neither forget
\* the negation nor invert twice.
InvertedOnce ==
  Finished /\ SaysNot /\ ~said.question /\ answer.command # LlmQuery
  => answer.command \in {Inverted(said.body[i].command) : i \in DOMAIN said.body}

\* Courtesies change nothing: with them a text is the command it is without.
CourtesyIsIdle ==
  Finished /\ ~SaysNot /\ ~said.question => answer = Parsed(Meant, FALSE)

\* Every text is parsed: the nested calls end.
ParseEnds == <>Finished

\* Not so in this code, see README section 4.
\* A text with a negation that reaches the matchers gives a command that says so ("we will
\* mark the final ParsedCommand.negated flag if a negation was present").
NegationIsMarked ==
  Finished /\ SaysNot /\ ~said.question /\ ScreenPlace \notin DOMAIN said.body
  /\ answer.command # LlmQuery => answer.negated
=============================================================================
