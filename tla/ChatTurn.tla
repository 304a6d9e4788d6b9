------------------------------- MODULE ChatTurn -------------------------------
(***************************************************************************)
(* A conversation with the copilot, turn by turn: stream_generator finds   *)
(* the turbine, orchestrate_chat streams the model's answer through the    *)
(* think filter, runs the tools the model called and asks it again for a   *)
(* summary of their results.  The generator runs on the event loop, from   *)
(* one chunk to the next without a pause: turns share nothing under way    *)
(* but the models of the anomaly service.                                  *)
(***************************************************************************)
EXTENDS ThinkFilter, FiniteSets

CONSTANTS MaxText,      \* bound: the characters of one answer of the model
          MaxCalls,     \* bound: the tool calls the model makes
          Components    \* the subsystems with scored sensors

MAX_TOOL_CALLS_PER_TURN == 3

ASSUME ChatAssumption == MaxText \in Nat /\ MaxCalls \in Nat

VARIABLES phase,    \* where stream_generator is
          text,     \* what the model has written in the current answer, tags and all
          filter,   \* the think filter of the answer
          emitted,  \* visible_emitted or synthesis_visible
          calls,    \* tool_calls_acc: the arguments of each call, as far as received
          results,  \* what the executed calls returned
          said,     \* the kinds of chunks the user was sent in this turn
          cache,    \* _MODEL_CACHE: the components whose model is younger than 6 hours
          trained   \* the models trained since the last one of the component expired

vars == <<phase, text, filter, emitted, calls, results, said, cache, trained>>
stream == <<text, filter, emitted, calls>>
models == <<cache, trained>>

Init ==
  /\ phase = "idle"
  /\ text = <<>> /\ filter = NewFilter /\ emitted = FALSE /\ calls = <<>>
  /\ results = <<>> /\ said = {}
  /\ cache = {} /\ trained = [s \in Components |-> 0]

NewText == text' = <<>> /\ filter' = NewFilter /\ emitted' = FALSE
NewAnswer == NewText /\ calls' = <<>>

Ask ==
  /\ phase \in {"idle", "done", "gone"}
  /\ phase' = "resolve" /\ said' = {}
  /\ UNCHANGED <<stream, results, models>>

\* resolve_turbine_device; a list of devices that could not be fetched is an empty one.
Resolve ==
  /\ phase = "resolve"
  /\ \/ phase' = "answer" /\ UNCHANGED said
     \/ phase' = "done" /\ said' = {"not_found"}
  /\ UNCHANGED <<stream, results, models>>

(***************************************************************************)
(* stream_chat_completion and the loops of orchestrate_chat over it        *)
(***************************************************************************)
Streaming == phase \in {"answer", "summary"}

Sent(f, g) == IF Len(g.shown) > Len(f.shown) THEN {phase} ELSE {}

\* Whether to note that something visible was emitted: when the filter let some through.
\* Defect: when the model has written something.
MutEmits(f, chunk) == chunk # <<>>

Emits(f, chunk) == Len(feed(f, chunk).shown) > Len(f.shown)

Content(chunk) ==
  /\ Streaming /\ Len(text) + Len(chunk) <= MaxText
  /\ text' = text \o chunk
  /\ filter' = feed(filter, chunk)
  /\ emitted' = (emitted \/ Emits(filter, chunk))
  /\ said' = said \cup Sent(filter, feed(filter, chunk))
  /\ UNCHANGED <<phase, calls, results, models>>

\* A fragment of a tool call: the first one of its index, whose arguments count as {}
\* if no others follow, or more of its arguments, up to their end or not.
Fragment(i) ==
  /\ phase = "answer"
  /\ \/ i = Len(calls) + 1 /\ i <= MaxCalls /\ calls' = Append(calls, "whole")
     \/ /\ i \in DOMAIN calls
        /\ \E args \in {"part", "whole"} : calls' = [calls EXCEPT ![i] = args]
  /\ UNCHANGED <<phase, text, filter, emitted, results, said, models>>

Flushed == Sent(filter, flush(filter))
Visible == emitted \/ Flushed # {}

\* The end of the first answer, by the model's will or by the token budget; either can
\* leave the arguments of a call incomplete.
AnswerEnds(finish_reason) ==
  /\ phase = "answer"
  /\ phase' = IF calls # <<>> THEN "tools" ELSE "done"
  /\ said' = said \cup Flushed \cup
               (IF calls # <<>> \/ Visible THEN {}
                ELSE IF finish_reason = "length" THEN {"narrower"} ELSE {"rephrase"})
  /\ NewText
  /\ UNCHANGED <<calls, results, models>>

SummaryEnds ==
  /\ phase = "summary"
  /\ said' = said \cup Flushed \cup (IF Visible THEN {} ELSE {"synthesis_error"})
  /\ phase' = "done"
  /\ NewAnswer
  /\ UNCHANGED <<results, models>>

\* ModelGatewayError: whatever the stream was about, no call of it is executed.
StreamBreaks ==
  /\ Streaming
  /\ said' = said \cup {IF phase = "answer" THEN "model_error" ELSE "synthesis_error"}
  /\ phase' = "done" /\ NewAnswer
  /\ UNCHANGED <<results, models>>

(***************************************************************************)
(* ToolExecutor.execute_tool and get_analysis_results                      *)
(***************************************************************************)
Injected == {"get_latest_telemetry", "get_telemetry_range", "list_alarms"}
Widgets == {"render_chart", "open_dashboard"}
Tools == Injected \cup Widgets \cup {"get_alarm_details", "get_sensor_catalog",
                                    "get_operating_limits", "get_analysis_results", "unknown"}

\* A call whose arguments are JSON: their fields have the right types, the keys are not
\* empty, their values are acceptable, and ThingsBoard answers.
Request == [typed : BOOLEAN, given : BOOLEAN, valid : BOOLEAN, answers : BOOLEAN]

Read(ok) == IF ok THEN "data" ELSE "error"

get_latest_telemetry(r) == Read(r.typed /\ (r.given => r.answers))
get_telemetry_range(r) == Read(r.typed /\ (r.given => r.valid /\ r.answers))
list_alarms(r) == Read(r.typed /\ r.answers)
get_alarm_details(r) == Read(r.typed /\ r.valid /\ r.answers)
build_chart_spec(r) == IF get_telemetry_range(r) = "data" THEN "render_chart" ELSE "error"
build_open_dashboard_action(r) == IF r.typed /\ r.valid THEN "open_dashboard" ELSE "error"

\* The two tools that only look into the registry of subsystems.
get_sensor_catalog == Read(TRUE)
get_operating_limits(r) == Read(r.typed)

execute_tool(tool, r) ==
  CASE tool = "get_latest_telemetry" -> get_latest_telemetry(r)
    [] tool = "get_telemetry_range"  -> get_telemetry_range(r)
    [] tool = "list_alarms"          -> list_alarms(r)
    [] tool = "get_alarm_details"    -> get_alarm_details(r)
    [] tool = "get_sensor_catalog"   -> get_sensor_catalog
    [] tool = "get_operating_limits" -> get_operating_limits(r)
    [] tool = "render_chart"         -> build_chart_spec(r)
    [] tool = "open_dashboard"       -> build_open_dashboard_action(r)
    [] OTHER                         -> "error"

Executed == IF Len(calls) > MAX_TOOL_CALLS_PER_TURN THEN MAX_TOOL_CALLS_PER_TURN ELSE Len(calls)
Executing == phase = "tools" /\ Len(results) < Executed
Args == calls[Len(results) + 1]

Returns(result) ==
  /\ results' = Append(results, result)
  /\ UNCHANGED <<phase, said>>

\* Arguments that are no JSON are refused before the tool is looked at.
RunTool(tool) ==
  /\ Executing
  /\ \/ Args = "part" /\ Returns("error")
     \/ /\ Args = "whole" /\ tool # "get_analysis_results"
        /\ \E r \in Request : Returns(execute_tool(tool, r))
  /\ UNCHANGED <<stream, models>>

\* Arguments that are JSON but no object, of a tool that gets the device put into them:
\* the exception ends the turn.
ToolRaises(tool) ==
  /\ Executing /\ Args = "whole" /\ tool \in Injected
  /\ phase' = "done" /\ said' = said \cup {"something_wrong"}
  /\ NewAnswer /\ results' = <<>>
  /\ UNCHANGED models

\* _get_or_train_model keeps the model before the current values are known.
\* Defect: after they are.
MutKept(fit, latest) == fit \cap latest

Kept(fit, latest) == fit

\* One component, all of them, or a name that fits none; fit are those a model is there
\* for or can be trained for, latest those whose current values are complete.
Analyse(fit, latest) ==
  /\ Executing /\ Args = "whole"
  /\ cache' = cache \cup Kept(fit \ cache, latest)
  /\ trained' = [s \in Components |-> trained[s] + IF s \in fit \ cache THEN 1 ELSE 0]
  /\ Returns(IF fit \cap latest # {} THEN "data" ELSE "error")
  /\ UNCHANGED stream

RunAnalysis ==
  \E wanted \in {{}, Components} \cup {{s} : s \in Components} :
    \E fit \in SUBSET wanted, latest \in SUBSET wanted :
      cache \cap wanted \subseteq fit /\ Analyse(fit, latest)

\* Charts and buttons are sent before the summary; past the limit there is no summary.
Deliver ==
  LET widgets == Range(results) \cap Widgets IN
  /\ phase = "tools" /\ Len(results) = Executed
  /\ IF Len(calls) > MAX_TOOL_CALLS_PER_TURN
     THEN phase' = "done" /\ said' = said \cup widgets \cup {"limit"}
     ELSE phase' = "summary" /\ said' = said \cup widgets
  /\ NewAnswer /\ results' = <<>>
  /\ UNCHANGED models

\* The user closes the chat: the generator is cancelled where it has sent a chunk.
Disconnect ==
  /\ Streaming /\ said # {}
  /\ phase' = "gone" /\ NewAnswer
  /\ UNCHANGED <<results, said, models>>

\* Six hours after its training.
Expire(s) ==
  /\ s \in cache
  /\ cache' = cache \ {s} /\ trained' = [trained EXCEPT ![s] = 0]
  /\ UNCHANGED <<phase, stream, results, said>>

Next ==
  \/ Ask \/ Resolve
  \/ \E chunk \in UNION {[1..n -> Chars] : n \in 1..MaxText} : Content(chunk)
  \/ \E i \in 1..MaxCalls : Fragment(i)
  \/ \E finish_reason \in {"stop", "length"} : AnswerEnds(finish_reason)
  \/ SummaryEnds \/ StreamBreaks
  \/ \E tool \in Tools : RunTool(tool) \/ ToolRaises(tool)
  \/ RunAnalysis
  \/ Deliver \/ Disconnect
  \/ \E s \in Components : Expire(s)

Spec == Init /\ [][Next]_vars

(***************************************************************************)
(* Properties                                                              *)
(***************************************************************************)

\* However the model's text is cut into chunks, and whatever looks like the start of a
\* tag, the user is shown nothing but the text outside the tags, in order, and all of it
\* if the answer comes to its end here (_ThinkTagFilter, orchestrator.py:76).
ThinkingIsHidden ==
  /\ IsPrefix(filter.shown, Outside[text])
  /\ flush(filter).shown = Outside[text]

\* A turn the user stays for ends with words, whatever charts it showed: an answer or an
\* explanation, also when the model spent its whole answer thinking, was cut off, or a
\* tool failed (orchestrator.py:500, "Never let that happen").
NoSilentTurn == phase = "done" => said \ Widgets # {}

\* Between the training of a component's model and its expiry no other is trained,
\* whichever analyses succeed, fail for want of current values, or repeat in one turn.
TrainedOnce == \A s \in Components : trained[s] <= 1
===============================================================================
