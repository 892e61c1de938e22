------------------------------- MODULE Analyze -------------------------------
(***************************************************************************)
(* The three commands that trace a program under reporters: trace, inspect *)
(* and analyze (src/src/main.cpp), with the whole of analyze::run          *)
(* (src/src/analyze/analyze.cpp): the session, the sandboxed or the traced *)
(* run, the assessment, the artifacts and the exit status.  What the trace *)
(* reports is any sequence of events; module Tracer has its protocol.      *)
(***************************************************************************)
EXTENDS Policy, Risk, FiniteSets

CONSTANTS
    Configs,    \* the policies that are tried
    Paths,      \* the paths and
    Endpoints,  \* the endpoints in the events
    Syscalls,   \* the system calls that fail
    MaxEvents   \* bound: the events a trace reports before TraceFinished

Text == Seq(STRING)
Config ==
    [denied_paths : SUBSET Text, denied_endpoints : SUBSET Text, denied_syscalls : SUBSET Text,
     max_processes : Nat]

\* A path or an endpoint that the decoder could not read is the empty text.
ASSUME ConfigsAssumption == Configs \subseteq Config
ASSUME TextAssumption ==
    /\ Paths \subseteq Text
    /\ Endpoints \subseteq Text
    /\ Syscalls \subseteq Text
ASSUME MaxEventsAssumption == MaxEvents \in Nat

VARIABLES
    command,    \* "trace", "inspect" or "analyze"
    options,    \* Options::format and Options::sandbox
    pc,
    result,     \* analyze::Result
    artifacts,  \* the files of the session directory, each with its content
    exit,       \* the exit status of execell, or "running"
    reported    \* history: the events the trace handed to its reporter

own == <<command, options, pc, result, artifacts, exit, reported>>
vars == <<policy, reports, own>>

\* The statuses a trace ends with: 0, a failure of the target or of the tracer,
\* and the 128 + SIGKILL of a denied root.
Statuses == {0, 1, 137}

Outcome(status, timed_out, output_limited) ==
    [result EXCEPT !.exit_status = status, !.timed_out = timed_out,
                   !.output_limited = output_limited]

\* analyze::Result{}: the default Assessment allows.
NoResult ==
    [session |-> FALSE, exit_status |-> -1, timed_out |-> FALSE, output_limited |-> FALSE,
     assessment |-> assess(0, FALSE), policy_findings |-> <<>>, events_json |-> <<>>]

Init ==
    /\ config \in Configs
    /\ ReportersInit
    /\ command \in {"trace", "inspect", "analyze"}
    /\ options \in [json : BOOLEAN, sandbox : BOOLEAN]
    /\ options.sandbox => command = "analyze"
    /\ pc = "options"
    /\ result = NoResult
    /\ artifacts = <<>>
    /\ exit = "running"
    /\ reported = <<>>

\* The reporters that main and run build.
Chain ==
    CASE command = "analyze" -> {"summary", "json"}
      [] command = "inspect" -> IF options.json THEN {"json"} ELSE {"summary"}
      [] command = "trace" -> IF options.json THEN {"json"} ELSE {}

Exits(status) == pc' = "done" /\ exit' = status

\* An unknown option or a bad value ends main at once.
Refuse ==
    /\ pc = "options"
    /\ command # "trace"
    /\ Exits(1)
    /\ UNCHANGED <<policy, reports, command, options, result, artifacts, reported>>

ParseOptions ==
    /\ pc = "options"
    /\ pc' = IF command = "analyze" THEN "session" ELSE "trace"
    /\ UNCHANGED <<policy, reports, command, options, result, artifacts, exit, reported>>

session_path ==
    /\ pc = "session"
    /\ result' = [result EXCEPT !.session = TRUE]
    /\ pc' = IF options.sandbox THEN "sandbox" ELSE IF options.json THEN "redirect" ELSE "trace"
    /\ UNCHANGED <<policy, reports, command, options, artifacts, exit, reported>>

\* The directory cannot be made: run returns the Result it began with.
SessionFails ==
    /\ pc = "session"
    /\ pc' = "print"
    /\ UNCHANGED <<policy, reports, command, options, result, artifacts, exit, reported>>

\* sandbox::run_captured, which reports no event (module Capture has its steps).
Sandboxed ==
    /\ pc = "sandbox"
    /\ \E status \in Statuses \cup {-1}, timed_out, output_limited \in BOOLEAN :
          result' = Outcome(IF timed_out THEN 124 ELSE status, timed_out, output_limited)
    /\ pc' = "finish"
    /\ UNCHANGED <<policy, reports, command, options, artifacts, exit, reported>>

\* The target's output is sent to /dev/null while its events are JSON.
Redirect ==
    /\ pc = "redirect"
    /\ \/ pc' = "trace" /\ UNCHANGED result
       \/ pc' = "finish" /\ result' = [result EXCEPT !.exit_status = 125]
    /\ UNCHANGED <<policy, reports, command, options, artifacts, exit, reported>>

\* emit of trace::run: the event gets its context and goes to the reporter.
Report(e) ==
    /\ reported' = Append(reported, e)
    /\ IF command = "trace" THEN Downstream(Chain, e, <<>>) /\ UNCHANGED policy
       ELSE report(Chain, e)

Events(context) ==
    {Event("FileOpened", path, <<>>, context) : path \in Paths}
    \cup {Event("NetworkConnected", endpoint, <<>>, context) : endpoint \in Endpoints}
    \cup {Event("SyscallFailed", <<>>, syscall, context) : syscall \in Syscalls}
    \cup {Event(kind, <<>>, <<>>, context) : kind \in {"ProcessSpawned", "FileRenamed"}}

Emit ==
    /\ pc = "trace"
    /\ Len(reported) <= MaxEvents
    /\ IF reported = <<>> THEN Report(Event("TraceStarted", <<>>, <<>>, 0))
       ELSE \E e \in Events(Len(reported)) : Report(e)
    /\ UNCHANGED <<command, options, pc, result, artifacts, exit>>

\* trace::run returns with the root's status, after TraceFinished.
TraceFinished ==
    /\ pc = "trace"
    /\ reported # <<>>
    /\ Report(Event("TraceFinished", <<>>, <<>>, Len(reported)))
    /\ \E status \in Statuses : result' = Outcome(status, FALSE, FALSE)
    /\ pc' = "finish"
    /\ UNCHANGED <<command, options, artifacts, exit>>

\* A call of the tracer fails, before or after the first event.
TraceFails ==
    /\ pc = "trace"
    /\ result' = Outcome(1, FALSE, FALSE)
    /\ pc' = "finish"
    /\ UNCHANGED <<policy, reports, command, options, artifacts, exit, reported>>

\* trace and inspect close the array and return the status of the trace.
Finish ==
    /\ pc = "finish"
    /\ command # "analyze"
    /\ json' = IF "json" \in Chain THEN Finished(json) ELSE json
    /\ Exits(result.exit_status)
    /\ UNCHANGED <<policy, summary, command, options, result, artifacts, reported>>

\* The weights of assessment() and its direct rejections.
Weight ==
    (IF summary["NetworkConnected"] # 0 THEN 20 ELSE 0)
    + (IF summary["ProcessSpawned"] # 0 THEN 5 ELSE 0)
    + (IF summary["SyscallFailed"] # 0 THEN 10 ELSE 0)

Rejected ==
    \/ violations # <<>>
    \/ result.timed_out
    \/ result.output_limited
    \/ result.exit_status # 0

\* Mutant: what the target did is assessed, how it ended is not.
assessment_of_behaviour == assess(Weight, violations # <<>>)

assessment == assess(Weight, Rejected)

\* append_event: a record before the closing bracket.  A text of one character
\* is no array.
append_event(text, type) ==
    IF Len(text) < 2 THEN text
    ELSE SubSeq(text, 1, Len(text) - 1) \o <<",", Event(type, <<>>, <<>>, 0), "]">>

\* run, from finish() to the Result: each policy finding is given the resource
\* and the context of the first violation.
Assess ==
    /\ pc = "finish"
    /\ command = "analyze"
    /\ json' = Finished(json)
    /\ LET timeout == IF result.timed_out THEN append_event(json'.text, "analysis.timeout")
                      ELSE json'.text
           limit == IF result.output_limited THEN append_event(timeout, "analysis.output_limit")
                    ELSE timeout
       IN result' = [result EXCEPT
             !.assessment = assessment,
             !.policy_findings = [i \in 1 .. Len(violations) |-> violations[1].context],
             !.events_json = limit]
    /\ pc' = "save"
    /\ UNCHANGED <<policy, summary, command, options, artifacts, exit, reported>>

\* The three files of the session.  A file that cannot be written is not
\* noticed.
Save ==
    /\ pc = "save"
    /\ \E written \in SUBSET {"events.json", "attestation.txt", "summary.json"} :
          artifacts' = [file \in written |->
             CASE file = "events.json" -> result.events_json
               [] file = "attestation.txt" -> <<options.sandbox>>
               [] file = "summary.json" -> <<result.assessment.action>> \o result.events_json]
    /\ pc' = "print"
    /\ UNCHANGED <<policy, reports, command, options, result, exit, reported>>

\* main prints the result and looks for the verdict in it.
Answer ==
    /\ pc = "print"
    /\ Exits(IF result.assessment.action = "allow" THEN 0 ELSE 1)
    /\ UNCHANGED <<policy, reports, command, options, result, artifacts, reported>>

Next ==
    \/ Refuse \/ ParseOptions \/ session_path \/ SessionFails \/ Sandboxed \/ Redirect
    \/ Emit \/ TraceFinished \/ TraceFails \/ Finish \/ Assess \/ Save \/ Answer

Spec == Init /\ [][Next]_vars

-----------------------------------------------------------------------------

TypeOK ==
    /\ pc \in {"options", "session", "sandbox", "redirect", "trace", "finish", "save", "print",
               "done"}
    /\ result.assessment.action \in Action
    /\ result.assessment.level \in Level
    /\ result.exit_status \in Statuses \cup {-1, 124, 125}
    /\ DOMAIN artifacts \subseteq {"events.json", "attestation.txt", "summary.json"}
    /\ process_count \in 0 .. MaxEvents
    /\ \A i \in 1 .. Len(violations) : violations[i].context \in 0 .. MaxEvents + 1

\* What a policy is there to stop, of the i-th event of the trace: a path at or
\* below a denied one, an endpoint that begins like a denied one (one that could not
\* be read is covered by no rule), a failing call of a denied name, and every process
\* above the limit.
Forbidden(i) ==
    LET e == reported[i] IN
    \/ \E path \in config.denied_paths :
          e.resource = path \/ starts_with(e.resource, Append(path, "/"))
    \/ /\ e.kind = "NetworkConnected" /\ e.resource # <<>>
       /\ \E d \in config.denied_endpoints : starts_with(e.resource, d)
    \/ e.kind = "SyscallFailed" /\ e.syscall \in config.denied_syscalls
    \/ /\ e.kind = "ProcessSpawned"
       /\ config.max_processes # 0
       /\ Cardinality({j \in 1 .. i : reported[j].kind = "ProcessSpawned"}) > config.max_processes

\* The elements of a JSON array, whether a text is one, and which elements are
\* violations.
Elements(text) == [i \in 1 .. Len(text) \div 2 |-> text[2 * i]]

IsArray(text) ==
    /\ Len(text) >= 3
    /\ \A i \in 1 .. Len(text) :
          i % 2 = 1 => text[i] = (IF i = 1 THEN "[" ELSE IF i = Len(text) THEN "]" ELSE ",")
    /\ Len(text) % 2 = 1

Violated(elements) == {i \in DOMAIN elements : elements[i].kind = "PolicyViolation"}

\* Without the violations the elements are the events, in their order.
Tells(elements, events) ==
    /\ Cardinality(DOMAIN elements \ Violated(elements)) = Len(events)
    /\ \A i \in DOMAIN elements \ Violated(elements) :
          elements[i] = events[Cardinality((1 .. i) \ Violated(elements))]

\* A violation stands directly behind the event it is about.
Attached(elements) ==
    \A i \in Violated(elements) :
        /\ i - 1 \in DOMAIN elements \ Violated(elements)
        /\ elements[i - 1].context = elements[i].context

\* The counters of a summary are those of the elements.
Counts(elements, s) ==
    \A c \in Counters : s[c] = Cardinality({i \in DOMAIN elements : elements[i].kind = c})

\* What a trace leaves is framed as one JSON array, and tells what happened: its
\* elements are the reported events in their order, each violation stands directly
\* after the event it is about, every forbidden event has one, the summary counts
\* the elements, and the session's events.json is that array.  (JsonReporter and
\* policy::Reporter below trace::run.  The brackets and commas only: how a string
\* is escaped inside an element is not modelled.  A run that reports no event, as
\* every run in the sandbox, leaves "]".)
ReportsAgree ==
    (json.finished /\ reported # <<>>) =>
        LET elements == Elements(json.text) IN
        /\ IsArray(json.text)
        /\ Tells(elements, reported)
        /\ Attached(elements)
        /\ command # "trace" =>
              \A i \in DOMAIN reported : Forbidden(i) =>
                 \E j \in Violated(elements) : elements[j].context = reported[i].context
        /\ command = "analyze" => Counts(elements, summary)
        /\ "events.json" \in DOMAIN artifacts => artifacts["events.json"] = json.text

\* execell analyze exits with 0 exactly when the target ran to its end with
\* status 0, within its limits, with nothing that the policy denies and without
\* combining network activity with a child process or a failed call; and then it
\* did nothing forbidden.  (assessment(), verdict() and main, with the weights of
\* the code; plan-analyze-workflow-foundation.md:42-48 has others.  A session
\* directory that cannot be made is left out: the default Result allows.)
ExitContract ==
    (command = "analyze" /\ pc = "done" /\ result.session) =>
        LET did(kind) == \E i \in DOMAIN reported : reported[i].kind = kind IN
        /\ exit = 0 <=>
              /\ result.exit_status = 0
              /\ ~result.timed_out
              /\ ~result.output_limited
              /\ Violated(Elements(json.text)) = {}
              /\ ~(did("NetworkConnected") /\ (did("ProcessSpawned") \/ did("SyscallFailed")))
        /\ exit = 0 => \A i \in DOMAIN reported : ~Forbidden(i)
        /\ Len(result.policy_findings) = Cardinality(Violated(Elements(json.text)))
=============================================================================
