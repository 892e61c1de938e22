---------------------------- MODULE AnalyzeProofs ----------------------------
(***************************************************************************)
(* Module Analyze for every policy, every set of paths, endpoints and      *)
(* calls, and traces of any length: the reports agree with the trace and   *)
(* with each other, and the exit status of analyze says what they say.     *)
(*                                                                         *)
(* The reporters are given one element at a time, so what a report tells   *)
(* is proved of one more element first (Tells, Attached, Counts), whatever *)
(* the elements are.  The invariant then has four parts.  Shaped is the    *)
(* JSON text while it grows; Narrated relates its elements to the events,  *)
(* the violations and the summary; Sequenced is what the trace hands over, *)
(* and Ordered is which of the results exist at which point of the run.    *)
(***************************************************************************)
EXTENDS Analyze, FiniteSetTheorems, SequenceTheorems, TLAPS

\* Zenon proves the leaves that do not name SMT.
USE ZenonT(60)

Kinds == {"TraceStarted", "TraceFinished", "FileOpened", "NetworkConnected", "SyscallFailed",
          "ProcessSpawned", "FileRenamed"}
Rules == {"denied-path", "denied-endpoint", "denied-syscall", "process-limit"}
Resource == Text \cup {<<"process">>}
Notes == {"analysis.timeout", "analysis.output_limit"}

\* What stands between the commas, and the tokens of a report.
EventElement == [kind : Kinds \cup Notes, resource : Text, syscall : Text, context : Nat]
ViolationElement ==
    [kind : {"PolicyViolation"}, resource : Resource, syscall : Text, rule : Rules, context : Nat]
Element == EventElement \cup ViolationElement
Token == Element \cup {"[", ",", "]"}

Json == [text : Seq(Token), finished : BOOLEAN]

TraceEvent == [kind : Kinds, resource : Text, syscall : Text, context : Nat]
Violation == [rule : Rules, resource : Resource, context : 0 .. MaxEvents + 1]

Commands == {"trace", "inspect", "analyze"}
Points == {"options", "session", "sandbox", "redirect", "trace", "finish", "save", "print", "done"}
Early == {"options", "session", "sandbox", "redirect"}
ExitStatuses == Statuses \cup {-1, 124, 125}
Files == {"events.json", "attestation.txt", "summary.json"}

Assessment == [score : Nat, level : Level, action : Action]
Result ==
    [session : BOOLEAN, exit_status : ExitStatuses, timed_out : BOOLEAN, output_limited : BOOLEAN,
     assessment : Assessment, policy_findings : Seq(Nat), events_json : Seq(Token)]

Typed ==
    /\ config \in Config
    /\ command \in Commands
    /\ options \in [json : BOOLEAN, sandbox : BOOLEAN]
    /\ pc \in Points
    /\ process_count \in Nat
    /\ violations \in Seq(Violation)
    /\ summary \in [Counters -> Nat]
    /\ json \in Json
    /\ reported \in Seq(TraceEvent)
    /\ result \in Result
    /\ DOMAIN artifacts \subseteq Files

\* The text of an array with these elements, closed or not.
Shaped(j) ==
    LET n == Len(j.text) \div 2 IN
    /\ Len(j.text) = IF j.finished THEN 2 * n + 1 ELSE 2 * n
    /\ \A k \in 1 .. n :
          /\ j.text[2 * k - 1] = IF k = 1 THEN "[" ELSE ","
          /\ j.text[2 * k] \in Element
    /\ j.finished => j.text[Len(j.text)] = "]"

\* The processes among the first n events.
Spawns(events, n) == {i \in 1 .. n : events[i].kind = "ProcessSpawned"}

\* Each event has its context, and while the trace goes on there is room for
\* TraceFinished.
Sequenced ==
    /\ \A i \in DOMAIN reported : reported[i].context = i - 1
    /\ command # "trace" => process_count = Cardinality(Spawns(reported, Len(reported)))
    /\ process_count <= MaxEvents
    /\ pc = "trace" /\ reported # <<>> => process_count < Len(reported)
    /\ pc \in Early \cup {"trace"} /\ reported = <<>> => process_count = 0
    /\ pc \in Early \cup {"trace"} => Len(reported) <= MaxEvents + 1

\* What Forbidden says of an event and the number of processes so far.
Banned(c, e, count) ==
    \/ \E path \in c.denied_paths :
          e.resource = path \/ starts_with(e.resource, Append(path, "/"))
    \/ /\ e.kind = "NetworkConnected" /\ e.resource # <<>>
       /\ \E d \in c.denied_endpoints : starts_with(e.resource, d)
    \/ e.kind = "SyscallFailed" /\ e.syscall \in c.denied_syscalls
    \/ e.kind = "ProcessSpawned" /\ c.max_processes # 0 /\ count > c.max_processes

\* Every forbidden event has a violation with its context.
Answered(c, events, elements) ==
    \A i \in DOMAIN events : Banned(c, events[i], Cardinality(Spawns(events, i))) =>
        \E j \in Violated(elements) : elements[j].context = events[i].context

\* What the elements written so far tell.
Narrated ==
    "json" \in Chain =>
        LET elements == Elements(json.text) IN
        /\ Tells(elements, reported)
        /\ Attached(elements)
        /\ command # "trace" =>
              /\ Answered(config, reported, elements)
              /\ Len(violations) = Cardinality(Violated(elements))
        /\ command = "analyze" => Counts(elements, summary) /\ Counts(reported, summary)

\* analyze has assessed the run.
Assessed == command = "analyze" /\ (pc = "save" \/ (pc \in {"print", "done"} /\ result.session))

\* The points at which the results are made.
Ordered ==
    /\ pc \in {"session", "sandbox", "redirect", "save", "print"} => command = "analyze"
    /\ pc \in {"options", "session"} => ~result.session
    /\ json.finished => "json" \in Chain /\ pc \in {"save", "print", "done"}
    /\ pc \in Early => reported = <<>>
    /\ pc \in (Early \ {"sandbox"}) \cup {"trace"} \/ reported # <<>> =>
          ~result.timed_out /\ ~result.output_limited
    /\ Assessed =>
          /\ json.finished
          /\ result.assessment = assessment
          /\ Len(result.policy_findings) = Len(violations)
          /\ reported # <<>> => result.events_json = json.text
    /\ "events.json" \in DOMAIN artifacts =>
          /\ pc \in {"print", "done"}
          /\ reported # <<>> => artifacts["events.json"] = json.text
    /\ Assessed /\ pc = "done" => exit = IF result.assessment.action = "allow" THEN 0 ELSE 1

IInv == Typed /\ Shaped(json) /\ Sequenced /\ Narrated /\ Ordered

-----------------------------------------------------------------------------
(***************************************************************************)
(* Texts and their elements.                                               *)
(***************************************************************************)
LEMMA Half ==
    ASSUME NEW n \in Nat
    PROVE  (2 * n) \div 2 = n /\ (2 * n + 1) \div 2 = n /\ (2 * n) % 2 = 0 /\ (2 * n + 1) % 2 = 1
BY SMTT(60)

LEMMA HalfNat ==
    ASSUME NEW m \in Nat
    PROVE  m \div 2 \in Nat
BY SMTT(60)

LEMMA OddPositions ==
    ASSUME NEW n \in Nat
    PROVE  /\ 2 * n = 0 <=> n + 1 = 1
           /\ n # 0 => 2 * n + 1 >= 3 /\ 2 * n + 1 # 1
           /\ \A i \in 1 .. 2 * n + 1 : i % 2 = 1 /\ i # 2 * n + 1 =>
                 \E k \in 1 .. n : i = 2 * k - 1 /\ (i = 1 <=> k = 1)
<1>1. (2 * n = 0 <=> n + 1 = 1) /\ (n # 0 => 2 * n + 1 >= 3 /\ 2 * n + 1 # 1)
  BY SMTT(60)
<1>2. ASSUME NEW i \in 1 .. 2 * n + 1, i % 2 = 1, i # 2 * n + 1
      PROVE  \E k \in 1 .. n : i = 2 * k - 1 /\ (i = 1 <=> k = 1)
  <2> DEFINE h == (i + 1) \div 2
  <2>1. h \in 1 .. n /\ i = 2 * h - 1
    BY <1>2, SMTT(60)
  <2> HIDE DEF h
  <2>2. i = 1 <=> h = 1
    BY <2>1, SMTT(60)
  <2> QED
    BY <2>1, <2>2
<1> QED
  BY <1>1, <1>2

\* Elements of a text with n of them.
LEMMA ElementsType ==
    ASSUME NEW T, NEW text \in Seq(T), NEW n \in Nat, Len(text) \in {2 * n, 2 * n + 1}
    PROVE  /\ Elements(text) \in Seq(T)
           /\ Len(Elements(text)) = n
           /\ \A k \in 1 .. n : Elements(text)[k] = text[2 * k]
<1>1. Len(text) \div 2 = n
  BY Half
<1>2. Elements(text) = [k \in 1 .. n |-> text[2 * k]]
  BY <1>1 DEF Elements
<1>3. \A k \in 1 .. n : 2 * k \in 1 .. Len(text)
  BY SMTT(60)
<1>4. \A k \in 1 .. n : text[2 * k] \in T
  BY <1>3, SMTT(60)
<1> QED
  BY <1>2, <1>4, SMTT(60)

\* F is E, which has n members, with x behind them.
Grown(F, E, n, x) ==
    /\ n \in Nat
    /\ DOMAIN E = 1 .. n
    /\ DOMAIN F = (1 .. n) \cup {n + 1}
    /\ \A i \in 1 .. n : F[i] = E[i]
    /\ F[n + 1] = x

LEMMA LongerGrown ==
    ASSUME NEW T, NEW s \in Seq(T), NEW n \in Nat, Len(s) = n, NEW x \in T
    PROVE  Grown(Append(s, x), s, n, x)
<1>1. DOMAIN s = 1 .. n
  BY SMTT(60)
<1>2. DOMAIN Append(s, x) = 1 .. n + 1 /\ Append(s, x)[n + 1] = x
  BY SMTT(60)
<1>3. \A i \in 1 .. n : Append(s, x)[i] = s[i]
  BY SMTT(60)
<1>4. 1 .. n + 1 = (1 .. n) \cup {n + 1}
  BY SMTT(60)
<1> QED
  BY <1>1, <1>2, <1>3, <1>4 DEF Grown

\* longer is the text with a bracket or comma and an element behind it.
TextGrown(longer, text, n, a, b) ==
    /\ longer \in Seq(Token)
    /\ Len(longer) = 2 * (n + 1)
    /\ \A i \in 1 .. 2 * n : longer[i] = text[i]
    /\ longer[2 * n + 1] = a /\ longer[2 * (n + 1)] = b
    /\ Elements(longer) = Append(Elements(text), b)

\* longer is the text with the closing bracket.
TextClosed(longer, text, n, a) ==
    /\ longer \in Seq(Token)
    /\ Len(longer) = 2 * n + 1
    /\ \A i \in 1 .. 2 * n : longer[i] = text[i]
    /\ longer[2 * n + 1] = a
    /\ Elements(longer) = Elements(text)

\* JsonReporter writes an opening bracket or a comma and one more element.
LEMMA ElementsWritten ==
    ASSUME NEW text \in Seq(Token), NEW n \in Nat, Len(text) = 2 * n,
           NEW a \in Token, NEW b \in Token
    PROVE  TextGrown(text \o <<a, b>>, text, n, a, b)
<1> DEFINE longer == text \o <<a, b>>
<1>1. longer \in Seq(Token) /\ Len(longer) = 2 * (n + 1)
  BY SMTT(60)
<1>2. /\ \A i \in 1 .. 2 * n : longer[i] = text[i]
      /\ longer[2 * n + 1] = a /\ longer[2 * (n + 1)] = b
  <2>1. \A i \in 1 .. 2 * n : longer[i] = text[i]
    BY SMTT(60)
  <2>2. longer[2 * n + 1] = a
    BY SMTT(60)
  <2>3. longer[2 * n + 2] = b /\ 2 * n + 2 = 2 * (n + 1)
    BY SMTT(60)
  <2> QED
    BY <2>1, <2>2, <2>3
<1>3. /\ Elements(text) \in Seq(Token) /\ Len(Elements(text)) = n
      /\ \A k \in 1 .. n : Elements(text)[k] = text[2 * k]
  BY ElementsType
<1>4. n + 1 \in Nat /\ \A k \in 1 .. n : k \in 1 .. n + 1 /\ 2 * k \in 1 .. 2 * n
  BY SMTT(60)
<1> HIDE DEF longer
<1>5. /\ Elements(longer) \in Seq(Token) /\ Len(Elements(longer)) = n + 1
      /\ \A k \in 1 .. n + 1 : Elements(longer)[k] = longer[2 * k]
  <2>1. Len(longer) \in {2 * (n + 1), 2 * (n + 1) + 1}
    BY <1>1
  <2> QED
    BY <1>1, <1>4, <2>1, ElementsType
<1> DEFINE more == Append(Elements(text), b)
<1>6. /\ more \in Seq(Token) /\ Len(more) = n + 1 /\ more[n + 1] = b
      /\ \A k \in 1 .. n : more[k] = text[2 * k]
  BY <1>3, SMTT(60)
<1> HIDE DEF more
<1>7. ASSUME NEW k \in 1 .. n + 1 PROVE Elements(longer)[k] = more[k]
  <2>1. k \in 1 .. n \/ k = n + 1
    BY SMTT(60)
  <2> QED
    BY <1>2, <1>4, <1>5, <1>6, <2>1
<1>8. Elements(longer) = more
  BY <1>5, <1>6, <1>7, SeqEqual
<1> QED
  BY <1>1, <1>2, <1>8 DEF longer, more, TextGrown

\* finish() closes the array.
LEMMA ElementsFinished ==
    ASSUME NEW text \in Seq(Token), NEW n \in Nat, Len(text) = 2 * n, NEW a \in Token
    PROVE  TextClosed(Append(text, a), text, n, a)
<1> DEFINE longer == Append(text, a)
<1>1. /\ longer \in Seq(Token) /\ Len(longer) = 2 * n + 1 /\ longer[2 * n + 1] = a
      /\ \A i \in 1 .. 2 * n : longer[i] = text[i]
  BY SMTT(60)
<1>2. /\ Elements(text) \in Seq(Token) /\ Len(Elements(text)) = n
      /\ \A k \in 1 .. n : Elements(text)[k] = text[2 * k]
  BY ElementsType
<1>3. \A k \in 1 .. n : 2 * k \in 1 .. 2 * n
  BY SMTT(60)
<1> HIDE DEF longer
<1>4. /\ Elements(longer) \in Seq(Token) /\ Len(Elements(longer)) = n
      /\ \A k \in 1 .. n : Elements(longer)[k] = longer[2 * k]
  BY <1>1, ElementsType
<1>5. Elements(longer) = Elements(text)
  BY <1>1, <1>2, <1>3, <1>4, SeqEqual
<1> QED
  BY <1>1, <1>5 DEF longer, TextClosed

-----------------------------------------------------------------------------
(***************************************************************************)
(* One more element in a report.                                           *)
(***************************************************************************)
LEMMA Fresh ==
    ASSUME NEW n \in Nat
    PROVE  /\ n + 1 \notin 1 .. n
           /\ 1 .. n + 1 = (1 .. n) \cup {n + 1}
           /\ \A i \in 1 .. n : 1 .. i \subseteq 1 .. n /\ n + 1 \notin 1 .. i /\ i \in 1 .. i
BY SMTT(60)

\* A set of positions is finite, and one more position counts one more.
LEMMA Positions ==
    ASSUME NEW n \in Nat, NEW S \in SUBSET (1 .. n)
    PROVE  /\ IsFiniteSet(S)
           /\ Cardinality(S) \in Nat
           /\ Cardinality(S \cup {n + 1}) = Cardinality(S) + 1
           /\ \A R \in SUBSET S : Cardinality(R) <= Cardinality(S)
           /\ S # {} => Cardinality(S) >= 1
<1>1. IsFiniteSet(1 .. n)
  <2>1. 1 \in Int /\ n \in Int
    BY SMTT(60)
  <2> QED
    BY <2>1, FS_Interval
<1>2. IsFiniteSet(S)
  BY <1>1, FS_Subset
<1>3. Cardinality(S) \in Nat
  BY <1>2, FS_CardinalityType
<1>4. Cardinality(S \cup {n + 1}) = Cardinality(S) + 1
  <2>1. n + 1 \notin S
    BY Fresh
  <2> QED
    BY <1>2, <2>1, FS_AddElement
<1>5. \A R \in SUBSET S : Cardinality(R) <= Cardinality(S)
  BY <1>2, FS_Subset
<1>6. S # {} => Cardinality(S) # 0
  BY <1>2, FS_EmptySet
<1>7. Cardinality(S) # 0 => Cardinality(S) >= 1
  BY <1>3, SMTT(60)
<1> QED
  BY <1>2, <1>3, <1>4, <1>5, <1>6, <1>7

LEMMA ViolatedGrown ==
    ASSUME NEW F, NEW E, NEW n, NEW x, Grown(F, E, n, x)
    PROVE  /\ Violated(E) \subseteq 1 .. n
           /\ x.kind # "PolicyViolation" => Violated(F) = Violated(E)
           /\ x.kind = "PolicyViolation" => Violated(F) = Violated(E) \cup {n + 1}
BY DEF Grown, Violated

LEMMA TellsEvent ==
    ASSUME NEW F, NEW E, NEW n, NEW x, Grown(F, E, n, x), x.kind # "PolicyViolation",
           NEW events, NEW more, NEW m, Grown(more, events, m, x),
           Len(events) = m, Len(more) = m + 1, Tells(E, events)
    PROVE  Tells(F, more)
<1> DEFINE V == Violated(E)
           S == (1 .. n) \ V
<1>1. n \in Nat /\ m \in Nat /\ Violated(F) = V /\ V \subseteq 1 .. n
  <2>1. n \in Nat /\ m \in Nat
    BY DEF Grown
  <2>2. Violated(F) = V /\ V \subseteq 1 .. n
    BY ViolatedGrown
  <2> QED
    BY <2>1, <2>2
<1>2. n + 1 \notin 1 .. n
  BY <1>1, Fresh
<1>3. DOMAIN F \ V = S \cup {n + 1} /\ DOMAIN E \ V = S
  BY <1>1, <1>2 DEF Grown
<1>4. Cardinality(S) = m
  BY <1>3 DEF Tells
<1>5. Cardinality(S \cup {n + 1}) = m + 1
  BY <1>1, <1>4, Positions
<1>6. ASSUME NEW i \in S PROVE F[i] = more[Cardinality((1 .. i) \ V)]
  <2> DEFINE R == (1 .. i) \ V
  <2>1. R \subseteq S /\ i \in R
    BY <1>1, Fresh
  <2>2. Cardinality(R) \in Nat /\ Cardinality(R) <= m /\ Cardinality(R) >= 1
    BY <1>1, <1>4, <2>1, Positions
  <2>3. Cardinality(R) \in 1 .. m
    BY <1>1, <2>2, SMTT(60)
  <2>4. E[i] = events[Cardinality(R)]
    BY <1>3 DEF Tells
  <2> QED
    BY <2>3, <2>4 DEF Grown
<1>7. F[n + 1] = more[Cardinality((1 .. n + 1) \ V)]
  <2>1. (1 .. n + 1) \ V = S \cup {n + 1}
    BY <1>1, <1>2, Fresh
  <2> QED
    BY <1>5, <2>1 DEF Grown
<1> QED
  BY <1>1, <1>3, <1>5, <1>6, <1>7 DEF Tells

LEMMA TellsViolation ==
    ASSUME NEW F, NEW E, NEW n, NEW x, Grown(F, E, n, x), x.kind = "PolicyViolation",
           NEW events, Tells(E, events)
    PROVE  Tells(F, events)
<1>1. n \in Nat /\ Violated(F) = Violated(E) \cup {n + 1} /\ Violated(E) \subseteq 1 .. n
  BY ViolatedGrown DEF Grown
<1>2. DOMAIN F \ Violated(F) = DOMAIN E \ Violated(E)
  BY <1>1, Fresh DEF Grown
<1>3. ASSUME NEW i \in DOMAIN E \ Violated(E)
      PROVE  F[i] = E[i] /\ (1 .. i) \ Violated(F) = (1 .. i) \ Violated(E)
  <2>1. i \in 1 .. n
    BY DEF Grown
  <2>2. n + 1 \notin 1 .. i
    BY <1>1, <2>1, Fresh
  <2> QED
    BY <1>1, <2>1, <2>2 DEF Grown
<1> QED
  BY <1>2, <1>3 DEF Tells

LEMMA AttachedEvent ==
    ASSUME NEW F, NEW E, NEW n, NEW x, Grown(F, E, n, x), x.kind # "PolicyViolation", Attached(E)
    PROVE  Attached(F)
<1>1. Violated(F) = Violated(E) /\ Violated(E) \subseteq 1 .. n
  BY ViolatedGrown
<1> QED
  BY <1>1 DEF Grown, Attached

\* A violation behind the event of its context.
LEMMA AttachedViolation ==
    ASSUME NEW F, NEW E, NEW n, NEW x, Grown(F, E, n, x), x.kind = "PolicyViolation", Attached(E),
           n \in DOMAIN E, E[n].kind # "PolicyViolation", E[n].context = x.context
    PROVE  Attached(F)
<1>1. /\ Violated(F) = Violated(E) \cup {n + 1} /\ n \in Nat /\ Violated(E) \subseteq 1 .. n
      /\ n \notin Violated(E)
  BY ViolatedGrown DEF Grown, Violated
<1>2. n + 1 \notin 1 .. n /\ (n + 1) - 1 = n
  BY <1>1, Fresh, SMTT(60)
<1>3. ASSUME NEW i \in Violated(E)
      PROVE  i - 1 \in DOMAIN F \ Violated(F) /\ F[i - 1].context = F[i].context
  <2>1. i - 1 \in DOMAIN E \ Violated(E) /\ E[i - 1].context = E[i].context
    BY DEF Attached
  <2>2. i \in 1 .. n /\ i - 1 \in 1 .. n
    BY <1>1, <2>1 DEF Grown
  <2> QED
    BY <1>1, <1>2, <2>1, <2>2 DEF Grown
<1>4. n \in DOMAIN F \ Violated(F) /\ F[n].context = F[n + 1].context
  BY <1>1, <1>2 DEF Grown
<1> QED
  BY <1>1, <1>2, <1>3, <1>4 DEF Attached

\* Summary::report keeps the counters right for an element of any kind.
LEMMA CountsGrown ==
    ASSUME NEW F, NEW E, NEW n, NEW x, Grown(F, E, n, x),
           NEW s \in [Counters -> Nat], Counts(E, s)
    PROVE  Counted(s, x) \in [Counters -> Nat] /\ Counts(F, Counted(s, x))
<1>1. Counted(s, x) \in [Counters -> Nat]
  BY SMTT(60) DEF Counted
<1>2. ASSUME NEW c \in Counters
      PROVE  Counted(s, x)[c] = Cardinality({i \in DOMAIN F : F[i].kind = c})
  <2> DEFINE S == {i \in DOMAIN E : E[i].kind = c}
             R == {i \in DOMAIN F : F[i].kind = c}
  <2>1. S \subseteq 1 .. n /\ n \in Nat /\ s[c] = Cardinality(S)
    BY DEF Grown, Counts
  <2>2. CASE x.kind = c
    <3>1. R = S \cup {n + 1}
      BY <2>2 DEF Grown
    <3>2. Cardinality(R) = s[c] + 1
      BY <2>1, <3>1, Positions
    <3>3. Counted(s, x)[c] = s[c] + 1
      BY <2>2 DEF Counted
    <3> QED
      BY <3>2, <3>3
  <2>3. CASE x.kind # c
    <3>1. R = S
      BY <2>3 DEF Grown
    <3>2. Counted(s, x)[c] = s[c]
      BY <2>3 DEF Counted
    <3> QED
      BY <2>1, <3>1, <3>2
  <2> QED
    BY <2>2, <2>3
<1> QED
  BY <1>1, <1>2 DEF Counts

-----------------------------------------------------------------------------
(***************************************************************************)
(* The JSON reporter.                                                      *)
(***************************************************************************)
\* The number of elements of a report, and the facts about its text.
LEMMA JsonElements ==
    ASSUME NEW j \in Json, Shaped(j)
    PROVE  \E n \in Nat :
              /\ Len(j.text) = IF j.finished THEN 2 * n + 1 ELSE 2 * n
              /\ Elements(j.text) \in Seq(Token) /\ Len(Elements(j.text)) = n
              /\ \A k \in 1 .. n :
                    /\ j.text[2 * k - 1] = IF k = 1 THEN "[" ELSE ","
                    /\ j.text[2 * k] \in Element
                    /\ Elements(j.text)[k] = j.text[2 * k]
              /\ j.finished => j.text[2 * n + 1] = "]"
<1> DEFINE n == Len(j.text) \div 2
<1>1. j.text \in Seq(Token)
  BY DEF Json
<1>2. Len(j.text) \in Nat
  BY <1>1, LenProperties
<1>3. n \in Nat
  BY <1>2, HalfNat
<1>4. /\ Len(j.text) = IF j.finished THEN 2 * n + 1 ELSE 2 * n
      /\ \A k \in 1 .. n :
            /\ j.text[2 * k - 1] = IF k = 1 THEN "[" ELSE ","
            /\ j.text[2 * k] \in Element
      /\ j.finished => j.text[Len(j.text)] = "]"
  BY DEF Shaped
<1> HIDE DEF n
<1>5. Len(j.text) \in {2 * n, 2 * n + 1}
  BY <1>4
<1>6. /\ Elements(j.text) \in Seq(Token) /\ Len(Elements(j.text)) = n
      /\ \A k \in 1 .. n : Elements(j.text)[k] = j.text[2 * k]
  BY <1>1, <1>3, <1>5, ElementsType
<1> QED
  BY <1>3, <1>4, <1>6

\* The other direction.
LEMMA ShapedBy ==
    ASSUME NEW j, NEW n \in Nat, Len(j.text) = IF j.finished THEN 2 * n + 1 ELSE 2 * n,
           \A k \in 1 .. n :
              /\ j.text[2 * k - 1] = IF k = 1 THEN "[" ELSE ","
              /\ j.text[2 * k] \in Element,
           j.finished => j.text[2 * n + 1] = "]"
    PROVE  Shaped(j)
<1>1. Len(j.text) \div 2 = n
  BY Half
<1> QED
  BY <1>1 DEF Shaped

LEMMA WrittenOne ==
    ASSUME NEW j \in Json, Shaped(j), ~j.finished, NEW x \in Element
    PROVE  /\ Written(j, x) \in Json /\ Shaped(Written(j, x)) /\ ~Written(j, x).finished
           /\ \E n \in Nat :
                 /\ Elements(j.text) \in Seq(Token) /\ Len(Elements(j.text)) = n
                 /\ Grown(Elements(Written(j, x).text), Elements(j.text), n, x)
<1>1. PICK n \in Nat :
         /\ Len(j.text) = 2 * n
         /\ Elements(j.text) \in Seq(Token) /\ Len(Elements(j.text)) = n
         /\ \A k \in 1 .. n :
               /\ j.text[2 * k - 1] = IF k = 1 THEN "[" ELSE ","
               /\ j.text[2 * k] \in Element
  BY JsonElements
<1> DEFINE a == IF j.text = <<>> THEN "[" ELSE ","
           text == j.text \o <<a, x>>
<1>2. j.text \in Seq(Token) /\ x \in Token /\ a \in Token
  BY DEF Json, Token
<1>3. Written(j, x) = [text |-> text, finished |-> FALSE]
  BY DEF Written
<1>4. a = IF n + 1 = 1 THEN "[" ELSE ","
  <2>1. j.text = <<>> <=> Len(j.text) = 0
    BY <1>2, EmptySeq
  <2>2. Len(j.text) = 0 <=> n + 1 = 1
    BY <1>1, OddPositions
  <2> QED
    BY <2>1, <2>2
<1> HIDE DEF a
<1>t. TextGrown(text, j.text, n, a, x)
  BY <1>1, <1>2, ElementsWritten
<1> HIDE DEF text
<1>5. /\ text \in Seq(Token)
      /\ Len(text) = 2 * (n + 1)
      /\ \A i \in 1 .. 2 * n : text[i] = j.text[i]
      /\ text[2 * n + 1] = a /\ text[2 * (n + 1)] = x
      /\ Elements(text) = Append(Elements(j.text), x)
  BY <1>t DEF TextGrown
<1>6. Written(j, x) \in Json /\ ~Written(j, x).finished /\ Written(j, x).text = text
  BY <1>3, <1>5, SMTT(60) DEF Json
<1>7. Shaped(Written(j, x))
  <2>1. ASSUME NEW k \in 1 .. n + 1
        PROVE  text[2 * k - 1] = (IF k = 1 THEN "[" ELSE ",") /\ text[2 * k] \in Element
    <3>1. CASE k \in 1 .. n
      <4>1. 2 * k - 1 \in 1 .. 2 * n /\ 2 * k \in 1 .. 2 * n
        BY <3>1, SMTT(60)
      <4> QED
        BY <1>1, <1>5, <3>1, <4>1
    <3>2. CASE k = n + 1
      <4>1. 2 * k - 1 = 2 * n + 1
        BY <3>2, SMTT(60)
      <4> QED
        BY <1>4, <1>5, <3>2, <4>1
    <3>3. k \in 1 .. n \/ k = n + 1
      BY SMTT(60)
    <3> QED
      BY <3>1, <3>2, <3>3
  <2>2. n + 1 \in Nat
    BY SMTT(60)
  <2>3. Len(Written(j, x).text) = 2 * (n + 1)
    BY <1>5, <1>6
  <2>4. \A k \in 1 .. n + 1 :
           /\ Written(j, x).text[2 * k - 1] = IF k = 1 THEN "[" ELSE ","
           /\ Written(j, x).text[2 * k] \in Element
    BY <1>6, <2>1
  <2> QED
    BY <1>6, <2>2, <2>3, <2>4, ShapedBy
<1>8. Grown(Elements(Written(j, x).text), Elements(j.text), n, x)
  <2>1. Grown(Append(Elements(j.text), x), Elements(j.text), n, x)
    BY <1>1, <1>2, LongerGrown
  <2> QED
    BY <1>5, <1>6, <2>1
<1> QED
  BY <1>1, <1>6, <1>7, <1>8

LEMMA FinishedOne ==
    ASSUME NEW j \in Json, Shaped(j)
    PROVE  /\ Finished(j) \in Json /\ Shaped(Finished(j)) /\ Finished(j).finished
           /\ Elements(Finished(j).text) = Elements(j.text)
<1>1. CASE j.finished
  BY <1>1 DEF Finished
<1>2. CASE ~j.finished
  <2>1. PICK n \in Nat :
           /\ Len(j.text) = 2 * n
           /\ \A k \in 1 .. n :
                 /\ j.text[2 * k - 1] = IF k = 1 THEN "[" ELSE ","
                 /\ j.text[2 * k] \in Element
    BY <1>2, JsonElements
  <2> DEFINE text == Append(j.text, "]")
  <2>2. j.text \in Seq(Token) /\ "]" \in Token
    BY DEF Json, Token
  <2>t. TextClosed(text, j.text, n, "]")
    BY <2>1, <2>2, ElementsFinished
  <2>4. Finished(j) = [text |-> text, finished |-> TRUE]
    BY <1>2 DEF Finished
  <2> HIDE DEF text
  <2>3. /\ text \in Seq(Token)
        /\ Len(text) = 2 * n + 1
        /\ \A i \in 1 .. 2 * n : text[i] = j.text[i]
        /\ text[2 * n + 1] = "]"
        /\ Elements(text) = Elements(j.text)
    BY <2>t DEF TextClosed
  <2>5. Finished(j) \in Json /\ Finished(j).finished /\ Finished(j).text = text
    BY <2>3, <2>4, SMTT(60) DEF Json
  <2>6. \A k \in 1 .. n : 2 * k - 1 \in 1 .. 2 * n /\ 2 * k \in 1 .. 2 * n
    BY SMTT(60)
  <2>7. Shaped(Finished(j))
    <3>1. Len(Finished(j).text) = 2 * n + 1 /\ Finished(j).text[2 * n + 1] = "]"
      BY <2>3, <2>5
    <3>2. \A k \in 1 .. n :
             /\ Finished(j).text[2 * k - 1] = IF k = 1 THEN "[" ELSE ","
             /\ Finished(j).text[2 * k] \in Element
      BY <2>1, <2>3, <2>5, <2>6
    <3> QED
      BY <2>5, <3>1, <3>2, ShapedBy
  <2> QED
    BY <2>3, <2>5, <2>7
<1> QED
  BY <1>1, <1>2

\* A closed report of at least one element is a JSON array.
LEMMA ArrayClosed ==
    ASSUME NEW j \in Json, Shaped(j), j.finished, Elements(j.text) # <<>>
    PROVE  IsArray(j.text)
<1>1. PICK n \in Nat :
         /\ Len(j.text) = 2 * n + 1
         /\ Elements(j.text) \in Seq(Token) /\ Len(Elements(j.text)) = n
         /\ \A k \in 1 .. n : j.text[2 * k - 1] = IF k = 1 THEN "[" ELSE ","
         /\ j.text[2 * n + 1] = "]"
  BY JsonElements
<1>2. n # 0
  BY <1>1, EmptySeq
<1>3. Len(j.text) >= 3 /\ Len(j.text) % 2 = 1
  <2>1. 2 * n + 1 >= 3
    BY <1>2, OddPositions
  <2>2. (2 * n + 1) % 2 = 1
    BY Half
  <2> QED
    BY <1>1, <2>1, <2>2
<1>4. ASSUME NEW i \in 1 .. Len(j.text), i % 2 = 1
      PROVE  j.text[i] = (IF i = 1 THEN "[" ELSE IF i = Len(j.text) THEN "]" ELSE ",")
  <2>1. CASE i = 2 * n + 1
    <3>1. i # 1 /\ i = Len(j.text)
      BY <1>1, <1>2, <2>1, OddPositions
    <3> QED
      BY <1>1, <2>1, <3>1
  <2>2. CASE i # 2 * n + 1
    <3>1. PICK k \in 1 .. n : i = 2 * k - 1 /\ (i = 1 <=> k = 1)
      <4>1. i \in 1 .. 2 * n + 1 /\ i % 2 = 1
        BY <1>1, <1>4
      <4> QED
        BY <2>2, <4>1, OddPositions
    <3> QED
      BY <1>1, <2>2, <3>1
  <2> QED
    BY <2>1, <2>2
<1> QED
  BY <1>3, <1>4 DEF IsArray

-----------------------------------------------------------------------------
(***************************************************************************)
(* The policy engine.                                                      *)
(***************************************************************************)
LEMMA BeginsLike ==
    ASSUME NEW T, NEW text \in Seq(T), NEW path \in Seq(T), NEW x \in T,
           starts_with(text, Append(path, x))
    PROVE  starts_with(text, path)
<1> DEFINE n == Len(path)
           below == Append(path, x)
<1>1. n \in Nat /\ Len(text) \in Nat
  BY LenProperties
<1>2. Len(below) = n + 1 /\ \A i \in 1 .. n : below[i] = path[i]
  BY SMTT(60)
<1>3. n + 1 <= Len(text) /\ SubSeq(text, 1, n + 1) = below
  BY <1>2 DEF starts_with
<1> HIDE DEF n, below
<1>4. n <= Len(text)
  BY <1>1, <1>3, SMTT(60)
<1>5. \A i \in 1 .. n : SubSeq(text, 1, n + 1)[i] = text[i]
  BY <1>1, <1>3, SMTT(60)
<1>6. /\ SubSeq(text, 1, n) \in Seq(T) /\ Len(SubSeq(text, 1, n)) = n
      /\ \A i \in 1 .. n : SubSeq(text, 1, n)[i] = text[i]
  BY <1>1, <1>4, SMTT(60)
<1>7. \A i \in 1 .. n : SubSeq(text, 1, n)[i] = path[i]
  BY <1>2, <1>3, <1>5, <1>6
<1>8. SubSeq(text, 1, n) = path
  BY <1>6, <1>7, SeqEqual DEF n
<1> QED
  BY <1>4, <1>8 DEF starts_with, n

\* A path at or below a denied one begins like it.
LEMMA BelowPath ==
    ASSUME NEW text \in Text, NEW path \in Text,
           text = path \/ starts_with(text, Append(path, "/"))
    PROVE  starts_with(text, path)
<1>1. CASE text = path
  <2>1. SubSeq(path, 1, Len(path)) = path /\ Len(path) \in Nat
    BY SubSeqFull, LenProperties DEF Text
  <2>2. Len(path) <= Len(path)
    BY <2>1, SMTT(60)
  <2> QED
    BY <1>1, <2>1, <2>2 DEF starts_with
<1>2. CASE starts_with(text, Append(path, "/"))
  <2> DEFINE T == STRING \cup {"/"}
  <2>1. text \in Seq(T) /\ path \in Seq(T) /\ "/" \in T
    BY SeqMonotonic DEF Text
  <2> QED
    BY <1>2, <2>1, BeginsLike
<1> QED
  BY <1>1, <1>2

\* Engine::evaluate records one violation, of the event's context, or none.
OneAtMost(found, e) == found = <<>> \/ \E v \in Violation : found = <<v>> /\ v.context = e.context

LEMMA Evaluated ==
    ASSUME NEW e \in TraceEvent, e.context \in 0 .. MaxEvents + 1, NEW count
    PROVE  OneAtMost(evaluate(e, count), e)
<1>1. e.resource \in Resource /\ e.syscall \in Resource /\ <<"process">> \in Resource
  BY DEF TraceEvent, Resource
<1> DEFINE found(rule, resource) ==
              <<[rule |-> rule, resource |-> resource, context |-> e.context]>>
<1>2. ASSUME NEW rule \in Rules, NEW resource \in Resource PROVE OneAtMost(found(rule, resource), e)
  <2> DEFINE v == [rule |-> rule, resource |-> resource, context |-> e.context]
  <2>1. v \in Violation
    BY DEF Violation
  <2>2. v.context = e.context
    OBVIOUS
  <2> QED
    BY <2>1, <2>2 DEF OneAtMost
<1>3. \/ evaluate(e, count) = <<>>
      \/ evaluate(e, count) = found("denied-path", e.resource)
      \/ evaluate(e, count) = found("denied-endpoint", e.resource)
      \/ evaluate(e, count) = found("denied-syscall", e.syscall)
      \/ evaluate(e, count) = found("process-limit", <<"process">>)
  BY DEF evaluate
<1> HIDE DEF found
<1>4. OneAtMost(<<>>, e)
  BY DEF OneAtMost
<1> QED
  BY <1>1, <1>2, <1>3, <1>4 DEF Rules

\* No forbidden event passes the engine.
LEMMA Caught ==
    ASSUME config \in Config, NEW e \in TraceEvent, NEW count, Banned(config, e, count)
    PROVE  evaluate(e, count) # <<>>
<1>1. \A v : <<v>> # <<>>
  BY SMTT(60)
<1>2. ASSUME NEW path \in config.denied_paths,
             e.resource = path \/ starts_with(e.resource, Append(path, "/"))
      PROVE  matches(config.denied_paths, e.resource)
  <2>1. path \in Text /\ e.resource \in Text
    BY DEF Config, TraceEvent
  <2> QED
    BY <1>2, <2>1, BelowPath DEF matches
<1>3. (\E d \in config.denied_endpoints : starts_with(e.resource, d)) =>
         matches(config.denied_endpoints, e.resource)
  BY DEF matches
<1> QED
  BY <1>1, <1>2, <1>3 DEF Banned, evaluate

-----------------------------------------------------------------------------
(***************************************************************************)
(* An event and its violation.                                             *)
(***************************************************************************)
\* F is E, which has n members, with the event behind them and then, where one
\* was found, its violation.
Continued(F, E, n, e, found) ==
    \/ found = <<>> /\ Grown(F, E, n, e)
    \/ \E v \in Violation : \E G :
          /\ found = <<v>> /\ v.context = e.context
          /\ Grown(G, E, n, e)
          /\ Grown(F, G, n + 1, PolicyViolation(v))

LEMMA OnlyOne ==
    ASSUME NEW v
    PROVE  <<v>> # <<>> /\ <<v>>[1] = v /\ Len(<<v>>) = 1
BY SMTT(60)

LEMMA ViolationFields ==
    ASSUME NEW v \in Violation
    PROVE  /\ PolicyViolation(v).kind = "PolicyViolation"
           /\ PolicyViolation(v).context = v.context
           /\ PolicyViolation(v) \in Element
<1>1. PolicyViolation(v).kind = "PolicyViolation" /\ PolicyViolation(v).context = v.context
  BY DEF PolicyViolation
<1>2. v.rule \in Rules /\ v.resource \in Resource /\ v.context \in 0 .. MaxEvents + 1
  BY DEF Violation
<1>3. v.context \in Nat
  BY <1>2, MaxEventsAssumption, SMTT(60)
<1>4. <<>> \in Text
  BY EmptySeq DEF Text
<1>5. PolicyViolation(v) \in ViolationElement
  BY <1>2, <1>3, <1>4 DEF PolicyViolation, ViolationElement
<1> QED
  BY <1>1, <1>5 DEF Element

LEMMA EventFields ==
    ASSUME NEW e \in TraceEvent
    PROVE  e.kind \in Kinds /\ e.kind # "PolicyViolation" /\ e \in Element
<1>1. e \in [kind : Kinds, resource : Text, syscall : Text, context : Nat] /\ e.kind \in Kinds
  BY DEF TraceEvent
<1>2. e \in EventElement
  BY <1>1 DEF EventElement
<1> QED
  BY <1>1, <1>2 DEF Kinds, Element

\* What policy::Reporter hands to the JSON reporter for one event.
LEMMA WrittenPair ==
    ASSUME NEW j \in Json, Shaped(j), ~j.finished, NEW e \in TraceEvent,
           NEW found, OneAtMost(found, e)
    PROVE  /\ WrittenBoth(j, e, found) \in Json /\ Shaped(WrittenBoth(j, e, found))
           /\ ~WrittenBoth(j, e, found).finished
           /\ \E n \in Nat :
                 Continued(Elements(WrittenBoth(j, e, found).text), Elements(j.text), n, e, found)
<1> DEFINE k == Written(j, e)
<1>1. /\ k \in Json /\ Shaped(k) /\ ~k.finished
      /\ \E n \in Nat : Grown(Elements(k.text), Elements(j.text), n, e)
  BY EventFields, WrittenOne
<1> HIDE DEF k
<1>2. CASE found = <<>>
  <2>1. WrittenBoth(j, e, found) = k
    BY <1>2 DEF WrittenBoth, k
  <2> QED
    BY <1>1, <1>2, <2>1 DEF Continued
<1>3. CASE found # <<>>
  <2>1. PICK v \in Violation : found = <<v>> /\ v.context = e.context
    BY <1>3 DEF OneAtMost
  <2> DEFINE x == PolicyViolation(v)
             l == Written(k, x)
  <2>2. x \in Element
    BY ViolationFields
  <2>3. found[1] = v
    BY <2>1, OnlyOne
  <2>4. WrittenBoth(j, e, found) = l
    BY <1>3, <2>3 DEF WrittenBoth, k
  <2> HIDE DEF x
  <2>5. /\ l \in Json /\ Shaped(l) /\ ~l.finished
        /\ \E m \in Nat : /\ Len(Elements(k.text)) = m
                          /\ Grown(Elements(l.text), Elements(k.text), m, x)
    BY <1>1, <2>2, WrittenOne
  <2> HIDE DEF l
  <2>6. PICK n \in Nat : Grown(Elements(k.text), Elements(j.text), n, e)
    BY <1>1
  <2>7. PICK m \in Nat : /\ Len(Elements(k.text)) = m
                         /\ Grown(Elements(l.text), Elements(k.text), m, x)
    BY <2>5
  <2>8. m = n + 1
    <3>1. DOMAIN Elements(k.text) = 1 .. m
      BY <2>7 DEF Grown
    <3>2. DOMAIN Elements(k.text) = 1 .. n + 1
      BY <2>6, Fresh DEF Grown
    <3>3. 1 .. m = 1 .. n + 1
      BY <3>1, <3>2
    <3> QED
      BY <3>3, SMTT(60)
  <2>9. Continued(Elements(l.text), Elements(j.text), n, e, found)
    BY <2>1, <2>6, <2>7, <2>8 DEF Continued, x
  <2> QED
    BY <2>4, <2>5, <2>9
<1> QED
  BY <1>2, <1>3

LEMMA TellsBoth ==
    ASSUME NEW F, NEW E, NEW n, NEW e, NEW found, Continued(F, E, n, e, found),
           e.kind # "PolicyViolation",
           NEW events, NEW more, NEW m, Grown(more, events, m, e),
           Len(events) = m, Len(more) = m + 1, Tells(E, events)
    PROVE  Tells(F, more)
<1>1. CASE Grown(F, E, n, e)
  BY <1>1, TellsEvent
<1>2. ASSUME NEW v \in Violation, NEW G, Grown(G, E, n, e), Grown(F, G, n + 1, PolicyViolation(v))
      PROVE  Tells(F, more)
  <2>1. Tells(G, more)
    BY <1>2, TellsEvent
  <2>2. PolicyViolation(v).kind = "PolicyViolation"
    BY ViolationFields
  <2> QED
    BY <1>2, <2>1, <2>2, TellsViolation
<1> QED
  BY <1>1, <1>2 DEF Continued

LEMMA AttachedBoth ==
    ASSUME NEW F, NEW E, NEW n, NEW e, NEW found, Continued(F, E, n, e, found),
           e.kind # "PolicyViolation", Attached(E)
    PROVE  Attached(F)
<1>1. CASE Grown(F, E, n, e)
  BY <1>1, AttachedEvent
<1>2. ASSUME NEW v \in Violation, NEW G, v.context = e.context,
             Grown(G, E, n, e), Grown(F, G, n + 1, PolicyViolation(v))
      PROVE  Attached(F)
  <2>1. Attached(G)
    BY <1>2, AttachedEvent
  <2>2. n + 1 \in DOMAIN G /\ G[n + 1] = e
    BY <1>2 DEF Grown
  <2>3. PolicyViolation(v).kind = "PolicyViolation" /\ PolicyViolation(v).context = e.context
    BY <1>2, ViolationFields
  <2> QED
    BY <1>2, <2>1, <2>2, <2>3, AttachedViolation
<1> QED
  BY <1>1, <1>2 DEF Continued

LEMMA CountedType ==
    ASSUME NEW s \in [Counters -> Nat], NEW x
    PROVE  Counted(s, x) \in [Counters -> Nat]
BY SMTT(60) DEF Counted

LEMMA CountedBothType ==
    ASSUME NEW s \in [Counters -> Nat], NEW e, NEW found
    PROVE  CountedBoth(s, e, found) \in [Counters -> Nat]
BY CountedType DEF CountedBoth

LEMMA CountsBoth ==
    ASSUME NEW F, NEW E, NEW n, NEW e, NEW found, Continued(F, E, n, e, found),
           NEW s \in [Counters -> Nat], Counts(E, s)
    PROVE  Counts(F, CountedBoth(s, e, found))
<1>1. CASE found = <<>> /\ Grown(F, E, n, e)
  BY <1>1, CountsGrown DEF CountedBoth
<1>2. ASSUME NEW v \in Violation, NEW G, found = <<v>>,
             Grown(G, E, n, e), Grown(F, G, n + 1, PolicyViolation(v))
      PROVE  Counts(F, CountedBoth(s, e, found))
  <2>1. Counted(s, e) \in [Counters -> Nat] /\ Counts(G, Counted(s, e))
    BY <1>2, CountsGrown
  <2>2. Counts(F, Counted(Counted(s, e), PolicyViolation(v)))
    BY <1>2, <2>1, CountsGrown
  <2>3. found # <<>> /\ found[1] = v
    BY <1>2, OnlyOne
  <2> QED
    BY <2>2, <2>3 DEF CountedBoth
<1> QED
  BY <1>1, <1>2 DEF Continued

\* A violation has no counter.
LEMMA Uncounted ==
    ASSUME NEW s, NEW e, NEW found, OneAtMost(found, e)
    PROVE  CountedBoth(s, e, found) = Counted(s, e)
<1>1. \A v, t : Counted(t, PolicyViolation(v)) = t
  BY DEF Counted, PolicyViolation, Counters
<1> QED
  BY <1>1 DEF CountedBoth

\* The violations of the longer report.
LEMMA ViolatedBoth ==
    ASSUME NEW F, NEW E, NEW n, NEW e, NEW found, Continued(F, E, n, e, found),
           e.kind # "PolicyViolation"
    PROVE  /\ Cardinality(Violated(E)) \in Nat
           /\ Cardinality(Violated(F)) = Cardinality(Violated(E)) + Len(found)
           /\ \A i \in Violated(E) : i \in Violated(F) /\ F[i] = E[i]
           /\ found # <<>> => \E i \in Violated(F) : F[i].context = e.context
<1>1. CASE found = <<>> /\ Grown(F, E, n, e)
  <2>1. Violated(F) = Violated(E) /\ Violated(E) \subseteq 1 .. n
    BY <1>1, ViolatedGrown
  <2>2. n \in Nat /\ \A i \in 1 .. n : F[i] = E[i]
    BY <1>1 DEF Grown
  <2>3. Cardinality(Violated(E)) \in Nat
    BY <2>1, <2>2, Positions
  <2>4. Len(found) = 0
    BY <1>1, EmptySeq
  <2>5. Cardinality(Violated(E)) = Cardinality(Violated(E)) + 0
    BY <2>3, SMTT(60)
  <2> QED
    BY <1>1, <2>1, <2>2, <2>3, <2>4, <2>5
<1>2. ASSUME NEW v \in Violation, NEW G, found = <<v>>, v.context = e.context,
             Grown(G, E, n, e), Grown(F, G, n + 1, PolicyViolation(v))
      PROVE  /\ Cardinality(Violated(E)) \in Nat
             /\ Cardinality(Violated(F)) = Cardinality(Violated(E)) + Len(found)
             /\ \A i \in Violated(E) : i \in Violated(F) /\ F[i] = E[i]
             /\ \E i \in Violated(F) : F[i].context = e.context
  <2>1. Violated(G) = Violated(E) /\ Violated(E) \subseteq 1 .. n
    <3>1. Grown(G, E, n, e)
      BY <1>2
    <3> QED
      BY <3>1, ViolatedGrown
  <2>2. PolicyViolation(v).kind = "PolicyViolation" /\ PolicyViolation(v).context = e.context
    BY <1>2, ViolationFields
  <2>3. Violated(F) = Violated(G) \cup {(n + 1) + 1} /\ Violated(G) \subseteq 1 .. n + 1
    BY <1>2, <2>2, ViolatedGrown
  <2>4. /\ n + 1 \in Nat /\ F[(n + 1) + 1] = PolicyViolation(v)
        /\ \A i \in 1 .. n + 1 : F[i] = G[i]
        /\ \A i \in 1 .. n : G[i] = E[i]
    BY <1>2 DEF Grown
  <2>5. /\ Cardinality(Violated(G)) \in Nat
        /\ Cardinality(Violated(F)) = Cardinality(Violated(G)) + 1
    BY <2>3, <2>4, Positions
  <2>6. Len(found) = 1
    BY <1>2, OnlyOne
  <2>7. \A i \in Violated(E) : F[i] = E[i]
    BY <2>1, <2>3, <2>4
  <2> QED
    BY <2>1, <2>2, <2>3, <2>4, <2>5, <2>6, <2>7
<1> QED
  BY <1>1, <1>2 DEF Continued

-----------------------------------------------------------------------------
(***************************************************************************)
(* An event is reported.                                                   *)
(***************************************************************************)
LEMMA Reported ==
    ASSUME Typed, NEW e \in TraceEvent, e.context \in 0 .. MaxEvents + 1, Report(e)
    PROVE  \E found :
              /\ OneAtMost(found, e)
              /\ Downstream(Chain, e, found)
              /\ violations' = violations \o found
              /\ process_count' = process_count + (IF command = "trace" THEN 0 ELSE Spawned(e))
              /\ command # "trace" => found = evaluate(e, process_count')
              /\ config' = config
              /\ reported' = Append(reported, e)
<1>1. CASE command = "trace"
  <2>1. Downstream(Chain, e, <<>>) /\ UNCHANGED policy /\ reported' = Append(reported, e)
    BY <1>1 DEF Report
  <2>2. OneAtMost(<<>>, e)
    BY DEF OneAtMost
  <2>3. violations = violations \o <<>>
    BY ConcatEmptySeq DEF Typed
  <2>4. process_count = process_count + 0
    BY SMTT(60) DEF Typed
  <2> QED
    BY <1>1, <2>1, <2>2, <2>3, <2>4 DEF policy
<1>2. CASE command # "trace"
  <2> DEFINE found == evaluate(e, process_count + Spawned(e))
  <2>1. /\ process_count' = process_count + Spawned(e)
        /\ violations' = violations \o found
        /\ Downstream(Chain, e, found)
        /\ config' = config
        /\ reported' = Append(reported, e)
    BY <1>2 DEF Report, report
  <2>2. OneAtMost(found, e)
    BY Evaluated
  <2> QED
    BY <1>2, <2>1, <2>2
<1> QED
  BY <1>1, <1>2

LEMMA SpawnedBit ==
    ASSUME NEW e
    PROVE  Spawned(e) \in {0, 1} /\ (Spawned(e) = 1 <=> e.kind = "ProcessSpawned")
<1>1. 0 # 1
  BY SMTT(60)
<1> QED
  BY <1>1 DEF Spawned

\* Engine, summary and JSON reporter keep their types.
LEMMA TypedReport ==
    ASSUME Typed, Shaped(json), ~json.finished,
           NEW e \in TraceEvent, e.context \in 0 .. MaxEvents + 1, Report(e)
    PROVE  /\ config' \in Config
           /\ process_count' \in Nat
           /\ violations' \in Seq(Violation)
           /\ summary' \in [Counters -> Nat]
           /\ json' \in Json /\ Shaped(json)' /\ ~json'.finished
           /\ reported' \in Seq(TraceEvent) /\ Len(reported') = Len(reported) + 1
           /\ reported' # <<>>
           /\ Grown(reported', reported, Len(reported), e)
<1>1. PICK found :
         /\ OneAtMost(found, e)
         /\ Downstream(Chain, e, found)
         /\ violations' = violations \o found
         /\ process_count' = process_count + (IF command = "trace" THEN 0 ELSE Spawned(e))
         /\ config' = config
         /\ reported' = Append(reported, e)
  BY Reported
<1>2. config' \in Config
  BY <1>1 DEF Typed
<1>3. process_count' \in Nat
  <2>1. process_count + 0 \in Nat /\ process_count + 1 \in Nat
    BY SMTT(60) DEF Typed
  <2> QED
    BY <1>1, <2>1, SpawnedBit
<1>4. violations' \in Seq(Violation)
  <2>1. \A v \in Violation : <<v>> \in Seq(Violation)
    BY SMTT(60)
  <2>2. found \in Seq(Violation)
    BY <1>1, <2>1, EmptySeq DEF OneAtMost
  <2> QED
    BY <1>1, <2>2, ConcatProperties DEF Typed
<1>5. summary' \in [Counters -> Nat]
  BY <1>1, CountedBothType DEF Downstream, Typed
<1>6. json' \in Json /\ Shaped(json') /\ ~json'.finished
  <2>1. json \in Json
    BY DEF Typed
  <2>2. CASE "json" \in Chain
    <3>1. json' = WrittenBoth(json, e, found)
      BY <1>1, <2>2 DEF Downstream
    <3> QED
      BY <1>1, <2>1, <3>1, WrittenPair
  <2>3. CASE "json" \notin Chain
    <3>1. json' = json
      BY <1>1, <2>3 DEF Downstream
    <3> QED
      BY <2>1, <3>1
  <2> QED
    BY <2>2, <2>3
<1>7. /\ reported' \in Seq(TraceEvent) /\ Len(reported') = Len(reported) + 1
      /\ reported' # <<>>
  <2>1. reported \in Seq(TraceEvent) /\ reported' = Append(reported, e)
    BY <1>1 DEF Typed
  <2> QED
    BY <2>1, SMTT(60)
<1>8. Grown(reported', reported, Len(reported), e)
  <2>1. reported \in Seq(TraceEvent) /\ Len(reported) \in Nat
    BY LenProperties DEF Typed
  <2> QED
    BY <1>1, <2>1, LongerGrown
<1>9. Shaped(json)'
  BY <1>6 DEF Shaped
<1> QED
  BY <1>2, <1>3, <1>4, <1>5, <1>6, <1>7, <1>8, <1>9

\* Forbidden, with the number of processes as process_count has it.
LEMMA ForbiddenIs ==
    ASSUME NEW i
    PROVE  Forbidden(i) <=> Banned(config, reported[i], Cardinality(Spawns(reported, i)))
BY DEF Forbidden, Banned, Spawns

\* A later event does not change what is forbidden of an earlier one.
LEMMA ForbiddenKept ==
    ASSUME NEW c, NEW S, NEW T, NEW e, NEW n \in Nat, Grown(T, S, n, e), NEW i \in 1 .. n
    PROVE  Banned(c, T[i], Cardinality(Spawns(T, i))) <=> Banned(c, S[i], Cardinality(Spawns(S, i)))
<1>1. T[i] = S[i] /\ \A j \in 1 .. i : T[j] = S[j]
  BY Fresh DEF Grown
<1>2. Spawns(T, i) = Spawns(S, i)
  BY <1>1 DEF Spawns
<1> QED
  BY <1>1, <1>2

\* The engine has counted every process of the trace.
LEMMA SpawnsGrown ==
    ASSUME NEW S, NEW T, NEW e, NEW n \in Nat, Grown(T, S, n, e)
    PROVE  /\ Cardinality(Spawns(S, n)) \in Nat
           /\ Cardinality(Spawns(T, n + 1)) = Cardinality(Spawns(S, n)) + Spawned(e)
<1>1. /\ \A i \in 1 .. n : T[i] = S[i]
      /\ T[n + 1] = e /\ 1 .. n + 1 = (1 .. n) \cup {n + 1}
  BY Fresh DEF Grown
<1>2. /\ Cardinality(Spawns(S, n)) \in Nat
      /\ Cardinality(Spawns(S, n) \cup {n + 1}) = Cardinality(Spawns(S, n)) + 1
  <2>1. Spawns(S, n) \subseteq 1 .. n
    BY DEF Spawns
  <2> QED
    BY <2>1, Positions
<1>3. CASE e.kind = "ProcessSpawned"
  <2>1. Spawns(T, n + 1) = Spawns(S, n) \cup {n + 1}
    BY <1>1, <1>3 DEF Spawns
  <2> QED
    BY <1>2, <1>3, <2>1 DEF Spawned
<1>4. CASE e.kind # "ProcessSpawned"
  <2>1. Spawns(T, n + 1) = Spawns(S, n)
    BY <1>1, <1>4 DEF Spawns
  <2>2. Cardinality(Spawns(S, n)) = Cardinality(Spawns(S, n)) + 0
    BY <1>2, SMTT(60)
  <2> QED
    BY <1>2, <1>4, <2>1, <2>2 DEF Spawned
<1> QED
  BY <1>3, <1>4

LEMMA ChainKept ==
    ASSUME UNCHANGED <<command, options>>
    PROVE  Chain' = Chain
BY DEF Chain

\* The reports still agree with each other and with the trace.
LEMMA NarratedReport ==
    ASSUME Typed, Shaped(json), ~json.finished, Sequenced, Narrated, UNCHANGED <<command, options>>,
           NEW e \in TraceEvent, e.context \in 0 .. MaxEvents + 1, Report(e)
    PROVE  Narrated'
<1> DEFINE E == Elements(json.text)
           F == Elements(json'.text)
           m == Len(reported)
<1> SUFFICES ASSUME "json" \in Chain
             PROVE  /\ Tells(F, reported')
                    /\ Attached(F)
                    /\ command # "trace" =>
                          Answered(config, reported', F) /\ Len(violations') = Cardinality(Violated(F))
                    /\ command = "analyze" => Counts(F, summary') /\ Counts(reported', summary')
  <2>1. config' = config
    BY Reported
  <2> QED
    BY <2>1, ChainKept DEF Narrated
<1>1. /\ Tells(E, reported) /\ Attached(E)
      /\ command # "trace" => Answered(config, reported, E) /\ Len(violations) = Cardinality(Violated(E))
      /\ command = "analyze" => Counts(E, summary) /\ Counts(reported, summary)
  BY DEF Narrated
<1>2. PICK found :
         /\ OneAtMost(found, e)
         /\ Downstream(Chain, e, found)
         /\ violations' = violations \o found
         /\ process_count' = process_count + (IF command = "trace" THEN 0 ELSE Spawned(e))
         /\ command # "trace" => found = evaluate(e, process_count')
         /\ config' = config
  BY Reported
<1>3. json' = WrittenBoth(json, e, found)
  BY <1>2 DEF Downstream
<1>4. PICK n \in Nat : Continued(F, E, n, e, found)
  <2>1. json \in Json
    BY DEF Typed
  <2> QED
    BY <1>2, <1>3, <2>1, WrittenPair
<1>5. e.kind # "PolicyViolation"
  BY EventFields
<1>6. m \in Nat /\ Len(reported') = m + 1 /\ Grown(reported', reported, m, e)
  BY TypedReport, LenProperties DEF Typed
<1> HIDE DEF E, F, m
<1>7. Tells(F, reported')
  BY <1>1, <1>4, <1>5, <1>6, TellsBoth DEF m
<1>8. Attached(F)
  BY <1>1, <1>4, <1>5, AttachedBoth
<1>9. /\ Cardinality(Violated(F)) = Cardinality(Violated(E)) + Len(found)
      /\ \A i \in Violated(E) : i \in Violated(F) /\ F[i] = E[i]
      /\ found # <<>> => \E i \in Violated(F) : F[i].context = e.context
  BY <1>4, <1>5, ViolatedBoth, SMTT(60)
<1>10. ASSUME command # "trace" PROVE Len(violations') = Cardinality(Violated(F))
  <2>1. \A v \in Violation : <<v>> \in Seq(Violation)
    BY SMTT(60)
  <2>2. found \in Seq(Violation)
    BY <1>2, <2>1, EmptySeq DEF OneAtMost
  <2>3. Len(violations') = Len(violations) + Len(found)
    <3>1. violations \in Seq(Violation)
      BY DEF Typed
    <3> QED
      BY <1>2, <2>2, <3>1, ConcatProperties
  <2> QED
    BY <1>1, <1>9, <1>10, <2>3
<1>11. ASSUME command # "trace" PROVE Answered(config, reported', F)
  <2> DEFINE Ban(i) == Banned(config, reported'[i], Cardinality(Spawns(reported', i)))
             Due(i) == \E j \in Violated(F) : F[j].context = reported'[i].context
  <2>1. ASSUME NEW i \in 1 .. m, Ban(i) PROVE Due(i)
    <3>1. Banned(config, reported[i], Cardinality(Spawns(reported, i)))
      BY <1>6, <2>1, ForbiddenKept
    <3>2. reported'[i] = reported[i] /\ i \in DOMAIN reported
      BY <1>6 DEF Grown
    <3>3. PICK j \in Violated(E) : E[j].context = reported[i].context
      BY <1>1, <1>11, <3>1, <3>2 DEF Answered
    <3> QED
      BY <1>9, <3>2, <3>3
  <2>2. ASSUME Ban(m + 1) PROVE Due(m + 1)
    <3>1. reported'[m + 1] = e
      BY <1>6 DEF Grown
    <3>2. process_count = Cardinality(Spawns(reported, m)) /\ process_count' = process_count + Spawned(e)
      BY <1>2, <1>11 DEF Sequenced, m
    <3>3. Cardinality(Spawns(reported', m + 1)) = process_count'
      BY <1>6, <3>2, SpawnsGrown, SMTT(60)
    <3>4. found # <<>>
      BY <1>2, <1>11, <2>2, <3>1, <3>3, Caught DEF Typed
    <3> QED
      BY <1>9, <3>1, <3>4
  <2>3. DOMAIN reported' = (1 .. m) \cup {m + 1}
    BY <1>6 DEF Grown
  <2> QED
    BY <2>1, <2>2, <2>3 DEF Answered
<1>12. ASSUME command = "analyze" PROVE Counts(F, summary') /\ Counts(reported', summary')
  <2>1. summary' = CountedBoth(summary, e, found)
    BY <1>2, <1>12 DEF Downstream, Chain
  <2>2. Counts(F, summary')
    BY <1>1, <1>4, <1>12, <2>1, CountsBoth DEF Typed
  <2>3. summary' = Counted(summary, e)
    BY <1>2, <2>1, Uncounted
  <2>4. Counts(reported', summary')
    BY <1>1, <1>6, <1>12, <2>3, CountsGrown DEF Typed
  <2> QED
    BY <2>2, <2>4
<1> QED
  BY <1>7, <1>8, <1>10, <1>11, <1>12

\* The bounds of a trace leave room for TraceFinished.
LEMMA SequencedReport ==
    ASSUME Typed, Shaped(json), ~json.finished, Sequenced, command' = command,
           pc = "trace", pc' \in {"trace", "finish"},
           NEW e \in TraceEvent, e.context = Len(reported), Report(e),
           pc' = "trace" => Len(reported) <= MaxEvents,
           e.kind = "ProcessSpawned" => reported # <<>> /\ Len(reported) <= MaxEvents
    PROVE  Sequenced'
<1> DEFINE m == Len(reported)
<1>1. m \in Nat /\ m <= MaxEvents + 1 /\ (reported = <<>> <=> m = 0) /\ MaxEvents \in Nat
  <2>1. m \in Nat /\ (reported = <<>> <=> m = 0)
    BY LenProperties, EmptySeq DEF Typed
  <2>2. m <= MaxEvents + 1
    BY DEF Sequenced
  <2> QED
    BY <2>1, <2>2, MaxEventsAssumption
<1>2. e.context \in 0 .. MaxEvents + 1
  BY <1>1, SMTT(60)
<1>3. Len(reported') = m + 1 /\ reported' # <<>> /\ Grown(reported', reported, m, e)
  BY <1>2, TypedReport
<1>4. process_count' = process_count + (IF command = "trace" THEN 0 ELSE Spawned(e))
  BY <1>2, Reported
<1> HIDE DEF m
<1>5. \A i \in DOMAIN reported' : reported'[i].context = i - 1
  <2>1. (m + 1) - 1 = m
    BY <1>1, SMTT(60)
  <2> QED
    BY <1>3, <2>1 DEF Grown, Sequenced, m
<1>6. command # "trace" => process_count' = Cardinality(Spawns(reported', m + 1))
  <2>1. Cardinality(Spawns(reported', m + 1)) = Cardinality(Spawns(reported, m)) + Spawned(e)
    BY <1>1, <1>3, SpawnsGrown, SMTT(60)
  <2>2. command # "trace" => process_count = Cardinality(Spawns(reported, m))
    BY DEF Sequenced, m
  <2> QED
    BY <1>4, <2>1, <2>2
<1>7. /\ process_count' \in {process_count, process_count + 1}
      /\ process_count' # process_count => e.kind = "ProcessSpawned"
  <2>1. process_count \in Nat /\ process_count + 0 = process_count
    BY SMTT(60) DEF Typed
  <2> QED
    BY <1>4, <2>1, SpawnedBit
<1>8. /\ process_count \in Nat /\ process_count <= MaxEvents
      /\ m # 0 => process_count < m
      /\ m = 0 => process_count = 0
  BY <1>1 DEF Typed, Sequenced, m
<1>9. e.kind = "ProcessSpawned" => m # 0 /\ m <= MaxEvents
  BY <1>1 DEF m
<1>10. process_count' <= MaxEvents /\ process_count' < m + 1
  BY <1>1, <1>7, <1>8, <1>9, SMTT(60)
<1>11. pc' = "trace" => m + 1 <= MaxEvents + 1
  <2>1. m <= MaxEvents => m + 1 <= MaxEvents + 1
    BY <1>1, SMTT(60)
  <2> QED
    BY <2>1 DEF m
<1>12. pc' \in Early \cup {"trace"} => pc' = "trace"
  BY DEF Early
<1> QED
  BY <1>3, <1>5, <1>6, <1>10, <1>11, <1>12 DEF Sequenced

-----------------------------------------------------------------------------
(***************************************************************************)
(* The events of a trace, the assessment and the result.                   *)
(***************************************************************************)
LEMMA EventType ==
    ASSUME NEW kind \in Kinds \cup Notes, NEW resource \in Text, NEW syscall \in Text,
           NEW context \in Nat
    PROVE  /\ Event(kind, resource, syscall, context) \in EventElement
           /\ Event(kind, resource, syscall, context).kind = kind
           /\ Event(kind, resource, syscall, context).resource = resource
           /\ Event(kind, resource, syscall, context).context = context
BY DEF Event, EventElement

LEMMA NoText == <<>> \in Text
BY EmptySeq DEF Text

\* What Emit hands to the reporter.
LEMMA EventsType ==
    ASSUME NEW n \in Nat, NEW e \in Events(n)
    PROVE  e \in TraceEvent /\ e.context = n
<1>1. ASSUME NEW path \in Paths, e = Event("FileOpened", path, <<>>, n)
      PROVE  e \in TraceEvent /\ e.context = n
  <2>1. path \in Text
    BY TextAssumption
  <2> QED
    BY <1>1, <2>1, NoText DEF Event, TraceEvent, Kinds
<1>2. ASSUME NEW endpoint \in Endpoints, e = Event("NetworkConnected", endpoint, <<>>, n)
      PROVE  e \in TraceEvent /\ e.context = n
  <2>1. endpoint \in Text
    BY TextAssumption
  <2> QED
    BY <1>2, <2>1, NoText DEF Event, TraceEvent, Kinds
<1>3. ASSUME NEW syscall \in Syscalls, e = Event("SyscallFailed", <<>>, syscall, n)
      PROVE  e \in TraceEvent /\ e.context = n
  <2>1. syscall \in Text
    BY TextAssumption
  <2> QED
    BY <1>3, <2>1, NoText DEF Event, TraceEvent, Kinds
<1>4. ASSUME NEW kind \in {"ProcessSpawned", "FileRenamed"}, e = Event(kind, <<>>, <<>>, n)
      PROVE  e \in TraceEvent /\ e.context = n
  BY <1>4, NoText DEF Event, TraceEvent, Kinds
<1> QED
  BY <1>1, <1>2, <1>3, <1>4 DEF Events

\* The thresholds of the score.
LEMMA Scores ==
    ASSUME NEW sum \in Nat
    PROVE  /\ Capped(sum) \in Nat
           /\ sum < 25 <=> ~(Capped(sum) >= 50) /\ ~(Capped(sum) >= 25)
BY SMTT(60) DEF Capped

\* Engine::assess allows below 25 and without a direct rejection.
LEMMA Allows ==
    ASSUME NEW sum \in Nat, NEW direct \in BOOLEAN
    PROVE  /\ assess(sum, direct) \in Assessment
           /\ assess(sum, direct).action = "allow" <=> ~direct /\ sum < 25
<1> DEFINE a == assess(sum, direct)
<1>1. a.action = IF direct \/ Capped(sum) >= 50 THEN "reject"
                 ELSE IF Capped(sum) >= 25 THEN "audit" ELSE "allow"
  BY DEF assess
<1>2. a.action = "allow" <=> ~direct /\ sum < 25
  BY <1>1, Scores
<1>3. a \in Assessment
  BY Scores DEF assess, Assessment, Level, Action
<1> QED
  BY <1>2, <1>3

\* Network activity reaches the threshold with a process or a failed call.
LEMMA AssessmentAllows ==
    ASSUME Typed
    PROVE  /\ assessment \in Assessment
           /\ assessment.action = "allow" <=>
                 /\ violations = <<>> /\ ~result.timed_out /\ ~result.output_limited
                 /\ result.exit_status = 0
                 /\ ~(/\ summary["NetworkConnected"] # 0
                      /\ summary["ProcessSpawned"] # 0 \/ summary["SyscallFailed"] # 0)
<1> DEFINE a == summary["NetworkConnected"]
           b == summary["ProcessSpawned"]
           c == summary["SyscallFailed"]
<1>1. a \in Nat /\ b \in Nat /\ c \in Nat
  BY DEF Typed, Counters
<1>2. Weight = (IF a # 0 THEN 20 ELSE 0) + (IF b # 0 THEN 5 ELSE 0) + (IF c # 0 THEN 10 ELSE 0)
  BY DEF Weight
<1> HIDE DEF a, b, c
<1>3. Weight \in Nat /\ (Weight < 25 <=> ~(a # 0 /\ (b # 0 \/ c # 0)))
  BY <1>1, <1>2, SMTT(60)
<1>4. Rejected \in BOOLEAN
  BY DEF Rejected
<1> QED
  BY <1>3, <1>4, Allows DEF assessment, Rejected, a, b, c

LEMMA BeforeLast ==
    ASSUME NEW T, NEW text \in Seq(T), ~(Len(text) < 2), NEW a \in T, NEW b \in T, NEW c \in T
    PROVE  SubSeq(text, 1, Len(text) - 1) \o <<a, b, c>> \in Seq(T)
BY SMTT(60)

LEMMA AppendedType ==
    ASSUME NEW text \in Seq(Token), NEW type \in Notes
    PROVE  append_event(text, type) \in Seq(Token)
<1>1. "," \in Token /\ "]" \in Token /\ 0 \in Nat
  BY DEF Token
<1>2. Event(type, <<>>, <<>>, 0) \in Token
  BY <1>1, NoText, EventType DEF Token, Element
<1> QED
  BY <1>1, <1>2, BeforeLast DEF append_event

LEMMA OutcomeType ==
    ASSUME result \in Result, NEW status \in ExitStatuses, NEW timed_out \in BOOLEAN,
           NEW output_limited \in BOOLEAN
    PROVE  /\ Outcome(status, timed_out, output_limited) \in Result
           /\ Outcome(status, timed_out, output_limited).session = result.session
           /\ Outcome(status, timed_out, output_limited).timed_out = timed_out
           /\ Outcome(status, timed_out, output_limited).output_limited = output_limited
BY DEF Outcome, Result

-----------------------------------------------------------------------------
(***************************************************************************)
(* The steps.                                                              *)
(***************************************************************************)
\* Steps that report nothing.
LEMMA KeptReports ==
    ASSUME Shaped(json), Narrated, UNCHANGED <<policy, reports, command, options, reported>>
    PROVE  Shaped(json)' /\ Narrated'
<1>1. /\ config' = config /\ violations' = violations /\ summary' = summary /\ json' = json
      /\ command' = command /\ reported' = reported
  BY DEF policy, reports
<1>2. Chain' = Chain
  BY ChainKept
<1>3. Shaped(json)'
  BY <1>1 DEF Shaped
<1>4. Narrated'
  BY <1>1, <1>2 DEF Narrated
<1> QED
  BY <1>3, <1>4

LEMMA KeptSequenced ==
    ASSUME Sequenced, UNCHANGED <<process_count, command, reported>>,
           pc' \in Early \cup {"trace"} => pc \in Early \cup {"trace"},
           pc' = "trace" /\ reported # <<>> => pc = "trace"
    PROVE  Sequenced'
BY DEF Sequenced

LEMMA RefuseStep ==
    ASSUME IInv, Refuse
    PROVE  IInv'
<1>1. Typed'
  BY DEF IInv, Typed, Refuse, Exits, policy, reports, Points
<1>2. Shaped(json)' /\ Narrated'
  BY KeptReports DEF IInv, Refuse
<1>3. Sequenced'
  BY KeptSequenced DEF IInv, Refuse, Exits, policy, Early
<1>4. Ordered'
  BY ChainKept DEF IInv, Refuse, Exits, Ordered, Assessed, Early, reports
<1> QED
  BY <1>1, <1>2, <1>3, <1>4 DEF IInv

LEMMA ParseOptionsStep ==
    ASSUME IInv, ParseOptions
    PROVE  IInv'
<1>1. Typed'
  BY DEF IInv, Typed, ParseOptions, policy, reports, Points
<1>2. Shaped(json)' /\ Narrated'
  BY KeptReports DEF IInv, ParseOptions
<1>3. Sequenced'
  BY KeptSequenced DEF IInv, Ordered, ParseOptions, policy, Early
<1>4. Ordered'
  BY ChainKept DEF IInv, ParseOptions, Ordered, Assessed, Early, reports
<1> QED
  BY <1>1, <1>2, <1>3, <1>4 DEF IInv

LEMMA SessionStep ==
    ASSUME IInv, session_path
    PROVE  IInv'
<1>1. /\ result' \in Result
      /\ result'.timed_out = result.timed_out /\ result'.output_limited = result.output_limited
  BY DEF IInv, Typed, Result, session_path
<1>2. Typed'
  BY <1>1 DEF IInv, Typed, session_path, policy, reports, Points
<1>3. Shaped(json)' /\ Narrated'
  BY KeptReports DEF IInv, session_path
<1>4. Sequenced'
  BY KeptSequenced DEF IInv, Ordered, session_path, policy, Early
<1>5. Ordered'
  BY <1>1, ChainKept DEF IInv, session_path, Ordered, Assessed, Early, reports
<1> QED
  BY <1>2, <1>3, <1>4, <1>5 DEF IInv

LEMMA SessionFailsStep ==
    ASSUME IInv, SessionFails
    PROVE  IInv'
<1>1. Typed'
  BY DEF IInv, Typed, SessionFails, policy, reports, Points
<1>2. Shaped(json)' /\ Narrated'
  BY KeptReports DEF IInv, SessionFails
<1>3. Sequenced'
  BY KeptSequenced DEF IInv, SessionFails, policy, Early
<1>4. Ordered'
  BY ChainKept DEF IInv, SessionFails, Ordered, Assessed, Early, reports
<1> QED
  BY <1>1, <1>2, <1>3, <1>4 DEF IInv

LEMMA SandboxedStep ==
    ASSUME IInv, Sandboxed
    PROVE  IInv'
<1>1. PICK status \in Statuses \cup {-1}, timed_out \in BOOLEAN, output_limited \in BOOLEAN :
         result' = Outcome(IF timed_out THEN 124 ELSE status, timed_out, output_limited)
  BY DEF Sandboxed
<1> DEFINE x == IF timed_out THEN 124 ELSE status
<1>2. x \in ExitStatuses /\ result \in Result
  BY DEF IInv, Typed, ExitStatuses
<1> HIDE DEF x
<1>3. result' \in Result /\ result'.session = result.session
  <2>1. result' = [result EXCEPT !.exit_status = x, !.timed_out = timed_out,
                                 !.output_limited = output_limited]
    BY <1>1 DEF Outcome, x
  <2> QED
    BY <1>2, <2>1 DEF Result
<1>4. Typed'
  BY <1>3 DEF IInv, Typed, Sandboxed, policy, reports, Points
<1>5. Shaped(json)' /\ Narrated'
  BY KeptReports DEF IInv, Sandboxed
<1>6. Sequenced'
  BY KeptSequenced DEF IInv, Sandboxed, policy, Early
<1>7. Ordered'
  BY <1>3, ChainKept DEF IInv, Sandboxed, Ordered, Assessed, Early, reports
<1> QED
  BY <1>4, <1>5, <1>6, <1>7 DEF IInv

LEMMA RedirectStep ==
    ASSUME IInv, Redirect
    PROVE  IInv'
<1>1. /\ result' \in Result /\ result'.session = result.session
      /\ result'.timed_out = result.timed_out /\ result'.output_limited = result.output_limited
  <2>1. result \in Result /\ 125 \in ExitStatuses
    BY DEF IInv, Typed, ExitStatuses
  <2>2. CASE result' = [result EXCEPT !.exit_status = 125]
    BY <2>1, <2>2 DEF Result
  <2> QED
    BY <2>1, <2>2 DEF Redirect
<1>2. Typed'
  BY <1>1 DEF IInv, Typed, Redirect, policy, reports, Points
<1>3. Shaped(json)' /\ Narrated'
  BY KeptReports DEF IInv, Redirect
<1>4. Sequenced'
  BY KeptSequenced DEF IInv, Ordered, Redirect, policy, Early
<1>5. Ordered'
  BY <1>1, ChainKept DEF IInv, Redirect, Ordered, Assessed, Early, reports
<1> QED
  BY <1>2, <1>3, <1>4, <1>5 DEF IInv

LEMMA TraceFailsStep ==
    ASSUME IInv, TraceFails
    PROVE  IInv'
<1>1. 1 \in ExitStatuses
  BY DEF ExitStatuses, Statuses
<1>2. /\ result' \in Result /\ result'.session = result.session
      /\ ~result'.timed_out /\ ~result'.output_limited
  BY <1>1, OutcomeType DEF IInv, Typed, TraceFails
<1>3. Typed'
  BY <1>2 DEF IInv, Typed, TraceFails, policy, reports, Points
<1>4. Shaped(json)' /\ Narrated'
  BY KeptReports DEF IInv, TraceFails
<1>5. Sequenced'
  BY KeptSequenced DEF IInv, TraceFails, policy, Early
<1>6. Ordered'
  BY <1>2, ChainKept DEF IInv, TraceFails, Ordered, Assessed, Early, reports
<1> QED
  BY <1>3, <1>4, <1>5, <1>6 DEF IInv

LEMMA EmitStep ==
    ASSUME IInv, Emit
    PROVE  IInv'
<1>1. PICK e \in TraceEvent :
         /\ e.context = Len(reported) /\ Report(e)
         /\ e.kind = "ProcessSpawned" => reported # <<>>
  <2>1. CASE reported = <<>>
    <3>1. Len(reported) = 0 /\ 0 \in Nat
      BY <2>1, EmptySeq
    <3> DEFINE e == Event("TraceStarted", <<>>, <<>>, 0)
    <3>2. e \in TraceEvent /\ e.kind = "TraceStarted" /\ e.context = 0
      BY <3>1, NoText DEF Event, TraceEvent, Kinds
    <3>3. Report(e)
      BY <2>1 DEF Emit
    <3> QED
      BY <3>1, <3>2, <3>3
  <2>2. CASE reported # <<>>
    <3>1. Len(reported) \in Nat
      BY LenProperties DEF IInv, Typed
    <3>2. PICK e \in Events(Len(reported)) : Report(e)
      BY <2>2 DEF Emit
    <3> QED
      BY <2>2, <3>1, <3>2, EventsType
  <2> QED
    BY <2>1, <2>2
<1>2. /\ Len(reported) <= MaxEvents /\ pc = "trace"
      /\ UNCHANGED <<command, options, pc, result, artifacts, exit>>
  BY DEF Emit
<1>3. e.context \in 0 .. MaxEvents + 1
  <2>1. \A n \in Nat : n <= MaxEvents => n \in 0 .. MaxEvents + 1
    BY MaxEventsAssumption, SMTT(60)
  <2> QED
    BY <1>1, <1>2, <2>1, LenProperties DEF IInv, Typed
<1>4. ~json.finished /\ Typed /\ Shaped(json) /\ Sequenced /\ Narrated
  BY <1>2 DEF IInv, Ordered
<1>5. Typed' /\ Shaped(json)' /\ ~json'.finished
  <2>1. /\ config' \in Config
        /\ process_count' \in Nat
        /\ violations' \in Seq(Violation)
        /\ summary' \in [Counters -> Nat]
        /\ json' \in Json /\ Shaped(json)' /\ ~json'.finished
        /\ reported' \in Seq(TraceEvent)
    BY <1>1, <1>3, <1>4, TypedReport
  <2> QED
    BY <1>2, <1>4, <2>1 DEF Typed
<1>6. Narrated'
  BY <1>1, <1>2, <1>3, <1>4, NarratedReport
<1>7. Sequenced'
  BY <1>1, <1>2, <1>4, SequencedReport
<1>8. Ordered'
  BY <1>2, <1>5, ChainKept DEF IInv, Ordered, Assessed, Early
<1> QED
  BY <1>5, <1>6, <1>7, <1>8 DEF IInv

LEMMA TraceFinishedStep ==
    ASSUME IInv, TraceFinished
    PROVE  IInv'
<1> DEFINE e == Event("TraceFinished", <<>>, <<>>, Len(reported))
<1>1. /\ reported # <<>> /\ pc = "trace" /\ Report(e) /\ pc' = "finish"
      /\ UNCHANGED <<command, options, artifacts, exit>>
  BY DEF TraceFinished
<1>2. /\ result' \in Result /\ result'.session = result.session
      /\ ~result'.timed_out /\ ~result'.output_limited
  <2>1. PICK status \in Statuses : result' = Outcome(status, FALSE, FALSE)
    BY DEF TraceFinished
  <2>2. status \in ExitStatuses
    BY DEF ExitStatuses
  <2> QED
    BY <2>1, <2>2, OutcomeType DEF IInv, Typed
<1>3. Len(reported) \in Nat
  BY LenProperties DEF IInv, Typed
<1>4. e \in TraceEvent /\ e.kind = "TraceFinished" /\ e.context = Len(reported)
  BY <1>3, NoText DEF Event, TraceEvent, Kinds
<1> HIDE DEF e
<1>5. e.context \in 0 .. MaxEvents + 1
  <2>1. \A n \in Nat : n <= MaxEvents + 1 => n \in 0 .. MaxEvents + 1
    BY MaxEventsAssumption, SMTT(60)
  <2> QED
    BY <1>1, <1>3, <1>4, <2>1 DEF IInv, Sequenced
<1>6. ~json.finished /\ Typed /\ Shaped(json) /\ Sequenced /\ Narrated
  BY <1>1 DEF IInv, Ordered
<1>7. Typed' /\ Shaped(json)' /\ ~json'.finished
  <2>1. /\ config' \in Config
        /\ process_count' \in Nat
        /\ violations' \in Seq(Violation)
        /\ summary' \in [Counters -> Nat]
        /\ json' \in Json /\ Shaped(json)' /\ ~json'.finished
        /\ reported' \in Seq(TraceEvent)
    BY <1>1, <1>4, <1>5, <1>6, TypedReport
  <2> QED
    BY <1>1, <1>2, <1>6, <2>1 DEF Typed, Points
<1>8. Narrated'
  BY <1>1, <1>4, <1>5, <1>6, NarratedReport
<1>9. Sequenced'
  BY <1>1, <1>4, <1>6, SequencedReport
<1>10. Ordered'
  BY <1>1, <1>2, <1>7, ChainKept DEF IInv, Ordered, Assessed, Early
<1> QED
  BY <1>7, <1>8, <1>9, <1>10 DEF IInv

\* The report is closed: its elements are those it had.
LEMMA NarratedClosed ==
    ASSUME Typed, Shaped(json), Narrated, json' = Finished(json),
           UNCHANGED <<policy, summary, command, options, reported>>
    PROVE  json' \in Json /\ Shaped(json)' /\ json'.finished /\ Narrated'
<1>1. /\ json' \in Json /\ Shaped(json') /\ json'.finished
      /\ Elements(json'.text) = Elements(json.text)
  BY FinishedOne DEF Typed
<1>2. /\ config' = config /\ violations' = violations /\ summary' = summary
      /\ command' = command /\ reported' = reported
  BY DEF policy
<1>3. Chain' = Chain
  BY ChainKept
<1>4. Narrated'
  BY <1>1, <1>2, <1>3 DEF Narrated
<1> QED
  BY <1>1, <1>4 DEF Shaped

LEMMA FinishStep ==
    ASSUME IInv, Finish
    PROVE  IInv'
<1>1. /\ pc = "finish" /\ pc' = "done" /\ command # "analyze"
      /\ UNCHANGED <<policy, summary, command, options, result, artifacts, reported>>
      /\ json' = IF "json" \in Chain THEN Finished(json) ELSE json
  BY DEF Finish, Exits
<1>2. json' \in Json /\ Shaped(json)' /\ Narrated' /\ (json'.finished => "json" \in Chain)
  <2>1. CASE "json" \in Chain
    BY <1>1, <2>1, NarratedClosed DEF IInv
  <2>2. CASE "json" \notin Chain
    <3>1. json' = json
      BY <1>1, <2>2
    <3> QED
      BY <1>1, <3>1, KeptReports DEF IInv, reports, Ordered, Typed
  <2> QED
    BY <2>1, <2>2
<1>3. Typed'
  BY <1>1, <1>2 DEF IInv, Typed, policy, Points
<1>4. Sequenced'
  BY <1>1, KeptSequenced DEF IInv, policy, Early
<1>5. Ordered'
  BY <1>1, <1>2, ChainKept DEF IInv, Ordered, Assessed, Early
<1> QED
  BY <1>2, <1>3, <1>4, <1>5 DEF IInv

LEMMA AssessStep ==
    ASSUME IInv, Assess
    PROVE  IInv'
<1> DEFINE timeout == IF result.timed_out THEN append_event(json'.text, "analysis.timeout")
                      ELSE json'.text
           limit == IF result.output_limited THEN append_event(timeout, "analysis.output_limit")
                    ELSE timeout
           findings == [i \in 1 .. Len(violations) |-> violations[1].context]
<1>1. /\ pc = "finish" /\ pc' = "save" /\ command = "analyze"
      /\ UNCHANGED <<policy, summary, command, options, artifacts, exit, reported>>
      /\ json' = Finished(json)
      /\ result' = [result EXCEPT !.assessment = assessment, !.policy_findings = findings,
                                  !.events_json = limit]
  BY DEF Assess
<1>2. json' \in Json /\ Shaped(json)' /\ json'.finished /\ Narrated'
  BY <1>1, NarratedClosed DEF IInv
<1>3. findings \in Seq(Nat) /\ Len(findings) = Len(violations)
  <2>1. violations \in Seq(Violation) /\ Len(violations) \in Nat
    BY LenProperties DEF IInv, Typed
  <2>2. ASSUME NEW i \in 1 .. Len(violations) PROVE violations[1].context \in Nat
    <3>1. violations[1] \in Violation
      BY <2>1, SMTT(60)
    <3>2. violations[1].context \in 0 .. MaxEvents + 1
      BY <3>1 DEF Violation
    <3> QED
      BY <3>2, MaxEventsAssumption, SMTT(60)
  <2> QED
    BY <2>1, <2>2, SMTT(60)
<1>4. limit \in Seq(Token)
  <2>1. json'.text \in Seq(Token)
    BY <1>2 DEF Json
  <2>2. timeout \in Seq(Token)
    BY <2>1, AppendedType DEF Notes
  <2> HIDE DEF timeout
  <2> QED
    BY <2>2, AppendedType DEF Notes
<1>5. ~result.timed_out /\ ~result.output_limited => limit = json'.text
  OBVIOUS
<1> HIDE DEF timeout, limit, findings
<1>6. assessment \in Assessment
  BY AssessmentAllows DEF IInv
<1>7. /\ result' \in Result
      /\ result'.session = result.session /\ result'.exit_status = result.exit_status
      /\ result'.timed_out = result.timed_out /\ result'.output_limited = result.output_limited
      /\ result'.assessment = assessment /\ result'.policy_findings = findings
      /\ result'.events_json = limit
  BY <1>1, <1>3, <1>4, <1>6 DEF IInv, Typed, Result
<1>8. assessment' = assessment
  BY <1>1, <1>7 DEF assessment, Weight, Rejected, policy
<1>9. Typed'
  BY <1>1, <1>2, <1>7 DEF IInv, Typed, policy, Points
<1>10. Sequenced'
  BY <1>1, KeptSequenced DEF IInv, policy, Early
<1>11. Ordered'
  <2>1. violations' = violations /\ Chain' = Chain /\ "json" \in Chain
    BY <1>1, ChainKept DEF policy, Chain
  <2> QED
    BY <1>1, <1>2, <1>3, <1>5, <1>7, <1>8, <2>1 DEF IInv, Ordered, Assessed, Early
<1> QED
  BY <1>2, <1>9, <1>10, <1>11 DEF IInv

\* The assessment is that of the reports and the outcome.
LEMMA AssessmentKept ==
    ASSUME UNCHANGED <<policy, reports, result>>
    PROVE  assessment' = assessment
BY DEF assessment, Weight, Rejected, policy, reports

LEMMA SaveStep ==
    ASSUME IInv, Save
    PROVE  IInv'
<1>1. /\ pc = "save" /\ pc' = "print"
      /\ UNCHANGED <<policy, reports, command, options, result, exit, reported>>
  BY DEF Save
<1>2. /\ DOMAIN artifacts' \subseteq Files
      /\ "events.json" \in DOMAIN artifacts' => artifacts'["events.json"] = result.events_json
  BY DEF Save, Files
<1>3. Typed'
  BY <1>1, <1>2 DEF IInv, Typed, policy, reports, Points
<1>4. Shaped(json)' /\ Narrated'
  BY <1>1, KeptReports DEF IInv
<1>5. Sequenced'
  BY <1>1, KeptSequenced DEF IInv, policy, Early
<1>6. Ordered'
  <2>1. violations' = violations /\ json' = json /\ Chain' = Chain /\ assessment' = assessment
    BY <1>1, ChainKept, AssessmentKept DEF policy, reports
  <2>2. Assessed /\ (reported # <<>> => result.events_json = json.text)
    BY <1>1 DEF IInv, Ordered, Assessed
  <2> QED
    BY <1>1, <1>2, <2>1, <2>2 DEF IInv, Ordered, Assessed, Early
<1> QED
  BY <1>3, <1>4, <1>5, <1>6 DEF IInv

LEMMA AnswerStep ==
    ASSUME IInv, Answer
    PROVE  IInv'
<1>1. /\ pc = "print" /\ pc' = "done"
      /\ exit' = IF result.assessment.action = "allow" THEN 0 ELSE 1
      /\ UNCHANGED <<policy, reports, command, options, result, artifacts, reported>>
  BY DEF Answer, Exits
<1>2. Typed'
  BY <1>1 DEF IInv, Typed, policy, reports, Points
<1>3. Shaped(json)' /\ Narrated'
  BY <1>1, KeptReports DEF IInv
<1>4. Sequenced'
  BY <1>1, KeptSequenced DEF IInv, policy, Early
<1>5. Ordered'
  <2>1. violations' = violations /\ json' = json /\ Chain' = Chain /\ assessment' = assessment
    BY <1>1, ChainKept, AssessmentKept DEF policy, reports
  <2> QED
    BY <1>1, <2>1 DEF IInv, Ordered, Assessed, Early
<1> QED
  BY <1>2, <1>3, <1>4, <1>5 DEF IInv

-----------------------------------------------------------------------------
(***************************************************************************)
(* The theorems.                                                           *)
(***************************************************************************)
LEMMA NoElements ==
    /\ Elements(<<>>) = <<>> /\ DOMAIN <<>> = {} /\ Len(<<>>) = 0
    /\ 0 \div 2 = 0 /\ 2 * 0 = 0 /\ 1 .. 0 = {} /\ 0 \in Nat
BY SMTT(60) DEF Elements

LEMMA NoneCounted ==
    ASSUME NEW n \in Nat, NEW S \in SUBSET (1 .. n)
    PROVE  Cardinality(S) = 0 <=> S = {}
<1>1. S # {} => Cardinality(S) >= 1
  BY Positions
<1>2. Cardinality({}) = 0 /\ ~(0 >= 1)
  BY FS_EmptySet, SMTT(60)
<1> QED
  BY <1>1, <1>2

LEMMA Start ==
    ASSUME Init
    PROVE  IInv
<1>1. /\ process_count = 0 /\ violations = <<>> /\ summary = [c \in Counters |-> 0]
      /\ json = [text |-> <<>>, finished |-> FALSE]
      /\ reported = <<>> /\ artifacts = <<>> /\ pc = "options" /\ result = NoResult
  BY DEF Init, ReportersInit
<1>2. NoResult \in Result /\ ~NoResult.session /\ ~NoResult.timed_out /\ ~NoResult.output_limited
  <2>1. assess(0, FALSE) \in Assessment
    BY NoElements, Allows
  <2>2. <<>> \in Seq(Nat) /\ <<>> \in Seq(Token)
    BY EmptySeq
  <2> HIDE DEF assess
  <2> QED
    BY <2>1, <2>2 DEF NoResult, Result, ExitStatuses
<1>3. Typed
  <2>1. /\ <<>> \in Seq(Violation) /\ <<>> \in Seq(TraceEvent) /\ <<>> \in Seq(Token)
    BY EmptySeq
  <2>2. config \in Config
    BY ConfigsAssumption DEF Init
  <2>3. DOMAIN artifacts \subseteq Files
    BY <1>1, NoElements
  <2>4. json \in Json
    BY <1>1, <2>1 DEF Json
  <2> QED
    BY <1>1, <1>2, <2>1, <2>2, <2>3, <2>4, NoElements DEF Init, Typed, Commands, Points
<1>4. Shaped(json)
  BY <1>1, NoElements DEF Shaped
<1>5. Cardinality({}) = 0
  BY FS_EmptySet
<1>6. Sequenced
  <2>1. Spawns(<<>>, 0) = {}
    BY NoElements DEF Spawns
  <2>2. 0 <= MaxEvents /\ 0 <= MaxEvents + 1
    BY MaxEventsAssumption, SMTT(60)
  <2> QED
    BY <1>1, <1>5, <2>1, <2>2, NoElements DEF Sequenced
<1>7. Narrated
  <2>1. Violated(<<>>) = {}
    BY NoElements DEF Violated
  <2>2. Tells(<<>>, <<>>) /\ Attached(<<>>) /\ Answered(config, <<>>, <<>>)
    BY <1>5, <2>1, NoElements DEF Tells, Attached, Answered
  <2>3. Counts(<<>>, [c \in Counters |-> 0])
    BY <1>5, NoElements DEF Counts
  <2> QED
    BY <1>1, <1>5, <2>1, <2>2, <2>3, NoElements DEF Narrated
<1>8. Ordered
  BY <1>1, <1>2, NoElements DEF Ordered, Assessed, Early
<1> QED
  BY <1>3, <1>4, <1>6, <1>7, <1>8 DEF IInv

LEMMA Step ==
    ASSUME IInv, [Next]_vars
    PROVE  IInv'
<1>1. CASE Next
  BY <1>1, RefuseStep, ParseOptionsStep, SessionStep, SessionFailsStep, SandboxedStep,
     RedirectStep, EmitStep, TraceFinishedStep, TraceFailsStep, FinishStep, AssessStep, SaveStep,
     AnswerStep DEF Next
<1>2. CASE UNCHANGED vars
  <2>1. /\ UNCHANGED <<policy, reports, command, options, reported>>
        /\ UNCHANGED <<pc, result, artifacts, exit>>
    BY <1>2 DEF vars, own
  <2>2. Shaped(json)' /\ Narrated'
    BY <2>1, KeptReports DEF IInv
  <2>3. Typed' /\ Sequenced'
    BY <2>1, KeptSequenced DEF IInv, Typed, policy, reports
  <2>4. violations' = violations /\ json' = json /\ Chain' = Chain /\ assessment' = assessment
    BY <2>1, ChainKept, AssessmentKept DEF policy, reports
  <2>5. Ordered'
    BY <2>1, <2>4 DEF IInv, Ordered, Assessed
  <2> QED
    BY <2>2, <2>3, <2>5 DEF IInv
<1> QED
  BY <1>1, <1>2

LEMMA Invariant == Spec => []IInv
BY Start, Step, PTL DEF Spec

\* Every result has one of the levels, actions and statuses of the code, and the
\* engine's process count and the contexts of its violations stay within the
\* events of the trace, however long it is (policy::Reporter, analyze::Result).
THEOREM TypesHold == Spec => []TypeOK
<1>1. ASSUME IInv PROVE TypeOK
  <2>1. /\ pc \in Points /\ result \in Result /\ DOMAIN artifacts \subseteq Files
        /\ violations \in Seq(Violation)
    BY <1>1 DEF IInv, Typed
  <2>2. /\ result.assessment.action \in Action /\ result.assessment.level \in Level
        /\ result.exit_status \in ExitStatuses
    BY <2>1 DEF Result, Assessment
  <2>3. process_count \in 0 .. MaxEvents
    <3>1. process_count \in Nat /\ process_count <= MaxEvents
      BY <1>1 DEF IInv, Typed, Sequenced
    <3> QED
      BY <3>1, MaxEventsAssumption, SMTT(60)
  <2>4. ASSUME NEW i \in 1 .. Len(violations) PROVE violations[i].context \in 0 .. MaxEvents + 1
    <3>1. violations[i] \in Violation
      BY <2>1, SMTT(60)
    <3> QED
      BY <3>1 DEF Violation
  <2> QED
    BY <2>1, <2>2, <2>3, <2>4 DEF TypeOK, Points, ExitStatuses, Files
<1> QED
  BY <1>1, Invariant, PTL

\* Whatever the policy denies and however long the trace is, what is left when the
\* array closes is framed as one JSON array, its elements are the events in their
\* order with each violation behind its event and none missing for an event that a
\* rule covers, the summary counts them, and the events.json of the session is that
\* array (policy::Reporter over analyze::Reporter and JsonReporter, analyze::run).
THEOREM ReportsHold == Spec => []ReportsAgree
<1>1. ASSUME IInv PROVE ReportsAgree
  <2> DEFINE E == Elements(json.text)
  <2> SUFFICES ASSUME json.finished, reported # <<>>
               PROVE  /\ IsArray(json.text)
                      /\ Tells(E, reported)
                      /\ Attached(E)
                      /\ command # "trace" =>
                            \A i \in DOMAIN reported : Forbidden(i) =>
                               \E j \in Violated(E) : E[j].context = reported[i].context
                      /\ command = "analyze" => Counts(E, summary)
                      /\ "events.json" \in DOMAIN artifacts => artifacts["events.json"] = json.text
    BY DEF ReportsAgree
  <2>1. "json" \in Chain /\ json \in Json /\ Shaped(json)
    BY <1>1 DEF IInv, Ordered, Typed
  <2>2. /\ Tells(E, reported) /\ Attached(E)
        /\ command # "trace" => Answered(config, reported, E)
        /\ command = "analyze" => Counts(E, summary)
    BY <1>1, <2>1 DEF IInv, Narrated
  <2>3. E # <<>>
    <3>1. SUFFICES ASSUME E = <<>> PROVE reported = <<>>
      OBVIOUS
    <3>2. DOMAIN E \ Violated(E) = {}
      BY <3>1, NoElements
    <3>3. Len(reported) = 0
      BY <2>2, <3>2, FS_EmptySet DEF Tells
    <3> QED
      BY <1>1, <3>3, EmptySeq DEF IInv, Typed
  <2>4. IsArray(json.text)
    BY <2>1, <2>3, ArrayClosed
  <2>5. "events.json" \in DOMAIN artifacts => artifacts["events.json"] = json.text
    BY <1>1 DEF IInv, Ordered
  <2> HIDE DEF E
  <2> QED
    BY <2>2, <2>4, <2>5, ForbiddenIs DEF Answered
<1> QED
  BY <1>1, Invariant, PTL

\* The exit status of analyze says the same for every policy and every trace: 0
\* means that the target ended with status 0 within its limits, that the
\* engine denied nothing, that network activity was not combined with a process
\* or a failed call, and that no event was forbidden; anything else means that
\* one of these failed (assessment, verdict and main).
THEOREM ExitHolds == Spec => []ExitContract
<1>1. ASSUME IInv PROVE ExitContract
  <2> DEFINE E == Elements(json.text)
             did(kind) == \E i \in DOMAIN reported : reported[i].kind = kind
  <2> SUFFICES ASSUME command = "analyze", pc = "done", result.session
               PROVE  /\ exit = 0 <=>
                            /\ result.exit_status = 0
                            /\ ~result.timed_out
                            /\ ~result.output_limited
                            /\ Violated(E) = {}
                            /\ ~(/\ did("NetworkConnected")
                                 /\ did("ProcessSpawned") \/ did("SyscallFailed"))
                      /\ exit = 0 => \A i \in DOMAIN reported : ~Forbidden(i)
                      /\ Len(result.policy_findings) = Cardinality(Violated(E))
    BY DEF ExitContract
  <2>1. /\ exit = IF assessment.action = "allow" THEN 0 ELSE 1
        /\ Len(result.policy_findings) = Len(violations)
    BY <1>1 DEF IInv, Ordered, Assessed
  <2>2. exit = 0 <=> assessment.action = "allow"
    <3>1. 0 # 1
      BY SMTT(60)
    <3> QED
      BY <2>1, <3>1
  <2>3. /\ Answered(config, reported, E) /\ Len(violations) = Cardinality(Violated(E))
        /\ Counts(reported, summary)
    <3>1. "json" \in Chain
      BY DEF Chain
    <3> QED
      BY <1>1, <3>1 DEF IInv, Narrated
  <2>4. violations = <<>> <=> Violated(E) = {}
    <3>1. PICK n \in Nat : DOMAIN E = 1 .. n
      <4>1. PICK n \in Nat : E \in Seq(Token) /\ Len(E) = n
        BY <1>1, JsonElements DEF IInv, Typed
      <4> QED
        BY <4>1, LenProperties
    <3>2. Violated(E) = {} <=> Cardinality(Violated(E)) = 0
      BY <3>1, NoneCounted DEF Violated
    <3>3. violations = <<>> <=> Len(violations) = 0
      BY <1>1, EmptySeq DEF IInv, Typed
    <3> QED
      BY <2>3, <3>2, <3>3
  <2>5. ASSUME NEW c \in Counters PROVE summary[c] # 0 <=> did(c)
    <3> DEFINE S == {i \in DOMAIN reported : reported[i].kind = c}
    <3>1. summary[c] = Cardinality(S)
      BY <2>3 DEF Counts
    <3>2. Len(reported) \in Nat /\ S \subseteq 1 .. Len(reported)
      BY <1>1, LenProperties DEF IInv, Typed
    <3>3. Cardinality(S) # 0 <=> S # {}
      BY <3>2, NoneCounted
    <3> QED
      BY <3>1, <3>3
  <2>6. {"NetworkConnected", "ProcessSpawned", "SyscallFailed"} \subseteq Counters
    BY DEF Counters
  <2> HIDE DEF E, did
  <2>7. assessment.action = "allow" <=>
           /\ result.exit_status = 0 /\ ~result.timed_out /\ ~result.output_limited
           /\ Violated(E) = {}
           /\ ~(did("NetworkConnected") /\ (did("ProcessSpawned") \/ did("SyscallFailed")))
    BY <1>1, <2>4, <2>5, <2>6, AssessmentAllows DEF IInv
  <2>8. Violated(E) = {} => \A i \in DOMAIN reported : ~Forbidden(i)
    BY <2>3, ForbiddenIs DEF Answered
  <2> QED
    BY <2>1, <2>2, <2>3, <2>7, <2>8 DEF did
<1> QED
  BY <1>1, Invariant, PTL
=============================================================================
