---------------------------- MODULE CaptureProofs ----------------------------
(***************************************************************************)
(* Module Capture for every limit, pipe size and set of descriptor numbers *)
(* and any amount of output.  What concerns the counters of one call      *)
(* holds for any number of calls at a time; what concerns its pipes is     *)
(* proved for a call that has the descriptor table to itself (Alone): with *)
(* two, drain may read and close a descriptor of the other.                *)
(*                                                                         *)
(* The invariant of the second kind says which numbers are descriptors of  *)
(* the call at each control point (Descriptors), that below the limit no   *)
(* chunk is lost between a pipe and total_output (Accounted), and that a stream that is  *)
(* not open any more has nothing left to read and nobody to write          *)
(* (Drained).                                                              *)
(*                                                                         *)
(* The last section is module Sandbox, the run() that the captured call's  *)
(* process calls, for every set of options.                                *)
(***************************************************************************)
EXTENDS Capture, Sandbox, TLAPS

\* Zenon proves the leaves that do not name SMT.
USE ZenonT(60)

\* One call at a time.
Alone == \A v, w \in Worker : v = w

Out(w) == <<w, "out">>
Err(w) == <<w, "err">>

\* total_output, the stored bytes and output_limited agree.
Limited(w) ==
    /\ captured[w] = total[w] /\ total[w] <= OutputLimit
    /\ w \in output_limited => total[w] >= OutputLimit
    /\ total[w] > 0 /\ total[w] >= OutputLimit => w \in output_limited

\* Control points with both pipes whole, and those of the loop.
Whole == {"fork", "close"}
Loop == {"out", "close_out", "err", "close_err", "check", "finish"}

\* The streams whose read end the call has to close.
ToClose(w) == IF pc[w] \in Whole THEN Stream ELSE IF pc[w] \in Loop THEN open[w] ELSE {}

\* A number in use is an end of a pipe of the call, which it will still close;
\* what drain has found at its end is closed next.
Descriptors(w) ==
    /\ \A s \in ToClose(w) : fd[w][s] \in Fd /\ fdtab[fd[w][s]] = ReadEnd(<<w, s>>)
    /\ pc[w] \in Whole => \A s \in Stream : wfd[w][s] \in Fd /\ fdtab[wfd[w][s]] = WriteEnd(<<w, s>>)
    /\ pc[w] \in Whole \cup Loop => fd[w]["out"] # fd[w]["err"]
    /\ \A s \in Stream : pc[w] = ClosePoint(s) => s \notin open[w]
    /\ \A n \in Fd :
          \/ fdtab[n] = NoEnd
          \/ \E s \in Stream :
                /\ n = fd[w][s] /\ fdtab[n] = ReadEnd(<<w, s>>)
                /\ s \in ToClose(w) \/ pc[w] = ClosePoint(s)
          \/ pc[w] \in Whole /\ \E s \in Stream : n = wfd[w][s] /\ fdtab[n] = WriteEnd(<<w, s>>)

\* Below the limit, a chunk that was written is in its pipe or in total_output.
Accounted(w) ==
    w \notin output_limited =>
        /\ total[w] + buffer[Out(w)] + buffer[Err(w)] = written[Out(w)] + written[Err(w)]
        /\ buffer[Out(w)] <= written[Out(w)] /\ buffer[Err(w)] <= written[Err(w)]

\* A stream that is not open is at its end, and the loop ends by itself only
\* when none is open.
Drained(w) ==
    /\ pc[w] \in {"start", "fork", "close"} => open[w] = {}
    /\ pc[w] # "close" =>
          \A s \in Stream \ open[w] : buffer[<<w, s>>] = 0 /\ held[<<w, s>>] = {}
    /\ pc[w] \in {"finish", "reap", "done"} => open[w] = {} \/ w \in timed_out \cup output_limited

IInv == \A w \in Worker : Limited(w) /\ Descriptors(w) /\ Accounted(w) /\ Drained(w)

-----------------------------------------------------------------------------
\* What is in the descriptor table stays an end of a pipe.
LEMMA EndsOf ==
    NoEnd \in Ends /\ \A p \in Pipe : ReadEnd(p) \in Ends /\ WriteEnd(p) \in Ends
BY DEF Ends

\* Every step of the processes keeps the types.
LEMMA ProcessTyped ==
    ASSUME TypeOK, NEW w \in Worker, NEW q \in Proc,
           \/ ChildSetup(w) \/ Spawn(w) \/ Deadline(w) \/ Exits(q) \/ Dies(q)
           \/ \E s \in Stream : Output(q, s)
           \/ \E p \in Pipe : Release(q, p)
    PROVE  TypeOK'
<1>0. <<w, "child">> \in Proc /\ <<w, "rest">> \in Proc
  BY DEF Proc
<1>1. CASE ChildSetup(w)
  BY <1>0, <1>1 DEF ChildSetup, TypeOK, call
<1>2. CASE Spawn(w)
  BY <1>0, <1>2 DEF Spawn, TypeOK, call
<1>3. CASE Deadline(w)
  BY <1>3 DEF Deadline, TypeOK, call
<1>4. CASE Exits(q)
  BY <1>4 DEF Exits, TypeOK, call
<1>5. CASE Dies(q)
  BY <1>5 DEF Dies, TypeOK, call
<1>6. CASE \E s \in Stream : Output(q, s)
  <2>1. PICK s \in Stream : Output(q, s)
    BY <1>6
  <2>2. <<q[1], s>> \in Pipe
    BY DEF Proc, Pipe
  <2> QED BY SMTT(60), <2>1, <2>2 DEF Output, Counted, TypeOK, call
<1>7. CASE \E p \in Pipe : Release(q, p)
  BY SMTT(60), <1>7 DEF Release, TypeOK, call
<1> QED BY <1>1, <1>2, <1>3, <1>4, <1>5, <1>6, <1>7

\* Every step of run_captured keeps the types.
LEMMA CallTyped ==
    ASSUME TypeOK, NEW w \in Worker, Call(w) \/ StartFails(w)
    PROVE  TypeOK'
<1>0. <<w, "child">> \in Proc /\ \A s \in Stream : <<w, s>> \in Pipe
  BY DEF Proc, Pipe
<1>1. CASE OpenPipes(w)
  <2>1. PICK a, b, c, d \in Free : Pipes(w, a, b, c, d)
    BY <1>1 DEF OpenPipes
  <2>2. fdtab' \in [Fd -> Ends]
    <3>1. /\ ReadEnd(<<w, "out">>) \in Ends /\ WriteEnd(<<w, "out">>) \in Ends
          /\ ReadEnd(<<w, "err">>) \in Ends /\ WriteEnd(<<w, "err">>) \in Ends
      BY <1>0, EndsOf DEF Stream
    <3> DEFINE f1 == [fdtab EXCEPT ![a] = ReadEnd(<<w, "out">>)]
               f2 == [f1 EXCEPT ![b] = WriteEnd(<<w, "out">>)]
               f3 == [f2 EXCEPT ![c] = ReadEnd(<<w, "err">>)]
               f4 == [f3 EXCEPT ![d] = WriteEnd(<<w, "err">>)]
    <3>2. fdtab' = f4
      BY <2>1 DEF Pipes
    <3>3. f1 \in [Fd -> Ends]
      BY <3>1 DEF TypeOK
    <3> HIDE DEF f1
    <3>4. f2 \in [Fd -> Ends]
      BY <3>1, <3>3
    <3> HIDE DEF f2
    <3>5. f3 \in [Fd -> Ends]
      BY <3>1, <3>4
    <3> HIDE DEF f3
    <3>6. f4 \in [Fd -> Ends]
      BY <3>1, <3>5
    <3> QED BY <3>2, <3>6
  <2>3. fd' \in [Worker -> [Stream -> Fd \cup {0}]] /\ wfd' \in [Worker -> [Stream -> Fd \cup {0}]]
    BY <2>1 DEF TypeOK, Pipes, Free
  <2> QED BY <1>1, <2>2, <2>3 DEF OpenPipes, Goto, TypeOK
<1>2. CASE StartFails(w)
  BY <1>2, EndsOf DEF StartFails, Goto, TypeOK
<1>3. CASE Fork(w)
  BY <1>0, <1>3 DEF Fork, Goto, TypeOK
<1>4. CASE CloseWriteEnds(w)
  BY <1>4, EndsOf DEF CloseWriteEnds, Goto, TypeOK
<1>5. ASSUME NEW s \in Stream, NEW p \in Pipe, ReadData(w, s, p)
      PROVE  TypeOK'
  <2>1. buffer' \in [Pipe -> Nat]
    BY SMTT(60), <1>5 DEF ReadData, TypeOK
  <2>2. captured' \in [Worker -> Nat] /\ total' \in [Worker -> Nat]
    BY SMTT(60), <1>5 DEF ReadData, Counted, TypeOK
  <2> QED BY <1>5, <2>1, <2>2 DEF ReadData, TypeOK
<1>6. ASSUME NEW s \in Stream, NEW p \in Pipe, ReadNothing(w, s, p)
      PROVE  TypeOK'
  BY <1>6 DEF ReadNothing, Goto, AfterDrain, TypeOK, kernel
<1>7. ASSUME NEW s \in Stream, ReadEnds(w, s)
      PROVE  TypeOK'
  BY <1>7 DEF ReadEnds, Goto, ClosePoint, TypeOK, kernel
<1>8. ASSUME NEW s \in Stream, CloseDrained(w, s)
      PROVE  TypeOK'
  <2>1. fdtab' \in [Fd -> Ends]
    BY <1>8, EndsOf DEF CloseDrained, TypeOK
  <2>2. pc' \in [Worker -> {"start", "fork", "close", "out", "close_out", "err", "close_err",
                           "check", "finish", "reap", "done"}]
    BY <1>8 DEF CloseDrained, Goto, AfterDrain, TypeOK
  <2> QED BY <1>8, <2>1, <2>2 DEF CloseDrained, TypeOK
<1>9. CASE Check(w)
  <2>1. proc' \in [Proc -> {"unborn", "forked", "live", "exiting", "zombie", "gone"}]
        /\ killed' \subseteq Worker /\ missed' \subseteq Worker
    BY <1>0, <1>9 DEF Check, KillGroup, TypeOK
  <2>2. pc' \in [Worker -> {"start", "fork", "close", "out", "close_out", "err", "close_err",
                           "check", "finish", "reap", "done"}]
    BY <1>9 DEF Check, Goto, TypeOK
  <2>3. timed_out' \subseteq Worker
    BY <1>9 DEF Check, TypeOK
  <2> QED BY <1>9, <2>1, <2>2, <2>3 DEF Check, TypeOK
<1>10. CASE Finish(w)
  BY <1>10, EndsOf DEF Finish, Goto, TypeOK
<1>11. CASE Reap(w)
  BY <1>0, <1>11 DEF Reap, Goto, TypeOK
<1> QED BY <1>1, <1>2, <1>3, <1>4, <1>5, <1>6, <1>7, <1>8, <1>9, <1>10, <1>11 DEF Call

\* The variables of run_captured and of the kernel keep their types for any
\* number of calls: in particular the status is one that the wait status was
\* decoded to, and the end of every descriptor is known.
THEOREM TypesHold == Spec => []TypeOK
<1>1. Init => TypeOK
  BY SMTT(60), EndsOf DEF Init, TypeOK
<1>2. TypeOK /\ [Next]_vars => TypeOK'
  <2> SUFFICES ASSUME TypeOK, [Next]_vars
               PROVE  TypeOK'
    OBVIOUS
  <2>1. CASE UNCHANGED vars
    BY <2>1 DEF vars, kernel, call, TypeOK
  <2>2. ASSUME NEW w \in Worker,
               Call(w) \/ StartFails(w) \/ ChildSetup(w) \/ Spawn(w) \/ Deadline(w)
        PROVE  TypeOK'
    <3>1. <<w, "child">> \in Proc
      BY DEF Proc
    <3> QED BY <2>2, <3>1, CallTyped, ProcessTyped
  <2>3. ASSUME NEW q \in Proc,
               Exits(q) \/ Dies(q) \/ (\E s \in Stream : Output(q, s)) \/ (\E p \in Pipe : Release(q, p))
        PROVE  TypeOK'
    <3>1. q[1] \in Worker
      BY DEF Proc
    <3> QED BY <2>3, <3>1, ProcessTyped
  <2> QED BY <2>1, <2>2, <2>3 DEF Next
<1> QED BY <1>1, <1>2, PTL DEF Spec

-----------------------------------------------------------------------------
\* Only a read with data changes the counters of a call.
Counters == <<total, captured, output_limited>>

LEMMA OnlyReads ==
    ASSUME [Next]_vars
    PROVE  UNCHANGED Counters \/ \E w \in Worker, s \in Stream, p \in Pipe : ReadData(w, s, p)
<1>1. CASE UNCHANGED vars
  BY <1>1 DEF vars, call, Counters
<1>2. ASSUME NEW w \in Worker, Call(w)
      PROVE  UNCHANGED Counters \/ \E s \in Stream, p \in Pipe : ReadData(w, s, p)
  BY <1>2 DEF Call, Counters, OpenPipes, Fork, CloseWriteEnds, ReadNothing, ReadEnds, CloseDrained,
              Check, Finish, Reap
<1>3. ASSUME NEW w \in Worker, StartFails(w) \/ ChildSetup(w) \/ Spawn(w) \/ Deadline(w)
      PROVE  UNCHANGED Counters
  BY <1>3 DEF StartFails, ChildSetup, Spawn, Deadline, call, Counters
<1>4. ASSUME NEW q \in Proc,
             Exits(q) \/ Dies(q) \/ (\E s \in Stream : Output(q, s)) \/ (\E p \in Pipe : Release(q, p))
      PROVE  UNCHANGED Counters
  BY <1>4 DEF Exits, Dies, Output, Release, call, Counters
<1> QED BY <1>1, <1>2, <1>3, <1>4 DEF Next

\* The limit holds for each call of any number of them, whoever the output that
\* drain reads belongs to.
LEMMA LimitedKept ==
    ASSUME TypeOK, [Next]_vars, NEW w \in Worker, Limited(w)
    PROVE  Limited(w)'
<1>1. CASE UNCHANGED Counters
  BY <1>1 DEF Counters, Limited
<1>2. ASSUME NEW v \in Worker, NEW s \in Stream, NEW p \in Pipe, ReadData(v, s, p)
      PROVE  Limited(w)'
  <2>1. total[w] \in Nat /\ captured[w] \in Nat /\ OutputLimit \in Nat
    BY BoundAssumption DEF TypeOK
  <2>2. CASE v = w
    <3>1. total'[w] = IF total[w] < OutputLimit THEN total[w] + 1 ELSE total[w]
      BY <1>2, <2>2 DEF ReadData, Counted, TypeOK
    <3>2. captured'[w] = IF total[w] < OutputLimit THEN captured[w] + 1 ELSE captured[w]
      BY <1>2, <2>2 DEF ReadData, TypeOK
    <3>3. output_limited' = IF total'[w] >= OutputLimit THEN output_limited \cup {w} ELSE output_limited
      BY <1>2, <2>2 DEF ReadData
    <3> QED BY SMTT(60), <2>1, <3>1, <3>2, <3>3 DEF Limited
  <2>3. CASE v # w
    <3>1. total'[w] = total[w] /\ captured'[w] = captured[w] /\ (w \in output_limited' <=> w \in output_limited)
      BY <1>2, <2>3 DEF ReadData, TypeOK
    <3> QED BY <3>1 DEF Limited
  <2> QED BY <2>2, <2>3
<1> QED BY <1>1, <1>2, OnlyReads

\* What run_captured stores is never more than the limit, and just the limit
\* when output_limited is set.
Bounded ==
    \A w \in Worker : captured[w] <= OutputLimit /\ (w \in output_limited => captured[w] = OutputLimit)

\* output_limit bounds what each call stores, for any number of concurrent calls
\* and although drain reads on past the limit.
THEOREM OutputBounded == Spec => []Bounded
<1> DEFINE Inv == \A w \in Worker : Limited(w)
<1>1. Init => Inv
  <2> SUFFICES ASSUME Init, NEW w \in Worker
               PROVE  Limited(w)
    OBVIOUS
  <2>1. captured[w] = 0 /\ total[w] = 0 /\ w \notin output_limited
    BY DEF Init
  <2> QED BY SMTT(60), <2>1, BoundAssumption DEF Limited
<1>2. TypeOK /\ Inv /\ [Next]_vars => Inv'
  BY LimitedKept
<1>3. TypeOK /\ Inv => Bounded
  <2> SUFFICES ASSUME TypeOK, Inv, NEW w \in Worker
               PROVE  captured[w] <= OutputLimit /\ (w \in output_limited => captured[w] = OutputLimit)
    BY DEF Bounded
  <2>1. total[w] \in Nat /\ OutputLimit \in Nat /\ Limited(w)
    BY BoundAssumption DEF TypeOK
  <2> QED BY SMTT(60), <2>1 DEF Limited
<1> QED BY <1>1, <1>2, <1>3, TypesHold, PTL DEF Spec

-----------------------------------------------------------------------------
LEMMA EndsDiffer ==
    \A p, q : /\ ReadEnd(p) # NoEnd /\ WriteEnd(p) # NoEnd /\ ReadEnd(p) # WriteEnd(q)
              /\ (ReadEnd(p) = ReadEnd(q) => p = q) /\ (WriteEnd(p) = WriteEnd(q) => p = q)
BY DEF ReadEnd, WriteEnd, NoEnd

\* The steps of the processes and the reads with data leave the descriptors alone.
Table == <<fdtab, fd, wfd, open, pc>>

\* The steps that are not of a call.
Process(w) ==
    \/ ChildSetup(w) \/ Spawn(w) \/ Deadline(w)
    \/ \E q \in Proc : Exits(q) \/ Dies(q) \/ (\E s \in Stream : Output(q, s)) \/ (\E p \in Pipe : Release(q, p))

\* With one call, a step is of that call or of its processes.
LEMMA OneCall ==
    ASSUME Alone, NEW w \in Worker, [Next]_vars
    PROVE  UNCHANGED vars \/ Call(w) \/ StartFails(w) \/ Process(w)
BY DEF Next, Alone, Process

LEMMA ProcessTable ==
    ASSUME NEW w \in Worker, Process(w)
    PROVE  UNCHANGED Table
BY DEF Process, ChildSetup, Spawn, Deadline, Exits, Dies, Output, Release, call, Table

\* pipe() returns four different numbers that were free.
LEMMA PipesDescribed ==
    ASSUME TypeOK, NEW w \in Worker, pc[w] = "start", Descriptors(w), OpenPipes(w)
    PROVE  Descriptors(w)'
<1>1. PICK a, b, c, d \in Free : a < b /\ b < c /\ c < d /\ Pipes(w, a, b, c, d)
  BY DEF OpenPipes
<1>2. a \in Fd /\ b \in Fd /\ c \in Fd /\ d \in Fd
  BY DEF Free
<1>3. a \in Nat /\ b \in Nat /\ c \in Nat /\ d \in Nat
  BY <1>2, BoundAssumption
<1>4. a # b /\ a # c /\ a # d /\ b # c /\ b # d /\ c # d
  BY SMTT(60), <1>1, <1>3
<1>5. /\ fdtab'[a] = ReadEnd(<<w, "out">>) /\ fdtab'[b] = WriteEnd(<<w, "out">>)
      /\ fdtab'[c] = ReadEnd(<<w, "err">>) /\ fdtab'[d] = WriteEnd(<<w, "err">>)
      /\ \A n \in Fd : n \notin {a, b, c, d} => fdtab'[n] = fdtab[n]
  BY <1>1, <1>2, <1>4 DEF Pipes, TypeOK
<1>6. fd'[w] = [s \in Stream |-> IF s = "out" THEN a ELSE c]
      /\ wfd'[w] = [s \in Stream |-> IF s = "out" THEN b ELSE d]
  BY <1>1 DEF Pipes, TypeOK
<1>7. fd'[w]["out"] = a /\ fd'[w]["err"] = c /\ wfd'[w]["out"] = b /\ wfd'[w]["err"] = d
  BY <1>6 DEF Stream
<1>8. pc'[w] = "fork"
  BY DEF OpenPipes, Goto, TypeOK
<1>9. \A n \in Fd : fdtab[n] = NoEnd
  <2>1. ToClose(w) = {} /\ pc[w] \notin Whole /\ \A s \in Stream : pc[w] # ClosePoint(s)
    BY DEF ToClose, Whole, Loop, ClosePoint
  <2> QED BY <2>1 DEF Descriptors
<1>10. ToClose(w)' = Stream
  BY <1>8 DEF ToClose, Whole
<1>11. (\A s \in Stream : fd[w][s] \in Fd /\ fdtab[fd[w][s]] = ReadEnd(<<w, s>>))'
  BY <1>2, <1>5, <1>7 DEF Stream
<1>12. (\A s \in Stream : wfd[w][s] \in Fd /\ fdtab[wfd[w][s]] = WriteEnd(<<w, s>>))'
  BY <1>2, <1>5, <1>7 DEF Stream
<1>13. ASSUME NEW n \in Fd
       PROVE  \/ fdtab'[n] = NoEnd
              \/ \E s \in Stream : n = fd'[w][s] /\ fdtab'[n] = ReadEnd(<<w, s>>)
              \/ \E s \in Stream : n = wfd'[w][s] /\ fdtab'[n] = WriteEnd(<<w, s>>)
  BY <1>5, <1>7, <1>9 DEF Stream
<1>14. \A s \in Stream : pc'[w] # ClosePoint(s)
  BY <1>8 DEF ClosePoint
<1>15. pc'[w] \in Whole
  BY <1>8 DEF Whole
<1> QED BY <1>4, <1>7, <1>10, <1>11, <1>12, <1>13, <1>14, <1>15 DEF Descriptors

\* Which of the call's descriptors stand for its pipes, after every step.
LEMMA DescriptorsKept ==
    ASSUME TypeOK, Alone, NEW w \in Worker, Descriptors(w), [Next]_vars
    PROVE  Descriptors(w)'
<1> USE DEF Stream
<1>0. CASE UNCHANGED Table
  BY <1>0 DEF Table, Descriptors, ToClose
<1>1. CASE OpenPipes(w)
  BY <1>1, PipesDescribed DEF OpenPipes
<1>2. CASE StartFails(w)
  <2>1. pc'[w] = "done"
    BY <1>2 DEF StartFails, Goto, TypeOK
  <2>2. ToClose(w)' = {} /\ pc'[w] \notin Whole \cup Loop /\ \A s \in Stream : pc'[w] # ClosePoint(s)
    BY <2>1 DEF ToClose, Whole, Loop, ClosePoint
  <2>3. ASSUME NEW n \in Fd
        PROVE  fdtab'[n] = NoEnd
    <3>1. CASE pc[w] = "start"
      <4>1. ToClose(w) = {} /\ pc[w] \notin Whole /\ \A s \in Stream : pc[w] # ClosePoint(s)
        BY <3>1 DEF ToClose, Whole, Loop, ClosePoint
      <4>2. fdtab[n] = NoEnd
        BY <4>1 DEF Descriptors
      <4> QED BY <1>2, <3>1, <4>2 DEF StartFails
    <3>2. CASE pc[w] = "fork"
      <4>1. fdtab'[n] = IF \E s \in Stream : n \in {fd[w][s], wfd[w][s]} THEN NoEnd ELSE fdtab[n]
        BY <1>2, <3>2 DEF StartFails
      <4>2. fdtab[n] = NoEnd \/ \E s \in Stream : n = fd[w][s] \/ n = wfd[w][s]
        BY DEF Descriptors
      <4> QED BY <4>1, <4>2
    <3> QED BY <1>2, <3>1, <3>2 DEF StartFails
  <2> QED BY <2>2, <2>3 DEF Descriptors
<1>3. CASE Fork(w)
  <2>1. pc[w] = "fork" /\ pc'[w] = "close" /\ UNCHANGED <<fdtab, fd, wfd, open>>
    BY <1>3 DEF Fork, Goto, TypeOK
  <2>2. ToClose(w) = Stream /\ ToClose(w)' = Stream /\ pc[w] \in Whole /\ pc'[w] \in Whole
        /\ \A s \in Stream : pc[w] # ClosePoint(s) /\ pc'[w] # ClosePoint(s)
    BY <2>1 DEF ToClose, Whole, ClosePoint
  <2> QED BY <2>1, <2>2 DEF Descriptors
<1>4. CASE CloseWriteEnds(w)
  <2>1. pc[w] = "close" /\ pc'[w] = "out" /\ open'[w] = Stream /\ UNCHANGED <<fd, wfd>>
    BY <1>4 DEF CloseWriteEnds, Goto, TypeOK
  <2>2. /\ ToClose(w) = Stream /\ ToClose(w)' = Stream /\ pc[w] \in Whole /\ pc'[w] \notin Whole
        /\ \A s \in Stream : pc[w] # ClosePoint(s) /\ pc'[w] # ClosePoint(s)
    BY <2>1 DEF ToClose, Whole, Loop, ClosePoint
  <2>3. \A n \in Fd : fdtab'[n] = IF \E s \in Stream : n = wfd[w][s] THEN NoEnd ELSE fdtab[n]
    BY <1>4 DEF CloseWriteEnds
  <2>4. ASSUME NEW s \in Stream
        PROVE  fd[w][s] \in Fd /\ fdtab'[fd[w][s]] = ReadEnd(<<w, s>>)
    <3>1. fd[w][s] \in Fd /\ fdtab[fd[w][s]] = ReadEnd(<<w, s>>)
      BY <2>2 DEF Descriptors
    <3>2. \A z \in Stream : fd[w][s] # wfd[w][z]
      BY SMTT(60), <2>2, <3>1, EndsDiffer DEF Descriptors
    <3> QED BY <2>3, <3>1, <3>2
  <2>5. ASSUME NEW n \in Fd, fdtab'[n] # NoEnd
        PROVE  \E s \in Stream : n = fd[w][s] /\ fdtab'[n] = ReadEnd(<<w, s>>)
    <3>1. fdtab'[n] = fdtab[n] /\ ~\E s \in Stream : n = wfd[w][s]
      BY <2>3, <2>5
    <3> QED BY <2>5, <3>1 DEF Descriptors
  <2>6. fd[w]["out"] # fd[w]["err"]
    BY <2>2 DEF Descriptors
  <2> QED BY <2>1, <2>2, <2>4, <2>5, <2>6 DEF Descriptors
<1>5. ASSUME NEW s \in Stream, NEW p \in Pipe, ReadNothing(w, s, p)
      PROVE  Descriptors(w)'
  <2>1. pc[w] \in {"out", "err"} /\ pc'[w] \in {"err", "check"} /\ UNCHANGED <<fdtab, fd, wfd, open>>
    BY <1>5 DEF ReadNothing, Goto, AfterDrain, TypeOK, kernel
  <2>2. /\ ToClose(w) = open[w] /\ ToClose(w)' = open[w] /\ pc[w] \notin Whole /\ pc'[w] \notin Whole
        /\ pc[w] \in Loop /\ \A z \in Stream : pc[w] # ClosePoint(z) /\ pc'[w] # ClosePoint(z)
    BY <2>1 DEF ToClose, Whole, Loop, ClosePoint
  <2> QED BY <2>1, <2>2 DEF Descriptors
<1>6. ASSUME NEW s \in Stream, ReadEnds(w, s)
      PROVE  Descriptors(w)'
  <2>1. /\ pc[w] = s /\ pc'[w] = ClosePoint(s) /\ UNCHANGED <<fdtab, fd, wfd>>
        /\ open'[w] = open[w] \ {s}
    BY <1>6 DEF ReadEnds, Goto, TypeOK, kernel
  <2>2. /\ ToClose(w) = open[w] /\ ToClose(w)' = open[w] \ {s} /\ pc[w] \notin Whole /\ pc'[w] \notin Whole
        /\ pc[w] \in Loop /\ \A z \in Stream : pc[w] # ClosePoint(z) /\ (pc'[w] = ClosePoint(z) => z = s)
    BY <2>1 DEF ToClose, Whole, Loop, ClosePoint
  <2> QED BY SMTT(60), <2>1, <2>2 DEF Descriptors
<1>7. ASSUME NEW s \in Stream, CloseDrained(w, s)
      PROVE  Descriptors(w)'
  <2>1. /\ pc[w] = ClosePoint(s) /\ pc'[w] = AfterDrain(s) /\ UNCHANGED <<fd, wfd, open>>
        /\ fdtab' = [fdtab EXCEPT ![fd[w][s]] = NoEnd]
    BY <1>7 DEF CloseDrained, Goto, TypeOK
  <2>2. /\ ToClose(w) = open[w] /\ ToClose(w)' = open[w] /\ pc[w] \notin Whole /\ pc'[w] \notin Whole
        /\ pc[w] \in Loop
        /\ \A z \in Stream : (pc[w] = ClosePoint(z) <=> z = s) /\ pc'[w] # ClosePoint(z)
    BY <2>1 DEF ToClose, Whole, Loop, ClosePoint, AfterDrain
  <2>3. \A n \in Fd : fdtab'[n] = IF n = fd[w][s] THEN NoEnd ELSE fdtab[n]
    BY <2>1 DEF TypeOK
  <2>4. s \notin open[w] /\ fd[w]["out"] # fd[w]["err"]
    BY <2>2 DEF Descriptors
  <2>5. ASSUME NEW z \in open[w]
        PROVE  fd[w][z] \in Fd /\ fdtab'[fd[w][z]] = ReadEnd(<<w, z>>)
    <3>1. z \in Stream /\ z # s
      BY <2>4 DEF TypeOK
    <3>2. fd[w][z] # fd[w][s]
      BY SMTT(60), <2>4, <3>1
    <3> QED BY <2>2, <2>3, <3>2 DEF Descriptors
  <2>6. ASSUME NEW n \in Fd, fdtab'[n] # NoEnd
        PROVE  \E z \in Stream : n = fd[w][z] /\ fdtab'[n] = ReadEnd(<<w, z>>) /\ z \in open[w]
    <3>1. fdtab'[n] = fdtab[n] /\ n # fd[w][s]
      BY <2>3, <2>6
    <3> QED BY <2>2, <2>6, <3>1 DEF Descriptors
  <2> QED BY SMTT(60), <2>1, <2>2, <2>4, <2>5, <2>6 DEF Descriptors
<1>8. CASE Check(w)
  <2>1. pc[w] = "check" /\ pc'[w] \in {"out", "finish"} /\ UNCHANGED <<fdtab, fd, wfd, open>>
    BY <1>8 DEF Check, Goto, TypeOK
  <2>2. /\ ToClose(w) = open[w] /\ ToClose(w)' = open[w] /\ pc[w] \notin Whole /\ pc'[w] \notin Whole
        /\ pc[w] \in Loop /\ \A z \in Stream : pc[w] # ClosePoint(z) /\ pc'[w] # ClosePoint(z)
    BY <2>1 DEF ToClose, Whole, Loop, ClosePoint
  <2> QED BY <2>1, <2>2 DEF Descriptors
<1>9. CASE Finish(w)
  <2>1. pc[w] = "finish" /\ pc'[w] = "reap" /\ UNCHANGED <<fd, wfd, open>>
    BY <1>9 DEF Finish, Goto, TypeOK
  <2>2. /\ ToClose(w) = open[w] /\ ToClose(w)' = {} /\ pc[w] \notin Whole /\ pc'[w] \notin Whole \cup Loop
        /\ \A z \in Stream : pc[w] # ClosePoint(z) /\ pc'[w] # ClosePoint(z)
    BY <2>1 DEF ToClose, Whole, Loop, ClosePoint
  <2>3. \A n \in Fd : fdtab'[n] = IF \E s \in open[w] : n = fd[w][s] THEN NoEnd ELSE fdtab[n]
    BY <1>9 DEF Finish
  <2>4. \A n \in Fd : fdtab'[n] = NoEnd
    BY <2>2, <2>3 DEF Descriptors
  <2> QED BY <2>2, <2>4 DEF Descriptors
<1>10. CASE Reap(w)
  <2>1. pc[w] = "reap" /\ pc'[w] = "done" /\ UNCHANGED <<fdtab, fd, wfd, open>>
    BY <1>10 DEF Reap, Goto, TypeOK
  <2>2. /\ ToClose(w) = {} /\ ToClose(w)' = {} /\ pc[w] \notin Whole /\ pc'[w] \notin Whole \cup Loop
        /\ \A z \in Stream : pc[w] # ClosePoint(z) /\ pc'[w] # ClosePoint(z)
    BY <2>1 DEF ToClose, Whole, Loop, ClosePoint
  <2> QED BY <2>1, <2>2 DEF Descriptors
<1>11. ASSUME NEW s \in Stream, NEW p \in Pipe, ReadData(w, s, p)
       PROVE  UNCHANGED Table
  BY <1>11 DEF ReadData, Table
<1>12. UNCHANGED vars \/ Process(w) => UNCHANGED Table
  BY ProcessTable DEF vars, kernel, call, Table
<1> QED BY <1>0, <1>1, <1>2, <1>3, <1>4, <1>5, <1>6, <1>7, <1>8, <1>9, <1>10, <1>11, <1>12, OneCall DEF Call

-----------------------------------------------------------------------------
\* The only pipes are those of the call.
LEMMA OwnPipes ==
    ASSUME Alone, NEW w \in Worker
    PROVE  /\ \A p \in Pipe : p = Out(w) \/ p = Err(w)
           /\ Out(w) \in Pipe /\ Err(w) \in Pipe /\ Out(w) # Err(w)
           /\ \A q \in Proc : q[1] = w
           /\ \A s \in Stream : <<w, s>> \in Pipe
BY SMTT(60) DEF Alone, Pipe, Proc, Stream, Out, Err

Volume == <<total, buffer, written>>

\* What is read leaves its pipe, and what is written enters it.
LEMMA AccountedKept ==
    ASSUME TypeOK, Alone, NEW w \in Worker, Limited(w), Accounted(w), [Next]_vars
    PROVE  Accounted(w)'
<1> DEFINE o == Out(w)
           e == Err(w)
<1>0. /\ o \in Pipe /\ e \in Pipe /\ o # e /\ \A p \in Pipe : p = o \/ p = e
      /\ total[w] \in Nat /\ buffer[o] \in Nat /\ buffer[e] \in Nat
      /\ written[o] \in Nat /\ written[e] \in Nat
      /\ OutputLimit \in Nat /\ PipeSize \in Nat
  BY OwnPipes, BoundAssumption DEF TypeOK
<1> DEFINE Sums == /\ total[w] + buffer[o] + buffer[e] = written[o] + written[e]
                   /\ buffer[o] <= written[o] /\ buffer[e] <= written[e]
<1>a. output_limited \subseteq output_limited'
  BY OnlyReads DEF Counters, ReadData
<1>b. SUFFICES ASSUME w \notin output_limited'
               PROVE  Sums'
  BY DEF Accounted, Out, Err
<1>1. Sums /\ w \notin output_limited
  BY <1>a, <1>b DEF Accounted
<1>c. total[w] <= OutputLimit /\ (total[w] > 0 => total[w] < OutputLimit)
  BY SMTT(60), <1>0, <1>1 DEF Limited
<1> HIDE DEF o, e
<1>3. CASE UNCHANGED Volume
  BY <1>1, <1>3 DEF Volume
<1>4. ASSUME NEW s \in Stream, NEW p \in Pipe, ReadData(w, s, p)
      PROVE  Sums'
  <2>0. total[w] < OutputLimit
    <3>1. /\ total'[w] = IF total[w] < OutputLimit THEN total[w] + 1 ELSE total[w]
          /\ ~(total'[w] >= OutputLimit)
      BY <1>4, <1>b DEF ReadData, Counted, TypeOK
    <3> QED BY SMTT(60), <1>0, <3>1
  <2>1. total'[w] = total[w] + 1 /\ written' = written /\ buffer[p] > 0
    BY <1>4, <2>0 DEF ReadData, Counted, TypeOK
  <2>2. buffer'[p] = buffer[p] - 1 /\ \A r \in Pipe : r # p => buffer'[r] = buffer[r]
    BY <1>4 DEF ReadData, TypeOK
  <2>3. CASE p = o
    <3>1. buffer'[o] = buffer[o] - 1 /\ buffer'[e] = buffer[e]
      BY <1>0, <2>2, <2>3
    <3> QED BY SMTT(60), <1>0, <1>1, <2>1, <3>1
  <2>4. CASE p = e
    <3>1. buffer'[e] = buffer[e] - 1 /\ buffer'[o] = buffer[o]
      BY <1>0, <2>2, <2>4
    <3> QED BY SMTT(60), <1>0, <1>1, <2>1, <3>1
  <2> QED BY <1>0, <2>3, <2>4
<1>5. ASSUME NEW q \in Proc, NEW s \in Stream, Output(q, s)
      PROVE  Sums'
  <2> DEFINE p == <<q[1], s>>
  <2>0. p \in Pipe
    BY OwnPipes
  <2>1. total' = total
    BY <1>5 DEF Output, call
  <2>2. /\ buffer[p] < PipeSize /\ buffer'[p] = buffer[p] + 1
        /\ written'[p] = IF written[p] < MostWritten THEN written[p] + 1 ELSE written[p]
        /\ \A r \in Pipe : r # p => buffer'[r] = buffer[r] /\ written'[r] = written[r]
    BY <1>5, <2>0 DEF Output, Counted, TypeOK
  <2> HIDE DEF p
  <2>3. CASE p = o
    <3>0. written[o] < MostWritten
      BY SMTT(60), <1>0, <1>1, <1>c, <2>2, <2>3 DEF MostWritten
    <3>1. buffer'[o] = buffer[o] + 1 /\ buffer'[e] = buffer[e] /\ written'[o] = written[o] + 1 /\ written'[e] = written[e]
      BY <1>0, <2>2, <2>3, <3>0
    <3> QED BY SMTT(60), <1>0, <1>1, <2>1, <3>1
  <2>4. CASE p = e
    <3>0. written[e] < MostWritten
      BY SMTT(60), <1>0, <1>1, <1>c, <2>2, <2>4 DEF MostWritten
    <3>1. buffer'[e] = buffer[e] + 1 /\ buffer'[o] = buffer[o] /\ written'[e] = written[e] + 1 /\ written'[o] = written[o]
      BY <1>0, <2>2, <2>4, <3>0
    <3> QED BY SMTT(60), <1>0, <1>1, <2>1, <3>1
  <2> QED BY <1>0, <2>0, <2>3, <2>4
<1>6. StartFails(w) \/ OpenPipes(w) \/ Fork(w) \/ CloseWriteEnds(w) \/ Check(w) \/ Finish(w) \/ Reap(w)
         => UNCHANGED Volume
  BY DEF StartFails, OpenPipes, Fork, CloseWriteEnds, Check, Finish, Reap, Volume
<1>7. \A s \in Stream : (\E p \in Pipe : ReadNothing(w, s, p)) \/ ReadEnds(w, s) \/ CloseDrained(w, s)
         => UNCHANGED Volume
  BY DEF ReadNothing, ReadEnds, CloseDrained, kernel, Volume
<1>8. ChildSetup(w) \/ Spawn(w) \/ Deadline(w) => UNCHANGED Volume
  BY DEF ChildSetup, Spawn, Deadline, call, Volume
<1>9. \A q \in Proc : Exits(q) \/ Dies(q) \/ (\E p \in Pipe : Release(q, p)) => UNCHANGED Volume
  BY DEF Exits, Dies, Release, call, Volume
<1>10. UNCHANGED vars => UNCHANGED Volume
  BY DEF vars, kernel, call, Volume
<1> QED BY <1>3, <1>4, <1>5, <1>6, <1>7, <1>8, <1>9, <1>10, OneCall DEF Call, Process

\* Nothing comes into a pipe that drain has found at its end, and the loop is
\* left by itself only when both are.
LEMMA DrainedKept ==
    ASSUME TypeOK, Alone, NEW w \in Worker, Descriptors(w), Drained(w), [Next]_vars
    PROVE  Drained(w)'
<1> USE DEF Stream
<1>0. /\ \A q \in Proc : q[1] = w
      /\ \A s \in Stream : <<w, s>> \in Pipe
      /\ <<w, "out">> # <<w, "err">>
  BY OwnPipes
<1>1. CASE UNCHANGED <<pc, open, buffer, held, timed_out, output_limited>>
  BY <1>1 DEF Drained
<1>2. CASE OpenPipes(w)
  <2>1. pc[w] = "start" /\ pc'[w] = "fork" /\ UNCHANGED <<open, buffer, held>>
    BY <1>2 DEF OpenPipes, Goto, TypeOK
  <2> QED BY <2>1 DEF Drained
<1>3. CASE StartFails(w)
  <2>1. pc[w] \in {"start", "fork"} /\ pc'[w] = "done" /\ UNCHANGED <<open, buffer, held>>
    BY <1>3 DEF StartFails, Goto, TypeOK
  <2> QED BY <2>1 DEF Drained
<1>4. CASE Fork(w)
  <2>1. pc[w] = "fork" /\ pc'[w] = "close" /\ UNCHANGED open
    BY <1>4 DEF Fork, Goto, TypeOK
  <2> QED BY <2>1 DEF Drained
<1>5. CASE CloseWriteEnds(w)
  <2>1. pc'[w] = "out" /\ open'[w] = Stream
    BY <1>5 DEF CloseWriteEnds, Goto, TypeOK
  <2> QED BY <2>1 DEF Drained
<1>6. ASSUME NEW s \in Stream, NEW p \in Pipe, ReadData(w, s, p)
      PROVE  Drained(w)'
  <2>1. pc[w] = s /\ UNCHANGED <<pc, open, held, timed_out>> /\ output_limited \subseteq output_limited'
    BY <1>6 DEF ReadData
  <2>2. \A r \in Pipe : buffer[r] = 0 => buffer'[r] = 0
    BY SMTT(60), <1>6 DEF ReadData, TypeOK
  <2> QED BY <1>0, <2>1, <2>2 DEF Drained
<1>7. ASSUME NEW s \in Stream, NEW p \in Pipe, ReadNothing(w, s, p)
      PROVE  Drained(w)'
  <2>1. pc[w] \in {"out", "err"} /\ pc'[w] \in {"err", "check"} /\ UNCHANGED <<open, buffer, held>>
    BY <1>7 DEF ReadNothing, Goto, AfterDrain, TypeOK, kernel
  <2> QED BY <2>1 DEF Drained
<1>8. ASSUME NEW s \in Stream, ReadEnds(w, s)
      PROVE  Drained(w)'
  <2>1. /\ pc[w] = s /\ pc'[w] \in {"close_out", "close_err"} /\ open'[w] = open[w] \ {s}
        /\ UNCHANGED <<buffer, held>>
    BY <1>8 DEF ReadEnds, Goto, ClosePoint, TypeOK, kernel
  <2>2. CASE s \in open[w]
    <3>1. s \in ToClose(w)
      BY <2>1, <2>2 DEF ToClose, Whole, Loop
    <3>2. fdtab[fd[w][s]] = ReadEnd(<<w, s>>)
      BY <3>1 DEF Descriptors
    <3>3. buffer[<<w, s>>] = 0 /\ held[<<w, s>>] = {}
      BY <1>0, <1>8, <3>2 DEF ReadEnds, HasWriter
    <3> QED BY <2>1, <3>3 DEF Drained
  <2>3. CASE s \notin open[w]
    BY <2>1, <2>3 DEF Drained
  <2> QED BY <2>2, <2>3
<1>9. ASSUME NEW s \in Stream, CloseDrained(w, s)
      PROVE  Drained(w)'
  <2>1. pc[w] \in {"close_out", "close_err"} /\ pc'[w] \in {"err", "check"} /\ UNCHANGED <<open, buffer, held>>
    BY <1>9 DEF CloseDrained, Goto, AfterDrain, ClosePoint, TypeOK
  <2> QED BY <2>1 DEF Drained
<1>10. CASE Check(w)
  <2>1. pc[w] = "check" /\ pc'[w] \in {"out", "finish"} /\ UNCHANGED <<open, buffer, held, output_limited>>
    BY <1>10 DEF Check, Goto, TypeOK
  <2>2. pc'[w] = "finish" => open[w] = {} \/ w \in timed_out' \cup output_limited
    BY <1>10 DEF Check, Goto, TypeOK
  <2> QED BY <2>1, <2>2 DEF Drained
<1>11. CASE Finish(w) \/ Reap(w)
  <2>1. /\ pc[w] \in {"finish", "reap"} /\ pc'[w] \in {"reap", "done"}
        /\ UNCHANGED <<open, buffer, held, timed_out, output_limited>>
    BY <1>11 DEF Finish, Reap, Goto, TypeOK
  <2> QED BY <2>1 DEF Drained
<1>12. CASE Spawn(w)
  <2>1. UNCHANGED <<pc, open, buffer, timed_out, output_limited>> /\ \A p \in Pipe : held[p] = {} => held'[p] = {}
    BY <1>12 DEF Spawn, call
  <2> QED BY <1>0, <2>1 DEF Drained
<1>13. ASSUME NEW q \in Proc, NEW s \in Stream, Output(q, s)
       PROVE  Drained(w)'
  <2>1. UNCHANGED <<pc, open, held, timed_out, output_limited>>
    BY <1>13 DEF Output, call
  <2>2. q[1] = w /\ q \in held[<<w, s>>]
    BY <1>0, <1>13 DEF Output
  <2>3. \A z \in Stream : held[<<w, z>>] = {} => buffer'[<<w, z>>] = buffer[<<w, z>>]
    BY <1>0, <1>13, <2>2 DEF Output, TypeOK
  <2> QED BY <2>1, <2>3 DEF Drained
<1>14. ASSUME NEW q \in Proc, NEW p \in Pipe, Release(q, p)
       PROVE  Drained(w)'
  <2>1. UNCHANGED <<pc, open, buffer, timed_out, output_limited>> /\ \A r \in Pipe : held[r] = {} => held'[r] = {}
    BY <1>14 DEF Release, call, TypeOK
  <2> QED BY <1>0, <2>1 DEF Drained
<1>15. UNCHANGED vars \/ ChildSetup(w) \/ Deadline(w) \/ (\E q \in Proc : Exits(q) \/ Dies(q))
         => UNCHANGED <<pc, open, buffer, held, timed_out, output_limited>>
  BY DEF vars, kernel, call, ChildSetup, Deadline, Exits, Dies
<1> QED BY <1>1, <1>2, <1>3, <1>4, <1>5, <1>6, <1>7, <1>8, <1>9, <1>10, <1>11, <1>12, <1>13, <1>14, <1>15,
           OneCall DEF Call, Process

\* The inductive invariant holds for a call that is alone.
LEMMA Invariant ==
    ASSUME Alone
    PROVE  Spec => []IInv
<1>1. Init => IInv
  <2> SUFFICES ASSUME Init, NEW w \in Worker
               PROVE  Limited(w) /\ Descriptors(w) /\ Accounted(w) /\ Drained(w)
    BY DEF IInv
  <2>1. captured[w] = 0 /\ total[w] = 0 /\ w \notin output_limited
    BY DEF Init
  <2>2. /\ pc[w] = "start" /\ open[w] = {} /\ \A n \in Fd : fdtab[n] = NoEnd
        /\ \A p \in Pipe : buffer[p] = 0 /\ written[p] = 0 /\ held[p] = {}
    BY DEF Init
  <2>3. \A s \in Stream : <<w, s>> \in Pipe
    BY DEF Pipe
  <2>4. Limited(w)
    BY SMTT(60), <2>1, BoundAssumption DEF Limited
  <2>5. Descriptors(w)
    BY <2>2 DEF Descriptors, ToClose, Whole, Loop, ClosePoint
  <2>6. Accounted(w)
    BY SMTT(60), <2>1, <2>2, <2>3 DEF Accounted, Out, Err, Stream
  <2>7. Drained(w)
    BY <2>2, <2>3 DEF Drained
  <2> QED BY <2>4, <2>5, <2>6, <2>7
<1>2. TypeOK /\ IInv /\ [Next]_vars => IInv'
  <2> SUFFICES ASSUME TypeOK, IInv, [Next]_vars, NEW w \in Worker
               PROVE  (Limited(w) /\ Descriptors(w) /\ Accounted(w) /\ Drained(w))'
    BY DEF IInv
  <2>1. Limited(w) /\ Descriptors(w) /\ Accounted(w) /\ Drained(w)
    BY DEF IInv
  <2> QED BY <2>1, LimitedKept, DescriptorsKept, AccountedKept, DrainedKept
<1> QED BY <1>1, <1>2, TypesHold, PTL DEF Spec

\* A call that is alone stores everything its task wrote when it ends by itself,
\* whatever order the child and its descendant wrote, closed and ended in, for
\* every limit and every amount of output.
THEOREM NothingLost ==
    ASSUME Alone
    PROVE  Spec => []OutputComplete
<1>1. TypeOK /\ IInv => OutputComplete
  <2> SUFFICES ASSUME TypeOK, IInv, NEW w \in Worker
               PROVE  /\ captured[w] <= OutputLimit
                      /\ w \in output_limited => captured[w] = OutputLimit
                      /\ pc[w] \in {"reap", "done"} /\ w \notin timed_out \cup output_limited =>
                            captured[w] = written[<<w, "out">>] + written[<<w, "err">>]
    BY DEF OutputComplete
  <2>1. /\ Limited(w) /\ Accounted(w) /\ Drained(w)
        /\ total[w] \in Nat /\ OutputLimit \in Nat
    BY BoundAssumption DEF IInv, TypeOK
  <2>2. Out(w) \in Pipe /\ Err(w) \in Pipe
    BY DEF Pipe, Out, Err, Stream
  <2>3. written[Out(w)] \in Nat /\ written[Err(w)] \in Nat
    BY <2>2 DEF TypeOK
  <2>4. captured[w] <= OutputLimit /\ (w \in output_limited => captured[w] = OutputLimit)
    BY SMTT(60), <2>1 DEF Limited
  <2>5. ASSUME pc[w] \in {"reap", "done"}, w \notin timed_out \cup output_limited
        PROVE  captured[w] = written[<<w, "out">>] + written[<<w, "err">>]
    <3>1. open[w] = {}
      BY <2>1, <2>5 DEF Drained
    <3>2. buffer[Out(w)] = 0 /\ buffer[Err(w)] = 0
      BY <2>1, <2>5, <3>1 DEF Drained, Stream, Out, Err
    <3>3. total[w] = written[Out(w)] + written[Err(w)]
      BY SMTT(60), <2>1, <2>3, <2>5, <3>2 DEF Accounted
    <3>4. captured[w] = total[w]
      BY SMTT(60), <2>1, <2>5 DEF Limited
    <3> QED BY <3>3, <3>4 DEF Out, Err
  <2> QED BY <2>4, <2>5
<1>2. Spec => []IInv
  BY Invariant
<1> QED BY <1>1, <1>2, TypesHold, PTL

\* A call that is alone leaves no descriptor behind, on every path: a failed
\* pipe() or fork(), the end of both streams, the limit and the deadline.
THEOREM AllClosed ==
    ASSUME Alone, Worker # {}
    PROVE  Spec => []NoDescriptorLeak
<1>1. IInv => NoDescriptorLeak
  <2> SUFFICES ASSUME IInv, \A w \in Worker : pc[w] = "done", NEW n \in Fd
               PROVE  fdtab[n] = NoEnd
    BY DEF NoDescriptorLeak
  <2>1. PICK w \in Worker : TRUE
    OBVIOUS
  <2>2. Descriptors(w) /\ pc[w] = "done"
    BY DEF IInv
  <2>3. ToClose(w) = {} /\ pc[w] \notin Whole /\ \A s \in Stream : pc[w] # ClosePoint(s)
    BY <2>2 DEF ToClose, Whole, Loop, ClosePoint
  <2> QED BY <2>2, <2>3 DEF Descriptors
<1>2. Spec => []IInv
  BY Invariant
<1> QED BY <1>1, <1>2, PTL

-----------------------------------------------------------------------------
(***************************************************************************)
(* Module Sandbox, what the child of such a call executes, for every set   *)
(* of options: a target runs confined, does not outlive its caller, and    *)
(* its status is the one run() returns.                                    *)
(*                                                                         *)
(* The invariant has three parts.  Handshake says what the byte in the     *)
(* pipe stands for at every control point of the parent; Guarded relates   *)
(* the death signal to the two getppid() calls around it; Ended says how   *)
(* far the child can be when the parent has given up or returned.          *)
(***************************************************************************)
\* What the parent has to finish before it writes the byte.
MapsDone == "user_namespace" \in config => mapped
GroupDone == "cgroup" \in config => assigned

\* The pipe is empty until the parent writes the byte, the byte is written
\* behind the maps and the cgroup, and the child has passed its read only if
\* the byte was there.
Handshake ==
    /\ parent \in {"setpgid", "cgroup", "map", "write"} => ready = "empty"
    /\ parent = "giveup" => ready = "eof"
    /\ parent \in {"map", "write", "wait"} => GroupDone
    /\ parent \in {"write", "wait"} => MapsDone
    /\ ready = "byte" => MapsDone /\ GroupDone
    /\ "ready" \in applied => ready = "byte"

\* prctl(PR_SET_PDEATHSIG) stands between the two getppid(): a child whose
\* parent died before it took effect never passes the second.
Guarded ==
    /\ "getppid_again" \in applied => "pdeathsig" \in applied
    /\ "pdeathsig" \in applied /\ "unprivileged" \notin config => armed
    /\ parent = "dead" /\ child \in {"setup", "target"} /\ "unprivileged" \notin config =>
          "getppid_again" \notin applied

\* A target has passed every step, and the parent returns only without child.
Ended ==
    /\ child = "target" => ran
    /\ child = "setup" => ~ran
    /\ ran => Wanted(config) \subseteq applied
    /\ parent = "returned" => child = "gone"
    /\ StatusOwned

RunInv == RunTypeOK /\ Handshake /\ Guarded /\ Ended

LEMMA Selected ==
    /\ {"pdeathsig", "getppid_again"} \subseteq Wanted(config)
    /\ "user_namespace" \in config => "ready" \in Wanted(config)
    /\ "unprivileged" \in Wanted(config) => "unprivileged" \in config
BY DEF Wanted, Always, ChildOptions

\* The two getppid() are around the request of the death signal.
LEMMA Order == Turn("getppid_again") => "pdeathsig" \in applied
<1>1. Rank("pdeathsig") = 3 /\ Rank("getppid_again") = 4
  BY DEF Rank
<1>2. ~(4 <= 3)
  BY SMTT(60)
<1> QED
  BY <1>1, <1>2, Selected DEF Turn

LEMMA RunStart == RunInit => RunInv
<1> SUFFICES ASSUME RunInit PROVE RunInv
  OBVIOUS
<1>1. RunTypeOK
  BY DEF RunInit, RunTypeOK
<1>2. Handshake /\ Guarded /\ Ended
  BY DEF RunInit, Handshake, MapsDone, GroupDone, Guarded, Ended, StatusOwned
<1> QED
  BY <1>1, <1>2 DEF RunInv

LEMMA DoStep ==
    ASSUME RunInv, NEW s \in Steps, Do(s)
    PROVE RunInv'
<1> USE DEF RunInv
<1>1. RunTypeOK'
  BY SMTT(60) DEF Do, RunTypeOK, Armed
<1>2. Handshake'
  BY DEF Do, Possible, Handshake, MapsDone, GroupDone
<1>3. Guarded'
  <2>1. s = "getppid_again" => "pdeathsig" \in applied /\ parent # "dead"
    BY Order DEF Do, Possible
  <2>2. "unprivileged" \notin config => s # "unprivileged"
    BY Selected DEF Do, Turn
  <2> QED
    BY <2>1, <2>2 DEF Do, Guarded, Armed
<1>4. Ended'
  <2>1. child = "setup" /\ child' = "setup" /\ ~ran'
    BY DEF Do, Turn, Ended
  <2> QED
    BY <2>1 DEF Do, Ended, StatusOwned
<1> QED
  BY <1>1, <1>2, <1>3, <1>4

\* Every way the child ends.
LEMMA EndStep ==
    ASSUME RunInv, NEW s \in TargetOutcomes, child \in {"setup", "target"}, ChildEnds(s)
    PROVE RunInv'
<1> USE DEF RunInv
<1>1. RunTypeOK'
  BY SMTT(60) DEF ChildEnds, RunTypeOK
<1>2. Handshake'
  BY DEF ChildEnds, Handshake, MapsDone, GroupDone
<1>3. Guarded'
  BY DEF ChildEnds, Guarded
<1>4. Ended'
  BY DEF ChildEnds, Ended, StatusOwned
<1> QED
  BY <1>1, <1>2, <1>3, <1>4

LEMMA ChildStep ==
    ASSUME RunInv, Child
    PROVE RunInv'
<1>1. ASSUME NEW s \in Steps, Do(s) PROVE RunInv'
  BY <1>1, DoStep
<1>2. ASSUME NEW s \in Steps, Fail(s) PROVE RunInv'
  BY <1>2, EndStep DEF Fail, Turn, TargetOutcomes
<1>3. CASE Exec
  <2> USE DEF RunInv
  <2>1. RunTypeOK'
    BY SMTT(60), <1>3 DEF Exec, RunTypeOK
  <2>2. Handshake'
    BY <1>3 DEF Exec, Handshake, MapsDone, GroupDone
  <2>3. Guarded'
    BY <1>3, Selected DEF Exec, Guarded
  <2>4. Ended'
    <3>1. parent # "returned"
      BY <1>3 DEF Exec, Ended
    <3> QED
      BY <1>3, <3>1 DEF Exec, Ended, StatusOwned
  <2> QED
    BY <2>1, <2>2, <2>3, <2>4
<1>4. CASE ExecFails
  BY <1>4, EndStep DEF ExecFails, TargetOutcomes
<1> QED
  BY <1>1, <1>2, <1>3, <1>4 DEF Child

LEMMA AbandonStep ==
    ASSUME RunInv, parent \in {"setpgid", "cgroup", "map"}, Abandon
    PROVE RunInv'
<1> USE DEF RunInv
<1>1. RunTypeOK'
  BY SMTT(60) DEF Abandon, RunTypeOK, TargetOutcomes
<1>2. Handshake'
  BY DEF Abandon, Handshake, MapsDone, GroupDone
<1>3. Guarded'
  BY DEF Abandon, Guarded
<1>4. Ended'
  BY DEF Abandon, Ended, StatusOwned
<1> QED
  BY <1>1, <1>2, <1>3, <1>4

\* The steps of the parent that leave the child alone: their effect on the
\* control point, the pipe, the maps and the cgroup decides.
LEMMA ForwardStep ==
    ASSUME RunInv, Handshake', RunTypeOK',
           UNCHANGED <<config, child, applied, armed, ended, ret, ran>>,
           parent \notin {"dead", "returned"}, parent' \notin {"dead", "returned"}
    PROVE RunInv'
<1>1. Guarded'
  BY DEF RunInv, Guarded
<1>2. Ended'
  BY DEF RunInv, Ended, StatusOwned
<1> QED
  BY <1>1, <1>2 DEF RunInv

LEMMA ParentStep ==
    ASSUME RunInv, Parent
    PROVE RunInv'
<1>t. RunTypeOK /\ Handshake /\ Guarded /\ Ended
  BY DEF RunInv
<1>1. CASE SetProcessGroup
  <2>1. CASE Proceed("cgroup")
    <3>1. RunTypeOK'
      BY SMTT(60), <1>t, <2>1 DEF Proceed, RunTypeOK
    <3>2. Handshake'
      BY <1>t, <1>1, <2>1 DEF Proceed, SetProcessGroup, Handshake, MapsDone, GroupDone
    <3> QED
      BY <3>1, <3>2, <1>1, <2>1, ForwardStep DEF Proceed, SetProcessGroup
  <2> QED
    BY <1>1, <2>1, AbandonStep DEF SetProcessGroup
<1>2. CASE configure_cgroup
  <2>1. CASE parent' = "map" /\ ("cgroup" \in config => assigned') /\ assigned' \in BOOLEAN
             /\ UNCHANGED <<config, child, applied, armed, mapped, ready, ended, ret, ran>>
    <3>1. RunTypeOK'
      BY <1>t, <2>1 DEF RunTypeOK
    <3>2. Handshake'
      BY <1>t, <1>2, <2>1 DEF configure_cgroup, Handshake, MapsDone, GroupDone
    <3> QED
      BY <3>1, <3>2, <1>2, <2>1, ForwardStep DEF configure_cgroup
  <2>2. CASE Abandon
    BY <1>2, <2>2, AbandonStep DEF configure_cgroup
  <2> QED
    BY <1>t, <1>2, <2>1, <2>2 DEF configure_cgroup, Proceed, RunTypeOK
<1>3. CASE setup_user_namespace
  <2>1. CASE parent' = "write" /\ ("user_namespace" \in config => mapped') /\ mapped' \in BOOLEAN
             /\ UNCHANGED <<config, child, applied, armed, assigned, ready, ended, ret, ran>>
    <3>1. RunTypeOK'
      BY <1>t, <2>1 DEF RunTypeOK
    <3>2. Handshake'
      BY <1>t, <1>3, <2>1 DEF setup_user_namespace, Handshake, MapsDone, GroupDone
    <3> QED
      BY <3>1, <3>2, <1>3, <2>1, ForwardStep DEF setup_user_namespace
  <2>2. CASE Abandon
    BY <1>3, <2>2, AbandonStep DEF setup_user_namespace
  <2> QED
    BY <1>t, <1>3, <2>1, <2>2 DEF setup_user_namespace, Proceed, RunTypeOK
<1>4. CASE WriteReady
  <2>1. RunTypeOK'
    BY <1>t, <1>4 DEF WriteReady, RunTypeOK
  <2>2. Handshake'
    BY <1>t, <1>4 DEF WriteReady, Handshake, MapsDone, GroupDone
  <2> QED
    BY <2>1, <2>2, <1>4, ForwardStep DEF WriteReady
<1>5. CASE ReapChild
  <2> USE DEF RunInv
  <2>1. RunTypeOK'
    BY <1>t, <1>5 DEF ReapChild, RunTypeOK
  <2>2. Handshake'
    BY <1>t, <1>5 DEF ReapChild, Handshake, MapsDone, GroupDone
  <2>3. Guarded'
    BY <1>t, <1>5 DEF ReapChild, Guarded
  <2>4. StatusOwned'
    <3>1. parent = "giveup" /\ "user_namespace" \in config => ~ran
      BY <1>t, Selected DEF Handshake, Ended
    <3> QED
      BY <3>1, <1>5 DEF ReapChild, StatusOwned
  <2>5. Ended'
    BY <1>t, <1>5, <2>4 DEF ReapChild, Ended
  <2> QED
    BY SMTT(60), <2>1, <2>2, <2>3, <2>5
<1> QED
  BY <1>1, <1>2, <1>3, <1>4, <1>5 DEF Parent

LEMMA KilledStep ==
    ASSUME RunInv, ParentKilled
    PROVE RunInv'
<1> USE DEF RunInv
<1>1. RunTypeOK'
  BY SMTT(60) DEF ParentKilled, RunTypeOK, TargetOutcomes
<1>2. Handshake'
  BY DEF ParentKilled, Handshake, MapsDone, GroupDone
<1>3. Guarded'
  BY DEF ParentKilled, Guarded
<1>4. Ended'
  BY DEF ParentKilled, ParentAlive, Ended, StatusOwned
<1> QED
  BY SMTT(60), <1>1, <1>2, <1>3, <1>4

LEMMA RunStep == RunInv /\ [RunNext]_run_vars => RunInv'
<1> SUFFICES ASSUME RunInv, [RunNext]_run_vars PROVE RunInv'
  OBVIOUS
<1>1. CASE Target
  BY <1>1, EndStep DEF Target, TargetEnds
<1>2. CASE UNCHANGED run_vars
  <2>1. RunTypeOK'
    BY SMTT(60), <1>2 DEF RunInv, run_vars, RunTypeOK
  <2>2. Handshake' /\ Guarded'
    BY <1>2 DEF RunInv, run_vars, Handshake, MapsDone, GroupDone, Guarded
  <2>3. Ended'
    BY <1>2 DEF RunInv, run_vars, Ended, StatusOwned
  <2> QED
    BY <2>1, <2>2, <2>3 DEF RunInv
<1> QED
  BY <1>1, <1>2, ChildStep, ParentStep, KilledStep DEF RunNext

LEMMA RunInvariant == RunSpec => []RunInv
BY RunStart, RunStep, PTL DEF RunSpec

\* Types of the two processes, their pipes and the steps they have done.
THEOREM RunTypes == RunSpec => []RunTypeOK
<1>1. RunInv => RunTypeOK
  BY DEF RunInv
<1> QED
  BY <1>1, RunInvariant, PTL

\* Whatever options are offered and asked for: a target with a user namespace
\* runs only behind the parent's maps and cgroup and behind all its own steps.
THEOREM ConfinementHolds == RunSpec => []TargetConfined
<1>1. RunInv => TargetConfined
  BY Selected DEF RunInv, Handshake, MapsDone, GroupDone, Ended, TargetConfined
<1> QED
  BY <1>1, RunInvariant, PTL

\* Whenever the caller of run() is killed, no target that kept its uid is left
\* running.
THEOREM OrphanHolds == RunSpec => []NoOrphanTarget
<1>1. RunInv => NoOrphanTarget
  BY Selected DEF RunInv, Guarded, Ended, NoOrphanTarget
<1> QED
  BY <1>1, RunInvariant, PTL

\* run() returns the status of a target with a user namespace that has run, on
\* every interleaving of the two processes.
THEOREM StatusHolds == RunSpec => []StatusOwned
<1>1. RunInv => StatusOwned
  BY DEF RunInv, Ended
<1> QED
  BY <1>1, RunInvariant, PTL
=============================================================================
