-------------------------- MODULE ObservationProofs --------------------------
(***************************************************************************)
(* The properties of Observation for any number of tasks and workers: the  *)
(* types, the isolation of the tasks, and that observe() implements the    *)
(* work pool.                                                              *)
(***************************************************************************)
EXTENDS Observation, TLAPS

\* Zenon proves the leaves that do not name SMT.
USE ZenonT(60)

\* Workers with a task have claimed it, each one of its own.
Claimed ==
    /\ \A w \in Worker : pc[w] \in Busy => index[w] < next
    /\ \A v, w \in Worker : pc[v] \in Busy /\ pc[w] \in Busy /\ v # w => index[v] # index[w]

\* The main thread has started, or joined, the workers before `joining`.
Joined ==
    /\ main = "start" => \A w \in Worker : w >= joining => pc[w] = "unborn"
    /\ main # "start" => \A w \in Worker : w < joining => pc[w] = "ended"
    /\ main = "join" => joining \in Worker
    /\ main = "merged" => joining \notin Worker

\* A session has a number that the counter has passed, a cgroup is there.
Numbered ==
    \A w \in Worker : /\ session[w] = None \/ session[w] < sequence
                      /\ cgroup[w] = None \/ cgroup[w] \in cgroups

IInv == TypeOK /\ Claimed /\ Joined /\ Numbered /\ TasksIsolated

-----------------------------------------------------------------------------
(***************************************************************************)
(* What the steps do.                                                      *)
(***************************************************************************)
Points == Busy \cup {"unborn", "check", "claim", "ended"}
Outcomes == {"empty", "skipped", "rejected", "executed"}

\* There is a worker.
LEMMA CountType == Count \in Nat \ {0} /\ None \in Nat /\ NumTasks \in Nat
BY SMTT(60), SizeAssumption DEF Count, None

\* Every control point that a worker's step goes to.
LEMMA GotoType ==
    ASSUME pc \in [Worker -> Points], NEW w \in Worker, NEW point \in Points, Goto(w, point)
    PROVE  /\ pc' \in [Worker -> Points] /\ pc'[w] = point
           /\ \A v \in Worker \ {w} : pc'[v] = pc[v]
BY DEF Goto

\* The step of a worker leaves the main thread and the other workers alone, and
\* is one of four: it claims a task, finds none left, records the one it has,
\* or goes on with it (or without one).
LEMMA StepShape ==
    ASSUME TypeOK, NEW w \in Worker, Step(w)
    PROVE  /\ main' = main /\ joining' = joining /\ stop' = stop /\ expired' = expired
           /\ pc' \in [Worker -> Points] /\ pc[w] \notin {"unborn", "ended"} /\ pc'[w] # "unborn"
           /\ \A v \in Worker \ {w} : pc'[v] = pc[v]
           /\ \/ /\ pc[w] = "claim" /\ next < NumTasks /\ pc'[w] = "budget"
                 /\ next' = next + 1 /\ index' = [index EXCEPT ![w] = next] /\ partial' = partial
              \/ /\ pc[w] = "claim" /\ ~(next < NumTasks) /\ pc'[w] = "ended"
                 /\ next' = next + 1 /\ index' = [index EXCEPT ![w] = next] /\ partial' = partial
              \/ /\ pc[w] \in Busy /\ pc'[w] \notin Busy
                 /\ next' = next /\ index' = index
                 /\ \E outcome \in Outcomes : partial' = [partial EXCEPT ![index[w]] = outcome]
              \/ /\ pc[w] \in Busy <=> pc'[w] \in Busy
                 /\ next' = next /\ index' = index /\ partial' = partial
<1>t. pc \in [Worker -> Points]
    BY DEF TypeOK, Points
<1>n. next \in Nat /\ NumTasks \in Nat
    BY CountType DEF TypeOK
<1>1. CASE CheckStop(w)
    <2>1. PICK point \in {"ended", "claim"} : Goto(w, point)
        BY <1>1 DEF CheckStop
    <2>2. pc[w] = "check" /\ UNCHANGED <<main, joining, index, pool, partial>>
        BY <1>1 DEF CheckStop
    <2>3. point \in Points \ {"unborn"} /\ point \notin Busy /\ "check" \notin Busy
        BY DEF Points, Busy
    <2>4. pc' \in [Worker -> Points] /\ pc'[w] = point /\ \A v \in Worker \ {w} : pc'[v] = pc[v]
        BY <1>t, <2>1, <2>3, GotoType
    <2> QED
        BY <2>2, <2>3, <2>4 DEF pool
<1>2. CASE Claim(w)
    <2>1. PICK point \in {"ended", "budget"} : Goto(w, point) /\ (point = "ended" <=> next >= NumTasks)
        BY <1>2 DEF Claim
    <2>2. /\ pc[w] = "claim" /\ next' = next + 1 /\ index' = [index EXCEPT ![w] = next]
          /\ UNCHANGED <<main, joining, stop, expired, partial>>
        BY <1>2 DEF Claim
    <2>3. point \in Points \ {"unborn"}
        BY DEF Points, Busy
    <2>4. pc' \in [Worker -> Points] /\ pc'[w] = point /\ \A v \in Worker \ {w} : pc'[v] = pc[v]
        BY <1>t, <2>1, <2>3, GotoType
    <2>5. next >= NumTasks <=> ~(next < NumTasks)
        BY SMTT(60), <1>n
    <2> QED
        BY <2>1, <2>2, <2>3, <2>4, <2>5
<1>r. ASSUME NEW outcome \in Outcomes, NEW point \in {"check", "ended"}, pc[w] \in Busy, Goto(w, point),
             partial' = [partial EXCEPT ![index[w]] = outcome],
             UNCHANGED <<main, joining, index, pool>>
      PROVE  /\ main' = main /\ joining' = joining /\ stop' = stop /\ expired' = expired
             /\ pc' \in [Worker -> Points] /\ pc[w] \notin {"unborn", "ended"} /\ pc'[w] # "unborn"
             /\ \A v \in Worker \ {w} : pc'[v] = pc[v]
             /\ pc[w] \in Busy /\ pc'[w] \notin Busy
             /\ next' = next /\ index' = index
             /\ \E o \in Outcomes : partial' = [partial EXCEPT ![index[w]] = o]
    <2>1. point \in Points \ {"unborn"} /\ point \notin Busy /\ "ended" \notin Busy /\ "unborn" \notin Busy
        BY DEF Points, Busy
    <2>2. pc' \in [Worker -> Points] /\ pc'[w] = point /\ \A v \in Worker \ {w} : pc'[v] = pc[v]
        BY <1>t, <1>r, <2>1, GotoType
    <2>3. main' = main /\ joining' = joining /\ stop' = stop /\ expired' = expired
          /\ next' = next /\ index' = index
        BY <1>r DEF pool
    <2> QED
        BY <1>r, <2>1, <2>2, <2>3
<1>g. ASSUME NEW from \in Busy, NEW point \in Busy, pc[w] = from, Goto(w, point),
             UNCHANGED <<main, joining, index, pool, partial>>
      PROVE  /\ main' = main /\ joining' = joining /\ stop' = stop /\ expired' = expired
             /\ pc' \in [Worker -> Points] /\ pc[w] \notin {"unborn", "ended"} /\ pc'[w] # "unborn"
             /\ \A v \in Worker \ {w} : pc'[v] = pc[v]
             /\ pc[w] \in Busy <=> pc'[w] \in Busy
             /\ next' = next /\ index' = index /\ partial' = partial
    <2>1. point \in Points \ {"unborn"} /\ "ended" \notin Busy /\ "unborn" \notin Busy
        BY DEF Points, Busy
    <2>2. pc' \in [Worker -> Points] /\ pc'[w] = point /\ \A v \in Worker \ {w} : pc'[v] = pc[v]
        BY <1>t, <1>g, <2>1, GotoType
    <2>3. main' = main /\ joining' = joining /\ stop' = stop /\ expired' = expired
          /\ next' = next /\ index' = index /\ partial' = partial
        BY <1>g DEF pool
    <2> QED
        BY <1>g, <2>1, <2>2, <2>3
<1>b. /\ "budget" \in Busy /\ "open" \in Busy /\ "cgroup" \in Busy /\ "run" \in Busy
      /\ \A o \in {"empty", "skipped", "rejected", "executed"} : o \in Outcomes
      /\ "check" \in {"check", "ended"} /\ "ended" \in {"check", "ended"}
    BY DEF Busy, Outcomes
<1>3. CASE Budget(w)
    <2>1. CASE expired
        BY <1>3, <1>b, <1>r, <2>1 DEF Budget
    <2>2. CASE ~expired
        BY <1>3, <1>b, <1>g, <2>2 DEF Budget
    <2> QED
        BY <2>1, <2>2
<1>4. CASE \E outcome \in {"empty", "skipped"} : Refuse(w, outcome)
    BY <1>4, <1>b, <1>r DEF Refuse
<1>5. CASE OpenSession(w)
    BY <1>5, <1>b, <1>g DEF OpenSession
<1>6. CASE \E outcome \in {"empty", "rejected"} : RejectSession(w, outcome)
    BY <1>6, <1>b, <1>r DEF RejectSession
<1>7. CASE MakeCgroup(w)
    BY <1>7, <1>b, <1>g DEF MakeCgroup
<1>8. CASE CgroupFails(w)
    BY <1>8, <1>b, <1>r DEF CgroupFails
<1>9. CASE \E removed \in BOOLEAN : RunTask(w, removed)
    BY <1>9, <1>b, <1>r DEF RunTask
<1> QED
    BY <1>1, <1>2, <1>3, <1>4, <1>5, <1>6, <1>7, <1>8, <1>9 DEF Step

\* The main thread and the clock leave the workers' tasks, sessions and cgroups
\* alone.
LEMMA MainShape ==
    ASSUME Main \/ Expire
    PROVE  UNCHANGED <<index, next, sequence, session, cgroup, cgroups, partial>>
BY DEF Main, Expire, StartWorker, AllStarted, RequestStop, Join, Merge, pool

\* What a step of a worker does to sessions and cgroups: nothing, or one of the
\* steps of run_one.
LEMMA ResourceShape ==
    ASSUME NEW w \in Worker, Step(w)
    PROVE  \/ UNCHANGED <<sequence, session, cgroup, cgroups>>
           \/ /\ session' = [session EXCEPT ![w] = sequence] /\ sequence' = sequence + 1
              /\ UNCHANGED <<cgroup, cgroups>>
           \/ sequence' = sequence + 1 /\ UNCHANGED <<session, cgroup, cgroups>>
           \/ /\ sequence \notin cgroups /\ cgroups' = cgroups \cup {sequence}
              /\ cgroup' = [cgroup EXCEPT ![w] = sequence]
              /\ UNCHANGED <<sequence, session>>
           \/ session' = [session EXCEPT ![w] = None] /\ UNCHANGED <<sequence, cgroup, cgroups>>
           \/ /\ session' = [session EXCEPT ![w] = None]
              /\ cgroup' = [cgroup EXCEPT ![w] = None]
              /\ cgroups' = cgroups \/ cgroups' = cgroups \ {cgroup[w]}
              /\ UNCHANGED sequence
<1>1. CASE CheckStop(w) \/ Claim(w) \/ Budget(w)
    BY <1>1 DEF CheckStop, Claim, Budget
<1>2. CASE \E outcome \in {"empty", "skipped"} : Refuse(w, outcome)
    BY <1>2 DEF Refuse
<1>3. CASE OpenSession(w)
    BY <1>3 DEF OpenSession
<1>4. CASE \E outcome \in {"empty", "rejected"} : RejectSession(w, outcome)
    BY <1>4 DEF RejectSession
<1>5. CASE MakeCgroup(w)
    BY <1>5 DEF MakeCgroup
<1>6. CASE CgroupFails(w)
    BY <1>6 DEF CgroupFails
<1>7. CASE \E removed \in BOOLEAN : RunTask(w, removed)
    BY <1>7 DEF RunTask
<1> QED
    BY <1>1, <1>2, <1>3, <1>4, <1>5, <1>6, <1>7 DEF Step

-----------------------------------------------------------------------------
(***************************************************************************)
(* Sessions and cgroups.                                                   *)
(***************************************************************************)
\* Types of the counters, and the isolation of the tasks.
Resources ==
    /\ sequence \in Nat
    /\ session \in [Worker -> Nat]
    /\ cgroup \in [Worker -> Nat]
    /\ cgroups \subseteq Nat
    /\ Numbered /\ TasksIsolated

\* A worker's step keeps them: the number it takes is above those in use, and
\* the cgroup it makes is new.
LEMMA ResourceStep ==
    ASSUME Resources, NEW w \in Worker, Step(w)
    PROVE  Resources'
<1>t. /\ sequence \in Nat /\ session \in [Worker -> Nat]
      /\ cgroup \in [Worker -> Nat] /\ cgroups \subseteq Nat /\ None \in Nat
    BY CountType DEF Resources
<1>n. \A v \in Worker : /\ session[v] = None \/ session[v] < sequence
                        /\ cgroup[v] = None \/ cgroup[v] \in cgroups
    BY DEF Resources, Numbered
<1>i. \A u, v \in Worker : u # v => /\ session[u] = session[v] => session[u] = None
                                    /\ cgroup[u] = cgroup[v] => cgroup[u] = None
    BY DEF Resources, TasksIsolated
<1> SUFFICES
      /\ sequence' \in Nat /\ session' \in [Worker -> Nat]
      /\ cgroup' \in [Worker -> Nat] /\ cgroups' \subseteq Nat
      /\ \A v \in Worker : /\ session'[v] = None \/ session'[v] < sequence'
                           /\ cgroup'[v] = None \/ cgroup'[v] \in cgroups'
      /\ \A u, v \in Worker : u # v => /\ session'[u] = session'[v] => session'[u] = None
                                       /\ cgroup'[u] = cgroup'[v] => cgroup'[u] = None
    BY DEF Resources, Numbered, TasksIsolated, None
<1> HIDE DEF None, Worker
<1>1. CASE UNCHANGED <<sequence, session, cgroup, cgroups>>
    BY <1>1, <1>t, <1>n, <1>i
<1>2. CASE /\ session' = [session EXCEPT ![w] = sequence] /\ sequence' = sequence + 1
           /\ UNCHANGED <<cgroup, cgroups>>
    BY SMTT(60), <1>2, <1>t, <1>n, <1>i
<1>3. CASE sequence' = sequence + 1 /\ UNCHANGED <<session, cgroup, cgroups>>
    BY SMTT(60), <1>3, <1>t, <1>n, <1>i
<1>4. CASE /\ sequence \notin cgroups /\ cgroups' = cgroups \cup {sequence}
           /\ cgroup' = [cgroup EXCEPT ![w] = sequence]
           /\ UNCHANGED <<sequence, session>>
    BY <1>4, <1>t, <1>n, <1>i
<1>5. CASE session' = [session EXCEPT ![w] = None] /\ UNCHANGED <<sequence, cgroup, cgroups>>
    BY <1>5, <1>t, <1>n, <1>i
<1>6. CASE /\ session' = [session EXCEPT ![w] = None]
           /\ cgroup' = [cgroup EXCEPT ![w] = None]
           /\ cgroups' = cgroups \/ cgroups' = cgroups \ {cgroup[w]}
           /\ UNCHANGED sequence
    BY <1>6, <1>t, <1>n, <1>i
<1> QED
    BY <1>1, <1>2, <1>3, <1>4, <1>5, <1>6, ResourceShape

-----------------------------------------------------------------------------
(***************************************************************************)
(* Tasks and threads.                                                      *)
(***************************************************************************)
\* Types of the pool, and who has claimed and joined what.
Tasks ==
    /\ main \in {"start", "stop", "join", "merged"}
    /\ joining \in 1 .. Count + 1
    /\ pc \in [Worker -> Points]
    /\ index \in [Worker -> Nat]
    /\ \A w \in Worker : pc[w] \in Busy => index[w] \in Task
    /\ stop \subseteq Worker
    /\ next \in Nat
    /\ expired \in BOOLEAN
    /\ partial \in [Task -> Outcomes]
    /\ Claimed /\ Joined

\* The invariant is that of the resources and that of the tasks.
LEMMA Parts == IInv <=> Resources /\ Tasks
BY DEF IInv, Resources, Tasks, TypeOK, Points, Outcomes

\* A worker's step keeps the tasks apart.
LEMMA WorkerStep ==
    ASSUME TypeOK, Tasks, NEW w \in Worker, Step(w)
    PROVE  Tasks'
<1>t. /\ main \in {"start", "stop", "join", "merged"}
      /\ joining \in 1 .. Count + 1
      /\ pc \in [Worker -> Points]
      /\ index \in [Worker -> Nat]
      /\ \A v \in Worker : pc[v] \in Busy => index[v] \in Task
      /\ stop \subseteq Worker
      /\ next \in Nat
      /\ expired \in BOOLEAN
      /\ partial \in [Task -> Outcomes]
      /\ Claimed /\ Joined
    BY DEF Tasks
<1>c. /\ \A v \in Worker : pc[v] \in Busy => index[v] < next
      /\ \A u, v \in Worker : pc[u] \in Busy /\ pc[v] \in Busy /\ u # v => index[u] # index[v]
    BY <1>t DEF Claimed
<1>s. /\ main' = main /\ joining' = joining /\ stop' = stop /\ expired' = expired
      /\ pc' \in [Worker -> Points] /\ pc[w] \notin {"unborn", "ended"} /\ pc'[w] # "unborn"
      /\ \A v \in Worker \ {w} : pc'[v] = pc[v]
    BY StepShape
<1>j. Joined'
    BY <1>s, <1>t DEF Joined
<1>b. "ended" \notin Busy
    BY DEF Busy
<1> DEFINE Kept ==
        /\ index' \in [Worker -> Nat]
        /\ \A v \in Worker : pc'[v] \in Busy => index'[v] \in Task
        /\ next' \in Nat
        /\ partial' \in [Task -> Outcomes]
        /\ \A v \in Worker : pc'[v] \in Busy => index'[v] < next'
        /\ \A u, v \in Worker : pc'[u] \in Busy /\ pc'[v] \in Busy /\ u # v => index'[u] # index'[v]
<1>1. ASSUME pc[w] = "claim", next < NumTasks, next' = next + 1,
             index' = [index EXCEPT ![w] = next], partial' = partial
      PROVE  Kept
    <2>1. next \in Task
        BY SMTT(60), <1>1, <1>t, CountType DEF Task
    <2> HIDE DEF Task, Worker
    <2>2. index' \in [Worker -> Nat] /\ index'[w] = next /\ \A v \in Worker \ {w} : index'[v] = index[v]
        BY <1>1, <1>t
    <2>3. /\ \A v \in Worker : pc'[v] \in Busy => v = w \/ pc[v] \in Busy
        BY <1>s
    <2>4. \A v \in Worker : pc'[v] \in Busy => index'[v] \in Task /\ index'[v] < next + 1
        BY SMTT(60), <1>c, <1>t, <2>1, <2>2, <2>3
    <2>5. \A u, v \in Worker : pc'[u] \in Busy /\ pc'[v] \in Busy /\ u # v => index'[u] # index'[v]
        BY SMTT(60), <1>c, <1>t, <2>2, <2>3
    <2> QED
        BY SMTT(60), <1>1, <1>t, <2>2, <2>4, <2>5
<1>2. ASSUME pc'[w] \notin Busy, next' \in {next, next + 1},
             index' = index \/ index' = [index EXCEPT ![w] = next],
             partial' = partial \/ \E outcome \in Outcomes : partial' = [partial EXCEPT ![index[w]] = outcome]
      PROVE  Kept
    <2> HIDE DEF Task, Worker
    <2>1. index' \in [Worker -> Nat] /\ \A v \in Worker \ {w} : index'[v] = index[v]
        BY <1>2, <1>t
    <2>2. \A v \in Worker : pc'[v] \in Busy => v # w /\ pc[v] \in Busy /\ index'[v] = index[v]
        BY <1>s, <1>2, <2>1
    <2>3. partial' \in [Task -> Outcomes]
        BY <1>2, <1>t
    <2>4. next' \in Nat /\ next <= next'
        BY SMTT(60), <1>2, <1>t
    <2>5. \A v \in Worker : pc'[v] \in Busy => index'[v] \in Task /\ index'[v] < next'
        BY SMTT(60), <1>c, <1>t, <2>1, <2>2, <2>4
    <2>6. \A u, v \in Worker : pc'[u] \in Busy /\ pc'[v] \in Busy /\ u # v => index'[u] # index'[v]
        BY <1>c, <2>2
    <2> QED
        BY <2>1, <2>3, <2>4, <2>5, <2>6
<1>3. ASSUME pc[w] \in Busy <=> pc'[w] \in Busy, next' = next, index' = index, partial' = partial
      PROVE  Kept
    <2>1. \A v \in Worker : pc'[v] \in Busy => pc[v] \in Busy
        BY <1>s, <1>3
    <2> QED
        BY <1>3, <1>c, <1>t, <2>1
<1>4. Kept
    <2> HIDE DEF Kept
    <2>1. next \in {next, next + 1} /\ next + 1 \in {next, next + 1}
        OBVIOUS
    <2> QED
        BY <1>1, <1>2, <1>3, <1>b, <2>1, StepShape
<1> QED
    BY <1>t, <1>s, <1>j, <1>4 DEF Tasks, Claimed

\* The main thread starts each worker once and joins them all before it merges.
LEMMA MainStep ==
    ASSUME Tasks, Main \/ Expire
    PROVE  Tasks' /\ \A w \in Worker : pc'[w] \in Busy <=> pc[w] \in Busy
<1>t. /\ main \in {"start", "stop", "join", "merged"}
      /\ joining \in 1 .. Count + 1
      /\ pc \in [Worker -> Points]
      /\ index \in [Worker -> Nat]
      /\ \A v \in Worker : pc[v] \in Busy => index[v] \in Task
      /\ stop \subseteq Worker
      /\ next \in Nat
      /\ expired \in BOOLEAN
      /\ partial \in [Task -> Outcomes]
      /\ Claimed /\ Joined
    BY DEF Tasks
<1>f. index' = index /\ next' = next /\ partial' = partial
    BY MainShape
<1>c. Count \in Nat \ {0}
    BY CountType
<1>b. "unborn" \notin Busy /\ "check" \notin Busy /\ "check" \in Points
    BY DEF Busy, Points
<1> DEFINE Kept ==
        /\ main' \in {"start", "stop", "join", "merged"}
        /\ joining' \in 1 .. Count + 1
        /\ pc' \in [Worker -> Points]
        /\ stop' \subseteq Worker
        /\ expired' \in BOOLEAN
        /\ Joined'
        /\ \A w \in Worker : pc'[w] \in Busy <=> pc[w] \in Busy
<1>1. ASSUME StartWorker
      PROVE  Kept
    <2>1. /\ main = "start" /\ joining \in Worker
          /\ pc' = [pc EXCEPT ![joining] = "check"] /\ joining' = joining + 1
          /\ main' = main /\ stop' = stop /\ expired' = expired
        BY <1>1 DEF StartWorker, pool
    <2>2. pc[joining] = "unborn"
        BY SMTT(60), <1>t, <2>1 DEF Joined, Worker
    <2>3. /\ pc' \in [Worker -> Points] /\ pc'[joining] = "check"
          /\ \A w \in Worker \ {joining} : pc'[w] = pc[w]
        BY <1>t, <1>b, <2>1
    <2>4. joining' \in 1 .. Count + 1
        BY SMTT(60), <1>c, <2>1 DEF Worker
    <2>5. \A w \in Worker : w >= joining' => w # joining /\ w >= joining
        BY SMTT(60), <1>c, <2>1 DEF Worker
    <2>6. Joined'
        BY <1>t, <2>1, <2>3, <2>5 DEF Joined
    <2>7. \A w \in Worker : pc'[w] \in Busy <=> pc[w] \in Busy
        BY <1>b, <2>2, <2>3
    <2> QED
        BY <1>t, <2>1, <2>3, <2>4, <2>6, <2>7
<1>2. ASSUME AllStarted
      PROVE  Kept
    <2>1. main' = "stop" /\ joining' = 1 /\ pc' = pc /\ stop' = stop /\ expired' = expired
        BY <1>2 DEF AllStarted, pool
    <2>2. joining' \in 1 .. Count + 1 /\ \A w \in Worker : ~(w < 1)
        BY SMTT(60), <1>c, <2>1 DEF Worker
    <2>3. Joined'
        BY <2>1, <2>2 DEF Joined
    <2> QED
        BY <1>t, <2>1, <2>2, <2>3
<1>3. ASSUME RequestStop
      PROVE  Kept
    <2>1. /\ main = "stop" /\ joining \in Worker /\ main' = "join" /\ stop' = stop \cup {joining}
          /\ joining' = joining /\ pc' = pc /\ expired' = expired
        BY <1>3 DEF RequestStop
    <2>2. Joined'
        BY <1>t, <2>1 DEF Joined
    <2>3. stop' \subseteq Worker
        BY <1>t, <2>1
    <2> QED
        BY <1>t, <2>1, <2>2, <2>3
<1>4. ASSUME Join
      PROVE  Kept
    <2>1. /\ main = "join" /\ pc[joining] = "ended" /\ joining' = joining + 1 /\ main' = "stop"
          /\ pc' = pc /\ stop' = stop /\ expired' = expired
        BY <1>4 DEF Join, pool
    <2>2. joining \in Worker
        BY <1>t, <2>1 DEF Joined
    <2>3. joining' \in 1 .. Count + 1 /\ \A w \in Worker : w < joining' => w = joining \/ w < joining
        BY SMTT(60), <1>c, <2>1, <2>2 DEF Worker
    <2>4. \A w \in Worker : w < joining => pc[w] = "ended"
        BY <1>t, <2>1 DEF Joined
    <2>5. Joined'
        BY <2>1, <2>3, <2>4 DEF Joined
    <2> QED
        BY <1>t, <2>1, <2>3, <2>5
<1>5. ASSUME Merge
      PROVE  Kept
    <2>1. /\ main = "stop" /\ joining \notin Worker /\ main' = "merged"
          /\ joining' = joining /\ pc' = pc /\ stop' = stop /\ expired' = expired
        BY <1>5 DEF Merge, pool
    <2>2. Joined'
        BY <1>t, <2>1 DEF Joined
    <2> QED
        BY <1>t, <2>1, <2>2
<1>6. ASSUME Expire
      PROVE  Kept
    <2>1. main' = main /\ joining' = joining /\ pc' = pc /\ stop' = stop /\ expired' = TRUE
        BY <1>6 DEF Expire
    <2>2. Joined'
        BY <1>t, <2>1 DEF Joined
    <2> QED
        BY <1>t, <2>1, <2>2
<1>7. Kept
    BY <1>1, <1>2, <1>3, <1>4, <1>5, <1>6 DEF Main
<1>8. Claimed'
    BY <1>t, <1>f, <1>7 DEF Claimed
<1> QED
    BY <1>t, <1>f, <1>7, <1>8 DEF Tasks

-----------------------------------------------------------------------------
(***************************************************************************)
(* The invariant.                                                          *)
(***************************************************************************)
\* observe() starts with no thread, no claim and no cgroup.
LEMMA InitIInv == Init => IInv
<1> SUFFICES ASSUME Init
             PROVE  Resources /\ Tasks
    BY Parts
<1>c. Count \in Nat \ {0} /\ None \in Nat /\ NumTasks \in Nat
    BY CountType
<1>1. /\ pc = [w \in Worker |-> "unborn"] /\ index = [w \in Worker |-> NumTasks]
      /\ session = [w \in Worker |-> None] /\ cgroup = [w \in Worker |-> None]
      /\ partial = [i \in Task |-> "empty"]
      /\ main = "start" /\ joining = 1 /\ stop = {} /\ next = 0 /\ expired = FALSE
      /\ sequence = 0 /\ cgroups = {}
    BY DEF Init
<1>b. "unborn" \notin Busy /\ "unborn" \in Points /\ "empty" \in Outcomes
    BY DEF Busy, Points, Outcomes
<1> HIDE DEF None, Worker, Task
<1>2. Resources
    <2>1. session \in [Worker -> Nat] /\ cgroup \in [Worker -> Nat]
        BY <1>1, <1>c
    <2>2. \A w \in Worker : session[w] = None /\ cgroup[w] = None
        BY <1>1
    <2> QED
        BY <1>1, <2>1, <2>2 DEF Resources, Numbered, TasksIsolated
<1>3. Tasks
    <2>1. pc \in [Worker -> Points] /\ index \in [Worker -> Nat] /\ partial \in [Task -> Outcomes]
        BY <1>1, <1>b, <1>c
    <2>2. \A w \in Worker : pc[w] = "unborn" /\ pc[w] \notin Busy
        BY <1>1, <1>b
    <2>3. 1 \in 1 .. Count + 1
        BY SMTT(60), <1>c
    <2>4. Claimed /\ Joined
        BY <1>1, <2>2 DEF Claimed, Joined
    <2> QED
        BY <1>1, <2>1, <2>2, <2>3, <2>4 DEF Tasks
<1> QED
    BY <1>2, <1>3

\* Every step keeps the invariant.
LEMMA StepIInv == IInv /\ [Next]_vars => IInv'
<1>p. IInv' <=> Resources' /\ Tasks'
    BY DEF IInv, Resources, Tasks, TypeOK, Points, Outcomes
<1> SUFFICES ASSUME Resources, Tasks, [Next]_vars
             PROVE  Resources' /\ Tasks'
    BY <1>p, Parts
<1>1. TypeOK
    BY Parts DEF IInv
<1>2. CASE \E w \in Worker : Step(w)
    BY <1>1, <1>2, ResourceStep, WorkerStep
<1>3. CASE Main \/ Expire
    <2>1. Resources'
        <3>1. sequence' = sequence /\ session' = session /\ cgroup' = cgroup /\ cgroups' = cgroups
            BY <1>3, MainShape
        <3> QED
            BY <3>1 DEF Resources, Numbered, TasksIsolated
    <2> QED
        BY <1>3, <2>1, MainStep
<1>4. CASE UNCHANGED vars
    <2>1. /\ main' = main /\ joining' = joining /\ pc' = pc /\ index' = index /\ next' = next
          /\ stop' = stop /\ expired' = expired /\ sequence' = sequence /\ session' = session
          /\ cgroup' = cgroup /\ cgroups' = cgroups /\ partial' = partial
        BY <1>4 DEF vars, pool
    <2>2. Resources'
        BY <2>1 DEF Resources, Numbered, TasksIsolated
    <2>3. Claimed' /\ Joined'
        BY <2>1 DEF Tasks, Claimed, Joined
    <2> QED
        BY <2>1, <2>2, <2>3 DEF Tasks
<1> QED
    BY <1>2, <1>3, <1>4 DEF Next

\* Tasks and slots are indexed within their bounds, for any number of workers.
THEOREM TypesHold == Spec => []TypeOK
<1>1. IInv => TypeOK
    BY DEF IInv
<1> QED
    BY <1>1, InitIInv, StepIInv, PTL DEF Spec

\* No two observations share a session or a cgroup, although run_one names the
\* cgroup by a later value of the counter than the session.
THEOREM IsolationHolds == Spec => []TasksIsolated
<1>1. IInv => TasksIsolated
    BY DEF IInv
<1> QED
    BY <1>1, InitIInv, StepIInv, PTL DEF Spec

-----------------------------------------------------------------------------
(***************************************************************************)
(* The work pool.                                                          *)
(***************************************************************************)
\* A worker has task i, before and after a step.
Has(i) == \E w \in Worker : pc[w] \in Busy /\ index[w] = i
HasNow(i) == \E w \in Worker : pc'[w] \in Busy /\ index'[w] = i

\* What a slot is.
LEMMA SlotValue ==
    ASSUME NEW i \in Task
    PROVE  slot[i] = IF Has(i) THEN "busy" ELSE IF i < next THEN "filled" ELSE "free"
BY DEF slot, Has

\* What the slots are after a step.
LEMMA SlotNow == slot' = [i \in Task |-> IF HasNow(i) THEN "busy" ELSE IF i < next' THEN "filled" ELSE "free"]
BY DEF slot, HasNow

\* The slots stay when tasks have the workers they had.
LEMMA SlotsKept ==
    ASSUME \A i \in Task : /\ HasNow(i) <=> Has(i)
                           /\ i < next' <=> i < next
    PROVE  slot' = slot
BY SlotNow DEF slot, Has

\* They stay, therefore, when every worker keeps its task.
LEMMA SlotsSame ==
    ASSUME next' = next, index' = index, \A w \in Worker : pc'[w] \in Busy <=> pc[w] \in Busy
    PROVE  slot' = slot
<1>1. \A i \in Task : HasNow(i) <=> Has(i)
    BY DEF Has, HasNow
<1> QED
    BY <1>1, SlotsKept

\* One slot moves when one task changes hands.
LEMMA SlotMoves ==
    ASSUME NEW k \in Task,
           \A i \in Task : i # k => (HasNow(i) <=> Has(i)) /\ (i < next' <=> i < next)
    PROVE  /\ HasNow(k) => slot' = [slot EXCEPT ![k] = "busy"]
           /\ ~HasNow(k) /\ k < next' => slot' = [slot EXCEPT ![k] = "filled"]
<1>1. slot' = [i \in Task |-> IF i = k THEN slot'[k] ELSE slot[i]]
    BY SlotNow, SlotValue
<1>2. \A x : [slot EXCEPT ![k] = x] = [i \in Task |-> IF i = k THEN x ELSE slot[i]]
    BY DEF slot
<1>3. slot'[k] = IF HasNow(k) THEN "busy" ELSE IF k < next' THEN "filled" ELSE "free"
    BY SlotNow
<1> QED
    BY <1>1, <1>2, <1>3

\* The initial states are those of the pool.
LEMMA InitPool == Init => Pool!Init
<1> SUFFICES ASSUME Init
             PROVE  Pool!Init
    OBVIOUS
<1>1. \A w \in Worker : pc[w] \notin Busy
    BY DEF Init, Busy
<1>2. \A i \in Task : ~(i < next)
    BY SMTT(60), CountType DEF Init, Task
<1>3. slot = [i \in Task |-> "free"]
    BY <1>1, <1>2 DEF slot
<1>4. ~(main = "merged")
    BY DEF Init
<1> QED
    BY <1>3, <1>4 DEF Pool!Init

\* A worker that claims a task takes its slot, which was free.
LEMMA TakeSlot ==
    ASSUME Tasks, NEW w \in Worker, pc[w] = "claim", next < NumTasks, main' = main,
           pc'[w] = "budget", \A v \in Worker \ {w} : pc'[v] = pc[v],
           next' = next + 1, index' = [index EXCEPT ![w] = next]
    PROVE  Pool!Take(next)
<1>t. /\ index \in [Worker -> Nat] /\ next \in Nat /\ joining \in 1 .. Count + 1
      /\ \A v \in Worker : pc[v] \in Busy => index[v] < next
      /\ main # "start" => \A v \in Worker : v < joining => pc[v] = "ended"
      /\ main = "merged" => joining \notin Worker
    BY DEF Tasks, Claimed, Joined
<1>b. "claim" \notin Busy /\ "budget" \in Busy
    BY DEF Busy
<1>n. next \in Task /\ \A i \in Task : i \in Nat
    BY SMTT(60), <1>t, CountType DEF Task
<1>1. main # "merged"
    <2> SUFFICES ASSUME main = "merged"
                 PROVE  FALSE
        OBVIOUS
    <2>1. main # "start"
        OBVIOUS
    <2>2. joining = Count + 1 /\ w < joining
        BY SMTT(60), <1>t, CountType DEF Worker
    <2> QED
        BY <1>t, <2>1, <2>2
<1> HIDE DEF Worker, Task
<1>2. index'[w] = next /\ \A v \in Worker \ {w} : index'[v] = index[v]
    BY <1>t
<1>3. ~Has(next) /\ HasNow(next)
    <2>1. ~Has(next)
        BY SMTT(60), <1>t DEF Has
    <2>2. \E v \in Worker : pc'[v] \in Busy /\ index'[v] = next
        BY <1>b, <1>2
    <2> QED
        BY <2>1, <2>2 DEF HasNow
<1>4. ASSUME NEW i \in Task, i # next
      PROVE  /\ HasNow(i) <=> Has(i)
             /\ i < next' <=> i < next
    <2>1. HasNow(i) <=> Has(i)
        BY <1>4, <1>b, <1>2 DEF Has, HasNow
    <2>2. i < next + 1 <=> i < next
        BY SMTT(60), <1>4, <1>n, <1>t
    <2> QED
        BY <2>1, <2>2
<1>5. slot[next] = "free"
    <2>1. ~(next < next)
        BY SMTT(60), <1>t
    <2> QED
        BY <1>n, <1>3, <2>1, SlotValue
<1>6. slot' = [slot EXCEPT ![next] = "busy"]
    BY <1>n, <1>3, <1>4, SlotMoves
<1> QED
    BY <1>1, <1>5, <1>6 DEF Pool!Take

\* A worker that records its task fills its slot, which was its own.
LEMMA FillSlot ==
    ASSUME Tasks, NEW w \in Worker, pc[w] \in Busy, pc'[w] \notin Busy, main' = main,
           \A v \in Worker \ {w} : pc'[v] = pc[v], next' = next, index' = index
    PROVE  Pool!Fill(index[w])
<1>t. /\ index \in [Worker -> Nat] /\ next \in Nat
      /\ \A v \in Worker : pc[v] \in Busy => index[v] \in Task /\ index[v] < next
      /\ \A u, v \in Worker : pc[u] \in Busy /\ pc[v] \in Busy /\ u # v => index[u] # index[v]
    BY DEF Tasks, Claimed
<1> HIDE DEF Worker, Task
<1>1. index[w] \in Task /\ index[w] < next
    BY <1>t
<1>2. Has(index[w]) /\ ~HasNow(index[w])
    BY <1>t DEF Has, HasNow
<1>3. \A i \in Task : i # index[w] => (HasNow(i) <=> Has(i))
    BY <1>t DEF Has, HasNow
<1>4. slot[index[w]] = "busy"
    BY <1>1, <1>2, SlotValue
<1>5. slot' = [slot EXCEPT ![index[w]] = "filled"]
    BY <1>1, <1>2, <1>3, SlotMoves
<1> QED
    BY <1>4, <1>5 DEF Pool!Fill

\* Every step of observe() is a step of the pool or leaves it alone.
LEMMA StepPool == IInv /\ [Next]_vars => [Pool!Next]_(Pool!vars)
<1> SUFFICES ASSUME IInv, [Next]_vars
             PROVE  Pool!Next \/ (slot' = slot /\ (main = "merged")' = (main = "merged"))
    BY DEF Pool!vars
<1>t. Tasks /\ TypeOK
    BY Parts DEF IInv
<1>1. ASSUME NEW w \in Worker, Step(w)
      PROVE  Pool!Next \/ (slot' = slot /\ main' = main)
    <2> DEFINE Others == main' = main /\ \A v \in Worker \ {w} : pc'[v] = pc[v]
    <2>o. Others
        BY <1>t, <1>1, StepShape
    <2>1. ASSUME pc[w] = "claim", next < NumTasks, pc'[w] = "budget",
                 next' = next + 1, index' = [index EXCEPT ![w] = next]
          PROVE  Pool!Next
        <3>1. Pool!Take(next)
            BY <1>t, <2>1, <2>o, TakeSlot
        <3>2. next \in Task
            BY SMTT(60), <1>t, <2>1, CountType DEF Task, Tasks
        <3> QED
            BY <3>1, <3>2 DEF Pool!Next
    <2>2. ASSUME pc[w] = "claim", ~(next < NumTasks), pc'[w] = "ended",
                 next' = next + 1, index' = [index EXCEPT ![w] = next]
          PROVE  slot' = slot
        <3>1. \A i \in Task : i < next /\ i < next'
            BY SMTT(60), <1>t, <2>2, CountType DEF Task, Tasks
        <3>2. "claim" \notin Busy /\ "ended" \notin Busy
            BY DEF Busy
        <3>3. \A v \in Worker \ {w} : index'[v] = index[v]
            BY <1>t, <2>2 DEF Tasks
        <3>4. \A i \in Task : HasNow(i) <=> Has(i)
            BY <2>o, <2>2, <3>2, <3>3 DEF Has, HasNow
        <3> QED
            BY <3>1, <3>4, SlotsKept
    <2>3. ASSUME pc[w] \in Busy, pc'[w] \notin Busy, next' = next, index' = index
          PROVE  Pool!Next
        <3>1. Pool!Fill(index[w])
            BY <1>t, <2>3, <2>o, FillSlot
        <3>2. index[w] \in Task
            BY <1>t, <2>3 DEF Tasks
        <3> QED
            BY <3>1, <3>2 DEF Pool!Next
    <2>4. ASSUME pc[w] \in Busy <=> pc'[w] \in Busy, next' = next, index' = index
          PROVE  slot' = slot
        <3>1. \A v \in Worker : pc'[v] \in Busy <=> pc[v] \in Busy
            BY <2>4, <2>o
        <3> QED
            BY <2>4, <3>1, SlotsSame
    <2> QED
        BY <1>t, <1>1, <2>o, <2>1, <2>2, <2>3, <2>4, StepShape
<1>2. ASSUME Main \/ Expire
      PROVE  slot' = slot
    BY <1>t, <1>2, MainStep, MainShape, SlotsSame
<1>3. CASE Merge
    <2>1. main = "stop" /\ joining \notin Worker /\ main' = "merged"
        BY <1>3 DEF Merge
    <2>2. \A w \in Worker : pc[w] = "ended"
        <3>1. \A w \in Worker : w < joining
            BY SMTT(60), <1>t, <2>1, CountType DEF Tasks, Worker
        <3> QED
            BY <1>t, <2>1, <3>1 DEF Tasks, Joined
    <2>3. \A i \in Task : ~Has(i)
        BY <2>2 DEF Has, Busy
    <2>4. \A i \in Task : slot[i] # "busy"
        <3>1. \A i \in Task : slot[i] = "filled" \/ slot[i] = "free"
            BY <2>3, SlotValue
        <3> QED
            BY <3>1
    <2>5. slot' = slot
        BY <1>2, <1>3 DEF Main
    <2> QED
        BY <2>1, <2>4, <2>5 DEF Pool!Next, Pool!Merge
<1>4. CASE StartWorker \/ AllStarted \/ RequestStop \/ Join \/ Expire
    <2>1. slot' = slot
        BY <1>2, <1>4 DEF Main
    <2>2. (main = "merged") <=> (main' = "merged")
        BY <1>4 DEF StartWorker, AllStarted, RequestStop, Join, Expire
    <2> QED
        BY <2>1, <2>2
<1>5. CASE UNCHANGED vars
    <2>1. next' = next /\ index' = index /\ pc' = pc /\ main' = main
        BY <1>5 DEF vars, pool
    <2>2. slot' = slot
        BY <2>1, SlotsSame
    <2> QED
        BY <2>1, <2>2
<1> QED
    BY <1>1, <1>3, <1>4, <1>5 DEF Next, Main

\* observe() implements the pool: no slot of `partial` is written by two workers
\* or twice, and none is merged while a worker writes it.
THEOREM Refinement == Spec => ImplementsPool
BY InitPool, InitIInv, StepIInv, StepPool, PTL DEF Spec, ImplementsPool, Pool!Spec
=============================================================================
