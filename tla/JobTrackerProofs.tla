-------------------------- MODULE JobTrackerProofs --------------------------
(***************************************************************************)
(* Theorems about JobTracker, for any number of jobs, requests, threads    *)
(* and process deaths.                                                     *)
(***************************************************************************)
EXTENDS JobTracker, TLAPS

(***************************************************************************)
(* What the queue of messages keeps when one is added and one is read.     *)
(***************************************************************************)
LEMMA AppendMessage ==
  ASSUME NEW q \in Seq(Message), NEW m \in Message
  PROVE  /\ Append(q, m) \in Seq(Message)
         /\ Len(Append(q, m)) = Len(q) + 1
         /\ \A i \in 1 .. Len(q) : Append(q, m)[i] = q[i]
         /\ Append(q, m)[Len(q) + 1] = m
  OBVIOUS

LEMMA ReadMessage ==
  ASSUME NEW q \in Seq(Message), q # <<>>
  PROVE  /\ Head(q) \in Message /\ Head(q) = q[1]
         /\ Tail(q) \in Seq(Message)
         /\ Len(q) \in Nat \ {0} /\ Len(Tail(q)) = Len(q) - 1
         /\ \A i \in 1 .. Len(q) - 1 : Tail(q)[i] = q[i + 1]
  OBVIOUS

(***************************************************************************)
(* The variables keep their types.                                         *)
(***************************************************************************)
LEMMA TypeStep == TypeOK /\ [Next]_vars => TypeOK'
<1> SUFFICES ASSUME TypeOK, [Next]_vars PROVE TypeOK'
  OBVIOUS
<1> USE JobTrackerAssumption DEF TypeOK, jobVars, muleVars, timeVars
<1>1. ASSUME NEW j \in Jobs, AddOnetimeJob(j) \/ SendAdd(j) \/ AddLocalJob(j)
      PROVE  TypeOK'
  <2>1. CASE AddOnetimeJob(j)
    BY <2>1 DEF AddOnetimeJob, JobStatus, CreatorState
  <2>2. CASE SendAdd(j)
    <3>1. [action |-> "add", id |-> j] \in Message
      BY DEF Message
    <3>2. msgs' \in Seq(Message)
      BY <2>2, <3>1, AppendMessage DEF SendAdd
    <3>3. QED BY <2>2, <3>2 DEF SendAdd, CreatorState
  <2>3. CASE AddLocalJob(j)
    BY <2>3 DEF AddLocalJob, CreatorState
  <2>4. QED BY <1>1, <2>1, <2>2, <2>3
<1>2. ASSUME NEW q \in Requests,
             AbortRead(q) \/ RemoveScheduledJob(q) \/ FinishAbort(q) \/ AbortRunning(q)
      PROVE  TypeOK'
  <2>0. req[q] \in RequestState /\ req[q].job \in Jobs
    BY DEF RequestState
  <2>1. CASE AbortRead(q)
    BY <2>1, <2>0 DEF AbortRead, RequestState
  <2>2. CASE RemoveScheduledJob(q)
    <3>1. [action |-> "remove", id |-> req[q].job] \in Message
      BY <2>0 DEF Message
    <3>2. msgs' \in Seq(Message)
      BY <2>2, <3>1, AppendMessage DEF RemoveScheduledJob
    <3>3. QED BY <2>2, <2>0, <3>2 DEF RemoveScheduledJob, RequestState
  <2>3. CASE FinishAbort(q)
    BY <2>3, <2>0 DEF FinishAbort, RequestState, JobStatus
  <2>4. CASE AbortRunning(q)
    BY <2>4, <2>0 DEF AbortRunning, RequestState, JobStatus
  <2>5. QED BY <1>2, <2>1, <2>2, <2>3, <2>4
<1>3. CASE MainLoop
  <2>1. CASE MuleAdd
    BY <2>1, ReadMessage DEF MuleAdd, Message, JobStatus
  <2>2. CASE MuleRemove
    <3>1. Head(msgs) \in Message /\ msgs' \in Seq(Message)
      BY <2>2, ReadMessage DEF MuleRemove
    <3>2. Head(msgs).id \in Jobs
      BY <2>2, <3>1 DEF MuleRemove, Message
    <3>3. mule' \in MuleState /\ store' \in SUBSET Jobs
      BY <2>2, <3>2 DEF MuleRemove, MuleState
    <3>4. thread' \in [Jobs -> ThreadState]
      BY <2>2, <3>2 DEF MuleRemove, ThreadState
    <3>5. QED BY <2>2, <3>1, <3>3, <3>4 DEF MuleRemove
  <2>3. CASE MuleShutdown
    BY <2>3, ReadMessage DEF MuleShutdown, MuleState
  <2>4. QED BY <1>3, <2>1, <2>2, <2>3 DEF MainLoop
<1>4. ASSUME NEW j \in Jobs, Submit(j) \/ TakeJob(j) \/ GraceExpires(j) \/ RowOverdue(j)
      PROVE  TypeOK'
  BY <1>4 DEF Submit, TakeJob, GraceExpires, RowOverdue, ThreadState
<1>5. ASSUME NEW j \in Jobs, StartJob(j) \/ RunFunction(j) \/ FinishRead(j)
                               \/ FinishSuccess(j) \/ FinishException(j)
      PROVE  TypeOK'
  BY <1>5 DEF StartJob, RunFunction, FinishRead, FinishSuccess, FinishException,
              ThreadState, JobStatus
<1>6. CASE Processes
  <2>1. CASE RequestShutdown
    <3>1. [action |-> "shutdown_mule"] \in Message
      BY DEF Message
    <3>2. msgs' \in Seq(Message)
      BY <2>1, <3>1, AppendMessage DEF RequestShutdown
    <3>3. QED BY <2>1, <3>2 DEF RequestShutdown
  <2>2. CASE MuleKilled
    BY <2>2 DEF MuleKilled, LoseProcess, MuleState, ThreadState, CreatorState
  <2>3. CASE MuleExits
    BY <2>3 DEF MuleExits, LoseProcess, MuleState, ThreadState, CreatorState
  <2>4. CASE MuleStarts
    BY <2>4 DEF MuleStarts, MuleState
  <2>5. CASE ApiWorkerStarts
    <3>1. status' \in [Jobs -> JobStatus \cup {"NONE"}]
      BY <2>5 DEF ApiWorkerStarts, ClearedStatus, JobStatus
    <3>2. creator' \in [Jobs -> CreatorState]
      BY <2>5 DEF ApiWorkerStarts, CreatorState
    <3>3. req' \in [Requests -> RequestState]
      BY <2>5 DEF ApiWorkerStarts, RequestState
    <3>4. QED BY <2>5, <3>1, <3>2, <3>3 DEF ApiWorkerStarts
  <2>6. QED BY <1>6, <2>1, <2>2, <2>3, <2>4, <2>5 DEF Processes
<1>7. CASE UNCHANGED vars
  BY <1>7 DEF vars
<1>8. QED BY <1>1, <1>2, <1>3, <1>4, <1>5, <1>6, <1>7
          DEF Next, Create, Abort, Dispatch, JobWrapper

\* Every variable of the job tracker keeps its type.
THEOREM TypeCorrect == Spec => []TypeOK
<1>1. Init => TypeOK
  BY JobTrackerAssumption DEF Init, TypeOK, JobStatus, CreatorState, RequestState,
                              ThreadState, MuleState
<1>2. QED BY <1>1, TypeStep, PTL DEF Spec

(***************************************************************************)
(* A job is in one place at a time. How the two kinds of steps on the      *)
(* queue, a send and a read, change what is in it comes first.             *)
(***************************************************************************)
LEMMA SendKeepsMessages ==
  ASSUME TypeOK, NEW m \in Message, msgs' = Append(msgs, m)
  PROVE  /\ \A j \in Jobs : InMessages(j)' <=> InMessages(j) \/ (m.action = "add" /\ m.id = j)
         /\ (m.action = "add" => m.id \in Jobs /\ ~InMessages(m.id)) /\ OneMessage => OneMessage'
<1>0. msgs \in Seq(Message)
  BY DEF TypeOK
<1>1. /\ Len(msgs) \in Nat /\ Len(msgs') = Len(msgs) + 1
      /\ \A i \in 1 .. Len(msgs) : msgs'[i] = msgs[i]
      /\ msgs'[Len(msgs) + 1] = m
  BY <1>0, AppendMessage
<1>2. \A i \in 1 .. Len(msgs') : i \in 1 .. Len(msgs) \/ i = Len(msgs) + 1
  BY <1>1
<1>3. Len(msgs) + 1 \in 1 .. Len(msgs') /\ 1 .. Len(msgs) \subseteq 1 .. Len(msgs')
  BY <1>1
<1>4. ASSUME NEW j \in Jobs
      PROVE  InMessages(j)' <=> InMessages(j) \/ (m.action = "add" /\ m.id = j)
  BY <1>1, <1>2, <1>3 DEF InMessages
<1>5. ASSUME m.action = "add" => m.id \in Jobs /\ ~InMessages(m.id), OneMessage
      PROVE  OneMessage'
  BY <1>1, <1>2, <1>5 DEF OneMessage, InMessages
<1>6. QED BY <1>4, <1>5

LEMMA ReadKeepsMessages ==
  ASSUME TypeOK, msgs # <<>>, msgs' = Tail(msgs), OneMessage
  PROVE  /\ OneMessage'
         /\ \A j \in Jobs : InMessages(j)' => InMessages(j)
         /\ \A j \in Jobs : InMessages(j) => \/ InMessages(j)'
                                             \/ Head(msgs).action = "add" /\ Head(msgs).id = j
         /\ \A j \in Jobs : Head(msgs).action = "add" /\ Head(msgs).id = j
                              => InMessages(j) /\ ~InMessages(j)'
<1>0. msgs \in Seq(Message)
  BY DEF TypeOK
<1>1. /\ Len(msgs) \in Nat \ {0} /\ Len(msgs') = Len(msgs) - 1 /\ Head(msgs) = msgs[1]
      /\ \A i \in 1 .. Len(msgs') : msgs'[i] = msgs[i + 1]
  BY <1>0, ReadMessage
<1>2. /\ 1 \in 1 .. Len(msgs)
      /\ \A i \in 1 .. Len(msgs') : i + 1 \in 1 .. Len(msgs) /\ i \in Nat
  BY <1>1
<1>3. \A i \in 1 .. Len(msgs) : i # 1 => /\ i - 1 \in 1 .. Len(msgs')
                                        /\ msgs'[i - 1] = msgs[i]
  BY <1>1
<1>4. OneMessage'
  BY <1>1, <1>2 DEF OneMessage
<1>5. \A j \in Jobs : InMessages(j)' => InMessages(j)
  BY <1>1, <1>2 DEF InMessages
<1>6. ASSUME NEW j \in Jobs, InMessages(j)
      PROVE  InMessages(j)' \/ (Head(msgs).action = "add" /\ Head(msgs).id = j)
  <2>1. PICK i \in 1 .. Len(msgs) : msgs[i].action = "add" /\ msgs[i].id = j
    BY <1>6 DEF InMessages
  <2>2. CASE i = 1
    BY <2>1, <2>2, <1>1
  <2>3. CASE i # 1
    BY <2>1, <2>3, <1>3 DEF InMessages
  <2>4. QED BY <2>2, <2>3
<1>7. ASSUME NEW j \in Jobs, Head(msgs).action = "add", Head(msgs).id = j
      PROVE  InMessages(j) /\ ~InMessages(j)'
  <2>1. InMessages(j)
    BY <1>1, <1>2, <1>7 DEF InMessages
  <2>2. ASSUME NEW i \in 1 .. Len(msgs'), msgs'[i].action = "add", msgs'[i].id = j
        PROVE  FALSE
    <3>1. i + 1 = 1
      BY <1>1, <1>2, <1>7, <2>2 DEF OneMessage
    <3>2. QED BY <3>1, <2>2, <1>2, <1>1
  <2>3. ~InMessages(j)'
    BY <2>2 DEF InMessages
  <2>4. QED BY <2>1, <2>3
<1>8. QED BY <1>4, <1>5, <1>6, <1>7

LEMMA OnePlaceStep == TypeOK /\ TypeOK' /\ OnePlace /\ [Next]_vars => OnePlace'
<1> SUFFICES ASSUME TypeOK, TypeOK', OnePlace, [Next]_vars PROVE OnePlace'
  OBVIOUS
<1> USE DEF OnePlace, jobVars, muleVars, timeVars
<1>a. ASSUME msgs' = msgs
      PROVE  (OneMessage => OneMessage') /\ \A j \in Jobs : InMessages(j)' <=> InMessages(j)
  BY <1>a DEF OneMessage, InMessages
<1>b. /\ thread \in [Jobs -> ThreadState] /\ thread' \in [Jobs -> ThreadState]
      /\ creator \in [Jobs -> CreatorState] /\ store \subseteq Jobs /\ pool \subseteq Jobs
  BY DEF TypeOK
<1>1. ASSUME NEW j \in Jobs, AddOnetimeJob(j) \/ SendAdd(j) \/ AddLocalJob(j)
      PROVE  OnePlace'
  <2>1. CASE AddOnetimeJob(j)
    BY <2>1, <1>a, <1>b DEF AddOnetimeJob
  <2>2. CASE SendAdd(j)
    <3>1. DEFINE m == [action |-> "add", id |-> j]
    <3>2. m \in Message /\ m.action = "add" /\ m.id = j
      BY DEF Message
    <3>3. ~InMessages(j)
      BY <2>2 DEF SendAdd
    <3>4. OneMessage' /\ \A k \in Jobs : InMessages(k)' <=> InMessages(k) \/ k = j
      BY <2>2, <3>2, <3>3, SendKeepsMessages DEF SendAdd
    <3>5. QED BY <2>2, <3>4, <1>b DEF SendAdd
  <2>3. CASE AddLocalJob(j)
    BY <2>3, <1>a, <1>b DEF AddLocalJob
  <2>4. QED BY <1>1, <2>1, <2>2, <2>3
<1>2. ASSUME NEW q \in Requests,
             AbortRead(q) \/ RemoveScheduledJob(q) \/ FinishAbort(q) \/ AbortRunning(q)
      PROVE  OnePlace'
  <2>1. CASE RemoveScheduledJob(q)
    <3>1. DEFINE m == [action |-> "remove", id |-> req[q].job]
    <3>2. m \in Message /\ m.action # "add"
      BY DEF Message, TypeOK, RequestState
    <3>3. OneMessage' /\ \A k \in Jobs : InMessages(k)' <=> InMessages(k)
      BY <2>1, <3>2, SendKeepsMessages DEF RemoveScheduledJob
    <3>4. QED BY <2>1, <3>3 DEF RemoveScheduledJob
  <2>2. CASE AbortRead(q) \/ FinishAbort(q) \/ AbortRunning(q)
    BY <2>2, <1>a DEF AbortRead, FinishAbort, AbortRunning
  <2>3. QED BY <1>2, <2>1, <2>2
<1>3. CASE MainLoop
  <2>1. msgs # <<>> /\ msgs' = Tail(msgs)
    BY <1>3 DEF MainLoop, MuleAdd, MuleRemove, MuleShutdown
  <2>2. /\ OneMessage' /\ \A j \in Jobs : InMessages(j)' => InMessages(j)
        /\ \A j \in Jobs : Head(msgs).action = "add" /\ Head(msgs).id = j
                             => InMessages(j) /\ ~InMessages(j)'
    BY <2>1, ReadKeepsMessages
  <2>3. CASE MuleAdd
    BY <2>3, <2>2, <1>b DEF MuleAdd, TypeOK
  <2>4. CASE MuleRemove
    BY <2>4, <2>2, <1>b DEF MuleRemove
  <2>5. CASE MuleShutdown
    BY <2>5, <2>2 DEF MuleShutdown
  <2>6. QED BY <1>3, <2>3, <2>4, <2>5 DEF MainLoop
<1>4. ASSUME NEW j \in Jobs, Submit(j) \/ TakeJob(j) \/ GraceExpires(j) \/ RowOverdue(j)
      PROVE  OnePlace'
  <2>1. CASE Submit(j)
    BY <2>1, <1>a, <1>b DEF Submit
  <2>2. CASE TakeJob(j)
    BY <2>2, <1>a, <1>b DEF TakeJob
  <2>3. CASE GraceExpires(j) \/ RowOverdue(j)
    BY <2>3, <1>a DEF GraceExpires, RowOverdue
  <2>4. QED BY <1>4, <2>1, <2>2, <2>3
<1>5. ASSUME NEW j \in Jobs, StartJob(j) \/ RunFunction(j) \/ FinishRead(j)
                               \/ FinishSuccess(j) \/ FinishException(j)
      PROVE  OnePlace'
  BY <1>5, <1>a, <1>b DEF StartJob, RunFunction, FinishRead, FinishSuccess, FinishException
<1>6. CASE Processes
  <2>1. CASE RequestShutdown
    <3>1. DEFINE m == [action |-> "shutdown_mule"]
    <3>2. m \in Message /\ m.action # "add"
      BY DEF Message
    <3>3. OneMessage' /\ \A k \in Jobs : InMessages(k)' <=> InMessages(k)
      BY <2>1, <3>2, SendKeepsMessages DEF RequestShutdown
    <3>4. QED BY <2>1, <3>3 DEF RequestShutdown
  <2>2. CASE MuleKilled \/ MuleExits
    <3>1. LoseProcess
      BY <2>2 DEF MuleKilled, MuleExits
    <3>2. QED BY <3>1, <1>a, <1>b DEF LoseProcess, Busy, Active
  <2>3. CASE MuleStarts
    BY <2>3, <1>a DEF MuleStarts
  <2>4. CASE ApiWorkerStarts
    BY <2>4, <1>a, <1>b DEF ApiWorkerStarts
  <2>5. QED BY <1>6, <2>1, <2>2, <2>3, <2>4 DEF Processes
<1>7. CASE UNCHANGED vars
  BY <1>7, <1>a DEF vars
<1>8. QED BY <1>1, <1>2, <1>3, <1>4, <1>5, <1>6, <1>7
          DEF Next, Create, Abort, Dispatch, JobWrapper

\* A job is in one place at a time: one message, the store, the pool or a
\* thread, and only once its caller has handed it over.
THEOREM OnePlaceAlways == Spec => []OnePlace
<1>1. Init => OnePlace
  BY DEF Init, OnePlace, OneMessage, InMessages
<1>2. QED BY <1>1, OnePlaceStep, TypeCorrect, PTL DEF Spec

\* No job is started a second time, whatever dies and is restarted.
THEOREM RunOnce == Spec => NeverRunTwice
<1>1. TypeOK /\ TypeOK' /\ OnePlace /\ [Next]_vars
        => [\A j \in Jobs : thread[j] # "start" /\ thread'[j] = "start" => thread[j] = "none"]_vars
  <2> SUFFICES ASSUME TypeOK, TypeOK', OnePlace, Next, NEW j \in Jobs,
                      thread[j] # "start", thread'[j] = "start"
               PROVE  thread[j] = "none"
    BY DEF vars
  <2> USE DEF TypeOK, jobVars, muleVars, timeVars
  <2>1. CASE \E k \in Jobs : TakeJob(k)
    BY <2>1 DEF TakeJob, OnePlace
  <2>2. CASE Create \/ Abort
    BY <2>2 DEF Create, Abort, AddOnetimeJob, SendAdd, AddLocalJob, AbortRead,
                RemoveScheduledJob, FinishAbort, AbortRunning
  <2>3. CASE MainLoop
    BY <2>3 DEF MainLoop, MuleAdd, MuleRemove, MuleShutdown
  <2>4. CASE \E k \in Jobs : Submit(k) \/ GraceExpires(k) \/ RowOverdue(k)
    BY <2>4 DEF Submit, GraceExpires, RowOverdue
  <2>5. CASE JobWrapper
    BY <2>5 DEF JobWrapper, StartJob, RunFunction, FinishRead, FinishSuccess, FinishException
  <2>6. CASE Processes
    BY <2>6 DEF Processes, RequestShutdown, MuleKilled, MuleExits, MuleStarts,
                ApiWorkerStarts, LoseProcess
  <2>7. QED BY <2>1, <2>2, <2>3, <2>4, <2>5, <2>6 DEF Next, Dispatch
<1>2. QED BY <1>1, TypeCorrect, OnePlaceAlways, PTL DEF Spec, NeverRunTwice

(***************************************************************************)
(* What the column Job.status says of a job. The three statements are      *)
(* inductive once a job is known to be in one place.                       *)
(***************************************************************************)
RowInv == ScheduledIsAccounted /\ ResultOfRun /\ RunningIsExplained

LEMMA RowStep == TypeOK /\ OnePlace /\ RowInv /\ [Next]_vars => RowInv'
<1> SUFFICES ASSUME TypeOK, OnePlace, RowInv, [Next]_vars PROVE RowInv'
  OBVIOUS
<1> USE DEF RowInv, ScheduledIsAccounted, ResultOfRun, RunningIsExplained, Pending, Lost,
            jobVars, muleVars, timeVars
<1>a. ASSUME msgs' = msgs
      PROVE  \A j \in Jobs : InMessages(j)' <=> InMessages(j)
  BY <1>a DEF InMessages
<1>b. /\ thread \in [Jobs -> ThreadState] /\ creator \in [Jobs -> CreatorState]
      /\ status \in [Jobs -> JobStatus \cup {"NONE"}]
      /\ store \subseteq Jobs /\ pool \subseteq Jobs
  BY DEF TypeOK
<1>c. \A j \in store \cup pool : thread[j] = "none"
  BY DEF OnePlace
<1>1. ASSUME NEW j \in Jobs, AddOnetimeJob(j) \/ SendAdd(j) \/ AddLocalJob(j)
      PROVE  RowInv'
  <2>1. CASE AddOnetimeJob(j)
    BY <2>1, <1>a, <1>b DEF AddOnetimeJob
  <2>2. CASE SendAdd(j)
    <3>1. DEFINE m == [action |-> "add", id |-> j]
    <3>2. m \in Message /\ m.action = "add" /\ m.id = j
      BY DEF Message
    <3>3. \A k \in Jobs : InMessages(k)' <=> InMessages(k) \/ k = j
      BY <2>2, <3>2, SendKeepsMessages DEF SendAdd
    <3>4. QED BY <2>2, <3>3, <1>b DEF SendAdd
  <2>3. CASE AddLocalJob(j)
    BY <2>3, <1>a, <1>b DEF AddLocalJob
  <2>4. QED BY <1>1, <2>1, <2>2, <2>3
<1>2. ASSUME NEW q \in Requests,
             AbortRead(q) \/ RemoveScheduledJob(q) \/ FinishAbort(q) \/ AbortRunning(q)
      PROVE  RowInv'
  <2>1. CASE RemoveScheduledJob(q)
    <3>1. DEFINE m == [action |-> "remove", id |-> req[q].job]
    <3>2. m \in Message /\ m.action # "add"
      BY DEF Message, TypeOK, RequestState
    <3>3. \A k \in Jobs : InMessages(k)' <=> InMessages(k)
      BY <2>1, <3>2, SendKeepsMessages DEF RemoveScheduledJob
    <3>4. QED BY <2>1, <3>3 DEF RemoveScheduledJob
  <2>2. CASE AbortRead(q) \/ FinishAbort(q) \/ AbortRunning(q)
    BY <2>2, <1>a, <1>b DEF AbortRead, FinishAbort, AbortRunning
  <2>3. QED BY <1>2, <2>1, <2>2
<1>3. CASE MainLoop
  <2>1. msgs # <<>> /\ msgs' = Tail(msgs)
    BY <1>3 DEF MainLoop, MuleAdd, MuleRemove, MuleShutdown
  <2>2. \A j \in Jobs : InMessages(j) => \/ InMessages(j)'
                                         \/ Head(msgs).action = "add" /\ Head(msgs).id = j
    BY <2>1, ReadKeepsMessages DEF OnePlace
  <2>3. CASE MuleAdd
    BY <2>3, <2>2, <1>b DEF MuleAdd
  <2>4. CASE MuleRemove
    BY <2>4, <2>2, <1>b, <1>c DEF MuleRemove
  <2>5. CASE MuleShutdown
    BY <2>5, <2>2, <1>b DEF MuleShutdown
  <2>6. QED BY <1>3, <2>3, <2>4, <2>5 DEF MainLoop
<1>4. ASSUME NEW j \in Jobs, Submit(j) \/ TakeJob(j) \/ GraceExpires(j) \/ RowOverdue(j)
      PROVE  RowInv'
  <2>1. CASE Submit(j)
    BY <2>1, <1>a, <1>b DEF Submit
  <2>2. CASE TakeJob(j)
    BY <2>2, <1>a, <1>b, <1>c DEF TakeJob
  <2>3. CASE GraceExpires(j) \/ RowOverdue(j)
    BY <2>3, <1>a DEF GraceExpires, RowOverdue
  <2>4. QED BY <1>4, <2>1, <2>2, <2>3
<1>5. ASSUME NEW j \in Jobs, StartJob(j) \/ RunFunction(j) \/ FinishRead(j)
                               \/ FinishSuccess(j) \/ FinishException(j)
      PROVE  RowInv'
  BY <1>5, <1>a, <1>b DEF StartJob, RunFunction, FinishRead, FinishSuccess, FinishException
<1>6. CASE Processes
  <2>1. CASE RequestShutdown
    <3>1. DEFINE m == [action |-> "shutdown_mule"]
    <3>2. m \in Message /\ m.action # "add"
      BY DEF Message
    <3>3. \A k \in Jobs : InMessages(k)' <=> InMessages(k)
      BY <2>1, <3>2, SendKeepsMessages DEF RequestShutdown
    <3>4. QED BY <2>1, <3>3 DEF RequestShutdown
  <2>2. CASE MuleKilled \/ MuleExits
    <3>1. LoseProcess
      BY <2>2 DEF MuleKilled, MuleExits
    <3>2. QED BY <3>1, <1>a, <1>b, <1>c DEF LoseProcess, Busy, Active
  <2>3. CASE MuleStarts
    BY <2>3, <1>a DEF MuleStarts
  <2>4. CASE ApiWorkerStarts
    BY <2>4, <1>a, <1>b DEF ApiWorkerStarts, ClearedStatus
  <2>5. QED BY <1>6, <2>1, <2>2, <2>3, <2>4 DEF Processes
<1>7. CASE UNCHANGED vars
  BY <1>7, <1>a DEF vars
<1>8. QED BY <1>1, <1>2, <1>3, <1>4, <1>5, <1>6, <1>7
          DEF Next, Create, Abort, Dispatch, JobWrapper

LEMMA RowAlways == Spec => []RowInv
<1>1. Init => RowInv
  BY DEF Init, RowInv, ScheduledIsAccounted, ResultOfRun, RunningIsExplained
<1>2. QED BY <1>1, RowStep, TypeCorrect, OnePlaceAlways, PTL DEF Spec

\* A row that says SCHEDULED is on its way to a thread or lost in a known way.
THEOREM ScheduledAccounted == Spec => []ScheduledIsAccounted
<1>1. RowInv => ScheduledIsAccounted
  BY DEF RowInv
<1>2. QED BY <1>1, RowAlways, PTL

\* FINISHED and EXCEPTION report a run that is over.
THEOREM ResultsAreOfRuns == Spec => []ResultOfRun
<1>1. RowInv => ResultOfRun
  BY DEF RowInv
<1>2. QED BY <1>1, RowAlways, PTL

\* RUNNING is shown only during a run, or after the process of one was killed.
THEOREM RunningExplained == Spec => []RunningIsExplained
<1>1. RowInv => RunningIsExplained
  BY DEF RowInv
<1>2. QED BY <1>1, RowAlways, PTL
(***************************************************************************)
(* The system implements JobLife. LifeView reads the mapping in terms of   *)
(* the model's own predicates, whose cases do not overlap because a job is *)
(* in one place at a time; KnownJobs says that operators act on jobs that  *)
(* were created.                                                           *)
(***************************************************************************)
Working(j) == thread[j] \in {"body", "returned", "raised", "finish"}

LifeView ==
  \A j \in Jobs : /\ LifeOf(j) \in {"new", "asked", "working", "over"}
                  /\ LifeOf(j) = "new" <=> creator[j] = "idle"
                  /\ LifeOf(j) = "asked" <=> Pending(j)
                  /\ LifeOf(j) = "working" <=> Working(j)

LEMMA LifeCases == OnePlace => LifeView
<1> SUFFICES ASSUME OnePlace, NEW j \in Jobs
             PROVE  /\ LifeOf(j) \in {"new", "asked", "working", "over"}
                    /\ LifeOf(j) = "new" <=> creator[j] = "idle"
                    /\ LifeOf(j) = "asked" <=> Pending(j)
                    /\ LifeOf(j) = "working" <=> Working(j)
  BY DEF LifeView
<1>1. Pending(j) => creator[j] # "idle" /\ ~Working(j)
  BY DEF OnePlace, Pending, Working
<1>2. Working(j) => creator[j] # "idle"
  BY DEF OnePlace, Working
<1>3. thread[j] \in Active \ {"start"} <=> Working(j)
  BY DEF Active, Working
<1>4. CASE creator[j] = "idle"
  BY <1>1, <1>2, <1>3, <1>4 DEF LifeOf
<1>5. CASE Pending(j)
  BY <1>1, <1>3, <1>5 DEF LifeOf
<1>6. CASE Working(j)
  BY <1>1, <1>2, <1>3, <1>6 DEF LifeOf
<1>7. CASE creator[j] # "idle" /\ ~Pending(j) /\ ~Working(j)
  BY <1>3, <1>7 DEF LifeOf
<1>8. QED BY <1>4, <1>5, <1>6, <1>7

LEMMA SameLife ==
  ASSUME LifeView, LifeView', NEW j \in Jobs,
         creator'[j] = "idle" <=> creator[j] = "idle",
         Pending(j)' <=> Pending(j),
         Working(j)' <=> Working(j)
  PROVE  LifeOf(j)' = LifeOf(j)
BY DEF LifeView

KnownJobs ==
  /\ \A q \in Requests : req[q].at \in {"remove", "mark", "running"}
                           => creator[req[q].job] # "idle"
  /\ \A j \in Jobs : creator[j] = "idle" => status[j] = "NONE"

LEMMA KnownStep == TypeOK /\ OnePlace /\ KnownJobs /\ [Next]_vars => KnownJobs'
<1> SUFFICES ASSUME TypeOK, OnePlace, KnownJobs, [Next]_vars PROVE KnownJobs'
  OBVIOUS
<1> USE DEF KnownJobs, jobVars, muleVars, timeVars
<1>a. /\ req \in [Requests -> RequestState] /\ \A q \in Requests : req[q].job \in Jobs
      /\ creator \in [Jobs -> CreatorState] /\ status \in [Jobs -> JobStatus \cup {"NONE"}]
      /\ msgs \in Seq(Message)
  BY DEF TypeOK, RequestState
<1>1. ASSUME NEW j \in Jobs, AddOnetimeJob(j) \/ SendAdd(j) \/ AddLocalJob(j)
      PROVE  KnownJobs'
  BY <1>1, <1>a DEF AddOnetimeJob, SendAdd, AddLocalJob
<1>2. ASSUME NEW q \in Requests,
             AbortRead(q) \/ RemoveScheduledJob(q) \/ FinishAbort(q) \/ AbortRunning(q)
      PROVE  KnownJobs'
  <2>1. \A r \in Requests : req'[r].job = req[r].job /\ (r # q => req'[r] = req[r])
    BY <1>2, <1>a DEF AbortRead, RemoveScheduledJob, FinishAbort, AbortRunning, RequestState
  <2>2. creator[req[q].job] # "idle" /\ creator' = creator
    BY <1>2, <1>a DEF AbortRead, RemoveScheduledJob, FinishAbort, AbortRunning
  <2>3. \A j \in Jobs : j # req[q].job => status'[j] = status[j]
    BY <1>2, <1>a DEF AbortRead, RemoveScheduledJob, FinishAbort, AbortRunning
  <2>4. QED BY <2>1, <2>2, <2>3, <1>a
<1>3. CASE MainLoop
  <2>1. MuleAdd /\ Head(msgs).id \in Jobs => creator[Head(msgs).id] # "idle"
    <3>1. SUFFICES ASSUME MuleAdd, Head(msgs).id \in Jobs
                   PROVE  creator[Head(msgs).id] # "idle"
      OBVIOUS
    <3>2. InMessages(Head(msgs).id)
      BY <3>1, ReadKeepsMessages DEF MuleAdd, OnePlace
    <3>3. QED BY <3>1, <3>2 DEF OnePlace
  <2>2. QED BY <1>3, <2>1, <1>a DEF MainLoop, MuleAdd, MuleRemove, MuleShutdown
<1>4. CASE Dispatch
  BY <1>4 DEF Dispatch, Submit, TakeJob, GraceExpires, RowOverdue
<1>5. ASSUME NEW j \in Jobs, StartJob(j) \/ RunFunction(j) \/ FinishRead(j)
                               \/ FinishSuccess(j) \/ FinishException(j)
      PROVE  KnownJobs'
  <2>1. thread[j] # "none"
    BY <1>5 DEF StartJob, RunFunction, FinishRead, FinishSuccess, FinishException
  <2>2. creator[j] # "idle"
    BY <2>1 DEF OnePlace
  <2>3. QED BY <1>5, <2>2, <1>a
            DEF StartJob, RunFunction, FinishRead, FinishSuccess, FinishException
<1>6. CASE Processes
  <2>1. CASE RequestShutdown \/ MuleStarts
    BY <2>1 DEF RequestShutdown, MuleStarts
  <2>2. CASE MuleKilled \/ MuleExits
    BY <2>2, <1>a DEF MuleKilled, MuleExits, LoseProcess
  <2>3. CASE ApiWorkerStarts
    BY <2>3, <1>a DEF ApiWorkerStarts, ClearedStatus, RequestState
  <2>4. QED BY <1>6, <2>1, <2>2, <2>3 DEF Processes
<1>7. CASE UNCHANGED vars
  BY <1>7 DEF vars
<1>8. QED BY <1>1, <1>2, <1>3, <1>4, <1>5, <1>6, <1>7 DEF Next, Create, Abort, JobWrapper
\* What the table's clients see of a step: one of JobLife's, or nothing.
LifeMap == [j \in Jobs |-> LifeOf(j)]

LifeChange == [Life!Next]_<<LifeMap, status>>

\* A step that shows nothing of itself, and one that only ends jobs silently.
LEMMA UnseenStep ==
  ASSUME status' = status, \A j \in Jobs : LifeOf(j)' = LifeOf(j)
  PROVE  LifeChange
BY DEF LifeChange, LifeMap

LEMMA LosingStep ==
  ASSUME LifeView, status' = status,
         \A j \in Jobs : \/ LifeOf(j)' = LifeOf(j)
                         \/ LifeOf(j) \in {"asked", "working"} /\ LifeOf(j)' = "over"
  PROVE  LifeChange
<1> DEFINE L == {j \in Jobs : LifeOf(j)' # LifeOf(j)}
<1>1. L \in SUBSET {j \in Jobs : LifeMap[j] \in {"asked", "working"}}
  BY DEF LifeMap
<1>2. LifeMap' = [j \in Jobs |-> IF j \in L THEN "over" ELSE LifeMap[j]]
  BY DEF LifeMap
<1>3. Life!Lose
  BY <1>1, <1>2 DEF Life!Lose, LifeMap
<1>4. QED BY <1>3 DEF LifeChange, Life!Next

\* A step that moves one job from one part of its life to the next.
LEMMA MovedMap ==
  ASSUME NEW j \in Jobs, \A k \in Jobs : k # j => LifeOf(k)' = LifeOf(k)
  PROVE  LifeMap' = [LifeMap EXCEPT ![j] = LifeOf(j)']
BY DEF LifeMap

LEMMA CreateShown ==
  ASSUME TypeOK, OnePlace, LifeView, LifeView', NEW j \in Jobs,
         AddOnetimeJob(j) \/ SendAdd(j) \/ AddLocalJob(j)
  PROVE  LifeChange
<1> USE DEF jobVars, muleVars, timeVars
<1>a. /\ creator \in [Jobs -> CreatorState] /\ status \in [Jobs -> JobStatus \cup {"NONE"}]
  BY DEF TypeOK
<1>b. ASSUME msgs' = msgs
      PROVE  \A k \in Jobs : InMessages(k)' <=> InMessages(k)
  BY <1>b DEF InMessages
<1>c. thread' = thread
  BY DEF AddOnetimeJob, SendAdd, AddLocalJob
<1>d. \A k \in Jobs : Working(k)' <=> Working(k)
  BY <1>c DEF Working
<1>1. CASE AddOnetimeJob(j)
  <2>1. ASSUME NEW k \in Jobs, k # j PROVE LifeOf(k)' = LifeOf(k)
    <3>1. Pending(k)' <=> Pending(k)
      BY <1>1, <2>1, <1>a, <1>b DEF AddOnetimeJob, Pending
    <3>2. creator'[k] = creator[k]
      BY <1>1, <2>1, <1>a DEF AddOnetimeJob
    <3>3. QED BY <3>1, <3>2, <1>d, SameLife
  <2>2. LifeOf(j) = "new"
    BY <1>1 DEF AddOnetimeJob, LifeView
  <2>3. Pending(j)'
    BY <1>1, <1>a DEF AddOnetimeJob, Pending
  <2>4. LifeOf(j)' = "asked"
    BY <2>3 DEF LifeView
  <2>5. LifeMap[j] = "new" /\ LifeMap' = [LifeMap EXCEPT ![j] = "asked"]
    BY <2>1, <2>2, <2>4, MovedMap DEF LifeMap
  <2>6. Life!Ask(j)
    BY <1>1, <2>5 DEF AddOnetimeJob, Life!Ask, LifeMap
  <2>7. QED BY <2>6 DEF LifeChange, Life!Next
<1>2. CASE SendAdd(j)
  <2>1. DEFINE m == [action |-> "add", id |-> j]
  <2>2. m \in Message /\ m.action = "add" /\ m.id = j
    BY DEF Message
  <2>3. \A k \in Jobs : InMessages(k)' <=> InMessages(k) \/ k = j
    BY <1>2, <2>2, SendKeepsMessages DEF SendAdd
  <2>4. ASSUME NEW k \in Jobs PROVE LifeOf(k)' = LifeOf(k)
    <3>1. Pending(k)' <=> Pending(k)
      BY <1>2, <2>3, <1>a DEF SendAdd, Pending
    <3>2. creator'[k] = "idle" <=> creator[k] = "idle"
      BY <1>2, <1>a DEF SendAdd
    <3>3. QED BY <3>1, <3>2, <1>d, SameLife
  <2>5. QED BY <1>2, <2>4, UnseenStep DEF SendAdd
<1>3. CASE AddLocalJob(j)
  <2>0. \A k \in Jobs : creator'[k] = "idle" <=> creator[k] = "idle"
    BY <1>3, <1>a DEF AddLocalJob
  <2>1. ASSUME NEW k \in Jobs, k # j PROVE LifeOf(k)' = LifeOf(k)
    <3>1. Pending(k)' <=> Pending(k)
      BY <1>3, <2>1, <1>a, <1>b DEF AddLocalJob, Pending
    <3>2. QED BY <3>1, <2>0, <1>d, SameLife
  <2>2. Pending(j) /\ ~Working(j)
    <3>1. Pending(j)
      BY <1>3 DEF AddLocalJob, Pending
    <3>2. QED BY <3>1 DEF LifeView
  <2>3. LifeOf(j)' \in {"asked", "over"}
    BY <2>2, <2>0, <1>d DEF LifeView
  <2>4. LifeOf(j) = "asked"
    BY <2>2 DEF LifeView
  <2>5. \A k \in Jobs : \/ LifeOf(k)' = LifeOf(k)
                        \/ LifeOf(k) \in {"asked", "working"} /\ LifeOf(k)' = "over"
    BY <2>1, <2>3, <2>4
  <2>6. QED BY <1>3, <2>5, LosingStep DEF AddLocalJob
<1>4. QED BY <1>1, <1>2, <1>3

LEMMA AbortShown ==
  ASSUME TypeOK, KnownJobs, LifeView, LifeView', NEW q \in Requests,
         AbortRead(q) \/ RemoveScheduledJob(q) \/ FinishAbort(q) \/ AbortRunning(q)
  PROVE  LifeChange
<1> USE DEF jobVars, muleVars, timeVars
<1>a. req[q].job \in Jobs
  BY DEF TypeOK, RequestState
<1>1. \A k \in Jobs : InMessages(k)' <=> InMessages(k)
  <2>1. CASE RemoveScheduledJob(q)
    <3>1. DEFINE m == [action |-> "remove", id |-> req[q].job]
    <3>2. m \in Message /\ m.action # "add"
      BY <1>a DEF Message
    <3>3. QED BY <2>1, <3>2, SendKeepsMessages DEF RemoveScheduledJob
  <2>2. CASE msgs' = msgs
    BY <2>2 DEF InMessages
  <2>3. QED BY <2>1, <2>2 DEF AbortRead, FinishAbort, AbortRunning
<1>2. UNCHANGED <<creator, store, pool, thread>>
  BY DEF AbortRead, RemoveScheduledJob, FinishAbort, AbortRunning
<1>3. \A k \in Jobs : LifeOf(k)' = LifeOf(k)
  <2>1. SUFFICES ASSUME NEW k \in Jobs PROVE LifeOf(k)' = LifeOf(k)
    OBVIOUS
  <2>2. Pending(k)' <=> Pending(k)
    BY <1>1, <1>2 DEF Pending
  <2>3. QED BY <2>2, <1>2, SameLife DEF Working
<1>4. CASE AbortRead(q) \/ RemoveScheduledJob(q)
  BY <1>3, <1>4, UnseenStep DEF AbortRead, RemoveScheduledJob
<1>5. CASE FinishAbort(q) \/ AbortRunning(q)
  <2>1. LifeMap[req[q].job] # "new"
    BY <1>5, <1>a DEF FinishAbort, AbortRunning, KnownJobs, LifeView, LifeMap
  <2>2. Life!Overrule(req[q].job)
    BY <1>3, <1>5, <2>1 DEF FinishAbort, AbortRunning, Life!Overrule, LifeMap
  <2>3. QED BY <2>2, <1>a DEF LifeChange, Life!Next
<1>6. QED BY <1>4, <1>5
LEMMA MainLoopShown ==
  ASSUME TypeOK, OnePlace, LifeView, LifeView', MainLoop
  PROVE  LifeChange
<1> USE DEF jobVars, muleVars, timeVars
<1>a. /\ store \subseteq Jobs /\ pool \subseteq Jobs /\ thread \in [Jobs -> ThreadState]
      /\ msgs # <<>> /\ msgs' = Tail(msgs) /\ OneMessage
      /\ Head(msgs) \in Message
      /\ UNCHANGED <<creator, pool>>
  BY ReadMessage DEF TypeOK, OnePlace, MainLoop, MuleAdd, MuleRemove, MuleShutdown
<1>b. \A k \in Jobs : /\ InMessages(k)' => InMessages(k)
                      /\ InMessages(k) => \/ InMessages(k)'
                                          \/ Head(msgs).action = "add" /\ Head(msgs).id = k
                      /\ Head(msgs).action = "add" /\ Head(msgs).id = k
                           => InMessages(k) /\ ~InMessages(k)'
  BY <1>a, ReadKeepsMessages
<1>1. CASE MuleAdd
  <2>1. PICK j \in Jobs : j = Head(msgs).id
    BY <1>1, <1>a DEF MuleAdd, Message
  <2>2. j \in Jobs /\ InMessages(j) /\ ~InMessages(j)'
    BY <1>1, <1>b, <2>1 DEF MuleAdd
  <2>3. \A k \in Jobs : k # j => (InMessages(k)' <=> InMessages(k))
    BY <1>b, <2>1
  <2>4. UNCHANGED thread
    BY <1>1 DEF MuleAdd
  <2>5. creator[j] = "done" /\ j \notin store \cup pool /\ thread[j] = "none"
    BY <2>2 DEF OnePlace
  <2>6. ASSUME NEW k \in Jobs, k # j PROVE LifeOf(k)' = LifeOf(k)
    <3>1. k \in store' <=> k \in store
      BY <1>1, <2>1, <2>6 DEF MuleAdd
    <3>2. Pending(k)' <=> Pending(k)
      BY <3>1, <2>3, <2>4, <2>6, <1>a DEF Pending
    <3>3. QED BY <3>2, <2>4, <1>a, SameLife DEF Working
  <2>7. LifeOf(j) = "asked"
    BY <2>2 DEF LifeView, Pending
  <2>8. CASE AlreadyScheduled(j)
    <3>1. status' = [status EXCEPT ![j] = "ABORTED"] /\ store' = store
      BY <1>1, <2>1, <2>8 DEF MuleAdd
    <3>2. ~Pending(j)'
      BY <3>1, <2>2, <2>4, <2>5, <1>a DEF Pending
    <3>3. LifeOf(j)' = "over"
      BY <3>2, <2>2, <2>4, <2>5, <1>a DEF LifeView, Working
    <3>4. LifeMap[j] = "asked" /\ LifeMap' = [LifeMap EXCEPT ![j] = "over"]
      BY <2>2, <2>6, <2>7, <3>3, MovedMap DEF LifeMap
    <3>5. Life!Refuse(j)
      BY <3>1, <3>4 DEF Life!Refuse, LifeMap
    <3>6. QED BY <3>5, <2>2 DEF LifeChange, Life!Next
  <2>9. CASE ~AlreadyScheduled(j)
    <3>1. status' = status /\ store' = store \cup {j}
      BY <1>1, <2>1, <2>9 DEF MuleAdd
    <3>2. Pending(j)'
      BY <3>1 DEF Pending
    <3>3. LifeOf(j)' = LifeOf(j)
      BY <3>2, <2>2, <2>7 DEF LifeView
    <3>4. QED BY <3>1, <3>3, <2>6, UnseenStep
  <2>10. QED BY <2>8, <2>9
<1>2. CASE ~MuleAdd
  <2>1. MuleRemove \/ MuleShutdown
    BY <1>2 DEF MainLoop
  <2>2. \A k \in Jobs : InMessages(k)' <=> InMessages(k)
    BY <2>1, <1>b DEF MuleRemove, MuleShutdown
  <2>3. ASSUME NEW k \in Jobs
        PROVE  \/ LifeOf(k)' = LifeOf(k)
               \/ LifeOf(k) \in {"asked", "working"} /\ LifeOf(k)' = "over"
    <3>1. CASE k \in store /\ k \notin store'
      <4>1. /\ k = Head(msgs).id /\ thread'[k] = "removed" /\ creator[k] = "done"
            /\ k \notin pool /\ ~InMessages(k)
        BY <2>1, <3>1, <1>a DEF MuleRemove, MuleShutdown, OnePlace
      <4>2. Pending(k) /\ ~Pending(k)'
        BY <4>1, <3>1, <2>2, <1>a DEF Pending
      <4>3. QED BY <4>1, <4>2, <1>a DEF LifeView, Working
    <3>2. CASE k \in store <=> k \in store'
      <4>1. thread'[k] = thread[k]
        BY <2>1, <3>2, <1>a DEF MuleRemove, MuleShutdown
      <4>2. Pending(k)' <=> Pending(k)
        BY <4>1, <3>2, <2>2, <1>a DEF Pending
      <4>3. QED BY <4>1, <4>2, <1>a, SameLife DEF Working
    <3>3. QED BY <3>1, <3>2, <2>1 DEF MuleRemove, MuleShutdown
  <2>4. QED BY <2>1, <2>3, LosingStep DEF MuleRemove, MuleShutdown
<1>3. QED BY <1>1, <1>2

LEMMA DispatchShown ==
  ASSUME TypeOK, OnePlace, LifeView, LifeView', NEW j \in Jobs,
         Submit(j) \/ TakeJob(j) \/ GraceExpires(j) \/ RowOverdue(j)
  PROVE  LifeChange
<1> USE DEF jobVars, muleVars, timeVars
<1>a. thread \in [Jobs -> ThreadState]
  BY DEF TypeOK
<1>b. \A k \in Jobs : InMessages(k)' <=> InMessages(k)
  BY DEF Submit, TakeJob, GraceExpires, RowOverdue, InMessages
<1>c. UNCHANGED <<creator, status>>
  BY DEF Submit, TakeJob, GraceExpires, RowOverdue
<1>1. ASSUME NEW k \in Jobs
      PROVE  \/ LifeOf(k)' = LifeOf(k)
             \/ LifeOf(k) \in {"asked", "working"} /\ LifeOf(k)' = "over"
  <2>1. CASE k = j /\ TakeJob(j) /\ j \in late
    <3>1. /\ thread'[j] = "missed" /\ j \notin pool' /\ j \notin store' /\ Pending(j)
          /\ creator[j] = "done" /\ ~InMessages(j)
      BY <2>1, <1>a DEF TakeJob, OnePlace, Pending
    <3>2. ~Pending(j)' /\ ~Working(j)'
      BY <3>1, <1>b, <1>c DEF Pending, Working
    <3>3. QED BY <2>1, <3>1, <3>2, <1>c DEF LifeView
  <2>2. CASE ~(k = j /\ TakeJob(j) /\ j \in late)
    <3>1. Pending(k)' <=> Pending(k)
      BY <2>2, <1>a, <1>b, <1>c DEF Submit, TakeJob, GraceExpires, RowOverdue, Pending, OnePlace
    <3>2. Working(k)' <=> Working(k)
      BY <2>2, <1>a DEF Submit, TakeJob, GraceExpires, RowOverdue, Working, OnePlace
    <3>3. QED BY <3>1, <3>2, <1>c, SameLife
  <2>3. QED BY <2>1, <2>2
<1>2. QED BY <1>1, <1>c, LosingStep

LEMMA WrapperShown ==
  ASSUME TypeOK, OnePlace, LifeView, LifeView', NEW j \in Jobs,
         StartJob(j) \/ RunFunction(j) \/ FinishRead(j) \/ FinishSuccess(j) \/ FinishException(j)
  PROVE  LifeChange
<1> USE DEF jobVars, muleVars, timeVars
<1>a. thread \in [Jobs -> ThreadState]
  BY DEF TypeOK
<1>b. \A k \in Jobs : InMessages(k)' <=> InMessages(k)
  BY DEF StartJob, RunFunction, FinishRead, FinishSuccess, FinishException, InMessages
<1>c. UNCHANGED <<creator, store, pool>>
  BY DEF StartJob, RunFunction, FinishRead, FinishSuccess, FinishException
<1>d. creator[j] = "done" /\ j \notin store \cup pool /\ ~InMessages(j)
  BY DEF OnePlace, StartJob, RunFunction, FinishRead, FinishSuccess, FinishException
<1>e. Pending(j) <=> thread[j] = "start"
  BY <1>d DEF Pending
<1>f. Pending(j)' <=> thread'[j] = "start"
  BY <1>b, <1>c, <1>d DEF Pending
<1>1. ASSUME NEW k \in Jobs, k # j PROVE LifeOf(k)' = LifeOf(k)
  <2>1. thread'[k] = thread[k]
    BY <1>1, <1>a DEF StartJob, RunFunction, FinishRead, FinishSuccess, FinishException
  <2>2. Pending(k)' <=> Pending(k)
    BY <2>1, <1>b, <1>c DEF Pending
  <2>3. QED BY <2>1, <2>2, <1>c, SameLife DEF Working
<1>2. CASE StartJob(j)
  <2>1. LifeOf(j) = "asked" /\ LifeOf(j)' = "working"
    BY <1>2, <1>a, <1>e DEF StartJob, LifeView, Working
  <2>2. LifeMap[j] = "asked" /\ LifeMap' = [LifeMap EXCEPT ![j] = "working"]
    BY <1>1, <2>1, MovedMap DEF LifeMap
  <2>3. Life!Begin(j)
    BY <1>2, <2>2 DEF StartJob, Life!Begin, LifeMap
  <2>4. QED BY <2>3 DEF LifeChange, Life!Next
<1>3. CASE RunFunction(j) \/ FinishRead(j)
  <2>1. Working(j) /\ Working(j)'
    BY <1>3, <1>a DEF RunFunction, FinishRead, Working
  <2>2. LifeOf(j)' = LifeOf(j)
    BY <2>1 DEF LifeView
  <2>3. QED BY <1>1, <1>3, <2>2, UnseenStep DEF RunFunction, FinishRead
<1>4. CASE FinishSuccess(j) \/ FinishException(j)
  <2>1. Working(j) /\ thread'[j] = "ended"
    BY <1>4, <1>a DEF FinishSuccess, FinishException, Working
  <2>2. LifeOf(j) = "working" /\ LifeOf(j)' = "over"
    BY <2>1, <1>c, <1>d, <1>f DEF LifeView, Working
  <2>3. LifeMap[j] = "working" /\ LifeMap' = [LifeMap EXCEPT ![j] = "over"]
    BY <1>1, <2>2, MovedMap DEF LifeMap
  <2>4. \E how \in {"FINISHED", "EXCEPTION", "ABORTED"} : status' = [status EXCEPT ![j] = how]
    BY <1>4 DEF FinishSuccess, FinishException
  <2>5. Life!End(j)
    BY <2>3, <2>4 DEF Life!End, LifeMap
  <2>6. QED BY <2>5 DEF LifeChange, Life!Next
<1>5. QED BY <1>2, <1>3, <1>4

LEMMA ProcessesShown ==
  ASSUME TypeOK, OnePlace, LifeView, LifeView', Processes
  PROVE  LifeChange
<1> USE DEF jobVars, muleVars, timeVars
<1>a. /\ creator \in [Jobs -> CreatorState] /\ thread \in [Jobs -> ThreadState]
      /\ status \in [Jobs -> JobStatus \cup {"NONE"}] /\ store \subseteq Jobs
  BY DEF TypeOK
<1>b. \A k \in Jobs : InMessages(k)' <=> InMessages(k)
  <2>1. CASE RequestShutdown
    <3>1. DEFINE m == [action |-> "shutdown_mule"]
    <3>2. m \in Message /\ m.action # "add"
      BY DEF Message
    <3>3. QED BY <2>1, <3>2, SendKeepsMessages DEF RequestShutdown
  <2>2. CASE msgs' = msgs
    BY <2>2 DEF InMessages
  <2>3. QED BY <2>1, <2>2 DEF Processes, MuleKilled, MuleExits, LoseProcess, MuleStarts,
                              ApiWorkerStarts
<1>1. CASE RequestShutdown \/ MuleStarts
  <2>1. UNCHANGED <<creator, status, store, pool, thread>>
    BY <1>1 DEF RequestShutdown, MuleStarts
  <2>2. \A k \in Jobs : LifeOf(k)' = LifeOf(k)
    <3>1. SUFFICES ASSUME NEW k \in Jobs PROVE LifeOf(k)' = LifeOf(k)
      OBVIOUS
    <3>2. Pending(k)' <=> Pending(k)
      BY <2>1, <1>b DEF Pending
    <3>3. QED BY <3>2, <2>1, SameLife DEF Working
  <2>3. QED BY <2>1, <2>2, UnseenStep
<1>2. CASE MuleKilled \/ MuleExits
  <2>1. LoseProcess
    BY <1>2 DEF MuleKilled, MuleExits
  <2>2. ASSUME NEW k \in Jobs
        PROVE  \/ LifeOf(k)' = LifeOf(k)
               \/ LifeOf(k) \in {"asked", "working"} /\ LifeOf(k)' = "over"
    <3>0. creator'[k] = "idle" <=> creator[k] = "idle"
      BY <2>1, <1>a DEF LoseProcess
    <3>1. CASE k \in pool \cup Busy
      <4>1. /\ thread'[k] = "killed" /\ k \notin pool'
            /\ creator[k] = "done" /\ creator'[k] = "done"
            /\ k \notin store' /\ ~InMessages(k)
        BY <2>1, <3>1, <1>a DEF LoseProcess, OnePlace, Busy, Active
      <4>2. ~Pending(k)' /\ ~Working(k)'
        BY <4>1, <1>b DEF Pending, Working
      <4>3. Pending(k) \/ Working(k)
        BY <3>1 DEF Pending, Working, Busy, Active
      <4>4. QED BY <4>1, <4>2, <4>3 DEF LifeView
    <3>2. CASE k \notin pool \cup Busy
      <4>1. thread'[k] = thread[k] /\ ~Working(k) /\ ~Working(k)'
        BY <2>1, <3>2, <1>a DEF LoseProcess, Busy, Active, Working
      <4>2. Pending(k)' => Pending(k)
        BY <2>1, <4>1, <1>a, <1>b DEF LoseProcess, Pending
      <4>3. QED BY <4>1, <4>2, <3>0 DEF LifeView
    <3>3. QED BY <3>1, <3>2
  <2>3. QED BY <2>1, <2>2, LosingStep DEF LoseProcess
<1>3. CASE ApiWorkerStarts
  <2>1. UNCHANGED <<store, pool, thread>>
    BY <1>3 DEF ApiWorkerStarts
  <2>2. ASSUME NEW k \in Jobs
        PROVE  \/ LifeOf(k)' = LifeOf(k)
               \/ LifeOf(k) = "asked" /\ LifeOf(k)' = "over"
    <3>1. creator'[k] = creator[k] \/ (creator[k] = "send" /\ creator'[k] = "dead")
      BY <1>3 DEF ApiWorkerStarts
    <3>2. Pending(k)' => Pending(k)
      BY <2>1, <3>1, <1>b DEF Pending
    <3>3. Working(k)' <=> Working(k)
      BY <2>1 DEF Working
    <3>4. QED BY <3>1, <3>2, <3>3 DEF LifeView
  <2>3. DEFINE L == {k \in Jobs : LifeOf(k)' # LifeOf(k)}
               W == {k \in Jobs : status[k] = "SCHEDULED" /\ k \in overdue}
  <2>4. L \in SUBSET {k \in Jobs : LifeMap[k] = "asked"}
    BY <2>2 DEF LifeMap
  <2>5. W \in SUBSET {k \in Jobs : status[k] = "SCHEDULED"}
    OBVIOUS
  <2>6. LifeMap' = [k \in Jobs |-> IF k \in L THEN "over" ELSE LifeMap[k]]
    BY <2>2 DEF LifeMap
  <2>7. status' = [k \in Jobs |-> IF k \in W \/ status[k] \in {"RUNNING", "ABORTING"}
                                    THEN "ABORTED" ELSE status[k]]
    BY <1>3 DEF ApiWorkerStarts, ClearedStatus
  <2>8. Life!CleanUp
    BY <2>4, <2>5, <2>6, <2>7 DEF Life!CleanUp, LifeMap
  <2>9. QED BY <2>8 DEF LifeChange, Life!Next
<1>4. QED BY <1>1, <1>2, <1>3 DEF Processes

\* Every step of the system is a step of JobLife or shows nothing.
LEMMA LifeStep ==
  TypeOK /\ OnePlace /\ KnownJobs /\ LifeView /\ LifeView' /\ [Next]_vars => LifeChange
<1> SUFFICES ASSUME TypeOK, OnePlace, KnownJobs, LifeView, LifeView', [Next]_vars
             PROVE  LifeChange
  OBVIOUS
<1>1. CASE Create \/ Abort
  BY <1>1, CreateShown, AbortShown DEF Create, Abort
<1>2. CASE MainLoop \/ Processes
  BY <1>2, MainLoopShown, ProcessesShown
<1>3. CASE Dispatch
  BY <1>3, DispatchShown DEF Dispatch
<1>4. CASE JobWrapper
  BY <1>4, WrapperShown DEF JobWrapper
<1>5. CASE UNCHANGED vars
  <2>1. UNCHANGED <<creator, status, msgs, store, pool, thread>>
    BY <1>5 DEF vars, jobVars, muleVars
  <2>2. \A k \in Jobs : LifeOf(k)' = LifeOf(k)
    BY <2>1 DEF LifeOf, Pending, InMessages
  <2>3. QED BY <2>1, <2>2, UnseenStep
<1>6. QED BY <1>1, <1>2, <1>3, <1>4, <1>5 DEF Next

\* The job tracker keeps the promise of JobLife: however many API workers,
\* messages, threads and deaths of processes lie between the call and the row,
\* a job works once, is over once, and its row reports an end only of its work.
THEOREM JobsImplementLife == Spec => LifeKept
<1>1. Init => KnownJobs
  BY DEF Init, KnownJobs
<1>2. Spec => []KnownJobs
  BY <1>1, KnownStep, TypeCorrect, OnePlaceAlways, PTL DEF Spec
<1>3. Spec => []LifeView
  BY LifeCases, OnePlaceAlways, PTL
<1>4. Init => Life!Init
  <2>1. SUFFICES ASSUME Init PROVE Life!Init
    OBVIOUS
  <2>2. \A j \in Jobs : creator[j] = "idle" /\ ~Pending(j) /\ thread[j] = "none"
    BY <2>1 DEF Init, Pending, InMessages
  <2>3. \A j \in Jobs : LifeOf(j) = "new"
    BY <2>2 DEF LifeOf, Active
  <2>4. QED BY <2>1, <2>3 DEF Init, Life!Init
<1>5. TypeOK /\ OnePlace /\ KnownJobs /\ LifeView /\ LifeView' /\ [Next]_vars
        => [Life!Next]_<<[j \in Jobs |-> LifeOf(j)], status>>
  BY LifeStep DEF LifeChange, LifeMap
<1>6. QED BY <1>2, <1>3, <1>4, <1>5, TypeCorrect, OnePlaceAlways, PTL
          DEF Spec, LifeKept, Life!Spec
=============================================================================
