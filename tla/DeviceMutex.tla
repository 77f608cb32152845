---------------------------- MODULE DeviceMutex ----------------------------
(***************************************************************************)
(* What the lock "devices" of CNaaS-NMS promises: one job at a time works  *)
(* on the devices or on the repositories their configuration comes from,   *)
(* unless the locks were cleared under a job that was at work.             *)
(***************************************************************************)
CONSTANT Jobs

VARIABLES
  configuring,   \* the jobs at work
  cleared        \* the locks were cleared by a process that started

Init == configuring = {} /\ cleared = FALSE

\* A job goes to work when nobody else is at work, as far as can be known.
Enter(j) ==
  /\ j \notin configuring
  /\ configuring = {} \/ cleared
  /\ configuring' = configuring \cup {j}
  /\ UNCHANGED cleared

Leave(j) ==
  /\ j \in configuring
  /\ configuring' = configuring \ {j}
  /\ UNCHANGED cleared

\* A process is lost or started: some jobs are over, and the rest may go on
\* without their lock.
Clear ==
  /\ configuring' \in SUBSET configuring
  /\ cleared' = TRUE

Next == (\E j \in Jobs : Enter(j) \/ Leave(j)) \/ Clear

Spec == Init /\ [][Next]_<<configuring, cleared>>
=============================================================================
