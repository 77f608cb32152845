------------------------------ MODULE JobLife ------------------------------
(***************************************************************************)
(* What a client of the job table is promised: a job that was asked for    *)
(* works at most once and is over at most once. Its row says RUNNING from  *)
(* the moment it goes to work, and FINISHED or EXCEPTION only when its     *)
(* work is over; whatever else happens to a job shows as ABORTED, as       *)
(* ABORTING, or not at all. How jobs travel between the processes, and     *)
(* which of them die, is not visible here.                                 *)
(***************************************************************************)
CONSTANT Jobs

VARIABLES
  life,   \* "new", "asked", "working" or "over" for each job
  row     \* what the table says of it

Init == /\ life = [j \in Jobs |-> "new"]
        /\ row = [j \in Jobs |-> "NONE"]

Ask(j) ==
  /\ life[j] = "new"
  /\ life' = [life EXCEPT ![j] = "asked"]
  /\ row' = [row EXCEPT ![j] = "SCHEDULED"]

Begin(j) ==
  /\ life[j] = "asked"
  /\ life' = [life EXCEPT ![j] = "working"]
  /\ row' = [row EXCEPT ![j] = "RUNNING"]

\* The work is over, and the row says how it went whatever it said before.
End(j) ==
  /\ life[j] = "working"
  /\ life' = [life EXCEPT ![j] = "over"]
  /\ \E how \in {"FINISHED", "EXCEPTION", "ABORTED"} : row' = [row EXCEPT ![j] = how]

\* A job that may not run beside another one is turned down.
Refuse(j) ==
  /\ life[j] = "asked"
  /\ life' = [life EXCEPT ![j] = "over"]
  /\ row' = [row EXCEPT ![j] = "ABORTED"]

\* Some jobs are over without a word in their rows.
Lose ==
  \E L \in SUBSET {j \in Jobs : life[j] \in {"asked", "working"}} :
    /\ life' = [j \in Jobs |-> IF j \in L THEN "over" ELSE life[j]]
    /\ UNCHANGED row

\* An operator's abort is written into the row, wherever the job is by now.
Overrule(j) ==
  /\ life[j] # "new"
  /\ \E how \in {"ABORTED", "ABORTING"} : row' = [row EXCEPT ![j] = how]
  /\ UNCHANGED life

\* A process that starts clears the rows of the jobs it takes for dead, among
\* them some that only wait; what ended keeps its result. The process before
\* it takes with it some of the jobs that were asked for.
CleanUp ==
  \E L \in SUBSET {j \in Jobs : life[j] = "asked"},
     W \in SUBSET {j \in Jobs : row[j] = "SCHEDULED"} :
    /\ life' = [j \in Jobs |-> IF j \in L THEN "over" ELSE life[j]]
    /\ row' = [j \in Jobs |-> IF j \in W \/ row[j] \in {"RUNNING", "ABORTING"}
                                THEN "ABORTED" ELSE row[j]]

Next == \/ \E j \in Jobs : Ask(j) \/ Begin(j) \/ End(j) \/ Refuse(j) \/ Overrule(j)
        \/ Lose
        \/ CleanUp

Spec == Init /\ [][Next]_<<life, row>>
=============================================================================
