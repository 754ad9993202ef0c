--------------------------- MODULE JobLifecycle ---------------------------
(***************************************************************************)
(* What Enduroq promises of a job, without tables, tokens, clocks or       *)
(* processes: a submitted job is tried at most once plus its budget of     *)
(* retries, one try at a time, and is settled once.  A job can only be     *)
(* completed by the try that is under way.                                 *)
(***************************************************************************)
EXTENDS Integers

CONSTANTS
  Job,
  Budgets,    \* the numbers of retries a client may ask for
  NoOutput

VARIABLES
  phase,    \* none, waiting, trying, succeeded, failed or cancelled
  budget,   \* the retries each job was submitted with
  tries,    \* the tries each job has had
  output    \* the try that completed the job, or NoOutput

lifecycleVars == <<phase, budget, tries, output>>

Init ==
  /\ phase = [j \in Job |-> "none"]
  /\ budget = [j \in Job |-> 0]
  /\ tries = [j \in Job |-> 0]
  /\ output = [j \in Job |-> NoOutput]

Submit(j, b) ==
  /\ phase[j] = "none"
  /\ phase' = [phase EXCEPT ![j] = "waiting"]
  /\ budget' = [budget EXCEPT ![j] = b]
  /\ UNCHANGED <<tries, output>>

Try(j) ==
  /\ phase[j] = "waiting"
  /\ tries[j] <= budget[j]
  /\ phase' = [phase EXCEPT ![j] = "trying"]
  /\ tries' = [tries EXCEPT ![j] = @ + 1]
  /\ UNCHANGED <<budget, output>>

\* One pass over the jobs may take up or settle several of them.
Move(js, to) ==
  /\ \A j \in js : phase[j] = "trying"
  /\ phase' = [j \in Job |-> IF j \in js THEN to ELSE phase[j]]
  /\ UNCHANGED <<budget, tries, output>>

TryAgain(js) ==
  /\ \A j \in js : tries[j] <= budget[j]
  /\ Move(js, "waiting")

GiveUp(js) == Move(js, "failed")

Complete(j) ==
  /\ phase[j] = "trying"
  /\ phase' = [phase EXCEPT ![j] = "succeeded"]
  /\ output' = [output EXCEPT ![j] = tries[j]]
  /\ UNCHANGED <<budget, tries>>

Withdraw(j) ==
  /\ phase[j] \in {"waiting", "trying"}
  /\ phase' = [phase EXCEPT ![j] = "cancelled"]
  /\ UNCHANGED <<budget, tries, output>>

Next ==
  \/ \E j \in Job :
       \/ \E b \in Budgets : Submit(j, b)
       \/ Try(j)
       \/ Complete(j)
       \/ Withdraw(j)
  \/ \E js \in SUBSET Job : TryAgain(js) \/ GiveUp(js)

Spec == Init /\ [][Next]_lifecycleVars
=============================================================================
