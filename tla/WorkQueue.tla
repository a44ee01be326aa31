------------------------------ MODULE WorkQueue -------------------------------
(***************************************************************************)
(* What the job queue promises a client, with no workers, leases, attempts *)
(* or clock: a submitted job is kept until it is removed; it is executed   *)
(* at least once before it is completed; and once it is completed, given   *)
(* up or canceled, nothing but an execution that was already under way, an *)
(* operator's retry of a failure, or its removal changes that.             *)
(***************************************************************************)
CONSTANTS Job, Thread, None

VARIABLES
  phase,    \* [Job -> where the job is]
  flight    \* [Thread -> the job it is executing, or None]

wvars == <<phase, flight>>

Finished == {"completed", "gave_up", "canceled"}
Phase == {"new", "pending", "running", "removed"} \cup Finished

Init ==
  /\ phase = [j \in Job |-> "new"]
  /\ flight = [t \in Thread |-> None]

Moved(S, p) == [j \in Job |-> IF j \in S THEN p ELSE phase[j]]
In(p) == {j \in Job : phase[j] = p}

Submit(j) ==
  /\ phase[j] = "new"
  /\ phase' = Moved({j}, "pending")
  /\ UNCHANGED flight

\* Jobs S are taken back from their workers.
TakeBack(S) ==
  /\ S # {} /\ S \subseteq In("running")
  /\ phase' = Moved(S, "pending")
  /\ UNCHANGED flight

\* A worker asks for work: jobs S are taken back, and job j is handed out.
HandOut(S, j) ==
  /\ S \subseteq In("running") /\ j \in S \cup In("pending")
  /\ phase' = [Moved(S, "pending") EXCEPT ![j] = "running"]
  /\ UNCHANGED flight

Start(t, j) ==
  /\ flight[t] = None /\ phase[j] = "running"
  /\ flight' = [flight EXCEPT ![t] = j]
  /\ UNCHANGED phase

\* An execution ends: the job is completed, given up, or pending again.  The
\* record of a removed job stays away.
Finish(t) ==
  /\ flight[t] # None
  /\ \/ /\ phase[flight[t]] # "removed"
        /\ \E p \in {"completed", "gave_up", "pending"} : phase' = Moved({flight[t]}, p)
     \/ phase[flight[t]] = "removed" /\ UNCHANGED phase
  /\ flight' = [flight EXCEPT ![t] = None]

\* An execution is lost without a trace.
Lose(t) ==
  /\ flight[t] # None
  /\ flight' = [flight EXCEPT ![t] = None]
  /\ UNCHANGED phase

Cancel(j) ==
  /\ phase[j] \in {"pending", "running"}
  /\ phase' = Moved({j}, "canceled")
  /\ UNCHANGED flight

Retry(j) ==
  /\ phase[j] = "gave_up"
  /\ phase' = Moved({j}, "pending")
  /\ UNCHANGED flight

Remove(S) ==
  /\ S # {} /\ \A j \in S : phase[j] \in Finished
  /\ phase' = Moved(S, "removed")
  /\ UNCHANGED flight

Next ==
  \/ \E j \in Job : Submit(j) \/ Cancel(j) \/ Retry(j)
  \/ \E S \in SUBSET Job : TakeBack(S) \/ Remove(S) \/ \E j \in Job : HandOut(S, j)
  \/ \E t \in Thread : Finish(t) \/ Lose(t) \/ \E j \in Job : Start(t, j)

Spec == Init /\ [][Next]_wvars

===============================================================================
