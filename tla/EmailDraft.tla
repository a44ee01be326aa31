----------------------------- MODULE EmailDraft -----------------------------
(***************************************************************************)
(* Draft replies to e-mails (runtime/email_intake.py): an intake runs a    *)
(* workflow over an e-mail and stores what it made of it as an artifact;   *)
(* operators ask for the approval of the draft in it, decide it, and have  *)
(* the approved draft stored as a second artifact, the handoff.  Artifacts *)
(* and approvals are files of their own, the workflow record lists the     *)
(* artifacts and is loaded, extended and written back.                     *)
(*                                                                         *)
(* One step is one file access.  Sessions and runs are left out (see       *)
(* Session and AgentRun), and so is the text of e-mails; when a call       *)
(* begins, its run has succeeded, and only these calls write the record.   *)
(***************************************************************************)
EXTENDS Integers, Sequences, FiniteSets

CONSTANTS
  Intake,    \* intakes; each has the name of its workflow and of its artifact
  Drafted,   \* those whose triage has a draft reply
  Call,      \* requests of operators; each has the name of what it creates
  Operator,  \* those who decide approvals
  None

ASSUME EmailAssumption == Drafted \subseteq Intake /\ Intake \cap Call = {}

VARIABLES
  stored,      \* intakes whose triage artifact is on disk
  approvals,   \* approvals of drafts, the latest updated_at last
  handoffs,    \* handoff artifacts, the latest updated_at last
  listed,      \* [Intake -> the artifacts that its workflow record lists]
  pc,          \* [Intake \cup Call -> where it is]
  email,       \* [Call -> the intake whose artifact it is about]
  grant,       \* [Call -> the approval that it found approved]
  copy,        \* [Intake \cup Call -> its copy of listed]
  answer,      \* [Call -> the handoff that it returned]
  deciding,    \* [Operator -> the approval record that it is about to write]
  overlapped,  \* intakes about which calls overlapped (not in the code)
  contested    \* those with an approval whose decisions overlapped (not in the code)

decisions == <<deciding, contested>>
vars == <<stored, approvals, handoffs, listed, pc, email, grant, copy, answer, overlapped, decisions>>

Thread == Intake \cup Call
Approval == [id: Call, of: Intake, status: {"pending", "approved", "denied", "aborted"}]
Handoff == [id: Call, of: Intake, approval: Call]

ASSUME NoneAssumption == None \notin Intake \cup Call \cup Approval \cup Handoff

TypeOK ==
  /\ stored \subseteq Intake
  /\ approvals \in Seq(Approval)
  /\ handoffs \in Seq(Handoff)
  /\ listed \in [Intake -> SUBSET Thread]
  /\ pc \in [Thread -> {"idle", "ask", "store", "load", "write", "done", "crashed"}]
  /\ email \in [Call -> Intake \cup {None}]
  /\ grant \in [Call -> Call \cup {None}]
  /\ copy \in [Thread -> SUBSET Thread]
  /\ answer \in [Call -> Call \cup {None}]
  /\ deciding \in [Operator -> Approval \cup {None}]
  /\ overlapped \subseteq Intake /\ contested \subseteq Intake

Init ==
  /\ stored = {} /\ overlapped = {} /\ contested = {}
  /\ deciding = [o \in Operator |-> None]
  /\ approvals = <<>> /\ handoffs = <<>>
  /\ listed = [i \in Intake |-> {}]
  /\ pc = [x \in Thread |-> "idle"]
  /\ email = [c \in Call |-> None]
  /\ grant = [c \in Call |-> None]
  /\ copy = [x \in Thread |-> {}]
  /\ answer = [c \in Call |-> None]

-----------------------------------------------------------------------------
(* Look-ups *)

IndexesOf(records, i) == {n \in 1..Len(records) : records[n].of = i}

\* Mutant of Latest: the first match.
Earliest(records, i) ==
  LET ns == IndexesOf(records, i)
  IN IF ns = {} THEN None ELSE records[CHOOSE n \in ns : \A m \in ns : n <= m]

\* find_email_draft_approval and find_email_draft_handoff
Latest(records, i) ==
  LET ns == IndexesOf(records, i)
  IN IF ns = {} THEN None ELSE records[CHOOSE n \in ns : \A m \in ns : m <= n]

Decided(i, statuses) ==
  Latest(approvals, i) # None /\ Latest(approvals, i).status \in statuses

InFlight(x) == pc[x] \in {"ask", "store", "load", "write"}
Flow(x) == IF x \in Intake THEN x ELSE email[x]
Goto(x, label) == pc' = [pc EXCEPT ![x] = label]

-----------------------------------------------------------------------------
(* Artifacts of a workflow *)

\* The workflow has succeeded with an output, or the intake has no artifact.
EndWorkflow(i) ==
  /\ pc[i] = "idle"
  /\ Goto(i, "store") \/ Goto(i, "done")
  /\ UNCHANGED <<stored, approvals, handoffs, listed, email, grant, copy, answer, overlapped, decisions>>

\* create_artifact
StoreTriage(i) ==
  /\ pc[i] = "store"
  /\ stored' = stored \cup {i}
  /\ Goto(i, "load")
  /\ UNCHANGED <<approvals, handoffs, listed, email, grant, copy, answer, overlapped, decisions>>

StoreHandoff(c) ==
  /\ pc[c] = "store"
  /\ handoffs' = Append(handoffs, [id |-> c, of |-> email[c], approval |-> grant[c]])
  /\ Goto(c, "load")
  /\ UNCHANGED <<stored, approvals, listed, email, grant, copy, answer, overlapped, decisions>>

LoadWorkflow(x) ==
  /\ pc[x] = "load"
  /\ copy' = [copy EXCEPT ![x] = listed[Flow(x)]]
  /\ Goto(x, "write")
  /\ UNCHANGED <<stored, approvals, handoffs, listed, email, grant, answer, overlapped, decisions>>

\* Mutant of Registered: the list has one entry.
RegisteredAlone(artifacts, x) == {x}

\* register_artifact
Registered(artifacts, x) == artifacts \cup {x}

\* write_workflow
WriteWorkflow(x) ==
  /\ pc[x] = "write"
  /\ listed' = [listed EXCEPT ![Flow(x)] = Registered(copy[x], x)]
  /\ answer' = IF x \in Call THEN [answer EXCEPT ![x] = x] ELSE answer
  /\ Goto(x, "done")
  /\ UNCHANGED <<stored, approvals, handoffs, email, grant, copy, overlapped, decisions>>

Crash(x) ==
  /\ InFlight(x)
  /\ Goto(x, "crashed")
  /\ UNCHANGED <<stored, approvals, handoffs, listed, email, grant, copy, answer, overlapped, decisions>>

-----------------------------------------------------------------------------
(* Requests of operators *)

BeginsAbout(c, i) ==
  /\ pc[c] = "idle" /\ i \in stored
  /\ email' = [email EXCEPT ![c] = i]
  /\ overlapped' = IF \E x \in Thread : InFlight(x) /\ Flow(x) = i THEN overlapped \cup {i}
                   ELSE overlapped
  /\ UNCHANGED <<stored, approvals, handoffs, listed, copy, decisions>>

\* request_email_draft_approval: an approval that is not settled is returned.
RequestApproval(c, i) ==
  /\ BeginsAbout(c, i) /\ i \in Drafted
  /\ Goto(c, IF Decided(i, {"pending", "approved", "resumed"}) THEN "done" ELSE "ask")
  /\ UNCHANGED <<grant, answer>>

CreateApproval(c) ==
  /\ pc[c] = "ask"
  /\ approvals' = Append(approvals, [id |-> c, of |-> email[c], status |-> "pending"])
  /\ Goto(c, "done")
  /\ UNCHANGED <<stored, handoffs, listed, email, grant, copy, answer, overlapped, decisions>>

\* create_email_draft_handoff: a handoff that is on disk is returned.
RequestHandoff(c, i) ==
  /\ BeginsAbout(c, i) /\ Decided(i, {"approved"})
  /\ IF Latest(handoffs, i) = None
     THEN /\ grant' = [grant EXCEPT ![c] = Latest(approvals, i).id]
          /\ Goto(c, "store")
          /\ UNCHANGED answer
     ELSE /\ answer' = [answer EXCEPT ![c] = Latest(handoffs, i).id]
          /\ Goto(c, "done")
          /\ UNCHANGED grant

\* approve_approval, deny_approval, abort_approval: update_approval_status reads
\* the record and checks what it says, and writes it back.
DecideCheck(o, n, status) ==
  /\ deciding[o] = None
  /\ \/ approvals[n].status = "pending" /\ status \in {"approved", "denied", "aborted"}
     \/ approvals[n].status = "approved" /\ status = "aborted"
  /\ deciding' = [deciding EXCEPT ![o] = [approvals[n] EXCEPT !.status = status]]
  /\ contested' = IF \E p \in Operator : deciding[p] # None /\ deciding[p].id = approvals[n].id
                  THEN contested \cup {approvals[n].of} ELSE contested
  /\ UNCHANGED <<stored, approvals, handoffs, listed, pc, email, grant, copy, answer, overlapped>>

\* The record has the latest updated_at now.
Rewritten(records, n, record) ==
  SubSeq(records, 1, n - 1) \o SubSeq(records, n + 1, Len(records)) \o <<record>>

DecideWrite(o) ==
  /\ deciding[o] # None
  /\ \E n \in 1..Len(approvals) :
       /\ approvals[n].id = deciding[o].id
       /\ approvals' = Rewritten(approvals, n, deciding[o])
  /\ deciding' = [deciding EXCEPT ![o] = None]
  /\ UNCHANGED <<stored, handoffs, listed, pc, email, grant, copy, answer, overlapped, contested>>

DecisionDies(o) ==
  /\ deciding[o] # None
  /\ deciding' = [deciding EXCEPT ![o] = None]
  /\ UNCHANGED <<stored, approvals, handoffs, listed, pc, email, grant, copy, answer, overlapped, contested>>

-----------------------------------------------------------------------------

IntakeNext(i) == EndWorkflow(i) \/ StoreTriage(i)
CallNext(c) ==
  \/ \E i \in Intake : RequestApproval(c, i) \/ RequestHandoff(c, i)
  \/ CreateApproval(c) \/ StoreHandoff(c)

DecideNext(o) ==
  \/ \E n \in 1..Len(approvals), status \in {"approved", "denied", "aborted"} :
       DecideCheck(o, n, status)
  \/ DecideWrite(o) \/ DecisionDies(o)

Next ==
  \/ \E i \in Intake : IntakeNext(i)
  \/ \E c \in Call : CallNext(c)
  \/ \E x \in Thread : LoadWorkflow(x) \/ WriteWorkflow(x) \/ Crash(x)
  \/ \E o \in Operator : DecideNext(o)

Spec == Init /\ [][Next]_vars

-----------------------------------------------------------------------------

\* While the calls about an e-mail do not overlap, crashes, repeated requests
\* and decisions that come in between never leave it with two handoffs, or, while
\* no two decisions on one approval overlap, with two approvals that an operator
\* could still act on.
OnePerDraft ==
  \A i \in Intake \ overlapped :
    /\ Cardinality(IndexesOf(handoffs, i)) <= 1
    /\ i \notin contested =>
         Cardinality({n \in IndexesOf(approvals, i) :
                        approvals[n].status \in {"pending", "approved"}}) <= 1

\* A handoff that a call has returned is in the list of its workflow, and so is
\* a triage when the intake has ended - unless calls overlapped or the call that
\* stored it died: later calls find the artifact and do not list it.
AnswersListed ==
  \A i \in Intake \ overlapped :
    /\ i \in stored /\ pc[i] = "done" => i \in listed[i]
    /\ \A c \in Call :
         email[c] = i /\ answer[c] # None /\ pc[answer[c]] # "crashed" => answer[c] \in listed[i]

=============================================================================
