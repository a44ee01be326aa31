------------------------------- MODULE Subrun -------------------------------
(***************************************************************************)
(* Child workflows (start_child_workflow in runtime/workflow_runner.py).   *)
(*                                                                         *)
(* A request to spawn reads the record of the parent, checks it, runs the  *)
(* child from start to end, and writes the record it read back with the    *)
(* child added.  The parent's own run does the same with its copy.  A      *)
(* workflow that is resumed after a retry, or replayed, goes on as a new   *)
(* workflow (see AgentRun).                                                *)
(*                                                                         *)
(* A capability stands for a capability or a tool: both are checked by     *)
(* ensure_subset against the parent's policy.                              *)
(***************************************************************************)
EXTENDS Integers, FiniteSets

CONSTANTS
  Workflow,       \* identifiers of workflows
  Request,        \* threads: runs of workflows and requests to spawn
  Agent,
  Capability,
  None,
  MaxChildren,    \* subruns.max_children, max_depth, allowed_agents and
  MaxDepth,       \* allowed_capabilities of each agent
  AllowedAgents,
  AllowedCapabilities

ASSUME SubrunAssumption ==
  /\ MaxChildren \in [Agent -> Nat] /\ MaxDepth \in [Agent -> Nat]
  /\ AllowedAgents \in [Agent -> SUBSET Agent]
  /\ AllowedCapabilities \in [Agent -> SUBSET Capability]
  /\ None \notin Workflow

VARIABLES
  wfile,      \* [Workflow -> its record, or None]
  pc,         \* [Request -> where it is]
  parent,     \* [Request -> the workflow it spawns a child of, or None]
  copy,       \* [Request -> its copy of the parent's record]
  flow,       \* [Request -> the workflow it runs]
  mine,       \* [Request -> its copy of that workflow's record]
  disturbed   \* workflows that two requests worked on at once, or that one
              \* crashed on (not in the code)

vars == <<wfile, pc, parent, copy, flow, mine, disturbed>>

\* {} is the delegation of a workflow that nobody delegated.
Record ==
  [agent: Agent, capability: Capability, status: {"running", "waiting", "succeeded", "failed"},
   parent: Workflow \cup {None}, root: Workflow, depth: Nat,
   delegation: SUBSET Capability, children: SUBSET Workflow]

ASSUME NoneAssumption == None \notin Record

TypeOK ==
  /\ wfile \in [Workflow -> Record \cup {None}]
  /\ pc \in [Request -> {"idle", "create", "run", "ran", "done"}]
  /\ parent \in [Request -> Workflow \cup {None}]
  /\ copy \in [Request -> Record \cup {None}]
  /\ flow \in [Request -> Workflow \cup {None}]
  /\ mine \in [Request -> Record \cup {None}]
  /\ disturbed \subseteq Workflow

Init ==
  /\ wfile = [w \in Workflow |-> None]
  /\ pc = [q \in Request |-> "idle"]
  /\ parent = [q \in Request |-> None]
  /\ copy = [q \in Request |-> None]
  /\ flow = [q \in Request |-> None]
  /\ mine = [q \in Request |-> None]
  /\ disturbed = {}

Exists(w) == wfile[w] # None
Fresh(w) == ~ Exists(w) /\ \A q \in Request : flow[q] # w

WorksOn(q, w) == pc[q] \in {"create", "run", "ran"} /\ w \in {parent[q], flow[q]}
InUse(w) == \E q \in Request : WorksOn(q, w)

-----------------------------------------------------------------------------
(* Runs *)

NewRecord(a, c, w, root, depth, caps) ==
  [agent |-> a, capability |-> c, status |-> "running", parent |-> w,
   root |-> root, depth |-> depth, delegation |-> caps, children |-> {}]

RootRecord(w, a, c) == NewRecord(a, c, None, w, 0, {})

\* run_agent for the new workflow w: the record is created and kept as a copy.
Creates(q, w, record) ==
  /\ flow' = [flow EXCEPT ![q] = w]
  /\ mine' = [mine EXCEPT ![q] = record]
  /\ wfile' = [wfile EXCEPT ![w] = record]
  /\ pc' = [pc EXCEPT ![q] = "run"]

StartRoot(q, w, a, c) ==
  /\ pc[q] = "idle" /\ Fresh(w)
  /\ Creates(q, w, RootRecord(w, a, c))
  /\ UNCHANGED <<parent, copy, disturbed>>

\* replay_workflow, and resume_workflow of one that is not at an approval: run_agent
\* gets the request of w and nothing of its lineage or delegation.
Continue(q, w, old) ==
  /\ pc[q] = "idle" /\ Fresh(w)
  /\ Exists(old) /\ wfile[old].status # "succeeded"
  /\ Creates(q, w, RootRecord(w, wfile[old].agent, wfile[old].capability))
  /\ UNCHANGED <<parent, copy, disturbed>>

\* The run ends, or waits for its retry, and persists its copy; for a child the
\* request goes on.
EndRun(q, status) ==
  /\ pc[q] = "run"
  /\ wfile' = [wfile EXCEPT ![flow[q]] = [mine[q] EXCEPT !.status = status]]
  /\ pc' = [pc EXCEPT ![q] = IF parent[q] = None THEN "done" ELSE "ran"]
  /\ mine' = [mine EXCEPT ![q] = None]
  /\ UNCHANGED <<parent, copy, flow, disturbed>>

-----------------------------------------------------------------------------
(* Children *)

\* Mutant of CanSpawn: both limits are off by one.
CanSpawnOneMore(record) ==
  /\ record.depth <= MaxDepth[record.agent]
  /\ Cardinality(record.children) <= MaxChildren[record.agent]

\* can_spawn_child_workflow
CanSpawn(record) ==
  /\ record.depth < MaxDepth[record.agent]
  /\ Cardinality(record.children) < MaxChildren[record.agent]

\* build_child_delegation does not raise.
DelegationAllowed(record, a, c, caps) ==
  /\ a \in AllowedAgents[record.agent]
  /\ c \in caps
  /\ caps \subseteq AllowedCapabilities[record.agent]

\* Mutant of ChildRecord: the child of a child counts as a first one.
ChildRecordShallow(record, w, a, c, caps) ==
  NewRecord(a, c, w, record.root, 1, caps)

ChildRecord(record, w, a, c, caps) ==
  NewRecord(a, c, w, record.root, record.depth + 1, caps)

\* The status of the parent is not looked at.
Spawn(q, w, child, a, c, caps) ==
  /\ pc[q] = "idle" /\ Exists(w) /\ Fresh(child) /\ child # w
  /\ CanSpawn(wfile[w])
  /\ DelegationAllowed(wfile[w], a, c, caps)
  /\ parent' = [parent EXCEPT ![q] = w]
  /\ copy' = [copy EXCEPT ![q] = wfile[w]]
  /\ flow' = [flow EXCEPT ![q] = child]
  /\ mine' = [mine EXCEPT ![q] = ChildRecord(wfile[w], w, a, c, caps)]
  /\ pc' = [pc EXCEPT ![q] = "create"]
  /\ disturbed' = IF InUse(w) THEN disturbed \cup {w} ELSE disturbed
  /\ UNCHANGED wfile

CreateChild(q) ==
  /\ pc[q] = "create"
  /\ Creates(q, flow[q], mine[q])
  /\ UNCHANGED <<parent, copy, disturbed>>

\* run_agent raises before its first write, and the child's identifier is registered
\* all the same.
ChildNotCreated(q) ==
  /\ pc[q] = "create"
  /\ pc' = [pc EXCEPT ![q] = "ran"]
  /\ mine' = [mine EXCEPT ![q] = None]
  /\ UNCHANGED <<wfile, parent, copy, flow, disturbed>>

\* Mutant of RegisterChild: the parent is written without the child.
RegisterNothing(q) ==
  /\ pc[q] = "ran"
  /\ wfile' = [wfile EXCEPT ![parent[q]] = copy[q]]
  /\ pc' = [pc EXCEPT ![q] = "done"]
  /\ copy' = [copy EXCEPT ![q] = None]
  /\ UNCHANGED <<parent, flow, mine, disturbed>>

\* register_child_workflow and write_workflow, whether the child failed or not:
\* the copy still says what it said when the limits were checked.
RegisterChild(q) ==
  /\ pc[q] = "ran"
  /\ wfile' = [wfile EXCEPT ![parent[q]] = [copy[q] EXCEPT !.children = @ \cup {flow[q]}]]
  /\ pc' = [pc EXCEPT ![q] = "done"]
  /\ copy' = [copy EXCEPT ![q] = None]
  /\ UNCHANGED <<parent, flow, mine, disturbed>>

Crash(q) ==
  /\ pc[q] \in {"create", "run", "ran"}
  /\ pc' = [pc EXCEPT ![q] = "done"]
  /\ copy' = [copy EXCEPT ![q] = None]
  /\ mine' = [mine EXCEPT ![q] = None]
  /\ disturbed' = disturbed \cup ({parent[q]} \ {None})
  /\ UNCHANGED <<wfile, parent, flow>>

-----------------------------------------------------------------------------

StartNext ==
  \E q \in Request, w \in Workflow :
    \/ \E a \in Agent, c \in Capability : StartRoot(q, w, a, c)
    \/ \E old \in Workflow : Continue(q, w, old)

SpawnNext ==
  \E q \in Request, w, child \in Workflow, a \in Agent, c \in Capability, caps \in SUBSET Capability :
    Spawn(q, w, child, a, c, caps)

RunNext(q) ==
  \/ CreateChild(q) \/ ChildNotCreated(q) \/ RegisterChild(q)
  \/ \E status \in {"waiting", "succeeded", "failed"} : EndRun(q, status)

Next == StartNext \/ SpawnNext \/ \E q \in Request : RunNext(q) \/ Crash(q)

Spec == Init /\ [][Next]_vars

-----------------------------------------------------------------------------

ChildrenOf(w) == {c \in Workflow : Exists(c) /\ wfile[c].parent = w}

\* Lineage holds together over generations: a child is one level below a
\* parent that exists, has its root, and no workflow is deeper than the agent
\* of its parent allows, whatever stale copies of the parent are written.
LineageSound ==
  \A c \in Workflow : Exists(c) /\ wfile[c].parent # None =>
    LET p == wfile[c].parent
    IN /\ Exists(p)
       /\ wfile[c].root = wfile[p].root
       /\ wfile[c].depth = wfile[p].depth + 1
       /\ wfile[c].depth <= MaxDepth[wfile[p].agent]

\* Every workflow that a record lists as its child is its child, unless it never came
\* to exist, and they are no more than its agent allows.
RegisteredAreChildren ==
  \A w \in Workflow : Exists(w) =>
    /\ \A c \in wfile[w].children : Exists(c) => wfile[c].parent = w
    /\ Cardinality(wfile[w].children) <= MaxChildren[wfile[w].agent]

\* Unless requests overlapped at w or crashed, its record lists all its
\* children once nobody works on it, and so their number is bounded too.
AllRegistered ==
  \A w \in Workflow :
    Exists(w) /\ w \notin disturbed /\ ~ InUse(w) => ChildrenOf(w) \subseteq wfile[w].children

-----------------------------------------------------------------------------
(* What the documentation says and the code does not keep *)

\* "Failures in one child workflow do not silently corrupt sibling or parent
\* workflow state." (README.md:1583): registering a child that failed leaves
\* its siblings registered and the parent's outcome as it was.
FailureContained ==
  [][\A q \in Request :
       RegisterChild(q) /\ Exists(flow[q]) /\ wfile[flow[q]].status = "failed" =>
         LET p == parent[q]
         IN /\ wfile[p].children \subseteq wfile'[p].children
            /\ wfile[p].status = "succeeded" => wfile'[p].status = "succeeded"]_vars

=============================================================================
