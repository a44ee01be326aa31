---------------------------- MODULE SubrunProofs ----------------------------
(***************************************************************************)
(* What holds of parents and children however many requests spawn, run,    *)
(* write back stale copies and crash.                                      *)
(*                                                                         *)
(* What a record says of its origin (agent, parent, root, depth and        *)
(* delegation) never changes, so a copy that is stale in its status and    *)
(* its children is right about everything that a new child inherits.       *)
(***************************************************************************)
EXTENDS Subrun, FiniteSetTheorems, TLAPS

USE SubrunAssumption, NoneAssumption

-----------------------------------------------------------------------------
(* The invariants *)

Active(q) == pc[q] \in {"create", "run", "ran"}

SameOrigin(r, s) ==
  /\ r.agent = s.agent /\ r.capability = s.capability /\ r.delegation = s.delegation
  /\ r.parent = s.parent /\ r.root = s.root /\ r.depth = s.depth

\* r may be the record of a child of the workflow with the record p.
Fits(r, p) ==
  /\ r.root = p.root /\ r.depth = p.depth + 1 /\ r.depth <= MaxDepth[p.agent]

ChildrenFit ==
  \A c \in Workflow : Exists(c) /\ wfile[c].parent # None =>
    Exists(wfile[c].parent) /\ Fits(wfile[c], wfile[wfile[c].parent])

\* The identifier c has been used for a child, or given up.
Begun(c) == \E q \in Request : flow[q] = c /\ pc[q] \notin {"idle", "create"}

\* What the record of w may list.
Kin(w) == {c \in Workflow : Begun(c) /\ (Exists(c) => wfile[c].parent = w)}

ListsSound ==
  \A w \in Workflow : Exists(w) =>
    /\ IsFiniteSet(wfile[w].children)
    /\ wfile[w].children \subseteq Kin(w)
    /\ Cardinality(wfile[w].children) <= MaxChildren[wfile[w].agent]

\* A workflow has one run.
OneRun == \A q, r \in Request : flow[q] # None /\ flow[q] = flow[r] => q = r

RunSound(q) ==
  /\ pc[q] = "idle" => flow[q] = None /\ parent[q] = None
  /\ Active(q) => flow[q] # None
  /\ pc[q] = "create" => ~ Exists(flow[q]) /\ parent[q] # None
  /\ pc[q] = "run" => Exists(flow[q])
  /\ pc[q] \in {"create", "run"} =>
       mine[q] \in Record /\ mine[q].children = {} /\ mine[q].parent = parent[q]
  /\ pc[q] = "run" => SameOrigin(mine[q], wfile[flow[q]])
  /\ pc[q] = "ran" =>
       parent[q] # None /\ (Exists(flow[q]) => wfile[flow[q]].parent = parent[q])

CopySound(q) ==
  Active(q) /\ parent[q] # None =>
    /\ Exists(parent[q]) /\ parent[q] # flow[q]
    /\ copy[q] \in Record /\ SameOrigin(copy[q], wfile[parent[q]])
    /\ IsFiniteSet(copy[q].children)
    /\ copy[q].children \subseteq Kin(parent[q])
    /\ Cardinality(copy[q].children) < MaxChildren[copy[q].agent]
    /\ pc[q] = "create" => Fits(mine[q], wfile[parent[q]])

SubrunInv ==
  /\ TypeOK
  /\ ChildrenFit
  /\ ListsSound
  /\ OneRun
  /\ \A q \in Request : RunSound(q) /\ CopySound(q)

-----------------------------------------------------------------------------
(* Records *)

LEMMA RootTyped ==
  ASSUME NEW a \in Agent, NEW c \in Capability, NEW w \in Workflow
  PROVE  /\ RootRecord(w, a, c) \in Record
         /\ RootRecord(w, a, c).parent = None
         /\ RootRecord(w, a, c).children = {}
BY DEF RootRecord, NewRecord, Record

LEMMA ChildTyped ==
  ASSUME NEW p \in Record, NEW w \in Workflow, NEW a \in Agent, NEW c \in Capability,
         NEW caps \in SUBSET Capability,
         CanSpawn(p)
  PROVE  /\ ChildRecord(p, w, a, c, caps) \in Record
         /\ ChildRecord(p, w, a, c, caps).parent = w
         /\ ChildRecord(p, w, a, c, caps).children = {}
         /\ Fits(ChildRecord(p, w, a, c, caps), p)
<1>1. p.depth \in Nat /\ p.root \in Workflow /\ p.agent \in Agent
  BY DEF Record
<1>2. p.depth < MaxDepth[p.agent] /\ MaxDepth[p.agent] \in Nat
  BY <1>1 DEF CanSpawn
<1>3. ChildRecord(p, w, a, c, caps) =
        [agent |-> a, capability |-> c, status |-> "running", parent |-> w, root |-> p.root,
         depth |-> p.depth + 1, delegation |-> caps, children |-> {}]
  BY DEF ChildRecord, NewRecord
<1>4. p.depth + 1 \in Nat /\ p.depth + 1 <= MaxDepth[p.agent]
  BY <1>1, <1>2
<1> DEFINE child == [agent |-> a, capability |-> c, status |-> "running", parent |-> w,
                    root |-> p.root, depth |-> p.depth + 1, delegation |-> caps, children |-> {}]
<1>5. child \in Record /\ child.parent = w /\ child.children = {}
  <2>1. w \in Workflow \cup {None} /\ {} \in SUBSET Workflow
    OBVIOUS
  <2> QED BY <1>1, <1>4, <2>1 DEF Record
<1>6. Fits(child, p)
  BY <1>4 DEF Fits
<1> QED BY <1>3, <1>5, <1>6

LEMMA StatusTyped ==
  ASSUME NEW r \in Record, NEW status \in {"waiting", "succeeded", "failed"}
  PROVE  /\ [r EXCEPT !.status = status] \in Record
         /\ SameOrigin([r EXCEPT !.status = status], r)
         /\ [r EXCEPT !.status = status].children = r.children
BY DEF Record, SameOrigin

LEMMA ListedTyped ==
  ASSUME NEW r \in Record, NEW w \in Workflow
  PROVE  /\ [r EXCEPT !.children = @ \cup {w}] \in Record
         /\ SameOrigin([r EXCEPT !.children = @ \cup {w}], r)
         /\ [r EXCEPT !.children = @ \cup {w}].children = r.children \cup {w}
BY DEF Record, SameOrigin

LEMMA OriginFits ==
  ASSUME NEW r, NEW s, NEW p, NEW o, SameOrigin(s, r), SameOrigin(o, p), Fits(r, p)
  PROVE  Fits(s, o)
BY DEF SameOrigin, Fits

LEMMA OriginTransitive ==
  ASSUME NEW r, NEW s, NEW t, SameOrigin(r, s)
  PROVE  /\ SameOrigin(s, r)
         /\ SameOrigin(s, t) => SameOrigin(r, t)
BY DEF SameOrigin

-----------------------------------------------------------------------------
(* The two ways in which the files change *)

\* A record is rewritten, its origin kept.
LEMMA Rewritten ==
  ASSUME TypeOK, NEW w \in Workflow, NEW r \in Record,
         Exists(w), SameOrigin(r, wfile[w]),
         wfile' = [wfile EXCEPT ![w] = r]
  PROVE  /\ wfile' \in [Workflow -> Record \cup {None}]
         /\ wfile'[w] = r
         /\ \A x \in Workflow : Exists(x)' <=> Exists(x)
         /\ \A x \in Workflow : Exists(x) => SameOrigin(wfile'[x], wfile[x])
         /\ \A x \in Workflow : wfile'[x].parent = wfile[x].parent
         /\ \A x \in Workflow : ChildrenOf(x)' = ChildrenOf(x)
<1>1. wfile' \in [Workflow -> Record \cup {None}] /\ wfile'[w] = r
  BY DEF TypeOK
<1>2. \A x \in Workflow : x # w => wfile'[x] = wfile[x]
  BY DEF TypeOK
<1>3. \A x \in Workflow : Exists(x)' <=> Exists(x)
  BY <1>1, <1>2 DEF Exists
<1>4. \A x \in Workflow : Exists(x) => SameOrigin(wfile'[x], wfile[x])
  BY <1>1, <1>2 DEF SameOrigin
<1>5. \A x \in Workflow : wfile'[x].parent = wfile[x].parent
  BY <1>1, <1>2 DEF SameOrigin
<1> QED BY <1>1, <1>3, <1>4, <1>5 DEF ChildrenOf

\* A record is created.
LEMMA Created ==
  ASSUME TypeOK, NEW w \in Workflow, NEW r \in Record, ~ Exists(w),
         wfile' = [wfile EXCEPT ![w] = r]
  PROVE  /\ wfile' \in [Workflow -> Record \cup {None}]
         /\ wfile'[w] = r /\ Exists(w)'
         /\ \A x \in Workflow : x # w => wfile'[x] = wfile[x]
         /\ \A x \in Workflow : x # w => (Exists(x)' <=> Exists(x))
         /\ \A x \in Workflow : Exists(x) => wfile'[x] = wfile[x] /\ Exists(x)'
         /\ \A x \in Workflow : ChildrenOf(x) \subseteq ChildrenOf(x)'
         /\ \A x \in Workflow :
              ChildrenOf(x)' = ChildrenOf(x) \cup (IF r.parent = x THEN {w} ELSE {})
<1>1. wfile' \in [Workflow -> Record \cup {None}] /\ wfile'[w] = r
  BY DEF TypeOK
<1>2. \A x \in Workflow : x # w => wfile'[x] = wfile[x]
  BY DEF TypeOK
<1>3. Exists(w)'
  BY <1>1 DEF Exists
<1>4. \A x \in Workflow : x # w => wfile'[x] = wfile[x] /\ (Exists(x)' <=> Exists(x))
  BY <1>2 DEF Exists
<1>5. ASSUME NEW x \in Workflow
      PROVE  ChildrenOf(x)' = ChildrenOf(x) \cup (IF r.parent = x THEN {w} ELSE {})
  BY <1>1, <1>3, <1>4 DEF ChildrenOf
<1> QED BY <1>1, <1>3, <1>4, <1>5

\* What a record may list it may list ever after.
LEMMA KinGrows ==
  ASSUME \A p \in Request : pc[p] \notin {"idle", "create"} =>
           flow'[p] = flow[p] /\ pc'[p] \notin {"idle", "create"},
         \A x \in Workflow : Begun(x) /\ Exists(x)' =>
           Exists(x) /\ wfile'[x].parent = wfile[x].parent
  PROVE  \A w \in Workflow : Kin(w) \subseteq Kin(w)'
<1> SUFFICES ASSUME NEW w \in Workflow, NEW c \in Kin(w) PROVE c \in Kin(w)'
  OBVIOUS
<1>1. c \in Workflow /\ Begun(c) /\ (Exists(c) => wfile[c].parent = w)
  BY DEF Kin
<1>2. Begun(c)'
  BY <1>1 DEF Begun
<1>3. Exists(c)' => wfile'[c].parent = w
  BY <1>1
<1> QED BY <1>1, <1>2, <1>3 DEF Kin

-----------------------------------------------------------------------------
(* The invariants of the files *)

LEMMA RewrittenKeeps ==
  ASSUME TypeOK, ChildrenFit, ListsSound, NEW w \in Workflow, NEW r \in Record,
         Exists(w), SameOrigin(r, wfile[w]),
         IsFiniteSet(r.children), r.children \subseteq Kin(w),
         Cardinality(r.children) <= MaxChildren[r.agent],
         \A x \in Workflow : Kin(x) \subseteq Kin(x)',
         wfile' = [wfile EXCEPT ![w] = r]
  PROVE  ChildrenFit' /\ ListsSound'
<1>1. /\ \A x \in Workflow : Exists(x)' <=> Exists(x)
      /\ \A x \in Workflow : Exists(x) => SameOrigin(wfile'[x], wfile[x])
      /\ \A x \in Workflow : wfile'[x].parent = wfile[x].parent
      /\ \A x \in Workflow : ChildrenOf(x)' = ChildrenOf(x)
      /\ wfile'[w] = r
  BY Rewritten
<1>2. \A x \in Workflow : x # w => wfile'[x] = wfile[x]
  BY DEF TypeOK
<1>3. ChildrenFit'
  <2> SUFFICES ASSUME NEW c \in Workflow, Exists(c)', wfile'[c].parent # None
               PROVE  Exists(wfile[c].parent)' /\ Fits(wfile'[c], wfile'[wfile'[c].parent])
    BY DEF ChildrenFit
  <2>1. Exists(c) /\ wfile[c].parent # None /\ wfile'[c].parent = wfile[c].parent
    BY <1>1
  <2>2. wfile[c] \in Record
    BY <2>1 DEF TypeOK, Exists
  <2>3. wfile[c].parent \in Workflow
    BY <2>1, <2>2 DEF Record
  <2>4. Exists(wfile[c].parent) /\ Fits(wfile[c], wfile[wfile[c].parent])
    BY <2>1 DEF ChildrenFit
  <2>5. /\ SameOrigin(wfile'[c], wfile[c])
        /\ SameOrigin(wfile'[wfile[c].parent], wfile[wfile[c].parent])
        /\ Exists(wfile[c].parent)'
    BY <1>1, <2>1, <2>3, <2>4
  <2> QED BY <2>1, <2>4, <2>5, OriginFits
<1>4. ListsSound'
  <2> SUFFICES ASSUME NEW x \in Workflow, Exists(x)'
               PROVE  /\ IsFiniteSet(wfile'[x].children)
                      /\ wfile'[x].children \subseteq Kin(x)'
                      /\ Cardinality(wfile'[x].children) <= MaxChildren[wfile'[x].agent]
    BY DEF ListsSound
  <2>1. CASE x = w
    BY <1>1, <2>1
  <2>2. CASE x # w
    BY <1>1, <1>2, <2>2 DEF ListsSound
  <2> QED BY <2>1, <2>2
<1> QED BY <1>3, <1>4

LEMMA CreatedKeeps ==
  ASSUME TypeOK, ChildrenFit, ListsSound, NEW w \in Workflow, NEW r \in Record,
         ~ Exists(w), r.children = {},
         r.parent # None => Exists(r.parent) /\ Fits(r, wfile[r.parent]),
         \A x \in Workflow : Kin(x) \subseteq Kin(x)',
         wfile' = [wfile EXCEPT ![w] = r]
  PROVE  ChildrenFit' /\ ListsSound'
<1>1. /\ wfile'[w] = r
      /\ \A x \in Workflow : x # w => wfile'[x] = wfile[x] /\ (Exists(x)' <=> Exists(x))
      /\ \A x \in Workflow : Exists(x) => wfile'[x] = wfile[x] /\ Exists(x)'
      /\ \A x \in Workflow :
           ChildrenOf(x)' = ChildrenOf(x) \cup (IF r.parent = x THEN {w} ELSE {})
  BY Created
<1>2. ChildrenFit'
  <2> SUFFICES ASSUME NEW c \in Workflow, Exists(c)', wfile'[c].parent # None
               PROVE  Exists(wfile[c].parent)' /\ Fits(wfile'[c], wfile'[wfile'[c].parent])
    BY DEF ChildrenFit
  <2>1. CASE c = w
    <3>1. r.parent \in Workflow /\ r.parent # None
      BY <1>1, <2>1 DEF Record
    <3>2. Exists(r.parent) /\ Fits(r, wfile[r.parent])
      BY <3>1
    <3>3. wfile'[r.parent] = wfile[r.parent] /\ wfile[r.parent] # None
      BY <1>1, <3>1, <3>2 DEF Exists
    <3> QED BY <1>1, <2>1, <3>2, <3>3 DEF Exists
  <2>2. CASE c # w
    <3>1. Exists(c) /\ wfile'[c] = wfile[c]
      BY <1>1, <2>2
    <3>2. wfile[c].parent \in Workflow
      BY <3>1 DEF TypeOK, Exists, Record
    <3>3. Exists(wfile[c].parent) /\ Fits(wfile[c], wfile[wfile[c].parent])
      BY <3>1 DEF ChildrenFit
    <3> QED BY <1>1, <3>1, <3>2, <3>3
  <2> QED BY <2>1, <2>2
<1>3. ListsSound'
  <2> SUFFICES ASSUME NEW x \in Workflow, Exists(x)'
               PROVE  /\ IsFiniteSet(wfile'[x].children)
                      /\ wfile'[x].children \subseteq Kin(x)'
                      /\ Cardinality(wfile'[x].children) <= MaxChildren[wfile'[x].agent]
    BY DEF ListsSound
  <2>1. CASE x = w
    <3>1. IsFiniteSet({}) /\ Cardinality({}) = 0
      BY FS_EmptySet
    <3>2. MaxChildren[r.agent] \in Nat
      BY DEF Record
    <3>3. wfile'[x].children = {} /\ wfile'[x].agent = r.agent
      BY <1>1, <2>1
    <3>4. Cardinality({}) <= MaxChildren[r.agent]
      BY <3>1, <3>2
    <3>5. {} \subseteq Kin(x)'
      OBVIOUS
    <3> QED BY <3>1, <3>3, <3>4, <3>5
  <2>2. CASE x # w
    <3>1. Exists(x) /\ wfile'[x] = wfile[x] /\ Kin(x) \subseteq Kin(x)'
      BY <1>1, <2>2
    <3> QED BY <3>1 DEF ListsSound
  <2> QED BY <2>1, <2>2
<1> QED BY <1>2, <1>3

\* Copies stay right whatever happens to the files.
LEMMA CopyKept ==
  ASSUME NEW q \in Request, CopySound(q), TypeOK,
         pc'[q] \in {"create", "run", "ran"} => Active(q),
         pc'[q] = "create" => pc[q] = "create" /\ mine'[q] = mine[q],
         Active(q)' => parent'[q] = parent[q] /\ flow'[q] = flow[q] /\ copy'[q] = copy[q],
         \A x \in Workflow : Exists(x) => Exists(x)' /\ SameOrigin(wfile'[x], wfile[x]),
         \A x \in Workflow : Kin(x) \subseteq Kin(x)'
  PROVE  CopySound(q)'
<1> SUFFICES ASSUME Active(q)', parent'[q] # None
             PROVE  /\ Exists(parent[q])' /\ parent'[q] # flow'[q]
                    /\ copy'[q] \in Record /\ SameOrigin(copy'[q], wfile'[parent'[q]])
                    /\ IsFiniteSet(copy'[q].children)
                    /\ copy'[q].children \subseteq Kin(parent[q])'
                    /\ Cardinality(copy'[q].children) < MaxChildren[copy'[q].agent]
                    /\ pc'[q] = "create" => Fits(mine'[q], wfile'[parent'[q]])
  BY DEF CopySound
<1>1. /\ Active(q) /\ parent[q] # None
      /\ parent'[q] = parent[q] /\ flow'[q] = flow[q] /\ copy'[q] = copy[q]
  BY DEF Active
<1>2. parent[q] \in Workflow
  BY <1>1 DEF TypeOK
<1>3. /\ Exists(parent[q]) /\ parent[q] # flow[q]
      /\ copy[q] \in Record /\ SameOrigin(copy[q], wfile[parent[q]])
      /\ IsFiniteSet(copy[q].children)
      /\ copy[q].children \subseteq Kin(parent[q])
      /\ Cardinality(copy[q].children) < MaxChildren[copy[q].agent]
      /\ pc[q] = "create" => Fits(mine[q], wfile[parent[q]])
  BY <1>1 DEF CopySound
<1>4. Exists(parent[q])' /\ SameOrigin(wfile'[parent[q]], wfile[parent[q]])
  BY <1>2, <1>3
<1>5. SameOrigin(copy[q], wfile'[parent[q]])
  BY <1>3, <1>4 DEF SameOrigin
<1>6. pc'[q] = "create" => Fits(mine'[q], wfile'[parent[q]])
  BY <1>3, <1>4 DEF SameOrigin, Fits
<1>7. copy[q].children \subseteq Kin(parent[q])'
  BY <1>2, <1>3
<1> QED BY <1>1, <1>3, <1>4, <1>5, <1>6, <1>7

-----------------------------------------------------------------------------
(* Each action keeps the invariant *)

\* A run that nobody touched goes on as it was.
LEMMA RunKept ==
  ASSUME TypeOK, NEW q \in Request, RunSound(q),
         pc'[q] = pc[q], flow'[q] = flow[q], parent'[q] = parent[q],
         Active(q) => mine'[q] = mine[q],
         pc[q] \in {"create", "ran"} => (Exists(flow[q])' => Exists(flow[q])),
         \A x \in Workflow : Exists(x) => Exists(x)' /\ SameOrigin(wfile'[x], wfile[x])
  PROVE  RunSound(q)'
<1>1. flow[q] \in Workflow \cup {None}
  BY DEF TypeOK
<1>2. CASE pc[q] = "create"
  BY <1>2 DEF RunSound, Active
<1>3. CASE pc[q] = "run"
  <2>1. flow[q] \in Workflow /\ Exists(flow[q])
    BY <1>1, <1>3 DEF RunSound, Active
  <2>2. Exists(flow[q])' /\ SameOrigin(wfile'[flow[q]], wfile[flow[q]])
    BY <2>1
  <2>3. SameOrigin(mine[q], wfile'[flow[q]])
    BY <1>3, <2>2 DEF RunSound, SameOrigin
  <2> QED BY <1>3, <2>1, <2>2, <2>3 DEF RunSound, Active, Exists
<1>5. CASE pc[q] = "ran"
  <2>1. flow[q] \in Workflow
    BY <1>1, <1>5 DEF RunSound, Active
  <2>2. Exists(flow[q]) => wfile'[flow[q]].parent = wfile[flow[q]].parent
    BY <2>1 DEF SameOrigin
  <2>3. Exists(flow[q])' => Exists(flow[q])
    BY <1>5
  <2> QED BY <1>5, <2>1, <2>2, <2>3 DEF RunSound, Active, Exists
<1>4. CASE pc[q] \notin {"create", "run", "ran"}
  BY <1>4 DEF RunSound, Active
<1> QED BY <1>2, <1>3, <1>4, <1>5

LEMMA InitInv == Init => SubrunInv
<1> SUFFICES ASSUME Init PROVE SubrunInv
  OBVIOUS
<1>1. TypeOK
  BY DEF Init, TypeOK
<1>2. ChildrenFit /\ ListsSound
  BY DEF Init, ChildrenFit, ListsSound, Exists
<1>3. OneRun /\ \A q \in Request : RunSound(q) /\ CopySound(q)
  BY DEF Init, OneRun, RunSound, CopySound, Active
<1> QED BY <1>1, <1>2, <1>3 DEF SubrunInv

\* StartRoot and Continue are the same with different requests.
BeginsRoot(q, w, r) ==
  /\ pc[q] = "idle" /\ Fresh(w)
  /\ Creates(q, w, r)
  /\ UNCHANGED <<parent, copy, disturbed>>

LEMMA RootsBegin ==
  ASSUME TypeOK, NEW q \in Request, NEW w \in Workflow,
         \/ \E a \in Agent, c \in Capability : StartRoot(q, w, a, c)
         \/ \E old \in Workflow : Continue(q, w, old)
  PROVE  \E r \in Record : r.parent = None /\ r.children = {} /\ BeginsRoot(q, w, r)
<1>1. ASSUME NEW a \in Agent, NEW c \in Capability, StartRoot(q, w, a, c)
      PROVE  \E r \in Record : r.parent = None /\ r.children = {} /\ BeginsRoot(q, w, r)
  <2>1. BeginsRoot(q, w, RootRecord(w, a, c))
    BY <1>1 DEF StartRoot, BeginsRoot
  <2> QED BY <2>1, RootTyped
<1>2. ASSUME NEW old \in Workflow, Continue(q, w, old)
      PROVE  \E r \in Record : r.parent = None /\ r.children = {} /\ BeginsRoot(q, w, r)
  <2>1. wfile[old].agent \in Agent /\ wfile[old].capability \in Capability
    BY <1>2 DEF Continue, TypeOK, Exists, Record
  <2>2. BeginsRoot(q, w, RootRecord(w, wfile[old].agent, wfile[old].capability))
    BY <1>2 DEF Continue, BeginsRoot
  <2> QED BY <2>1, <2>2, RootTyped
<1> QED BY <1>1, <1>2

LEMMA RootStep ==
  ASSUME SubrunInv, NEW q \in Request, NEW w \in Workflow, NEW r \in Record,
         r.parent = None, r.children = {}, BeginsRoot(q, w, r)
  PROVE  SubrunInv'
<1>1. /\ TypeOK /\ ChildrenFit /\ ListsSound /\ OneRun
      /\ \A p \in Request : RunSound(p) /\ CopySound(p)
  BY DEF SubrunInv
<1>2. /\ pc[q] = "idle" /\ ~ Exists(w) /\ \A p \in Request : flow[p] # w
      /\ flow' = [flow EXCEPT ![q] = w] /\ mine' = [mine EXCEPT ![q] = r]
      /\ wfile' = [wfile EXCEPT ![w] = r] /\ pc' = [pc EXCEPT ![q] = "run"]
      /\ UNCHANGED <<parent, copy, disturbed>>
  BY DEF BeginsRoot, Fresh, Creates
<1>4. /\ wfile' \in [Workflow -> Record \cup {None}]
      /\ wfile'[w] = r /\ Exists(w)'
      /\ \A x \in Workflow : Exists(x) => wfile'[x] = wfile[x] /\ Exists(x)'
      /\ \A x \in Workflow : x # w => (Exists(x)' <=> Exists(x))
  BY <1>1, <1>2, Created
<1>5. TypeOK'
  BY <1>1, <1>2, <1>4 DEF TypeOK
<1>6. /\ pc'[q] = "run" /\ flow'[q] = w /\ mine'[q] = r
      /\ parent'[q] = None /\ parent' = parent /\ copy' = copy
      /\ \A p \in Request : p # q => pc'[p] = pc[p] /\ flow'[p] = flow[p] /\ mine'[p] = mine[p]
  BY <1>1, <1>2 DEF TypeOK, RunSound
<1>3. \A x \in Workflow : Kin(x) \subseteq Kin(x)'
  <2>1. ~ Begun(w)
    BY <1>2 DEF Begun
  <2>2. \A x \in Workflow : Begun(x) /\ Exists(x)' =>
          Exists(x) /\ wfile'[x].parent = wfile[x].parent
    BY <1>4, <2>1
  <2> QED BY <1>2, <1>6, <2>2, KinGrows
<1>10. ChildrenFit' /\ ListsSound'
  BY <1>1, <1>2, <1>3, CreatedKeeps
<1>7. OneRun'
  BY <1>1, <1>2, <1>6 DEF OneRun
<1>8. \A x \in Workflow : Exists(x) => Exists(x)' /\ SameOrigin(wfile'[x], wfile[x])
  BY <1>4 DEF SameOrigin
<1>9. ASSUME NEW p \in Request
      PROVE  RunSound(p)' /\ CopySound(p)'
  <2>1. CASE p = q
    BY <1>2, <1>4, <1>6, <2>1 DEF RunSound, CopySound, Active, SameOrigin
  <2>2. CASE p # q
    <3>1. Active(p) => (Exists(flow[p])' => Exists(flow[p]))
      BY <1>1, <1>2, <1>4 DEF RunSound, TypeOK
    <3>2. RunSound(p)'
      BY <1>1, <1>6, <1>8, <2>2, <3>1, RunKept DEF Active
    <3>3. CopySound(p)'
      BY <1>1, <1>3, <1>6, <1>8, <2>2, CopyKept DEF Active
    <3> QED BY <3>2, <3>3
  <2> QED BY <2>1, <2>2
<1> QED BY <1>5, <1>7, <1>9, <1>10 DEF SubrunInv

LEMMA SpawnStep ==
  ASSUME SubrunInv, NEW q \in Request, NEW w \in Workflow, NEW child \in Workflow,
         NEW a \in Agent, NEW c \in Capability, NEW caps \in SUBSET Capability,
         Spawn(q, w, child, a, c, caps)
  PROVE  SubrunInv'
<1> DEFINE r == ChildRecord(wfile[w], w, a, c, caps)
<1>1. /\ TypeOK /\ ChildrenFit /\ ListsSound /\ OneRun
      /\ \A p \in Request : RunSound(p) /\ CopySound(p)
  BY DEF SubrunInv
<1>2. /\ pc[q] = "idle" /\ Exists(w) /\ ~ Exists(child) /\ \A p \in Request : flow[p] # child
      /\ child # w /\ CanSpawn(wfile[w])
      /\ parent' = [parent EXCEPT ![q] = w] /\ copy' = [copy EXCEPT ![q] = wfile[w]]
      /\ flow' = [flow EXCEPT ![q] = child] /\ mine' = [mine EXCEPT ![q] = r]
      /\ pc' = [pc EXCEPT ![q] = "create"] /\ wfile' = wfile
      /\ disturbed' \subseteq disturbed \cup {w}
  BY DEF Spawn, Fresh
<1>3. wfile[w] \in Record
  BY <1>1, <1>2 DEF TypeOK, Exists
<1>4. r \in Record /\ r.parent = w /\ r.children = {} /\ Fits(r, wfile[w])
  BY <1>2, <1>3, ChildTyped
<1> HIDE DEF r
<1>5. TypeOK'
  <2>1. disturbed' \subseteq Workflow
    BY <1>1, <1>2 DEF TypeOK
  <2> QED BY <1>1, <1>2, <1>3, <1>4, <2>1 DEF TypeOK
<1>6. /\ pc'[q] = "create" /\ flow'[q] = child /\ mine'[q] = r
      /\ parent'[q] = w /\ copy'[q] = wfile[w]
      /\ \A p \in Request : p # q =>
           /\ pc'[p] = pc[p] /\ flow'[p] = flow[p] /\ mine'[p] = mine[p]
           /\ parent'[p] = parent[p] /\ copy'[p] = copy[p]
  BY <1>1, <1>2 DEF TypeOK
<1>7. /\ \A x \in Workflow : Exists(x) => Exists(x)' /\ SameOrigin(wfile'[x], wfile[x])
      /\ \A x : Exists(x)' <=> Exists(x)
      /\ \A x \in Workflow : Kin(x) \subseteq Kin(x)'
  <2>1. /\ \A x \in Workflow : Exists(x) => Exists(x)' /\ SameOrigin(wfile'[x], wfile[x])
        /\ \A x : Exists(x)' <=> Exists(x)
    BY <1>2 DEF Exists, SameOrigin
  <2>2. \A x \in Workflow : Begun(x) /\ Exists(x)' =>
          Exists(x) /\ wfile'[x].parent = wfile[x].parent
    BY <1>2 DEF Exists
  <2> QED BY <1>2, <1>6, <2>1, <2>2, KinGrows
<1>8. ChildrenFit' /\ ListsSound'
  <2>1. ChildrenFit'
    BY <1>1, <1>2 DEF ChildrenFit, Exists
  <2>2. ListsSound'
    BY <1>1, <1>2, <1>7 DEF ListsSound, Exists
  <2> QED BY <2>1, <2>2
<1>9. OneRun'
  BY <1>1, <1>2, <1>6 DEF OneRun
<1>10. ASSUME NEW p \in Request
       PROVE  RunSound(p)' /\ CopySound(p)'
  <2>1. CASE p = q
    <3>1. RunSound(p)'
      BY <1>2, <1>4, <1>6, <1>7, <2>1 DEF RunSound, Active
    <3>2. /\ IsFiniteSet(wfile[w].children) /\ wfile[w].children \subseteq Kin(w)
          /\ Cardinality(wfile[w].children) < MaxChildren[wfile[w].agent]
      BY <1>1, <1>2 DEF ListsSound, CanSpawn
    <3>3. CopySound(p)'
      BY <1>2, <1>3, <1>4, <1>6, <1>7, <2>1, <3>2 DEF CopySound, Active, SameOrigin, Exists
    <3> QED BY <3>1, <3>3
  <2>2. CASE p # q
    <3>1. RunSound(p)'
      BY <1>1, <1>6, <1>7, <2>2, RunKept DEF RunSound
    <3>2. CopySound(p)'
      BY <1>1, <1>6, <1>7, <2>2, CopyKept DEF Active
    <3> QED BY <3>1, <3>2
  <2> QED BY <2>1, <2>2
<1> QED BY <1>5, <1>8, <1>9, <1>10 DEF SubrunInv

LEMMA CreateStep ==
  ASSUME SubrunInv, NEW q \in Request, CreateChild(q)
  PROVE  SubrunInv'
<1>1. /\ TypeOK /\ ChildrenFit /\ ListsSound /\ OneRun
      /\ \A p \in Request : RunSound(p) /\ CopySound(p)
  BY DEF SubrunInv
<1>2. /\ pc[q] = "create" /\ pc' = [pc EXCEPT ![q] = "run"]
      /\ UNCHANGED <<parent, copy, disturbed>>
  BY DEF CreateChild, Creates
<1>3. PICK w \in Workflow, r \in Record : w = flow[q] /\ r = mine[q]
  BY <1>1, <1>2 DEF RunSound, Active, TypeOK
<1>4. /\ ~ Exists(w) /\ parent[q] # None /\ r.children = {} /\ r.parent = parent[q]
      /\ Exists(parent[q]) /\ Fits(r, wfile[parent[q]])
      /\ wfile' = [wfile EXCEPT ![w] = r]
  BY <1>1, <1>2, <1>3 DEF RunSound, CopySound, Active, TypeOK, CreateChild, Creates
<1>6. /\ wfile' \in [Workflow -> Record \cup {None}]
      /\ wfile'[w] = r /\ Exists(w)'
      /\ \A x \in Workflow : Exists(x) => wfile'[x] = wfile[x] /\ Exists(x)'
      /\ \A x \in Workflow : x # w => (Exists(x)' <=> Exists(x))
  BY <1>1, <1>4, Created
<1>7. flow' = flow /\ mine' = mine /\ flow[q] = w /\ mine[q] = r
  BY <1>1, <1>3 DEF TypeOK, CreateChild, Creates
<1>8. TypeOK'
  BY <1>1, <1>2, <1>6, <1>7 DEF TypeOK
<1>9. /\ pc'[q] = "run" /\ parent' = parent /\ copy' = copy
      /\ \A p \in Request : p # q => pc'[p] = pc[p]
  BY <1>1, <1>2 DEF TypeOK
<1>13. \A x \in Workflow : Kin(x) \subseteq Kin(x)'
  <2>1. ~ Begun(w)
    BY <1>1, <1>2, <1>3 DEF Begun, OneRun
  <2>2. \A x \in Workflow : Begun(x) /\ Exists(x)' =>
          Exists(x) /\ wfile'[x].parent = wfile[x].parent
    BY <1>6, <2>1
  <2> QED BY <1>2, <1>7, <1>9, <2>2, KinGrows
<1>5. ChildrenFit' /\ ListsSound'
  BY <1>1, <1>4, <1>13, CreatedKeeps
<1>10. OneRun'
  BY <1>1, <1>7 DEF OneRun
<1>11. \A x \in Workflow : Exists(x) => Exists(x)' /\ SameOrigin(wfile'[x], wfile[x])
  BY <1>6 DEF SameOrigin
<1>12. ASSUME NEW p \in Request
       PROVE  RunSound(p)' /\ CopySound(p)'
  <2>1. CopySound(p)'
    BY <1>1, <1>2, <1>7, <1>9, <1>11, <1>13, CopyKept DEF Active
  <2>2. CASE p = q
    <3>1. RunSound(q)'
      BY <1>4, <1>6, <1>7, <1>9 DEF RunSound, Active, SameOrigin, Exists
    <3> QED BY <2>1, <2>2, <3>1
  <2>3. CASE p # q
    <3>1. Active(p) => flow[p] # w /\ flow[p] \in Workflow
      BY <1>1, <1>7, <2>3 DEF RunSound, TypeOK, OneRun
    <3>2. Active(p) => (Exists(flow[p])' => Exists(flow[p]))
      BY <1>6, <1>7, <3>1
    <3>3. RunSound(p)'
      BY <1>1, <1>7, <1>9, <1>11, <2>3, <3>2, RunKept DEF Active
    <3> QED BY <2>1, <3>3
  <2> QED BY <2>2, <2>3
<1> QED BY <1>5, <1>8, <1>10, <1>12 DEF SubrunInv

LEMMA NotCreatedStep ==
  ASSUME SubrunInv, NEW q \in Request, ChildNotCreated(q)
  PROVE  SubrunInv'
<1>1. /\ TypeOK /\ ChildrenFit /\ ListsSound /\ OneRun
      /\ \A p \in Request : RunSound(p) /\ CopySound(p)
  BY DEF SubrunInv
<1>2. TypeOK'
  BY <1>1 DEF TypeOK, ChildNotCreated
<1>3. /\ wfile' = wfile /\ flow' = flow /\ parent' = parent /\ copy' = copy
      /\ pc[q] = "create" /\ pc'[q] = "ran"
      /\ \A p \in Request : p # q => pc'[p] = pc[p] /\ mine'[p] = mine[p]
  BY <1>1 DEF TypeOK, ChildNotCreated
<1>4. /\ \A x \in Workflow : Exists(x) => Exists(x)' /\ SameOrigin(wfile'[x], wfile[x])
      /\ \A x : Exists(x)' <=> Exists(x)
      /\ \A x \in Workflow : Kin(x) \subseteq Kin(x)'
  <2>1. /\ \A x \in Workflow : Exists(x) => Exists(x)' /\ SameOrigin(wfile'[x], wfile[x])
        /\ \A x : Exists(x)' <=> Exists(x)
    BY <1>3 DEF Exists, SameOrigin
  <2>2. \A x \in Workflow : Begun(x) /\ Exists(x)' =>
          Exists(x) /\ wfile'[x].parent = wfile[x].parent
    BY <1>3 DEF Exists
  <2> QED BY <1>3, <2>1, <2>2, KinGrows
<1>5. ChildrenFit' /\ OneRun'
  BY <1>1, <1>3 DEF ChildrenFit, OneRun, Exists
<1>6. ListsSound'
  BY <1>1, <1>3, <1>4 DEF ListsSound, Exists
<1>7. ASSUME NEW p \in Request
      PROVE  RunSound(p)' /\ CopySound(p)'
  <2>1. CopySound(p)'
    BY <1>1, <1>3, <1>4, CopyKept DEF Active
  <2>2. RunSound(p)'
    BY <1>1, <1>3 DEF RunSound, Active, Exists
  <2> QED BY <2>1, <2>2
<1> QED BY <1>2, <1>5, <1>6, <1>7 DEF SubrunInv

\* The run ends on its workflow, or its spawner registers it with the parent.
RunEnds(q, w, r) ==
  /\ Exists(w) /\ SameOrigin(r, wfile[w])
  /\ IsFiniteSet(r.children) /\ r.children \subseteq Kin(w)
  /\ Cardinality(r.children) <= MaxChildren[r.agent]
  /\ wfile' = [wfile EXCEPT ![w] = r]
  /\ \/ /\ pc[q] = "run" /\ copy' = copy
        /\ pc' = [pc EXCEPT ![q] = IF parent[q] = None THEN "done" ELSE "ran"]
        /\ mine' = [mine EXCEPT ![q] = None]
     \/ /\ pc[q] = "ran" /\ pc' = [pc EXCEPT ![q] = "done"]
        /\ copy' = [copy EXCEPT ![q] = None] /\ mine' = mine
  /\ UNCHANGED <<parent, flow, disturbed>>

LEMMA EndsRun ==
  ASSUME SubrunInv, NEW q \in Request, NEW status \in {"waiting", "succeeded", "failed"},
         EndRun(q, status)
  PROVE  \E w \in Workflow, r \in Record : RunEnds(q, w, r)
<1> DEFINE r == [mine[q] EXCEPT !.status = status]
<1>1. /\ TypeOK /\ RunSound(q) /\ pc[q] = "run"
  BY DEF SubrunInv, EndRun
<1>2. /\ flow[q] \in Workflow /\ Exists(flow[q])
      /\ mine[q] \in Record /\ mine[q].children = {} /\ SameOrigin(mine[q], wfile[flow[q]])
  BY <1>1 DEF RunSound, Active, TypeOK
<1>3. r \in Record /\ SameOrigin(r, mine[q]) /\ r.children = {}
  BY <1>2, StatusTyped
<1>4. SameOrigin(r, wfile[flow[q]])
  BY <1>2, <1>3 DEF SameOrigin
<1>5. IsFiniteSet({}) /\ Cardinality({}) = 0
  BY FS_EmptySet
<1>6. MaxChildren[r.agent] \in Nat
  BY <1>3 DEF Record
<1>7. Cardinality({}) <= MaxChildren[r.agent]
  BY <1>5, <1>6
<1>8. wfile' = [wfile EXCEPT ![flow[q]] = r]
  BY DEF EndRun
<1> HIDE DEF r
<1>9. RunEnds(q, flow[q], r)
  BY <1>1, <1>2, <1>3, <1>4, <1>5, <1>7, <1>8 DEF RunEnds, EndRun
<1> QED BY <1>2, <1>3, <1>9

LEMMA RegistersRun ==
  ASSUME SubrunInv, NEW q \in Request, RegisterChild(q)
  PROVE  \E w \in Workflow, r \in Record : RunEnds(q, w, r)
<1> DEFINE r == [copy[q] EXCEPT !.children = @ \cup {flow[q]}]
           w == parent[q]
<1>1. /\ TypeOK /\ RunSound(q) /\ CopySound(q) /\ pc[q] = "ran"
  BY DEF SubrunInv, RegisterChild
<1>2. /\ flow[q] \in Workflow /\ w \in Workflow
      /\ Exists(flow[q]) => wfile[flow[q]].parent = w
  BY <1>1 DEF RunSound, Active, TypeOK
<1>3. /\ Exists(w)
      /\ copy[q] \in Record /\ SameOrigin(copy[q], wfile[w])
      /\ IsFiniteSet(copy[q].children) /\ copy[q].children \subseteq Kin(w)
      /\ Cardinality(copy[q].children) < MaxChildren[copy[q].agent]
  BY <1>1, <1>2 DEF CopySound, Active
<1>4. /\ r \in Record /\ SameOrigin(r, copy[q])
      /\ r.children = copy[q].children \cup {flow[q]}
  BY <1>2, <1>3, ListedTyped
<1>5. SameOrigin(r, wfile[w]) /\ r.agent = copy[q].agent
  BY <1>3, <1>4 DEF SameOrigin
<1>6. flow[q] \in Kin(w)
  BY <1>1, <1>2 DEF Kin, Begun
<1>7. /\ IsFiniteSet(copy[q].children \cup {flow[q]})
      /\ \/ Cardinality(copy[q].children \cup {flow[q]}) = Cardinality(copy[q].children)
         \/ Cardinality(copy[q].children \cup {flow[q]}) = Cardinality(copy[q].children) + 1
      /\ Cardinality(copy[q].children) \in Nat
  BY <1>3, FS_AddElement, FS_CardinalityType
<1>8. MaxChildren[copy[q].agent] \in Nat
  BY <1>3 DEF Record
<1>9. Cardinality(r.children) <= MaxChildren[r.agent]
  BY <1>3, <1>4, <1>5, <1>7, <1>8
<1>10. wfile' = [wfile EXCEPT ![w] = r]
  BY DEF RegisterChild
<1> HIDE DEF r
<1>11. RunEnds(q, w, r)
  BY <1>1, <1>3, <1>4, <1>5, <1>6, <1>7, <1>9, <1>10 DEF RunEnds, RegisterChild
<1> QED BY <1>2, <1>4, <1>11

LEMMA EndStep ==
  ASSUME SubrunInv, NEW q \in Request, NEW w \in Workflow, NEW r \in Record, RunEnds(q, w, r)
  PROVE  SubrunInv'
<1>1. /\ TypeOK /\ ChildrenFit /\ ListsSound /\ OneRun
      /\ \A p \in Request : RunSound(p) /\ CopySound(p)
  BY DEF SubrunInv
<1>3. /\ wfile' \in [Workflow -> Record \cup {None}]
      /\ \A x \in Workflow : Exists(x)' <=> Exists(x)
      /\ \A x \in Workflow : Exists(x) => SameOrigin(wfile'[x], wfile[x])
      /\ \A x \in Workflow : wfile'[x].parent = wfile[x].parent
  BY <1>1, Rewritten DEF RunEnds
<1>4. TypeOK'
  BY <1>1, <1>3 DEF TypeOK, RunEnds
<1>5. /\ flow' = flow /\ parent' = parent
      /\ \A p \in Request : p # q =>
           pc'[p] = pc[p] /\ mine'[p] = mine[p] /\ copy'[p] = copy[p]
      /\ \/ pc'[q] = "done"
         \/ pc[q] = "run" /\ pc'[q] = "ran" /\ parent[q] # None /\ copy'[q] = copy[q]
  BY <1>1 DEF TypeOK, RunEnds
<1>8. \A x \in Workflow : Kin(x) \subseteq Kin(x)'
  <2>1. pc[q] \notin {"idle", "create"}
    BY DEF RunEnds
  <2>2. \A p \in Request : pc[p] \notin {"idle", "create"} =>
          flow'[p] = flow[p] /\ pc'[p] \notin {"idle", "create"}
    BY <1>5, <2>1
  <2> QED BY <1>3, <2>2, KinGrows
<1>2. ChildrenFit' /\ ListsSound'
  BY <1>1, <1>8, RewrittenKeeps DEF RunEnds
<1>6. OneRun'
  BY <1>1, <1>5 DEF OneRun
<1>7. ASSUME NEW p \in Request
      PROVE  RunSound(p)' /\ CopySound(p)'
  <2>1. CASE p # q
    <3>1. Active(p) => flow[p] \in Workflow
      BY <1>1 DEF RunSound, TypeOK
    <3>2. Active(p) => (Exists(flow[p])' => Exists(flow[p]))
      BY <1>3, <1>5, <3>1
    <3>3. RunSound(p)'
      BY <1>1, <1>3, <1>5, <2>1, <3>2, RunKept DEF Active
    <3>4. CopySound(p)'
      BY <1>1, <1>3, <1>5, <1>8, <2>1, CopyKept DEF Active
    <3> QED BY <3>3, <3>4
  <2>2. CASE p = q /\ pc'[q] = "done"
    BY <2>2 DEF RunSound, CopySound, Active
  <2>3. CASE p = q /\ pc[q] = "run" /\ pc'[q] = "ran"
    <3>1. /\ flow[q] \in Workflow /\ Exists(flow[q]) /\ parent[q] # None
          /\ wfile[flow[q]].parent = parent[q]
      BY <1>1, <1>5, <2>3 DEF RunSound, TypeOK, Active, SameOrigin
    <3>2. Exists(flow[q])' /\ wfile'[flow[q]].parent = parent[q]
      BY <1>3, <1>5, <3>1 DEF Exists
    <3>3. RunSound(q)'
      BY <1>5, <2>3, <3>1, <3>2 DEF RunSound, Active
    <3>4. CopySound(q)'
      BY <1>1, <1>3, <1>5, <1>8, <2>3, CopyKept DEF Active
    <3> QED BY <2>3, <3>3, <3>4
  <2> QED BY <1>5, <2>1, <2>2, <2>3
<1> QED BY <1>2, <1>4, <1>6, <1>7 DEF SubrunInv

LEMMA CrashStep ==
  ASSUME SubrunInv, NEW q \in Request, Crash(q)
  PROVE  SubrunInv'
<1>1. /\ TypeOK /\ ChildrenFit /\ ListsSound /\ OneRun
      /\ \A p \in Request : RunSound(p) /\ CopySound(p)
  BY DEF SubrunInv
<1>2. TypeOK'
  BY <1>1 DEF TypeOK, Crash
<1>3. /\ wfile' = wfile /\ flow' = flow /\ parent' = parent /\ pc[q] # "idle" /\ pc'[q] = "done"
      /\ \A p \in Request : p # q =>
           pc'[p] = pc[p] /\ mine'[p] = mine[p] /\ copy'[p] = copy[p]
  BY <1>1 DEF TypeOK, Crash
<1>6. \A x \in Workflow : Kin(x) \subseteq Kin(x)'
  <2>1. \A x \in Workflow : Begun(x) /\ Exists(x)' =>
          Exists(x) /\ wfile'[x].parent = wfile[x].parent
    BY <1>3 DEF Exists
  <2> QED BY <1>3, <2>1, KinGrows
<1>4. ChildrenFit' /\ ListsSound' /\ OneRun'
  <2>1. ChildrenFit' /\ OneRun'
    BY <1>1, <1>3 DEF ChildrenFit, OneRun, Exists
  <2>2. ListsSound'
    BY <1>1, <1>3, <1>6 DEF ListsSound, Exists
  <2> QED BY <2>1, <2>2
<1>5. ASSUME NEW p \in Request
      PROVE  RunSound(p)' /\ CopySound(p)'
  <2>1. RunSound(p)'
    BY <1>1, <1>3 DEF RunSound, Active, Exists
  <2>2. \A x \in Workflow : Exists(x) => Exists(x)' /\ SameOrigin(wfile'[x], wfile[x])
    BY <1>3 DEF Exists, SameOrigin
  <2>3. CopySound(p)'
    BY <1>1, <1>3, <1>6, <2>2, CopyKept DEF Active
  <2> QED BY <2>1, <2>3
<1> QED BY <1>2, <1>4, <1>5 DEF SubrunInv

LEMMA SubrunStep == SubrunInv /\ [Next]_vars => SubrunInv'
<1> SUFFICES ASSUME SubrunInv, [Next]_vars PROVE SubrunInv'
  OBVIOUS
<1>1. CASE StartNext
  <2>1. TypeOK
    BY DEF SubrunInv
  <2>2. PICK q \in Request, w \in Workflow :
          \/ \E a \in Agent, c \in Capability : StartRoot(q, w, a, c)
          \/ \E old \in Workflow : Continue(q, w, old)
    BY <1>1 DEF StartNext
  <2>3. PICK r \in Record : r.parent = None /\ r.children = {} /\ BeginsRoot(q, w, r)
    BY <2>1, <2>2, RootsBegin
  <2> QED BY <2>3, RootStep
<1>2. CASE SpawnNext
  BY <1>2, SpawnStep DEF SpawnNext
<1>3. ASSUME NEW q \in Request, RunNext(q)
      PROVE  SubrunInv'
  <2>1. CASE CreateChild(q)
    BY <2>1, CreateStep
  <2>2. CASE RegisterChild(q)
    BY <2>2, RegistersRun, EndStep
  <2>4. CASE ChildNotCreated(q)
    BY <2>4, NotCreatedStep
  <2>3. ASSUME NEW status \in {"waiting", "succeeded", "failed"}, EndRun(q, status)
        PROVE  SubrunInv'
    BY <2>3, EndsRun, EndStep
  <2> QED BY <1>3, <2>1, <2>2, <2>3, <2>4 DEF RunNext
<1>4. ASSUME NEW q \in Request, Crash(q)
      PROVE  SubrunInv'
  BY <1>4, CrashStep
<1>5. CASE UNCHANGED vars
  BY <1>5 DEF vars, SubrunInv, TypeOK, ChildrenFit, ListsSound, OneRun, RunSound, CopySound,
              Active, Exists, Kin, Begun
<1> QED BY <1>1, <1>2, <1>3, <1>4, <1>5 DEF Next

-----------------------------------------------------------------------------
(* Which children are registered *)

\* While one request works on w, it knows all the children of w.
Complete(w) ==
  /\ \A q, p \in Request : WorksOn(q, w) /\ WorksOn(p, w) => q = p
  /\ \A q \in Request : WorksOn(q, w) /\ flow[q] = w =>
       ChildrenOf(w) = {} /\ (Exists(w) => wfile[w].children = {})
  /\ \A q \in Request : WorksOn(q, w) /\ parent[q] = w =>
       ChildrenOf(w) \subseteq copy[q].children \cup (IF pc[q] = "create" THEN {} ELSE {flow[q]})
  /\ Exists(w) /\ ~ InUse(w) => ChildrenOf(w) \subseteq wfile[w].children

AllComplete == \A w \in Workflow \ disturbed : Complete(w)

\* Nothing is known of a workflow that does not exist yet.
LEMMA UnusedBefore ==
  ASSUME SubrunInv, NEW w \in Workflow, Fresh(w)
  PROVE  ChildrenOf(w) = {} /\ \A q \in Request : ~ WorksOn(q, w)
<1>1. TypeOK /\ ChildrenFit /\ \A q \in Request : CopySound(q)
  BY DEF SubrunInv
<1>2. ChildrenOf(w) = {}
  BY <1>1 DEF ChildrenOf, ChildrenFit, Fresh
<1>3. ASSUME NEW q \in Request, WorksOn(q, w)
      PROVE  FALSE
  BY <1>1, <1>3 DEF WorksOn, Fresh, CopySound, Active
<1> QED BY <1>2, <1>3

LEMMA CompleteKept ==
  ASSUME NEW w \in Workflow, Complete(w),
         \A q \in Request : WorksOn(q, w)' <=> WorksOn(q, w),
         \A q \in Request : WorksOn(q, w) =>
           /\ flow'[q] = flow[q] /\ parent'[q] = parent[q]
           /\ parent[q] = w => copy'[q] = copy[q] /\ (pc'[q] = "create" => pc[q] = "create"),
         ChildrenOf(w)' = ChildrenOf(w),
         Exists(w)' <=> Exists(w),
         Exists(w) => wfile'[w].children = wfile[w].children
  PROVE  Complete(w)'
<1>1. InUse(w)' <=> InUse(w)
  BY DEF InUse
<1>2. \A q, p \in Request : WorksOn(q, w)' /\ WorksOn(p, w)' => q = p
  BY DEF Complete
<1>3. \A q \in Request : WorksOn(q, w)' /\ flow'[q] = w =>
        ChildrenOf(w)' = {} /\ (Exists(w)' => wfile'[w].children = {})
  BY DEF Complete
<1>4. \A q \in Request : WorksOn(q, w)' /\ parent'[q] = w =>
        ChildrenOf(w)' \subseteq copy'[q].children \cup (IF pc'[q] = "create" THEN {} ELSE {flow'[q]})
  BY DEF Complete
<1>5. Exists(w)' /\ ~ InUse(w)' => ChildrenOf(w)' \subseteq wfile'[w].children
  BY <1>1 DEF Complete
<1> QED BY <1>2, <1>3, <1>4, <1>5 DEF Complete

\* Nobody works on w any more, and its record lists its children.
LEMMA CompleteLeft ==
  ASSUME NEW w \in Workflow, \A q \in Request : ~ WorksOn(q, w)',
         Exists(w)' => ChildrenOf(w)' \subseteq wfile'[w].children
  PROVE  Complete(w)'
BY DEF Complete

LEMMA RootComplete ==
  ASSUME SubrunInv, AllComplete, NEW q \in Request, NEW x \in Workflow, NEW r \in Record,
         r.parent = None, r.children = {}, BeginsRoot(q, x, r)
  PROVE  AllComplete'
<1>1. /\ TypeOK /\ \A p \in Request : RunSound(p) /\ CopySound(p)
  BY DEF SubrunInv
<1>2. /\ pc[q] = "idle" /\ Fresh(x) /\ ~ Exists(x)
      /\ wfile' = [wfile EXCEPT ![x] = r] /\ parent' = parent /\ copy' = copy
      /\ disturbed' = disturbed /\ parent[q] = None
      /\ pc'[q] = "run" /\ flow'[q] = x
      /\ \A p \in Request : p # q => pc'[p] = pc[p] /\ flow'[p] = flow[p]
  BY <1>1 DEF BeginsRoot, Fresh, Creates, RunSound, TypeOK
<1>3. /\ wfile'[x] = r
      /\ \A w \in Workflow : w # x => wfile'[w] = wfile[w]
      /\ \A w \in Workflow : w # x => (Exists(w)' <=> Exists(w))
      /\ \A w \in Workflow :
           ChildrenOf(w)' = ChildrenOf(w) \cup (IF r.parent = w THEN {x} ELSE {})
  <2>1. TypeOK /\ ~ Exists(x) /\ wfile' = [wfile EXCEPT ![x] = r]
    BY <1>1, <1>2
  <2> QED BY <2>1, Created
<1>4. \A w \in Workflow : ChildrenOf(w)' = ChildrenOf(w)
  BY <1>3
<1>5. ASSUME NEW w \in Workflow \ disturbed'
      PROVE  Complete(w)'
  <2>1. CASE w = x
    <3>1. ChildrenOf(x) = {} /\ \A p \in Request : ~ WorksOn(p, x)
      BY <1>2, UnusedBefore
    <3>2. \A p \in Request : WorksOn(p, x)' => p = q
      BY <1>2, <3>1 DEF WorksOn
    <3>3. InUse(x)'
      BY <1>2 DEF InUse, WorksOn
    <3>4. \A p \in Request : WorksOn(p, x)' => parent'[p] # x
      BY <1>2, <3>2
    <3>5. ChildrenOf(x)' = {} /\ wfile'[x].children = {}
      BY <1>3, <1>4, <3>1
    <3>6. Complete(x)'
      BY <3>2, <3>3, <3>4, <3>5 DEF Complete
    <3> QED BY <2>1, <3>6
  <2>2. CASE w # x
    <3>1. Complete(w)
      BY <1>2 DEF AllComplete
    <3>2. \A p \in Request : WorksOn(p, w)' <=> WorksOn(p, w)
      BY <1>2, <2>2 DEF WorksOn
    <3>3. \A p \in Request : WorksOn(p, w) => p # q
      BY <1>2 DEF WorksOn
    <3>4. /\ ChildrenOf(w)' = ChildrenOf(w) /\ (Exists(w)' <=> Exists(w))
          /\ wfile'[w] = wfile[w]
      BY <1>3, <1>4, <2>2
    <3> QED BY <1>2, <3>1, <3>2, <3>3, <3>4, CompleteKept
  <2> QED BY <2>1, <2>2
<1> QED BY <1>5 DEF AllComplete

LEMMA SpawnComplete ==
  ASSUME SubrunInv, AllComplete, NEW q \in Request, NEW x \in Workflow, NEW child \in Workflow,
         NEW a \in Agent, NEW c \in Capability, NEW caps \in SUBSET Capability,
         Spawn(q, x, child, a, c, caps)
  PROVE  AllComplete'
<1>1. /\ TypeOK /\ \A p \in Request : RunSound(p) /\ CopySound(p)
  BY DEF SubrunInv
<1>2. /\ pc[q] = "idle" /\ Fresh(child) /\ child # x /\ Exists(x)
      /\ wfile' = wfile /\ disturbed' = IF InUse(x) THEN disturbed \cup {x} ELSE disturbed
      /\ pc'[q] = "create" /\ flow'[q] = child /\ parent'[q] = x /\ copy'[q] = wfile[x]
      /\ \A p \in Request : p # q =>
           pc'[p] = pc[p] /\ flow'[p] = flow[p] /\ parent'[p] = parent[p] /\ copy'[p] = copy[p]
  BY <1>1 DEF Spawn, TypeOK
<1>3. /\ \A w \in Workflow : ChildrenOf(w)' = ChildrenOf(w)
      /\ \A w \in Workflow : Exists(w)' <=> Exists(w)
  BY <1>2 DEF ChildrenOf, Exists
<1>4. ASSUME NEW w \in Workflow \ disturbed'
      PROVE  Complete(w)'
  <2>1. CASE w = x
    <3>1. ~ InUse(x) /\ Complete(x)
      BY <1>2, <2>1 DEF AllComplete
    <3>2. \A p \in Request : WorksOn(p, x)' <=> p = q
      BY <1>2, <3>1 DEF InUse, WorksOn
    <3>3. ChildrenOf(x)' \subseteq copy'[q].children
      BY <1>2, <1>3, <3>1 DEF Complete
    <3>4. InUse(x)'
      BY <3>2 DEF InUse
    <3>5. Complete(x)'
      BY <1>2, <3>2, <3>3, <3>4 DEF Complete
    <3> QED BY <2>1, <3>5
  <2>2. CASE w = child
    <3>1. ChildrenOf(child) = {} /\ \A p \in Request : ~ WorksOn(p, child)
      BY <1>2, UnusedBefore
    <3>2. \A p \in Request : WorksOn(p, child)' => p = q
      BY <1>2, <3>1 DEF WorksOn
    <3>3. ~ Exists(child)' /\ ChildrenOf(child)' = {}
      BY <1>2, <1>3, <3>1 DEF Fresh
    <3>4. Complete(child)'
      BY <1>2, <3>2, <3>3 DEF Complete
    <3> QED BY <2>2, <3>4
  <2>3. CASE w \notin {x, child}
    <3>1. Complete(w)
      BY <1>2 DEF AllComplete
    <3>2. \A p \in Request : WorksOn(p, w)' <=> WorksOn(p, w)
      BY <1>2, <2>3 DEF WorksOn
    <3>3. \A p \in Request : WorksOn(p, w) => p # q
      BY <1>2 DEF WorksOn
    <3> QED BY <1>2, <1>3, <3>1, <3>2, <3>3, CompleteKept
  <2> QED BY <2>1, <2>2, <2>3
<1> QED BY <1>4 DEF AllComplete

LEMMA CreateComplete ==
  ASSUME SubrunInv, AllComplete, NEW q \in Request, CreateChild(q)
  PROVE  AllComplete'
<1>1. /\ TypeOK /\ RunSound(q) /\ CopySound(q) /\ pc[q] = "create"
  BY DEF SubrunInv, CreateChild
<1>2. PICK x \in Workflow, r \in Record, f \in Workflow :
        x = flow[q] /\ r = mine[q] /\ f = parent[q]
  BY <1>1 DEF RunSound, Active, TypeOK
<1>3. /\ ~ Exists(x) /\ Exists(f) /\ f # x /\ r.parent = f /\ r.children = {}
      /\ wfile' = [wfile EXCEPT ![x] = r]
  BY <1>1, <1>2 DEF RunSound, CopySound, Active, CreateChild, Creates
<1>4. /\ flow' = flow /\ parent' = parent /\ copy' = copy /\ disturbed' = disturbed
      /\ pc'[q] = "run" /\ \A p \in Request : p # q => pc'[p] = pc[p]
  BY <1>1 DEF CreateChild, Creates, TypeOK
<1>5. /\ wfile'[x] = r
      /\ \A w \in Workflow : w # x => wfile'[w] = wfile[w]
      /\ \A w \in Workflow : w # x => (Exists(w)' <=> Exists(w))
  BY <1>1, <1>3, Created
<1>9. /\ ChildrenOf(f)' = ChildrenOf(f) \cup {x}
      /\ \A w \in Workflow \ {f} : ChildrenOf(w)' = ChildrenOf(w)
  <2>1. \A w \in Workflow :
          ChildrenOf(w)' = ChildrenOf(w) \cup (IF r.parent = w THEN {x} ELSE {})
    BY <1>1, <1>3, Created
  <2>2. ASSUME NEW w \in Workflow \ {f} PROVE ChildrenOf(w)' = ChildrenOf(w)
    <3>1. ChildrenOf(w)' = ChildrenOf(w) \cup {}
      BY <1>3, <2>1
    <3> QED BY <3>1, Zenon
  <2>3. ChildrenOf(f)' = ChildrenOf(f) \cup {x}
    BY <1>3, <2>1
  <2> QED BY <2>2, <2>3
<1>6. \A p \in Request, w \in Workflow : WorksOn(p, w)' <=> WorksOn(p, w)
  BY <1>1, <1>4 DEF WorksOn
<1>7. WorksOn(q, x) /\ WorksOn(q, f)
  BY <1>1, <1>2 DEF WorksOn
<1>8. ASSUME NEW w \in Workflow \ disturbed'
      PROVE  Complete(w)'
  <2>1. Complete(w)
    BY <1>4 DEF AllComplete
  <2>2. \A p, s \in Request : WorksOn(p, w)' /\ WorksOn(s, w)' => p = s
    BY <1>6, <2>1 DEF Complete
  <2>3. CASE w = x
    <3>1. ChildrenOf(x) = {}
      BY <1>2, <1>7, <2>1, <2>3 DEF Complete
    <3>2. ChildrenOf(x)' = {} /\ wfile'[x].children = {}
      BY <1>3, <1>5, <1>9, <3>1
    <3>3. \A p \in Request : WorksOn(p, x)' => p = q
      BY <1>6, <1>7, <2>2, <2>3
    <3>4. \A p \in Request : WorksOn(p, x)' => parent'[p] # x
      BY <1>2, <1>3, <1>4, <3>3
    <3>5. InUse(x)'
      BY <1>6, <1>7 DEF InUse
    <3>6. Complete(x)'
      BY <2>2, <2>3, <3>2, <3>4, <3>5 DEF Complete
    <3> QED BY <2>3, <3>6
  <2>4. CASE w = f
    <3>1. ChildrenOf(f) \subseteq copy[q].children
      BY <1>1, <1>2, <1>7, <2>1, <2>4 DEF Complete
    <3>2. ChildrenOf(f)' \subseteq copy[q].children \cup {x}
      BY <1>3, <1>5, <1>9, <3>1
    <3>3. \A p \in Request : WorksOn(p, f)' => p = q
      BY <1>6, <1>7, <2>2, <2>4
    <3>4. \A p \in Request : WorksOn(p, f)' => flow'[p] # f
      BY <1>2, <1>3, <1>4, <3>3
    <3>5. InUse(f)'
      BY <1>6, <1>7 DEF InUse
    <3>6. \A p \in Request : WorksOn(p, f)' =>
            ChildrenOf(f)' \subseteq copy'[p].children \cup (IF pc'[p] = "create" THEN {} ELSE {flow'[p]})
      BY <1>2, <1>4, <3>2, <3>3
    <3>7. Complete(f)'
      BY <2>2, <2>4, <3>4, <3>5, <3>6 DEF Complete
    <3> QED BY <2>4, <3>7
  <2>5. CASE w \notin {x, f}
    <3>1. \A p \in Request : WorksOn(p, w) => p # q
      BY <1>2, <2>5 DEF WorksOn
    <3>2. ChildrenOf(w)' = ChildrenOf(w)
      BY <1>9, <2>5
    <3>3. (Exists(w)' <=> Exists(w)) /\ wfile'[w] = wfile[w]
      BY <1>5, <2>5
    <3> QED BY <1>4, <1>6, <2>1, <3>1, <3>2, <3>3, CompleteKept
  <2> QED BY <2>3, <2>4, <2>5
<1> QED BY <1>8 DEF AllComplete

LEMMA NotCreatedComplete ==
  ASSUME SubrunInv, AllComplete, NEW q \in Request, ChildNotCreated(q)
  PROVE  AllComplete'
<1>1. TypeOK /\ pc[q] = "create"
  BY DEF SubrunInv, ChildNotCreated
<1>2. /\ wfile' = wfile /\ flow' = flow /\ parent' = parent /\ copy' = copy
      /\ disturbed' = disturbed /\ pc'[q] = "ran"
      /\ \A p \in Request : p # q => pc'[p] = pc[p]
  BY <1>1 DEF ChildNotCreated, TypeOK
<1>3. /\ \A w \in Workflow : ChildrenOf(w)' = ChildrenOf(w)
      /\ \A w \in Workflow : Exists(w)' <=> Exists(w)
  BY <1>2 DEF ChildrenOf, Exists
<1>4. \A p \in Request, w \in Workflow : WorksOn(p, w)' <=> WorksOn(p, w)
  BY <1>1, <1>2 DEF WorksOn
<1>5. \A p \in Request : pc'[p] = "create" => pc[p] = "create"
  BY <1>1, <1>2
<1>6. ASSUME NEW w \in Workflow \ disturbed'
      PROVE  Complete(w)'
  <2>1. Complete(w)
    BY <1>2 DEF AllComplete
  <2> QED BY <1>2, <1>3, <1>4, <1>5, <2>1, CompleteKept
<1> QED BY <1>6 DEF AllComplete

LEMMA EndComplete ==
  ASSUME SubrunInv, AllComplete, NEW q \in Request,
         NEW status \in {"waiting", "succeeded", "failed"}, EndRun(q, status)
  PROVE  AllComplete'
<1>1. /\ TypeOK /\ RunSound(q) /\ CopySound(q) /\ pc[q] = "run"
  BY DEF SubrunInv, EndRun
<1>2. PICK x \in Workflow, r \in Record :
        x = flow[q] /\ mine[q] \in Record /\ r = [mine[q] EXCEPT !.status = status]
  BY <1>1, StatusTyped DEF RunSound, Active, TypeOK
<1>3. /\ Exists(x) /\ SameOrigin(r, wfile[x]) /\ r.children = {}
      /\ wfile' = [wfile EXCEPT ![x] = r]
  <2>1. SameOrigin(r, mine[q]) /\ r.children = mine[q].children
    BY <1>2, StatusTyped
  <2> QED BY <1>1, <1>2, <2>1 DEF RunSound, EndRun, SameOrigin
<1>4. /\ flow' = flow /\ parent' = parent /\ copy' = copy /\ disturbed' = disturbed
      /\ pc'[q] = IF parent[q] = None THEN "done" ELSE "ran"
      /\ \A p \in Request : p # q => pc'[p] = pc[p]
  BY <1>1 DEF EndRun, TypeOK
<1>5. /\ wfile'[x] = r
      /\ \A w \in Workflow : ChildrenOf(w)' = ChildrenOf(w)
      /\ \A w \in Workflow : Exists(w)' <=> Exists(w)
  BY <1>1, <1>3, Rewritten
<1>6. \A w \in Workflow : w # x => wfile'[w] = wfile[w]
  BY <1>1, <1>3 DEF TypeOK
<1>7. ASSUME NEW w \in Workflow \ disturbed'
      PROVE  Complete(w)'
  <2>1. Complete(w)
    BY <1>4 DEF AllComplete
  <2>2. CASE w = x
    <3>1. WorksOn(q, x) /\ ChildrenOf(x)' = {} /\ wfile'[x].children = {}
      BY <1>1, <1>2, <1>3, <1>5, <2>1, <2>2 DEF Complete, WorksOn
    <3>2. \A p \in Request : WorksOn(p, x)' => p = q
      BY <1>4, <2>1, <2>2, <3>1 DEF Complete, WorksOn
    <3>3. \A p \in Request : WorksOn(p, x)' => parent'[p] # x
      BY <1>1, <1>2, <1>4, <3>2 DEF CopySound, Active
    <3>4. Complete(x)'
      BY <3>1, <3>2, <3>3 DEF Complete
    <3> QED BY <2>2, <3>4
  <2>3. CASE w # x
    <3>1. \A p \in Request : WorksOn(p, w)' <=> WorksOn(p, w)
      BY <1>1, <1>2, <1>4, <2>3 DEF WorksOn
    <3>2. \A p \in Request : pc'[p] = "create" <=> pc[p] = "create"
      BY <1>1, <1>4
    <3> QED BY <1>4, <1>5, <1>6, <2>1, <2>3, <3>1, <3>2, CompleteKept
  <2> QED BY <2>2, <2>3
<1> QED BY <1>7 DEF AllComplete

LEMMA RegisterComplete ==
  ASSUME SubrunInv, AllComplete, NEW q \in Request, RegisterChild(q)
  PROVE  AllComplete'
<1>1. /\ TypeOK /\ RunSound(q) /\ CopySound(q) /\ pc[q] = "ran"
  BY DEF SubrunInv, RegisterChild
<1>2. PICK x \in Workflow, f \in Workflow, r \in Record :
        /\ x = flow[q] /\ f = parent[q] /\ copy[q] \in Record
        /\ r = [copy[q] EXCEPT !.children = @ \cup {flow[q]}]
  <2>1. flow[q] \in Workflow /\ parent[q] \in Workflow /\ copy[q] \in Record
    BY <1>1 DEF RunSound, CopySound, Active, TypeOK
  <2> QED BY <2>1, ListedTyped
<1>3. /\ Exists(f) /\ f # x /\ SameOrigin(r, wfile[f]) /\ r.children = copy[q].children \cup {x}
      /\ wfile' = [wfile EXCEPT ![f] = r]
  <2>1. SameOrigin(r, copy[q]) /\ r.children = copy[q].children \cup {x}
    BY <1>2, ListedTyped
  <2> QED BY <1>1, <1>2, <2>1 DEF CopySound, Active, RegisterChild, SameOrigin
<1>4. /\ flow' = flow /\ parent' = parent /\ disturbed' = disturbed /\ pc'[q] = "done"
      /\ \A p \in Request : p # q => pc'[p] = pc[p] /\ copy'[p] = copy[p]
  BY <1>1 DEF RegisterChild, TypeOK
<1>5. /\ wfile'[f] = r
      /\ \A w \in Workflow : ChildrenOf(w)' = ChildrenOf(w)
      /\ \A w \in Workflow : Exists(w)' <=> Exists(w)
  BY <1>1, <1>3, Rewritten
<1>6. \A w \in Workflow : w # f => wfile'[w] = wfile[w]
  BY <1>1, <1>3 DEF TypeOK
<1>7. WorksOn(q, x) /\ WorksOn(q, f)
  BY <1>1, <1>2 DEF WorksOn
<1>8. ASSUME NEW w \in Workflow \ disturbed'
      PROVE  Complete(w)'
  <2>1. Complete(w)
    BY <1>4 DEF AllComplete
  <2>2. CASE w \in {x, f}
    <3>1. \A p \in Request : ~ WorksOn(p, w)'
      BY <1>4, <1>7, <2>1, <2>2 DEF Complete, WorksOn
    <3>2. Exists(w)' => ChildrenOf(w)' \subseteq wfile'[w].children
      <4>1. CASE w = x
        BY <1>2, <1>3, <1>5, <1>6, <1>7, <2>1, <4>1 DEF Complete
      <4>2. CASE w = f
        <5>1. ChildrenOf(f) \subseteq copy[q].children \cup {x}
          BY <1>1, <1>2, <1>7, <2>1, <4>2 DEF Complete
        <5> QED BY <1>3, <1>5, <4>2, <5>1
      <4> QED BY <2>2, <4>1, <4>2
    <3> QED BY <3>1, <3>2, CompleteLeft
  <2>3. CASE w \notin {x, f}
    <3>1. \A p \in Request : WorksOn(p, w)' <=> WorksOn(p, w)
      BY <1>2, <1>4, <2>3 DEF WorksOn
    <3>2. \A p \in Request : WorksOn(p, w) => p # q
      BY <1>2, <2>3 DEF WorksOn
    <3> QED BY <1>4, <1>5, <1>6, <2>1, <2>3, <3>1, <3>2, CompleteKept
  <2> QED BY <2>2, <2>3
<1> QED BY <1>8 DEF AllComplete

LEMMA CrashComplete ==
  ASSUME SubrunInv, AllComplete, NEW q \in Request, Crash(q)
  PROVE  AllComplete'
<1>1. TypeOK /\ RunSound(q) /\ CopySound(q) /\ Active(q)
  BY DEF SubrunInv, Crash, Active
<1>2. /\ wfile' = wfile /\ flow' = flow /\ parent' = parent /\ pc'[q] = "done"
      /\ disturbed' = disturbed \cup ({parent[q]} \ {None})
      /\ \A p \in Request : p # q => pc'[p] = pc[p] /\ copy'[p] = copy[p]
  BY <1>1 DEF Crash, TypeOK
<1>3. /\ \A w \in Workflow : ChildrenOf(w)' = ChildrenOf(w)
      /\ \A w \in Workflow : Exists(w)' <=> Exists(w)
  BY <1>2 DEF ChildrenOf, Exists
<1>4. ASSUME NEW w \in Workflow \ disturbed'
      PROVE  Complete(w)'
  <2>1. Complete(w) /\ w # parent[q]
    BY <1>2 DEF AllComplete
  <2>2. CASE w = flow[q]
    <3>1. WorksOn(q, w)
      BY <1>1, <2>2 DEF WorksOn, Active
    <3>2. \A p \in Request : ~ WorksOn(p, w)'
      BY <1>2, <2>1, <3>1 DEF Complete, WorksOn
    <3>3. Exists(w)' => ChildrenOf(w)' \subseteq wfile'[w].children
      BY <1>2, <1>3, <2>1, <2>2, <3>1 DEF Complete
    <3> QED BY <3>2, <3>3, CompleteLeft
  <2>3. CASE w # flow[q]
    <3>1. \A p \in Request : WorksOn(p, w)' <=> WorksOn(p, w)
      BY <1>2, <2>1, <2>3 DEF WorksOn
    <3>2. \A p \in Request : WorksOn(p, w) => p # q
      BY <2>1, <2>3 DEF WorksOn
    <3> QED BY <1>2, <1>3, <2>1, <3>1, <3>2, CompleteKept
  <2> QED BY <2>2, <2>3
<1> QED BY <1>4 DEF AllComplete

LEMMA CompleteStep == SubrunInv /\ AllComplete /\ [Next]_vars => AllComplete'
<1> SUFFICES ASSUME SubrunInv, AllComplete, [Next]_vars PROVE AllComplete'
  OBVIOUS
<1>1. CASE StartNext
  <2>1. TypeOK
    BY DEF SubrunInv
  <2>2. PICK q \in Request, w \in Workflow :
          \/ \E a \in Agent, c \in Capability : StartRoot(q, w, a, c)
          \/ \E old \in Workflow : Continue(q, w, old)
    BY <1>1 DEF StartNext
  <2>3. PICK r \in Record : r.parent = None /\ r.children = {} /\ BeginsRoot(q, w, r)
    BY <2>1, <2>2, RootsBegin
  <2> QED BY <2>3, RootComplete
<1>2. CASE SpawnNext
  BY <1>2, SpawnComplete DEF SpawnNext
<1>3. ASSUME NEW q \in Request, RunNext(q)
      PROVE  AllComplete'
  BY <1>3, CreateComplete, NotCreatedComplete, RegisterComplete, EndComplete DEF RunNext
<1>4. ASSUME NEW q \in Request, Crash(q)
      PROVE  AllComplete'
  BY <1>4, CrashComplete
<1>5. CASE UNCHANGED vars
  BY <1>5 DEF vars, AllComplete, Complete, WorksOn, InUse, ChildrenOf, Exists
<1> QED BY <1>1, <1>2, <1>3, <1>4, <1>5 DEF Next

-----------------------------------------------------------------------------
(* Theorems *)

\* The invariant of start_child_workflow and of the runs around it.
THEOREM InvariantHolds == Spec => [](SubrunInv /\ AllComplete)
<1>1. Init => SubrunInv /\ AllComplete
  <2>1. Init => AllComplete
    BY DEF Init, AllComplete, Complete, WorksOn, InUse, Exists
  <2> QED BY <2>1, InitInv
<1>2. SubrunInv /\ AllComplete /\ [Next]_vars => (SubrunInv /\ AllComplete)'
  BY SubrunStep, CompleteStep
<1> QED BY <1>1, <1>2, PTL DEF Spec

\* Records of workflows and what requests hold of them have their types.
THEOREM TypeCorrect == Spec => []TypeOK
<1>1. SubrunInv => TypeOK
  BY DEF SubrunInv
<1> QED BY <1>1, InvariantHolds, PTL

\* Parent, root and depth fit together over any number of generations.
THEOREM LineageAlwaysSound == Spec => []LineageSound
<1>1. SubrunInv => LineageSound
  BY DEF SubrunInv, ChildrenFit, LineageSound, Fits
<1> QED BY <1>1, InvariantHolds, PTL

\* A record lists no child of another, and at most max_children.
THEOREM RegisteredAlwaysChildren == Spec => []RegisteredAreChildren
<1>1. SubrunInv => RegisteredAreChildren
  BY DEF SubrunInv, ListsSound, Kin, RegisteredAreChildren
<1> QED BY <1>1, InvariantHolds, PTL

\* Where spawns neither overlapped nor crashed, every child is registered.
THEOREM AlwaysAllRegistered == Spec => []AllRegistered
<1>1. AllComplete => AllRegistered
  BY DEF AllComplete, Complete, AllRegistered
<1> QED BY <1>1, InvariantHolds, PTL

=============================================================================
