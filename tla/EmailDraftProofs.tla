-------------------------- MODULE EmailDraftProofs --------------------------
(***************************************************************************)
(* While the calls about an e-mail do not overlap, each of them finds what *)
(* the earlier ones left, however many there were, in whatever order they  *)
(* came, and wherever they died.                                           *)
(***************************************************************************)
EXTENDS EmailDraft, FiniteSetTheorems, SequenceTheorems, WellFoundedInduction, TLAPS

-----------------------------------------------------------------------------
(* The invariant *)

Live(a) == a.status \in {"pending", "approved"}

\* One thread works on i.
Alone(i) ==
  \A x, y \in Thread : InFlight(x) /\ InFlight(y) /\ Flow(x) = i /\ Flow(y) = i => x = y

\* An approval that is not settled is the latest one, and one operator at most
\* is about to rewrite it.
LiveIsLatest(i) == i \notin contested =>
  /\ \A m, n \in IndexesOf(approvals, i) : Live(approvals[n]) => m <= n
  /\ \A c \in Call : pc[c] = "ask" /\ email[c] = i =>
       \A n \in IndexesOf(approvals, i) : ~ Live(approvals[n])
  /\ \A o \in Operator : deciding[o] # None /\ deciding[o].of = i =>
       \E n \in IndexesOf(approvals, i) : Live(approvals[n]) /\ approvals[n].id = deciding[o].id
  /\ \A o, p \in Operator :
       /\ deciding[o] # None /\ deciding[o].of = i
       /\ deciding[p] # None /\ deciding[p].of = i
       => o = p

OneHandoff(i) ==
  /\ \A m, n \in IndexesOf(handoffs, i) : m = n
  /\ \A c \in Call : pc[c] = "store" /\ email[c] = i => IndexesOf(handoffs, i) = {}

\* What a thread is about to write back is what the record says.
CopiesFresh(i) ==
  \A x \in Thread : pc[x] = "write" /\ Flow(x) = i => copy[x] = listed[i]

\* What was stored is listed, or on its way to be, or its writer is dead.
StoredListed(i) ==
  /\ pc[i] \in {"idle", "store"} => i \notin stored
  /\ pc[i] = "done" /\ i \in stored => i \in listed[i]
  /\ \A n \in IndexesOf(handoffs, i) :
       LET c == handoffs[n].id
       IN /\ email[c] = i
          /\ pc[c] \in {"load", "write", "crashed"} \/ (pc[c] = "done" /\ c \in listed[i])
  /\ \A c \in Call :
       email[c] = i /\ answer[c] # None => pc[answer[c]] = "crashed" \/ answer[c] \in listed[i]

\* What a call that is under way has to do with.
CallsUnderWay ==
  /\ \A c \in Call :
       /\ pc[c] = "idle" => email[c] = None
       /\ pc[c] # "idle" => email[c] \in stored
       /\ pc[c] = "store" => grant[c] # None
       /\ pc[c] # "done" => answer[c] = None
  /\ \A i \in Intake : pc[i] # "ask"

\* An approval has the name of the call that created it, which is over.
CreatedBy(a) == pc[a.id] = "done" /\ email[a.id] = a.of

Named ==
  /\ \A m, n \in 1..Len(approvals) : approvals[m].id = approvals[n].id => m = n
  /\ \A n \in 1..Len(approvals) : CreatedBy(approvals[n])
  /\ \A o \in Operator : deciding[o] # None => CreatedBy(deciding[o])

Sound(i) ==
  Alone(i) /\ LiveIsLatest(i) /\ OneHandoff(i) /\ CopiesFresh(i) /\ StoredListed(i)

EmailInv == TypeOK /\ CallsUnderWay /\ Named /\ \A i \in Intake \ overlapped : Sound(i)

-----------------------------------------------------------------------------
(* Sequences of records *)

LEMMA AppendedIndexes ==
  ASSUME NEW R, NEW s \in Seq(R), NEW r \in R, NEW i
  PROVE  /\ Append(s, r) \in Seq(R)
         /\ IndexesOf(Append(s, r), i) =
              IndexesOf(s, i) \cup (IF r.of = i THEN {Len(s) + 1} ELSE {})
         /\ \A n \in IndexesOf(s, i) : Append(s, r)[n] = s[n] /\ n \in 1..Len(s)
         /\ Append(s, r)[Len(s) + 1] = r
<1>1. /\ Append(s, r) \in Seq(R) /\ Len(Append(s, r)) = Len(s) + 1 /\ Len(s) \in Nat
      /\ \A n \in 1..Len(s) : Append(s, r)[n] = s[n]
      /\ Append(s, r)[Len(s) + 1] = r
  BY AppendProperties
<1> DEFINE t == Append(s, r)
<1> HIDE DEF t
<1>2. ASSUME NEW n PROVE n \in IndexesOf(t, i) <=>
        n \in IndexesOf(s, i) \cup (IF r.of = i THEN {Len(s) + 1} ELSE {})
  <2>1. n \in IndexesOf(t, i) <=> n \in 1..(Len(s) + 1) /\ t[n].of = i
    BY <1>1 DEF IndexesOf, t
  <2>2. n \in IndexesOf(s, i) <=> n \in 1..Len(s) /\ s[n].of = i
    BY DEF IndexesOf
  <2>3. CASE n = Len(s) + 1
    BY <1>1, <2>1, <2>2, <2>3 DEF t
  <2>4. CASE n # Len(s) + 1
    <3>1. n \in 1..(Len(s) + 1) <=> n \in 1..Len(s)
      BY <1>1, <2>4
    <3>2. n \in 1..Len(s) => t[n] = s[n]
      BY <1>1 DEF t
    <3> QED BY <2>1, <2>2, <2>4, <3>1, <3>2
  <2> QED BY <2>3, <2>4
<1>3. \A n \in IndexesOf(s, i) : n \in 1..Len(s)
  BY DEF IndexesOf
<1>4. IndexesOf(Append(s, r), i) =
        IndexesOf(s, i) \cup (IF r.of = i THEN {Len(s) + 1} ELSE {})
  BY <1>2 DEF t
<1> QED BY <1>1, <1>3, <1>4

\* A decided approval moves to the end.
LEMMA MovedToEnd ==
  ASSUME NEW R, NEW s \in Seq(R), NEW n \in 1..Len(s), NEW r \in R, NEW m \in Int
  PROVE  /\ Rewritten(s, n, r) \in Seq(R) /\ Len(Rewritten(s, n, r)) = Len(s)
         /\ 1 <= m /\ m < n => Rewritten(s, n, r)[m] = s[m]
         /\ n <= m /\ m < Len(s) => Rewritten(s, n, r)[m] = s[m + 1]
         /\ Rewritten(s, n, r)[Len(s)] = r
<1> DEFINE t == Rewritten(s, n, r)
           a == SubSeq(s, 1, n - 1)
           b == SubSeq(s, n + 1, Len(s))
           u == a \o b
           e == <<r>>
<1>0. Len(s) \in Nat /\ n \in Int /\ 1 <= n /\ n <= Len(s) /\ \A k \in 1..Len(s) : s[k] \in R
  OBVIOUS
<1>1. a \in Seq(R) /\ Len(a) = n - 1 /\ \A k \in 1..(n - 1) : a[k] = s[k]
  <2>1. \A k \in 1..(n - 1) : s[k] \in R
    BY <1>0
  <2>2. /\ a \in Seq(R) /\ Len(a) = IF 1 <= n - 1 THEN n - 1 - 1 + 1 ELSE 0
        /\ \A k \in 1..(n - 1 - 1 + 1) : a[k] = s[1 + k - 1]
    BY <1>0, <2>1, SubSeqProperties
  <2> HIDE DEF a
  <2> QED BY <1>0, <2>2
<1>2. b \in Seq(R) /\ Len(b) = Len(s) - n /\ \A k \in 1..(Len(s) - n) : b[k] = s[n + k]
  <2>1. \A k \in (n + 1)..Len(s) : s[k] \in R
    BY <1>0
  <2>2. /\ b \in Seq(R) /\ Len(b) = IF n + 1 <= Len(s) THEN Len(s) - (n + 1) + 1 ELSE 0
        /\ \A k \in 1..(Len(s) - (n + 1) + 1) : b[k] = s[n + 1 + k - 1]
    BY <1>0, <2>1, SubSeqProperties
  <2> HIDE DEF b
  <2> QED BY <1>0, <2>2
<1>3. t = u \o e
  BY DEF Rewritten
<1> HIDE DEF a, b, t
<1>4. /\ u \in Seq(R) /\ Len(u) = Len(s) - 1
      /\ \A k \in 1..(Len(s) - 1) : u[k] = IF k <= n - 1 THEN a[k] ELSE b[k - (n - 1)]
  <2>1. /\ u \in Seq(R) /\ Len(u) = Len(a) + Len(b)
        /\ \A k \in 1..(Len(a) + Len(b)) : u[k] = IF k <= Len(a) THEN a[k] ELSE b[k - Len(a)]
    <3>1. a \in Seq(R) /\ b \in Seq(R)
      BY <1>1, <1>2
    <3> QED BY <3>1, ConcatProperties, Zenon
  <2>2. Len(a) + Len(b) = Len(s) - 1
    BY <1>0, <1>1, <1>2
  <2> QED BY <1>1, <2>1, <2>2
<1> HIDE DEF u
<1>5. e \in Seq(R) /\ Len(e) = 1 /\ e[1] = r
  OBVIOUS
<1> HIDE DEF e
<1>6. /\ t \in Seq(R) /\ Len(t) = Len(s)
      /\ \A k \in 1..Len(s) : t[k] = IF k <= Len(s) - 1 THEN u[k] ELSE e[k - (Len(s) - 1)]
  <2>1. /\ t \in Seq(R) /\ Len(t) = Len(u) + Len(e)
        /\ \A k \in 1..(Len(u) + Len(e)) : t[k] = IF k <= Len(u) THEN u[k] ELSE e[k - Len(u)]
    <3>1. u \in Seq(R) /\ e \in Seq(R)
      BY <1>4, <1>5
    <3> QED BY <1>3, <3>1, ConcatProperties, Zenon
  <2>2. Len(u) + Len(e) = Len(s)
    BY <1>0, <1>4, <1>5
  <2> QED BY <1>4, <2>1, <2>2
<1>7. t[Len(s)] = r
  <2>1. t[Len(s)] = e[Len(s) - (Len(s) - 1)]
    <3>1. Len(s) \in 1..Len(s) /\ ~ (Len(s) <= Len(s) - 1)
      BY <1>0
    <3> QED BY <1>6, <3>1, Zenon
  <2>2. Len(s) - (Len(s) - 1) = 1
    BY <1>0
  <2> QED BY <1>5, <2>1, <2>2
<1>8. ASSUME NEW k \in 1..(n - 1) PROVE t[k] = s[k]
  <2>1. k \in 1..Len(s) /\ k <= Len(s) - 1 /\ k \in 1..(Len(s) - 1) /\ k <= n - 1
    BY <1>0
  <2>2. t[k] = u[k] /\ u[k] = a[k] /\ a[k] = s[k]
    BY <1>1, <1>4, <1>6, <2>1
  <2> QED BY <2>2
<1>9. ASSUME NEW k \in n..(Len(s) - 1) PROVE t[k] = s[k + 1]
  <2>1. k \in 1..Len(s) /\ k <= Len(s) - 1 /\ k \in 1..(Len(s) - 1) /\ ~ (k <= n - 1)
    BY <1>0
  <2>2. t[k] = u[k] /\ u[k] = b[k - (n - 1)]
    BY <1>4, <1>6, <2>1
  <2>3. k - (n - 1) \in 1..(Len(s) - n) /\ n + (k - (n - 1)) = k + 1
    BY <1>0
  <2>4. b[k - (n - 1)] = s[n + (k - (n - 1))]
    BY <1>2, <2>3
  <2> QED BY <2>2, <2>3, <2>4
<1> QED BY <1>0, <1>6, <1>7, <1>8, <1>9 DEF t

LEMMA RewrittenSound ==
  ASSUME NEW R, NEW s \in Seq(R), NEW n \in 1..Len(s), NEW r \in R
  PROVE  /\ Rewritten(s, n, r) \in Seq(R)
         /\ Len(Rewritten(s, n, r)) = Len(s)
         /\ Rewritten(s, n, r)[Len(s)] = r
<1>1. n \in Int
  OBVIOUS
<1> QED BY <1>1, MovedToEnd

\* Where the records of j are after one moved to the end.
LEMMA MovedIndexes ==
  ASSUME NEW R, NEW s \in Seq(R), NEW n \in 1..Len(s), NEW r \in R, r.of = s[n].of,
         NEW j, NEW k \in IndexesOf(Rewritten(s, n, r), j)
  PROVE  \/ k = Len(s) /\ Rewritten(s, n, r)[k] = r /\ r.of = j
         \/ k < n /\ k \in IndexesOf(s, j) /\ Rewritten(s, n, r)[k] = s[k]
         \/ k >= n /\ k < Len(s) /\ k + 1 \in IndexesOf(s, j) /\ Rewritten(s, n, r)[k] = s[k + 1]
<1> DEFINE t == Rewritten(s, n, r)
<1>1. t \in Seq(R) /\ Len(t) = Len(s) /\ t[Len(s)] = r
  BY RewrittenSound, SMTT(60)
<1>2. ASSUME NEW m \in Int, 1 <= m, m < n PROVE t[m] = s[m]
  BY <1>2, MovedToEnd, SMTT(60)
<1>3. ASSUME NEW m \in Int, n <= m, m < Len(s) PROVE t[m] = s[m + 1]
  BY <1>3, MovedToEnd, SMTT(60)
<1> HIDE DEF t
<1>4. k \in 1..Len(s) /\ t[k].of = j /\ Len(s) \in Nat /\ n \in Int /\ 1 <= n /\ n <= Len(s)
  <2>1. k \in IndexesOf(t, j)
    BY DEF t
  <2> QED BY <1>1, <2>1 DEF IndexesOf
<1>5. CASE k = Len(s)
  BY <1>1, <1>4, <1>5 DEF t
<1>6. CASE k < n
  <2>1. k \in Int /\ 1 <= k /\ k < n
    BY <1>4, <1>6
  <2>2. t[k] = s[k]
    BY <1>2, <2>1
  <2>3. k \in IndexesOf(s, j)
    BY <1>4, <1>6, <2>2 DEF IndexesOf
  <2> QED BY <1>6, <2>2, <2>3 DEF t
<1>7. CASE k >= n /\ k < Len(s)
  <2>1. k \in Int /\ n <= k /\ k < Len(s) /\ k + 1 \in 1..Len(s)
    BY <1>4, <1>7
  <2>2. t[k] = s[k + 1]
    BY <1>3, <2>1
  <2>3. k + 1 \in IndexesOf(s, j)
    BY <1>4, <2>1, <2>2 DEF IndexesOf
  <2> QED BY <1>7, <2>2, <2>3 DEF t
<1> QED BY <1>4, <1>5, <1>6, <1>7

\* None of the others is lost,
LEMMA MovedStay ==
  ASSUME NEW R, NEW s \in Seq(R), NEW n \in 1..Len(s), NEW r \in R,
         NEW j, NEW m \in IndexesOf(s, j), m # n
  PROVE  \E k \in IndexesOf(Rewritten(s, n, r), j) : Rewritten(s, n, r)[k] = s[m]
<1> DEFINE t == Rewritten(s, n, r)
<1>1. t \in Seq(R) /\ Len(t) = Len(s)
  BY RewrittenSound, SMTT(60)
<1>2. n \in Int /\ m \in 1..Len(s) /\ Len(s) \in Nat /\ s[m].of = j
  BY DEF IndexesOf
<1>3. CASE m < n
  <2>1. t[m] = s[m]
    BY <1>2, <1>3, MovedToEnd, SMTT(60)
  <2> HIDE DEF t
  <2> QED BY <1>1, <1>2, <2>1 DEF IndexesOf, t
<1>4. CASE m > n
  <2>1. n <= m - 1 /\ m - 1 < Len(s) /\ m - 1 \in Int /\ (m - 1) + 1 = m
    BY <1>2, <1>4
  <2>2. t[m - 1] = s[m]
    <3> DEFINE k == m - 1
    <3>1. k \in Int /\ n <= k /\ k < Len(s) /\ k + 1 = m
      BY <2>1
    <3> HIDE DEF k
    <3>2. t[k] = s[k + 1]
      BY <3>1, MovedToEnd, SMTT(60)
    <3> HIDE DEF t
    <3> QED BY <3>1, <3>2 DEF k
  <2> HIDE DEF t
  <2>3. m - 1 \in 1..Len(t)
    BY <1>1, <1>2, <1>4
  <2> QED BY <1>2, <2>2, <2>3 DEF IndexesOf, t
<1> QED BY <1>2, <1>3, <1>4

\* and no two have one name that had not before.
LEMMA MovedNames ==
  ASSUME NEW R, NEW s \in Seq(R), NEW n \in 1..Len(s), NEW r \in R, r.id = s[n].id,
         \A j, k \in 1..Len(s) : s[j].id = s[k].id => j = k
  PROVE  \A j, k \in 1..Len(s) : Rewritten(s, n, r)[j].id = Rewritten(s, n, r)[k].id => j = k
<1> DEFINE t == Rewritten(s, n, r)
           Old(k) == IF k = Len(s) THEN n ELSE IF k < n THEN k ELSE k + 1
<1>1. n \in Int /\ Len(s) \in Nat /\ n <= Len(s) /\ 1 <= n
  OBVIOUS
<1>2. ASSUME NEW k \in 1..Len(s) PROVE t[k].id = s[Old(k)].id /\ Old(k) \in 1..Len(s)
  <2>1. CASE k = Len(s)
    <3>1. t[k] = r
      BY <2>1, RewrittenSound, SMTT(60)
    <3> QED BY <2>1, <3>1
  <2>2. CASE k # Len(s) /\ k < n
    <3>1. t[k] = s[k]
      BY <1>1, <1>2, <2>2, MovedToEnd, SMTT(60)
    <3> QED BY <1>1, <2>2, <3>1
  <2>3. CASE k # Len(s) /\ k >= n
    <3>1. t[k] = s[k + 1]
      BY <1>1, <1>2, <2>3, MovedToEnd, SMTT(60)
    <3> HIDE DEF t
    <3> QED BY <1>1, <1>2, <2>3, <3>1
  <2> HIDE DEF t, Old
  <2> QED BY <1>1, <1>2, <2>1, <2>2, <2>3
<1>3. ASSUME NEW j \in 1..Len(s), NEW k \in 1..Len(s), Old(j) = Old(k) PROVE j = k
  <2>1. \A x \in 1..Len(s) : x # Len(s) => Old(x) # n
    BY <1>1
  <2>2. \A x, y \in 1..Len(s) : x # Len(s) /\ y # Len(s) /\ Old(x) = Old(y) => x = y
    BY <1>1
  <2>3. Old(Len(s)) = n
    OBVIOUS
  <2> HIDE DEF Old
  <2> QED BY <1>3, <2>1, <2>2, <2>3
<1> HIDE DEF t, Old
<1>4. ASSUME NEW j \in 1..Len(s), NEW k \in 1..Len(s), t[j].id = t[k].id PROVE j = k
  BY <1>2, <1>3, <1>4
<1> QED BY <1>4 DEF t

\* A look-up finds a record unless there is none.
LEMMA FoundOrNone ==
  ASSUME NEW R, NEW s \in Seq(R), NEW i
  PROVE  \/ IndexesOf(s, i) = {} /\ Latest(s, i) = None
         \/ \E n \in IndexesOf(s, i) : Latest(s, i) = s[n] /\ \A m \in IndexesOf(s, i) : m <= n
<1> DEFINE ns == IndexesOf(s, i)
           T == {Len(s) - n : n \in ns}
<1>1. Len(s) \in Nat /\ \A n \in ns : n \in 1..Len(s)
  BY DEF IndexesOf
<1>2. CASE ns = {}
  BY <1>2 DEF Latest
<1>3. CASE ns # {}
  <2>1. T \subseteq Nat /\ T # {}
    BY <1>1, <1>3
  <2>2. PICK x \in T : \A y \in T : ~ (<<y, x>> \in OpToRel(<, Nat))
    <3> HIDE DEF T
    <3> QED BY <2>1, WFMin, NatLessThanWellFounded
  <2>3. \A y \in T : ~ (y < x)
    BY <2>1, <2>2 DEF OpToRel
  <2>4. PICK n \in ns : x = Len(s) - n
    OBVIOUS
  <2>5. \A m \in ns : m <= n
    <3>1. ASSUME NEW m \in ns PROVE m <= n
      <4>1. ~ (Len(s) - m < x)
        BY <2>3
      <4> QED BY <1>1, <2>4, <3>1, <4>1
    <3> QED BY <3>1
  <2>6. \A k \in ns : (\A m \in ns : m <= k) => k = n
    BY <1>1, <2>5
  <2>7. (CHOOSE k \in ns : \A m \in ns : m <= k) = n
    BY <2>5, <2>6
  <2>8. Latest(s, i) = s[n]
    BY <1>3, <2>7 DEF Latest
  <2> QED BY <2>5, <2>8
<1> QED BY <1>2, <1>3

-----------------------------------------------------------------------------
(* What a step leaves alone *)

USE EmailAssumption, NoneAssumption

LEMMA Threads ==
  ASSUME TypeOK, CallsUnderWay
  PROVE  /\ \A i \in Intake : i \in Thread /\ i \notin Call /\ Flow(i) = i
         /\ \A c \in Call : c \in Thread /\ c \notin Intake /\ Flow(c) = email[c]
         /\ \A x \in Thread : pc[x] # "idle" => Flow(x) \in Intake
         /\ \A x \in Thread : x \in Intake \/ x \in Call
         /\ None \notin Intake /\ None \notin Call /\ None \notin Thread
BY DEF Thread, Flow, TypeOK, CallsUnderWay

LEMMA Recorded ==
  ASSUME TypeOK
  PROVE  /\ \A i, n : n \in IndexesOf(handoffs, i) =>
              handoffs[n] \in Handoff /\ handoffs[n].id \in Call /\ handoffs[n].of = i
         /\ \A i, n : n \in IndexesOf(approvals, i) =>
              approvals[n] \in Approval /\ approvals[n].id \in Call /\ approvals[n].of = i
<1>1. \A n \in 1..Len(handoffs) : handoffs[n] \in Handoff
  BY DEF TypeOK
<1>2. \A n \in 1..Len(approvals) : approvals[n] \in Approval
  BY DEF TypeOK
<1>3. \A h \in Handoff : h.id \in Call
  BY DEF Handoff
<1>4. \A a \in Approval : a.id \in Call
  BY DEF Approval
<1> QED BY <1>1, <1>2, <1>3, <1>4 DEF IndexesOf

LEMMA AloneKept ==
  ASSUME NEW i, Alone(i),
         \A x \in Thread : InFlight(x)' /\ Flow(x)' = i => InFlight(x) /\ Flow(x) = i
  PROVE  Alone(i)'
BY DEF Alone

LEMMA LiveKept ==
  ASSUME NEW i, LiveIsLatest(i), approvals' = approvals, UNCHANGED decisions,
         \A c \in Call : pc'[c] = "ask" /\ email'[c] = i => pc[c] = "ask" /\ email[c] = i
  PROVE  LiveIsLatest(i)'
BY DEF LiveIsLatest, IndexesOf, Live, decisions

LEMMA NamedKept ==
  ASSUME TypeOK, Named, approvals' = approvals, UNCHANGED decisions,
         \A c \in Call : pc[c] = "done" => pc'[c] = "done" /\ email'[c] = email[c]
  PROVE  Named'
<1>0. \A a \in Approval : a.id \in Call
  BY DEF Approval
<1>1. \A n \in 1..Len(approvals) : approvals[n].id \in Call
  BY <1>0 DEF TypeOK
<1>2. \A o \in Operator : deciding[o] # None => deciding[o].id \in Call
  BY <1>0 DEF TypeOK
<1> QED BY <1>1, <1>2 DEF Named, CreatedBy, decisions

LEMMA HandoffKept ==
  ASSUME NEW i, OneHandoff(i), handoffs' = handoffs,
         \A c \in Call : pc'[c] = "store" /\ email'[c] = i => pc[c] = "store" /\ email[c] = i
  PROVE  OneHandoff(i)'
BY DEF OneHandoff, IndexesOf

LEMMA CopiesKept ==
  ASSUME NEW i, CopiesFresh(i), copy' = copy, listed' = listed,
         \A x \in Thread : pc'[x] = "write" /\ Flow(x)' = i => pc[x] = "write" /\ Flow(x) = i
  PROVE  CopiesFresh(i)'
BY DEF CopiesFresh

-----------------------------------------------------------------------------
(* Intakes *)

LEMMA StepEndWorkflow ==
  ASSUME EmailInv, NEW w \in Intake, EndWorkflow(w)
  PROVE  EmailInv'
<1> USE DEF EmailInv
<1>1. /\ pc[w] = "idle" /\ UNCHANGED <<stored, approvals, handoffs, listed, email, grant, copy, answer, overlapped, decisions>>
      /\ \A c \in Call : pc'[c] = pc[c]
      /\ pc' = [pc EXCEPT ![w] = "store"] \/ pc' = [pc EXCEPT ![w] = "done"]
      /\ \A x \in Thread : x # w => pc'[x] = pc[x]
      /\ pc'[w] \in {"store", "done"}
      /\ \A x \in Thread : Flow(x)' = Flow(x)
  BY Threads DEF EndWorkflow, Goto, TypeOK, Flow
<1>2. TypeOK'
  BY <1>1, Threads DEF TypeOK, decisions
<1>3. CallsUnderWay'
  BY <1>1, Threads DEF CallsUnderWay
<1>4. ASSUME NEW i \in Intake, i \notin overlapped PROVE Sound(i)'
  <2>1. Sound(i)
    BY <1>4
  <2>2. Alone(i)'
    <3>1. CASE i # w
      BY <1>1, <2>1, <3>1, AloneKept, Threads DEF Sound, InFlight
    <3>2. CASE i = w
      <4>1. w \notin stored
        BY <1>1, <2>1, <3>2 DEF Sound, StoredListed
      <4>2. ASSUME NEW x \in Thread, InFlight(x)', Flow(x)' = i PROVE x = w
        BY <1>1, <3>2, <4>1, <4>2, Threads DEF CallsUnderWay, InFlight
      <4> QED BY <4>2 DEF Alone
    <3> QED BY <3>1, <3>2
  <2>3. LiveIsLatest(i)'
    BY <1>1, <2>1, LiveKept DEF Sound
  <2>4. OneHandoff(i)'
    BY <1>1, <2>1, HandoffKept DEF Sound
  <2>5. CopiesFresh(i)'
    <3>1. \A x \in Thread : pc'[x] = "write" => pc[x] = "write"
      BY <1>1
    <3> QED BY <1>1, <2>1, <3>1, CopiesKept DEF Sound
  <2>6. StoredListed(i)'
    <3>1. /\ pc'[i] \in {"idle", "store"} => i \notin stored
          /\ pc'[i] = "done" /\ i \in stored => i \in listed[i]
      <4>1. (pc[i] \in {"idle", "store"} => i \notin stored) /\ (pc[i] = "done" /\ i \in stored => i \in listed[i])
        BY <2>1 DEF Sound, StoredListed
      <4>2. i \in Thread /\ (i = w => i \notin stored)
        BY <1>1, <4>1, Threads
      <4> QED BY <1>1, <4>1, <4>2
    <3>2. \A n \in IndexesOf(handoffs, i) : pc'[handoffs[n].id] = pc[handoffs[n].id]
      BY <1>1, Recorded
    <3>3. \A c \in Call : answer[c] # None => pc'[answer[c]] = pc[answer[c]]
      BY <1>1 DEF TypeOK
    <3> QED BY <1>1, <2>1, <3>1, <3>2, <3>3 DEF Sound, StoredListed, IndexesOf
  <2> QED BY <2>2, <2>3, <2>4, <2>5, <2>6 DEF Sound
<1>5. Named'
  BY <1>1, NamedKept, Threads DEF TypeOK, InFlight, BeginsAbout
<1> QED BY <1>5, <1>1, <1>2, <1>3, <1>4

LEMMA StepStoreTriage ==
  ASSUME EmailInv, NEW w \in Intake, StoreTriage(w)
  PROVE  EmailInv'
<1> USE DEF EmailInv
<1>1. /\ pc[w] = "store" /\ UNCHANGED <<approvals, handoffs, listed, email, grant, copy, answer, overlapped, decisions>>
      /\ stored' = stored \cup {w}
      /\ \A c \in Call : pc'[c] = pc[c]
      /\ pc' = [pc EXCEPT ![w] = "load"]
      /\ \A x \in Thread : x # w => pc'[x] = pc[x]
      /\ pc'[w] = "load"
      /\ \A x \in Thread : Flow(x)' = Flow(x)
  BY Threads DEF StoreTriage, Goto, TypeOK, Flow
<1>2. TypeOK'
  BY <1>1, Threads DEF TypeOK, decisions
<1>3. CallsUnderWay'
  BY <1>1, Threads DEF CallsUnderWay
<1>4. ASSUME NEW i \in Intake, i \notin overlapped PROVE Sound(i)'
  <2>1. Sound(i)
    BY <1>4
  <2>2. Alone(i)'
    BY <1>1, <2>1, AloneKept, Threads DEF Sound, InFlight
  <2>3. LiveIsLatest(i)'
    BY <1>1, <2>1, LiveKept DEF Sound
  <2>4. OneHandoff(i)'
    BY <1>1, <2>1, HandoffKept DEF Sound
  <2>5. CopiesFresh(i)'
    <3>1. \A x \in Thread : pc'[x] = "write" => pc[x] = "write"
      BY <1>1
    <3> QED BY <1>1, <2>1, <3>1, CopiesKept DEF Sound
  <2>6. StoredListed(i)'
    BY <1>1, <2>1, Threads DEF Sound, StoredListed, IndexesOf, TypeOK, Handoff
  <2> QED BY <2>2, <2>3, <2>4, <2>5, <2>6 DEF Sound
<1>5. Named'
  BY <1>1, NamedKept, Threads DEF TypeOK, InFlight, BeginsAbout
<1> QED BY <1>5, <1>1, <1>2, <1>3, <1>4

-----------------------------------------------------------------------------
(* The list of the workflow *)

LEMMA StepLoadWorkflow ==
  ASSUME EmailInv, NEW w \in Thread, LoadWorkflow(w)
  PROVE  EmailInv'
<1> USE DEF EmailInv
<1>1. /\ pc[w] = "load" /\ UNCHANGED <<stored, approvals, handoffs, listed, email, grant, answer, overlapped, decisions>>
      /\ pc' = [pc EXCEPT ![w] = "write"]
      /\ copy' = [copy EXCEPT ![w] = listed[Flow(w)]]
      /\ Flow(w) \in Intake
      /\ \A x \in Thread : x # w => pc'[x] = pc[x] /\ copy'[x] = copy[x]
      /\ pc'[w] = "write" /\ copy'[w] = listed[Flow(w)]
      /\ \A x \in Thread : Flow(x)' = Flow(x)
  BY Threads DEF LoadWorkflow, Goto, TypeOK, Flow
<1>2. TypeOK'
  BY <1>1 DEF TypeOK, decisions
<1>3. CallsUnderWay'
  BY <1>1, Threads DEF CallsUnderWay
<1>4. ASSUME NEW i \in Intake, i \notin overlapped PROVE Sound(i)'
  <2>1. Sound(i)
    BY <1>4
  <2>2. Alone(i)'
    BY <1>1, <2>1, AloneKept DEF Sound, InFlight
  <2>3. LiveIsLatest(i)'
    BY <1>1, <2>1, LiveKept, Threads DEF Sound
  <2>4. OneHandoff(i)'
    BY <1>1, <2>1, HandoffKept, Threads DEF Sound
  <2>5. CopiesFresh(i)'
    BY <1>1, <2>1 DEF Sound, CopiesFresh
  <2>6. StoredListed(i)'
    BY <1>1, <2>1, Threads DEF Sound, StoredListed, IndexesOf, TypeOK, Handoff
  <2> QED BY <2>2, <2>3, <2>4, <2>5, <2>6 DEF Sound
<1>5. Named'
  BY <1>1, NamedKept, Threads DEF TypeOK, InFlight, BeginsAbout
<1> QED BY <1>5, <1>1, <1>2, <1>3, <1>4

LEMMA StepWriteWorkflow ==
  ASSUME EmailInv, NEW w \in Thread, WriteWorkflow(w)
  PROVE  EmailInv'
<1> USE DEF EmailInv
<1>1. /\ pc[w] = "write" /\ UNCHANGED <<stored, approvals, handoffs, email, grant, copy, overlapped, decisions>>
      /\ pc' = [pc EXCEPT ![w] = "done"]
      /\ listed' = [listed EXCEPT ![Flow(w)] = copy[w] \cup {w}]
      /\ Flow(w) \in Intake
      /\ \A x \in Thread : x # w => pc'[x] = pc[x]
      /\ pc'[w] = "done"
      /\ \A x \in Thread : Flow(x)' = Flow(x)
      /\ \A i \in Intake : i # Flow(w) => listed'[i] = listed[i]
      /\ listed'[Flow(w)] = copy[w] \cup {w}
  BY Threads DEF WriteWorkflow, Registered, Goto, TypeOK, Flow
<1>a. /\ answer' \in [Call -> Call \cup {None}]
      /\ \A c \in Call : c # w => answer'[c] = answer[c]
      /\ w \in Call => answer'[w] = w
  BY Threads DEF WriteWorkflow, TypeOK
<1>2. TypeOK'
  BY <1>1, <1>a DEF TypeOK, decisions
<1>3. CallsUnderWay'
  BY <1>1, <1>a, Threads DEF CallsUnderWay
<1>4. ASSUME NEW i \in Intake, i \notin overlapped PROVE Sound(i)'
  <2>1. Sound(i)
    BY <1>4
  <2>2. Alone(i)'
    BY <1>1, <2>1, AloneKept DEF Sound, InFlight
  <2>3. LiveIsLatest(i)'
    BY <1>1, <2>1, LiveKept, Threads DEF Sound
  <2>4. OneHandoff(i)'
    BY <1>1, <2>1, HandoffKept, Threads DEF Sound
  <2>5. CopiesFresh(i)'
    BY <1>1, <2>1 DEF Sound, CopiesFresh, Alone, InFlight
  <2>6. listed[i] \subseteq listed'[i] /\ (Flow(w) = i => w \in listed'[i])
    BY <1>1, <2>1 DEF Sound, CopiesFresh
  <2>7. StoredListed(i)'
    <3>1. pc'[i] \in {"idle", "store"} => i \notin stored
      BY <1>1, <2>1, Threads DEF Sound, StoredListed
    <3>2. pc'[i] = "done" /\ i \in stored => i \in listed'[i]
      BY <1>1, <2>1, <2>6, Threads DEF Sound, StoredListed
    <3>3. ASSUME NEW n \in IndexesOf(handoffs, i), NEW c, c = handoffs[n].id
          PROVE  email[c] = i /\ (pc'[c] \in {"load", "write", "crashed"} \/ (pc'[c] = "done" /\ c \in listed'[i]))
      <4>1. c \in Call
        BY <3>3, Recorded
      <4>2. email[c] = i /\ (pc[c] \in {"load", "write", "crashed"} \/ (pc[c] = "done" /\ c \in listed[i]))
        BY <2>1, <3>3 DEF Sound, StoredListed
      <4> QED BY <1>1, <2>6, <4>1, <4>2, Threads
    <3>4. ASSUME NEW c \in Call, email[c] = i, answer'[c] # None
          PROVE  pc'[answer'[c]] = "crashed" \/ answer'[c] \in listed'[i]
      <4>1. CASE c = w
        BY <1>1, <1>a, <2>6, <3>4, <4>1, Threads
      <4>2. CASE c # w
        <5>1. answer'[c] = answer[c] /\ answer[c] \in Call
          BY <1>a, <3>4, <4>2 DEF TypeOK
        <5>2. pc[answer[c]] = "crashed" \/ answer[c] \in listed[i]
          BY <2>1, <3>4, <5>1 DEF Sound, StoredListed
        <5> QED BY <1>1, <2>6, <5>1, <5>2, Threads
      <4> QED BY <4>1, <4>2
    <3>5. handoffs' = handoffs /\ stored' = stored /\ email' = email
      BY <1>1
    <3>6. \A n \in IndexesOf(handoffs, i) :
            LET c == handoffs[n].id
            IN email[c] = i /\ (pc'[c] \in {"load", "write", "crashed"} \/ (pc'[c] = "done" /\ c \in listed'[i]))
      BY <3>3
    <3> QED BY <3>1, <3>2, <3>4, <3>5, <3>6 DEF StoredListed, IndexesOf
  <2> QED BY <2>2, <2>3, <2>4, <2>5, <2>7 DEF Sound
<1>5. Named'
  BY <1>1, NamedKept, Threads DEF TypeOK, InFlight, BeginsAbout
<1> QED BY <1>5, <1>1, <1>2, <1>3, <1>4

LEMMA StepCrash ==
  ASSUME EmailInv, NEW w \in Thread, Crash(w)
  PROVE  EmailInv'
<1> USE DEF EmailInv
<1>1. /\ InFlight(w) /\ UNCHANGED <<stored, approvals, handoffs, listed, email, grant, copy, answer, overlapped, decisions>>
      /\ pc' = [pc EXCEPT ![w] = "crashed"]
      /\ \A x \in Thread : x # w => pc'[x] = pc[x]
      /\ pc'[w] = "crashed"
      /\ \A x \in Thread : Flow(x)' = Flow(x)
  BY DEF Crash, Goto, TypeOK, Flow
<1>2. TypeOK'
  BY <1>1 DEF TypeOK, decisions
<1>3. CallsUnderWay'
  BY <1>1, Threads DEF CallsUnderWay, InFlight
<1>4. ASSUME NEW i \in Intake, i \notin overlapped PROVE Sound(i)'
  <2>1. Sound(i)
    BY <1>4
  <2>2. Alone(i)'
    BY <1>1, <2>1, AloneKept DEF Sound, InFlight
  <2>3. LiveIsLatest(i)'
    BY <1>1, <2>1, LiveKept, Threads DEF Sound
  <2>4. OneHandoff(i)'
    BY <1>1, <2>1, HandoffKept, Threads DEF Sound
  <2>5. CopiesFresh(i)'
    BY <1>1, <2>1 DEF Sound, CopiesFresh
  <2>6. StoredListed(i)'
    BY <1>1, <2>1, Threads DEF Sound, StoredListed, IndexesOf, TypeOK, Handoff, InFlight
  <2> QED BY <2>2, <2>3, <2>4, <2>5, <2>6 DEF Sound
<1>5. Named'
  BY <1>1, NamedKept, Threads DEF TypeOK, InFlight, BeginsAbout
<1> QED BY <1>5, <1>1, <1>2, <1>3, <1>4

-----------------------------------------------------------------------------
(* Requests of operators *)

\* Before the first call on i, none is under way; after it began, only it is.
LEMMA BeginsAlone ==
  ASSUME TypeOK, CallsUnderWay, NEW c \in Call, NEW e \in Intake, BeginsAbout(c, e),
         \A x \in Thread : x # c => pc'[x] = pc[x],
         NEW i \in Intake, i \notin overlapped', Alone(i)
  PROVE  /\ i \notin overlapped
         /\ email'[c] = e /\ \A d \in Call : d # c => email'[d] = email[d]
         /\ \A x \in Thread : x # c => (InFlight(x)' <=> InFlight(x)) /\ Flow(x)' = Flow(x)
         /\ Flow(c)' = e
         /\ i = e => \A x \in Thread : InFlight(x) => Flow(x) # i
         /\ Alone(i)'
<1>1. i \notin overlapped /\ (i = e => \A x \in Thread : InFlight(x) => Flow(x) # i)
  BY DEF BeginsAbout
<1>2. email'[c] = e /\ \A d \in Call : d # c => email'[d] = email[d]
  BY DEF BeginsAbout, TypeOK
<1>3. \A x \in Thread : x # c => (InFlight(x)' <=> InFlight(x)) /\ Flow(x)' = Flow(x)
  BY <1>2, Threads DEF InFlight, Flow
<1>4. Flow(c)' = e
  BY <1>2, Threads DEF Flow
<1>5. Alone(i)'
  BY <1>1, <1>3, <1>4, Threads DEF Alone
<1> QED BY <1>1, <1>2, <1>3, <1>4, <1>5

\* What a call that begins does not disturb.
LEMMA BeginsQuietly ==
  ASSUME EmailInv, NEW c \in Call, NEW e \in Intake, BeginsAbout(c, e),
         NEW l \in {"ask", "store", "done"}, pc' = [pc EXCEPT ![c] = l],
         NEW i \in Intake, i \notin overlapped'
  PROVE  /\ i \notin overlapped /\ Sound(i) /\ Alone(i)' /\ CopiesFresh(i)'
         /\ email'[c] = e /\ \A d \in Call : d # c => email'[d] = email[d] /\ pc'[d] = pc[d]
         /\ pc'[c] = l
         /\ i = e => \A x \in Thread : InFlight(x) => Flow(x) # i
         /\ \A n \in IndexesOf(handoffs, i) :
              LET d == handoffs[n].id
              IN /\ email'[d] = i
                 /\ pc'[d] \in {"load", "write", "crashed"} \/ (pc'[d] = "done" /\ d \in listed[i])
         /\ pc'[i] \in {"idle", "store"} => i \notin stored
         /\ pc'[i] = "done" /\ i \in stored => i \in listed[i]
<1> USE DEF EmailInv
<1>1. /\ pc[c] = "idle" /\ i \notin overlapped /\ Sound(i)
      /\ UNCHANGED <<stored, approvals, handoffs, listed, copy, decisions>>
  BY DEF BeginsAbout
<1>2. /\ pc'[c] = l /\ \A x \in Thread : x # c => pc'[x] = pc[x]
  BY Threads DEF TypeOK
<1>3. /\ email'[c] = e /\ \A d \in Call : d # c => email'[d] = email[d]
      /\ \A x \in Thread : x # c => (InFlight(x)' <=> InFlight(x)) /\ Flow(x)' = Flow(x)
      /\ i = e => \A x \in Thread : InFlight(x) => Flow(x) # i
      /\ Alone(i)'
  BY <1>1, <1>2, BeginsAlone DEF Sound
<1>4. CopiesFresh(i)'
  <2>1. \A x \in Thread : pc'[x] = "write" /\ Flow(x)' = i => pc[x] = "write" /\ Flow(x) = i
    BY <1>2, <1>3
  <2> QED BY <1>1, <2>1, CopiesKept DEF Sound
<1>5. ASSUME NEW n \in IndexesOf(handoffs, i), NEW d, d = handoffs[n].id
      PROVE  /\ email'[d] = i
             /\ pc'[d] \in {"load", "write", "crashed"} \/ (pc'[d] = "done" /\ d \in listed[i])
  <2>1. d \in Call /\ d \in Thread
    BY <1>5, Recorded, Threads
  <2>2. email[d] = i /\ (pc[d] \in {"load", "write", "crashed"} \/ (pc[d] = "done" /\ d \in listed[i]))
    BY <1>1, <1>5 DEF Sound, StoredListed
  <2>3. d # c
    BY <1>1, <2>2
  <2> QED BY <1>2, <1>3, <2>1, <2>2, <2>3
<1>6. i \in Thread /\ i # c
  BY Threads
<1>7. /\ pc'[i] \in {"idle", "store"} => i \notin stored
      /\ pc'[i] = "done" /\ i \in stored => i \in listed[i]
  BY <1>1, <1>2, <1>6 DEF Sound, StoredListed
<1> QED BY <1>1, <1>2, <1>3, <1>4, <1>5, <1>7, Threads

LEMMA StepRequestApproval ==
  ASSUME EmailInv, NEW c \in Call, NEW e \in Intake, RequestApproval(c, e)
  PROVE  EmailInv'
<1> USE DEF EmailInv
<1> DEFINE l == IF Decided(e, {"pending", "approved", "resumed"}) THEN "done" ELSE "ask"
<1>1. /\ BeginsAbout(c, e) /\ pc' = [pc EXCEPT ![c] = l]
      /\ pc[c] = "idle" /\ e \in stored /\ email' = [email EXCEPT ![c] = e]
      /\ overlapped' \in {overlapped, overlapped \cup {e}}
      /\ UNCHANGED <<stored, approvals, handoffs, listed, copy, grant, answer, decisions>>
      /\ l \in {"ask", "done"}
  BY DEF RequestApproval, BeginsAbout, Goto
<1>2. l = "ask" => ~ Decided(e, {"pending", "approved", "resumed"})
  OBVIOUS
<1> HIDE DEF l
<1>3. TypeOK'
  BY <1>1 DEF TypeOK, decisions
<1>4. CallsUnderWay'
  BY <1>1, Threads DEF CallsUnderWay, TypeOK
<1>5. ASSUME NEW i \in Intake, i \notin overlapped' PROVE Sound(i)'
  <2>1. /\ Sound(i) /\ Alone(i)' /\ CopiesFresh(i)'
        /\ email'[c] = e /\ \A d \in Call : d # c => email'[d] = email[d] /\ pc'[d] = pc[d]
        /\ pc'[c] = l
        /\ \A n \in IndexesOf(handoffs, i) :
              LET d == handoffs[n].id
              IN /\ email'[d] = i
                 /\ pc'[d] \in {"load", "write", "crashed"} \/ (pc'[d] = "done" /\ d \in listed[i])
        /\ pc'[i] \in {"idle", "store"} => i \notin stored
        /\ pc'[i] = "done" /\ i \in stored => i \in listed[i]
    BY <1>1, <1>5, BeginsQuietly
  <2>2. LiveIsLatest(i)'
    <3> SUFFICES ASSUME i \notin contested PROVE LiveIsLatest(i)'
      BY <1>1 DEF LiveIsLatest, decisions
    <3>1. ASSUME l = "ask", e = i, NEW n \in IndexesOf(approvals, i) PROVE ~ Live(approvals[n])
      <4>1. PICK m \in IndexesOf(approvals, i) :
              Latest(approvals, i) = approvals[m] /\ \A k \in IndexesOf(approvals, i) : k <= m
        BY <3>1, FoundOrNone DEF TypeOK
      <4>2. Latest(approvals, i) # None
        BY <4>1, Recorded
      <4>3. ~ Live(approvals[m])
        BY <1>2, <3>1, <4>1, <4>2 DEF Decided, Live
      <4>4. m \in Int /\ n \in Int /\ (Live(approvals[n]) => m <= n) /\ n <= m
        BY <2>1, <4>1 DEF Sound, LiveIsLatest, IndexesOf
      <4> QED BY <4>3, <4>4
    <3>2. ASSUME NEW d \in Call, pc'[d] = "ask", email'[d] = i, NEW n \in IndexesOf(approvals, i)
          PROVE  ~ Live(approvals[n])
      BY <2>1, <3>1, <3>2 DEF Sound, LiveIsLatest
    <3> QED BY <1>1, <2>1, <3>2 DEF Sound, LiveIsLatest, IndexesOf, Live, decisions
  <2>3. OneHandoff(i)'
    BY <1>1, <2>1, HandoffKept DEF Sound
  <2>4. StoredListed(i)'
    <3>1. ASSUME NEW d \in Call, email'[d] = i, answer[d] # None
          PROVE  pc'[answer[d]] = "crashed" \/ answer[d] \in listed[i]
      <4>1. d # c
        BY <1>1, <3>1 DEF CallsUnderWay
      <4>2. pc[answer[d]] = "crashed" \/ answer[d] \in listed[i]
        BY <2>1, <3>1, <4>1 DEF Sound, StoredListed
      <4>3. answer[d] \in Call
        BY <3>1 DEF TypeOK
      <4> QED BY <1>1, <2>1, <4>2, <4>3
    <3> QED BY <1>1, <2>1, <3>1 DEF StoredListed, IndexesOf
  <2> QED BY <2>1, <2>2, <2>3, <2>4 DEF Sound
<1>6. Named'
  BY <1>1, NamedKept, Threads DEF TypeOK, InFlight, BeginsAbout
<1> QED BY <1>6, <1>3, <1>4, <1>5

LEMMA StepRequestHandoff ==
  ASSUME EmailInv, NEW c \in Call, NEW e \in Intake, RequestHandoff(c, e)
  PROVE  EmailInv'
<1> USE DEF EmailInv
<1> DEFINE l == IF Latest(handoffs, e) = None THEN "store" ELSE "done"
<1>0. l \in {"store", "done"} /\ l \in {"ask", "store", "done"} /\ pc' = [pc EXCEPT ![c] = l]
  BY DEF RequestHandoff, Goto
<1>1. /\ BeginsAbout(c, e)
      /\ pc[c] = "idle" /\ e \in stored /\ email' = [email EXCEPT ![c] = e]
      /\ overlapped' \in {overlapped, overlapped \cup {e}}
      /\ UNCHANGED <<stored, approvals, handoffs, listed, copy, decisions>>
      /\ Decided(e, {"approved"})
  BY DEF RequestHandoff, BeginsAbout
<1>2. \/ /\ Latest(handoffs, e) = None /\ l = "store"
         /\ grant' = [grant EXCEPT ![c] = Latest(approvals, e).id] /\ answer' = answer
      \/ /\ Latest(handoffs, e) # None /\ l = "done"
         /\ grant' = grant /\ answer' = [answer EXCEPT ![c] = Latest(handoffs, e).id]
  BY DEF RequestHandoff
<1> HIDE DEF l
<1>3. Latest(approvals, e) \in Approval /\ Latest(approvals, e).id \in Call
  <2>1. PICK n \in IndexesOf(approvals, e) : Latest(approvals, e) = approvals[n]
    BY <1>1, FoundOrNone DEF Decided, TypeOK
  <2> QED BY <2>1, Recorded
<1>4. Latest(handoffs, e) # None =>
        \E n \in IndexesOf(handoffs, e) : Latest(handoffs, e) = handoffs[n]
  BY FoundOrNone DEF TypeOK
<1>5. Latest(handoffs, e) # None => Latest(handoffs, e).id \in Call
  BY <1>4, Recorded
<1>6. TypeOK'
  BY <1>0, <1>1, <1>2, <1>3, <1>5 DEF TypeOK, decisions
<1>7. /\ l = "store" => grant'[c] # None /\ answer' = answer
      /\ \A d \in Call : d # c => grant'[d] = grant[d] /\ answer'[d] = answer[d]
  BY <1>2, <1>3, Threads DEF TypeOK
<1>8. CallsUnderWay'
  BY <1>0, <1>1, <1>7, Threads DEF CallsUnderWay, TypeOK
<1>9. ASSUME NEW i \in Intake, i \notin overlapped' PROVE Sound(i)'
  <2>1. /\ Sound(i) /\ Alone(i)' /\ CopiesFresh(i)'
        /\ email'[c] = e /\ \A d \in Call : d # c => email'[d] = email[d] /\ pc'[d] = pc[d]
        /\ pc'[c] = l
        /\ \A n \in IndexesOf(handoffs, i) :
              LET d == handoffs[n].id
              IN /\ email'[d] = i
                 /\ pc'[d] \in {"load", "write", "crashed"} \/ (pc'[d] = "done" /\ d \in listed[i])
        /\ pc'[i] \in {"idle", "store"} => i \notin stored
        /\ pc'[i] = "done" /\ i \in stored => i \in listed[i]
    BY <1>0, <1>1, <1>9, BeginsQuietly
  <2>0. i = e => \A x \in Thread : InFlight(x) => Flow(x) # i
    BY <1>1, <1>9 DEF BeginsAbout
  <2>2. LiveIsLatest(i)'
    <3>1. \A d \in Call : pc'[d] = "ask" /\ email'[d] = i => pc[d] = "ask" /\ email[d] = i
      BY <1>0, <2>1
    <3> QED BY <1>1, <2>1, <3>1, LiveKept DEF Sound
  <2>3. OneHandoff(i)'
    <3>1. ASSUME l = "store", e = i PROVE IndexesOf(handoffs, i) = {}
      <4>1. Latest(handoffs, i) = None
        BY <1>2, <3>1
      <4>2. ASSUME NEW n \in IndexesOf(handoffs, i) PROVE FALSE
        <5>1. PICK m \in IndexesOf(handoffs, i) : Latest(handoffs, i) = handoffs[m]
          BY <4>2, FoundOrNone DEF TypeOK
        <5> QED BY <4>1, <5>1, Recorded
      <4> QED BY <4>2
    <3>2. ASSUME NEW d \in Call, pc'[d] = "store", email'[d] = i PROVE IndexesOf(handoffs, i) = {}
      BY <2>1, <3>1, <3>2 DEF Sound, OneHandoff
    <3> QED BY <1>1, <2>1, <3>2 DEF Sound, OneHandoff, IndexesOf
  <2>4. StoredListed(i)'
    <3>1. ASSUME NEW d \in Call, email'[d] = i, answer'[d] # None
          PROVE  pc'[answer'[d]] = "crashed" \/ answer'[d] \in listed[i]
      <4>1. CASE d = c
        <5>1. e = i /\ answer[c] = None
          BY <1>1, <2>1, <3>1, <4>1 DEF CallsUnderWay
        <5>2. Latest(handoffs, e) # None /\ answer'[c] = Latest(handoffs, e).id
          BY <1>2, <3>1, <4>1, <5>1 DEF TypeOK
        <5>3. PICK n \in IndexesOf(handoffs, e) : Latest(handoffs, e) = handoffs[n]
          BY <1>4, <5>2
        <5>4. handoffs[n].id \in Call /\ handoffs[n].id \in Thread
          BY <5>3, Recorded, Threads
        <5>5. /\ email[handoffs[n].id] = i
              /\ \/ pc[handoffs[n].id] \in {"load", "write", "crashed"}
                 \/ pc[handoffs[n].id] = "done" /\ handoffs[n].id \in listed[i]
          BY <2>1, <5>1, <5>3 DEF Sound, StoredListed
        <5>6. pc[handoffs[n].id] \notin {"load", "write"}
          BY <2>0, <5>1, <5>4, <5>5, Threads DEF InFlight
        <5>7. handoffs[n].id # c
          BY <1>1, <5>5
        <5> QED BY <2>1, <4>1, <5>2, <5>3, <5>4, <5>5, <5>6, <5>7
      <4>2. CASE d # c
        <5>1. answer'[d] = answer[d] /\ email[d] = i
          BY <1>7, <2>1, <3>1, <4>2
        <5>2. pc[answer[d]] = "crashed" \/ answer[d] \in listed[i]
          BY <2>1, <3>1, <5>1 DEF Sound, StoredListed
        <5>3. answer[d] \in Call
          BY <3>1, <5>1 DEF TypeOK
        <5> QED BY <1>1, <2>1, <5>1, <5>2, <5>3
      <4> QED BY <4>1, <4>2
    <3> QED BY <1>1, <2>1, <3>1 DEF StoredListed, IndexesOf
  <2> QED BY <2>1, <2>2, <2>3, <2>4 DEF Sound
<1>10. Named'
  BY <1>0, <1>1, NamedKept DEF TypeOK
<1> QED BY <1>10, <1>6, <1>8, <1>9

LEMMA StepCreateApproval ==
  ASSUME EmailInv, NEW c \in Call, CreateApproval(c)
  PROVE  EmailInv'
<1> USE DEF EmailInv
<1> DEFINE a == [id |-> c, of |-> email[c], status |-> "pending"]
<1>1. /\ pc[c] = "ask" /\ UNCHANGED <<stored, handoffs, listed, email, grant, copy, answer, overlapped, decisions>>
      /\ pc' = [pc EXCEPT ![c] = "done"]
      /\ approvals' = Append(approvals, a)
      /\ \A x \in Thread : x # c => pc'[x] = pc[x]
      /\ pc'[c] = "done" /\ email[c] \in Intake
      /\ \A x \in Thread : Flow(x)' = Flow(x)
  BY Threads DEF CreateApproval, Goto, TypeOK, Flow
<1>2. a \in Approval /\ a.of = email[c] /\ a.id = c
  BY <1>1 DEF Approval
<1> HIDE DEF a
<1>3. TypeOK'
  BY <1>1, <1>2, Threads DEF TypeOK, decisions
<1>4. CallsUnderWay'
  BY <1>1, Threads DEF CallsUnderWay
<1>6. Named'
  <2>1. \A n \in 1..Len(approvals) : approvals[n] \in Approval /\ approvals[n].id # c
    BY <1>1 DEF TypeOK, Named, CreatedBy
  <2>2. /\ Len(approvals') = Len(approvals) + 1 /\ approvals'[Len(approvals) + 1] = a
        /\ \A n \in 1..Len(approvals) : approvals'[n] = approvals[n]
        /\ Len(approvals) \in Nat
    BY <1>1, <1>2 DEF TypeOK
  <2>3. \A m, n \in 1..Len(approvals') : approvals'[m].id = approvals'[n].id => m = n
    BY <1>2, <2>1, <2>2 DEF Named
  <2> DEFINE Later(x) == pc'[x.id] = "done" /\ email'[x.id] = x.of
  <2>4. \A x \in Approval : CreatedBy(x) => Later(x)
    <3>1. \A x \in Approval : x.id \in Call
      BY DEF Approval
    <3> QED BY <1>1, <3>1, Threads DEF CreatedBy
  <2>5. \A n \in 1..Len(approvals') : Later(approvals'[n])
    <3>1. Later(a)
      BY <1>1, <1>2
    <3> HIDE DEF Later
    <3> QED BY <2>1, <2>2, <2>4, <3>1 DEF Named
  <2>6. \A o \in Operator : deciding[o] # None => Later(deciding[o])
    <3> HIDE DEF Later
    <3> QED BY <2>4 DEF Named, TypeOK
  <2> QED BY <1>1, <2>3, <2>5, <2>6 DEF Named, CreatedBy, decisions
<1>5. ASSUME NEW i \in Intake, i \notin overlapped PROVE Sound(i)'
  <2>1. Sound(i)
    BY <1>5
  <2>2. Alone(i)'
    BY <1>1, <2>1, AloneKept, Threads DEF Sound, InFlight
  <2>3. LiveIsLatest(i)'
    <3> SUFFICES ASSUME i \notin contested PROVE LiveIsLatest(i)'
      BY <1>1 DEF LiveIsLatest, decisions
    <3>1. /\ IndexesOf(approvals', i) =
               IndexesOf(approvals, i) \cup (IF a.of = i THEN {Len(approvals) + 1} ELSE {})
          /\ \A n \in IndexesOf(approvals, i) : approvals'[n] = approvals[n] /\ n \in 1..Len(approvals)
          /\ Len(approvals) \in Nat
      BY <1>1, <1>2, AppendedIndexes DEF TypeOK
    <3>2. CASE email[c] # i
      <4>1. IndexesOf(approvals', i) = IndexesOf(approvals, i)
        BY <1>2, <3>1, <3>2
      <4>2. \A d \in Call : pc'[d] = "ask" /\ email[d] = i => pc[d] = "ask"
        BY <1>1, Threads
      <4> QED BY <1>1, <2>1, <3>1, <4>1, <4>2 DEF Sound, LiveIsLatest, Live, IndexesOf, decisions
    <3>3. CASE email[c] = i
      <4>1. \A n \in IndexesOf(approvals, i) : ~ Live(approvals[n])
        BY <1>1, <2>1, <3>3 DEF Sound, LiveIsLatest
      <4>2. \A d \in Call : ~ (pc'[d] = "ask" /\ email[d] = i)
        BY <1>1, <2>1, <3>3, Threads DEF Sound, Alone, InFlight
      <4>3. \A m, n \in IndexesOf(approvals', i) : Live(approvals'[n]) => m <= n
        BY <1>2, <3>1, <3>3, <4>1 DEF Live
      <4>4. \A o \in Operator : ~ (deciding[o] # None /\ deciding[o].of = i)
        BY <2>1, <4>1 DEF Sound, LiveIsLatest
      <4> QED BY <1>1, <4>2, <4>3, <4>4 DEF LiveIsLatest, Live, IndexesOf, decisions
    <3> QED BY <3>2, <3>3
  <2>4. OneHandoff(i)'
    BY <1>1, <2>1, HandoffKept, Threads DEF Sound
  <2>5. CopiesFresh(i)'
    <3>1. \A x \in Thread : pc'[x] = "write" => pc[x] = "write"
      BY <1>1
    <3> QED BY <1>1, <2>1, <3>1, CopiesKept DEF Sound
  <2>6. StoredListed(i)'
    <3>1. /\ pc'[i] \in {"idle", "store"} => i \notin stored
          /\ pc'[i] = "done" /\ i \in stored => i \in listed[i]
      BY <1>1, <2>1, Threads DEF Sound, StoredListed
    <3>2. \A n \in IndexesOf(handoffs, i) : pc'[handoffs[n].id] = pc[handoffs[n].id]
      <4>1. ASSUME NEW n \in IndexesOf(handoffs, i) PROVE handoffs[n].id # c /\ handoffs[n].id \in Thread
        BY <1>1, <2>1, Recorded, Threads DEF Sound, StoredListed
      <4> QED BY <1>1, <4>1
    <3>3. \A d \in Call : answer[d] # None /\ email[d] = i => pc'[answer[d]] = "crashed" \/ answer[d] \in listed[i]
      <4>1. ASSUME NEW d \in Call, answer[d] # None, email[d] = i
            PROVE  pc'[answer[d]] = "crashed" \/ answer[d] \in listed[i]
        <5>1. answer[d] \in Call
          BY <4>1 DEF TypeOK
        <5>2. pc[answer[d]] = "crashed" \/ answer[d] \in listed[i]
          BY <2>1, <4>1 DEF Sound, StoredListed
        <5> QED BY <1>1, <5>1, <5>2, Threads
      <4> QED BY <4>1
    <3> QED BY <1>1, <2>1, <3>1, <3>2, <3>3 DEF Sound, StoredListed, IndexesOf
  <2> QED BY <2>2, <2>3, <2>4, <2>5, <2>6 DEF Sound
<1> QED BY <1>1, <1>3, <1>4, <1>5, <1>6

LEMMA StepStoreHandoff ==
  ASSUME EmailInv, NEW c \in Call, StoreHandoff(c)
  PROVE  EmailInv'
<1> USE DEF EmailInv
<1> DEFINE h == [id |-> c, of |-> email[c], approval |-> grant[c]]
<1>1. /\ pc[c] = "store" /\ UNCHANGED <<stored, approvals, listed, email, grant, copy, answer, overlapped, decisions>>
      /\ pc' = [pc EXCEPT ![c] = "load"]
      /\ handoffs' = Append(handoffs, h)
      /\ \A x \in Thread : x # c => pc'[x] = pc[x]
      /\ pc'[c] = "load" /\ email[c] \in Intake
      /\ \A x \in Thread : Flow(x)' = Flow(x)
  BY Threads DEF StoreHandoff, Goto, TypeOK, Flow
<1>2. h \in Handoff /\ h.of = email[c] /\ h.id = c
  BY <1>1 DEF Handoff, CallsUnderWay, TypeOK
<1> HIDE DEF h
<1>3. TypeOK'
  BY <1>1, <1>2, Threads DEF TypeOK, decisions
<1>4. CallsUnderWay'
  BY <1>1, Threads DEF CallsUnderWay
<1>5. ASSUME NEW i \in Intake, i \notin overlapped PROVE Sound(i)'
  <2>1. Sound(i)
    BY <1>5
  <2>2. Alone(i)'
    BY <1>1, <2>1, AloneKept, Threads DEF Sound, InFlight
  <2>3. LiveIsLatest(i)'
    BY <1>1, <2>1, LiveKept, Threads DEF Sound
  <2>4. /\ IndexesOf(handoffs', i) =
             IndexesOf(handoffs, i) \cup (IF h.of = i THEN {Len(handoffs) + 1} ELSE {})
        /\ \A n \in IndexesOf(handoffs, i) : handoffs'[n] = handoffs[n] /\ n \in 1..Len(handoffs)
        /\ handoffs'[Len(handoffs) + 1] = h
        /\ Len(handoffs) \in Nat
    BY <1>1, <1>2, AppendedIndexes DEF TypeOK
  <2>5. OneHandoff(i)'
    <3>1. CASE email[c] # i
      <4>1. IndexesOf(handoffs', i) = IndexesOf(handoffs, i)
        BY <1>2, <2>4, <3>1
      <4>2. \A d \in Call : pc'[d] = "store" => pc[d] = "store"
        BY <1>1, Threads
      <4> QED BY <1>1, <2>1, <4>1, <4>2 DEF Sound, OneHandoff, IndexesOf
    <3>2. CASE email[c] = i
      <4>1. IndexesOf(handoffs', i) = {Len(handoffs) + 1}
        BY <1>1, <1>2, <2>1, <2>4, <3>2 DEF Sound, OneHandoff
      <4>2. \A d \in Call : ~ (pc'[d] = "store" /\ email[d] = i)
        BY <1>1, <2>1, <3>2, Threads DEF Sound, Alone, InFlight
      <4> QED BY <1>1, <4>1, <4>2 DEF OneHandoff, IndexesOf
    <3> QED BY <3>1, <3>2
  <2>6. CopiesFresh(i)'
    <3>1. \A x \in Thread : pc'[x] = "write" => pc[x] = "write"
      BY <1>1
    <3> QED BY <1>1, <2>1, <3>1, CopiesKept DEF Sound
  <2>7. StoredListed(i)'
    <3>1. /\ pc'[i] \in {"idle", "store"} => i \notin stored
          /\ pc'[i] = "done" /\ i \in stored => i \in listed[i]
      BY <1>1, <2>1, Threads DEF Sound, StoredListed
    <3>2. ASSUME NEW n \in IndexesOf(handoffs', i), NEW d, d = handoffs'[n].id
          PROVE  /\ email[d] = i
                 /\ pc'[d] \in {"load", "write", "crashed"} \/ (pc'[d] = "done" /\ d \in listed[i])
      <4>1. CASE n \in IndexesOf(handoffs, i)
        <5>1. d = handoffs[n].id /\ d \in Call
          BY <2>4, <3>2, <4>1, Recorded
        <5>2. /\ email[d] = i
              /\ pc[d] \in {"load", "write", "crashed"} \/ (pc[d] = "done" /\ d \in listed[i])
          BY <2>1, <4>1, <5>1 DEF Sound, StoredListed
        <5> QED BY <1>1, <5>1, <5>2, Threads
      <4>2. CASE n \notin IndexesOf(handoffs, i)
        <5>1. n = Len(handoffs) + 1 /\ h.of = i
          BY <2>4, <3>2, <4>2
        <5> QED BY <1>1, <1>2, <2>4, <3>2, <5>1
      <4> QED BY <4>1, <4>2
    <3>3. \A d \in Call : answer[d] # None /\ email[d] = i => pc'[answer[d]] = "crashed" \/ answer[d] \in listed[i]
      <4>1. ASSUME NEW d \in Call, answer[d] # None, email[d] = i
            PROVE  pc'[answer[d]] = "crashed" \/ answer[d] \in listed[i]
        <5>1. answer[d] \in Call
          BY <4>1 DEF TypeOK
        <5>2. pc[answer[d]] = "crashed" \/ answer[d] \in listed[i]
          BY <2>1, <4>1 DEF Sound, StoredListed
        <5> QED BY <1>1, <5>1, <5>2, Threads
      <4> QED BY <4>1
    <3>4. UNCHANGED <<stored, listed, email, answer>>
      BY <1>1
    <3> QED BY <3>1, <3>2, <3>3, <3>4 DEF StoredListed, IndexesOf
  <2> QED BY <2>2, <2>3, <2>5, <2>6, <2>7 DEF Sound
<1>6. Named'
  BY <1>1, NamedKept, Threads DEF TypeOK, InFlight, BeginsAbout
<1> QED BY <1>6, <1>1, <1>3, <1>4, <1>5

-----------------------------------------------------------------------------
(* Decisions *)

LEMMA StepDecideCheck ==
  ASSUME EmailInv, NEW o \in Operator, NEW n \in 1..Len(approvals),
         NEW status \in {"approved", "denied", "aborted"}, DecideCheck(o, n, status)
  PROVE  EmailInv'
<1> USE DEF EmailInv
<1> DEFINE a == [approvals[n] EXCEPT !.status = status]
<1>1. /\ UNCHANGED <<stored, approvals, handoffs, listed, pc, email, grant, copy, answer, overlapped>>
      /\ deciding[o] = None /\ deciding' = [deciding EXCEPT ![o] = a]
      /\ Live(approvals[n])
      /\ contested \subseteq contested' /\ contested' \subseteq contested \cup {approvals[n].of}
      /\ \/ approvals[n].of \in contested'
         \/ \A p \in Operator : deciding[p] # None => deciding[p].id # approvals[n].id
  BY DEF DecideCheck, Live
<1>2. approvals[n] \in Approval /\ approvals[n].of \in Intake
  <2>1. approvals[n] \in Approval
    BY DEF TypeOK
  <2> QED BY <2>1 DEF Approval
<1>3. a \in Approval /\ a.of = approvals[n].of /\ a.id = approvals[n].id
  BY <1>2 DEF Approval
<1> HIDE DEF a
<1>4. TypeOK'
  BY <1>1, <1>2, <1>3 DEF TypeOK
<1>6. deciding'[o] = a /\ a # None /\ \A p \in Operator \ {o} : deciding'[p] = deciding[p]
  BY <1>1, <1>3 DEF TypeOK
<1>5. CallsUnderWay' /\ Named'
  <2>1. CreatedBy(a)
    BY <1>3 DEF Named, CreatedBy
  <2> QED BY <1>1, <1>6, <2>1 DEF CallsUnderWay, Named, CreatedBy
<1>7. ASSUME NEW i \in Intake, i \notin overlapped PROVE Sound(i)'
  <2>1. Sound(i)
    BY <1>7
  <2>2. ASSUME i \notin contested', approvals[n].of = i, NEW p \in Operator, deciding[p] # None,
               deciding[p].of = i
        PROVE  FALSE
    <3>1. n \in IndexesOf(approvals, i) /\ i \notin contested
      BY <1>1, <2>2 DEF IndexesOf
    <3>2. PICK m \in IndexesOf(approvals, i) : Live(approvals[m]) /\ approvals[m].id = deciding[p].id
      BY <2>1, <2>2, <3>1 DEF Sound, LiveIsLatest
    <3>3. m <= n /\ n <= m /\ m \in Int /\ n \in Int
      BY <1>1, <2>1, <3>1, <3>2 DEF Sound, LiveIsLatest, IndexesOf
    <3> QED BY <1>1, <2>2, <3>2, <3>3
  <2>3. LiveIsLatest(i)'
    <3> SUFFICES ASSUME i \notin contested' PROVE LiveIsLatest(i)'
      BY DEF LiveIsLatest
    <3>1. LiveIsLatest(i) /\ i \notin contested
      BY <1>1, <2>1 DEF Sound
    <3>2. /\ \A k, m \in IndexesOf(approvals, i) : Live(approvals[m]) => k <= m
          /\ \A c \in Call : pc[c] = "ask" /\ email[c] = i =>
               \A m \in IndexesOf(approvals, i) : ~ Live(approvals[m])
      BY <3>1 DEF LiveIsLatest
    <3>3. ASSUME NEW p \in Operator, deciding'[p] # None, deciding'[p].of = i
          PROVE  \E m \in IndexesOf(approvals, i) :
                   Live(approvals[m]) /\ approvals[m].id = deciding'[p].id
      <4>1. CASE p = o
        BY <1>1, <1>3, <1>6, <3>3, <4>1 DEF IndexesOf
      <4>2. CASE p # o
        BY <1>6, <3>1, <3>3, <4>2 DEF LiveIsLatest
      <4> QED BY <4>1, <4>2
    <3>4. ASSUME NEW p \in Operator, deciding'[p] # None, deciding'[p].of = i,
                 NEW q \in Operator, deciding'[q] # None, deciding'[q].of = i
          PROVE  p = q
      BY <1>3, <1>6, <2>2, <3>1, <3>4 DEF LiveIsLatest
    <3>5. IndexesOf(approvals', i) = IndexesOf(approvals, i) /\ approvals' = approvals
      BY <1>1 DEF IndexesOf
    <3> QED BY <1>1, <3>2, <3>3, <3>4, <3>5 DEF LiveIsLatest, Live
  <2>4. Alone(i)' /\ OneHandoff(i)' /\ CopiesFresh(i)' /\ StoredListed(i)'
    BY <1>1, <2>1 DEF Sound, Alone, OneHandoff, CopiesFresh, StoredListed, IndexesOf, InFlight, Flow
  <2> QED BY <2>3, <2>4 DEF Sound
<1> QED BY <1>1, <1>4, <1>5, <1>7

LEMMA StepDecideWrite ==
  ASSUME EmailInv, NEW o \in Operator, DecideWrite(o)
  PROVE  EmailInv'
<1> USE DEF EmailInv
<1> DEFINE a == deciding[o]
<1>0. PICK n \in 1..Len(approvals) : approvals[n].id = a.id /\ approvals' = Rewritten(approvals, n, a)
  BY DEF DecideWrite
<1>1. /\ UNCHANGED <<stored, handoffs, listed, pc, email, grant, copy, answer, overlapped, contested>>
      /\ approvals' = Rewritten(approvals, n, a) /\ approvals[n].id = a.id
      /\ a # None /\ deciding' = [deciding EXCEPT ![o] = None]
  BY <1>0 DEF DecideWrite
<1>2. approvals[n] \in Approval /\ n \in Int
  BY DEF TypeOK
<1>3. a \in Approval /\ a.of = approvals[n].of
  BY <1>1 DEF TypeOK, Named, CreatedBy
<1>9. /\ deciding'[o] = None
      /\ \A p \in Operator : deciding'[p] # None => deciding'[p] = deciding[p] /\ p # o
  BY <1>1 DEF TypeOK
<1> HIDE DEF a
<1>4. approvals \in Seq(Approval) /\ Len(approvals) \in Nat /\ n <= Len(approvals)
  BY DEF TypeOK
<1>5. approvals' \in Seq(Approval)
  BY <1>1, <1>3, <1>4, RewrittenSound
<1>6. TypeOK'
  BY <1>1, <1>5 DEF TypeOK
<1>10. Named'
  <2>1. ASSUME NEW x \in 1..Len(approvals') PROVE CreatedBy(approvals'[x])
    <3>1. x \in IndexesOf(approvals', approvals'[x].of) /\ Len(approvals') = Len(approvals)
      BY <1>1, <1>3, <1>4, RewrittenSound DEF IndexesOf
    <3>2. CreatedBy(a)
      BY <1>1 DEF Named, a
    <3>3. \/ approvals'[x] = a
          \/ \E m \in 1..Len(approvals) : approvals'[x] = approvals[m]
      BY <1>1, <1>3, <1>4, <3>1, MovedIndexes DEF IndexesOf
    <3> QED BY <3>2, <3>3 DEF Named
  <2>2. \A j, k \in 1..Len(approvals') : approvals'[j].id = approvals'[k].id => j = k
    <3>1. \A j, k \in 1..Len(approvals) : approvals[j].id = approvals[k].id => j = k
      BY DEF Named
    <3>2. \A j, k \in 1..Len(approvals) :
            Rewritten(approvals, n, a)[j].id = Rewritten(approvals, n, a)[k].id => j = k
      BY <1>1, <1>3, <1>4, <3>1, MovedNames
    <3>3. Len(approvals') = Len(approvals)
      BY <1>1, <1>3, <1>4, RewrittenSound
    <3> QED BY <1>1, <3>2, <3>3
  <2> QED BY <1>1, <1>9, <2>1, <2>2 DEF Named, CreatedBy
<1>7. CallsUnderWay'
  BY <1>1 DEF CallsUnderWay
<1>8. ASSUME NEW i \in Intake, i \notin overlapped PROVE Sound(i)'
  <2>1. Sound(i)
    BY <1>8
  <2>2. Alone(i)'
    BY <1>1, <2>1, AloneKept DEF Sound, InFlight, Flow
  <2>3. LiveIsLatest(i)'
    <3> SUFFICES ASSUME i \notin contested PROVE LiveIsLatest(i)'
      BY <1>1 DEF LiveIsLatest
    <3>1. ASSUME NEW k \in IndexesOf(approvals', i)
          PROVE  \/ k = Len(approvals) /\ approvals'[k] = a /\ a.of = i
                 \/ k < n /\ k \in IndexesOf(approvals, i) /\ approvals'[k] = approvals[k]
                 \/ /\ k >= n /\ k < Len(approvals)
                    /\ k + 1 \in IndexesOf(approvals, i) /\ approvals'[k] = approvals[k + 1]
      BY <1>1, <1>3, <1>4, <3>1, MovedIndexes
    <3>2. \A k \in IndexesOf(approvals', i) : k \in Int /\ k <= Len(approvals)
      BY <1>4, <3>1 DEF IndexesOf
    <3>3. \A k \in IndexesOf(approvals, i) : k \in Int /\ (Live(approvals[k]) =>
             \A m \in IndexesOf(approvals, i) : m <= k)
      BY <2>1 DEF Sound, LiveIsLatest, IndexesOf
    <3>4. CASE approvals[n].of = i
      <4>1. n \in IndexesOf(approvals, i)
        BY <3>4 DEF IndexesOf
      <4>5. Live(approvals[n])
        BY <1>1, <1>3, <2>1, <3>4, <4>1 DEF Sound, LiveIsLatest, Named, IndexesOf, a
      <4>6. \A p \in Operator : ~ (deciding'[p] # None /\ deciding'[p].of = i)
        BY <1>1, <1>3, <1>9, <2>1, <3>4 DEF Sound, LiveIsLatest, a
      <4>2. ASSUME NEW k \in IndexesOf(approvals, i), k # n PROVE ~ Live(approvals[k])
        BY <1>2, <3>3, <4>1, <4>2, <4>5
      <4>3. ASSUME NEW k \in IndexesOf(approvals', i), Live(approvals'[k]) PROVE k = Len(approvals)
        BY <1>2, <1>4, <3>1, <3>2, <4>2, <4>3
      <4>4. \A c \in Call : ~ (pc[c] = "ask" /\ email[c] = i)
        BY <2>1, <4>1, <4>5 DEF Sound, LiveIsLatest
      <4> QED BY <1>1, <3>2, <4>3, <4>4, <4>6 DEF LiveIsLatest, Live, IndexesOf
    <3>5. CASE approvals[n].of # i
      <4>1. ASSUME NEW k \in IndexesOf(approvals', i)
            PROVE  \/ k < n /\ k \in IndexesOf(approvals, i) /\ approvals'[k] = approvals[k]
                   \/ k >= n /\ k + 1 \in IndexesOf(approvals, i) /\ approvals'[k] = approvals[k + 1]
        BY <1>3, <3>1, <3>5
      <4>2. ASSUME NEW m \in IndexesOf(approvals', i), NEW k \in IndexesOf(approvals', i),
                   Live(approvals'[k])
            PROVE  m <= k
        BY <1>2, <3>2, <3>3, <4>1, <4>2
      <4>3. ASSUME NEW c \in Call, pc[c] = "ask", email[c] = i, NEW k \in IndexesOf(approvals', i)
            PROVE  ~ Live(approvals'[k])
        BY <2>1, <4>1, <4>3 DEF Sound, LiveIsLatest
      <4>4. ASSUME NEW p \in Operator, deciding'[p] # None, deciding'[p].of = i
            PROVE  \E k \in IndexesOf(approvals', i) :
                     Live(approvals'[k]) /\ approvals'[k].id = deciding'[p].id
        <5>1. PICK m \in IndexesOf(approvals, i) : Live(approvals[m]) /\ approvals[m].id = deciding'[p].id
          BY <1>9, <2>1, <4>4 DEF Sound, LiveIsLatest
        <5>2. m # n
          BY <3>5, <5>1 DEF IndexesOf
        <5> QED BY <1>1, <1>3, <1>4, <5>1, <5>2, MovedStay
      <4>5. ASSUME NEW p \in Operator, deciding'[p] # None, deciding'[p].of = i,
                   NEW q \in Operator, deciding'[q] # None, deciding'[q].of = i
            PROVE  p = q
        BY <1>9, <2>1, <4>5 DEF Sound, LiveIsLatest
      <4> QED BY <1>1, <4>2, <4>3, <4>4, <4>5 DEF LiveIsLatest, Live, IndexesOf
    <3> QED BY <3>4, <3>5
  <2>4. OneHandoff(i)'
    BY <1>1, <2>1, HandoffKept DEF Sound
  <2>5. CopiesFresh(i)'
    BY <1>1, <2>1 DEF Sound, CopiesFresh, Flow
  <2>6. StoredListed(i)'
    BY <1>1, <2>1 DEF Sound, StoredListed, IndexesOf
  <2> QED BY <2>2, <2>3, <2>4, <2>5, <2>6 DEF Sound
<1> QED BY <1>1, <1>6, <1>7, <1>8, <1>10

LEMMA StepDecisionDies ==
  ASSUME EmailInv, NEW o \in Operator, DecisionDies(o)
  PROVE  EmailInv'
<1> USE DEF EmailInv
<1>1. /\ UNCHANGED <<stored, approvals, handoffs, listed, pc, email, grant, copy, answer, overlapped, contested>>
      /\ deciding' = [deciding EXCEPT ![o] = None]
      /\ \A p \in Operator : deciding'[p] # None => deciding'[p] = deciding[p]
  BY DEF DecisionDies, TypeOK
<1>2. TypeOK'
  BY <1>1 DEF TypeOK
<1>3. CallsUnderWay' /\ Named'
  BY <1>1 DEF CallsUnderWay, Named, CreatedBy
<1>4. ASSUME NEW i \in Intake, i \notin overlapped PROVE Sound(i)'
  <2>1. LiveIsLatest(i)'
    BY <1>1, <1>4 DEF Sound, LiveIsLatest, IndexesOf, Live
  <2> QED BY <1>1, <1>4, <2>1 DEF Sound, Alone, OneHandoff, CopiesFresh, StoredListed, IndexesOf, InFlight, Flow
<1> QED BY <1>1, <1>2, <1>3, <1>4

-----------------------------------------------------------------------------
(* The theorems *)

\* The invariant above holds in every state.
THEOREM InvariantHolds == Spec => []EmailInv
<1>1. Init => EmailInv
  <2> SUFFICES ASSUME Init PROVE EmailInv
    OBVIOUS
  <2>1. TypeOK
    BY DEF Init, TypeOK, Approval, Handoff, Thread
  <2>2. \A x \in Thread : pc[x] = "idle"
    BY DEF Init
  <2>3. \A i \in Intake : i \in Thread
    BY DEF Thread
  <2>4. \A c \in Call : c \in Thread /\ email[c] = None /\ answer[c] = None
    BY DEF Init, Thread
  <2>5. CallsUnderWay
    BY <2>2, <2>3, <2>4 DEF CallsUnderWay
  <2>6. \A i : IndexesOf(approvals, i) = {} /\ IndexesOf(handoffs, i) = {}
    BY DEF Init, IndexesOf
  <2>7. ASSUME NEW i \in Intake PROVE Sound(i)
    <3>1. Alone(i) /\ LiveIsLatest(i) /\ OneHandoff(i) /\ CopiesFresh(i)
      BY <2>2, <2>4, <2>6 DEF Init, Alone, LiveIsLatest, OneHandoff, CopiesFresh, InFlight
    <3>2. StoredListed(i)
      BY <2>2, <2>3, <2>4, <2>6 DEF StoredListed, Init
    <3> QED BY <3>1, <3>2 DEF Sound
  <2>8. Named
    BY DEF Init, Named
  <2> QED BY <2>1, <2>5, <2>7, <2>8 DEF EmailInv
<1>2. EmailInv /\ [Next]_vars => EmailInv'
  <2> SUFFICES ASSUME EmailInv, [Next]_vars PROVE EmailInv'
    OBVIOUS
  <2>1. CASE \E i \in Intake : IntakeNext(i)
    BY <2>1, StepEndWorkflow, StepStoreTriage DEF IntakeNext
  <2>2. CASE \E c \in Call : CallNext(c)
    <3>1. PICK c \in Call : CallNext(c)
      BY <2>2
    <3>2. CASE \E i \in Intake : RequestApproval(c, i) \/ RequestHandoff(c, i)
      BY <3>2, StepRequestApproval, StepRequestHandoff
    <3> QED BY <3>1, <3>2, StepCreateApproval, StepStoreHandoff DEF CallNext
  <2>3. CASE \E x \in Thread : LoadWorkflow(x) \/ WriteWorkflow(x) \/ Crash(x)
    BY <2>3, StepLoadWorkflow, StepWriteWorkflow, StepCrash
  <2>4. CASE \E o \in Operator : DecideNext(o)
    BY <2>4, StepDecideCheck, StepDecideWrite, StepDecisionDies DEF DecideNext
  <2>5. CASE UNCHANGED vars
    BY <2>5 DEF EmailInv, TypeOK, CallsUnderWay, Sound, Alone, LiveIsLatest, OneHandoff,
                CopiesFresh, StoredListed, IndexesOf, InFlight, Flow, Live, vars,
                decisions, Named, CreatedBy
  <2> QED BY <2>1, <2>2, <2>3, <2>4, <2>5 DEF Next
<1> QED BY <1>1, <1>2, PTL DEF Spec

\* Every variable keeps its type.
THEOREM TypeCorrect == Spec => []TypeOK
<1>1. EmailInv => TypeOK
  BY DEF EmailInv
<1> QED BY <1>1, InvariantHolds, PTL

LEMMA AtMostOne ==
  ASSUME NEW S, \A x, y \in S : x = y
  PROVE  Cardinality(S) <= 1
<1>1. CASE S = {}
  BY <1>1, FS_EmptySet
<1>2. CASE S # {}
  <2>1. PICK x \in S : S = {x}
    BY <1>2
  <2> QED BY <2>1, FS_Singleton
<1> QED BY <1>1, <1>2

\* While the calls about an e-mail do not overlap, it has at most one handoff,
\* and while no two decisions on one approval overlap at most one approval that
\* is pending or approved (find_email_draft_handoff, find_email_draft_approval,
\* update_approval_status), for any number of calls, operators and crashes.
THEOREM OnePerDraftAlways == Spec => []OnePerDraft
<1>1. ASSUME EmailInv PROVE OnePerDraft
  <2> DEFINE S(i) == {n \in IndexesOf(approvals, i) : approvals[n].status \in {"pending", "approved"}}
  <2> SUFFICES ASSUME NEW i \in Intake \ overlapped
               PROVE  /\ Cardinality(IndexesOf(handoffs, i)) <= 1
                      /\ i \notin contested => Cardinality(S(i)) <= 1
    BY DEF OnePerDraft
  <2>1. Sound(i)
    BY <1>1 DEF EmailInv
  <2>2. Cardinality(IndexesOf(handoffs, i)) <= 1
    BY <2>1, AtMostOne DEF Sound, OneHandoff
  <2>3. ASSUME i \notin contested PROVE \A m, n \in S(i) : m = n
    <3>1. \A m, n \in S(i) : m <= n /\ m \in Int
      BY <2>1, <2>3 DEF Sound, LiveIsLatest, Live, IndexesOf
    <3> QED BY <3>1
  <2> HIDE DEF S
  <2>4. i \notin contested => Cardinality(S(i)) <= 1
    BY <2>3, AtMostOne
  <2> QED BY <2>2, <2>4
<1> QED BY <1>1, InvariantHolds, PTL

\* While the calls about an e-mail do not overlap, its workflow lists what they
\* answered with (register_artifact), unless the call that stored it died.
THEOREM AnswersAlwaysListed == Spec => []AnswersListed
<1>1. ASSUME EmailInv PROVE AnswersListed
  BY <1>1 DEF EmailInv, Sound, StoredListed, AnswersListed
<1> QED BY <1>1, InvariantHolds, PTL

=============================================================================
