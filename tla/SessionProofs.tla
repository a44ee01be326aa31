--------------------------- MODULE SessionProofs ---------------------------
(***************************************************************************)
(* What holds of a session however many requests overlap: its record is    *)
(* well formed, its history tells of all of it, and what it carries        *)
(* forward fits its messages.                                              *)
(***************************************************************************)
EXTENDS Session, FiniteSetTheorems, TLAPS

USE SessionAssumption, NoneAssumption

-----------------------------------------------------------------------------
(* What each operator makes of a record *)

LEMMA NewSessionTyped ==
  /\ NewSession \in Record
  /\ NewSession.compaction = None /\ NewSession.messages = <<>> /\ NewSession.workflows = {}
BY DEF NewSession, Record, Status, Transitions

LEMMA ElementsTyped ==
  ASSUME NEW S, NEW s \in Seq(S)
  PROVE  Elements(s) \subseteq S
BY DEF Elements

\* WithHistory changes nothing but the history.
LEMMA WithHistoryTyped ==
  ASSUME file \in Record \cup {None}, NEW s \in Record
  PROVE  /\ WithHistory(s) \in Record
         /\ WithHistory(s).status = s.status
         /\ WithHistory(s).messages = s.messages
         /\ WithHistory(s).workflows = s.workflows
         /\ WithHistory(s).compaction = s.compaction
         /\ WithHistory(s).summary = s.summary
<1>1. Elements(s.messages) \subseteq Message
  BY ElementsTyped DEF Record
<1>2. CASE file = None
  <2> DEFINE statuses == Append(s.statuses, s.status)
  <2>1. WithHistory(s) = [s EXCEPT !.statuses = statuses]
    BY <1>2 DEF WithHistory, Record
  <2>2. statuses \in Seq(Status)
    BY DEF Record
  <2> HIDE DEF statuses
  <2> QED BY <2>1, <2>2 DEF Record
<1>3. CASE file # None
  <2> DEFINE statuses == IF file.status = s.status THEN file.statuses
                         ELSE Append(file.statuses, s.status)
             logged == file.logged \cup (Elements(s.messages) \ Elements(file.messages))
  <2>1. WithHistory(s) = [s EXCEPT !.statuses = statuses, !.logged = logged]
    BY <1>3 DEF WithHistory
  <2>2. statuses \in Seq(Status) /\ logged \subseteq Message
    BY <1>1, <1>3 DEF Record
  <2> HIDE DEF statuses, logged
  <2> QED BY <2>1, <2>2 DEF Record
<1> QED BY <1>2, <1>3

\* What the new history tells.
LEMMA WithHistoryTells ==
  ASSUME file \in Record \cup {None}, NEW s \in Record,
         file # None => /\ file.statuses # <<>>
                        /\ file.statuses[Len(file.statuses)] = file.status
  PROVE  /\ WithHistory(s).statuses # <<>>
         /\ WithHistory(s).statuses[Len(WithHistory(s).statuses)] = s.status
         /\ file # None => /\ Elements(file.statuses) \subseteq Elements(WithHistory(s).statuses)
                           /\ Elements(s.messages) \subseteq
                                WithHistory(s).logged \cup (Elements(file.messages) \ file.logged)
<1>1. CASE file = None
  BY <1>1 DEF WithHistory, Record
<1>2. CASE file # None /\ file.status = s.status
  BY <1>2 DEF WithHistory, Record, Elements
<1>3. CASE file # None /\ file.status # s.status
  <2>1. WithHistory(s).statuses = Append(file.statuses, s.status)
    BY <1>3 DEF WithHistory, Record
  <2>2. WithHistory(s).logged = file.logged \cup (Elements(s.messages) \ Elements(file.messages))
    BY <1>3 DEF WithHistory, Record
  <2>3. file.statuses \in Seq(Status) /\ s.status \in Status
    BY <1>3 DEF Record
  <2>4. Elements(file.statuses) \subseteq Elements(Append(file.statuses, s.status))
    BY <2>3 DEF Elements
  <2> QED BY <1>3, <2>1, <2>2, <2>3, <2>4
<1> QED BY <1>1, <1>2, <1>3

LEMMA TargetTyped ==
  ASSUME NEW status \in Status, NEW outcome
  PROVE  Target(status, outcome) \in Status
BY DEF Target, Status, Transitions

\* The record c is s with a summary of its compaction, if it has one.
Summarises(s, c) ==
  /\ c \in Record
  /\ c.status = s.status
  /\ c.messages = s.messages
  /\ c.workflows = s.workflows
  /\ c.compaction = s.compaction
  /\ s.compaction # None =>
       /\ c.summary # None
       /\ c.summary.of = s.compaction
       /\ c.summary.status = s.status
       /\ s.messages # <<>> => s.messages[Len(s.messages)] \in c.summary.recent

LEMMA SummarisedTyped ==
  ASSUME NEW s \in Record
  PROVE  Summarises(s, Summarised(s))
<1>1. CASE s.compaction = None
  BY <1>1 DEF Summarised, Summarises
<1>2. CASE s.compaction # None
  <2> DEFINE recent == IF Len(s.messages) <= Recent THEN Elements(s.messages)
                       ELSE After(s.messages, Len(s.messages) - Recent)
             summary == [of |-> s.compaction, status |-> s.status, recent |-> recent]
  <2>1. Summarised(s) = [s EXCEPT !.summary = summary]
    BY <1>2 DEF Summarised
  <2>2. s.messages \in Seq(Message) /\ Len(s.messages) \in Nat
    BY DEF Record
  <2>3. recent \subseteq Message
    BY <2>2 DEF Elements, After
  <2>4. summary \in Summary
    BY <1>2, <2>3 DEF Record, Summary
  <2>5. s.messages # <<>> => s.messages[Len(s.messages)] \in recent
    <3> SUFFICES ASSUME s.messages # <<>> PROVE s.messages[Len(s.messages)] \in recent
      OBVIOUS
    <3>1. Len(s.messages) >= 1
      BY <2>2
    <3> QED BY <2>2, <3>1 DEF Elements, After
  <2> HIDE DEF recent
  <2>6. /\ summary # None /\ summary.of = s.compaction /\ summary.status = s.status
        /\ s.messages # <<>> => s.messages[Len(s.messages)] \in summary.recent
    <3> HIDE DEF summary
    <3>1. summary # None
      BY <2>4
    <3> QED BY <2>5, <3>1 DEF summary
  <2> HIDE DEF summary
  <2> DEFINE c == [s EXCEPT !.summary = summary]
  <2>7. /\ c \in Record /\ c.summary = summary
        /\ c.status = s.status /\ c.messages = s.messages
        /\ c.workflows = s.workflows /\ c.compaction = s.compaction
    BY <2>4 DEF Record
  <2> HIDE DEF c
  <2>8. Summarises(s, c)
    BY <2>6, <2>7 DEF Summarises
  <2> QED BY <2>1, <2>8 DEF c
<1> QED BY <1>1, <1>2

\* The part of the history invariant and of the carry-forward that is about one record
RecordSound(s) == s.compaction # None => CompactionCovers(s) /\ SummaryTells(s)

LEMMA Joined ==
  ASSUME NEW s \in Seq(Message), NEW t \in Seq(Message)
  PROVE  /\ Len(s) \in Nat /\ Len(s \o t) = Len(s) + Len(t)
         /\ \A i \in 1..Len(t) : (s \o t)[Len(s) + i] = t[i]
OBVIOUS

LEMMA LongerByTwo ==
  ASSUME NEW s \in Seq(Message), NEW t \in Seq(Message), Len(t) = 2
  PROVE  /\ Len(s) \in Nat /\ Len(s \o t) = Len(s) + 2
         /\ (s \o t)[Len(s) + 2] = t[2]
<1> DEFINE u == s \o t
           n == Len(s)
<1>1. n \in Nat /\ Len(u) = n + Len(t) /\ \A i \in 1..Len(t) : u[n + i] = t[i]
  BY Joined, Zenon
<1> HIDE DEF u, n
<1>2. n \in Nat /\ Len(u) = n + 2 /\ u[n + 2] = t[2]
  BY <1>1
<1> QED BY <1>2, Zenon DEF u, n

Between(s, m, n) == {s[i] : i \in (m + 1)..n}

LEMMA FirstOfLonger ==
  ASSUME NEW s \in Seq(Message), NEW t \in Seq(Message), NEW n \in 0..Len(s)
  PROVE  /\ FirstOf(s \o t, n) = FirstOf(s, n)
         /\ \A m \in 0..n : Between(s \o t, m, n) = Between(s, m, n)
<1>1. \A i \in 1..n : (s \o t)[i] = s[i]
  OBVIOUS
<1>2. FirstOf(s \o t, n) = FirstOf(s, n)
  BY <1>1 DEF FirstOf
<1>3. ASSUME NEW m \in 0..n
      PROVE  Between(s \o t, m, n) = Between(s, m, n)
  <2>1. (m + 1)..n \subseteq 1..n
    OBVIOUS
  <2> QED BY <1>1, <2>1 DEF Between
<1> QED BY <1>2, <1>3

\* The record a is s with the two messages of r, whose workflow ended so.
Appends(s, r, outcome, a) ==
  /\ a \in Record
  /\ a.status = Target(s.status, outcome)
  /\ a.messages = s.messages \o << <<r, "user">>, <<r, "assistant">> >>
  /\ a.compaction = s.compaction
  /\ a.workflows = IF outcome = "raises" THEN s.workflows ELSE s.workflows \cup {r}
  /\ outcome = "raises" => a.summary = s.summary
  /\ outcome # "raises" /\ s.compaction # None =>
       /\ a.summary # None
       /\ a.summary.of = s.compaction
       /\ a.summary.status = Target(s.status, outcome)
       /\ <<r, "assistant">> \in a.summary.recent

LEMMA AppendedTyped ==
  ASSUME NEW s \in Record, NEW r \in Request, NEW outcome \in Outcome
  PROVE  Appends(s, r, outcome, Appended(s, r, outcome))
<1> DEFINE new == << <<r, "user">>, <<r, "assistant">> >>
           messages == s.messages \o new
           status == Target(s.status, outcome)
           workflows == s.workflows \cup {r}
           answered == [s EXCEPT !.messages = messages, !.status = status]
           recorded == [answered EXCEPT !.workflows = workflows]
<1>1. Appended(s, r, outcome) = IF outcome = "raises" THEN answered ELSE Summarised(recorded)
  BY DEF Appended
<1>2. /\ messages \in Seq(Message) /\ status \in Status /\ workflows \in SUBSET Request
      /\ messages # <<>> /\ messages[Len(messages)] = <<r, "assistant">>
  <2>1. s.messages \in Seq(Message) /\ s.status \in Status /\ s.workflows \in SUBSET Request
    BY DEF Record
  <2>2. new \in Seq(Message) /\ Len(new) = 2 /\ new[2] = <<r, "assistant">>
    BY DEF Message
  <2>3. Len(messages) = Len(s.messages) + 2 /\ messages[Len(s.messages) + 2] = new[2]
    BY <2>1, <2>2
  <2>4. status \in Status
    BY <2>1, TargetTyped
  <2> HIDE DEF new
  <2>5. messages \in Seq(Message)
    BY <2>1, <2>2
  <2> QED BY <2>1, <2>2, <2>3, <2>4, <2>5
<1> HIDE DEF messages, status, workflows
<1>3. answered \in Record /\ recorded \in Record
  BY <1>2 DEF Record
<1>4. /\ answered.status = status /\ answered.messages = messages
      /\ answered.compaction = s.compaction /\ answered.workflows = s.workflows
      /\ answered.summary = s.summary
      /\ recorded.status = status /\ recorded.messages = messages
      /\ recorded.compaction = s.compaction /\ recorded.workflows = workflows
  BY DEF Record
<1> HIDE DEF answered, recorded
<1>5. CASE outcome = "raises"
  <2>1. Appends(s, r, outcome, answered)
    BY <1>3, <1>4, <1>5 DEF messages, status, Appends
  <2> QED BY <1>1, <1>5, <2>1
<1>6. CASE outcome # "raises"
  <2> DEFINE a == Summarised(recorded)
  <2>1. Summarises(recorded, a)
    BY <1>3, SummarisedTyped
  <2> HIDE DEF a
  <2>2. /\ a \in Record /\ a.status = status /\ a.messages = messages
        /\ a.compaction = s.compaction /\ a.workflows = workflows
        /\ s.compaction # None =>
             /\ a.summary # None /\ a.summary.of = s.compaction
             /\ a.summary.status = status /\ <<r, "assistant">> \in a.summary.recent
    BY <1>2, <1>4, <2>1 DEF Summarises
  <2>3. Appends(s, r, outcome, a)
    BY <1>6, <2>2 DEF Appends, messages, status, workflows
  <2> QED BY <1>1, <1>6, <2>3 DEF a
<1> QED BY <1>5, <1>6

\* An append keeps what is carried forward sound.
LEMMA AppendedSound ==
  ASSUME NEW s \in Record, NEW r \in Request, NEW outcome \in Outcome,
         RecordSound(s), r \notin s.workflows
  PROVE  RecordSound(Appended(s, r, outcome))
<1> DEFINE a == Appended(s, r, outcome)
           new == << <<r, "user">>, <<r, "assistant">> >>
<1>20. Appends(s, r, outcome, a)
  BY AppendedTyped
<1> HIDE DEF a
<1>0. a.compaction = s.compaction
  BY <1>20 DEF Appends
<1> SUFFICES ASSUME s.compaction # None
             PROVE  CompactionCovers(a) /\ SummaryTells(a)
  BY <1>0, Zenon DEF RecordSound, a
<1>1. /\ s.messages \in Seq(Message) /\ new \in Seq(Message) /\ Len(s.messages) \in Nat
      /\ a.messages = s.messages \o new /\ Len(a.messages) = Len(s.messages) + 2
      /\ a.messages[Len(a.messages)] = <<r, "assistant">>
  <2>1. s.messages \in Seq(Message)
    BY DEF Record
  <2>2. new \in Seq(Message) /\ Len(new) = 2 /\ new[2] = <<r, "assistant">>
    BY DEF Message
  <2>3. a.messages = s.messages \o new
    BY <1>20 DEF Appends
  <2> HIDE DEF new
  <2>4. /\ Len(s.messages \o new) = Len(s.messages) + 2
        /\ (s.messages \o new)[Len(s.messages) + 2] = new[2]
        /\ Len(s.messages) \in Nat
    BY <2>1, <2>2, LongerByTwo
  <2> QED BY <2>1, <2>2, <2>3, <2>4
<1>2. CompactionCovers(a)
  <2>1. CompactionCovers(s) /\ a.compaction = s.compaction
    BY <1>0 DEF RecordSound
  <2>2. PICK n \in 1..Len(s.messages) : \E m \in 0..n :
          /\ s.compaction.compacted = FirstOf(s.messages, m)
          /\ s.compaction.retained = {s.messages[i] : i \in (m + 1)..n}
    BY <2>1 DEF CompactionCovers
  <2>3. PICK m \in 0..n : /\ s.compaction.compacted = FirstOf(s.messages, m)
                          /\ s.compaction.retained = {s.messages[i] : i \in (m + 1)..n}
    BY <2>2
  <2>4. n \in 1..Len(a.messages) /\ n \in 0..Len(s.messages) /\ m \in 0..Len(s.messages)
    BY <1>1
  <2>5. /\ FirstOf(a.messages, n) = FirstOf(s.messages, n)
        /\ FirstOf(a.messages, m) = FirstOf(s.messages, m)
        /\ {a.messages[i] : i \in (m + 1)..n} = {s.messages[i] : i \in (m + 1)..n}
    <3>1. /\ FirstOf(s.messages \o new, n) = FirstOf(s.messages, n)
          /\ FirstOf(s.messages \o new, m) = FirstOf(s.messages, m)
          /\ {(s.messages \o new)[i] : i \in (m + 1)..n} = {s.messages[i] : i \in (m + 1)..n}
      <4> HIDE DEF new
      <4>1. FirstOf(s.messages \o new, n) = FirstOf(s.messages, n)
        BY <1>1, <2>4, FirstOfLonger
      <4>2. FirstOf(s.messages \o new, m) = FirstOf(s.messages, m)
        BY <1>1, <2>4, FirstOfLonger
      <4>3. Between(s.messages \o new, m, n) = Between(s.messages, m, n)
        BY <1>1, <2>4, FirstOfLonger
      <4> QED BY <4>1, <4>2, <4>3 DEF Between
    <3> HIDE DEF new
    <3> QED BY <1>1, <3>1
  <2> QED BY <2>1, <2>3, <2>4, <2>5 DEF CompactionCovers
<1>3. SummaryTells(a)
  <2>1. SummaryTells(s)
    BY DEF RecordSound
  <2>2. CASE outcome = "raises"
    <3>1. a.summary = s.summary /\ a.compaction = s.compaction /\ a.workflows = s.workflows
      BY <1>20, <2>2 DEF Appends
    <3>2. a.messages[Len(a.messages)][1] \notin a.workflows
      BY <1>1, <3>1
    <3> QED BY <2>1, <3>1, <3>2 DEF SummaryTells
  <2>3. CASE outcome # "raises"
    <3>1. /\ a.summary # None /\ a.summary.of = a.compaction
          /\ a.summary.status = a.status
          /\ <<r, "assistant">> \in a.summary.recent
      BY <1>20, <2>3 DEF Appends
    <3> QED BY <1>1, <3>1 DEF SummaryTells
  <2> QED BY <2>2, <2>3
<1> QED BY <1>2, <1>3

\* What a compaction makes of its copy.
LEMMA CompactedSound ==
  ASSUME NEW s \in Record, NEW k \in Nat \ {0}, Len(s.messages) > k
  PROVE  LET c == Summarised([s EXCEPT !.compaction = CompactionOf(s.messages, k)])
         IN /\ c \in Record
            /\ c.status = s.status /\ c.messages = s.messages /\ c.workflows = s.workflows
            /\ c.compaction = CompactionOf(s.messages, k)
            /\ RecordSound(c)
<1> DEFINE of == CompactionOf(s.messages, k)
           d == [s EXCEPT !.compaction = of]
           c == Summarised(d)
           n == Len(s.messages)
<1>1. s.messages \in Seq(Message) /\ n \in Nat /\ n - k \in 1..n
  BY DEF Record
<1>2. of.compacted = FirstOf(s.messages, n - k) /\ of.retained = After(s.messages, n - k)
  BY DEF CompactionOf
<1>3. of \in Compaction
  BY <1>1 DEF CompactionOf, Compaction, FirstOf, After
<1>4. of # None
  BY <1>3
<1>5. /\ d \in Record /\ d.status = s.status /\ d.messages = s.messages
      /\ d.workflows = s.workflows /\ d.compaction = of
  <2> HIDE DEF of
  <2> QED BY <1>3 DEF Record
<1> HIDE DEF of, d
<1>6. /\ c \in Record
      /\ c.status = s.status /\ c.messages = s.messages /\ c.workflows = s.workflows
      /\ c.compaction = of /\ c.summary # None /\ c.summary.of = of /\ c.summary.status = s.status
      /\ s.messages[n] \in c.summary.recent
  <2>1. Summarises(d, c)
    BY <1>5, SummarisedTyped
  <2> HIDE DEF c
  <2> QED BY <1>1, <1>4, <1>5, <2>1 DEF Summarises
<1> HIDE DEF c
<1>7. CompactionCovers(c)
  <2>1. /\ c.compaction.compacted = FirstOf(c.messages, n - k)
        /\ c.compaction.retained = {c.messages[i] : i \in ((n - k) + 1)..n}
    BY <1>2, <1>6 DEF After
  <2>2. n \in 1..Len(c.messages) /\ n - k \in 0..n
    BY <1>1, <1>6
  <2> QED BY <2>1, <2>2 DEF CompactionCovers
<1>8. SummaryTells(c)
  BY <1>6 DEF SummaryTells
<1>9. RecordSound(c)
  BY <1>7, <1>8 DEF RecordSound
<1> QED BY <1>6, <1>9 DEF c, d, of

-----------------------------------------------------------------------------
(* The inductive invariant *)

\* Nothing is read before the session is created, and it is on disk until it is pruned.
Lifetime ==
  /\ fate = "absent" => file = None /\ \A r \in Request : pc[r] = "idle"
  /\ fate = "created" => file # None

\* What a request has checked stays true of its copy.
Holding ==
  \A r \in Request :
    /\ InFlight(r) => copy[r] # None
    /\ pc[r] = "append" => copy[r].status # "archived"
    /\ pc[r] = "compact" => keep[r] \in Keep /\ Len(copy[r].messages) > keep[r]

\* A record names the workflows of recorded requests only: the last message of
\* a request that is recorded now is not taken for one that has a workflow.
Kept(s) == RecordSound(s) /\ s.workflows \subseteq {q \in Request : pc[q] = "recorded"}

AllKept ==
  /\ file # None => Kept(file)
  /\ \A r \in Request : InFlight(r) => Kept(copy[r])

IInv == TypeOK /\ Lifetime /\ Holding /\ AllKept /\ HistoryTells

LEMMA InitInvariant == Init => IInv
BY DEF Init, IInv, TypeOK, Lifetime, Holding, AllKept, HistoryTells, InFlight

LEMMA WriteInvariant ==
  ASSUME IInv, NEW s \in Record, Write(s)
  PROVE  /\ file' \in Record /\ file' # None
         /\ file'.status = s.status /\ file'.messages = s.messages
         /\ file'.workflows = s.workflows
         /\ file'.compaction = s.compaction /\ file'.summary = s.summary
         /\ RecordSound(s) => RecordSound(file')
         /\ file'.statuses # <<>> /\ file'.statuses[Len(file'.statuses)] = file'.status
         /\ file # None => Elements(file.statuses) \subseteq Elements(file'.statuses)
         /\ fate = "created" => Elements(file'.messages) \subseteq file'.logged
<1>1. /\ file \in Record \cup {None}
      /\ file # None => file.statuses # <<>> /\ file.statuses[Len(file.statuses)] = file.status
      /\ fate = "created" => file # None /\ Elements(file.messages) \subseteq file.logged
  BY DEF IInv, TypeOK, Lifetime, HistoryTells
<1>2. file' = WithHistory(s)
  BY DEF Write
<1>3. /\ file' \in Record /\ file' # None
      /\ file'.status = s.status /\ file'.messages = s.messages
      /\ file'.workflows = s.workflows
      /\ file'.compaction = s.compaction /\ file'.summary = s.summary
  BY <1>1, <1>2, WithHistoryTyped
<1>4. /\ file'.statuses # <<>> /\ file'.statuses[Len(file'.statuses)] = s.status
      /\ file # None => /\ Elements(file.statuses) \subseteq Elements(file'.statuses)
                        /\ Elements(s.messages) \subseteq
                             file'.logged \cup (Elements(file.messages) \ file.logged)
  BY <1>1, <1>2, WithHistoryTells
<1>5. RecordSound(s) => RecordSound(file')
  BY <1>3 DEF RecordSound, CompactionCovers, SummaryTells
<1> QED BY <1>1, <1>3, <1>4, <1>5

\* A step that ends a request and may write leaves the invariant.
LEMMA EndInvariant ==
  ASSUME IInv, NEW r \in Request, InFlight(r), NEW result, UNCHANGED fate,
         End(r, result), result \in {"recorded", "lost", "archived", "compacted"},
         \/ UNCHANGED file
         \/ \E s \in Record : /\ Write(s) /\ RecordSound(s)
                              /\ s.workflows \subseteq {q \in Request : pc'[q] = "recorded"}
  PROVE  IInv'
<1>1. /\ \A q \in Request : q # r => pc'[q] = pc[q] /\ copy'[q] = copy[q]
      /\ pc'[r] = result /\ copy'[r] = None /\ keep' = keep
  BY DEF IInv, TypeOK, End
<1>2. \A q \in Request : (InFlight(q))' => q # r /\ InFlight(q)
  BY <1>1 DEF InFlight
<1>3. {q \in Request : pc[q] = "recorded"} \subseteq {q \in Request : pc'[q] = "recorded"}
  BY <1>1 DEF InFlight
<1>4. \/ UNCHANGED file
      \/ /\ file' \in Record /\ file' # None
         /\ RecordSound(file')
         /\ file'.workflows \subseteq {q \in Request : pc'[q] = "recorded"}
         /\ file'.statuses # <<>> /\ file'.statuses[Len(file'.statuses)] = file'.status
         /\ fate = "created" => Elements(file'.messages) \subseteq file'.logged
  <2> SUFFICES ASSUME NEW s \in Record, Write(s), RecordSound(s),
                      s.workflows \subseteq {q \in Request : pc'[q] = "recorded"}
               PROVE  /\ file' \in Record /\ file' # None
                      /\ RecordSound(file')
                      /\ file'.workflows \subseteq {q \in Request : pc'[q] = "recorded"}
                      /\ file'.statuses # <<>>
                      /\ file'.statuses[Len(file'.statuses)] = file'.status
                      /\ fate = "created" => Elements(file'.messages) \subseteq file'.logged
    OBVIOUS
  <2> QED BY WriteInvariant
<1>5. fate # "absent"
  BY DEF IInv, Lifetime, InFlight
<1>6. TypeOK'
  BY <1>4 DEF IInv, TypeOK, End
<1>7. Lifetime'
  BY <1>4, <1>5 DEF IInv, Lifetime
<1>8. Holding'
  BY <1>1, <1>2 DEF IInv, Holding, InFlight
<1>9. AllKept'
  BY <1>1, <1>2, <1>3, <1>4 DEF IInv, AllKept, Kept
<1>10. HistoryTells'
  BY <1>4, <1>5 DEF IInv, TypeOK, HistoryTells
<1> QED BY <1>6, <1>7, <1>8, <1>9, <1>10 DEF IInv

\* So does one that begins a request.
LEMMA LoadInvariant ==
  ASSUME IInv, NEW r \in Request, NEW operation \in {"append", "archive", "compact"},
         Load(r, operation), UNCHANGED <<file, fate>>,
         operation = "append" => file.status # "archived",
         IF operation = "compact"
         THEN \E k \in Keep : Len(file.messages) > k /\ keep' = [keep EXCEPT ![r] = k]
         ELSE UNCHANGED keep
  PROVE  IInv'
<1>1. /\ \A q \in Request : q # r => pc'[q] = pc[q] /\ copy'[q] = copy[q] /\ keep'[q] = keep[q]
      /\ pc'[r] = operation /\ pc[r] = "idle" /\ copy'[r] = file /\ file # None
  BY DEF IInv, TypeOK, Load
<1>2. \A q \in Request : q # r => (InFlight(q))' = InFlight(q)
  BY <1>1 DEF InFlight
<1>3. {q \in Request : pc'[q] = "recorded"} = {q \in Request : pc[q] = "recorded"}
  BY <1>1
<1>4. TypeOK'
  BY DEF IInv, TypeOK, Load
<1>5. Lifetime'
  BY <1>1 DEF IInv, Lifetime
<1>6. Holding'
  <2>1. operation = "compact" => keep'[r] \in Keep /\ Len(file.messages) > keep'[r]
    BY DEF IInv, TypeOK
  <2> QED BY <1>1, <1>2, <2>1 DEF IInv, Holding, InFlight
<1>7. AllKept'
  BY <1>1, <1>2, <1>3 DEF IInv, AllKept, Kept
<1>8. HistoryTells'
  BY DEF IInv, HistoryTells
<1> QED BY <1>4, <1>5, <1>6, <1>7, <1>8 DEF IInv

\* What each request makes of its copy when it ends.
LEMMA EndAppendInvariant ==
  ASSUME IInv, NEW r \in Request, NEW outcome \in Outcome, EndAppend(r, outcome)
  PROVE  IInv'
<1> DEFINE s == Appended(copy[r], r, outcome)
<1>1. /\ InFlight(r) /\ copy[r] \in Record /\ RecordSound(copy[r])
      /\ copy[r].workflows \subseteq {q \in Request : pc[q] = "recorded"}
  BY DEF EndAppend, InFlight, IInv, TypeOK, Holding, AllKept, Kept
<1>2. r \notin copy[r].workflows
  BY <1>1 DEF EndAppend
<1>20. Appends(copy[r], r, outcome, s)
  BY <1>1, AppendedTyped
<1>3. CASE CanRecord(copy[r], outcome)
  <2>1. Write(s) /\ End(r, "recorded") /\ UNCHANGED fate
    BY <1>3 DEF EndAppend
  <2>2. s \in Record /\ RecordSound(s)
    <3>1. RecordSound(s)
      BY <1>1, <1>2, AppendedSound, Zenon
    <3> HIDE DEF s
    <3>2. s \in Record
      BY <1>20 DEF Appends
    <3> QED BY <3>1, <3>2
  <2> HIDE DEF s
  <2>3. s.workflows \subseteq copy[r].workflows \cup {r}
    BY <1>20 DEF Appends
  <2>4. s.workflows \subseteq {q \in Request : pc'[q] = "recorded"}
    BY <1>1, <2>1, <2>3 DEF End, IInv, TypeOK, InFlight
  <2> HIDE DEF s
  <2> QED BY <1>1, <2>1, <2>2, <2>4, EndInvariant
<1>4. CASE ~ CanRecord(copy[r], outcome)
  BY <1>1, <1>4, EndInvariant DEF EndAppend
<1> QED BY <1>3, <1>4

LEMMA EndArchiveInvariant ==
  ASSUME IInv, NEW r \in Request, EndArchive(r)
  PROVE  IInv'
<1> DEFINE s == [copy[r] EXCEPT !.status = "archived"]
<1>1. /\ InFlight(r) /\ copy[r] \in Record /\ RecordSound(copy[r])
      /\ copy[r].workflows \subseteq {q \in Request : pc[q] = "recorded"}
  BY DEF EndArchive, InFlight, IInv, TypeOK, Holding, AllKept, Kept
<1>2. /\ s \in Record /\ s.status = "archived" /\ s.messages = copy[r].messages
      /\ s.workflows = copy[r].workflows
      /\ s.compaction = copy[r].compaction /\ s.summary = copy[r].summary
  BY <1>1 DEF Record, Status, Transitions
<1>3. Write(s) /\ End(r, "archived") /\ UNCHANGED fate
  BY DEF EndArchive
<1> HIDE DEF s
<1>4. RecordSound(s)
  <2> SUFFICES ASSUME s.compaction # None
               PROVE  CompactionCovers(s) /\ SummaryTells(s)
    BY Zenon DEF RecordSound
  <2>1. CompactionCovers(copy[r]) /\ SummaryTells(copy[r])
    BY <1>1, <1>2 DEF RecordSound
  <2>2. CompactionCovers(s)
    BY <1>2, <2>1 DEF CompactionCovers
  <2>3. SummaryTells(s)
    BY <1>2, <2>1 DEF SummaryTells
  <2> QED BY <2>2, <2>3
<1>5. s.workflows \subseteq {q \in Request : pc'[q] = "recorded"}
  BY <1>1, <1>2, <1>3 DEF End, IInv, TypeOK, InFlight
<1> QED BY <1>1, <1>2, <1>3, <1>4, <1>5, EndInvariant

LEMMA EndCompactInvariant ==
  ASSUME IInv, NEW r \in Request, EndCompact(r)
  PROVE  IInv'
<1> DEFINE s == Summarised([copy[r] EXCEPT !.compaction = CompactionOf(copy[r].messages, keep[r])])
<1>1. /\ InFlight(r) /\ copy[r] \in Record /\ keep[r] \in Nat \ {0}
      /\ Len(copy[r].messages) > keep[r]
      /\ copy[r].workflows \subseteq {q \in Request : pc[q] = "recorded"}
  BY DEF EndCompact, InFlight, IInv, TypeOK, Holding, AllKept, Kept
<1>2. s \in Record /\ RecordSound(s) /\ s.workflows = copy[r].workflows
  BY <1>1, CompactedSound
<1>3. (Write(s) \/ UNCHANGED file) /\ End(r, "compacted") /\ UNCHANGED fate
  BY DEF EndCompact
<1> HIDE DEF s
<1>4. s.workflows \subseteq {q \in Request : pc'[q] = "recorded"}
  BY <1>1, <1>2, <1>3 DEF End, IInv, TypeOK, InFlight
<1> QED BY <1>1, <1>2, <1>3, <1>4, EndInvariant

LEMMA CreateInvariant ==
  ASSUME IInv, CreateSession
  PROVE  IInv'
<1>1. /\ NewSession \in Record /\ NewSession.compaction = None
      /\ NewSession.workflows = {} /\ Elements(NewSession.messages) = {}
  BY NewSessionTyped DEF Elements
<1>2. RecordSound(NewSession)
  BY <1>1 DEF RecordSound
<1>3. /\ file' \in Record /\ file' # None /\ RecordSound(file') /\ file'.workflows = {}
      /\ file'.messages = <<>>
      /\ file'.statuses # <<>> /\ file'.statuses[Len(file'.statuses)] = file'.status
  BY <1>1, <1>2, NewSessionTyped, WriteInvariant DEF CreateSession
<1>4. \A r \in Request : ~ InFlight(r) /\ ~ (InFlight(r))'
  BY DEF IInv, Lifetime, CreateSession, InFlight
<1>5. TypeOK' /\ Lifetime'
  BY <1>3 DEF IInv, TypeOK, Lifetime, CreateSession
<1>6. Holding'
  BY <1>4 DEF Holding, InFlight
<1>7. AllKept'
  BY <1>3, <1>4 DEF AllKept, Kept
<1>8. HistoryTells'
  BY <1>3 DEF HistoryTells, Elements
<1> QED BY <1>5, <1>6, <1>7, <1>8 DEF IInv

LEMMA StepInvariant ==
  ASSUME IInv, [Next]_vars
  PROVE  IInv'
<1>1. CASE CreateSession
  BY <1>1, CreateInvariant
<1>2. CASE Prune
  BY <1>2 DEF Prune, IInv, TypeOK, Lifetime, Holding, AllKept, Kept, HistoryTells, InFlight
<1>3. ASSUME NEW r \in Request, AppendNext(r)
      PROVE  IInv'
  <2>1. CASE BeginAppend(r)
    BY <2>1, LoadInvariant DEF BeginAppend
  <2> QED BY <1>3, <2>1, EndAppendInvariant DEF AppendNext
<1>4. ASSUME NEW r \in Request, MaintainNext(r)
      PROVE  IInv'
  <2>1. CASE BeginArchive(r)
    BY <2>1, LoadInvariant DEF BeginArchive
  <2>2. ASSUME NEW k \in Keep, BeginCompact(r, k)
        PROVE  IInv'
    <3>1. /\ Load(r, "compact") /\ UNCHANGED <<file, fate>>
          /\ \E j \in Keep : Len(file.messages) > j /\ keep' = [keep EXCEPT ![r] = j]
      BY <2>2 DEF BeginCompact
    <3> QED BY <3>1, LoadInvariant
  <2> QED BY <1>4, <2>1, <2>2, EndArchiveInvariant, EndCompactInvariant DEF MaintainNext
<1>5. CASE UNCHANGED vars
  BY <1>5 DEF vars, IInv, TypeOK, Lifetime, Holding, AllKept, Kept, HistoryTells, InFlight
<1> QED BY <1>1, <1>2, <1>3, <1>4, <1>5 DEF Next

THEOREM InvariantHolds == Spec => []IInv
<1> QED BY InitInvariant, StepInvariant, PTL DEF Spec

\* Every record and every copy is a session record (runtime/session.py).
THEOREM TypeCorrect == Spec => []TypeOK
<1>1. IInv => TypeOK
  BY DEF IInv
<1> QED BY <1>1, InvariantHolds, PTL

\* However many appends, archivings, compactions and prunings overlap, the
\* transition history write_session keeps ends with the record's status and
\* has an entry for each message.
THEOREM HistoryAlwaysTells == Spec => []HistoryTells
<1>1. IInv => HistoryTells
  BY DEF IInv
<1> QED BY <1>1, InvariantHolds, PTL

\* However copies overwrite each other, the compaction on record covers a first
\* part of the messages on record, and its summary tells of the latest.
THEOREM ContinuityAlwaysSound == Spec => []ContinuitySound
<1>1. IInv => ContinuitySound
  BY DEF IInv, AllKept, Kept, RecordSound, ContinuitySound
<1> QED BY <1>1, InvariantHolds, PTL

-----------------------------------------------------------------------------
(* Requests one at a time *)

\* The copy of the only request is the record.
Alone ==
  ~ overlapped =>
    /\ \A p, q \in Request : InFlight(p) /\ InFlight(q) => p = q
    /\ \A r \in Request : InFlight(r) => copy[r] = file

LEMMA AloneStep ==
  ASSUME IInv, Alone, [Next]_vars
  PROVE  Alone'
<1>1. ASSUME NEW r \in Request, NEW operation \in {"append", "archive", "compact"},
             Load(r, operation), UNCHANGED file
      PROVE  Alone'
  <2>1. /\ \A q \in Request : q # r => pc'[q] = pc[q] /\ copy'[q] = copy[q]
        /\ copy'[r] = file
    BY <1>1 DEF Load, IInv, TypeOK
  <2>2. ~ overlapped' => ~ overlapped /\ \A q \in Request : ~ InFlight(q)
    BY <1>1 DEF Load
  <2> QED BY <1>1, <2>1, <2>2 DEF Alone, InFlight
<1>2. ASSUME NEW r \in Request, NEW result \in {"recorded", "lost", "archived", "compacted"},
             InFlight(r), End(r, result)
      PROVE  Alone'
  <2>1. /\ \A q \in Request : q # r => pc'[q] = pc[q] /\ copy'[q] = copy[q]
        /\ pc'[r] = result /\ overlapped' = overlapped
    BY <1>2 DEF End, IInv, TypeOK
  <2>2. \A q \in Request : (InFlight(q))' => InFlight(q) /\ q # r
    BY <1>2, <2>1 DEF InFlight
  <2> QED BY <1>2, <2>1, <2>2 DEF Alone
<1>3. CASE CreateSession
  BY <1>3 DEF CreateSession, IInv, Lifetime, Alone, InFlight
<1>4. CASE Prune
  BY <1>4 DEF Prune, Alone, InFlight
<1>5. ASSUME NEW r \in Request, AppendNext(r)
      PROVE  Alone'
  <2>1. CASE BeginAppend(r)
    BY <1>1, <2>1 DEF BeginAppend
  <2>2. ASSUME NEW outcome \in Outcome, EndAppend(r, outcome)
        PROVE  Alone'
    BY <1>2, <2>2 DEF EndAppend, InFlight
  <2> QED BY <1>5, <2>1, <2>2 DEF AppendNext
<1>6. ASSUME NEW r \in Request, MaintainNext(r)
      PROVE  Alone'
  BY <1>1, <1>2, <1>6
     DEF MaintainNext, BeginArchive, BeginCompact, EndArchive, EndCompact, InFlight
<1>7. CASE UNCHANGED vars
  BY <1>7 DEF vars, Alone, InFlight
<1> QED BY <1>3, <1>4, <1>5, <1>6, <1>7 DEF Next

\* Only a failed session takes no new status, and it takes no new failure.
LEMMA OnlyErroredLoses ==
  ASSUME NEW s \in Record, s.status # "archived", NEW outcome \in Outcome,
         ~ CanRecord(s, outcome)
  PROVE  s.status = "errored"
BY DEF Record, CanRecord, Target, Transitions, Status, Outcome

\* A write by the only request keeps what the record tells of others.
LEMMA RunsKept ==
  ASSUME IInv, RunsRecorded, NEW s \in Record, Write(s), file # None,
         Elements(file.messages) \subseteq Elements(s.messages),
         UNCHANGED overlapped, NEW r \in Request, NEW result, UNCHANGED keep,
         pc' = [pc EXCEPT ![r] = result],
         result = "recorded" => {<<r, "user">>, <<r, "assistant">>} \subseteq Elements(s.messages),
         result # "lost"
  PROVE  RunsRecorded'
<1>1. /\ Elements(file'.messages) = Elements(s.messages)
      /\ Elements(file.statuses) \subseteq Elements(file'.statuses)
  BY WriteInvariant
<1>2. \A q \in Request : pc'[q] = IF q = r THEN result ELSE pc[q]
  BY DEF IInv, TypeOK
<1> QED BY <1>1, <1>2 DEF RunsRecorded

LEMMA LongerHasMore ==
  ASSUME NEW s \in Seq(Message), NEW t \in Seq(Message)
  PROVE  Elements(s) \cup Elements(t) \subseteq Elements(s \o t)
<1>1. \A i \in 1..Len(s) : i \in 1..Len(s \o t) /\ (s \o t)[i] = s[i]
  OBVIOUS
<1>2. \A i \in 1..Len(t) : Len(s) + i \in 1..Len(s \o t) /\ (s \o t)[Len(s) + i] = t[i]
  OBVIOUS
<1> QED BY <1>1, <1>2 DEF Elements

LEMMA RunsStep ==
  ASSUME IInv, Alone, RunsRecorded, [Next]_vars
  PROVE  RunsRecorded'
<1> SUFFICES ASSUME ~ overlapped', file' # None
             PROVE  RunsRecorded'
  BY DEF RunsRecorded
<1>1. ~ overlapped
  BY DEF Next, vars, CreateSession, Prune, AppendNext, MaintainNext, BeginAppend, EndAppend,
         BeginArchive, EndArchive, BeginCompact, EndCompact, Load, End
<1>2. ASSUME NEW r \in Request, InFlight(r)
      PROVE  /\ copy[r] = file /\ file \in Record /\ file # None
             /\ file.messages \in Seq(Message)
    BY <1>1, <1>2 DEF Alone, IInv, Holding, TypeOK, Record
<1>3. CASE CreateSession
  BY <1>3 DEF CreateSession, RunsRecorded, IInv, Lifetime
<1>4. CASE Prune
  BY <1>4 DEF Prune
<1>5. ASSUME NEW r \in Request, NEW operation \in {"append", "archive", "compact"},
             Load(r, operation), UNCHANGED file
      PROVE  RunsRecorded'
  BY <1>1, <1>5 DEF Load, RunsRecorded, IInv, TypeOK
<1>6. ASSUME NEW r \in Request, NEW outcome \in Outcome, EndAppend(r, outcome)
      PROVE  RunsRecorded'
  <2>1. /\ copy[r] = file /\ file \in Record /\ file # None /\ file.messages \in Seq(Message)
        /\ file.status # "archived"
    BY <1>2, <1>6 DEF EndAppend, InFlight, IInv, Holding
  <2>2. CASE CanRecord(copy[r], outcome)
    <3> DEFINE s == Appended(file, r, outcome)
               new == << <<r, "user">>, <<r, "assistant">> >>
    <3>1. Write(s) /\ End(r, "recorded")
      BY <1>6, <2>1, <2>2 DEF EndAppend
    <3>9. Appends(file, r, outcome, s)
      BY <2>1, AppendedTyped
    <3> HIDE DEF s
    <3>2. s \in Record
      BY <3>9 DEF Appends
    <3>3. s.messages = file.messages \o new
      BY <3>9 DEF Appends
    <3>4. new \in Seq(Message) /\ Elements(new) = {<<r, "user">>, <<r, "assistant">>}
      BY DEF Message, Elements
    <3> HIDE DEF new
    <3>5. Elements(file.messages) \cup Elements(new) \subseteq Elements(s.messages)
      BY <2>1, <3>3, <3>4, LongerHasMore
    <3> QED BY <1>1, <2>1, <3>1, <3>2, <3>4, <3>5, RunsKept DEF End
  <2>3. CASE ~ CanRecord(copy[r], outcome)
    <3>1. UNCHANGED file /\ End(r, "lost")
      BY <1>6, <2>3 DEF EndAppend
    <3>2. file.status = "errored"
      BY <2>1, <2>3, OnlyErroredLoses
    <3>3. "errored" \in Elements(file.statuses)
      BY <2>1, <3>2 DEF IInv, HistoryTells, Record, Elements
    <3> QED BY <1>1, <2>1, <3>1, <3>3 DEF End, RunsRecorded, IInv, TypeOK
  <2> QED BY <2>2, <2>3
<1>7. ASSUME NEW r \in Request, EndArchive(r)
      PROVE  RunsRecorded'
  <2>1. copy[r] = file /\ file \in Record /\ file # None
    BY <1>2, <1>7 DEF EndArchive, InFlight
  <2> DEFINE s == [file EXCEPT !.status = "archived"]
  <2>2. s \in Record /\ s.messages = file.messages
    BY <2>1 DEF Record, Status, Transitions
  <2>3. Write(s) /\ End(r, "archived")
    BY <1>7, <2>1 DEF EndArchive
  <2> HIDE DEF s
  <2> QED BY <2>1, <2>2, <2>3, RunsKept DEF End
<1>8. ASSUME NEW r \in Request, EndCompact(r)
      PROVE  RunsRecorded'
  <2>1. copy[r] = file /\ file \in Record /\ file # None
    BY <1>2, <1>8 DEF EndCompact, InFlight
  <2> DEFINE s == Summarised([file EXCEPT !.compaction = CompactionOf(file.messages, keep[r])])
  <2>2. keep[r] \in Nat \ {0} /\ Len(file.messages) > keep[r]
    BY <1>8, <2>1 DEF EndCompact, IInv, Holding
  <2>3. s \in Record /\ s.messages = file.messages
    BY <2>1, <2>2, CompactedSound
  <2>4. (Write(s) \/ UNCHANGED file) /\ End(r, "compacted")
    BY <1>8, <2>1 DEF EndCompact
  <2> HIDE DEF s
  <2>5. CASE Write(s)
    BY <2>1, <2>3, <2>4, <2>5, RunsKept DEF End
  <2>6. CASE UNCHANGED file
    BY <1>1, <2>4, <2>6 DEF End, RunsRecorded, IInv, TypeOK
  <2> QED BY <2>4, <2>5, <2>6
<1>9. CASE UNCHANGED vars
  BY <1>9 DEF vars, RunsRecorded
<1>10. ASSUME NEW r \in Request, AppendNext(r)
       PROVE  RunsRecorded'
  BY <1>5, <1>6, <1>10 DEF AppendNext, BeginAppend
<1>11. ASSUME NEW r \in Request, MaintainNext(r)
       PROVE  RunsRecorded'
  BY <1>5, <1>7, <1>8, <1>11 DEF MaintainNext, BeginArchive, BeginCompact
<1> QED BY <1>3, <1>4, <1>9, <1>10, <1>11 DEF Next

\* While requests and prunings do not overlap, an append whose workflow ran is
\* on record, and one is lost only after a failure (transition_session raises).
THEOREM RunsAlwaysRecorded == Spec => []RunsRecorded
<1>1. Init => Alone /\ RunsRecorded
  BY DEF Init, Alone, RunsRecorded, InFlight
<1> QED BY <1>1, InvariantHolds, AloneStep, RunsStep, PTL DEF Spec

-----------------------------------------------------------------------------
(* Advice *)

\* A compaction that keeps k messages leaves at most k uncompacted.
LEMMA FewUncompacted ==
  ASSUME NEW s \in Record, NEW k \in Nat \ {0}, Len(s.messages) > k, k <= MaxUncompacted,
         s.compaction = CompactionOf(s.messages, k)
  PROVE  Advice(s) = "within_budget"
<1> DEFINE n == Len(s.messages)
           uncompacted == {i \in 1..n : s.messages[i] \notin s.compaction.compacted}
<1>1. n \in Nat /\ n - k \in 1..n
  BY DEF Record
<1>2. s.compaction.compacted = {s.messages[i] : i \in 1..(n - k)}
  BY DEF CompactionOf, FirstOf
<1>3. uncompacted \subseteq ((n - k) + 1)..n
  BY <1>1, <1>2
<1>4. IsFiniteSet(((n - k) + 1)..n) /\ Cardinality(((n - k) + 1)..n) = k
  <2> DEFINE a == (n - k) + 1
             b == n
  <2>1. a \in Int /\ b \in Int /\ ~ (a > b) /\ (b - a) + 1 = k
    BY <1>1
  <2> HIDE DEF a, b
  <2>2. IsFiniteSet(a..b) /\ Cardinality(a..b) = (b - a) + 1
    BY <2>1, FS_Interval
  <2> QED BY <2>1, <2>2 DEF a, b
<1>5. Cardinality(uncompacted) \in Nat /\ Cardinality(uncompacted) <= k
  BY <1>3, <1>4, FS_Subset, FS_CardinalityType
<1>6. ~ (Cardinality(uncompacted) > MaxUncompacted)
  BY <1>5
<1>7. s.compaction # None
  <2>1. CompactionOf(s.messages, k) \in Compaction
    <3>1. s.messages \in Seq(Message)
      BY DEF Record
    <3>2. FirstOf(s.messages, n - k) \subseteq Message /\ After(s.messages, n - k) \subseteq Message
      BY <1>1, <3>1 DEF FirstOf, After
    <3> QED BY <3>2 DEF CompactionOf, Compaction
  <2> QED BY <2>1
<1> QED BY <1>6, <1>7 DEF Advice

LEMMA OnlyEndCompactEnds ==
  ASSUME IInv, [Next]_vars, NEW r \in Request, pc[r] = "compact", pc'[r] = "compacted"
  PROVE  EndCompact(r)
<1>1. ASSUME NEW q \in Request, AppendNext(q)
      PROVE  FALSE
  BY <1>1 DEF AppendNext, BeginAppend, EndAppend, Load, End, IInv, TypeOK
<1>2. ASSUME NEW q \in Request, MaintainNext(q)
      PROVE  EndCompact(r)
  BY <1>2 DEF MaintainNext, BeginArchive, EndArchive, BeginCompact, EndCompact, Load, End,
              IInv, TypeOK
<1> QED BY <1>1, <1>2 DEF Next, CreateSession, Prune, vars

LEMMA AdviceStep ==
  ASSUME IInv, Alone, [Next]_vars, NEW r \in Request,
         pc[r] = "compact", pc'[r] = "compacted", keep[r] = DefaultKeep,
         file' # None, ~ overlapped
  PROVE  Advice(file') = "within_budget"
<1> DEFINE k == DefaultKeep
           of == CompactionOf(file.messages, k)
           s == Summarised([file EXCEPT !.compaction = of])
<1>1. EndCompact(r)
  BY OnlyEndCompactEnds
<1>2. /\ copy[r] = file /\ file \in Record
      /\ k \in Nat \ {0} /\ k <= MaxUncompacted /\ Len(file.messages) > k
  BY DEF Alone, InFlight, IInv, Holding, TypeOK
<1>3. Write(s) \/ (file.compaction = of /\ UNCHANGED file)
  BY <1>1, <1>2 DEF EndCompact
<1>4. CASE Write(s)
  <2>1. s \in Record /\ s.messages = file.messages /\ s.compaction = of
    BY <1>2, CompactedSound
  <2> HIDE DEF s, of
  <2>2. file' \in Record /\ file'.messages = file.messages /\ file'.compaction = of
    BY <1>4, <2>1, WriteInvariant
  <2> QED BY <1>2, <2>2, FewUncompacted DEF of
<1>5. CASE file.compaction = of /\ UNCHANGED file
  BY <1>2, <1>5, FewUncompacted
<1> QED BY <1>3, <1>4, <1>5

\* While requests and prunings do not overlap, a compaction that keeps the
\* default number of messages leaves session_continuity_budget within budget.
THEOREM AdviceAlwaysSettles == Spec => AdviceSettles
<1>1. Init => Alone
  BY DEF Init, Alone, InFlight
<1>2. IInv /\ Alone /\ [Next]_vars =>
        [\A r \in Request :
           /\ pc[r] = "compact" /\ pc'[r] = "compacted" /\ keep[r] = DefaultKeep
           /\ file' # None /\ ~ overlapped
           => Advice(file') = "within_budget"]_vars
  BY AdviceStep
<1> QED BY <1>1, <1>2, InvariantHolds, AloneStep, PTL DEF Spec, AdviceSettles

=============================================================================
