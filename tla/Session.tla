------------------------------ MODULE Session ------------------------------
(***************************************************************************)
(* A conversation (runtime/session.py) and the requests that append to it, *)
(* archive it and compact it.  Each loads the record, works on its copy -  *)
(* an append for as long as a whole workflow runs - and writes all of it   *)
(* back; write_session extends the history of the record it replaces.      *)
(* Sessions share nothing, so there is one.                                *)
(*                                                                         *)
(* A request that never ends stands for a process that died.  Left out:    *)
(* titles, tokens, the memory scope and the texts of summaries.            *)
(***************************************************************************)
EXTENDS Integers, Sequences, FiniteSets

CONSTANTS
  Request,
  None,
  Keep,             \* values of keep_recent_messages that operators ask for
  DefaultKeep,      \* CONTINUITY_KEEP_RECENT_MESSAGES
  Recent,           \* CONTINUITY_RECENT_MESSAGE_LIMIT
  MaxUncompacted,   \* CONTINUITY_MAX_UNCOMPACTED_MESSAGES
  MaxBefore         \* CONTINUITY_MAX_MESSAGES_BEFORE_COMPACTION

ASSUME SessionAssumption ==
  /\ Keep \subseteq Nat \ {0} /\ DefaultKeep \in Keep
  /\ Recent \in Nat \ {0}
  /\ MaxUncompacted \in Nat /\ MaxBefore \in Nat
  /\ DefaultKeep <= MaxUncompacted /\ DefaultKeep <= MaxBefore

VARIABLES
  file,        \* the record on disk, or None
  fate,        \* "absent", "created" or "pruned"
  pc,          \* [Request -> where it is]
  keep,        \* [Request -> its keep_recent_messages, or None]
  copy,        \* [Request -> its copy of the record, or None]
  overlapped   \* has a request or a prune overlapped with another request? (not in the code)

vars == <<file, fate, pc, keep, copy, overlapped>>

Transitions ==
  [open      |-> {"active", "waiting", "errored", "archived"},
   active    |-> {"active", "waiting", "errored", "archived"},
   waiting   |-> {"active", "waiting", "errored", "recovered", "archived"},
   errored   |-> {"active", "waiting", "recovered", "archived"},
   recovered |-> {"active", "waiting", "errored", "archived"},
   archived  |-> {}]

Status == DOMAIN Transitions

\* what start_workflow returns: the status of the workflow, or an exception
Outcome == {"success", "waiting", "other", "raises"}

Message == Request \X {"user", "assistant"}
Compaction == [compacted: SUBSET Message, retained: SUBSET Message]
Summary == [of: Compaction, status: Status, recent: SUBSET Message]

\* statuses and logged are the transition_history: the statuses the session
\* took, and the messages that have an entry.
Record ==
  [status: Status, messages: Seq(Message), workflows: SUBSET Request,
   compaction: Compaction \cup {None}, summary: Summary \cup {None},
   statuses: Seq(Status), logged: SUBSET Message]

ASSUME NoneAssumption == None \notin Record \cup Compaction \cup Summary

TypeOK ==
  /\ file \in Record \cup {None}
  /\ fate \in {"absent", "created", "pruned"}
  /\ pc \in [Request -> {"idle", "append", "archive", "compact",
                         "recorded", "lost", "archived", "compacted"}]
  /\ keep \in [Request -> Keep \cup {None}]
  /\ copy \in [Request -> Record \cup {None}]
  /\ overlapped \in BOOLEAN

Init ==
  /\ file = None
  /\ fate = "absent"
  /\ pc = [r \in Request |-> "idle"]
  /\ keep = [r \in Request |-> None]
  /\ copy = [r \in Request |-> None]
  /\ overlapped = FALSE

-----------------------------------------------------------------------------
(* The record *)

Elements(s) == {s[i] : i \in 1..Len(s)}
FirstOf(s, n) == {s[i] : i \in 1..n}
After(s, n) == {s[i] : i \in (n + 1)..Len(s)}

NewSession ==
  [status |-> "open", messages |-> <<>>, workflows |-> {}, compaction |-> None,
   summary |-> None, statuses |-> <<>>, logged |-> {}]

\* Mutant of WithHistory: one entry for each write.
WithLastMessage(s) ==
  IF file = None THEN [s EXCEPT !.statuses = Append(@, s.status)]
  ELSE [s EXCEPT
          !.statuses = IF file.status = s.status THEN file.statuses
                       ELSE Append(file.statuses, s.status),
          !.logged = IF s.messages = file.messages THEN file.logged
                     ELSE file.logged \cup {s.messages[Len(s.messages)]}]

\* build_session_transition_history: from the record on disk; a copy whose
\* record is gone counts as a new session.
WithHistory(s) ==
  IF file = None THEN [s EXCEPT !.statuses = Append(@, s.status)]
  ELSE [s EXCEPT
          !.statuses = IF file.status = s.status THEN file.statuses
                       ELSE Append(file.statuses, s.status),
          !.logged = file.logged \cup (Elements(s.messages) \ Elements(file.messages))]

\* write_session
Write(s) == file' = WithHistory(s)

\* session_target_status
Target(status, outcome) ==
  CASE outcome = "success" -> IF status \in {"waiting", "errored"} THEN "recovered" ELSE "active"
    [] outcome = "waiting" -> "waiting"
    [] OTHER -> "errored"

\* Mutant of CanRecord: a status cannot follow itself.
CanRecordChange(s, outcome) ==
  Target(s.status, outcome) \in Transitions[s.status] \ {s.status}

\* transition_session does not raise.
CanRecord(s, outcome) == Target(s.status, outcome) \in Transitions[s.status]

\* Mutant of Summarised: a session keeps the summary it has.
SummarisedOnce(s) ==
  IF s.compaction = None \/ s.summary # None THEN s
  ELSE [s EXCEPT !.summary =
          [of |-> s.compaction, status |-> s.status, recent |-> Elements(s.messages)]]

\* refresh_session_continuity_summary
Summarised(s) ==
  IF s.compaction = None THEN s
  ELSE [s EXCEPT !.summary =
          [of |-> s.compaction, status |-> s.status,
           recent |-> IF Len(s.messages) <= Recent THEN Elements(s.messages)
                      ELSE After(s.messages, Len(s.messages) - Recent)]]

\* What append_session_message makes of its copy: the two messages and the
\* status, and unless start_workflow raised, the workflow and a new summary.
Appended(s, r, outcome) ==
  LET answered == [s EXCEPT !.messages = @ \o << <<r, "user">>, <<r, "assistant">> >>,
                            !.status = Target(@, outcome)]
  IN IF outcome = "raises" THEN answered
     ELSE Summarised([answered EXCEPT !.workflows = @ \cup {r}])

CompactionOf(messages, k) ==
  [compacted |-> FirstOf(messages, Len(messages) - k),
   retained |-> After(messages, Len(messages) - k)]

\* Mutant of Advice: counts the compacted messages too.
AdviceOnAll(s) ==
  IF s.compaction = None
  THEN IF Len(s.messages) > MaxBefore THEN "compact_now" ELSE "within_budget"
  ELSE IF Len(s.messages) > MaxUncompacted THEN "recompact_now" ELSE "within_budget"

\* session_continuity_budget, as far as it is about compacting
Advice(s) ==
  IF s.compaction = None
  THEN IF Len(s.messages) > MaxBefore THEN "compact_now" ELSE "within_budget"
  ELSE IF Cardinality({i \in 1..Len(s.messages) : s.messages[i] \notin s.compaction.compacted})
            > MaxUncompacted
       THEN "recompact_now" ELSE "within_budget"

-----------------------------------------------------------------------------
(* Requests *)

InFlight(r) == pc[r] \in {"append", "archive", "compact"}

Load(r, operation) ==
  /\ pc[r] = "idle" /\ file # None
  /\ pc' = [pc EXCEPT ![r] = operation]
  /\ copy' = [copy EXCEPT ![r] = file]
  /\ overlapped' = (overlapped \/ \E q \in Request : InFlight(q))

End(r, result) ==
  /\ pc' = [pc EXCEPT ![r] = result]
  /\ copy' = [copy EXCEPT ![r] = None]
  /\ UNCHANGED <<keep, overlapped>>

CreateSession ==
  /\ fate = "absent"
  /\ fate' = "created"
  /\ Write(NewSession)
  /\ UNCHANGED <<pc, keep, copy, overlapped>>

\* An archived session accepts no messages.
BeginAppend(r) ==
  /\ Load(r, "append") /\ file.status # "archived"
  /\ UNCHANGED <<file, fate, keep>>

\* The workflow has returned.  If the new status may not follow the old one,
\* transition_session raises and nothing is written.
EndAppend(r, outcome) ==
  /\ pc[r] = "append"
  /\ IF CanRecord(copy[r], outcome)
     THEN Write(Appended(copy[r], r, outcome)) /\ End(r, "recorded")
     ELSE UNCHANGED file /\ End(r, "lost")
  /\ UNCHANGED fate

BeginArchive(r) ==
  /\ Load(r, "archive") /\ file.status # "archived"
  /\ UNCHANGED <<file, fate, keep>>

EndArchive(r) ==
  /\ pc[r] = "archive"
  /\ Write([copy[r] EXCEPT !.status = "archived"])
  /\ End(r, "archived")
  /\ UNCHANGED fate

\* compact_session_continuity up to the lists of memories
BeginCompact(r, k) ==
  /\ Load(r, "compact") /\ Len(file.messages) > k
  /\ keep' = [keep EXCEPT ![r] = k]
  /\ UNCHANGED <<file, fate>>

\* The same messages are compacted again only if there are other memories.
EndCompact(r) ==
  /\ pc[r] = "compact"
  /\ LET compaction == CompactionOf(copy[r].messages, keep[r])
     IN \/ Write(Summarised([copy[r] EXCEPT !.compaction = compaction]))
        \/ copy[r].compaction = compaction /\ UNCHANGED file
  /\ End(r, "compacted")
  /\ UNCHANGED fate

\* prune_sessions of old sessions; a message that is being appended does not
\* make a session young.
Prune ==
  /\ file # None /\ file.status \in {"archived", "errored", "recovered"}
  /\ file' = None
  /\ fate' = "pruned"
  /\ overlapped' = (overlapped \/ \E q \in Request : InFlight(q))
  /\ UNCHANGED <<pc, keep, copy>>

-----------------------------------------------------------------------------

AppendNext(r) == BeginAppend(r) \/ \E outcome \in Outcome : EndAppend(r, outcome)
MaintainNext(r) ==
  \/ BeginArchive(r) \/ EndArchive(r)
  \/ (\E k \in Keep : BeginCompact(r, k)) \/ EndCompact(r)

Next == CreateSession \/ Prune \/ \E r \in Request : AppendNext(r) \/ MaintainNext(r)

Spec == Init /\ [][Next]_vars

-----------------------------------------------------------------------------

\* However copies overwrite each other, the history ends with the status of
\* the record, and has an entry for each of its messages - unless the session
\* was pruned under a request that then wrote it again.
HistoryTells ==
  file # None =>
    /\ file.statuses # <<>> /\ file.statuses[Len(file.statuses)] = file.status
    /\ fate # "pruned" => Elements(file.messages) \subseteq file.logged

\* A compaction covers a first part of the messages of its record, split in two
\* without a gap: no message is taken for one that its summary tells of.
CompactionCovers(s) ==
  \E n \in 1..Len(s.messages) : \E m \in 0..n :
    /\ s.compaction.compacted = FirstOf(s.messages, m)
    /\ s.compaction.retained = {s.messages[i] : i \in (m + 1)..n}

\* The stored summary is that of the compaction it is stored with; and after an
\* append whose workflow ran it tells of the latest message, and of the status
\* the session has until it is archived.
SummaryTells(s) ==
  LET last == s.messages[Len(s.messages)]
  IN /\ s.summary # None /\ s.summary.of = s.compaction
     /\ last[1] \in s.workflows =>
          last \in s.summary.recent /\ s.status \in {s.summary.status, "archived"}

\* What a session carries forward for the prompts of later messages fits the
\* messages that its record has, whatever was appended, overwritten or pruned.
ContinuitySound ==
  file # None /\ file.compaction # None => CompactionCovers(file) /\ SummaryTells(file)

\* While requests do not overlap, an append whose workflow ran is on record;
\* one is lost only if the session had failed before.
RunsRecorded ==
  ~ overlapped /\ file # None =>
    \A r \in Request :
      /\ pc[r] = "recorded" => {<<r, "user">>, <<r, "assistant">>} \subseteq Elements(file.messages)
      /\ pc[r] = "lost" => "errored" \in Elements(file.statuses)

\* An operator who follows the advice to compact is not given it again.
AdviceSettles ==
  [][\A r \in Request :
       /\ pc[r] = "compact" /\ pc'[r] = "compacted" /\ keep[r] = DefaultKeep
       /\ file' # None /\ ~ overlapped
       => Advice(file') = "within_budget"]_vars

=============================================================================
