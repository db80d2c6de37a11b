-------------------------- MODULE OperatorHistory --------------------------
(***************************************************************************)
(* What the local operator submitted: owned commands, conversation threads *)
(* and coding tasks with their invocations (sqlite/operator_commands.rs,   *)
(* sqlite/conversations, sqlite/coding_tasks, migrations 0025 to 0027),    *)
(* and the clients that page through them while others submit.             *)
(*                                                                         *)
(* A submission is one immediate transaction, a page one read transaction. *)
(* Identities are derived by digests, so they are named by what they are   *)
(* derived from: a message and the thread it opens by their idempotency    *)
(* key, a task revision by the task.  The binding nonce and reservation of *)
(* an invocation come from the digest of kind and payload, without the     *)
(* key.  How a claimed command proceeds is CommandDispatch.                *)
(***************************************************************************)
EXTENDS Integers, Sequences, FiniteSets

CONSTANTS
  Keys,          \* idempotency keys
  Historic,      \* the keys of commands recorded before ownership existed
  Works,         \* task contracts
  Needs,         \* the dependencies of each
  Limit,         \* max_invocations of each
  Deadline,      \* deadline_unix_ms of each
  Selections,    \* runtime selections
  Readers,       \* clients that page
  PageLimit,     \* limit of a page request
  MaxTime,       \* bound: the database clock
  MaxEvents,     \* bound: the event sequence
  MaxThread,     \* bound: messages of a thread
  Absent         \* no row, no cursor

VARIABLES
  record,        \* commands with their ownership: key -> row
  conversation,  \* conversations: key of the first message -> created_sequence
  message,       \* conversation_messages: key -> row
  turns,         \* conversation_head_requests, in outbox order
  revision,      \* coding_task_revisions: task -> row
  depends,       \* coding_task_dependencies
  invocation,    \* coding_runs: key -> row
  bound,         \* request digests whose nonce is consumed and quota reserved
  sequence,      \* the latest event sequence
  time,          \* the database clock, which stamps the events
  reader         \* reader -> the list it pages through and what it has read

history == <<record, conversation, message, turns, revision, depends,
             invocation, bound, sequence>>
historyVars == <<history, time, reader>>

\* The rows, and what a command asks for.
Cursor == [thread : Keys, message : Keys, sequence : Nat]
Body == [kind : {"message"}, cursor : Cursor \cup {Absent}]
          \cup [kind : {"task"}, task : Works, selection : Selections]
          \cup [kind : {"other"}]
RecordRow == [body : Body, owned : BOOLEAN, event : Nat]
MessageRow == [thread : Keys, sequence : Nat, parent : Keys \cup {Absent}, event : Nat]
RevisionRow == [command : Keys, event : Nat]
InvocationRow == [task : Works, selection : Selections, event : Nat]
ReaderRow == [list : {"commands", "conversations"} \cup Keys, after : Nat, got : Seq(Keys),
              since : SUBSET Keys, done : BOOLEAN]

ASSUME HistoryConstants ==
  /\ Historic \subseteq Keys /\ IsFiniteSet(Historic)
  /\ Needs \in [Works -> SUBSET Works] /\ Limit \in [Works -> Nat]
  /\ PageLimit \in Nat

ASSUME AbsentIsNoRow ==
  /\ Absent \notin Nat /\ Absent \notin Cursor
  /\ Absent \notin RecordRow /\ Absent \notin MessageRow
  /\ Absent \notin RevisionRow /\ Absent \notin InvocationRow

CursorAt(t, m, n) == [thread |-> t, message |-> m, sequence |-> n]
MessageBody(c) == [kind |-> "message", cursor |-> c]
CodingBody(w, s) == [kind |-> "task", task |-> w, selection |-> s]
OtherBody == [kind |-> "other"]

\* What a client may send: a cursor names a message, the thread it is in
\* and its place there, as some page or receipt showed them.
Seen == {CursorAt(message[k].thread, k, message[k].sequence) :
           k \in {k \in Keys : message[k] # Absent}}
Bodies == {MessageBody(c) : c \in Seen \cup {Absent}}
            \cup {CodingBody(w, s) : w \in Works, s \in Selections} \cup {OtherBody}

Idle == [list |-> Absent]

HistoryInit ==
  /\ record = [k \in Keys |-> IF k \in Historic
                              THEN [body |-> OtherBody, owned |-> FALSE, event |-> 1]
                              ELSE Absent]
  /\ conversation = [k \in Keys |-> Absent]
  /\ message = [k \in Keys |-> Absent]
  /\ turns = <<>>
  /\ revision = [w \in Works |-> Absent]
  /\ depends = {}
  /\ invocation = [k \in Keys |-> Absent]
  /\ bound = {}
  /\ sequence = Cardinality(Historic)
  /\ time = 0
  /\ reader = [r \in Readers |-> Idle]

-----------------------------------------------------------------------------
(* Reading a stored command back.                                          *)

Thread(t) == {k \in Keys : message[k] # Absent /\ message[k].thread = t}

\* The last message of a thread.
Tip(t) == CHOOSE k \in Thread(t) : \A j \in Thread(t) : message[j].sequence <= message[k].sequence

\* verify_one: the message is where its request asked for it, its thread was
\* opened by an owned first message, its parent stands before it, and exactly
\* one head turn was requested for it.
MessageLoads(k) ==
  LET m == message[k]
      c == record[k].body.cursor IN
  /\ m # Absent /\ record[k].owned /\ m.event = record[k].event
  /\ IF c = Absent
     THEN m.thread = k /\ m.sequence = 1 /\ m.parent = Absent
     ELSE m.thread = c.thread /\ m.sequence = c.sequence + 1 /\ m.parent = c.message
  /\ conversation[m.thread] # Absent
  /\ \E f \in Thread(m.thread) :
       /\ message[f].sequence = 1 /\ f = m.thread
       /\ record[f].owned /\ conversation[f] = message[f].event
  /\ m.sequence > 1 =>
       \E p \in Thread(m.thread) : p = m.parent /\ message[p].sequence = m.sequence - 1
  /\ Cardinality({i \in DOMAIN turns : turns[i] = k}) = 1

\* verify: the message and every predecessor, without a gap.
ConversationLoads(k) ==
  /\ MessageLoads(k)
  /\ \A n \in 1..(message[k].sequence - 1) :
       \E p \in Thread(message[k].thread) : message[p].sequence = n /\ MessageLoads(p)

\* storage::task: the revision is bound to the owned command that introduced
\* it, and its dependency edges are its contract's, each accepted earlier.
RevisionLoads(w) ==
  LET v == revision[w] IN
  /\ v # Absent
  /\ record[v.command].owned /\ record[v.command].event = v.event
  /\ record[v.command].body.kind = "task" /\ record[v.command].body.task = w
  /\ {d \in Works : <<w, d>> \in depends} = Needs[w]
  /\ \A d \in Needs[w] : revision[d] # Absent /\ revision[d].event < v.event

\* storage::run.
InvocationLoads(k) ==
  LET i == invocation[k] IN
  /\ i # Absent /\ record[k].owned /\ i.event = record[k].event
  /\ i.task = record[k].body.task /\ i.selection = record[k].body.selection
  /\ RevisionLoads(i.task) /\ revision[i.task].event <= i.event

\* checked_record, for what it reads beyond the dispatch projection.
CheckedRecord(k) ==
  CASE record[k].body.kind = "message" -> ConversationLoads(k)
    [] record[k].body.kind = "task" -> InvocationLoads(k)
    [] OTHER -> TRUE

-----------------------------------------------------------------------------
(* Submission.                                                             *)

\* position: a cursor must name the tip of an owned conversation.
PositionIsFree(c) ==
  c # Absent => /\ conversation[c.thread] # Absent
                /\ LET t == Tip(c.thread) IN t = c.message /\ message[t].sequence = c.sequence
                /\ c.sequence + 1 <= MaxThread

Invocations(w) == {k \in Keys : invocation[k] # Absent /\ invocation[k].task = w}

\* admit: deadline, dependencies, invocation limit, and a binding not yet used.
TaskIsAdmitted(b) ==
  /\ Deadline[b.task] > time
  /\ \A d \in Needs[b.task] : revision[d] # Absent
  /\ Cardinality(Invocations(b.task)) < Limit[b.task]
  /\ b \notin bound

Admits(b) ==
  CASE b.kind = "message" -> PositionIsFree(b.cursor)
    [] b.kind = "task" -> TaskIsAdmitted(b)
    [] OTHER -> TRUE

\* Bug: what a fresh submission needs is asked of a retry as well.
OutcomeChecksFirst(k, b) ==
  CASE ~Admits(b) -> "refused"
    [] record[k] = Absent -> "accepted"
    [] ~record[k].owned -> "ownership_conflict"
    [] record[k].body # b -> "idempotency_conflict"
    [] OTHER -> "replayed"

\* submit_operator_command: a known key is answered from what is stored, and
\* "the current tip only constrains a fresh append".
Outcome(k, b) ==
  CASE record[k] = Absent -> IF Admits(b) THEN "accepted" ELSE "refused"
    [] ~record[k].owned -> "ownership_conflict"
    [] record[k].body # b -> "idempotency_conflict"
    [] ~CheckedRecord(k) -> "corrupt"
    [] OTHER -> "replayed"

\* conversations::submit: thread, message, head turn, and the two events of a
\* command that is applied as it is accepted.
AppendMessage(k, c) ==
  LET first == c = Absent IN
  /\ conversation' = IF first THEN [conversation EXCEPT ![k] = sequence + 1] ELSE conversation
  /\ message' = [message EXCEPT ![k] =
       [thread |-> IF first THEN k ELSE c.thread,
        sequence |-> IF first THEN 1 ELSE c.sequence + 1,
        parent |-> IF first THEN Absent ELSE c.message,
        event |-> sequence + 1]]
  /\ turns' = Append(turns, k)
  /\ sequence' = sequence + 2
  /\ UNCHANGED <<revision, depends, invocation, bound>>

\* coding_tasks::admit: the revision and its edges when they are new, and the
\* invocation with its binding.
AdmitTask(k, b) ==
  LET w == b.task
      known == revision[w] # Absent IN
  /\ revision' = IF known THEN revision
                 ELSE [revision EXCEPT ![w] = [command |-> k, event |-> sequence + 1]]
  /\ depends' = IF known THEN depends ELSE depends \cup ({w} \X Needs[w])
  /\ invocation' = [invocation EXCEPT ![k] =
       [task |-> w, selection |-> b.selection, event |-> sequence + 1]]
  /\ bound' = bound \cup {b}
  /\ sequence' = sequence + 1
  /\ UNCHANGED <<conversation, message, turns>>

\* A fresh submission; any other outcome changes nothing.
SubmitOwned(k, b) ==
  /\ sequence + 2 <= MaxEvents
  /\ Outcome(k, b) = "accepted"
  /\ record' = [record EXCEPT ![k] = [body |-> b, owned |-> TRUE, event |-> sequence + 1]]
  /\ CASE b.kind = "message" -> AppendMessage(k, b.cursor)
       [] b.kind = "task" -> AdmitTask(k, b)
       [] OTHER -> /\ sequence' = sequence + 1
                   /\ UNCHANGED <<conversation, message, turns, revision, depends,
                                  invocation, bound>>
  /\ UNCHANGED <<time, reader>>

\* Any other event of the ledger: leases, claims, reconciliation.
OtherEvent ==
  /\ sequence < MaxEvents /\ sequence' = sequence + 1
  /\ UNCHANGED <<record, conversation, message, turns, revision, depends,
                 invocation, bound, time, reader>>

TimePasses ==
  /\ time < MaxTime /\ time' = time + 1
  /\ UNCHANGED <<history, reader>>

-----------------------------------------------------------------------------
(* Paging.                                                                 *)

\* The lists: owned commands by submitted_sequence, conversations by
\* created_sequence, and the messages of one conversation by sequence.
Rows(list) ==
  CASE list = "commands" -> {k \in Keys : record[k] # Absent /\ record[k].owned}
    [] list = "conversations" -> {k \in Keys : conversation[k] # Absent}
    [] OTHER -> Thread(list)

Place(list, k) ==
  CASE list = "commands" -> record[k].event
    [] list = "conversations" -> conversation[k]
    [] OTHER -> message[k].sequence

\* SELECT ... WHERE place > after.
Rest(list, after) == {k \in Rows(list) : Place(list, k) > after}

\* ORDER BY place LIMIT: the first of the rest, in order.
IsPage(list, after, page) ==
  /\ \A i, j \in DOMAIN page : i < j => Place(list, page[i]) < Place(list, page[j])
  /\ \A i \in DOMAIN page, k \in Rest(list, after) :
       k \in {page[j] : j \in DOMAIN page} \/ Place(list, page[i]) < Place(list, k)

\* has_more.
HasMore(list, after, page) == Rest(list, after) # {page[i] : i \in DOMAIN page}

OpenList(r, list) ==
  /\ reader[r] = Idle
  /\ reader' = [reader EXCEPT ![r] =
       [list |-> list, after |-> 0, got |-> <<>>, since |-> Rows(list), done |-> FALSE]]
  /\ UNCHANGED <<history, time>>

\* list_operator_commands, get_operator_conversation and
\* list_operator_conversations: up to limit rows, and of commands only as many
\* as the byte budget holds.
ReadPage(r, n) ==
  LET s == reader[r] IN
  /\ s # Idle /\ ~s.done
  /\ \E page \in [1..n -> Rest(s.list, s.after)] :
       /\ IsPage(s.list, s.after, page)
       /\ HasMore(s.list, s.after, page) =>
            IF s.list = "commands" THEN n > 0 ELSE n = PageLimit
       /\ reader' = [reader EXCEPT ![r] =
            [s EXCEPT !.got = @ \o page,
                      !.after = IF n = 0 THEN @ ELSE Place(s.list, page[n]),
                      !.done = ~HasMore(s.list, s.after, page)]]
  /\ UNCHANGED <<history, time>>

HistoryNext ==
  \/ \E k \in Keys, b \in Bodies : SubmitOwned(k, b)
  \/ OtherEvent \/ TimePasses
  \/ \E r \in Readers :
       \/ \E list \in {"commands", "conversations"} \cup {k \in Keys : conversation[k] # Absent} :
            OpenList(r, list)
       \/ \E n \in 0..PageLimit : ReadPage(r, n)

HistorySpec == HistoryInit /\ [][HistoryNext]_historyVars

-----------------------------------------------------------------------------
HistoryTypeOK ==
  /\ record \in [Keys -> RecordRow \cup {Absent}]
  /\ conversation \in [Keys -> Nat \cup {Absent}]
  /\ message \in [Keys -> MessageRow \cup {Absent}]
  /\ turns \in Seq(Keys)
  /\ revision \in [Works -> RevisionRow \cup {Absent}]
  /\ depends \subseteq Works \X Works
  /\ invocation \in [Keys -> InvocationRow \cup {Absent}]
  /\ sequence \in Nat
  /\ reader \in [Readers -> ReaderRow \cup {Idle}]

\* Whatever is submitted after it, an accepted command loads again with all
\* it was bound to, its exact retry is answered with the original whether or
\* not it could be accepted now, and no task has more invocations than its
\* contract allows.
HistoryLoads ==
  /\ \A k \in Keys : record[k] # Absent /\ record[k].owned =>
       CheckedRecord(k) /\ Outcome(k, record[k].body) = "replayed"
  /\ \A w \in Works : Cardinality(Invocations(w)) <= Limit[w]

\* A client that follows next_after to the end, however its pages are cut and
\* whatever is submitted between them, has read every row that existed when it
\* began, each row once and in order.
PagesAreComplete ==
  \A r \in Readers : reader[r] # Idle =>
    LET s == reader[r] IN
    /\ \A i, j \in DOMAIN s.got : i < j => Place(s.list, s.got[i]) < Place(s.list, s.got[j])
    /\ s.done => s.since \subseteq {s.got[i] : i \in DOMAIN s.got}

\* Of all clients that append to a conversation, one gets each place in it.
ThreadsAreLinear ==
  \A j, k \in Keys :
    /\ message[j] # Absent /\ message[k] # Absent
    /\ message[j].thread = message[k].thread /\ message[j].sequence = message[k].sequence
    => j = k

\* The operator's history is whole: what was accepted loads, conversations do
\* not fork, and pages leave nothing out.
HistoryIsWhole == HistoryLoads /\ ThreadsAreLinear /\ PagesAreComplete
=============================================================================
