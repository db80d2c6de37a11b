--------------------------- MODULE HistoryProofs ---------------------------
(***************************************************************************)
(* Proofs about OperatorHistory: what was accepted loads again and is      *)
(* answered as it was, conversations do not fork and pages leave nothing   *)
(* out, for any number of keys, tasks and readers and any page size.       *)
(***************************************************************************)
EXTENDS OperatorHistory, FiniteSetTheorems, TLAPS

Spoken(k) == message[k] # Absent
Owned(k) == record[k] # Absent /\ record[k].owned

\* A key is one command; what is not owned is no message and no task.  Events
\* are numbered up to sequence.
RecordInv(k) ==
  /\ record[k] # Absent => record[k].event \in 1..sequence
  /\ record[k] # Absent /\ ~record[k].owned => record[k].body.kind = "other"
  /\ Spoken(k) <=> Owned(k) /\ record[k].body.kind = "message"
  /\ invocation[k] # Absent <=> Owned(k) /\ record[k].body.kind = "task"
  /\ conversation[k] # Absent => Spoken(k) /\ conversation[k] = message[k].event

\* A message stands where its cursor points, after the message that names, in
\* a thread that its first message opened and that has every place below.
MessageInv(k) ==
  LET m == message[k]
      c == record[k].body.cursor IN
  Spoken(k) =>
    /\ m.event = record[k].event
    /\ c = Absent => m.thread = k /\ m.sequence = 1 /\ m.parent = Absent
    /\ c # Absent =>
         /\ m.thread = c.thread /\ m.sequence = c.sequence + 1 /\ m.parent = c.message
         /\ c.message \in Thread(c.thread) /\ message[c.message].sequence = c.sequence
         /\ c.sequence >= 1
    /\ m.thread \in Thread(m.thread) /\ message[m.thread].sequence = 1
    /\ conversation[m.thread] = message[m.thread].event
    /\ \A n \in 1..(m.sequence - 1) : \E p \in Thread(m.thread) : message[p].sequence = n

\* One head turn for every message.
TurnsInv ==
  /\ \A i \in DOMAIN turns : Spoken(turns[i])
  /\ \A i, j \in DOMAIN turns : turns[i] = turns[j] => i = j
  /\ \A k \in Keys : Spoken(k) => \E i \in DOMAIN turns : turns[i] = k

\* A revision belongs to the command that introduced it, after its needs.
RevisionInv(w) ==
  LET v == revision[w] IN
  /\ v = Absent => \A d \in Works : <<w, d>> \notin depends
  /\ v # Absent =>
       /\ Owned(v.command) /\ record[v.command].event = v.event
       /\ record[v.command].body.kind = "task" /\ record[v.command].body.task = w
       /\ {d \in Works : <<w, d>> \in depends} = Needs[w]
       /\ \A d \in Needs[w] : revision[d] # Absent /\ revision[d].event < v.event

InvocationInv(k) ==
  LET i == invocation[k] IN
  i # Absent =>
    /\ i.event = record[k].event
    /\ i.task = record[k].body.task /\ i.selection = record[k].body.selection
    /\ revision[i.task] # Absent /\ revision[i.task].event <= i.event

LimitInv(w) == IsFiniteSet(Invocations(w)) /\ Cardinality(Invocations(w)) <= Limit[w]

\* Every thread that has a message has a last one.
TipInv(t) ==
  Thread(t) # {} =>
    \E k \in Thread(t) : \A j \in Thread(t) : message[j].sequence <= message[k].sequence

\* What a reader has passed it has read.
ReaderInv(s) ==
  /\ s.since \subseteq Rows(s.list)
  /\ \A i \in DOMAIN s.got : s.got[i] \in Rows(s.list) /\ Place(s.list, s.got[i]) <= s.after
  /\ \A i, j \in DOMAIN s.got : i < j => Place(s.list, s.got[i]) < Place(s.list, s.got[j])
  /\ \A k \in s.since : s.done \/ Place(s.list, k) <= s.after => \E i \in DOMAIN s.got : s.got[i] = k

StoredInv ==
  /\ \A k \in Keys : RecordInv(k) /\ MessageInv(k) /\ InvocationInv(k) /\ TipInv(k)
  /\ TurnsInv
  /\ \A w \in Works : RevisionInv(w) /\ LimitInv(w)
  /\ ThreadsAreLinear

ReadersInv == \A r \in Readers : reader[r] = Idle \/ ReaderInv(reader[r])

HistoryInv == HistoryTypeOK /\ StoredInv /\ ReadersInv

\* Nothing stored is changed or removed.
Grows ==
  \A j \in Keys :
    /\ record[j] # Absent => record'[j] = record[j]
    /\ message[j] # Absent => message'[j] = message[j]
    /\ conversation[j] # Absent => conversation'[j] = conversation[j]

----------------------------------------------------------------------------
(* Lemmas about the history.                                               *)

\* Stored rows have the types of their tables.
LEMMA RowTypes ==
  ASSUME HistoryTypeOK, NEW k \in Keys
  PROVE  /\ record[k] # Absent => record[k] \in RecordRow
         /\ message[k] # Absent => message[k] \in MessageRow
         /\ conversation[k] # Absent => conversation[k] \in Nat
         /\ invocation[k] # Absent => invocation[k] \in InvocationRow
<1> QED  BY Zenon DEF HistoryTypeOK

\* Messages are numbered from 1.
LEMMA SequenceFromOne ==
  ASSUME HistoryInv, NEW k \in Keys, Spoken(k)
  PROVE  message[k].sequence \in Nat /\ message[k].sequence >= 1
<1>1. HistoryTypeOK /\ MessageInv(k)  BY Zenon DEF HistoryInv, StoredInv
<1>2. message[k].sequence \in Nat  BY <1>1, RowTypes, Zenon DEF Spoken, MessageRow
<1>3. CASE record[k].body.cursor = Absent  BY <1>1, <1>3 DEF MessageInv
<1>4. CASE record[k].body.cursor # Absent
  <2> DEFINE c == record[k].body.cursor
  <2>1. message[k].sequence = c.sequence + 1 /\ c.message \in Thread(c.thread)
        /\ message[c.message].sequence = c.sequence
    BY <1>1, <1>4, Zenon DEF MessageInv
  <2>2. c.message \in Keys /\ message[c.message] # Absent  BY <2>1, Zenon DEF Thread
  <2>3. message[c.message] \in MessageRow  BY <1>1, <2>2, RowTypes, Zenon
  <2>4. c.sequence \in Nat  BY <2>1, <2>3, Zenon DEF MessageRow
  <2> QED  BY <1>2, <2>1, <2>4
<1> QED  BY <1>3, <1>4, Zenon

\* The rows of a list have places from 1 on.
LEMMA PlacesAreNumbers ==
  ASSUME HistoryInv, NEW list \in {"commands", "conversations"} \cup Keys, NEW k \in Rows(list)
  PROVE  k \in Keys /\ Place(list, k) \in Nat /\ Place(list, k) >= 1
<1>1. HistoryTypeOK /\ StoredInv /\ sequence \in Nat  BY Zenon DEF HistoryInv, HistoryTypeOK
<1>2. k \in Keys  BY Zenon DEF Rows, Thread
<1>3. RecordInv(k) /\ MessageInv(k)  BY <1>1, <1>2, Zenon DEF StoredInv
<1>4. CASE list = "commands"
  <2>1. record[k] # Absent  BY <1>4, Zenon DEF Rows
  <2>2. record[k].event \in 1..sequence  BY <1>3, <2>1, Zenon DEF RecordInv
  <2>3. Place(list, k) = record[k].event  BY <1>4, Zenon DEF Place
  <2> QED  BY <1>1, <1>2, <2>2, <2>3
<1>5. CASE list = "conversations"
  <2>1. conversation[k] # Absent  BY <1>5, Zenon DEF Rows
  <2>2. Spoken(k) /\ conversation[k] = message[k].event  BY <1>3, <2>1, Zenon DEF RecordInv
  <2>3. message[k].event = record[k].event /\ record[k] # Absent
    BY <1>3, <2>2, Zenon DEF MessageInv, RecordInv, Owned
  <2>4. record[k].event \in 1..sequence  BY <1>3, <2>3, Zenon DEF RecordInv
  <2>5. Place(list, k) = conversation[k]  BY <1>5, Zenon DEF Place
  <2> QED  BY <1>1, <1>2, <2>2, <2>3, <2>4, <2>5
<1>6. CASE list # "commands" /\ list # "conversations"
  <2>1. Spoken(k)  BY <1>6, Zenon DEF Rows, Thread, Spoken
  <2>2. Place(list, k) = message[k].sequence  BY <1>6, Zenon DEF Place
  <2>5. message[k].sequence \in Nat /\ message[k].sequence >= 1  BY <1>2, <2>1, SequenceFromOne, Zenon
  <2> QED  BY <1>2, <2>2, <2>5, Zenon
<1> QED  BY <1>4, <1>5, <1>6, Zenon

\* As long as rows are only added, a reader's place in its list stays right.
LEMMA RowsGrow ==
  ASSUME HistoryTypeOK, Grows, NEW list, NEW k \in Rows(list)
  PROVE  k \in Rows(list)' /\ Place(list, k)' = Place(list, k)
<1>1. k \in Keys  BY Zenon DEF Rows, Thread
<1>2. CASE list = "commands"
  <2>1. record'[k] = record[k]  BY <1>1, <1>2, Zenon DEF Rows, Grows
  <2> QED  BY <1>1, <1>2, <2>1, Zenon DEF Rows, Place
<1>3. CASE list = "conversations"
  <2>1. conversation'[k] = conversation[k]  BY <1>1, <1>3, Zenon DEF Rows, Grows
  <2> QED  BY <1>1, <1>3, <2>1, Zenon DEF Rows, Place
<1>4. CASE list # "commands" /\ list # "conversations"
  <2>1. message'[k] = message[k]  BY <1>1, <1>4, Zenon DEF Rows, Grows, Thread
  <2> QED  BY <1>1, <1>4, <2>1, Zenon DEF Rows, Place, Thread
<1> QED  BY <1>2, <1>3, <1>4, Zenon

LEMMA ReadersKept ==
  ASSUME HistoryInv, Grows, UNCHANGED reader
  PROVE  ReadersInv'
<1> SUFFICES ASSUME NEW r \in Readers, reader[r] # Idle PROVE ReaderInv(reader[r])'
  BY Zenon DEF ReadersInv
<1> DEFINE s == reader[r]
<1>1. ReaderInv(s)  BY Zenon DEF HistoryInv, ReadersInv
<1>2. \A k \in Rows(s.list) : k \in Rows(s.list)' /\ Place(s.list, k)' = Place(s.list, k)
  BY RowsGrow, Zenon DEF HistoryInv
<1>3. s' = s  BY Zenon
<1> HIDE DEF s
<1>4. ReaderInv(s)'
  BY <1>1, <1>2, <1>3, Zenon DEF ReaderInv
<1> QED  BY <1>4, Zenon DEF s

\* What is stored depends on the tables alone, and so does a reader's place.
LEMMA StoredStays ==
  ASSUME StoredInv, sequence \in Nat, sequence' \in Nat, sequence <= sequence',
         UNCHANGED <<record, conversation, message, turns, revision, depends, invocation>>
  PROVE  StoredInv'
<1>1. \A k \in Keys : RecordInv(k)' /\ MessageInv(k)' /\ InvocationInv(k)' /\ TipInv(k)'
  <2> SUFFICES ASSUME NEW k \in Keys
               PROVE  RecordInv(k)' /\ MessageInv(k)' /\ InvocationInv(k)' /\ TipInv(k)'
    BY Zenon
  <2>1. \A t : Thread(t)' = Thread(t)  BY Zenon DEF Thread
  <2>2. RecordInv(k)' /\ InvocationInv(k)'  BY DEF StoredInv, RecordInv, InvocationInv, Spoken, Owned
  <2>3. MessageInv(k)'  BY <2>1, Zenon DEF StoredInv, MessageInv, Spoken
  <2>4. TipInv(k)'  BY <2>1, Zenon DEF StoredInv, TipInv
  <2> QED  BY <2>2, <2>3, <2>4, Zenon
<1>2. TurnsInv' /\ ThreadsAreLinear'
  BY Zenon DEF StoredInv, TurnsInv, ThreadsAreLinear, Spoken
<1>3. \A w \in Works : RevisionInv(w)' /\ LimitInv(w)'
  BY ZenonT(40) DEF StoredInv, RevisionInv, LimitInv, Invocations, Owned
<1> QED  BY <1>1, <1>2, <1>3, Zenon DEF StoredInv

LEMMA ReadersSame ==
  ASSUME UNCHANGED <<record, conversation, message>>, NEW q \in Readers,
         ReaderInv(reader'[q])
  PROVE  ReaderInv(reader[q])'
<1>1. \A list, k : Place(list, k)' = Place(list, k) /\ Rows(list)' = Rows(list)
  BY Zenon DEF Place, Rows, Thread
<1> QED  BY <1>1, Zenon DEF ReaderInv

\* A reader that opens a list has passed nothing.
LEMMA OpenKeeps ==
  ASSUME HistoryInv, NEW r \in Readers,
         NEW list \in {"commands", "conversations"} \cup Keys, OpenList(r, list)
  PROVE  HistoryInv'
<1> DEFINE s == [list |-> list, after |-> 0, got |-> <<>>, since |-> Rows(list), done |-> FALSE]
<1>1. UNCHANGED <<record, conversation, message, turns, revision, depends, invocation, bound,
                  sequence>> /\ reader' = [reader EXCEPT ![r] = s]
  BY Zenon DEF OpenList, history
<1>2. Rows(list) \subseteq Keys  BY Zenon DEF Rows, Thread
<1>3. s \in ReaderRow  BY <1>2 DEF ReaderRow
<1>4. ReaderInv(s)
  <2>1. s.since = Rows(s.list) /\ DOMAIN s.got = {} /\ s.done = FALSE /\ s.after = 0 /\ s.list = list
    OBVIOUS
  <2>2. \A k \in Rows(list) : Place(list, k) \in Nat /\ Place(list, k) >= 1
    BY PlacesAreNumbers, Zenon
  <2> HIDE DEF s
  <2> QED  BY <2>1, <2>2 DEF ReaderInv
<1> HIDE DEF s
<1>5. HistoryTypeOK'  BY <1>1, <1>3, Zenon DEF HistoryInv, HistoryTypeOK
<1>6. StoredInv'  BY <1>1, StoredStays DEF HistoryInv, HistoryTypeOK
<1>7. ASSUME NEW q \in Readers PROVE reader'[q] = Idle \/ ReaderInv(reader'[q])
  BY <1>1, <1>4, Zenon DEF HistoryInv, HistoryTypeOK, ReadersInv
<1>8. ReadersInv'
  BY <1>7, ReadersSame, <1>1, Zenon DEF ReadersInv
<1> QED  BY <1>5, <1>6, <1>8, Zenon DEF HistoryInv

\* A page continues what was read, up to its last row.
LEMMA PageContinues ==
  ASSUME HistoryInv, NEW s \in ReaderRow, ReaderInv(s), NEW n \in Nat,
         NEW page \in [1..n -> Rest(s.list, s.after)], IsPage(s.list, s.after, page),
         NEW t, t = [s EXCEPT !.got = @ \o page,
                              !.after = IF n = 0 THEN @ ELSE Place(s.list, page[n]),
                              !.done = ~HasMore(s.list, s.after, page)]
  PROVE  t \in ReaderRow /\ ReaderInv(t)
<1> DEFINE P(k) == Place(s.list, k)
           after == IF n = 0 THEN s.after ELSE P(page[n])
           rest == Rest(s.list, s.after)
<1>1. s.list \in {"commands", "conversations"} \cup Keys /\ s.after \in Nat /\ s.got \in Seq(Keys)
      /\ s.since \in SUBSET Keys
  BY Zenon DEF ReaderRow
<1>2. \A k \in Rows(s.list) : k \in Keys /\ P(k) \in Nat  BY <1>1, PlacesAreNumbers, Zenon
<1>3. \A k \in rest : k \in Rows(s.list) /\ P(k) > s.after  BY Zenon DEF Rest
<1>4. page \in Seq(Keys) /\ Len(page) = n /\ \A i \in 1..n : page[i] \in rest
  BY <1>2, <1>3
<1>5. /\ s.got \o page \in Seq(Keys) /\ Len(s.got \o page) = Len(s.got) + n
      /\ \A i \in 1..(Len(s.got) + n) :
           (s.got \o page)[i] = IF i <= Len(s.got) THEN s.got[i] ELSE page[i - Len(s.got)]
  BY <1>1, <1>4
<1> DEFINE got == s.got \o page
           g == Len(s.got)
<1>6. g \in Nat /\ DOMAIN s.got = 1..g /\ DOMAIN got = 1..(g + n) /\ DOMAIN page = 1..n
  BY <1>1, <1>5
<1>7. after \in Nat /\ s.after <= after
  BY <1>1, <1>2, <1>3, <1>4
<1>8. /\ t.list = s.list /\ t.got = got /\ t.after = after /\ t.since = s.since
      /\ t.done = ~HasMore(s.list, s.after, page) /\ t \in ReaderRow
  <2>1. (~HasMore(s.list, s.after, page)) \in BOOLEAN  BY Zenon DEF HasMore
  <2> QED  BY <1>1, <1>5, <1>7, <2>1, Zenon DEF ReaderRow
<1>9. \A i \in 1..g : got[i] = s.got[i]  BY <1>5, <1>6
<1>10. \A i \in 1..n : got[g + i] = page[i]
  <2> SUFFICES ASSUME NEW i \in 1..n PROVE got[g + i] = page[i]  BY Zenon
  <2>1. g + i \in 1..(g + n) /\ ~(g + i <= g) /\ (g + i) - g = i  BY <1>6
  <2> QED  BY <1>5, <2>1, Zenon
<1>11. \A i \in 1..(g + n) : i \in 1..g \/ ((i - g) \in 1..n /\ i = g + (i - g))  BY <1>6
<1>12. \A i \in 1..n : P(page[i]) <= after /\ P(page[i]) > s.after /\ P(page[i]) \in Nat
  <2> SUFFICES ASSUME NEW i \in 1..n
               PROVE  P(page[i]) <= after /\ P(page[i]) > s.after /\ P(page[i]) \in Nat
    BY Zenon
  <2>1. P(page[i]) > s.after /\ P(page[i]) \in Nat  BY <1>2, <1>3, <1>4, Zenon
  <2>2. i < n => P(page[i]) < P(page[n])  BY <1>6 DEF IsPage
  <2>3. n # 0 /\ P(page[n]) \in Nat  BY <1>2, <1>3, <1>4
  <2> QED  BY <2>1, <2>2, <2>3
<1> HIDE DEF P, after, rest, got, g
<1>13. \A i \in 1..g : s.got[i] \in Rows(s.list) /\ P(s.got[i]) <= s.after
  BY <1>6, Zenon DEF ReaderInv, P
<1>14. \A i \in DOMAIN got : got[i] \in Rows(s.list) /\ P(got[i]) <= after
  <2> SUFFICES ASSUME NEW i \in 1..(g + n) PROVE got[i] \in Rows(s.list) /\ P(got[i]) <= after
    BY <1>6, Zenon
  <2>1. CASE i \in 1..g  BY <1>1, <1>2, <1>7, <1>9, <1>13, <2>1
  <2>2. CASE (i - g) \in 1..n /\ i = g + (i - g)  BY <1>3, <1>4, <1>10, <1>12, <2>2, Zenon
  <2> QED  BY <1>11, <2>1, <2>2, Zenon
<1>15. \A i, j \in DOMAIN got : i < j => P(got[i]) < P(got[j])
  <2> SUFFICES ASSUME NEW i \in 1..(g + n), NEW j \in 1..(g + n), i < j
               PROVE  P(got[i]) < P(got[j])
    BY <1>6, Zenon
  <2>1. CASE i \in 1..g /\ j \in 1..g  BY <1>6, <1>9, <2>1, Zenon DEF ReaderInv, P
  <2>2. CASE i \in 1..g /\ (j - g) \in 1..n /\ j = g + (j - g)
    <3>1. P(got[i]) <= s.after /\ P(got[i]) \in Nat  BY <1>2, <1>9, <1>13, <2>2, Zenon
    <3>2. P(got[j]) > s.after /\ P(got[j]) \in Nat  BY <1>10, <1>12, <2>2, Zenon
    <3> QED  BY <1>1, <3>1, <3>2
  <2>3. CASE (i - g) \in 1..n /\ i = g + (i - g) /\ (j - g) \in 1..n /\ j = g + (j - g)
    <3>1. i - g < j - g  BY <1>6
    <3>2. P(page[i - g]) < P(page[j - g])  BY <1>6, <2>3, <3>1, Zenon DEF IsPage, P
    <3> QED  BY <1>10, <2>3, <3>2, Zenon
  <2>4. i \in 1..g \/ ~(j \in 1..g)  BY <1>6
  <2> QED  BY <1>11, <2>1, <2>2, <2>3, <2>4, Zenon
<1>16. ASSUME NEW k \in s.since, t.done \/ P(k) <= after
       PROVE  \E i \in DOMAIN got : got[i] = k
  <2>1. k \in Rows(s.list) /\ P(k) \in Nat  BY <1>2, Zenon DEF ReaderInv
  <2>2. CASE P(k) <= s.after
    <3>1. PICK i \in 1..g : s.got[i] = k  BY <1>6, <2>2, Zenon DEF ReaderInv, P
    <3>2. i \in DOMAIN got  BY <1>6
    <3> QED  BY <1>9, <3>1, <3>2, Zenon
  <2>3. CASE ~(P(k) <= s.after)
    <3>1. k \in rest  BY <1>1, <2>1, <2>3 DEF rest, Rest, P
    <3>2. CASE t.done
      <4>1. rest = {page[i] : i \in 1..n}  BY <1>6, <1>8, <3>2, Zenon DEF HasMore, rest
      <4>2. PICK i \in 1..n : page[i] = k  BY <3>1, <4>1, Zenon
      <4>3. g + i \in DOMAIN got  BY <1>6
      <4> QED  BY <1>10, <4>2, <4>3, Zenon
    <3>3. CASE P(k) <= after
      <4>1. n # 0 /\ after = P(page[n]) /\ n \in 1..n  BY <2>3, <3>3 DEF after
      <4>2. P(page[n]) \in Nat  BY <1>12, <4>1, Zenon
      <4>3. k \in {page[j] : j \in 1..n} \/ P(page[n]) < P(k)
        BY <1>6, <3>1, <4>1, Zenon DEF IsPage, rest, P
      <4>4. PICK i \in 1..n : page[i] = k  BY <2>1, <3>3, <4>1, <4>2, <4>3
      <4>5. g + i \in DOMAIN got  BY <1>6
      <4> QED  BY <1>10, <4>4, <4>5, Zenon
    <3> QED  BY <1>16, <3>2, <3>3, Zenon
  <2> QED  BY <2>2, <2>3, Zenon
<1>17. t.since \subseteq Rows(t.list)  BY <1>8, Zenon DEF ReaderInv
<1>18. \A i \in DOMAIN t.got : t.got[i] \in Rows(t.list) /\ Place(t.list, t.got[i]) <= t.after
  BY <1>8, <1>14, Zenon DEF P
<1>19. \A i, j \in DOMAIN t.got : i < j => Place(t.list, t.got[i]) < Place(t.list, t.got[j])
  BY <1>8, <1>15, Zenon DEF P
<1>20. \A k \in t.since : t.done \/ Place(t.list, k) <= t.after => \E i \in DOMAIN t.got : t.got[i] = k
  BY <1>8, <1>16, Zenon DEF P
<1> QED  BY <1>8, <1>17, <1>18, <1>19, <1>20, Zenon DEF ReaderInv

\* Reading a page keeps the invariant.
LEMMA PageKeeps ==
  ASSUME HistoryInv, NEW r \in Readers, NEW n \in Nat, ReadPage(r, n)
  PROVE  HistoryInv'
<1> DEFINE s == reader[r]
<1>1. UNCHANGED <<record, conversation, message, turns, revision, depends, invocation, bound,
                  sequence>> /\ s # Idle
  BY Zenon DEF ReadPage, history
<1>2. s \in ReaderRow /\ ReaderInv(s)
  BY <1>1, Zenon DEF HistoryInv, HistoryTypeOK, ReadersInv
<1>3. PICK page \in [1..n -> Rest(s.list, s.after)] :
        /\ IsPage(s.list, s.after, page)
        /\ reader' = [reader EXCEPT ![r] =
             [s EXCEPT !.got = @ \o page,
                       !.after = IF n = 0 THEN @ ELSE Place(s.list, page[n]),
                       !.done = ~HasMore(s.list, s.after, page)]]
  BY Zenon DEF ReadPage
<1> DEFINE t == [s EXCEPT !.got = @ \o page,
                          !.after = IF n = 0 THEN @ ELSE Place(s.list, page[n]),
                          !.done = ~HasMore(s.list, s.after, page)]
<1>4. t \in ReaderRow /\ ReaderInv(t)  BY <1>2, <1>3, PageContinues, Zenon
<1>5. reader' = [reader EXCEPT ![r] = t]  BY <1>3, Zenon
<1> HIDE DEF t, s
<1>6. HistoryTypeOK'  BY <1>1, <1>4, <1>5, Zenon DEF HistoryInv, HistoryTypeOK
<1>7. StoredInv'  BY <1>1, StoredStays DEF HistoryInv, HistoryTypeOK
<1>8. ASSUME NEW q \in Readers PROVE reader'[q] = Idle \/ ReaderInv(reader'[q])
  BY <1>4, <1>5, Zenon DEF HistoryInv, HistoryTypeOK, ReadersInv
<1>9. ReadersInv'  BY <1>1, <1>8, ReadersSame, Zenon DEF ReadersInv
<1> QED  BY <1>6, <1>7, <1>9, Zenon DEF HistoryInv

----------------------------------------------------------------------------
(* Submissions.                                                            *)

NewRecord(k, b) ==
  record' = [record EXCEPT ![k] = [body |-> b, owned |-> TRUE, event |-> sequence + 1]]

\* What a fresh key has nowhere.
FreshKey(k) == /\ record[k] = Absent /\ message[k] = Absent
               /\ conversation[k] = Absent /\ invocation[k] = Absent

\* Only a fresh key is accepted.
LEMMA AcceptedIsFresh ==
  ASSUME HistoryInv, NEW k \in Keys, NEW b, Outcome(k, b) = "accepted"
  PROVE  FreshKey(k) /\ Admits(b)
<1>1. record[k] = Absent /\ Admits(b)  BY Zenon DEF Outcome
<1>2. RecordInv(k)  BY Zenon DEF HistoryInv, StoredInv
<1> QED  BY <1>1, <1>2, Zenon DEF RecordInv, Spoken, Owned, FreshKey

\* A cursor a client has seen names a message in its place.
LEMMA SeenIsStored ==
  ASSUME HistoryInv, NEW c \in Seen
  PROVE  /\ c \in Cursor /\ c # Absent
         /\ c.message \in Thread(c.thread) /\ message[c.message].sequence = c.sequence
         /\ c.sequence \in Nat /\ c.sequence >= 1 /\ c.thread \in Keys
<1>1. PICK k \in Keys : message[k] # Absent
                        /\ c = CursorAt(message[k].thread, k, message[k].sequence)
  BY Zenon DEF Seen
<1>2. message[k] \in MessageRow  BY <1>1, RowTypes, Zenon DEF HistoryInv
<1>3. c.message = k /\ c.thread = message[k].thread /\ c.sequence = message[k].sequence
  BY <1>1, Zenon DEF CursorAt
<1>4. c \in Cursor  BY <1>1, <1>2, Zenon DEF CursorAt, Cursor, MessageRow
<1>5. c # Absent  BY <1>4, AbsentIsNoRow, Zenon
<1>6. c.sequence >= 1  BY <1>1, <1>3, SequenceFromOne, Zenon DEF Spoken
<1> QED  BY <1>1, <1>2, <1>3, <1>4, <1>5, <1>6, Zenon DEF Thread, MessageRow

\* The tip is the last of its thread.
LEMMA TipIsLast ==
  ASSUME HistoryInv, NEW c \in Seen, PositionIsFree(c), NEW j \in Thread(c.thread)
  PROVE  message[j].sequence <= c.sequence
<1>1. c # Absent /\ c.thread \in Keys  BY SeenIsStored, Zenon
<1>2. TipInv(c.thread)  BY <1>1, Zenon DEF HistoryInv, StoredInv
<1>3. Tip(c.thread) = c.message /\ message[Tip(c.thread)].sequence = c.sequence
  BY <1>1, Zenon DEF PositionIsFree
<1>4. PICK k \in Thread(c.thread) : \A i \in Thread(c.thread) : message[i].sequence <= message[k].sequence
  BY <1>2, Zenon DEF TipInv
<1>5. \A i \in Thread(c.thread) : message[i].sequence <= message[Tip(c.thread)].sequence
  BY <1>4, Zenon DEF Tip
<1> QED  BY <1>3, <1>5, Zenon

\* A thread is opened by its first message.
LEMMA ThreadHasFirst ==
  ASSUME HistoryInv, NEW t, NEW j \in Thread(t)
  PROVE  t \in Thread(t) /\ message[t].sequence = 1 /\ conversation[t] = message[t].event
<1>1. j \in Keys /\ Spoken(j) /\ message[j].thread = t  BY Zenon DEF Thread, Spoken
<1>2. MessageInv(j)  BY <1>1, Zenon DEF HistoryInv, StoredInv
<1> QED  BY <1>1, <1>2, Zenon DEF MessageInv

\* Tasks do not notice a command that is none.
LEMMA TasksKept ==
  ASSUME HistoryInv, NEW k \in Keys, FreshKey(k),
         UNCHANGED <<revision, depends, invocation>>,
         \A j \in Keys \ {k} : record'[j] = record[j]
  PROVE  /\ \A j \in Keys : InvocationInv(j)'
         /\ \A w \in Works : RevisionInv(w)' /\ LimitInv(w)'
<1>1. ASSUME NEW j \in Keys PROVE InvocationInv(j)'
  <2>1. InvocationInv(j)  BY Zenon DEF HistoryInv, StoredInv
  <2>2. invocation[j] # Absent => j # k  BY Zenon DEF FreshKey
  <2> QED  BY <2>1, <2>2, Zenon DEF InvocationInv
<1>2. ASSUME NEW w \in Works PROVE RevisionInv(w)'
  <2>1. RevisionInv(w)  BY Zenon DEF HistoryInv, StoredInv
  <2>2. revision[w] # Absent => revision[w].command \in Keys \ {k}
    <3>1. revision[w] # Absent => revision[w].command \in Keys
      BY Zenon DEF HistoryInv, HistoryTypeOK, RevisionRow
    <3>2. revision[w] # Absent => Owned(revision[w].command)  BY <2>1, Zenon DEF RevisionInv
    <3> QED  BY <3>1, <3>2, Zenon DEF Owned, FreshKey
  <2>3. revision[w] # Absent => record'[revision[w].command] = record[revision[w].command]
    BY <2>2, Zenon
  <2> QED  BY <2>1, <2>3, Zenon DEF RevisionInv, Owned
<1>3. \A w \in Works : LimitInv(w)'
  BY Zenon DEF HistoryInv, StoredInv, LimitInv, Invocations
<1> QED  BY <1>1, <1>2, <1>3, Zenon

\* Conversations do not notice a command that is no message.
LEMMA MessagesKept ==
  ASSUME HistoryInv, NEW k \in Keys, FreshKey(k),
         UNCHANGED <<message, conversation, turns>>,
         \A j \in Keys \ {k} : record'[j] = record[j]
  PROVE  /\ \A j \in Keys : MessageInv(j)' /\ TipInv(j)'
         /\ TurnsInv' /\ ThreadsAreLinear'
<1>0. \A t : Thread(t)' = Thread(t)  BY Zenon DEF Thread
<1>1. ASSUME NEW j \in Keys PROVE MessageInv(j)'
  <2>1. MessageInv(j)  BY Zenon DEF HistoryInv, StoredInv
  <2>2. Spoken(j) => j # k  BY Zenon DEF FreshKey, Spoken
  <2> QED  BY <1>0, <2>1, <2>2, Zenon DEF MessageInv, Spoken
<1>2. \A j \in Keys : TipInv(j)'  BY <1>0, Zenon DEF HistoryInv, StoredInv, TipInv
<1>3. TurnsInv' /\ ThreadsAreLinear'
  BY Zenon DEF HistoryInv, StoredInv, TurnsInv, ThreadsAreLinear, Spoken
<1> QED  BY <1>1, <1>2, <1>3, Zenon

\* What appending the message m of key k at cursor c does to the tables.
Appended(k, c, m) ==
  /\ m \in MessageRow /\ m # Absent /\ m.event = sequence + 1
  /\ c = Absent => m.thread = k /\ m.sequence = 1 /\ m.parent = Absent
  /\ c # Absent => m.thread = c.thread /\ m.sequence = c.sequence + 1 /\ m.parent = c.message
  /\ message'[k] = m
  /\ record'[k] # Absent /\ record'[k].owned /\ record'[k].event = sequence + 1
  /\ record'[k].body.kind = "message" /\ record'[k].body.cursor = c
  /\ \A j \in Keys \ {k} : /\ message'[j] = message[j] /\ record'[j] = record[j]
                           /\ conversation'[j] = conversation[j]
  /\ conversation'[k] = IF c = Absent THEN sequence + 1 ELSE Absent
  /\ turns' = Append(turns, k) /\ sequence' = sequence + 2
  /\ UNCHANGED <<revision, depends, invocation>>

\* The message m of key k is the last of its thread, and new there.
ThreadGrown(k, m) ==
  /\ \A u : Thread(u)' = IF u = m.thread THEN Thread(u) \cup {k} ELSE Thread(u)
  /\ \A u, j : j \in Thread(u) => /\ message'[j] = message[j] /\ j \in Keys \ {k}
                                  /\ message[j].sequence \in Nat /\ j \in Thread(u)'
  /\ \A j \in Thread(m.thread) : message[j].sequence < m.sequence

LEMMA MessageAppends ==
  ASSUME HistoryInv, NEW k \in Keys, NEW c \in Seen \cup {Absent}, FreshKey(k),
         NewRecord(k, MessageBody(c)), AppendMessage(k, c), UNCHANGED reader
  PROVE  HistoryTypeOK' /\ \E m : Appended(k, c, m)
<1>1. HistoryTypeOK /\ sequence \in Nat  BY Zenon DEF HistoryInv, HistoryTypeOK
<1>2. c # Absent => c \in Cursor /\ c.sequence \in Nat /\ c.thread \in Keys /\ c.message \in Keys
  BY SeenIsStored, Zenon DEF Thread
<1>a. PICK m, b, row : /\ m = [thread |-> IF c = Absent THEN k ELSE c.thread,
                               sequence |-> IF c = Absent THEN 1 ELSE c.sequence + 1,
                               parent |-> IF c = Absent THEN Absent ELSE c.message,
                               event |-> sequence + 1]
                       /\ b = MessageBody(c)
                       /\ row = [body |-> b, owned |-> TRUE, event |-> sequence + 1]
  BY Zenon
<1>3. m \in MessageRow /\ m.event = sequence + 1
  BY <1>1, <1>2, <1>a DEF MessageRow
<1>4. b \in Body /\ b.kind = "message" /\ b.cursor = c  BY <1>2, <1>a, Zenon DEF MessageBody, Body
<1>5. row \in RecordRow /\ row.body = b /\ row.owned /\ row.event = sequence + 1
  BY <1>1, <1>4, <1>a DEF RecordRow
<1>6. m # Absent /\ row # Absent  BY <1>3, <1>5, AbsentIsNoRow, Zenon
<1>7. /\ c = Absent => m.thread = k /\ m.sequence = 1 /\ m.parent = Absent
      /\ c # Absent => m.thread = c.thread /\ m.sequence = c.sequence + 1 /\ m.parent = c.message
  BY <1>a, Zenon
<1>8. /\ message' = [message EXCEPT ![k] = m] /\ record' = [record EXCEPT ![k] = row]
      /\ conversation' = IF c = Absent THEN [conversation EXCEPT ![k] = sequence + 1] ELSE conversation
      /\ turns' = Append(turns, k) /\ sequence' = sequence + 2
      /\ UNCHANGED <<revision, depends, invocation>>
  BY <1>a, Zenon DEF AppendMessage, NewRecord
<1>9. /\ message'[k] = m /\ record'[k] = row
      /\ \A j \in Keys \ {k} : /\ message'[j] = message[j] /\ record'[j] = record[j]
                               /\ conversation'[j] = conversation[j]
      /\ conversation'[k] = IF c = Absent THEN sequence + 1 ELSE Absent
  BY <1>1, <1>8, Zenon DEF HistoryTypeOK, FreshKey
<1>10. HistoryTypeOK'
  <2>1. turns' \in Seq(Keys)  BY <1>1, <1>8 DEF HistoryTypeOK
  <2>2. conversation' \in [Keys -> Nat \cup {Absent}]  BY <1>1, <1>8 DEF HistoryTypeOK
  <2> QED  BY <1>1, <1>3, <1>5, <1>8, <2>1, <2>2 DEF HistoryTypeOK
<1>11. Appended(k, c, m)  BY <1>3, <1>4, <1>5, <1>6, <1>7, <1>8, <1>9, Zenon DEF Appended
<1> QED  BY <1>10, <1>11, Zenon

\* Whoever holds the tip is the only one to get the place after it.
LEMMA ThreadGrows ==
  ASSUME HistoryInv, NEW k \in Keys, NEW c \in Seen \cup {Absent}, FreshKey(k), PositionIsFree(c),
         NEW m, Appended(k, c, m)
  PROVE  ThreadGrown(k, m)
<1>1. \A u : Thread(u) \subseteq Keys \ {k}  BY Zenon DEF Thread, FreshKey
<1>2. \A u : Thread(u)' = IF u = m.thread THEN Thread(u) \cup {k} ELSE Thread(u)
  BY DEF Thread, FreshKey, Appended
<1>3. ASSUME NEW u, NEW j \in Thread(u)
      PROVE  /\ message'[j] = message[j] /\ j \in Keys \ {k}
             /\ message[j].sequence \in Nat /\ j \in Thread(u)'
  <2>1. j \in Keys \ {k}  BY <1>1, Zenon
  <2>2. message'[j] = message[j]  BY <2>1, Zenon DEF Appended
  <2>3. message[j].sequence \in Nat  BY SequenceFromOne, Zenon DEF Thread, Spoken
  <2> QED  BY <1>2, <2>1, <2>2, <2>3, Zenon
<1>4. ASSUME NEW j \in Thread(m.thread) PROVE message[j].sequence < m.sequence
  <2>1. CASE c = Absent
    <3>1. m.thread = k  BY <2>1, Zenon DEF Appended
    <3>2. k \in Thread(k)  BY <3>1, ThreadHasFirst, Zenon
    <3> QED  BY <1>1, <3>2, Zenon
  <2>2. CASE c # Absent
    <3>1. m.thread = c.thread /\ m.sequence = c.sequence + 1  BY <2>2, Zenon DEF Appended
    <3>2. message[j].sequence <= c.sequence  BY <2>2, <3>1, TipIsLast, Zenon
    <3>3. c.sequence \in Nat  BY <2>2, SeenIsStored, Zenon
    <3> QED  BY <1>3, <3>1, <3>2, <3>3
  <2> QED  BY <2>1, <2>2, Zenon
<1> QED  BY <1>2, <1>3, <1>4, Zenon DEF ThreadGrown

LEMMA AppendedRecord ==
  ASSUME HistoryInv, NEW k \in Keys, FreshKey(k), NEW c, NEW m, Appended(k, c, m), NEW j \in Keys
  PROVE  RecordInv(j)'
<1>1. sequence \in Nat /\ sequence' = sequence + 2  BY Zenon DEF HistoryInv, HistoryTypeOK, Appended
<1>2. CASE j = k
  <2>1. Spoken(j)' /\ Owned(j)'  BY <1>2, Zenon DEF Spoken, Owned, Appended
  <2>2. record'[j].event \in 1..sequence'  BY <1>1, <1>2 DEF Appended
  <2>3. invocation'[j] = Absent  BY <1>2, Zenon DEF FreshKey, Appended
  <2>4. conversation'[j] # Absent => conversation'[j] = message'[j].event  BY <1>2, Zenon DEF Appended
  <2>5. record'[j].body.kind = "message" /\ record'[j].owned  BY <1>2, Zenon DEF Appended
  <2> QED  BY <2>1, <2>2, <2>3, <2>4, <2>5, Zenon DEF RecordInv
<1>3. CASE j # k
  <2>1. RecordInv(j)  BY Zenon DEF HistoryInv, StoredInv
  <2>2. record[j] # Absent => record[j].event \in 1..sequence'  BY <1>1, <2>1, SMTT(30) DEF RecordInv
  <2>3. /\ message'[j] = message[j] /\ record'[j] = record[j] /\ conversation'[j] = conversation[j]
        /\ invocation' = invocation
    BY <1>3, Zenon DEF Appended
  <2> QED  BY <2>1, <2>2, <2>3, Zenon DEF RecordInv, Spoken, Owned
<1> QED  BY <1>2, <1>3, Zenon

\* The new message has its place.
LEMMA NewMessage ==
  ASSUME HistoryInv, NEW k \in Keys, NEW c \in Seen \cup {Absent}, NEW m,
         Appended(k, c, m), ThreadGrown(k, m)
  PROVE  MessageInv(k)'
<1>1. /\ message'[k] = m /\ m.event = record'[k].event /\ record'[k].body.cursor = c
      /\ c = Absent => m.thread = k /\ m.sequence = 1 /\ m.parent = Absent
      /\ c # Absent => m.thread = c.thread /\ m.sequence = c.sequence + 1 /\ m.parent = c.message
  BY Zenon DEF Appended
<1>2. CASE c = Absent
  <2>1. k \in Thread(k)'  BY <1>1, <1>2, Zenon DEF ThreadGrown
  <2>2. conversation'[k] = message'[k].event  BY <1>1, <1>2, Zenon DEF Appended
  <2>3. 1..(m.sequence - 1) = {}  BY <1>1, <1>2
  <2> QED  BY <1>1, <1>2, <2>1, <2>2, <2>3, Zenon DEF MessageInv
<1>3. CASE c # Absent
  <2>1. /\ c.message \in Thread(c.thread) /\ message[c.message].sequence = c.sequence
        /\ c.sequence \in Nat /\ c.sequence >= 1 /\ c.thread \in Keys
    BY <1>3, SeenIsStored, Zenon
  <2>2. c.message \in Thread(c.thread)' /\ message'[c.message].sequence = c.sequence
    BY <2>1, Zenon DEF ThreadGrown
  <2>3. /\ c.thread \in Thread(c.thread) /\ message[c.thread].sequence = 1
        /\ conversation[c.thread] = message[c.thread].event
    BY <2>1, ThreadHasFirst, Zenon
  <2>4. c.thread \in Keys \ {k} /\ c.thread \in Thread(c.thread)'  BY <2>3, Zenon DEF ThreadGrown
  <2>5. message'[c.thread] = message[c.thread] /\ conversation'[c.thread] = conversation[c.thread]
    BY <2>4, Zenon DEF Appended
  <2>6. ASSUME NEW n \in 1..(m.sequence - 1)
        PROVE  \E p \in Thread(c.thread)' : message'[p].sequence = n
    <3>1. n \in 1..c.sequence  BY <1>1, <1>3, <2>1
    <3>2. CASE n = c.sequence  BY <2>2, <3>2, Zenon
    <3>3. CASE n # c.sequence
      <4>1. n \in 1..(message[c.message].sequence - 1)  BY <2>1, <3>1, <3>3
      <4>2. c.message \in Keys /\ Spoken(c.message) /\ message[c.message].thread = c.thread
        BY <2>1, Zenon DEF Thread, Spoken
      <4>3. MessageInv(c.message)  BY <4>2, Zenon DEF HistoryInv, StoredInv
      <4>4. PICK p \in Thread(c.thread) : message[p].sequence = n
        BY <4>1, <4>2, <4>3, Zenon DEF MessageInv
      <4> QED  BY <4>4, Zenon DEF ThreadGrown
    <3> QED  BY <3>2, <3>3, Zenon
  <2>7. m.thread = c.thread  BY <1>1, <1>3, Zenon
  <2>8. m.thread \in Thread(m.thread)' /\ message'[m.thread].sequence = 1
        /\ conversation'[m.thread] = message'[m.thread].event
    BY <2>3, <2>4, <2>5, <2>7, Zenon
  <2>9. \A n \in 1..(m.sequence - 1) : \E p \in Thread(m.thread)' : message'[p].sequence = n
    BY <2>6, <2>7, Zenon
  <2> QED  BY <1>1, <1>3, <2>1, <2>2, <2>8, <2>9, Zenon DEF MessageInv
<1> QED  BY <1>2, <1>3, Zenon

\* Earlier messages keep theirs.
LEMMA EarlierMessage ==
  ASSUME HistoryInv, NEW k \in Keys, NEW c, NEW m, Appended(k, c, m), ThreadGrown(k, m),
         NEW j \in Keys \ {k}
  PROVE  MessageInv(j)'
<1>1. MessageInv(j) /\ message'[j] = message[j] /\ record'[j] = record[j]
  BY Zenon DEF HistoryInv, StoredInv, Appended
<1>2. CASE ~Spoken(j)  BY <1>1, <1>2, ZenonT(40) DEF MessageInv, Spoken
<1>3. CASE Spoken(j)
  <2>a. PICK n, d : n = message[j] /\ d = record[j].body.cursor  BY Zenon
  <2>1. /\ n.event = record[j].event
        /\ d = Absent => n.thread = j /\ n.sequence = 1 /\ n.parent = Absent
        /\ d # Absent =>
             /\ n.thread = d.thread /\ n.sequence = d.sequence + 1 /\ n.parent = d.message
             /\ d.message \in Thread(d.thread) /\ message[d.message].sequence = d.sequence
             /\ d.sequence >= 1
        /\ n.thread \in Thread(n.thread) /\ message[n.thread].sequence = 1
        /\ conversation[n.thread] = message[n.thread].event
        /\ \A i \in 1..(n.sequence - 1) : \E p \in Thread(n.thread) : message[p].sequence = i
    BY <1>1, <1>3, <2>a, Zenon DEF MessageInv
  <2>2. d # Absent => d.message \in Thread(d.thread)' /\ message'[d.message].sequence = d.sequence
    BY <2>1 DEF ThreadGrown
  <2>3. /\ n.thread \in Thread(n.thread)' /\ message'[n.thread] = message[n.thread]
        /\ n.thread \in Keys \ {k}
    BY <2>1, Zenon DEF ThreadGrown
  <2>4. conversation'[n.thread] = conversation[n.thread]  BY <2>3, Zenon DEF Appended
  <2>5. \A i \in 1..(n.sequence - 1) : \E p \in Thread(n.thread)' : message'[p].sequence = i
    BY <2>1 DEF ThreadGrown
  <2> QED  BY <1>1, <2>a, <2>1, <2>2, <2>3, <2>4, <2>5, ZenonT(40) DEF MessageInv
<1> QED  BY <1>2, <1>3, Zenon

LEMMA AppendedTip ==
  ASSUME HistoryInv, NEW k \in Keys, NEW c, NEW m, Appended(k, c, m), ThreadGrown(k, m),
         NEW u \in Keys
  PROVE  TipInv(u)'
<1>1. CASE u = m.thread
  <2>1. k \in Thread(u)' /\ message'[k] = m /\ m.sequence \in Nat
    BY <1>1, Zenon DEF ThreadGrown, Appended, MessageRow
  <2>2. ASSUME NEW j \in Thread(u)' PROVE message'[j].sequence <= message'[k].sequence
    <3>1. CASE j = k  BY <2>1, <3>1
    <3>2. CASE j # k
      <4>1. j \in Thread(u)  BY <1>1, <2>2, <3>2, Zenon DEF ThreadGrown
      <4>2. message'[j] = message[j] /\ message[j].sequence \in Nat /\ message[j].sequence < m.sequence
        BY <1>1, <4>1, Zenon DEF ThreadGrown
      <4> QED  BY <2>1, <4>2
    <3> QED  BY <3>1, <3>2, Zenon
  <2> QED  BY <2>1, <2>2, Zenon DEF TipInv
<1>2. CASE u # m.thread
  <2>1. Thread(u)' = Thread(u) /\ \A j \in Thread(u) : message'[j] = message[j]
    BY <1>2, Zenon DEF ThreadGrown
  <2>2. TipInv(u)  BY Zenon DEF HistoryInv, StoredInv
  <2> QED  BY <2>1, <2>2, Zenon DEF TipInv
<1> QED  BY <1>1, <1>2, Zenon

LEMMA AppendedTurn ==
  ASSUME HistoryInv, NEW k \in Keys, FreshKey(k), NEW c, NEW m, Appended(k, c, m)
  PROVE  TurnsInv'
<1> DEFINE n == Len(turns)
<1>1. turns \in Seq(Keys) /\ turns' = Append(turns, k) /\ TurnsInv
  BY Zenon DEF HistoryInv, HistoryTypeOK, Appended, StoredInv
<1>2. n \in Nat /\ DOMAIN turns = 1..n /\ DOMAIN turns' = 1..(n + 1)
      /\ turns'[n + 1] = k /\ \A i \in 1..n : turns'[i] = turns[i]
  BY <1>1
<1> HIDE DEF n
<1>3. \A i \in 1..n : Spoken(turns[i]) /\ turns[i] \in Keys  BY <1>1, <1>2 DEF TurnsInv
<1>4. \A i \in 1..n : turns[i] # k  BY <1>3, Zenon DEF Spoken, FreshKey
<1>5. \A i \in 1..(n + 1) : i \in 1..n \/ i = n + 1  BY <1>2
<1>6. \A j \in Keys : Spoken(j)' <=> j = k \/ Spoken(j)  BY Zenon DEF Spoken, Appended, FreshKey
<1>7. \A i \in DOMAIN turns' : Spoken(turns[i])'
  <2>1. ASSUME NEW i \in 1..(n + 1) PROVE message'[turns'[i]] # Absent
    <3>1. turns'[i] \in Keys /\ (turns'[i] = k \/ Spoken(turns'[i]))  BY <1>2, <1>3, <1>5, Zenon
    <3> QED  BY <3>1, Zenon DEF Appended, Spoken
  <2> QED  BY <1>2, <2>1, Zenon DEF Spoken
<1>8. \A i, j \in DOMAIN turns' : turns'[i] = turns'[j] => i = j
  <2>1. \A i, j \in 1..n : turns[i] = turns[j] => i = j  BY <1>1, <1>2, Zenon DEF TurnsInv
  <2> QED  BY <1>2, <1>4, <1>5, <2>1, Zenon
<1>9. \A j \in Keys : Spoken(j)' => \E i \in DOMAIN turns' : turns'[i] = j
  <2> SUFFICES ASSUME NEW j \in Keys, Spoken(j)' PROVE \E i \in DOMAIN turns' : turns'[i] = j
    BY Zenon
  <2>1. CASE j = k  BY <1>2, <2>1
  <2>2. CASE j # k
    <3>1. PICK i \in 1..n : turns[i] = j  BY <1>1, <1>2, <1>6, <2>2, Zenon DEF TurnsInv
    <3>2. i \in DOMAIN turns'  BY <1>2
    <3> QED  BY <1>2, <3>1, <3>2, Zenon
  <2> QED  BY <2>1, <2>2, Zenon
<1> QED  BY <1>7, <1>8, <1>9, Zenon DEF TurnsInv

LEMMA AppendedInLine ==
  ASSUME HistoryInv, NEW k \in Keys, NEW c, NEW m, Appended(k, c, m), ThreadGrown(k, m)
  PROVE  ThreadsAreLinear'
<1> SUFFICES ASSUME NEW i \in Keys, NEW j \in Keys, message'[i] # Absent, message'[j] # Absent,
                    message'[i].thread = message'[j].thread,
                    message'[i].sequence = message'[j].sequence
             PROVE  i = j
  BY Zenon DEF ThreadsAreLinear
<1>1. message'[k] = m /\ m.sequence \in Nat /\ \A p \in Keys \ {k} : message'[p] = message[p]
  BY Zenon DEF Appended, MessageRow
<1>2. ASSUME NEW p \in Keys \ {k}, message'[p] # Absent, message'[p].thread = m.thread
      PROVE  message'[p].sequence # m.sequence
  <2>1. p \in Thread(m.thread)  BY <1>1, <1>2, Zenon DEF Thread
  <2>2. message[p].sequence \in Nat /\ message[p].sequence < m.sequence  BY <2>1, Zenon DEF ThreadGrown
  <2> QED  BY <1>1, <2>2
<1>3. CASE i = k \/ j = k  BY <1>1, <1>2, <1>3, Zenon
<1>4. CASE i # k /\ j # k  BY <1>1, <1>4, Zenon DEF HistoryInv, StoredInv, ThreadsAreLinear
<1> QED  BY <1>3, <1>4, Zenon

\* A message: a new conversation, or the place after the tip of one.
LEMMA MessageKeeps ==
  ASSUME HistoryInv, NEW k \in Keys, NEW c \in Seen \cup {Absent}, FreshKey(k), PositionIsFree(c),
         NewRecord(k, MessageBody(c)), AppendMessage(k, c), UNCHANGED reader
  PROVE  HistoryInv'
<1>1. HistoryTypeOK'  BY MessageAppends, Zenon
<1>2. PICK m : Appended(k, c, m)  BY MessageAppends, Zenon
<1>3. ThreadGrown(k, m)  BY <1>2, ThreadGrows, Zenon
<1>4. ASSUME NEW j \in Keys PROVE RecordInv(j)' /\ MessageInv(j)' /\ TipInv(j)'
  <2>1. RecordInv(j)'  BY <1>2, AppendedRecord, Zenon
  <2>2. TipInv(j)'  BY <1>2, <1>3, AppendedTip, Zenon
  <2>3. CASE j = k  BY <1>2, <1>3, <2>1, <2>2, <2>3, NewMessage, Zenon
  <2>4. CASE j # k
    <3>1. MessageInv(j)'  BY <1>2, <1>3, <2>4, EarlierMessage, Zenon
    <3> QED  BY <2>1, <2>2, <3>1, Zenon
  <2> QED  BY <2>3, <2>4, Zenon
<1>5. TurnsInv'  BY <1>2, AppendedTurn, Zenon
<1>6. ThreadsAreLinear'  BY <1>2, <1>3, AppendedInLine, Zenon
<1>7. /\ \A j \in Keys : InvocationInv(j)'
      /\ \A w \in Works : RevisionInv(w)' /\ LimitInv(w)'
  <2>1. UNCHANGED <<revision, depends, invocation>> /\ \A j \in Keys \ {k} : record'[j] = record[j]
    BY <1>2, Zenon DEF Appended
  <2> QED  BY <2>1, TasksKept, Zenon
<1>8. ReadersInv'
  <2>1. Grows  BY <1>2, Zenon DEF Appended, Grows, FreshKey
  <2> QED  BY <2>1, ReadersKept, Zenon
<1> QED  BY <1>1, <1>4, <1>5, <1>6, <1>7, <1>8, Zenon DEF HistoryInv, StoredInv

\* What admitting key k for task w does to the tables, at event n.
Admitted(k, w, sel, n) ==
  /\ n = sequence + 1 /\ n \in Nat
  /\ record'[k] # Absent /\ record'[k].owned /\ record'[k].event = n
  /\ record'[k].body.kind = "task" /\ record'[k].body.task = w /\ record'[k].body.selection = sel
  /\ invocation'[k] # Absent /\ invocation'[k].event = n
  /\ invocation'[k].task = w /\ invocation'[k].selection = sel
  /\ \A j \in Keys \ {k} : record'[j] = record[j] /\ invocation'[j] = invocation[j]
  /\ revision'[w] # Absent
  /\ revision[w] = Absent => revision'[w].command = k /\ revision'[w].event = n
  /\ \A u \in Works : u # w \/ revision[u] # Absent => revision'[u] = revision[u]
  /\ depends' = IF revision[w] # Absent THEN depends ELSE depends \cup ({w} \X Needs[w])
  /\ sequence' = n /\ UNCHANGED <<conversation, message, turns>>

LEMMA TaskAdmits ==
  ASSUME HistoryInv, NEW k \in Keys, NEW w \in Works, NEW sel \in Selections,
         NewRecord(k, CodingBody(w, sel)), AdmitTask(k, CodingBody(w, sel)), UNCHANGED reader
  PROVE  HistoryTypeOK' /\ \E n : Admitted(k, w, sel, n)
<1>1. HistoryTypeOK /\ sequence \in Nat /\ Needs \in [Works -> SUBSET Works]
  BY HistoryConstants, Zenon DEF HistoryInv, HistoryTypeOK
<1>a. PICK n : n = sequence + 1  BY Zenon
<1>b. PICK row, i, v : /\ row = [body |-> CodingBody(w, sel), owned |-> TRUE, event |-> n]
                       /\ i = [task |-> w, selection |-> sel, event |-> n]
                       /\ v = [command |-> k, event |-> n]
  BY Zenon
<1>2. n \in Nat  BY <1>1, <1>a
<1>3. row \in RecordRow /\ i \in InvocationRow /\ v \in RevisionRow
  <2>1. CodingBody(w, sel) \in Body  BY Zenon DEF CodingBody, Body
  <2> QED  BY <1>2, <1>b, <2>1, Zenon DEF RecordRow, InvocationRow, RevisionRow
<1>4. row # Absent /\ i # Absent /\ v # Absent  BY <1>3, AbsentIsNoRow, Zenon
<1>5. /\ row.body.kind = "task" /\ row.body.task = w /\ row.body.selection = sel
      /\ row.owned /\ row.event = n
      /\ i.task = w /\ i.selection = sel /\ i.event = n /\ v.command = k /\ v.event = n
  BY <1>b, Zenon DEF CodingBody
<1>6. /\ record' = [record EXCEPT ![k] = row] /\ invocation' = [invocation EXCEPT ![k] = i]
      /\ revision' = IF revision[w] # Absent THEN revision ELSE [revision EXCEPT ![w] = v]
      /\ depends' = IF revision[w] # Absent THEN depends ELSE depends \cup ({w} \X Needs[w])
      /\ sequence' = n /\ UNCHANGED <<conversation, message, turns>>
  BY <1>a, <1>b, Zenon DEF AdmitTask, NewRecord, CodingBody
<1>7. /\ record'[k] = row /\ invocation'[k] = i
      /\ \A j \in Keys \ {k} : record'[j] = record[j] /\ invocation'[j] = invocation[j]
      /\ \A u \in Works : u # w \/ revision[u] # Absent => revision'[u] = revision[u]
      /\ revision'[w] = IF revision[w] # Absent THEN revision[w] ELSE v
  BY <1>1, <1>6, Zenon DEF HistoryTypeOK
<1>8. HistoryTypeOK'
  <2>1. {w} \X Needs[w] \subseteq Works \X Works  BY <1>1, Zenon
  <2>2. depends' \subseteq Works \X Works  BY <1>1, <1>6, <2>1, Zenon DEF HistoryTypeOK
  <2>3. revision' \in [Works -> RevisionRow \cup {Absent}]
    BY <1>1, <1>3, <1>6, Zenon DEF HistoryTypeOK
  <2>4. /\ record' \in [Keys -> RecordRow \cup {Absent}]
        /\ invocation' \in [Keys -> InvocationRow \cup {Absent}]
    BY <1>1, <1>3, <1>6, Zenon DEF HistoryTypeOK
  <2> QED  BY <1>1, <1>2, <1>6, <2>2, <2>3, <2>4, Zenon DEF HistoryTypeOK
<1>9. /\ n = sequence + 1 /\ n \in Nat
      /\ record'[k] # Absent /\ record'[k].owned /\ record'[k].event = n
      /\ record'[k].body.kind = "task" /\ record'[k].body.task = w /\ record'[k].body.selection = sel
      /\ invocation'[k] # Absent /\ invocation'[k].event = n
      /\ invocation'[k].task = w /\ invocation'[k].selection = sel
      /\ revision'[w] # Absent
      /\ revision[w] = Absent => revision'[w].command = k /\ revision'[w].event = n
  BY <1>2, <1>4, <1>5, <1>7, <1>a, Zenon
<1>10. Admitted(k, w, sel, n)  BY <1>6, <1>7, <1>9, Zenon DEF Admitted
<1> QED  BY <1>8, <1>10, Zenon

\* A revision stays as it is, and every later event is after it.
LEMMA RevisionStays ==
  ASSUME HistoryInv, NEW k \in Keys, FreshKey(k), NEW w, NEW sel, NEW n, Admitted(k, w, sel, n),
         NEW u \in Works, revision[u] # Absent
  PROVE  /\ revision'[u] = revision[u] /\ revision[u].command \in Keys \ {k}
         /\ revision[u].event \in Nat /\ revision[u].event < n
<1>1. revision'[u] = revision[u] /\ n = sequence + 1  BY Zenon DEF Admitted
<1>2. revision[u] \in RevisionRow /\ RevisionInv(u) /\ sequence \in Nat
  BY Zenon DEF HistoryInv, HistoryTypeOK, StoredInv
<1>3. revision[u].command \in Keys /\ revision[u].event \in Nat  BY <1>2, Zenon DEF RevisionRow
<1>4. Owned(revision[u].command) /\ record[revision[u].command].event = revision[u].event
  BY <1>2, Zenon DEF RevisionInv
<1>5. revision[u].command # k  BY <1>4, Zenon DEF Owned, FreshKey
<1>6. RecordInv(revision[u].command)  BY <1>3, Zenon DEF HistoryInv, StoredInv
<1>7. revision[u].event \in 1..sequence  BY <1>4, <1>6, Zenon DEF RecordInv, Owned
<1> QED  BY <1>1, <1>2, <1>3, <1>5, <1>7, SMTT(30)

LEMMA AdmittedRecord ==
  ASSUME HistoryInv, NEW k \in Keys, FreshKey(k), NEW w, NEW sel, NEW n, Admitted(k, w, sel, n),
         NEW j \in Keys
  PROVE  RecordInv(j)'
<1>1. sequence \in Nat /\ n = sequence + 1 /\ sequence' = n
  BY Zenon DEF HistoryInv, HistoryTypeOK, Admitted
<1>2. CASE j = k
  <2>1. record'[j].event \in 1..sequence'  BY <1>1, <1>2 DEF Admitted
  <2>2. ~Spoken(j)' /\ conversation'[j] = Absent  BY <1>2, Zenon DEF Spoken, FreshKey, Admitted
  <2>3. Owned(j)' /\ record'[j].body.kind = "task" /\ invocation'[j] # Absent
    BY <1>2, Zenon DEF Owned, Admitted
  <2> QED  BY <2>1, <2>2, <2>3, Zenon DEF RecordInv, Owned
<1>3. CASE j # k
  <2>1. RecordInv(j)  BY Zenon DEF HistoryInv, StoredInv
  <2>2. record[j] # Absent => record[j].event \in 1..sequence'  BY <1>1, <2>1, SMTT(30) DEF RecordInv
  <2>3. /\ record'[j] = record[j] /\ invocation'[j] = invocation[j]
        /\ message' = message /\ conversation' = conversation
    BY <1>3, Zenon DEF Admitted
  <2> QED  BY <2>1, <2>2, <2>3, Zenon DEF RecordInv, Spoken, Owned
<1> QED  BY <1>2, <1>3, Zenon

\* A new revision comes after those it needs.
LEMMA AdmittedRevision ==
  ASSUME HistoryInv, NEW k \in Keys, FreshKey(k), NEW w \in Works, NEW sel, NEW n,
         Admitted(k, w, sel, n), \A d \in Needs[w] : revision[d] # Absent, NEW u \in Works
  PROVE  RevisionInv(u)'
<1>0. RevisionInv(u) /\ Needs[u] \subseteq Works /\ Needs[w] \subseteq Works
  BY HistoryConstants, Zenon DEF HistoryInv, StoredInv
<1>1. depends' = IF revision[w] # Absent THEN depends ELSE depends \cup ({w} \X Needs[w])
  BY Zenon DEF Admitted
<1>2. CASE revision[u] # Absent
  <2>1. {d \in Works : <<u, d>> \in depends'} = {d \in Works : <<u, d>> \in depends}
    BY <1>1, <1>2, Zenon
  <2>2. PICK c : c = revision[u].command  BY Zenon
  <2>3. /\ Owned(c) /\ record[c].event = revision[u].event
        /\ record[c].body.kind = "task" /\ record[c].body.task = u
        /\ {d \in Works : <<u, d>> \in depends} = Needs[u]
        /\ \A d \in Needs[u] : revision[d] # Absent /\ revision[d].event < revision[u].event
    BY <1>0, <1>2, <2>2, Zenon DEF RevisionInv
  <2>4. revision'[u] = revision[u] /\ c \in Keys \ {k}  BY <1>2, <2>2, RevisionStays, Zenon
  <2>5. record'[c] = record[c]  BY <2>4, Zenon DEF Admitted
  <2>6. \A d \in Needs[u] : revision'[d] = revision[d]  BY <1>0, <2>3, RevisionStays, Zenon
  <2> QED  BY <1>2, <2>1, <2>2, <2>3, <2>4, <2>5, <2>6, SMTT(30) DEF RevisionInv, Owned
<1>3. CASE revision[u] = Absent /\ u # w
  <2>1. revision'[u] = Absent  BY <1>3, Zenon DEF Admitted
  <2>2. \A d \in Works : <<u, d>> \notin depends'  BY <1>0, <1>1, <1>3, Zenon DEF RevisionInv
  <2> QED  BY <2>1, <2>2, Zenon DEF RevisionInv
<1>4. CASE revision[u] = Absent /\ u = w
  <2>1. revision'[u] # Absent /\ revision'[u].command = k /\ revision'[u].event = n
    BY <1>4, Zenon DEF Admitted
  <2>2. {d \in Works : <<u, d>> \in depends'} = Needs[u]  BY <1>0, <1>1, <1>4, Zenon DEF RevisionInv
  <2>3. \A d \in Needs[u] : revision'[d] # Absent /\ revision'[d].event < n
    BY <1>0, <1>4, RevisionStays, Zenon
  <2>4. /\ Owned(k)' /\ record'[k].event = n
        /\ record'[k].body.kind = "task" /\ record'[k].body.task = u
    BY <1>4, Zenon DEF Admitted, Owned
  <2> QED  BY <2>1, <2>2, <2>3, <2>4, Zenon DEF RevisionInv, Owned
<1> QED  BY <1>2, <1>3, <1>4, Zenon

LEMMA AdmittedInvocation ==
  ASSUME HistoryInv, NEW k \in Keys, FreshKey(k), NEW w \in Works, NEW sel, NEW n,
         Admitted(k, w, sel, n), NEW j \in Keys
  PROVE  InvocationInv(j)'
<1>1. CASE j = k
  <2>1. revision'[w] # Absent /\ n \in Nat  BY Zenon DEF Admitted
  <2>2. revision'[w].event <= n
    <3>1. CASE revision[w] = Absent  BY <2>1, <3>1 DEF Admitted
    <3>2. CASE revision[w] # Absent
      <4>1. revision'[w] = revision[w] /\ revision[w].event \in Nat /\ revision[w].event < n
        BY <3>2, RevisionStays, Zenon
      <4> QED  BY <2>1, <4>1
    <3> QED  BY <3>1, <3>2, Zenon
  <2>3. /\ invocation'[k].event = record'[k].event /\ invocation'[k].task = record'[k].body.task
        /\ invocation'[k].selection = record'[k].body.selection
        /\ invocation'[k].task = w /\ invocation'[k].event = n
    BY Zenon DEF Admitted
  <2> QED  BY <1>1, <2>1, <2>2, <2>3, Zenon DEF InvocationInv
<1>2. CASE j # k
  <2>1. InvocationInv(j) /\ invocation'[j] = invocation[j] /\ record'[j] = record[j]
    BY <1>2, Zenon DEF HistoryInv, StoredInv, Admitted
  <2>2. ASSUME invocation[j] # Absent
        PROVE  revision'[invocation[j].task] = revision[invocation[j].task]
    <3>1. invocation[j].task \in Works  BY <2>2, RowTypes, Zenon DEF HistoryInv, InvocationRow
    <3>2. revision[invocation[j].task] # Absent  BY <2>1, <2>2, Zenon DEF InvocationInv
    <3> QED  BY <3>1, <3>2, RevisionStays, Zenon
  <2> QED  BY <2>1, <2>2, Zenon DEF InvocationInv
<1> QED  BY <1>1, <1>2, Zenon

LEMMA AdmittedInLimit ==
  ASSUME HistoryInv, NEW k \in Keys, FreshKey(k), NEW w \in Works, NEW sel, NEW n,
         Admitted(k, w, sel, n), Cardinality(Invocations(w)) < Limit[w], NEW u \in Works
  PROVE  LimitInv(u)'
<1>1. /\ IsFiniteSet(Invocations(u)) /\ Cardinality(Invocations(u)) <= Limit[u]
      /\ Limit \in [Works -> Nat]
  BY HistoryConstants, Zenon DEF HistoryInv, StoredInv, LimitInv
<1>2. CASE u = w
  <2>1. Invocations(u)' = Invocations(u) \cup {k} /\ k \notin Invocations(u)
    BY <1>2 DEF Invocations, FreshKey, Admitted
  <2>2. IsFiniteSet(Invocations(u) \cup {k})
        /\ Cardinality(Invocations(u) \cup {k}) = Cardinality(Invocations(u)) + 1
    BY <1>1, <2>1, FS_AddElement, Zenon
  <2>3. Cardinality(Invocations(u)) \in Nat  BY <1>1, FS_CardinalityType, Zenon
  <2>4. Cardinality(Invocations(u)) + 1 <= Limit[u]  BY <1>1, <1>2, <2>3
  <2> QED  BY <2>1, <2>2, <2>4, Zenon DEF LimitInv
<1>3. CASE u # w
  <2>1. Invocations(u)' = Invocations(u)  BY <1>3 DEF Invocations, FreshKey, Admitted
  <2> QED  BY <1>1, <2>1, Zenon DEF LimitInv
<1> QED  BY <1>2, <1>3, Zenon

\* A coding task: its revision if it is new, and one more invocation of it.
LEMMA TaskKeeps ==
  ASSUME HistoryInv, NEW k \in Keys, NEW w \in Works, NEW sel \in Selections, FreshKey(k),
         TaskIsAdmitted(CodingBody(w, sel)), NewRecord(k, CodingBody(w, sel)),
         AdmitTask(k, CodingBody(w, sel)), UNCHANGED reader
  PROVE  HistoryInv'
<1>1. HistoryTypeOK'  BY TaskAdmits, Zenon
<1>2. PICK n : Admitted(k, w, sel, n)  BY TaskAdmits, Zenon
<1>3. /\ \A d \in Needs[w] : revision[d] # Absent
      /\ Cardinality(Invocations(w)) < Limit[w]
  BY Zenon DEF TaskIsAdmitted, CodingBody
<1>4. \A j \in Keys : RecordInv(j)'  BY <1>2, AdmittedRecord, Zenon
<1>5. \A j \in Keys : InvocationInv(j)'  BY <1>2, AdmittedInvocation, Zenon
<1>6. \A u \in Works : RevisionInv(u)'  BY <1>2, <1>3, AdmittedRevision, Zenon
<1>7. \A u \in Works : LimitInv(u)'  BY <1>2, <1>3, AdmittedInLimit, Zenon
<1>8. /\ UNCHANGED <<message, conversation, turns>>
      /\ \A j \in Keys \ {k} : record'[j] = record[j]
  BY <1>2, Zenon DEF Admitted
<1>9. /\ \A j \in Keys : MessageInv(j)' /\ TipInv(j)'
      /\ TurnsInv' /\ ThreadsAreLinear'
  BY <1>8, MessagesKept, Zenon
<1>10. ReadersInv'
  <2>1. Grows  BY <1>8, Zenon DEF Grows, FreshKey
  <2> QED  BY <2>1, ReadersKept, Zenon
<1> QED  BY <1>1, <1>4, <1>5, <1>6, <1>7, <1>9, <1>10, Zenon DEF HistoryInv, StoredInv

\* Any other command has no more than its row.
LEMMA OtherKeeps ==
  ASSUME HistoryInv, NEW k \in Keys, FreshKey(k), NewRecord(k, OtherBody), sequence' = sequence + 1,
         UNCHANGED <<conversation, message, turns, revision, depends, invocation, reader>>
  PROVE  HistoryInv'
<1>0. HistoryTypeOK /\ StoredInv /\ sequence \in Nat  BY Zenon DEF HistoryInv, HistoryTypeOK
<1>a. PICK row : row = [body |-> OtherBody, owned |-> TRUE, event |-> sequence + 1]  BY Zenon
<1>1. row \in RecordRow /\ row.body.kind = "other" /\ row.owned /\ row.event = sequence + 1
  <2>1. OtherBody \in Body /\ OtherBody.kind = "other"  BY Zenon DEF OtherBody, Body
  <2> QED  BY <1>0, <1>a, <2>1 DEF RecordRow
<1>2. record' = [record EXCEPT ![k] = row]  BY <1>a, Zenon DEF NewRecord
<1>3. record'[k] = row /\ \A j \in Keys \ {k} : record'[j] = record[j]
  BY <1>0, <1>2, Zenon DEF HistoryTypeOK
<1>4. HistoryTypeOK'  BY <1>0, <1>1, <1>2 DEF HistoryTypeOK
<1>5. ReadersInv'
  <2>1. Grows  BY <1>3, Zenon DEF Grows, FreshKey
  <2> QED  BY <2>1, ReadersKept, Zenon
<1>6. ASSUME NEW j \in Keys PROVE RecordInv(j)'
  <2>1. CASE j = k
    <3>1. record'[j].event \in 1..sequence'  BY <1>0, <1>1, <1>3, <2>1, SMTT(30)
    <3> QED  BY <1>1, <1>3, <2>1, <3>1, Zenon DEF RecordInv, Spoken, Owned, FreshKey
  <2>2. CASE j # k
    <3>1. RecordInv(j)  BY <1>0, Zenon DEF StoredInv
    <3>2. record[j] # Absent => record[j].event \in 1..sequence'
      BY <1>0, <3>1 DEF RecordInv
    <3> QED  BY <1>3, <2>2, <3>1, <3>2, Zenon DEF RecordInv, Spoken, Owned
  <2> QED  BY <2>1, <2>2, Zenon
<1>7. /\ \A j \in Keys : MessageInv(j)' /\ TipInv(j)'
      /\ TurnsInv' /\ ThreadsAreLinear'
  BY <1>3, MessagesKept, Zenon
<1>8. /\ \A j \in Keys : InvocationInv(j)'
      /\ \A w \in Works : RevisionInv(w)' /\ LimitInv(w)'
  BY <1>3, TasksKept, Zenon
<1> QED  BY <1>4, <1>5, <1>6, <1>7, <1>8, Zenon DEF HistoryInv, StoredInv

\* An accepted submission is one of the three.
LEMMA SubmitKeeps ==
  ASSUME HistoryInv, NEW k \in Keys, NEW b \in Bodies, SubmitOwned(k, b)
  PROVE  HistoryInv'
<1>1. FreshKey(k) /\ Admits(b)  BY AcceptedIsFresh, Zenon DEF SubmitOwned
<1>2. NewRecord(k, b) /\ UNCHANGED reader  BY Zenon DEF SubmitOwned, NewRecord
<1>3. CASE b \in {MessageBody(c) : c \in Seen \cup {Absent}}
  <2>1. PICK c \in Seen \cup {Absent} : b = MessageBody(c)  BY <1>3, Zenon
  <2>2. b.kind = "message" /\ b.cursor = c  BY <2>1, Zenon DEF MessageBody
  <2>3. AppendMessage(k, c) /\ PositionIsFree(c)  BY <1>1, <2>2, Zenon DEF SubmitOwned, Admits
  <2> QED  BY <1>1, <1>2, <2>1, <2>3, MessageKeeps, Zenon
<1>4. CASE b \in {CodingBody(w, s) : w \in Works, s \in Selections}
  <2>1. PICK w \in Works, s \in Selections : b = CodingBody(w, s)  BY <1>4
  <2>2. b.kind = "task"  BY <2>1, Zenon DEF CodingBody
  <2>3. AdmitTask(k, b) /\ TaskIsAdmitted(b)  BY <1>1, <2>2, Zenon DEF SubmitOwned, Admits
  <2> QED  BY <1>1, <1>2, <2>1, <2>3, TaskKeeps, Zenon
<1>5. CASE b = OtherBody
  <2>1. b.kind = "other"  BY <1>5, Zenon DEF OtherBody
  <2>2. /\ sequence' = sequence + 1
        /\ UNCHANGED <<conversation, message, turns, revision, depends, invocation, reader>>
    BY <2>1, Zenon DEF SubmitOwned
  <2> QED  BY <1>1, <1>2, <1>5, <2>2, OtherKeeps, Zenon
<1> QED  BY <1>3, <1>4, <1>5 DEF Bodies

\* Nothing but the event sequence moves, and time.
LEMMA RestKeeps ==
  ASSUME HistoryInv, OtherEvent \/ TimePasses \/ UNCHANGED historyVars
  PROVE  HistoryInv'
<1>1. /\ UNCHANGED <<record, conversation, message, turns, revision, depends, invocation, reader>>
      /\ sequence' = sequence \/ sequence' = sequence + 1
  BY Zenon DEF OtherEvent, TimePasses, historyVars, history
<1>2. sequence \in Nat  BY Zenon DEF HistoryInv, HistoryTypeOK
<1>3. StoredInv'  BY <1>1, <1>2, StoredStays DEF HistoryInv
<1>4. ReadersInv'  BY <1>1, ReadersKept, Zenon DEF Grows
<1>5. HistoryTypeOK'  BY <1>1, <1>2 DEF HistoryInv, HistoryTypeOK
<1> QED  BY <1>3, <1>4, <1>5, Zenon DEF HistoryInv

\* Only commands from before ownership are stored at first.
LEMMA HistoryStarts ==
  ASSUME HistoryInit
  PROVE  HistoryInv
<1>0. Historic \subseteq Keys /\ IsFiniteSet(Historic) /\ Limit \in [Works -> Nat]
  BY HistoryConstants, Zenon
<1>1. sequence = Cardinality(Historic) /\ sequence \in Nat
  BY <1>0, FS_CardinalityType, Zenon DEF HistoryInit
<1>2. \A k \in Historic : sequence >= 1
  <2>1. Historic # {} => sequence # 0  BY <1>0, <1>1, FS_EmptySet, Zenon
  <2> QED  BY <1>1, <2>1
<1>a. PICK row : row = [body |-> OtherBody, owned |-> FALSE, event |-> 1]  BY Zenon
<1>3. row \in RecordRow /\ row.body.kind = "other" /\ row.owned = FALSE /\ row.event = 1
  <2>1. OtherBody \in Body /\ OtherBody.kind = "other"  BY Zenon DEF OtherBody, Body
  <2> QED  BY <1>a, <2>1, Zenon DEF RecordRow
<1>4. /\ record = [k \in Keys |-> IF k \in Historic THEN row ELSE Absent]
      /\ conversation = [k \in Keys |-> Absent] /\ message = [k \in Keys |-> Absent]
      /\ turns = <<>> /\ revision = [w \in Works |-> Absent] /\ depends = {}
      /\ invocation = [k \in Keys |-> Absent] /\ reader = [r \in Readers |-> Idle]
  BY <1>a, Zenon DEF HistoryInit
<1>5. HistoryTypeOK  BY <1>1, <1>3, <1>4 DEF HistoryTypeOK
<1>6. ASSUME NEW k \in Keys PROVE RecordInv(k) /\ MessageInv(k) /\ InvocationInv(k) /\ TipInv(k)
  <2>1. record[k] # Absent => record[k] = row /\ k \in Historic  BY <1>4, Zenon
  <2>2. record[k] # Absent => record[k].event \in 1..sequence  BY <1>1, <1>2, <1>3, <2>1
  <2>3. message[k] = Absent /\ conversation[k] = Absent /\ invocation[k] = Absent  BY <1>4, Zenon
  <2>4. RecordInv(k)  BY <1>3, <2>1, <2>2, <2>3, Zenon DEF RecordInv, Spoken, Owned
  <2>5. MessageInv(k) /\ InvocationInv(k)  BY <2>3, Zenon DEF MessageInv, InvocationInv, Spoken
  <2>6. TipInv(k)  BY <1>4, Zenon DEF TipInv, Thread
  <2> QED  BY <2>4, <2>5, <2>6, Zenon
<1>7. TurnsInv /\ ThreadsAreLinear  BY <1>4 DEF TurnsInv, ThreadsAreLinear, Spoken
<1>8. ASSUME NEW w \in Works PROVE RevisionInv(w) /\ LimitInv(w)
  <2>1. RevisionInv(w)  BY <1>4, Zenon DEF RevisionInv
  <2>2. Invocations(w) = {}  BY <1>4, Zenon DEF Invocations
  <2>3. LimitInv(w)  BY <1>0, <2>2, FS_EmptySet DEF LimitInv
  <2> QED  BY <2>1, <2>3, Zenon
<1>9. ReadersInv  BY <1>4, Zenon DEF ReadersInv
<1> QED  BY <1>5, <1>6, <1>7, <1>8, <1>9, Zenon DEF HistoryInv, StoredInv

----------------------------------------------------------------------------
(* What the invariant says of reading back.                                *)

\* A stored message passes the checks it is loaded with.
LEMMA MessageIsLoaded ==
  ASSUME HistoryInv, NEW k \in Keys, Spoken(k)
  PROVE  MessageLoads(k)
<1> DEFINE m == message[k]
           c == record[k].body.cursor
<1>1. /\ RecordInv(k) /\ MessageInv(k) /\ TurnsInv /\ HistoryTypeOK
  BY Zenon DEF HistoryInv, StoredInv
<1>2. m # Absent /\ record[k].owned /\ m.event = record[k].event
  BY <1>1, Zenon DEF RecordInv, MessageInv, Spoken, Owned
<1>3. IF c = Absent
      THEN m.thread = k /\ m.sequence = 1 /\ m.parent = Absent
      ELSE m.thread = c.thread /\ m.sequence = c.sequence + 1 /\ m.parent = c.message
  BY <1>1, Zenon DEF MessageInv
<1>4. /\ m.thread \in Thread(m.thread) /\ message[m.thread].sequence = 1
      /\ conversation[m.thread] = message[m.thread].event
  BY <1>1, Zenon DEF MessageInv
<1>5. m.thread \in Keys /\ Spoken(m.thread)  BY <1>4, Zenon DEF Thread, Spoken
<1>6. record[m.thread].owned /\ message[m.thread] \in MessageRow
  BY <1>5, RowTypes, Zenon DEF HistoryInv, StoredInv, RecordInv, Owned, Spoken
<1>7. conversation[m.thread] # Absent  BY <1>4, <1>6, AbsentIsNoRow, Zenon DEF MessageRow
<1>8. m.sequence > 1 =>
        \E p \in Thread(m.thread) : p = m.parent /\ message[p].sequence = m.sequence - 1
  <2> SUFFICES ASSUME m.sequence > 1
               PROVE  m.parent \in Thread(m.thread) /\ message[m.parent].sequence = m.sequence - 1
    BY Zenon
  <2>1. c # Absent  BY <1>3
  <2>2. /\ m.thread = c.thread /\ m.sequence = c.sequence + 1 /\ m.parent = c.message
        /\ c.message \in Thread(c.thread) /\ message[c.message].sequence = c.sequence
    BY <1>1, <2>1, Zenon DEF MessageInv
  <2>3. message[c.message].sequence \in Nat
    BY <2>2, SequenceFromOne, Zenon DEF Thread, Spoken
  <2> QED  BY <2>2, <2>3
<1>9. Cardinality({i \in DOMAIN turns : turns[i] = k}) = 1
  <2>1. PICK i \in DOMAIN turns : turns[i] = k  BY <1>1, Zenon DEF TurnsInv
  <2>2. {j \in DOMAIN turns : turns[j] = k} = {i}  BY <1>1, <2>1 DEF TurnsInv
  <2> QED  BY <2>2, FS_Singleton, Zenon
<1> QED  BY <1>2, <1>3, <1>4, <1>6, <1>7, <1>8, <1>9, Zenon DEF MessageLoads

\* And so do those it follows.
LEMMA ConversationIsLoaded ==
  ASSUME HistoryInv, NEW k \in Keys, Spoken(k)
  PROVE  ConversationLoads(k)
<1>1. MessageLoads(k)  BY MessageIsLoaded, Zenon
<1>2. \A n \in 1..(message[k].sequence - 1) :
        \E p \in Thread(message[k].thread) : message[p].sequence = n
  BY Zenon DEF HistoryInv, StoredInv, MessageInv
<1>3. \A p \in Thread(message[k].thread) : MessageLoads(p)
  BY MessageIsLoaded, Zenon DEF Thread, Spoken
<1> QED  BY <1>1, <1>2, <1>3, Zenon DEF ConversationLoads

\* A stored invocation passes the checks it is loaded with.
LEMMA InvocationIsLoaded ==
  ASSUME HistoryInv, NEW k \in Keys, invocation[k] # Absent
  PROVE  InvocationLoads(k)
<1>1. RecordInv(k) /\ InvocationInv(k) /\ invocation[k] \in InvocationRow
  BY RowTypes, Zenon DEF HistoryInv, StoredInv
<1> DEFINE w == invocation[k].task
<1>2. w \in Works  BY <1>1, Zenon DEF InvocationRow
<1>3. RevisionInv(w) /\ revision[w] # Absent /\ revision[w].event <= invocation[k].event
  BY <1>1, <1>2, Zenon DEF HistoryInv, StoredInv, InvocationInv
<1>4. RevisionLoads(w)  BY <1>3, Zenon DEF RevisionInv, RevisionLoads, Owned
<1> QED  BY <1>1, <1>3, <1>4, Zenon DEF InvocationLoads, InvocationInv, RecordInv, Owned

----------------------------------------------------------------------------
(* The theorems.                                                           *)

\* Every reachable history satisfies the invariant: rows are never rewritten,
\* a submission adds the rows of one key in one transaction, and a reader's
\* cursor passes no row that it has not read.
THEOREM HistoryKept == HistorySpec => []HistoryInv
<1>1. HistoryInit => HistoryInv  BY HistoryStarts, Zenon
<1>2. HistoryInv /\ [HistoryNext]_historyVars => HistoryInv'
  <2> SUFFICES ASSUME HistoryInv, [HistoryNext]_historyVars PROVE HistoryInv'  BY Zenon
  <2>1. ASSUME NEW k \in Keys, NEW b \in Bodies, SubmitOwned(k, b) PROVE HistoryInv'
    BY <2>1, SubmitKeeps, Zenon
  <2>2. CASE OtherEvent \/ TimePasses \/ UNCHANGED historyVars  BY <2>2, RestKeeps, Zenon
  <2>3. ASSUME NEW r \in Readers,
               NEW list \in {"commands", "conversations"} \cup {k \in Keys : conversation[k] # Absent},
               OpenList(r, list)
        PROVE  HistoryInv'
    <3>1. list \in {"commands", "conversations"} \cup Keys  BY Zenon
    <3> QED  BY <2>3, <3>1, OpenKeeps, Zenon
  <2>4. ASSUME NEW r \in Readers, NEW n \in 0..PageLimit, ReadPage(r, n) PROVE HistoryInv'
    <3>1. n \in Nat  BY HistoryConstants
    <3> QED  BY <2>4, <3>1, PageKeeps, Zenon
  <2> QED  BY <2>1, <2>2, <2>3, <2>4, Zenon DEF HistoryNext
<1> QED  BY <1>1, <1>2, PTL DEF HistorySpec

\* For any number of keys, tasks and readers: an accepted command loads with
\* all it was bound to and its exact retry is answered with the original
\* (submit_operator_command), no task exceeds max_invocations, conversations
\* do not fork, and following next_after to the end leaves out no row that was
\* there at the start (list_operator_commands, get_operator_conversation).
THEOREM HistoryStaysWhole == HistorySpec => []HistoryIsWhole
<1>1. ASSUME HistoryInv PROVE HistoryIsWhole
  <2>1. ASSUME NEW k \in Keys, record[k] # Absent, record[k].owned
        PROVE  CheckedRecord(k) /\ Outcome(k, record[k].body) = "replayed"
    <3>1. RecordInv(k)  BY <1>1, Zenon DEF HistoryInv, StoredInv
    <3>2. record[k].body.kind = "message" => ConversationLoads(k)
      BY <1>1, <2>1, <3>1, ConversationIsLoaded, Zenon DEF RecordInv, Owned
    <3>3. record[k].body.kind = "task" => InvocationLoads(k)
      BY <1>1, <2>1, <3>1, InvocationIsLoaded, Zenon DEF RecordInv, Owned
    <3>4. CheckedRecord(k)  BY <3>2, <3>3, Zenon DEF CheckedRecord
    <3> QED  BY <2>1, <3>4, Zenon DEF Outcome
  <2>2. \A w \in Works : Cardinality(Invocations(w)) <= Limit[w]
    BY <1>1, Zenon DEF HistoryInv, StoredInv, LimitInv
  <2>3. HistoryLoads  BY <2>1, <2>2, Zenon DEF HistoryLoads
  <2>4. PagesAreComplete
    <3> SUFFICES ASSUME NEW r \in Readers, reader[r] # Idle, NEW s, s = reader[r]
                 PROVE  /\ \A i, j \in DOMAIN s.got : i < j => Place(s.list, s.got[i]) < Place(s.list, s.got[j])
                        /\ s.done => s.since \subseteq {s.got[i] : i \in DOMAIN s.got}
      BY Zenon DEF PagesAreComplete
    <3>1. ReaderInv(s)  BY <1>1, Zenon DEF HistoryInv, ReadersInv
    <3>2. s.done => \A k \in s.since : \E i \in DOMAIN s.got : s.got[i] = k  BY <3>1, Zenon DEF ReaderInv
    <3>3. s.done => s.since \subseteq {s.got[i] : i \in DOMAIN s.got}  BY <3>2, Zenon
    <3> QED  BY <3>1, <3>3, Zenon DEF ReaderInv
  <2>5. ThreadsAreLinear  BY <1>1, Zenon DEF HistoryInv, StoredInv
  <2> QED  BY <2>3, <2>4, <2>5, Zenon DEF HistoryIsWhole
<1> QED  BY <1>1, HistoryKept, PTL
============================================================================
