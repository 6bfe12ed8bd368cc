----------------------------- MODULE GnmiProofs -----------------------------
(***************************************************************************)
(* Theorems about GnmiPublish, for any capacity of the response channel,   *)
(* any number of connections and streams of any length, and about what     *)
(* GnmiNotify puts in the log, for any responses, with their proofs.       *)
(***************************************************************************)
EXTENDS GnmiNotify, SubsequenceProofs

LEMMA InitPublishInv == Init => PublishInv
BY CapAssumption
   DEF Init, PublishInv, TypeOK, Phases, AnswersAccounted, AnsweredAfterEnd,
       AnswersHeldBack, Open, Running

LEMMA NextPublishInv == PublishInv /\ [Next]_vars => PublishInv'
<1> SUFFICES ASSUME PublishInv, [Next]_vars
             PROVE  PublishInv'
  OBVIOUS
<1> USE CapAssumption
        DEF PublishInv, TypeOK, Phases, AnswersAccounted, AnsweredAfterEnd,
            AnswersHeldBack, Open, Running
<1>1. CASE UNCHANGED vars
  BY <1>1 DEF vars
<1>2. ASSUME NEW c \in Clients, Connect(c)
      PROVE  PublishInv'
  BY <1>2 DEF Connect
<1>3. ASSUME NEW c \in Clients, DeviceSend(c)
      PROVE  PublishInv'
  BY <1>3 DEF DeviceSend
<1>4. ASSUME NEW c \in Clients, DeviceEnd(c)
      PROVE  PublishInv'
  BY <1>4 DEF DeviceEnd
<1>5. ASSUME NEW c \in Clients, Lose(c)
      PROVE  PublishInv'
  BY <1>5 DEF Lose
<1>6. ASSUME NEW c \in Clients, Read(c)
      PROVE  PublishInv'
  BY <1>6 DEF Read
<1>7. ASSUME NEW c \in Clients, Send(c)
      PROVE  PublishInv'
  BY <1>7 DEF Send
<1>8. ASSUME NEW c \in Clients, Return(c)
      PROVE  PublishInv'
  BY <1>8 DEF Return
<1>9. ASSUME NEW c \in Clients, Answer(c)
      PROVE  PublishInv'
  BY <1>9 DEF Answer
<1>10. ASSUME NEW c \in Clients, Finish(c)
       PROVE  PublishInv'
  BY <1>10 DEF Finish
<1> QED BY <1>1, <1>2, <1>3, <1>4, <1>5, <1>6, <1>7, <1>8, <1>9, <1>10
        DEF Next, Handler

LEMMA PublishInvariant == Spec => []PublishInv
BY InitPublishInv, NextPublishInv, PTL DEF Spec

\* The variables keep their types; in particular the channel its capacity.
THEOREM TypeCorrect == Spec => []TypeOK
<1>1. PublishInv => TypeOK
  BY DEF PublishInv
<1> QED BY <1>1, PublishInvariant, PTL

\* No answer is lost between the handler and the device, and none is made up.
THEOREM NoAnswerLost == Spec => []AnswersAccounted
<1>1. PublishInv => AnswersAccounted
  BY DEF PublishInv
<1> QED BY <1>1, PublishInvariant, PTL

\* Whatever the capacity: no device is answered before it has ended its stream.
THEOREM NoAnswerBeforeEnd == Spec => []AnsweredAfterEnd
<1>1. PublishInv => AnsweredAfterEnd
  BY DEF PublishInv
<1> QED BY <1>1, PublishInvariant, PTL

\* A step leaves a stuck handler stuck, or is the loss of its connection.
LEMMA StuckStep ==
    ASSUME TypeOK, [Next]_vars, NEW c \in Clients, Stuck(c)
    PROVE  Stuck(c)' \/ phase'[c] = "idle"
<1> USE CapAssumption DEF TypeOK, Phases, Stuck
<1>1. CASE UNCHANGED vars
  BY <1>1 DEF vars
<1>2. ASSUME NEW d \in Clients, \/ Connect(d)
                                \/ DeviceSend(d)
                                \/ DeviceEnd(d)
                                \/ Lose(d)
      PROVE  Stuck(c)' \/ phase'[c] = "idle"
  BY <1>2 DEF Connect, DeviceSend, DeviceEnd, Lose, Running, Open
<1>3. ASSUME NEW d \in Clients, Handler(d)
      PROVE  Stuck(c)' \/ phase'[c] = "idle"
  <2>1. d # c
    BY <1>3 DEF Handler, Read, Send, Return, Answer, Finish
  <2>2. phase'[c] = phase[c] /\ chan'[c] = chan[c]
    BY <1>3, <2>1 DEF Handler, Read, Send, Return, Answer, Finish
  <2> QED BY <2>2
<1> QED BY <1>1, <1>2, <1>3 DEF Next

\* For every capacity, a handler that fills its channel while its device goes
\* on sending never moves again: only the loss of the connection frees it.
THEOREM StuckForGood == Spec => StuckUntilLost
<1>1. TypeOK /\ [Next]_vars
      => [\A c \in Clients : Stuck(c) => Stuck(c)' \/ phase'[c] = "idle"]_vars
  BY StuckStep
<1> QED BY <1>1, TypeCorrect, PTL DEF Spec, StuckUntilLost

-----------------------------------------------------------------------------
(***************************************************************************)
(* The entries of the log.                                                 *)
(***************************************************************************)

\* What is read changes nothing about who is answered: what holds of Spec holds
\* of the service that formats its entries, its liveness too.
THEOREM NotifyPublishes == NotifySpec => Spec
<1>1. NotifyInit => Init
  BY DEF NotifyInit
<1>2. [NotifyNext]_notifyVars => [Next]_vars
  BY DEF NotifyNext, NotifyRead, Next, Handler, notifyVars
<1> QED BY <1>1, <1>2, PTL DEF NotifySpec, Spec

\* The rows of any list of updates: one for each that has a value.
LEMMA RowsShown ==
    ASSUME NEW updates \in Seq(Update)
    PROVE  /\ \A i \in DOMAIN updates : updates[i].val # "none" =>
                \E k \in DOMAIN Rows(updates) : Rows(updates)[k] = Row(i, updates[i])
           /\ \A k \in DOMAIN Rows(updates) : updates[Rows(updates)[k].n].val # "none"
           /\ \A k, m \in DOMAIN Rows(updates) :
                k < m => Rows(updates)[k].n < Rows(updates)[m].n
<1> DEFINE rows == [i \in DOMAIN updates |-> Row(i, updates[i])]
           I == {i \in DOMAIN updates : updates[i].val # "none"}
           n == Len(updates)
<1>1. n \in Nat /\ DOMAIN updates = 1 .. n
  OBVIOUS
<1>2. I \in SUBSET (1 .. n) /\ \A i \in I : updates[i].val # "none"
  BY <1>1
<1>3. \A i \in 1 .. n : rows[i] = Row(i, updates[i]) /\ rows[i].n = i
  BY <1>1 DEF Row
<1>4. \A i \in DOMAIN updates : updates[i].val # "none" => i \in I
  OBVIOUS
<1>5. Rows(updates) = Subsequence(rows, I)
  BY DEF Rows
<1> HIDE DEF rows, I, n
<1>6. /\ \A k \in 1 .. Cardinality(I) : Nth(I, k) \in I
      /\ \A i \in I : Rank(I, i) \in 1 .. Cardinality(I) /\ Nth(I, Rank(I, i)) = i
      /\ \A k, m \in 1 .. Cardinality(I) : k < m <=> Nth(I, k) < Nth(I, m)
  BY <1>1, <1>2, NthRank
<1>7. /\ DOMAIN Rows(updates) = 1 .. Cardinality(I)
      /\ \A k \in 1 .. Cardinality(I) :
            Rows(updates)[k] = Row(Nth(I, k), updates[Nth(I, k)])
  BY <1>2, <1>3, <1>5, <1>6 DEF Subsequence
<1>8. \A k \in 1 .. Cardinality(I) : Rows(updates)[k].n = Nth(I, k)
  BY <1>7 DEF Row
<1>9. ASSUME NEW i \in DOMAIN updates, updates[i].val # "none"
      PROVE  \E k \in DOMAIN Rows(updates) : Rows(updates)[k] = Row(i, updates[i])
  <2>1. i \in I
    BY <1>4, <1>9
  <2>2. /\ Rank(I, i) \in 1 .. Cardinality(I)
        /\ Rows(updates)[Rank(I, i)] = Row(i, updates[i])
    BY <1>6, <1>7, <2>1
  <2> QED BY <1>7, <2>2
<1>10. ASSUME NEW k \in DOMAIN Rows(updates)
       PROVE  updates[Rows(updates)[k].n].val # "none"
  <2>1. k \in 1 .. Cardinality(I)
    BY <1>7
  <2>2. Nth(I, k) \in I /\ Rows(updates)[k].n = Nth(I, k)
    BY <1>6, <1>8, <2>1
  <2>3. updates[Nth(I, k)].val # "none"
    BY <1>2, <2>2
  <2> QED BY <2>2, <2>3
<1>11. \A k, m \in DOMAIN Rows(updates) :
            k < m => Rows(updates)[k].n < Rows(updates)[m].n
  BY <1>6, <1>7, <1>8
<1> QED BY <1>9, <1>10, <1>11

\* The entry with rows is that of the response read last.
NotifyInv ==
    /\ response \in Response
    /\ entry.level = "info" => entry.rows = Rows(response.updates)

LEMMA NotifyInvInit == NotifyInit => NotifyInv
<1>1. <<>> \in Seq(Paths) /\ <<>> \in Seq(Update)
  OBVIOUS
<1> QED BY <1>1 DEF NotifyInit, NotifyInv, NoNotification, Response, Entry

LEMMA NotifyInvStep == NotifyInv /\ [NotifyNext]_notifyVars => NotifyInv'
<1> SUFFICES ASSUME NotifyInv, [NotifyNext]_notifyVars PROVE NotifyInv'
  OBVIOUS
<1>1. ASSUME NEW c \in Clients, NotifyRead(c)
      PROVE  NotifyInv'
  <2>1. response' \in Response
    BY <1>1, ResponsesAssumption DEF NotifyRead
  <2>2. entry' = Entry("quiet", <<>>, <<>>) \/ entry' = EntryOf(response')
    BY <1>1, QuietAssumption DEF NotifyRead
  <2> QED BY <2>1, <2>2 DEF NotifyInv, EntryOf, Entry
<1>2. CASE UNCHANGED <<response, entry>>
  BY <1>2 DEF NotifyInv
<1> QED BY <1>1, <1>2 DEF NotifyNext, notifyVars

\* Whatever devices put in their notifications, each update that has a value is
\* shown in one row, under its own number and path, in the order of the updates.
THEOREM EveryValueShown == NotifySpec => []RowsOfUpdates
<1>1. NotifyInv => RowsOfUpdates
  <2> SUFFICES ASSUME NotifyInv, entry.level = "info" PROVE RowsOfUpdates
    BY DEF RowsOfUpdates
  <2>1. response.updates \in Seq(Update) /\ entry.rows = Rows(response.updates)
    BY DEF NotifyInv, Response
  <2> QED BY <2>1, RowsShown DEF RowsOfUpdates, Row
<1> QED BY <1>1, NotifyInvInit, NotifyInvStep, PTL DEF NotifySpec

=============================================================================
