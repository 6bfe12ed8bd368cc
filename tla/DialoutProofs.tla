---------------------------- MODULE DialoutProofs ---------------------------
(***************************************************************************)
(* Theorems about Dialout, for any number of connections, paths, node ids  *)
(* and messages, with their proofs.                                        *)
(***************************************************************************)
EXTENDS Dialout, SequenceTheorems, TLAPS

-----------------------------------------------------------------------------
(***************************************************************************)
(* Facts about the operators of ChunkRecords.                              *)
(***************************************************************************)

\* Vec::remove drops one record: what stays is a list of records of before.
LEMMA RemoveRecordKeeps ==
    ASSUME NEW S, NEW list \in Seq(S), NEW k \in 1 .. Len(list)
    PROVE  /\ RemoveRecord(list, k) \in Seq(S)
           /\ Len(RemoveRecord(list, k)) = Len(list) - 1
           /\ \A i \in 1 .. Len(list) - 1 :
                RemoveRecord(list, k)[i] = list[IF i < k THEN i ELSE i + 1]
<1> DEFINE before == SubSeq(list, 1, k - 1)
           after  == SubSeq(list, k + 1, Len(list))
<1>1. Len(list) \in Nat /\ k \in Int
  OBVIOUS
<1>2. /\ before \in Seq(S)
      /\ Len(before) = k - 1
      /\ \A i \in 1 .. k - 1 : before[i] = list[i]
  BY <1>1
<1>3. /\ after \in Seq(S)
      /\ Len(after) = Len(list) - k
      /\ \A i \in 1 .. Len(list) - k : after[i] = list[i + k]
  BY <1>1
<1>4. RemoveRecord(list, k) = before \o after
  BY DEF RemoveRecord, RemoveAt
<1> HIDE DEF before, after
<1>5. /\ before \o after \in Seq(S)
      /\ Len(before \o after) = Len(list) - 1
      /\ \A i \in 1 .. Len(list) - 1 :
            (before \o after)[i] = IF i <= k - 1 THEN before[i]
                                   ELSE after[i - (k - 1)]
  <2>1. /\ before \o after \in Seq(S)
        /\ Len(before \o after) = Len(before) + Len(after)
        /\ \A i \in 1 .. Len(before) + Len(after) :
              (before \o after)[i] = IF i <= Len(before) THEN before[i]
                                     ELSE after[i - Len(before)]
    BY <1>2, <1>3, ConcatProperties
  <2>2. Len(before) + Len(after) = Len(list) - 1
    BY <1>1, <1>2, <1>3
  <2> QED BY <2>1, <2>2, <1>2
<1>6. ASSUME NEW i \in 1 .. Len(list) - 1
      PROVE  (before \o after)[i] = list[IF i < k THEN i ELSE i + 1]
  <2>1. CASE i < k
    <3>1. i <= k - 1 /\ i \in 1 .. k - 1
      BY <2>1, <1>1
    <3> QED BY <2>1, <3>1, <1>2, <1>5
  <2>2. CASE ~ (i < k)
    <3>1. (before \o after)[i] = after[i - (k - 1)]
      BY <2>2, <1>1, <1>5
    <3>2. i - (k - 1) \in 1 .. Len(list) - k
      BY <2>2, <1>1
    <3>3. after[i - (k - 1)] = list[i + 1]
      BY <3>2, <1>1, <1>3
    <3> QED BY <2>2, <3>1, <3>3
  <2> QED BY <2>1, <2>2
<1> QED BY <1>4, <1>5, <1>6

\* A fragment that starts a record makes a run of one.
LEMMA NewRecordRun ==
    ASSUME NEW m \in Message, m.chunk # NoChunk, NEW n \in Nat
    PROVE  LET r == NewRecord([n |-> n, msg |-> m])
           IN  r \in Record /\ RecordRun(m.path, r) /\ Arrived(r.parts, n)
<1> DEFINE f == [n |-> n, msg |-> m]
<1>1. f \in Fragment /\ m.chunk \in ChunkInfo
  BY DEF Fragment, Message
<1>2. <<f>> \in Seq(Fragment) /\ Len(<<f>>) = 1 /\ <<f>>[1] = f
  BY <1>1
<1> QED BY <1>1, <1>2
        DEF NewRecord, Record, RecordRun, IsRun, Arrived, ChunkInfo

\* A fragment that a record waits for makes the run longer by one.
LEMMA ExtendRun ==
    ASSUME NEW p \in Paths, NEW r \in Record, RecordRun(p, r),
           NEW m \in Message, m.chunk # NoChunk, m.path = p,
           Matches(r, m.chunk.node), NEW n \in Nat, Arrived(r.parts, n)
    PROVE  LET s == Extend(r, [n |-> n + 1, msg |-> m])
           IN  s \in Record /\ RecordRun(p, s) /\ Arrived(s.parts, n + 1)
<1> DEFINE f == [n |-> n + 1, msg |-> m]
           s == Extend(r, f)
           len == Len(r.parts)
<1>1. f \in Fragment /\ m.chunk \in ChunkInfo
  BY DEF Fragment, Message
<1>2. /\ r.parts \in Seq(Fragment)
      /\ len \in Nat \ {0}
      /\ \A i \in 1 .. len : r.parts[i] \in Fragment
  BY DEF Record, RecordRun, IsRun
<1>3. /\ s.parts = Append(r.parts, f)
      /\ s.last = m.chunk.node
      /\ s.total = r.total
      /\ s \in Record
  <2>1. Append(r.parts, f) \in Seq(Fragment)
    BY <1>1, <1>2
  <2>2. f.msg.chunk.node \in Nodes /\ f.msg = m
    BY <1>1 DEF ChunkInfo
  <2> QED BY <2>1, <2>2 DEF Extend, Record
<1>4. /\ Len(s.parts) = len + 1
      /\ s.parts[len + 1] = f
      /\ \A i \in 1 .. len : s.parts[i] = r.parts[i]
  BY SMTT(30), <1>1, <1>2, <1>3
<1> HIDE DEF s, f
<1>5. s.parts # <<>> /\ s.parts[1] = r.parts[1]
  BY <1>2, <1>4
<1>6. f.n = n + 1 /\ f.msg = m
  BY DEF f
<1>7. \A i \in 1 .. len + 1 :
        s.parts[i].msg.chunk # NoChunk /\ s.parts[i].msg.path = s.parts[1].msg.path
  <2>1. r.parts[1].msg.path = p
    BY DEF RecordRun
  <2>2. \A i \in 1 .. len : r.parts[i].msg.chunk # NoChunk /\ r.parts[i].msg.path = p
    BY <2>1 DEF RecordRun, IsRun
  <2>3. s.parts[1].msg.path = p
    BY <2>1, <1>5
  <2>4. s.parts[len + 1].msg = m
    BY <1>4, <1>6
  <2>5. ASSUME NEW i \in 1 .. len + 1
        PROVE  s.parts[i].msg.chunk # NoChunk /\ s.parts[i].msg.path = p
    <3>1. CASE i = len + 1
      BY <3>1, <2>4
    <3>2. CASE i # len + 1
      <4>1. i \in 1 .. len
        BY <3>2, <1>2
      <4>2. s.parts[i] = r.parts[i]
        BY <4>1, <1>4
      <4> QED BY <4>1, <4>2, <2>2
    <3> QED BY <3>1, <3>2
  <2> QED BY <2>3, <2>5
<1>8. ASSUME NEW i \in 1 .. len
      PROVE  /\ s.parts[i + 1].msg.chunk.node = NextNode(s.parts[i].msg.chunk.node)
             /\ s.parts[i].n < s.parts[i + 1].n
  <2>1. CASE i = len
    <3>1. s.parts[i + 1] = f /\ s.parts[i] = r.parts[len]
      BY <2>1, <1>2, <1>4
    <3>2. m.chunk.node = NextNode(r.parts[len].msg.chunk.node)
      BY DEF Matches, RecordRun
    <3>3. r.parts[len].n \in Nat /\ r.parts[len].n <= n
      BY <1>2 DEF Fragment, Arrived
    <3> QED BY <3>1, <3>2, <3>3, <1>6
  <2>2. CASE i # len
    <3>1. i \in 1 .. len - 1 /\ i + 1 \in 1 .. len
      BY <2>2, <1>2
    <3> QED BY <3>1, <1>4 DEF RecordRun, IsRun
  <2> QED BY <2>1, <2>2
<1>9. IsRun(s.parts)
  BY <1>2, <1>4, <1>5, <1>7, <1>8 DEF IsRun
<1>10. RecordRun(p, s) /\ Arrived(s.parts, n + 1)
  BY <1>2, <1>3, <1>4, <1>5, <1>6, <1>9 DEF RecordRun, Arrived
<1> QED BY <1>3, <1>10 DEF s, f

-----------------------------------------------------------------------------
(***************************************************************************)
(* The same for the list of records of one path.                           *)
(***************************************************************************)

ListRuns(p, list, n) ==
    \A k \in 1 .. Len(list) : RecordRun(p, list[k]) /\ Arrived(list[k].parts, n)

\* A list stays a list of runs when its connection receives a message.
LEMMA ListRunsLater ==
    ASSUME NEW p \in Paths, NEW list \in Seq(Record), NEW n \in Nat,
           ListRuns(p, list, n)
    PROVE  ListRuns(p, list, n + 1)
<1> SUFFICES ASSUME NEW k \in 1 .. Len(list)
             PROVE  RecordRun(p, list[k]) /\ Arrived(list[k].parts, n + 1)
  BY DEF ListRuns
<1>1. RecordRun(p, list[k]) /\ Arrived(list[k].parts, n)
  BY DEF ListRuns
<1>2. list[k].parts[Len(list[k].parts)].n \in Nat
  <2>1. list[k] \in Record
    OBVIOUS
  <2>2. list[k].parts \in Seq(Fragment) /\ list[k].parts # <<>>
    BY <1>1, <2>1 DEF Record, RecordRun, IsRun
  <2>3. list[k].parts[Len(list[k].parts)] \in Fragment
    BY <2>2
  <2> QED BY <2>3 DEF Fragment
<1> QED BY SMTT(30), <1>1, <1>2 DEF Arrived

\* ... when a record is pushed,
LEMMA ListRunsPush ==
    ASSUME NEW p \in Paths, NEW list \in Seq(Record), NEW n \in Nat,
           ListRuns(p, list, n), NEW r \in Record,
           RecordRun(p, r), Arrived(r.parts, n)
    PROVE  Append(list, r) \in Seq(Record) /\ ListRuns(p, Append(list, r), n)
<1>1. /\ Append(list, r) \in Seq(Record)
      /\ Len(Append(list, r)) = Len(list) + 1
      /\ Append(list, r)[Len(list) + 1] = r
      /\ \A k \in 1 .. Len(list) : Append(list, r)[k] = list[k]
  OBVIOUS
<1>2. ASSUME NEW k \in 1 .. Len(list) + 1
      PROVE  RecordRun(p, Append(list, r)[k]) /\ Arrived(Append(list, r)[k].parts, n)
  <2>1. CASE k = Len(list) + 1
    BY <2>1, <1>1
  <2>2. CASE k # Len(list) + 1
    <3>1. k \in 1 .. Len(list)
      BY <2>2
    <3> QED BY <3>1, <1>1 DEF ListRuns
  <2> QED BY <2>1, <2>2
<1> QED BY <1>1, <1>2 DEF ListRuns

\* ... when one of its records is replaced,
LEMMA ListRunsReplace ==
    ASSUME NEW p \in Paths, NEW list \in Seq(Record), NEW n \in Nat,
           ListRuns(p, list, n), NEW k \in 1 .. Len(list), NEW r \in Record,
           RecordRun(p, r), Arrived(r.parts, n)
    PROVE  /\ [list EXCEPT ![k] = r] \in Seq(Record)
           /\ ListRuns(p, [list EXCEPT ![k] = r], n)
<1>1. /\ [list EXCEPT ![k] = r] \in Seq(Record)
      /\ Len([list EXCEPT ![k] = r]) = Len(list)
      /\ \A j \in 1 .. Len(list) :
            [list EXCEPT ![k] = r][j] = IF j = k THEN r ELSE list[j]
  BY ExceptSeq
<1> QED BY <1>1 DEF ListRuns

\* ... and when one of its records is removed.
LEMMA ListRunsRemove ==
    ASSUME NEW p \in Paths, NEW list \in Seq(Record), NEW n \in Nat,
           ListRuns(p, list, n), NEW k \in 1 .. Len(list)
    PROVE  /\ RemoveRecord(list, k) \in Seq(Record)
           /\ ListRuns(p, RemoveRecord(list, k), n)
<1>1. /\ RemoveRecord(list, k) \in Seq(Record)
      /\ Len(RemoveRecord(list, k)) = Len(list) - 1
      /\ \A i \in 1 .. Len(list) - 1 :
            RemoveRecord(list, k)[i] = list[IF i < k THEN i ELSE i + 1]
  BY RemoveRecordKeeps
<1>2. ASSUME NEW i \in 1 .. Len(list) - 1
      PROVE  (IF i < k THEN i ELSE i + 1) \in 1 .. Len(list)
  OBVIOUS
<1> QED BY <1>1, <1>2 DEF ListRuns

-----------------------------------------------------------------------------
(***************************************************************************)
(* RunInv is an invariant.                                                 *)
(***************************************************************************)

\* RunInv, with its two parts about records read off one list at a time.
LEMMA RunInvByList ==
    RunInv <=> /\ TypeOK
               /\ \A c \in Clients, p \in Paths :
                    ListRuns(p, records[c][p], clientCount[c])
               /\ \A c \in Clients : \A e \in 1 .. Len(shown[c]) :
                    ShownRun(shown[c][e].parts)
BY DEF RunInv, FragmentRuns, RecordsArrived, ListRuns

LEMMA InitRunInv == Init => RunInv
<1> SUFFICES ASSUME Init PROVE RunInv
  OBVIOUS
<1>1. TypeOK
  BY DEF Init, TypeOK, NoRecords
<1>2. \A c \in Clients, p \in Paths : records[c][p] = <<>>
  BY DEF Init, NoRecords
<1>3. \A c \in Clients : shown[c] = <<>>
  BY DEF Init
<1> QED BY <1>1, <1>2, <1>3 DEF RunInv, FragmentRuns, RecordsArrived

\* A step of the handler of c that stores a list of runs and shows runs only.
LEMMA StepRunInv ==
    ASSUME RunInv, NEW c \in Clients, NEW p \in Paths, Arrive(c),
           NEW list \in Seq(Record), ListRuns(p, list, clientCount[c] + 1),
           \/ Store(c, p, list)
           \/ UNCHANGED records,
           \/ UNCHANGED shown
           \/ \E kind \in {"original", "json", "invalid"},
                 parts \in Seq(Fragment) :
                 ShownRun(parts) /\ Show(c, kind, parts),
           count' \in {count, count + 1}
    PROVE  RunInv'
<1>1. /\ config' \in Configs
      /\ conn' \in [Clients -> {"idle", "open"}]
      /\ clientCount' \in [Clients -> Nat]
      /\ count' \in Nat
      /\ msgCount' \in Nat
      /\ clientTotal' \in Nat
  BY DEF RunInv, TypeOK, Arrive
<1>2. /\ records' \in [Clients -> [Paths -> Seq(Record)]]
      /\ \A d \in Clients, q \in Paths :
            ListRuns(q, records'[d][q], clientCount'[d])
  <2>1. /\ records \in [Clients -> [Paths -> Seq(Record)]]
        /\ \A d \in Clients, q \in Paths :
            ListRuns(q, records[d][q], clientCount[d])
    BY RunInvByList DEF TypeOK
  <2>2. /\ clientCount \in [Clients -> Nat]
        /\ clientCount' = [clientCount EXCEPT ![c] = clientCount[c] + 1]
    BY DEF RunInv, TypeOK, Arrive
  <2>3. \A d \in Clients, q \in Paths :
            ListRuns(q, records[d][q], clientCount'[d])
    <3> SUFFICES ASSUME NEW d \in Clients, NEW q \in Paths
                 PROVE  ListRuns(q, records[d][q], clientCount'[d])
      OBVIOUS
    <3>1. records[d][q] \in Seq(Record) /\ clientCount[d] \in Nat
      BY <2>1, <2>2
    <3>2. ListRuns(q, records[d][q], clientCount[d] + 1)
      BY <2>1, <3>1, ListRunsLater
    <3> QED BY <2>1, <2>2, <3>2
  <2>4. CASE UNCHANGED records
    BY <2>1, <2>3, <2>4
  <2>5. CASE Store(c, p, list)
    <3>1. /\ records' \in [Clients -> [Paths -> Seq(Record)]]
          /\ \A d \in Clients, q \in Paths :
                records'[d][q] = IF d = c /\ q = p THEN list ELSE records[d][q]
      BY <2>1, <2>5 DEF Store
    <3> QED BY <2>2, <2>3, <3>1
  <2> QED BY <2>4, <2>5
<1>3. /\ shown' \in [Clients -> Seq(Entry)]
      /\ \A d \in Clients : \A e \in 1 .. Len(shown'[d]) :
            ShownRun(shown'[d][e].parts)
  <2>1. /\ shown \in [Clients -> Seq(Entry)]
        /\ \A d \in Clients : \A e \in 1 .. Len(shown[d]) :
            ShownRun(shown[d][e].parts)
    BY RunInvByList DEF TypeOK
  <2>2. CASE UNCHANGED shown
    BY <2>1, <2>2
  <2>3. ASSUME NEW kind \in {"original", "json", "invalid"},
               NEW parts \in Seq(Fragment), ShownRun(parts), Show(c, kind, parts)
        PROVE  <1>3!1 /\ <1>3!2
    <3> DEFINE entry == [kind |-> kind, parts |-> parts]
               log   == Append(shown[c], entry)
    <3>1. entry \in Entry /\ entry.parts = parts
      BY DEF Entry
    <3> HIDE DEF entry
    <3>2. /\ log \in Seq(Entry)
          /\ Len(log) = Len(shown[c]) + 1
          /\ log[Len(shown[c]) + 1] = entry
          /\ \A e \in 1 .. Len(shown[c]) : log[e] = shown[c][e]
      BY <2>1, <3>1
    <3> HIDE DEF log
    <3>3. /\ shown' \in [Clients -> Seq(Entry)]
          /\ \A d \in Clients : shown'[d] = IF d = c THEN log ELSE shown[d]
      BY <2>1, <2>3, <3>2 DEF Show, log, entry
    <3>4. \A e \in 1 .. Len(log) : ShownRun(log[e].parts)
      <4> SUFFICES ASSUME NEW e \in 1 .. Len(log) PROVE ShownRun(log[e].parts)
        OBVIOUS
      <4>1. Len(shown[c]) \in Nat
        BY <2>1
      <4>2. CASE e = Len(shown[c]) + 1
        BY <4>2, <2>3, <3>1, <3>2
      <4>3. CASE e # Len(shown[c]) + 1
        <5>1. e \in 1 .. Len(shown[c])
          BY <4>1, <4>3, <3>2
        <5> QED BY <5>1, <2>1, <3>2
      <4> QED BY <4>2, <4>3
    <3> QED BY <2>1, <3>3, <3>4
  <2> QED BY <2>2, <2>3
<1> QED BY <1>1, <1>2, <1>3, RunInvByList DEF RunInv, TypeOK, FragmentRuns, RecordsArrived, ListRuns

LEMMA NextRunInv ==
    ASSUME RunInv, Next
    PROVE  RunInv'
<1> USE DEF RunInv
<1>1. \A c \in Clients, p \in Paths :
        /\ clientCount[c] \in Nat
        /\ records[c][p] \in Seq(Record)
        /\ ListRuns(p, records[c][p], clientCount[c])
  BY RunInvByList DEF TypeOK
<1>2. PICK c \in Clients : \/ Connect(c)
                          \/ Disconnect(c)
                          \/ \E m \in Message : Receive(c, m)
  BY DEF Next
<1>3. CASE Connect(c)
  <2>1. TypeOK'
    BY <1>3 DEF TypeOK, Connect, NoRecords
  <2>2. /\ \A d \in Clients, p \in Paths :
            records'[d][p] = IF d = c THEN <<>> ELSE records[d][p]
        /\ \A d \in Clients : d # c => clientCount'[d] = clientCount[d]
        /\ \A d \in Clients : shown'[d] = IF d = c THEN <<>> ELSE shown[d]
    BY <1>3 DEF TypeOK, Connect, NoRecords
  <2>3. ASSUME NEW d \in Clients, NEW p \in Paths
        PROVE  ListRuns(p, records'[d][p], clientCount'[d])
    <3>1. CASE d = c
      BY <2>2, <3>1 DEF ListRuns
    <3>2. CASE d # c
      BY <1>1, <2>2, <3>2
    <3> QED BY <3>1, <3>2
  <2>4. ASSUME NEW d \in Clients, NEW e \in 1 .. Len(shown'[d])
        PROVE  ShownRun(shown'[d][e].parts)
    BY <2>2, <2>4 DEF FragmentRuns
  <2> QED BY <2>1, <2>3, <2>4 DEF FragmentRuns, RecordsArrived, ListRuns
<1>4. CASE Disconnect(c)
  <2>1. TypeOK'
    BY <1>4 DEF TypeOK, Disconnect, NoRecords
  <2>2. /\ \A d \in Clients, p \in Paths :
            records'[d][p] = IF d = c THEN <<>> ELSE records[d][p]
        /\ \A d \in Clients : d # c => clientCount'[d] = clientCount[d]
        /\ \A d \in Clients : shown'[d] = IF d = c THEN <<>> ELSE shown[d]
    BY <1>4 DEF TypeOK, Disconnect, NoRecords
  <2>3. ASSUME NEW d \in Clients, NEW p \in Paths
        PROVE  ListRuns(p, records'[d][p], clientCount'[d])
    <3>1. CASE d = c
      BY <2>2, <3>1 DEF ListRuns
    <3>2. CASE d # c
      BY <1>1, <2>2, <3>2
    <3> QED BY <3>1, <3>2
  <2>4. ASSUME NEW d \in Clients, NEW e \in 1 .. Len(shown'[d])
        PROVE  ShownRun(shown'[d][e].parts)
    BY <2>2, <2>4 DEF FragmentRuns
  <2> QED BY <2>1, <2>3, <2>4 DEF FragmentRuns, RecordsArrived, ListRuns
<1>5. ASSUME NEW m \in Message, Receive(c, m)
      PROVE  RunInv'
  <2> DEFINE n    == clientCount[c]
             p    == m.path
             list == records[c][p]
             f    == Arrival(c, m)
  <2>1. /\ p \in Paths
        /\ n \in Nat
        /\ f = [n |-> n + 1, msg |-> m]
        /\ <<f>> \in Seq(Fragment)
        /\ Len(<<f>>) = 1
    BY <1>1 DEF Message, Fragment, Arrival
  <2>2. list \in Seq(Record) /\ ListRuns(p, list, n) /\ ListRuns(p, list, n + 1)
    BY <1>1, <2>1, ListRunsLater
  <2>3. CASE CountOnly(c, m)
    BY <2>1, <2>2, <2>3, StepRunInv DEF CountOnly
  <2>4. CASE ShowOriginal(c, m)
    BY <2>1, <2>2, <2>4, StepRunInv DEF ShowOriginal, ShownRun
  <2>5. CASE PassThrough(c, m)
    BY <2>1, <2>2, <2>5, StepRunInv DEF PassThrough, Parse, ShownRun, Kind
  <2>6. CASE StartRecord(c, m)
    <3> DEFINE r == NewRecord(f)
    <3>1. m.chunk # NoChunk /\ Parse(c) /\ UNCHANGED shown
          /\ Store(c, p, Append(list, r))
      BY <2>6 DEF StartRecord
    <3>2. r \in Record /\ RecordRun(p, r) /\ Arrived(r.parts, n + 1)
      BY <2>1, <3>1, NewRecordRun
    <3> HIDE DEF r
    <3>3. Append(list, r) \in Seq(Record) /\ ListRuns(p, Append(list, r), n + 1)
      BY <2>1, <2>2, <3>2, ListRunsPush
    <3> QED BY <2>1, <3>1, <3>3, StepRunInv DEF Parse
  <2>7. CASE JoinRecord(c, m)
    <3>1. PICK k \in 1 .. Len(list) :
            LET r == Extend(list[k], f)
            IN  /\ FirstMatch(list, m.chunk.node, k)
                /\ \/ /\ IsComplete(r)
                      /\ Store(c, p, RemoveRecord(list, k))
                      /\ Show(c, Kind(r.parts), r.parts)
                   \/ /\ ~ IsComplete(r)
                      /\ Store(c, p, [list EXCEPT ![k] = r])
                      /\ UNCHANGED shown
      BY <2>7 DEF JoinRecord
    <3> DEFINE r == Extend(list[k], f)
    <3>2. m.chunk # NoChunk /\ Parse(c)
      BY <2>7 DEF JoinRecord
    <3>3. r \in Record /\ RecordRun(p, r) /\ Arrived(r.parts, n + 1)
      <4>1. list[k] \in Record /\ RecordRun(p, list[k]) /\ Arrived(list[k].parts, n)
        BY <2>2 DEF ListRuns
      <4>2. Matches(list[k], m.chunk.node)
        BY <3>1 DEF FirstMatch
      <4> QED BY <2>1, <3>2, <4>1, <4>2, ExtendRun
    <3>4. CASE ~ IsComplete(r)
      <4>1. Store(c, p, [list EXCEPT ![k] = r]) /\ UNCHANGED shown
        BY <3>1, <3>4
      <4> HIDE DEF r
      <4>2. /\ [list EXCEPT ![k] = r] \in Seq(Record)
            /\ ListRuns(p, [list EXCEPT ![k] = r], n + 1)
        BY <2>1, <2>2, <3>3, ListRunsReplace
      <4> QED BY <2>1, <3>2, <4>1, <4>2, StepRunInv DEF Parse
    <3>5. CASE IsComplete(r)
      <4>1. PICK kind \in {"json", "invalid"} : Show(c, kind, r.parts)
        BY ZenonT(60), <3>1, <3>5 DEF Kind
      <4>2. Store(c, p, RemoveRecord(list, k))
        BY <3>1, <3>5
      <4> HIDE DEF r
      <4>3. /\ RemoveRecord(list, k) \in Seq(Record)
            /\ ListRuns(p, RemoveRecord(list, k), n + 1)
        BY <2>1, <2>2, ListRunsRemove
      <4>4. r.parts \in Seq(Fragment) /\ ShownRun(r.parts)
        BY <3>3, <3>5 DEF Record, RecordRun, ShownRun, IsComplete
      <4> QED BY SMTT(30), <2>1, <3>2, <4>1, <4>2, <4>3, <4>4, StepRunInv DEF Parse
    <3> QED BY SMTT(30), <3>4, <3>5
  <2> QED BY <1>5, <2>3, <2>4, <2>5, <2>6, <2>7 DEF Receive
<1> QED BY <1>2, <1>3, <1>4, <1>5

LEMMA StutterRunInv == RunInv /\ UNCHANGED vars => RunInv'
BY DEF RunInv, TypeOK, FragmentRuns, RecordsArrived, vars

LEMMA RunInvariant == Spec => []RunInv
<1>1. RunInv /\ [Next]_vars => RunInv'
  BY NextRunInv, StutterRunInv
<1> QED BY <1>1, InitRunInv, PTL DEF Spec

\* The variables keep their types in every behaviour of the service.
THEOREM TypeCorrect == Spec => []TypeOK
<1>1. RunInv => TypeOK
  BY DEF RunInv
<1> QED BY <1>1, RunInvariant, PTL

\* Whatever any number of devices send, in any order: what is in flight and
\* what is shown are runs of consecutive fragments of one path.
THEOREM OnlyRunsAreShown == Spec => []FragmentRuns
<1>1. RunInv => FragmentRuns
  BY DEF RunInv
<1> QED BY <1>1, RunInvariant, PTL

-----------------------------------------------------------------------------
(***************************************************************************)
(* ArrivalsAccounted and CountsAgree.  The invariant is read off one       *)
(* connection at a time: Tidy says of its records, its log and its count   *)
(* that no arrival is at two places and none is ahead of the count,        *)
(* Complete that none is missing.                                          *)
(***************************************************************************)
InRecords(recs, m) ==
    \E p \in Paths : \E k \in 1 .. Len(recs[p]) : Among(m, recs[p][k].parts)

InLog(log, m) == \E e \in 1 .. Len(log) : Among(m, log[e].parts)

OnceInRecords(recs, m) ==
    \A p, q \in Paths : \A k \in 1 .. Len(recs[p]), j \in 1 .. Len(recs[q]) :
        Among(m, recs[p][k].parts) /\ Among(m, recs[q][j].parts)
            => p = q /\ k = j

OnceInLog(log, m) ==
    \A d, e \in 1 .. Len(log) :
        Among(m, log[d].parts) /\ Among(m, log[e].parts) => d = e

Tidy(recs, log, n) ==
    \A m : /\ InRecords(recs, m) \/ InLog(log, m) => m \in 1 .. n
           /\ ~ (InRecords(recs, m) /\ InLog(log, m))
           /\ OnceInRecords(recs, m)
           /\ OnceInLog(log, m)

Complete(recs, log, n) == \A m \in 1 .. n : InRecords(recs, m) \/ InLog(log, m)

\* Tidy is what makes ArrivalsAccounted inductive: it says of every number,
\* not only of those that have been given out, that it is used once.
AccountInv ==
    /\ RunInv
    /\ \A c \in Clients : Tidy(records[c], shown[c], clientCount[c])
    /\ \A c \in Clients : conn[c] = "open" /\ ~ config.performance_mode =>
        Complete(records[c], shown[c], clientCount[c])

LEMMA AccountInvSuffices == AccountInv => ArrivalsAccounted
<1> SUFFICES ASSUME AccountInv PROVE ArrivalsAccounted
  OBVIOUS
<1>1. NoneLost
  BY DEF AccountInv, NoneLost, Complete, InRecords, InLog, Held, Logged
<1>2. UsedOnce
  <2> SUFFICES ASSUME NEW c \in Clients, NEW n \in 1 .. clientCount[c]
               PROVE  UsedOnce!(c)!(n)
    BY DEF UsedOnce
  <2>1. /\ ~ (InRecords(records[c], n) /\ InLog(shown[c], n))
        /\ OnceInRecords(records[c], n)
        /\ OnceInLog(shown[c], n)
    BY DEF AccountInv, Tidy
  <2> QED BY <2>1 DEF InRecords, InLog, OnceInRecords, OnceInLog, Held, Logged
<1> QED BY <1>1, <1>2 DEF ArrivalsAccounted

-----------------------------------------------------------------------------
(***************************************************************************)
(* What the handler does to the records and the log of its connection.     *)
(***************************************************************************)

Piles == [Paths -> Seq(Record)]

\* Nothing but the count changes.
LEMMA TidyLater ==
    ASSUME NEW recs, NEW log, NEW n \in Nat, Tidy(recs, log, n)
    PROVE  Tidy(recs, log, n + 1)
BY DEF Tidy

\* One entry of fragments that arrive now is added to the log.
LEMMA TidyLog ==
    ASSUME NEW recs, NEW log \in Seq(Entry), NEW n \in Nat,
           Tidy(recs, log, n), NEW e \in Entry,
           \A m : Among(m, e.parts) <=> m = n + 1
    PROVE  /\ Tidy(recs, Append(log, e), n + 1)
           /\ Complete(recs, log, n) => Complete(recs, Append(log, e), n + 1)
<1> DEFINE longer == Append(log, e)
<1>1. /\ Len(log) \in Nat
      /\ Len(longer) = Len(log) + 1
      /\ longer[Len(log) + 1] = e
      /\ \A d \in 1 .. Len(log) : longer[d] = log[d]
  OBVIOUS
<1> HIDE DEF longer
<1>2. ASSUME NEW m, NEW d \in 1 .. Len(longer), Among(m, longer[d].parts)
      PROVE  \/ m = n + 1 /\ d = Len(log) + 1
             \/ d \in 1 .. Len(log) /\ Among(m, log[d].parts)
  <2>1. CASE d = Len(log) + 1
    BY <1>1, <1>2, <2>1
  <2>2. CASE d # Len(log) + 1
    <3>1. d \in 1 .. Len(log)
      BY <1>1, <2>2
    <3> QED BY <1>1, <1>2, <3>1
  <2> QED BY <2>1, <2>2
<1>3. \A m : InLog(longer, m) <=> m = n + 1 \/ InLog(log, m)
  <2>1. ASSUME NEW m, InLog(longer, m)
        PROVE  m = n + 1 \/ InLog(log, m)
    BY <1>2, <2>1 DEF InLog
  <2>2. ASSUME NEW m, InLog(log, m)
        PROVE  InLog(longer, m)
    <3>1. PICK d \in 1 .. Len(log) : Among(m, log[d].parts)
      BY <2>2 DEF InLog
    <3>2. d \in 1 .. Len(longer)
      BY <1>1
    <3> QED BY <1>1, <3>1, <3>2 DEF InLog
  <2>3. InLog(longer, n + 1)
    <3>1. Len(log) + 1 \in 1 .. Len(longer)
      BY <1>1
    <3> QED BY <1>1, <3>1 DEF InLog
  <2> QED BY <2>1, <2>2, <2>3
<1>4. n + 1 \notin 1 .. n /\ \A m \in 1 .. n + 1 : m = n + 1 \/ m \in 1 .. n
  OBVIOUS
<1>5. ~ InRecords(recs, n + 1) /\ ~ InLog(log, n + 1)
  BY <1>4 DEF Tidy
<1>6. ASSUME NEW m
      PROVE  OnceInLog(longer, m)
  <2> SUFFICES ASSUME NEW d1 \in 1 .. Len(longer), NEW d2 \in 1 .. Len(longer),
                      Among(m, longer[d1].parts), Among(m, longer[d2].parts)
               PROVE  d1 = d2
    BY DEF OnceInLog
  <2>1. CASE m = n + 1
    BY <1>2, <1>5, <2>1 DEF InLog
  <2>2. CASE m # n + 1
    <3>1. /\ d1 \in 1 .. Len(log) /\ Among(m, log[d1].parts)
          /\ d2 \in 1 .. Len(log) /\ Among(m, log[d2].parts)
      BY <1>2, <2>2
    <3> QED BY <3>1 DEF Tidy, OnceInLog
  <2> QED BY <2>1, <2>2
<1>7. Tidy(recs, longer, n + 1)
  BY <1>3, <1>5, <1>6 DEF Tidy
<1>8. Complete(recs, log, n) => Complete(recs, longer, n + 1)
  BY <1>3, <1>4 DEF Complete
<1> QED BY <1>7, <1>8 DEF longer

\* The fragment that arrives now goes into record k of path p, which is there
\* already or is new; all other records stay as they are.
LEMMA TidyGrow ==
    ASSUME NEW recs \in Piles, NEW log, NEW n \in Nat, Tidy(recs, log, n),
           NEW more \in Piles, NEW p \in Paths, NEW k \in 1 .. Len(more[p]),
           \A q \in Paths : q # p => more[q] = recs[q],
           Len(recs[p]) <= Len(more[p]),
           \A j \in 1 .. Len(more[p]) :
                j # k => j \in 1 .. Len(recs[p]) /\ more[p][j] = recs[p][j],
           \A m : Among(m, more[p][k].parts) <=>
                    \/ m = n + 1
                    \/ k \in 1 .. Len(recs[p]) /\ Among(m, recs[p][k].parts)
    PROVE  /\ Tidy(more, log, n + 1)
           /\ Complete(recs, log, n) => Complete(more, log, n + 1)
<1>1. ASSUME NEW m, NEW q \in Paths, NEW j \in 1 .. Len(more[q]),
             Among(m, more[q][j].parts)
      PROVE  \/ m = n + 1 /\ q = p /\ j = k
             \/ j \in 1 .. Len(recs[q]) /\ Among(m, recs[q][j].parts)
  <2>1. CASE q = p /\ j = k
    BY <1>1, <2>1
  <2>2. CASE q = p /\ j # k
    BY <1>1, <2>2
  <2>3. CASE q # p
    BY <1>1, <2>3
  <2> QED BY <2>1, <2>2, <2>3
<1>2. \A m : InRecords(more, m) <=> m = n + 1 \/ InRecords(recs, m)
  <2>1. ASSUME NEW m, InRecords(more, m)
        PROVE  m = n + 1 \/ InRecords(recs, m)
    BY <1>1, <2>1 DEF InRecords
  <2>2. ASSUME NEW m, InRecords(recs, m)
        PROVE  InRecords(more, m)
    <3>1. PICK q \in Paths : \E j \in 1 .. Len(recs[q]) :
                            Among(m, recs[q][j].parts)
      BY <2>2 DEF InRecords
    <3>2. PICK j \in 1 .. Len(recs[q]) : Among(m, recs[q][j].parts)
      BY <3>1
    <3>3. CASE q # p
      BY <3>2, <3>3 DEF InRecords
    <3>4. CASE q = p /\ j = k
      BY <3>2, <3>4 DEF InRecords
    <3>5. CASE q = p /\ j # k
      <4>1. j \in 1 .. Len(more[p])
        <5>1. Len(recs[p]) \in Nat /\ Len(more[p]) \in Nat
          BY DEF Piles
        <5> QED BY <3>5, <5>1
      <4>2. more[p][j] = recs[p][j]
        BY <3>5, <4>1
      <4> QED BY <3>2, <3>5, <4>1, <4>2 DEF InRecords
    <3> QED BY <3>3, <3>4, <3>5
  <2>3. InRecords(more, n + 1)
    BY DEF InRecords
  <2> QED BY <2>1, <2>2, <2>3
<1>3. n + 1 \notin 1 .. n /\ \A m \in 1 .. n + 1 : m = n + 1 \/ m \in 1 .. n
  OBVIOUS
<1>4. ~ InRecords(recs, n + 1) /\ ~ InLog(log, n + 1)
  BY <1>3 DEF Tidy
<1>5. ASSUME NEW m
      PROVE  OnceInRecords(more, m)
  <2> SUFFICES ASSUME NEW q1 \in Paths, NEW q2 \in Paths,
                      NEW j1 \in 1 .. Len(more[q1]), NEW j2 \in 1 .. Len(more[q2]),
                      Among(m, more[q1][j1].parts), Among(m, more[q2][j2].parts)
               PROVE  q1 = q2 /\ j1 = j2
    BY DEF OnceInRecords
  <2>1. CASE m = n + 1
    <3>1. ASSUME NEW q \in Paths, NEW j \in 1 .. Len(more[q]),
                 Among(m, more[q][j].parts)
          PROVE  q = p /\ j = k
      <4>1. CASE j \in 1 .. Len(recs[q]) /\ Among(m, recs[q][j].parts)
        BY <1>4, <2>1, <4>1 DEF InRecords
      <4> QED BY <1>1, <3>1, <4>1
    <3> QED BY <3>1
  <2>2. CASE m # n + 1
    <3>1. /\ j1 \in 1 .. Len(recs[q1]) /\ Among(m, recs[q1][j1].parts)
          /\ j2 \in 1 .. Len(recs[q2]) /\ Among(m, recs[q2][j2].parts)
      BY <1>1, <2>2
    <3> QED BY <3>1 DEF Tidy, OnceInRecords
  <2> QED BY <2>1, <2>2
<1>6. Tidy(more, log, n + 1)
  BY <1>2, <1>4, <1>5 DEF Tidy
<1>7. Complete(recs, log, n) => Complete(more, log, n + 1)
  BY <1>2, <1>3 DEF Complete
<1> QED BY <1>6, <1>7

\* Record k of path p leaves its list and becomes an entry of the log.
LEMMA TidyMove ==
    ASSUME NEW recs \in Piles, NEW log \in Seq(Entry), NEW n \in Nat,
           Tidy(recs, log, n),
           NEW p \in Paths, NEW k \in 1 .. Len(recs[p]),
           NEW e \in Entry, e.parts = recs[p][k].parts,
           NEW less \in Piles, Len(less[p]) = Len(recs[p]) - 1,
           \A i \in 1 .. Len(recs[p]) - 1 :
                less[p][i] = recs[p][IF i < k THEN i ELSE i + 1],
           \A q \in Paths : q # p => less[q] = recs[q]
    PROVE  /\ Tidy(less, Append(log, e), n)
           /\ Complete(recs, log, n) => Complete(less, Append(log, e), n)
<1> DEFINE longer == Append(log, e)
           was(q, j) == IF q = p /\ ~ (j < k) THEN j + 1 ELSE j
<1>1. /\ Len(log) \in Nat
      /\ Len(longer) = Len(log) + 1
      /\ longer[Len(log) + 1] = e
      /\ \A d \in 1 .. Len(log) : longer[d] = log[d]
  OBVIOUS
<1> HIDE DEF longer
<1>2. recs[p] \in Seq(Record) /\ Len(recs[p]) \in Nat
  BY DEF Piles
<1>3. ASSUME NEW q \in Paths, NEW j \in 1 .. Len(less[q])
      PROVE  /\ was(q, j) \in 1 .. Len(recs[q])
             /\ less[q][j] = recs[q][was(q, j)]
             /\ q = p => was(q, j) # k
  <2>1. CASE q # p
    BY <2>1
  <2>2. CASE q = p /\ j < k
    BY SMTT(30), <1>2, <2>2
  <2>3. CASE q = p /\ ~ (j < k)
    BY <1>2, <2>3
  <2> QED BY <2>1, <2>2, <2>3
<1>4. ASSUME NEW q \in Paths, NEW i \in 1 .. Len(recs[q]), ~ (q = p /\ i = k)
      PROVE  \E j \in 1 .. Len(less[q]) : less[q][j] = recs[q][i]
  <2>1. CASE q # p
    BY <2>1
  <2>2. CASE q = p /\ i < k
    <3>1. i \in 1 .. Len(recs[p]) - 1
      BY <1>2, <2>2
    <3>2. less[p][i] = recs[p][i]
      BY <1>2, <2>2, <3>1
    <3> QED BY <1>2, <2>2, <3>1, <3>2
  <2>3. CASE q = p /\ i > k
    <3>1. i - 1 \in 1 .. Len(recs[p]) - 1 /\ ~ (i - 1 < k) /\ (i - 1) + 1 = i
      BY <1>2, <2>3
    <3>2. less[p][i - 1] = recs[p][(i - 1) + 1]
      BY <1>2, <3>1
    <3> QED BY <1>2, <2>3, <3>1, <3>2
  <2>4. q = p => i < k \/ i > k
    BY <1>2, <1>4
  <2> QED BY <2>1, <2>2, <2>3, <2>4
<1>5. ASSUME NEW q1 \in Paths, NEW q2 \in Paths,
             NEW j1 \in 1 .. Len(less[q1]), NEW j2 \in 1 .. Len(less[q2]),
             q1 = q2, was(q1, j1) = was(q2, j2)
      PROVE  j1 = j2
  <2>1. j1 \in Int /\ j2 \in Int /\ k \in Int
    OBVIOUS
  <2> QED BY <1>5, <2>1
<1> HIDE DEF was
<1>6. \A m : InRecords(recs, m) <=> InRecords(less, m) \/ Among(m, e.parts)
  <2>1. ASSUME NEW m, InRecords(recs, m)
        PROVE  InRecords(less, m) \/ Among(m, e.parts)
    <3>1. PICK q \in Paths : \E i \in 1 .. Len(recs[q]) :
                            Among(m, recs[q][i].parts)
      BY <2>1 DEF InRecords
    <3>2. PICK i \in 1 .. Len(recs[q]) : Among(m, recs[q][i].parts)
      BY <3>1
    <3>3. CASE q = p /\ i = k
      BY <3>2, <3>3
    <3>4. CASE ~ (q = p /\ i = k)
      BY <1>4, <3>2, <3>4 DEF InRecords
    <3> QED BY <3>3, <3>4
  <2>2. ASSUME NEW m, InRecords(less, m)
        PROVE  InRecords(recs, m)
    BY <1>3, <2>2 DEF InRecords
  <2>3. ASSUME NEW m, Among(m, e.parts)
        PROVE  InRecords(recs, m)
    BY <2>3 DEF InRecords
  <2> QED BY <2>1, <2>2, <2>3
<1>7. ASSUME NEW m, NEW d \in 1 .. Len(longer), Among(m, longer[d].parts)
      PROVE  \/ d = Len(log) + 1 /\ Among(m, e.parts)
             \/ d \in 1 .. Len(log) /\ Among(m, log[d].parts)
  <2>1. CASE d = Len(log) + 1
    BY <1>1, <1>7, <2>1
  <2>2. CASE d # Len(log) + 1
    <3>1. d \in 1 .. Len(log)
      BY <1>1, <2>2
    <3> QED BY <1>1, <1>7, <3>1
  <2> QED BY <2>1, <2>2
<1>8. \A m : InLog(longer, m) <=> Among(m, e.parts) \/ InLog(log, m)
  <2>1. ASSUME NEW m, InLog(longer, m)
        PROVE  Among(m, e.parts) \/ InLog(log, m)
    BY <1>7, <2>1 DEF InLog
  <2>2. ASSUME NEW m, InLog(log, m)
        PROVE  InLog(longer, m)
    <3>1. PICK d \in 1 .. Len(log) : Among(m, log[d].parts)
      BY <2>2 DEF InLog
    <3>2. d \in 1 .. Len(longer)
      BY <1>1
    <3> QED BY <1>1, <3>1, <3>2 DEF InLog
  <2>3. ASSUME NEW m, Among(m, e.parts)
        PROVE  InLog(longer, m)
    <3>1. Len(log) + 1 \in 1 .. Len(longer)
      BY <1>1
    <3> QED BY <1>1, <2>3, <3>1 DEF InLog
  <2> QED BY <2>1, <2>2, <2>3
<1>9. ASSUME NEW m, Among(m, e.parts)
      PROVE  ~ InRecords(less, m) /\ ~ InLog(log, m)
  <2>1. ~ InLog(log, m)
    BY <1>6, <1>9 DEF Tidy
  <2>2. ASSUME NEW q \in Paths, NEW j \in 1 .. Len(less[q]),
               Among(m, less[q][j].parts)
        PROVE  FALSE
    <3>1. was(q, j) \in 1 .. Len(recs[q]) /\ Among(m, recs[q][was(q, j)].parts)
      BY <1>3, <2>2
    <3>2. q = p /\ was(q, j) = k
      BY <1>9, <3>1 DEF Tidy, OnceInRecords
    <3> QED BY <1>3, <3>2
  <2> QED BY <2>1, <2>2 DEF InRecords
<1>10. ASSUME NEW m
       PROVE  OnceInRecords(less, m)
  <2> SUFFICES ASSUME NEW q1 \in Paths, NEW q2 \in Paths,
                      NEW j1 \in 1 .. Len(less[q1]), NEW j2 \in 1 .. Len(less[q2]),
                      Among(m, less[q1][j1].parts), Among(m, less[q2][j2].parts)
               PROVE  q1 = q2 /\ j1 = j2
    BY DEF OnceInRecords
  <2>1. /\ was(q1, j1) \in 1 .. Len(recs[q1])
        /\ Among(m, recs[q1][was(q1, j1)].parts)
        /\ was(q2, j2) \in 1 .. Len(recs[q2])
        /\ Among(m, recs[q2][was(q2, j2)].parts)
    BY <1>3
  <2>2. q1 = q2 /\ was(q1, j1) = was(q2, j2)
    <3>1. OnceInRecords(recs, m)
      BY DEF Tidy
    <3>2. PICK x1 \in 1 .. Len(recs[q1]) :
                x1 = was(q1, j1) /\ Among(m, recs[q1][x1].parts)
      BY <2>1
    <3>3. PICK x2 \in 1 .. Len(recs[q2]) :
                x2 = was(q2, j2) /\ Among(m, recs[q2][x2].parts)
      BY <2>1
    <3>4. q1 = q2 /\ x1 = x2
      BY <3>1, <3>2, <3>3 DEF OnceInRecords
    <3> QED BY <3>2, <3>3, <3>4
  <2> QED BY <1>5, <2>2
<1>11. ASSUME NEW m
       PROVE  OnceInLog(longer, m)
  <2> SUFFICES ASSUME NEW d1 \in 1 .. Len(longer), NEW d2 \in 1 .. Len(longer),
                      Among(m, longer[d1].parts), Among(m, longer[d2].parts)
               PROVE  d1 = d2
    BY DEF OnceInLog
  <2>1. CASE Among(m, e.parts)
    BY <1>7, <1>9, <2>1 DEF InLog
  <2>2. CASE ~ Among(m, e.parts)
    <3>1. /\ d1 \in 1 .. Len(log) /\ Among(m, log[d1].parts)
          /\ d2 \in 1 .. Len(log) /\ Among(m, log[d2].parts)
      BY <1>7, <2>2
    <3> QED BY <3>1 DEF Tidy, OnceInLog
  <2> QED BY <2>1, <2>2
<1>12. Tidy(less, longer, n)
  BY <1>6, <1>8, <1>9, <1>10, <1>11 DEF Tidy
<1>13. Complete(recs, log, n) => Complete(less, longer, n)
  BY <1>6, <1>8 DEF Complete
<1> QED BY <1>12, <1>13 DEF longer

-----------------------------------------------------------------------------
(***************************************************************************)
(* AccountInv is an invariant.                                             *)
(***************************************************************************)

LEMMA InitAccountInv == Init => AccountInv
<1> SUFFICES ASSUME Init PROVE AccountInv
  OBVIOUS
<1>1. \A c \in Clients : /\ \A p \in Paths : records[c][p] = <<>>
                         /\ shown[c] = <<>>
                         /\ clientCount[c] = 0
  BY DEF Init, NoRecords
<1>2. \A c \in Clients : /\ Tidy(records[c], shown[c], clientCount[c])
                         /\ Complete(records[c], shown[c], clientCount[c])
  BY <1>1 DEF Tidy, Complete, InRecords, InLog, OnceInRecords, OnceInLog
<1> QED BY <1>2, InitRunInv DEF AccountInv

\* It is enough to look at the connection a step is about.
LEMMA OneClient ==
    ASSUME AccountInv, RunInv', NEW c \in Clients, UNCHANGED config,
           \A d \in Clients \ {c} :
                UNCHANGED <<conn[d], records[d], shown[d], clientCount[d]>>,
           Tidy(records'[c], shown'[c], clientCount'[c]),
           conn'[c] = "open" /\ ~ config.performance_mode
                => Complete(records'[c], shown'[c], clientCount'[c])
    PROVE  AccountInv'
<1>1. ASSUME NEW d \in Clients
      PROVE  /\ Tidy(records'[d], shown'[d], clientCount'[d])
             /\ conn'[d] = "open" /\ ~ config'.performance_mode
                    => Complete(records'[d], shown'[d], clientCount'[d])
  <2>1. CASE d = c
    BY <2>1
  <2>2. CASE d # c
    <3>1. /\ conn'[d] = conn[d] /\ records'[d] = records[d]
          /\ shown'[d] = shown[d] /\ clientCount'[d] = clientCount[d]
      BY <2>2
    <3> QED BY <3>1 DEF AccountInv
  <2> QED BY <2>1, <2>2
<1> QED BY <1>1 DEF AccountInv

\* Connecting and disconnecting leave a connection with nothing.
LEMMA FreshClient ==
    ASSUME AccountInv, RunInv', NEW c \in Clients, Connect(c) \/ Disconnect(c)
    PROVE  AccountInv'
<1>1. /\ \A d \in Clients \ {c} :
            UNCHANGED <<conn[d], records[d], shown[d], clientCount[d]>>
      /\ \A p \in Paths : records'[c][p] = <<>>
      /\ shown'[c] = <<>>
      /\ clientCount'[c] = 0
      /\ UNCHANGED config
  BY DEF AccountInv, RunInv, TypeOK, Connect, Disconnect, NoRecords
<1>2. /\ Tidy(records'[c], shown'[c], clientCount'[c])
      /\ Complete(records'[c], shown'[c], clientCount'[c])
  BY <1>1 DEF Tidy, Complete, InRecords, InLog, OnceInRecords, OnceInLog
<1> QED BY <1>1, <1>2, OneClient

\* The numbers of a run that gets one more fragment.
LEMMA AmongAppend ==
    ASSUME NEW parts \in Seq(Fragment), NEW f \in Fragment, NEW m
    PROVE  Among(m, Append(parts, f)) <=> m = f.n \/ Among(m, parts)
<1>1. /\ Len(parts) \in Nat
      /\ Len(Append(parts, f)) = Len(parts) + 1
      /\ Append(parts, f)[Len(parts) + 1] = f
      /\ \A i \in 1 .. Len(parts) : Append(parts, f)[i] = parts[i]
  OBVIOUS
<1>2. ASSUME Among(m, Append(parts, f))
      PROVE  m = f.n \/ Among(m, parts)
  <2>1. PICK i \in 1 .. Len(parts) + 1 : Append(parts, f)[i].n = m
    BY <1>1, <1>2 DEF Among
  <2>2. CASE i = Len(parts) + 1
    BY <1>1, <2>1, <2>2
  <2>3. CASE i # Len(parts) + 1
    <3>1. i \in 1 .. Len(parts)
      BY <1>1, <2>3
    <3> QED BY <1>1, <2>1, <3>1 DEF Among
  <2> QED BY <2>2, <2>3
<1>3. ASSUME Among(m, parts)
      PROVE  Among(m, Append(parts, f))
  <2>1. PICK i \in 1 .. Len(parts) : parts[i].n = m
    BY <1>3 DEF Among
  <2>2. i \in 1 .. Len(parts) + 1
    BY <1>1
  <2> QED BY <1>1, <2>1, <2>2 DEF Among
<1>4. ASSUME m = f.n
      PROVE  Among(m, Append(parts, f))
  <2>1. Len(parts) + 1 \in 1 .. Len(parts) + 1
    BY <1>1
  <2> QED BY <1>1, <1>4, <2>1 DEF Among
<1> QED BY <1>2, <1>3, <1>4

LEMMA AmongOne ==
    ASSUME NEW f, NEW m
    PROVE  Among(m, <<f>>) <=> m = f.n
BY DEF Among

\* The handler of c receives the message m.
LEMMA MessageAccount ==
    ASSUME AccountInv, RunInv', NEW c \in Clients, NEW m \in Message,
           Receive(c, m)
    PROVE  AccountInv'
<1> DEFINE n    == clientCount[c]
           recs == records[c]
           log  == shown[c]
           p    == m.path
           f    == Arrival(c, m)
<1>1. /\ recs \in Piles
      /\ log \in Seq(Entry)
      /\ n \in Nat
      /\ p \in Paths
      /\ f \in Fragment
      /\ f.n = n + 1
      /\ records \in [Clients -> Piles]
      /\ shown \in [Clients -> Seq(Entry)]
      /\ clientCount \in [Clients -> Nat]
      /\ conn \in [Clients -> {"idle", "open"}]
  <2>1. /\ records \in [Clients -> Piles]
        /\ shown \in [Clients -> Seq(Entry)]
        /\ clientCount \in [Clients -> Nat]
        /\ conn \in [Clients -> {"idle", "open"}]
    BY SMTT(30) DEF AccountInv, RunInv, TypeOK, Piles
  <2>2. p \in Paths
    BY DEF Message
  <2>3. f = [n |-> n + 1, msg |-> m]
    BY DEF Arrival
  <2> QED BY <2>1, <2>2, <2>3 DEF Fragment
<1>2. /\ Tidy(recs, log, n)
      /\ conn[c] = "open" /\ ~ config.performance_mode => Complete(recs, log, n)
  BY DEF AccountInv
<1>3. Arrive(c)
  BY DEF Receive, CountOnly, ShowOriginal, PassThrough, StartRecord, JoinRecord,
         Parse
<1>4. /\ conn[c] = "open" /\ conn' = conn
      /\ UNCHANGED config
      /\ clientCount'[c] = n + 1
      /\ \A d \in Clients \ {c} : UNCHANGED <<conn[d], clientCount[d]>>
  BY <1>1, <1>3 DEF Arrive
<1> HIDE DEF f
<1>5. ASSUME NEW kind, NEW parts, Show(c, kind, parts)
      PROVE  /\ shown'[c] = Append(log, [kind |-> kind, parts |-> parts])
             /\ \A d \in Clients \ {c} : UNCHANGED shown[d]
  BY <1>1, <1>5 DEF Show
<1>6. ASSUME NEW list, Store(c, p, list)
      PROVE  /\ records'[c] = [recs EXCEPT ![p] = list]
             /\ \A d \in Clients \ {c} : UNCHANGED records[d]
  BY <1>1, <1>6 DEF Store, Piles
<1>7. records'[c] \in Piles /\ shown'[c] \in Seq(Entry)
  BY DEF RunInv, TypeOK, Piles
<1>8. CASE CountOnly(c, m)
  <2>1. UNCHANGED <<records, shown>> /\ config.performance_mode
    BY <1>8 DEF CountOnly
  <2>2. Tidy(recs, log, n + 1)
    BY <1>1, <1>2, TidyLater
  <2> QED BY <1>4, <2>1, <2>2, OneClient
<1>9. ASSUME NEW kind \in {"original", "json", "invalid"},
             UNCHANGED records, Show(c, kind, <<f>>)
      PROVE  AccountInv'
  <2> DEFINE e == [kind |-> kind, parts |-> <<f>>]
  <2>1. e \in Entry /\ e.parts = <<f>>
    <3>1. <<f>> \in Seq(Fragment)
      BY <1>1
    <3> QED BY <3>1 DEF Entry
  <2>2. shown'[c] = Append(log, e) /\ \A d \in Clients \ {c} : UNCHANGED shown[d]
    BY <1>5, <1>9
  <2> HIDE DEF e
  <2>3. \A k : Among(k, e.parts) <=> k = n + 1
    BY <1>1, <2>1, AmongOne
  <2>4. /\ Tidy(recs, Append(log, e), n + 1)
        /\ Complete(recs, log, n) => Complete(recs, Append(log, e), n + 1)
    BY <1>1, <1>2, <2>1, <2>3, TidyLog
  <2> QED BY <1>2, <1>4, <1>9, <2>2, <2>4, OneClient
<1>10. CASE ShowOriginal(c, m)
  BY <1>9, <1>10 DEF ShowOriginal, f
<1>11. CASE PassThrough(c, m)
  BY <1>9, <1>11 DEF PassThrough, Kind, f
<1>12. CASE StartRecord(c, m)
  <2> DEFINE list == recs[p]
             r    == NewRecord(f)
  <2>1. Store(c, p, Append(list, r)) /\ UNCHANGED shown
    BY <1>12 DEF StartRecord, f
  <2>2. /\ records'[c] = [recs EXCEPT ![p] = Append(list, r)]
        /\ \A d \in Clients \ {c} : UNCHANGED records[d]
    BY <1>6, <2>1
  <2>3. r.parts = <<f>>
    BY DEF NewRecord
  <2> HIDE DEF r
  <2> DEFINE more == records'[c]
             k    == Len(list) + 1
  <2>4. /\ list \in Seq(Record) /\ Len(list) \in Nat
        /\ \A q \in Paths : q # p => more[q] = recs[q]
        /\ more[p] = Append(list, r)
    BY <1>1, <2>2 DEF Piles
  <2>5. /\ Len(more[p]) = k
        /\ more[p][k] = r
        /\ \A j \in 1 .. k : j # k => j \in 1 .. Len(list) /\ more[p][j] = list[j]
    <3>2. /\ Len(Append(list, r)) = Len(list) + 1
          /\ Append(list, r)[Len(list) + 1] = r
          /\ \A j \in 1 .. Len(list) : Append(list, r)[j] = list[j]
      BY <2>4
    <3>3. \A j \in 1 .. Len(list) + 1 : j # Len(list) + 1 => j \in 1 .. Len(list)
      BY <2>4
    <3> QED BY <2>4, <3>2, <3>3
  <2>6. k \notin 1 .. Len(list)
    BY <2>4
  <2>10. /\ more \in Piles
         /\ k \in 1 .. Len(more[p])
         /\ Len(list) <= Len(more[p])
         /\ \A q \in Paths : q # p => more[q] = recs[q]
    BY SMTT(30), <1>7, <2>4, <2>5
  <2>7. ASSUME NEW i
        PROVE  Among(i, more[p][k].parts) <=>
                    \/ i = n + 1
                    \/ k \in 1 .. Len(list) /\ Among(i, list[k].parts)
    <3>1. more[p][k].parts = <<f>>
      BY <2>3, <2>5
    <3>2. Among(i, <<f>>) <=> i = n + 1
      BY <1>1, AmongOne
    <3> QED BY <2>6, <3>1, <3>2
  <2>9. \A j \in 1 .. Len(more[p]) :
            j # k => j \in 1 .. Len(list) /\ more[p][j] = list[j]
    BY <2>5
  <2>11. PICK at \in 1 .. Len(more[p]) :
            /\ \A j \in 1 .. Len(more[p]) :
                j # at => j \in 1 .. Len(list) /\ more[p][j] = list[j]
            /\ \A i : Among(i, more[p][at].parts) <=>
                        \/ i = n + 1
                        \/ at \in 1 .. Len(list) /\ Among(i, list[at].parts)
    <3> HIDE DEF more
    <3> QED BY <2>7, <2>9, <2>10
  <2> HIDE DEF more, k
  <2>12. recs \in Piles /\ n \in Nat /\ p \in Paths /\ Tidy(recs, log, n)
    BY <1>1, <1>2
  <2> HIDE DEF n, recs, log, p, list
  <2>8. /\ Tidy(more, log, n + 1)
        /\ Complete(recs, log, n) => Complete(more, log, n + 1)
    BY <2>10, <2>11, <2>12, TidyGrow DEF list
  <2> USE DEF n, recs, log, p, list
  <2> QED BY <1>2, <1>4, <2>1, <2>2, <2>8, OneClient DEF more
<1>13. CASE JoinRecord(c, m)
  <2> DEFINE list == recs[p]
  <2>1. PICK k \in 1 .. Len(list) :
            LET r == Extend(list[k], f)
            IN  \/ /\ Store(c, p, RemoveRecord(list, k))
                   /\ Show(c, Kind(r.parts), r.parts)
                \/ /\ Store(c, p, [list EXCEPT ![k] = r])
                   /\ UNCHANGED shown
    BY SMTT(30), <1>13 DEF JoinRecord, f
  <2> DEFINE r    == Extend(list[k], f)
             more == [recs EXCEPT ![p] = [list EXCEPT ![k] = r]]
  <2>2. list \in Seq(Record) /\ Len(list) \in Nat /\ list[k] \in Record
    BY <1>1 DEF Piles
  <2>3. /\ r.parts = Append(list[k].parts, f)
        /\ list[k].parts \in Seq(Fragment)
        /\ r.parts \in Seq(Fragment)
    <3>1. list[k].parts \in Seq(Fragment)
      BY <2>2 DEF Record
    <3>2. r.parts = Append(list[k].parts, f)
      BY <2>2 DEF Record, Extend
    <3>3. Append(list[k].parts, f) \in Seq(Fragment)
      BY <1>1, <3>1
    <3> QED BY <3>1, <3>2, <3>3
  <2> HIDE DEF r
  <2>4. /\ Len([list EXCEPT ![k] = r]) = Len(list)
        /\ \A j \in 1 .. Len(list) :
                [list EXCEPT ![k] = r][j] = IF j = k THEN r ELSE list[j]
    BY <2>2
  <2>5. /\ more[p] = [list EXCEPT ![k] = r]
        /\ \A q \in Paths : q # p => more[q] = recs[q]
    BY <1>1 DEF Piles
  <2>6. \A i : Among(i, r.parts) <=> i = n + 1 \/ Among(i, list[k].parts)
    BY <1>1, <2>3, AmongAppend
  <2>7. ASSUME more \in Piles
        PROVE  /\ Tidy(more, log, n + 1)
               /\ Complete(recs, log, n) => Complete(more, log, n + 1)
    <3>1. /\ k \in 1 .. Len(more[p])
          /\ Len(list) <= Len(more[p])
          /\ \A j \in 1 .. Len(more[p]) :
                j # k => j \in 1 .. Len(list) /\ more[p][j] = list[j]
          /\ \A i : Among(i, more[p][k].parts) <=>
                        \/ i = n + 1
                        \/ k \in 1 .. Len(list) /\ Among(i, list[k].parts)
      BY <2>2, <2>4, <2>5, <2>6
    <3> HIDE DEF more
    <3> QED BY <1>1, <1>2, <2>5, <2>7, <3>1, TidyGrow
  <2>8. CASE Store(c, p, [list EXCEPT ![k] = r]) /\ UNCHANGED shown
    <3>1. /\ records'[c] = more
          /\ \A d \in Clients \ {c} : UNCHANGED records[d]
      BY <1>6, <2>8
    <3> HIDE DEF more
    <3>2. /\ Tidy(more, log, n + 1)
          /\ Complete(recs, log, n) => Complete(more, log, n + 1)
      BY <1>7, <2>7, <3>1
    <3> QED BY <1>2, <1>4, <2>8, <3>1, <3>2, OneClient
  <2>9. CASE /\ Store(c, p, RemoveRecord(list, k))
             /\ Show(c, Kind(r.parts), r.parts)
    <3> DEFINE e    == [kind |-> Kind(r.parts), parts |-> r.parts]
               less == records'[c]
    <3>1. e \in Entry /\ e.parts = r.parts
      BY <2>3 DEF Entry, Kind
    <3>2. shown'[c] = Append(log, e) /\ \A d \in Clients \ {c} : UNCHANGED shown[d]
      BY <1>5, <2>9
    <3>3. /\ less = [recs EXCEPT ![p] = RemoveRecord(list, k)]
          /\ \A d \in Clients \ {c} : UNCHANGED records[d]
      BY <1>6, <2>9
    <3> HIDE DEF e
    <3>4. more \in Piles
      <4>1. r \in Record
        <5>1. list[k].total \in Totals /\ list[k].last \in Nodes
          BY <2>2 DEF Record
        <5>2. m.chunk \in ChunkInfo
          BY <1>13 DEF JoinRecord, Message
        <5>3. f.msg.chunk.node \in Nodes
          BY <5>2 DEF f, Arrival, ChunkInfo
        <5> QED BY <2>2, <2>3, <5>3 DEF r, Extend, Record
      <4>2. [list EXCEPT ![k] = r] \in Seq(Record)
        BY <2>2, <4>1
      <4> QED BY <1>1, <4>2 DEF Piles
    <3>5. /\ Tidy(more, log, n + 1)
          /\ Complete(recs, log, n) => Complete(more, log, n + 1)
      BY <2>7, <3>4
    <3>6. /\ less[p] = RemoveRecord(list, k)
          /\ \A q \in Paths : q # p => less[q] = more[q]
      BY <1>1, <2>5, <3>3 DEF Piles
    <3>7. /\ Len(less[p]) = Len(more[p]) - 1
          /\ \A i \in 1 .. Len(more[p]) - 1 :
                less[p][i] = more[p][IF i < k THEN i ELSE i + 1]
      <4>1. /\ Len(RemoveRecord(list, k)) = Len(list) - 1
            /\ \A i \in 1 .. Len(list) - 1 :
                RemoveRecord(list, k)[i] = list[IF i < k THEN i ELSE i + 1]
        BY <2>2, RemoveRecordKeeps
      <4>2. ASSUME NEW i \in 1 .. Len(list) - 1
            PROVE  /\ (IF i < k THEN i ELSE i + 1) \in 1 .. Len(list)
                   /\ (IF i < k THEN i ELSE i + 1) # k
        BY <2>2
      <4>3. ASSUME NEW i \in 1 .. Len(list) - 1
            PROVE  less[p][i] = more[p][IF i < k THEN i ELSE i + 1]
        BY <2>4, <2>5, <3>6, <4>1, <4>2
      <4> QED BY <2>4, <2>5, <3>6, <4>1, <4>3
    <3>8. k \in 1 .. Len(more[p]) /\ e.parts = more[p][k].parts
      BY <2>4, <2>5, <3>1
    <3>9. less \in Piles
      BY <1>7
    <3> HIDE DEF more, less
    <3> DEFINE next == n + 1
    <3>11. next \in Nat /\ Tidy(more, log, next)
      BY <1>1, <3>5
    <3> HIDE DEF next
    <3>12. /\ Tidy(less, Append(log, e), next)
           /\ Complete(more, log, next) => Complete(less, Append(log, e), next)
      BY ZenonT(60), <1>1, <3>1, <3>4, <3>6, <3>7, <3>8, <3>9, <3>11, TidyMove
    <3>10. /\ Tidy(less, Append(log, e), n + 1)
           /\ Complete(more, log, n + 1) => Complete(less, Append(log, e), n + 1)
      BY <3>12 DEF next
    <3> QED BY <1>2, <1>4, <3>2, <3>3, <3>5, <3>10, OneClient DEF less
  <2> QED BY <2>1, <2>8, <2>9 DEF r
<1> QED BY <1>8, <1>10, <1>11, <1>12, <1>13 DEF Receive

LEMMA NextAccountInv == AccountInv /\ [Next]_vars => AccountInv'
<1> SUFFICES ASSUME AccountInv, [Next]_vars
             PROVE  AccountInv'
  OBVIOUS
<1>1. CASE Next
  <2>1. RunInv'
    BY <1>1, NextRunInv DEF AccountInv
  <2>2. PICK c \in Clients : \/ Connect(c)
                            \/ Disconnect(c)
                            \/ \E m \in Message : Receive(c, m)
    BY <1>1 DEF Next
  <2> QED BY <2>1, <2>2, FreshClient, MessageAccount
<1>2. CASE UNCHANGED vars
  <2>1. RunInv'
    BY <1>2, StutterRunInv DEF AccountInv
  <2> QED BY <1>2, <2>1 DEF AccountInv, vars
<1> QED BY <1>1, <1>2

\* Every message of an open connection is at exactly one place: in flight or
\* in the log, whatever devices send and however connections come and go.
THEOREM NothingLostOrTwice == Spec => []ArrivalsAccounted
<1>1. AccountInv /\ [Next]_vars => AccountInv'
  BY NextAccountInv
<1> QED BY <1>1, InitAccountInv, AccountInvSuffices, PTL DEF Spec

-----------------------------------------------------------------------------
\* The counter of the service and the global one agree.
LEMMA NextCountsAgree == TypeOK /\ CountsAgree /\ [Next]_vars => CountsAgree'
<1> SUFFICES ASSUME TypeOK, CountsAgree, [Next]_vars PROVE CountsAgree'
  OBVIOUS
<1>1. ASSUME NEW c \in Clients, Connect(c) PROVE CountsAgree'
  BY <1>1 DEF CountsAgree, Connect
<1>2. ASSUME NEW c \in Clients, Disconnect(c) PROVE CountsAgree'
  BY <1>2 DEF CountsAgree, Disconnect
<1>3. ASSUME NEW c \in Clients, NEW m \in Message, Receive(c, m) PROVE CountsAgree'
  <2>1. msgCount' = msgCount + 1 /\ config' = config
        /\ count' = IF config.performance_mode THEN count ELSE count + 1
    <3>1. CASE CountOnly(c, m)
      BY <3>1 DEF CountOnly, Arrive
    <3>2. CASE ShowOriginal(c, m)
      BY <3>2 DEF ShowOriginal, Arrive
    <3>3. CASE Parse(c)
      BY <3>3 DEF Parse, Arrive
    <3> QED BY <1>3, <3>1, <3>2, <3>3 DEF Receive, PassThrough, StartRecord, JoinRecord
  <2> QED BY <2>1 DEF CountsAgree
<1>4. CASE UNCHANGED vars
  BY <1>4 DEF CountsAgree, vars
<1> QED BY <1>1, <1>2, <1>3, <1>4 DEF Next

\* For any number of handlers, the service's own counter is what they have all
\* received, but in performance mode, whose path does not bump it.
THEOREM CountersAgree == Spec => []CountsAgree
<1>1. Init => CountsAgree
  BY DEF Init, CountsAgree
<1> QED BY <1>1, NextCountsAgree, TypeCorrect, PTL DEF Spec

-----------------------------------------------------------------------------
(***************************************************************************)
(* OldestFirst.  The records of a path stay in the order in which their    *)
(* first fragments arrived, and no two records, of whatever path, have     *)
(* their first fragment in common: so the first of the list that matches   *)
(* is the oldest one, and only it is seen to grow.                         *)
(***************************************************************************)
Ordered(list) ==
    \A j, k \in 1 .. Len(list) :
        j < k => FirstArrival(list[j]) < FirstArrival(list[k])

OldestInv == AccountInv /\ \A c \in Clients, p \in Paths : Ordered(records[c][p])

LEMMA FirstArrivals ==
    ASSUME AccountInv, NEW c \in Clients
    PROVE  /\ clientCount[c] \in Nat
           /\ \A p \in Paths :
                /\ records[c][p] \in Seq(Record)
                /\ Len(records[c][p]) \in Nat
                /\ \A k \in 1 .. Len(records[c][p]) :
                    /\ records[c][p][k].parts \in Seq(Fragment) \ {<<>>}
                    /\ FirstArrival(records[c][p][k]) \in 1 .. clientCount[c]
           /\ \A p, q \in Paths :
                \A k \in 1 .. Len(records[c][p]), j \in 1 .. Len(records[c][q]) :
                    FirstArrival(records[c][p][k]) = FirstArrival(records[c][q][j])
                        => p = q /\ k = j
<1>1. /\ clientCount[c] \in Nat
      /\ \A p \in Paths : /\ records[c][p] \in Seq(Record)
                          /\ ListRuns(p, records[c][p], clientCount[c])
  BY RunInvByList DEF AccountInv, TypeOK
<1>2. ASSUME NEW p \in Paths, NEW k \in 1 .. Len(records[c][p])
      PROVE  /\ records[c][p][k].parts \in Seq(Fragment) \ {<<>>}
             /\ Among(FirstArrival(records[c][p][k]), records[c][p][k].parts)
  <2>1. records[c][p][k] \in Record /\ RecordRun(p, records[c][p][k])
    BY SMTT(30), <1>1 DEF ListRuns
  <2>2. records[c][p][k].parts \in Seq(Fragment) \ {<<>>}
    BY ZenonT(60), <2>1 DEF Record, RecordRun, IsRun
  <2>3. 1 \in 1 .. Len(records[c][p][k].parts)
    BY <2>2
  <2> QED BY <2>2, <2>3 DEF Among, FirstArrival
<1>3. Tidy(records[c], shown[c], clientCount[c])
  BY DEF AccountInv
<1>4. ASSUME NEW p \in Paths, NEW k \in 1 .. Len(records[c][p])
      PROVE  FirstArrival(records[c][p][k]) \in 1 .. clientCount[c]
  BY <1>2, <1>3, <1>4 DEF Tidy, InRecords
<1>5. ASSUME NEW p \in Paths, NEW q \in Paths, NEW k \in 1 .. Len(records[c][p]),
             NEW j \in 1 .. Len(records[c][q]),
             FirstArrival(records[c][p][k]) = FirstArrival(records[c][q][j])
      PROVE  p = q /\ k = j
  <2>1. OnceInRecords(records[c], FirstArrival(records[c][p][k]))
    BY <1>3 DEF Tidy
  <2> QED BY <1>2, <1>5, <2>1 DEF OnceInRecords
<1>6. \A p \in Paths : Len(records[c][p]) \in Nat
  BY <1>1
<1> QED BY <1>1, <1>2, <1>4, <1>5, <1>6

\* What the arrival of m does to the records of its path and to the log: the
\* list is left alone, gets a new record, or its record k gets the fragment.
Untouched(c, m) ==
    /\ records'[c][m.path] = records[c][m.path]
    /\ \A e \in Len(shown[c]) + 1 .. Len(shown'[c]) : Len(shown'[c][e].parts) = 1

Pushed(c, m) ==
    /\ records'[c][m.path] = Append(records[c][m.path], NewRecord(Arrival(c, m)))
    /\ shown'[c] = shown[c]

Joined(c, m, k) ==
    LET list == records[c][m.path]
        r    == Extend(list[k], Arrival(c, m))
    IN  /\ FirstMatch(list, m.chunk.node, k)
        /\ \/ /\ records'[c][m.path] = RemoveRecord(list, k)
              /\ \A e \in Len(shown[c]) + 1 .. Len(shown'[c]) :
                    shown'[c][e].parts = r.parts
           \/ /\ records'[c][m.path] = [list EXCEPT ![k] = r]
              /\ shown'[c] = shown[c]

LEMMA ReceiveEffect ==
    ASSUME AccountInv, NEW c \in Clients, NEW m \in Message, Receive(c, m)
    PROVE  /\ \A d \in Clients \ {c} :
                records'[d] = records[d] /\ shown'[d] = shown[d]
           /\ \A q \in Paths \ {m.path} : records'[c][q] = records[c][q]
           /\ \/ Untouched(c, m) \/ Pushed(c, m)
              \/ \E k \in 1 .. Len(records[c][m.path]) : Joined(c, m, k)
<1> DEFINE list == records[c][m.path]
<1>1. /\ records \in [Clients -> [Paths -> Seq(Record)]]
      /\ shown \in [Clients -> Seq(Entry)]
      /\ m.path \in Paths
  BY DEF AccountInv, RunInv, TypeOK, Message
<1>2. ASSUME NEW kind, NEW parts, Show(c, kind, parts)
      PROVE  /\ \A d \in Clients \ {c} : shown'[d] = shown[d]
             /\ \A e \in Len(shown[c]) + 1 .. Len(shown'[c]) :
                    shown'[c][e].parts = parts
  <2>1. shown'[c] = Append(shown[c], [kind |-> kind, parts |-> parts])
    BY <1>1, <1>2 DEF Show
  <2>2. Len(shown[c]) \in Nat
    BY <1>1
  <2>3. \A e \in Len(shown[c]) + 1 .. Len(shown'[c]) : e = Len(shown[c]) + 1
    BY <1>1, <2>1, <2>2
  <2>4. shown'[c][Len(shown[c]) + 1].parts = parts
    BY <1>1, <2>1
  <2> QED BY <1>1, <1>2, <2>3, <2>4 DEF Show
<1>3. ASSUME NEW new, Store(c, m.path, new)
      PROVE  /\ records'[c][m.path] = new
             /\ \A d \in Clients \ {c} : records'[d] = records[d]
             /\ \A q \in Paths \ {m.path} : records'[c][q] = records[c][q]
  BY <1>1, <1>3 DEF Store
<1>4. Len(shown[c]) \in Nat
  BY <1>1
<1>5. CASE CountOnly(c, m)
  BY <1>4, <1>5 DEF CountOnly, Untouched
<1>6. CASE ShowOriginal(c, m)
  <2>1. Show(c, "original", <<Arrival(c, m)>>) /\ UNCHANGED records
    BY <1>6 DEF ShowOriginal
  <2> QED BY <1>2, <2>1 DEF Untouched
<1>7. CASE PassThrough(c, m)
  <2>1. Show(c, Kind(<<Arrival(c, m)>>), <<Arrival(c, m)>>) /\ UNCHANGED records
    BY <1>7 DEF PassThrough
  <2> QED BY <1>2, <2>1 DEF Untouched
<1>8. CASE StartRecord(c, m)
  <2>1. Store(c, m.path, Append(list, NewRecord(Arrival(c, m)))) /\ UNCHANGED shown
    BY <1>8 DEF StartRecord
  <2> QED BY <1>3, <2>1 DEF Pushed
<1>9. CASE JoinRecord(c, m)
  <2>1. PICK k \in 1 .. Len(list) :
            LET r == Extend(list[k], Arrival(c, m))
            IN  /\ FirstMatch(list, m.chunk.node, k)
                /\ \/ /\ Store(c, m.path, RemoveRecord(list, k))
                      /\ Show(c, Kind(r.parts), r.parts)
                   \/ /\ Store(c, m.path, [list EXCEPT ![k] = r])
                      /\ UNCHANGED shown
    BY <1>9 DEF JoinRecord
  <2> DEFINE r == Extend(list[k], Arrival(c, m))
  <2>2. CASE Store(c, m.path, RemoveRecord(list, k)) /\ Show(c, Kind(r.parts), r.parts)
    <3> HIDE DEF r
    <3>1. /\ \A d \in Clients \ {c} : shown'[d] = shown[d]
          /\ \A e \in Len(shown[c]) + 1 .. Len(shown'[c]) :
                shown'[c][e].parts = r.parts
      BY <1>2, <2>2
    <3>2. /\ records'[c][m.path] = RemoveRecord(list, k)
          /\ \A d \in Clients \ {c} : records'[d] = records[d]
          /\ \A q \in Paths \ {m.path} : records'[c][q] = records[c][q]
      BY <1>3, <2>2
    <3> QED BY <2>1, <3>1, <3>2 DEF r, Joined
  <2>3. CASE Store(c, m.path, [list EXCEPT ![k] = r]) /\ UNCHANGED shown
    <3> HIDE DEF r
    <3>1. /\ records'[c][m.path] = [list EXCEPT ![k] = r]
          /\ \A d \in Clients \ {c} : records'[d] = records[d]
          /\ \A q \in Paths \ {m.path} : records'[c][q] = records[c][q]
      BY <1>3, <2>3
    <3> QED BY <2>1, <2>3, <3>1 DEF r, Joined
  <2> QED BY <2>1, <2>2, <2>3
<1> QED BY <1>5, <1>6, <1>7, <1>8, <1>9 DEF Receive

\* A record that gets a fragment keeps its first one.
LEMMA ExtendFirst ==
    ASSUME NEW r \in Record, r.parts # <<>>, NEW f
    PROVE  FirstArrival(Extend(r, f)) = FirstArrival(r)
<1>1. r.parts \in Seq(Fragment)
  BY DEF Record
<1>2. Append(r.parts, f)[1] = r.parts[1]
  BY <1>1
<1>3. Extend(r, f).parts = Append(r.parts, f)
  BY DEF Extend, Record
<1> QED BY <1>2, <1>3 DEF FirstArrival

LEMMA InitOldestInv == Init => OldestInv
<1>1. Init => \A c \in Clients, p \in Paths : records[c][p] = <<>>
  BY DEF Init, NoRecords
<1> QED BY <1>1, InitAccountInv DEF OldestInv, Ordered

LEMMA OrderedReceive ==
    ASSUME OldestInv, NEW c \in Clients, NEW m \in Message, Receive(c, m)
    PROVE  \A d \in Clients, q \in Paths : Ordered(records'[d][q])
<1> DEFINE list == records[c][m.path]
<1>1. AccountInv /\ m.path \in Paths
  BY DEF OldestInv, Message
<1>2. /\ list \in Seq(Record) /\ Len(list) \in Nat /\ clientCount[c] \in Nat
      /\ \A k \in 1 .. Len(list) : /\ list[k].parts \in Seq(Fragment) \ {<<>>}
                                   /\ FirstArrival(list[k]) \in 1 .. clientCount[c]
  BY <1>1, FirstArrivals
<1>3. Ordered(list)
  BY <1>1 DEF OldestInv
<1> HIDE DEF list
<1>4. ASSUME records'[c][m.path] = Append(list, NewRecord(Arrival(c, m)))
      PROVE  Ordered(records'[c][m.path])
  <2>1. FirstArrival(NewRecord(Arrival(c, m))) = clientCount[c] + 1
    BY DEF FirstArrival, NewRecord, Arrival
  <2>2. /\ Len(records'[c][m.path]) = Len(list) + 1
        /\ records'[c][m.path][Len(list) + 1] = NewRecord(Arrival(c, m))
        /\ \A k \in 1 .. Len(list) : records'[c][m.path][k] = list[k]
    BY <1>2, <1>4
  <2>3. ASSUME NEW j \in 1 .. Len(list) + 1, NEW k \in 1 .. Len(list) + 1, j < k
        PROVE  FirstArrival(records'[c][m.path][j])
                    < FirstArrival(records'[c][m.path][k])
    <3>1. j \in 1 .. Len(list)
      BY <1>2, <2>3
    <3>2. CASE k = Len(list) + 1
      <4>1. /\ records'[c][m.path][j] = list[j]
            /\ records'[c][m.path][k] = NewRecord(Arrival(c, m))
        BY <2>2, <3>1, <3>2
      <4>2. FirstArrival(list[j]) \in 1 .. clientCount[c]
        BY <1>2, <3>1
      <4>3. clientCount[c] \in Nat
        BY <1>2
      <4>4. FirstArrival(list[j]) < clientCount[c] + 1
        BY <4>2, <4>3
      <4> QED BY <2>1, <4>1, <4>4
    <3>3. CASE k # Len(list) + 1
      <4>1. k \in 1 .. Len(list)
        BY <1>2, <3>3
      <4> QED BY <1>3, <2>2, <2>3, <3>1, <4>1 DEF Ordered
    <3> QED BY <3>2, <3>3
  <2> QED BY <2>2, <2>3 DEF Ordered
<1>5. ASSUME NEW k \in 1 .. Len(list), records'[c][m.path] = RemoveRecord(list, k)
      PROVE  Ordered(records'[c][m.path])
  <2>1. /\ Len(RemoveRecord(list, k)) = Len(list) - 1
        /\ \A i \in 1 .. Len(list) - 1 :
            RemoveRecord(list, k)[i] = list[IF i < k THEN i ELSE i + 1]
    BY <1>2, RemoveRecordKeeps
  <2>2. ASSUME NEW i \in 1 .. Len(list) - 1, NEW j \in 1 .. Len(list) - 1, i < j
        PROVE  FirstArrival(RemoveRecord(list, k)[i])
                    < FirstArrival(RemoveRecord(list, k)[j])
    <3> DEFINE a == IF i < k THEN i ELSE i + 1
               b == IF j < k THEN j ELSE j + 1
    <3>1. a \in 1 .. Len(list) /\ b \in 1 .. Len(list) /\ a < b
      BY <1>2, <2>2
    <3> HIDE DEF a, b
    <3>2. FirstArrival(list[a]) < FirstArrival(list[b])
      BY <1>3, <3>1 DEF Ordered
    <3> QED BY <2>1, <3>2 DEF a, b
  <2> QED BY <1>5, <2>1, <2>2 DEF Ordered
<1>6. ASSUME NEW k \in 1 .. Len(list),
             records'[c][m.path] = [list EXCEPT ![k] = Extend(list[k], Arrival(c, m))]
      PROVE  Ordered(records'[c][m.path])
  <2> DEFINE r == Extend(list[k], Arrival(c, m))
  <2>1. FirstArrival(r) = FirstArrival(list[k])
    <3>1. list[k] \in Record
      BY <1>2
    <3> QED BY <1>2, <3>1, ExtendFirst
  <2> HIDE DEF r
  <2>2. /\ Len(records'[c][m.path]) = Len(list)
        /\ \A i \in 1 .. Len(list) :
            records'[c][m.path][i] = IF i = k THEN r ELSE list[i]
    BY <1>2, <1>6, ExceptSeq DEF r
  <2>3. \A i \in 1 .. Len(list) :
            FirstArrival(records'[c][m.path][i]) = FirstArrival(list[i])
    BY SMTT(30), <2>1, <2>2
  <2> QED BY <1>3, <2>2, <2>3 DEF Ordered
<1>7. /\ \A d \in Clients \ {c} : records'[d] = records[d]
      /\ \A q \in Paths \ {m.path} : records'[c][q] = records[c][q]
      /\ \/ records'[c][m.path] = list
         \/ records'[c][m.path] = Append(list, NewRecord(Arrival(c, m)))
         \/ \E k \in 1 .. Len(list) :
                \/ records'[c][m.path] = RemoveRecord(list, k)
                \/ records'[c][m.path]
                        = [list EXCEPT ![k] = Extend(list[k], Arrival(c, m))]
  <2>1. /\ \A d \in Clients \ {c} : records'[d] = records[d]
        /\ \A q \in Paths \ {m.path} : records'[c][q] = records[c][q]
        /\ \/ Untouched(c, m) \/ Pushed(c, m)
           \/ \E k \in 1 .. Len(records[c][m.path]) : Joined(c, m, k)
    BY <1>1, ReceiveEffect
  <2> QED BY ZenonT(60), <2>1 DEF list, Untouched, Pushed, Joined
<1>8. Ordered(records'[c][m.path])
  BY <1>3, <1>4, <1>5, <1>6, <1>7
<1> QED BY <1>7, <1>8 DEF OldestInv

LEMMA NextOldestInv == OldestInv /\ [Next]_vars => OldestInv'
<1> SUFFICES ASSUME OldestInv, [Next]_vars PROVE OldestInv'
  OBVIOUS
<1>1. AccountInv'
  BY NextAccountInv DEF OldestInv
<1>2. ASSUME NEW c \in Clients, Connect(c) \/ Disconnect(c)
      PROVE  \A d \in Clients, p \in Paths : Ordered(records'[d][p])
  <2>1. /\ \A p \in Paths : records'[c][p] = <<>>
        /\ \A d \in Clients \ {c} : records'[d] = records[d]
    BY <1>2 DEF OldestInv, AccountInv, RunInv, TypeOK, Connect, Disconnect, NoRecords
  <2>2. \A p \in Paths : Ordered(records'[c][p])
    BY <2>1 DEF Ordered
  <2> QED BY <2>1, <2>2 DEF OldestInv
<1>3. CASE UNCHANGED vars
  BY SMTT(30), <1>1, <1>3 DEF OldestInv, vars
<1> QED BY <1>1, <1>2, <1>3, OrderedReceive DEF OldestInv, Next

\* When a record gets the fragment that arrived, it is the first that matches.
LEMMA GrownIsFirst ==
    ASSUME OldestInv, NEW d \in Clients, NEW m \in Message, Receive(d, m),
           NEW c \in Clients, NEW p \in Paths, NEW k \in 1 .. Len(records[c][p]),
           Grew(c, p, k)
    PROVE  FirstMatch(records[c][p], m.chunk.node, k)
<1> DEFINE old  == records[c][p][k]
           list == records[d][m.path]
<1>1. AccountInv /\ m.path \in Paths
  BY DEF OldestInv, Message
<1>2. ASSUME NEW q \in Paths
      PROVE  /\ records[c][q] \in Seq(Record) /\ Len(records[c][q]) \in Nat
             /\ \A i \in 1 .. Len(records[c][q]) :
                /\ records[c][q][i].parts \in Seq(Fragment) \ {<<>>}
                /\ FirstArrival(records[c][q][i]) \in 1 .. clientCount[c]
                /\ FirstArrival(records[c][q][i]) = FirstArrival(old)
                        => q = p /\ i = k
  BY <1>1, FirstArrivals
<1>3. clientCount[c] \in Nat /\ Len(shown[c]) \in Nat
  BY <1>1 DEF AccountInv, RunInv, TypeOK
<1> HIDE DEF old
<1>4. ASSUME NEW r \in 1 .. Len(records[c][p]),
             FirstArrival(records[c][p][r]) = FirstArrival(old),
             Len(records[c][p][r].parts) > Len(old.parts)
      PROVE  FALSE
  <2>1. r = k
    BY <1>2, <1>4
  <2>2. Len(old.parts) \in Nat
    <3>1. old.parts \in Seq(Fragment)
      BY <1>2 DEF old
    <3> QED BY <3>1
  <2>3. records[c][p][r] = old
    BY <2>1 DEF old
  <2> QED BY <1>4, <2>2, <2>3
<1>5. \/ \E r \in 1 .. Len(records'[c][p]) :
            /\ FirstArrival(records'[c][p][r]) = FirstArrival(old)
            /\ Len(records'[c][p][r].parts) > Len(old.parts)
      \/ \E e \in Len(shown[c]) + 1 .. Len(shown'[c]) :
            /\ Len(shown'[c][e].parts) > 1
            /\ FirstArrival(shown'[c][e]) = FirstArrival(old)
  BY DEF Grew, old
<1>6. ASSUME UNCHANGED <<records[c][p], shown[c]>>
      PROVE  FALSE
  BY <1>3, <1>4, <1>5, <1>6
<1>7. /\ \A b \in Clients \ {d} : records'[b] = records[b] /\ shown'[b] = shown[b]
      /\ \A q \in Paths \ {m.path} : records'[d][q] = records[d][q]
      /\ \/ /\ records'[d][m.path] = list
            /\ \A e \in Len(shown[d]) + 1 .. Len(shown'[d]) :
                    Len(shown'[d][e].parts) = 1
         \/ /\ records'[d][m.path] = Append(list, NewRecord(Arrival(d, m)))
            /\ shown'[d] = shown[d]
         \/ \E i \in 1 .. Len(list) :
                /\ FirstMatch(list, m.chunk.node, i)
                /\ \/ /\ records'[d][m.path] = RemoveRecord(list, i)
                      /\ \A e \in Len(shown[d]) + 1 .. Len(shown'[d]) :
                            shown'[d][e].parts = Extend(list[i], Arrival(d, m)).parts
                   \/ /\ records'[d][m.path]
                            = [list EXCEPT ![i] = Extend(list[i], Arrival(d, m))]
                      /\ shown'[d] = shown[d]
  <2>1. /\ \A b \in Clients \ {d} : records'[b] = records[b] /\ shown'[b] = shown[b]
        /\ \A q \in Paths \ {m.path} : records'[d][q] = records[d][q]
        /\ \/ Untouched(d, m) \/ Pushed(d, m)
           \/ \E i \in 1 .. Len(records[d][m.path]) : Joined(d, m, i)
    BY SMTT(30), <1>1, ReceiveEffect
  <2> QED BY ZenonT(60), <2>1 DEF Untouched, Pushed, Joined
<1>8. c = d
  BY <1>6, <1>7
<1>9. CASE /\ records'[d][m.path] = list
           /\ \A e \in Len(shown[d]) + 1 .. Len(shown'[d]) :
                Len(shown'[d][e].parts) = 1
  <2>1. records'[c][p] = records[c][p]
    BY <1>7, <1>8, <1>9
  <2>2. ~ \E e \in Len(shown[c]) + 1 .. Len(shown'[c]) : Len(shown'[c][e].parts) > 1
    <3>1. \A e \in Len(shown[c]) + 1 .. Len(shown'[c]) : Len(shown'[c][e].parts) = 1
      BY <1>8, <1>9, Zenon
    <3>2. \A x : x = 1 => ~ (x > 1)
      OBVIOUS
    <3> QED BY <3>1, <3>2, Zenon
  <2>3. PICK r \in 1 .. Len(records'[c][p]) :
            /\ FirstArrival(records'[c][p][r]) = FirstArrival(old)
            /\ Len(records'[c][p][r].parts) > Len(old.parts)
    BY <1>5, <2>2
  <2> QED BY <1>4, <2>1, <2>3
<1>10. CASE /\ records'[d][m.path] = Append(list, NewRecord(Arrival(d, m)))
            /\ shown'[d] = shown[d]
  <2>1. p = m.path
    BY <1>6, <1>7, <1>8, <1>10
  <2>2. PICK r \in 1 .. Len(records'[c][p]) :
            /\ FirstArrival(records'[c][p][r]) = FirstArrival(old)
            /\ Len(records'[c][p][r].parts) > Len(old.parts)
    BY <1>3, <1>5, <1>8, <1>10
  <2>3. /\ Len(records'[c][p]) = Len(records[c][p]) + 1
        /\ \A i \in 1 .. Len(records[c][p]) : records'[c][p][i] = records[c][p][i]
        /\ records'[c][p][Len(records[c][p]) + 1] = NewRecord(Arrival(d, m))
    BY SMTT(30), <1>2, <1>8, <1>10, <2>1
  <2>4. CASE r = Len(records[c][p]) + 1
    <3>1. FirstArrival(records'[c][p][r]) = clientCount[c] + 1
      BY <1>8, <2>3, <2>4 DEF FirstArrival, NewRecord, Arrival
    <3>2. FirstArrival(old) \in 1 .. clientCount[c]
      BY <1>2 DEF old
    <3> QED BY <1>3, <2>2, <3>1, <3>2
  <2>5. CASE r # Len(records[c][p]) + 1
    <3>1. r \in 1 .. Len(records[c][p])
      BY <1>2, <2>3, <2>5
    <3> QED BY <1>4, <2>2, <2>3, <3>1
  <2> QED BY <2>4, <2>5
<1>11. ASSUME NEW i \in 1 .. Len(list), FirstMatch(list, m.chunk.node, i),
              records'[d][m.path] = RemoveRecord(list, i),
              \A e \in Len(shown[d]) + 1 .. Len(shown'[d]) :
                shown'[d][e].parts = Extend(list[i], Arrival(d, m)).parts
       PROVE  FirstMatch(records[c][p], m.chunk.node, k)
  <2>1. \A r \in 1 .. Len(records'[c][p]) :
            \E j \in 1 .. Len(records[c][p]) : records'[c][p][r] = records[c][p][j]
    <3>1. CASE p = m.path
      <4>1. /\ Len(RemoveRecord(list, i)) = Len(list) - 1
            /\ \A j \in 1 .. Len(list) - 1 :
                RemoveRecord(list, i)[j] = list[IF j < i THEN j ELSE j + 1]
        <5>1. list \in Seq(Record)
          BY <1>2, <1>8, <3>1
        <5> HIDE DEF list
        <5> QED BY <5>1, RemoveRecordKeeps
      <4>2. \A j \in 1 .. Len(list) - 1 :
                (IF j < i THEN j ELSE j + 1) \in 1 .. Len(list)
        BY <1>2, <1>8, <3>1
      <4> QED BY ZenonT(60), <1>8, <1>11, <3>1, <4>1, <4>2
    <3>2. CASE p # m.path
      BY <1>7, <1>8, <3>2
    <3> QED BY <3>1, <3>2
  <2>2. PICK e \in Len(shown[c]) + 1 .. Len(shown'[c]) :
            FirstArrival(shown'[c][e]) = FirstArrival(old)
    BY <1>4, <1>5, <2>1
  <2>3. FirstArrival(Extend(list[i], Arrival(d, m))) = FirstArrival(old)
    BY <1>8, <1>11, <2>2 DEF FirstArrival
  <2>4. FirstArrival(list[i]) = FirstArrival(old)
    <3>1. list[i] \in Record /\ list[i].parts # <<>>
      BY SMTT(30), <1>1, <1>2, <1>8
    <3> QED BY <2>3, <3>1, ExtendFirst
  <2>5. m.path = p /\ i = k
    BY <1>1, <1>2, <1>8, <2>4
  <2> QED BY <1>8, <1>11, <2>5
<1>12. ASSUME NEW i \in 1 .. Len(list), FirstMatch(list, m.chunk.node, i),
              records'[d][m.path]
                = [list EXCEPT ![i] = Extend(list[i], Arrival(d, m))],
              shown'[d] = shown[d]
       PROVE  FirstMatch(records[c][p], m.chunk.node, k)
  <2>1. p = m.path
    BY <1>6, <1>7, <1>8, <1>12
  <2>2. PICK r \in 1 .. Len(records'[c][p]) :
            /\ FirstArrival(records'[c][p][r]) = FirstArrival(old)
            /\ Len(records'[c][p][r].parts) > Len(old.parts)
    BY <1>3, <1>5, <1>8, <1>12
  <2> DEFINE new == Extend(list[i], Arrival(d, m))
  <2>3. FirstArrival(new) = FirstArrival(list[i])
    <3>1. list[i] \in Record /\ list[i].parts # <<>>
      BY <1>1, <1>2, <1>8
    <3> QED BY <3>1, ExtendFirst
  <2> HIDE DEF new
  <2>4. /\ Len(records'[c][p]) = Len(list)
        /\ \A j \in 1 .. Len(list) :
            records'[c][p][j] = IF j = i THEN new ELSE list[j]
    <3>1. list \in Seq(Record)
      BY <1>2, <1>8, <2>1
    <3>2. records'[c][p] = [list EXCEPT ![i] = new]
      BY <1>8, <1>12, <2>1 DEF new
    <3> HIDE DEF list
    <3> QED BY <3>1, <3>2, ExceptSeq
  <2>5. r = i
    BY <1>4, <1>8, <2>1, <2>2, <2>4
  <2>6. FirstArrival(list[i]) = FirstArrival(old)
    BY <2>2, <2>3, <2>4, <2>5
  <2>7. i = k
    BY <1>1, <1>2, <1>8, <2>6
  <2> QED BY <1>8, <1>12, <2>1, <2>7
<1> QED BY ZenonT(60), <1>7, <1>9, <1>10, <1>11, <1>12

\* The record that gets a fragment is the oldest one of its path that waits for
\* it, however records have come and gone before.
THEOREM OldestIsServed == Spec => OldestFirst
<1> DEFINE Fair == \A c \in Clients, p \in Paths :
                \A k, j \in 1 .. Len(records[c][p]) :
                    /\ Grew(c, p, k)
                    /\ FirstArrival(records[c][p][j]) < FirstArrival(records[c][p][k])
                    => records[c][p][j].last # records[c][p][k].last
<1>1. OldestInv /\ Next => Fair
  <2> SUFFICES ASSUME OldestInv, Next, NEW c \in Clients, NEW p \in Paths,
                      NEW k \in 1 .. Len(records[c][p]),
                      NEW j \in 1 .. Len(records[c][p]), Grew(c, p, k),
                      FirstArrival(records[c][p][j]) < FirstArrival(records[c][p][k])
               PROVE  records[c][p][j].last # records[c][p][k].last
    OBVIOUS
  <2>1. AccountInv /\ Ordered(records[c][p])
    BY DEF OldestInv
  <2>2. /\ records[c][p] \in Seq(Record) /\ Len(records[c][p]) \in Nat
        /\ clientCount[c] \in Nat
        /\ \A i \in 1 .. Len(records[c][p]) :
            /\ records[c][p][i].parts \in Seq(Fragment) \ {<<>>}
            /\ FirstArrival(records[c][p][i]) \in 1 .. clientCount[c]
    BY <2>1, FirstArrivals
  <2>3. j < k
    <3>1. j # k
      BY <2>2
    <3>2. ~ (k < j)
      BY <2>1, <2>2 DEF Ordered
    <3> QED BY <2>2, <3>1, <3>2
  <2>4. PICK d \in Clients : Connect(d) \/ Disconnect(d)
                             \/ \E m \in Message : Receive(d, m)
    BY DEF Next
  <2>5. CASE \E m \in Message : Receive(d, m)
    <3>1. PICK m \in Message : Receive(d, m)
      BY <2>5
    <3>2. FirstMatch(records[c][p], m.chunk.node, k)
      BY <3>1, GrownIsFirst
    <3>3. j \in 1 .. k - 1
      BY <2>2, <2>3
    <3> QED BY <3>2, <3>3 DEF FirstMatch, Matches
  <2>6. CASE Connect(d) \/ Disconnect(d)
    <3>1. /\ \A q \in Paths : records'[d][q] = <<>>
          /\ shown'[d] = <<>>
          /\ \A b \in Clients \ {d} : records'[b] = records[b] /\ shown'[b] = shown[b]
      BY <2>1, <2>6 DEF AccountInv, RunInv, TypeOK, Connect, Disconnect, NoRecords
    <3>2. Len(shown[c]) \in Nat
      BY <2>1 DEF AccountInv, RunInv, TypeOK
    <3>3. CASE c = d
      BY <3>1, <3>2, <3>3 DEF Grew
    <3>4. CASE c # d
      <4>5. records'[c] = records[c] /\ shown'[c] = shown[c]
        BY <3>1, <3>4
      <4>6. Len(shown[c]) + 1 .. Len(shown[c]) = {}
        BY <3>2
      <4>1. PICK r \in 1 .. Len(records[c][p]) :
                /\ FirstArrival(records[c][p][r]) = FirstArrival(records[c][p][k])
                /\ Len(records[c][p][r].parts) > Len(records[c][p][k].parts)
        BY <4>5, <4>6 DEF Grew
      <4>2. r = k
        BY <2>1, <4>1, FirstArrivals
      <4>3. Len(records[c][p][k].parts) \in Nat
        <5>1. records[c][p][k].parts \in Seq(Fragment)
          BY <2>2
        <5> QED BY SMTT(30), <5>1
      <4> QED BY <4>1, <4>2, <4>3
    <3> QED BY <3>3, <3>4
  <2> QED BY <2>4, <2>5, <2>6
<1>2. OldestInv /\ [Next]_vars => [Fair]_vars
  BY <1>1
<1>3. Spec => []OldestInv
  BY InitOldestInv, NextOldestInv, PTL DEF Spec
<1>4. Spec => [][Fair]_vars
  BY <1>2, <1>3, PTL DEF Spec
<1> QED BY <1>4 DEF OldestFirst

=============================================================================
