----------------------------- MODULE GpbProofs ------------------------------
(***************************************************************************)
(* Theorems about GpbV3, for any number of connections, any lengths and    *)
(* totals and any width of an i32; about GpbFeed, for any plan and any     *)
(* number of devices and other clients; and about GpbService, for any      *)
(* files and any directory in any order.                                   *)
(***************************************************************************)
EXTENDS GpbService, SubsequenceProofs

\* A run of arrivals without gaps, the first of which has this number.
RunFrom(parts, first) == \A i \in 1 .. Len(parts) : parts[i].n = first + i - 1

\* What makes the two invariants inductive.  "The next one follows" is not
\* enough to know where a run starts when all that is known is where it ends:
\* here every arrival's number is given by its place.
Placed(parts, log, n) ==
    /\ RunFrom(parts, n + 1 - Len(parts))
    /\ n + 1 - Len(parts) = After(log, Len(log))
    /\ \A e \in 1 .. Len(log) :
        /\ log[e] # <<>>
        /\ RunFrom(log[e], log[e][1].n)
        /\ log[e][1].n >= After(log, e - 1)
        /\ log[e][1].n > After(log, e - 1) =>
            log[e][1].msg.total = 0 /\ Len(log[e]) = 1

PlacedInv ==
    /\ TypeOK
    /\ ~ performance_mode =>
        \A c \in Clients : Placed(chunkData[c], shown[c], clientCount[c])

\* The ends of a run whose last arrival is the n-th.
LEMMA RunEnds ==
    ASSUME NEW run \in Seq(Arrival), run # <<>>, NEW n \in Nat,
           RunFrom(run, n + 1 - Len(run))
    PROVE  run[1].n = n + 1 - Len(run) /\ run[Len(run)].n = n
<1>1. Len(run) \in Nat /\ 1 \in 1 .. Len(run) /\ Len(run) \in 1 .. Len(run)
  OBVIOUS
<1>2. /\ run[1].n = n + 1 - Len(run) + 1 - 1
      /\ run[Len(run)].n = n + 1 - Len(run) + Len(run) - 1
  BY <1>1 DEF RunFrom
<1> QED BY <1>1, <1>2

\* The two invariants follow.
LEMMA PlacedSuffices == PlacedInv => ConsecutiveRuns /\ DroppedByWholesOnly
<1> SUFFICES ASSUME PlacedInv, NEW c \in Clients, ~ performance_mode
             PROVE  ConsecutiveRuns!(c)!2 /\ DroppedByWholesOnly!(c)!2
  BY DEF ConsecutiveRuns, DroppedByWholesOnly
<1> DEFINE parts == chunkData[c]
           log   == shown[c]
           n     == clientCount[c]
<1>1. /\ parts \in Seq(Arrival)
      /\ log \in Seq(Seq(Arrival))
      /\ n \in Nat
      /\ Placed(parts, log, n)
  BY DEF PlacedInv, TypeOK
<1>2. ASSUME NEW run \in Seq(Arrival), NEW first \in Int, RunFrom(run, first)
      PROVE  Consecutive(run)
  BY <1>2 DEF RunFrom, Consecutive
<1>3. Consecutive(parts)
  <2>1. n + 1 - Len(parts) \in Int
    BY <1>1
  <2> QED BY <1>1, <1>2, <2>1 DEF Placed
<1>4. ASSUME parts # <<>>
      PROVE  parts[Len(parts)].n = n /\ parts[1].n = n + 1 - Len(parts)
  BY <1>1, <1>4, RunEnds DEF Placed
<1>5. ASSUME NEW e \in 1 .. Len(log)
      PROVE  log[e] # <<>> /\ Consecutive(log[e])
  <2>1. log[e] \in Seq(Arrival) /\ log[e] # <<>> /\ RunFrom(log[e], log[e][1].n)
    BY <1>1 DEF Placed
  <2>2. log[e][1] \in Arrival
    BY <2>1
  <2> QED BY <1>2, <2>1, <2>2 DEF Arrival
<1>6. parts = <<>> => n + 1 = After(log, Len(log))
  BY <1>1 DEF Placed
<1> QED BY <1>1, <1>3, <1>4, <1>5, <1>6 DEF Placed

-----------------------------------------------------------------------------
\* A message goes into the buffer,
LEMMA PlacedKeep ==
    ASSUME NEW parts \in Seq(Arrival), NEW log, NEW n \in Nat,
           Placed(parts, log, n), NEW f \in Arrival, f.n = n + 1
    PROVE  Placed(Append(parts, f), log, n + 1)
<1>1. /\ Len(Append(parts, f)) = Len(parts) + 1
      /\ Append(parts, f)[Len(parts) + 1] = f
      /\ \A i \in 1 .. Len(parts) : Append(parts, f)[i] = parts[i]
      /\ Len(parts) \in Nat
  OBVIOUS
<1>2. n + 1 + 1 - Len(Append(parts, f)) = n + 1 - Len(parts)
  BY <1>1
<1>3. RunFrom(Append(parts, f), n + 1 - Len(parts))
  <2> SUFFICES ASSUME NEW i \in 1 .. Len(parts) + 1
               PROVE  Append(parts, f)[i].n = n + 1 - Len(parts) + i - 1
    BY <1>1 DEF RunFrom
  <2>1. CASE i = Len(parts) + 1
    BY <1>1, <2>1
  <2>2. CASE i # Len(parts) + 1
    <3>1. i \in 1 .. Len(parts)
      BY <1>1, <2>2
    <3> QED BY <1>1, <3>1 DEF Placed, RunFrom
  <2> QED BY <2>1, <2>2
<1> QED BY <1>2, <1>3 DEF Placed

\* ... or a run that ends with it becomes an entry of the log.
LEMMA PlacedShow ==
    ASSUME NEW log \in Seq(Seq(Arrival)), NEW n \in Nat,
           \A e \in 1 .. Len(log) :
                /\ log[e] # <<>>
                /\ RunFrom(log[e], log[e][1].n)
                /\ log[e][1].n >= After(log, e - 1)
                /\ log[e][1].n > After(log, e - 1) =>
                    log[e][1].msg.total = 0 /\ Len(log[e]) = 1,
           NEW run \in Seq(Arrival), run # <<>>,
           RunFrom(run, n + 1 - Len(run)),
           n + 1 - Len(run) >= After(log, Len(log)),
           n + 1 - Len(run) > After(log, Len(log)) =>
                run[1].msg.total = 0 /\ Len(run) = 1
    PROVE  Placed(<<>>, Append(log, run), n)
<1> DEFINE longer == Append(log, run)
           len == Len(log)
<1>1. /\ len \in Nat
      /\ Len(longer) = len + 1
      /\ longer[len + 1] = run
      /\ \A e \in 1 .. len : longer[e] = log[e]
  OBVIOUS
<1> HIDE DEF longer, len
<1>2. Len(run) \in Nat \ {0}
  OBVIOUS
<1>3. run[1].n = n + 1 - Len(run) /\ run[Len(run)].n = n
  BY RunEnds
<1>4. ASSUME NEW e \in 0 .. len
      PROVE  After(longer, e) = After(log, e)
  <2>1. CASE e = 0
    BY <2>1 DEF After
  <2>2. CASE e # 0
    <3>1. longer[e] = log[e]
      BY <1>1, <2>2
    <3> QED BY <3>1 DEF After
  <2> QED BY <2>1, <2>2
<1>5. After(longer, len + 1) = n + 1
  BY <1>1, <1>3 DEF After
<1>6. ASSUME NEW e \in 1 .. len + 1
      PROVE  /\ longer[e] # <<>>
             /\ RunFrom(longer[e], longer[e][1].n)
             /\ longer[e][1].n >= After(longer, e - 1)
             /\ longer[e][1].n > After(longer, e - 1) =>
                    longer[e][1].msg.total = 0 /\ Len(longer[e]) = 1
  <2>1. CASE e = len + 1
    <3>1. longer[e] = run /\ After(longer, e - 1) = After(log, len)
      <4>1. e - 1 = len /\ len \in 0 .. len
        BY <1>1, <2>1
      <4> QED BY <1>1, <1>4, <2>1, <4>1
    <3> QED BY <1>3, <3>1 DEF len
  <2>2. CASE e # len + 1
    <3>1. e \in 1 .. len /\ e - 1 \in 0 .. len
      BY <1>1, <2>2
    <3>2. longer[e] = log[e] /\ After(longer, e - 1) = After(log, e - 1)
      BY <1>1, <1>4, <3>1
    <3> QED BY <3>1, <3>2 DEF len
  <2> QED BY <2>1, <2>2
<1>7. RunFrom(<<>>, n + 1 - Len(<<>>)) /\ n + 1 - Len(<<>>) = n + 1
  BY DEF RunFrom
<1> QED BY <1>1, <1>5, <1>6, <1>7 DEF Placed, longer

-----------------------------------------------------------------------------
\* The state has the types that TypeOK gives it.
LEMMA InitTyped == Init => TypeOK
BY DEF Init, TypeOK

\* What the pieces of a turn do to the variables they write.
LEMMA ArrivingTyped ==
    ASSUME TypeOK, NEW c \in Clients, NEW m \in Message
    PROVE  Arriving(c, m) \in Arrival /\ Arriving(c, m).n = clientCount[c] + 1
           /\ Arriving(c, m).msg = m
BY DEF TypeOK, Arriving, Arrival

LEMMA CombinedTyped ==
    ASSUME TypeOK, NEW c \in Clients, NEW m \in Message
    PROVE  Combined(c, m) \in Seq(Arrival) /\ Combined(c, m) # <<>>
<1>1. chunkData[c] \in Seq(Arrival) /\ Arriving(c, m) \in Arrival
  BY ArrivingTyped DEF TypeOK
<1> QED BY <1>1 DEF Combined

LEMMA ShowTyped ==
    ASSUME TypeOK, NEW c \in Clients, NEW run \in Seq(Arrival), Show(c, run)
    PROVE  /\ shown' \in [Clients -> Seq(Seq(Arrival))]
           /\ shown'[c] = Append(shown[c], run)
           /\ \A d \in Clients \ {c} : shown'[d] = shown[d]
<1>1. shown[c] \in Seq(Seq(Arrival))
  BY DEF TypeOK
<1>2. Append(shown[c], run) \in Seq(Seq(Arrival))
  BY <1>1
<1> QED BY <1>2 DEF TypeOK, Show

LEMMA ArriveTyped ==
    ASSUME TypeOK, NEW c \in Clients, Arrive(c)
    PROVE  /\ performance_mode' \in Modes
           /\ performance_mode' = performance_mode
           /\ conn' \in [Clients -> {"idle", "open"}]
           /\ clientCount' \in [Clients -> Nat]
           /\ clientCount'[c] = clientCount[c] + 1
           /\ \A d \in Clients \ {c} : clientCount'[d] = clientCount[d]
           /\ msgCount' \in Nat
           /\ clientTotal' \in Nat
BY DEF TypeOK, Arrive

LEMMA ClearTyped ==
    ASSUME TypeOK, NEW c \in Clients, Clear(c)
    PROVE  /\ chunkData' \in [Clients -> Seq(Arrival)]
           /\ chunkData'[c] = <<>>
           /\ \A d \in Clients \ {c} : chunkData'[d] = chunkData[d]
BY DEF TypeOK, Clear

-----------------------------------------------------------------------------
\* A connection that has just begun, or has gone, is placed;
LEMMA PlacedNothing == Placed(<<>>, <<>>, 0)
BY DEF Placed, RunFrom, After

\* ... and so is every one of them in the beginning.
LEMMA PlacedInit == Init => PlacedInv
<1> SUFFICES ASSUME Init, NEW c \in Clients
             PROVE  Placed(chunkData[c], shown[c], clientCount[c])
  BY InitTyped DEF PlacedInv
<1>1. chunkData[c] = <<>> /\ shown[c] = <<>> /\ clientCount[c] = 0
  BY DEF Init
<1> QED BY <1>1, PlacedNothing

\* A step of one connection leaves what the others hold alone.
LEMMA PlacedOthers ==
    ASSUME PlacedInv, NEW c \in Clients, TypeOK',
           performance_mode' = performance_mode,
           \A d \in Clients \ {c} : /\ chunkData'[d] = chunkData[d]
                                    /\ shown'[d] = shown[d]
                                    /\ clientCount'[d] = clientCount[d],
           ~ performance_mode =>
                Placed(chunkData'[c], shown'[c], clientCount'[c])
    PROVE  PlacedInv'
<1> SUFFICES ASSUME ~ performance_mode, NEW d \in Clients
             PROVE  Placed(chunkData'[d], shown'[d], clientCount'[d])
  BY DEF PlacedInv
<1>1. CASE d = c
  BY <1>1
<1>2. CASE d # c
  <2>1. Placed(chunkData[d], shown[d], clientCount[d])
    BY DEF PlacedInv
  <2>2. /\ chunkData'[d] = chunkData[d]
        /\ shown'[d] = shown[d]
        /\ clientCount'[d] = clientCount[d]
    BY <1>2
  <2> QED BY <2>1, <2>2
<1> QED BY <1>1, <1>2

\* One lemma per action.
LEMMA PlacedConnect ==
    ASSUME PlacedInv, NEW c \in Clients, Connect(c)
    PROVE  PlacedInv'
<1>1. TypeOK'
  BY DEF PlacedInv, TypeOK, Connect
<1>2. UNCHANGED <<performance_mode, chunkData, shown, clientCount>>
  BY DEF Connect
<1> QED BY <1>1, <1>2 DEF PlacedInv

LEMMA PlacedDisconnect ==
    ASSUME PlacedInv, NEW c \in Clients, Disconnect(c)
    PROVE  PlacedInv'
<1>1. TypeOK'
  BY DEF PlacedInv, TypeOK, Disconnect
<1>2. /\ performance_mode' = performance_mode
      /\ chunkData'[c] = <<>> /\ shown'[c] = <<>> /\ clientCount'[c] = 0
      /\ \A d \in Clients \ {c} : /\ chunkData'[d] = chunkData[d]
                                  /\ shown'[d] = shown[d]
                                  /\ clientCount'[d] = clientCount[d]
  BY DEF PlacedInv, TypeOK, Disconnect
<1>3. Placed(chunkData'[c], shown'[c], clientCount'[c])
  BY <1>2, PlacedNothing
<1> QED BY <1>1, <1>2, <1>3, PlacedOthers

LEMMA PlacedCountOnly ==
    ASSUME PlacedInv, NEW c \in Clients, NEW m \in Message, CountOnly(c, m)
    PROVE  PlacedInv'
<1>1. TypeOK /\ Arrive(c) /\ performance_mode
      /\ UNCHANGED <<chunkData, shown>>
  BY DEF PlacedInv, CountOnly
<1>2. TypeOK' /\ performance_mode'
  BY <1>1, ArriveTyped DEF TypeOK
<1> QED BY <1>2 DEF PlacedInv

LEMMA PlacedShowWhole ==
    ASSUME PlacedInv, NEW c \in Clients, NEW m \in Message, ShowWhole(c, m)
    PROVE  PlacedInv'
<1> DEFINE f == Arriving(c, m)
           n == clientCount[c]
           log == shown[c]
<1>1. /\ TypeOK /\ Arrive(c) /\ Show(c, <<f>>) /\ Clear(c)
      /\ ~ performance_mode /\ m.total = 0
      /\ Placed(chunkData[c], log, n)
      /\ log \in Seq(Seq(Arrival)) /\ n \in Nat
      /\ chunkData[c] \in Seq(Arrival)
  BY DEF PlacedInv, ShowWhole, TypeOK
<1>2. f \in Arrival /\ f.n = n + 1 /\ f.msg = m
  BY <1>1, ArrivingTyped
<1> HIDE DEF f
<1>3. /\ <<f>> \in Seq(Arrival) /\ <<f>> # <<>>
      /\ Len(<<f>>) = 1 /\ <<f>>[1] = f
  BY <1>2
<1>4. TypeOK'
  BY <1>1, <1>3, ArriveTyped, ShowTyped, ClearTyped DEF TypeOK
<1>5. /\ chunkData'[c] = <<>>
      /\ shown'[c] = Append(log, <<f>>)
      /\ clientCount'[c] = n + 1
      /\ performance_mode' = performance_mode
      /\ \A d \in Clients \ {c} : /\ chunkData'[d] = chunkData[d]
                                  /\ shown'[d] = shown[d]
                                  /\ clientCount'[d] = clientCount[d]
  BY <1>1, <1>3, ArriveTyped, ShowTyped, ClearTyped
<1>6. RunFrom(<<f>>, n + 1 + 1 - Len(<<f>>))
  BY <1>1, <1>2, <1>3 DEF RunFrom
<1>7. n + 1 + 1 - Len(<<f>>) >= After(log, Len(log))
  BY <1>1, <1>3 DEF Placed
<1>8. n + 1 \in Nat /\ <<f>>[1].msg.total = 0
  BY <1>1, <1>2, <1>3
<1>9. Placed(<<>>, Append(log, <<f>>), n + 1)
  BY <1>1, <1>3, <1>6, <1>7, <1>8, PlacedShow DEF Placed
<1> QED BY <1>4, <1>5, <1>9, PlacedOthers

LEMMA PlacedKeepChunk ==
    ASSUME PlacedInv, NEW c \in Clients, NEW m \in Message, KeepChunk(c, m)
    PROVE  PlacedInv'
<1> DEFINE f == Arriving(c, m)
           n == clientCount[c]
           log == shown[c]
           parts == chunkData[c]
<1>1. /\ TypeOK /\ Arrive(c) /\ ~ performance_mode
      /\ Placed(parts, log, n)
      /\ parts \in Seq(Arrival) /\ n \in Nat
      /\ chunkData' = [chunkData EXCEPT ![c] = Combined(c, m)]
      /\ shown' = shown
  BY DEF PlacedInv, KeepChunk, TypeOK
<1>2. f \in Arrival /\ f.n = n + 1
  BY <1>1, ArrivingTyped
<1>3. Combined(c, m) \in Seq(Arrival)
  BY <1>1, CombinedTyped
<1>4. TypeOK'
  BY <1>1, <1>3, ArriveTyped DEF TypeOK
<1>5. /\ chunkData'[c] = Append(parts, f)
      /\ shown'[c] = log
      /\ clientCount'[c] = n + 1
      /\ performance_mode' = performance_mode
      /\ \A d \in Clients \ {c} : /\ chunkData'[d] = chunkData[d]
                                  /\ shown'[d] = shown[d]
                                  /\ clientCount'[d] = clientCount[d]
  BY <1>1, ArriveTyped DEF TypeOK, Combined
<1>6. Placed(Append(parts, f), log, n + 1)
  BY <1>1, <1>2, PlacedKeep
<1> QED BY <1>4, <1>5, <1>6, PlacedOthers

LEMMA PlacedShowChunks ==
    ASSUME PlacedInv, NEW c \in Clients, NEW m \in Message, ShowChunks(c, m)
    PROVE  PlacedInv'
<1> DEFINE f == Arriving(c, m)
           n == clientCount[c]
           log == shown[c]
           parts == chunkData[c]
           run == Append(parts, f)
<1>1. /\ TypeOK /\ Arrive(c) /\ Show(c, run) /\ Clear(c)
      /\ ~ performance_mode
      /\ Placed(parts, log, n)
      /\ log \in Seq(Seq(Arrival)) /\ n \in Nat
      /\ parts \in Seq(Arrival)
  BY DEF PlacedInv, ShowChunks, TypeOK, Combined
<1>2. f \in Arrival /\ f.n = n + 1
  BY <1>1, ArrivingTyped
<1>3. run \in Seq(Arrival) /\ run # <<>> /\ Len(run) = Len(parts) + 1
      /\ Len(parts) \in Nat
  BY <1>1, <1>2
<1>4. RunFrom(run, n + 1 + 1 - Len(run))
      /\ n + 1 + 1 - Len(run) = After(log, Len(log))
  <2>1. Placed(run, log, n + 1)
    BY <1>1, <1>2, PlacedKeep
  <2> QED BY <2>1 DEF Placed
<1> HIDE DEF run
<1>5. TypeOK'
  BY <1>1, <1>3, ArriveTyped, ShowTyped, ClearTyped DEF TypeOK
<1>6. /\ chunkData'[c] = <<>>
      /\ shown'[c] = Append(log, run)
      /\ clientCount'[c] = n + 1
      /\ performance_mode' = performance_mode
      /\ \A d \in Clients \ {c} : /\ chunkData'[d] = chunkData[d]
                                  /\ shown'[d] = shown[d]
                                  /\ clientCount'[d] = clientCount[d]
  BY <1>1, <1>3, ArriveTyped, ShowTyped, ClearTyped
<1>7. /\ n + 1 \in Nat
      /\ n + 1 + 1 - Len(run) >= After(log, Len(log))
      /\ ~ (n + 1 + 1 - Len(run) > After(log, Len(log)))
  BY <1>1, <1>3, <1>4
<1>8. Placed(<<>>, Append(log, run), n + 1)
  BY <1>1, <1>3, <1>4, <1>7, PlacedShow DEF Placed
<1> QED BY <1>5, <1>6, <1>8, PlacedOthers

LEMMA PlacedNext == PlacedInv /\ [Next]_vars => PlacedInv'
<1> SUFFICES ASSUME PlacedInv, [Next]_vars
             PROVE  PlacedInv'
  OBVIOUS
<1>1. CASE Next
  <2>1. PICK c \in Clients :
          \/ Connect(c)
          \/ Disconnect(c)
          \/ \E m \in Message : Receive(c, m)
    BY <1>1 DEF Next
  <2>2. CASE Connect(c)
    BY <2>2, PlacedConnect
  <2>3. CASE Disconnect(c)
    BY <2>3, PlacedDisconnect
  <2>4. CASE \E m \in Message : Receive(c, m)
    <3>1. PICK m \in Message : Receive(c, m)
      BY <2>4
    <3>2. CASE CountOnly(c, m)
      BY <3>2, PlacedCountOnly
    <3>3. CASE ShowWhole(c, m)
      BY <3>3, PlacedShowWhole
    <3>4. CASE KeepChunk(c, m)
      BY <3>4, PlacedKeepChunk
    <3>5. CASE ShowChunks(c, m)
      BY <3>5, PlacedShowChunks
    <3> QED BY <3>1, <3>2, <3>3, <3>4, <3>5 DEF Receive
  <2> QED BY <2>1, <2>2, <2>3, <2>4
<1>2. CASE UNCHANGED vars
  BY <1>2 DEF vars, PlacedInv, TypeOK
<1> QED BY <1>1, <1>2

\* Every reachable state is placed: what the theorems below rest on.
THEOREM PlacedAlways == Spec => []PlacedInv
BY PlacedInit, PlacedNext, PTL DEF Spec

\* For any lengths, totals and clients, what assemble_chunk merges are
\* consecutive messages of one stream, and the buffer reaches up to the last.
THEOREM OnlyRunsMerged == Spec => []ConsecutiveRuns
<1>1. PlacedInv => ConsecutiveRuns
  BY PlacedSuffices
<1> QED BY <1>1, PlacedAlways, PTL

\* Nothing is merged twice, and nothing lost but the chunks that a message
\* with total_size 0 found in the buffer, which chunk_data.clear() drops.
THEOREM OnlyWholesDrop == Spec => []DroppedByWholesOnly
<1>1. PlacedInv => DroppedByWholesOnly
  BY PlacedSuffices
<1> QED BY <1>1, PlacedAlways, PTL

-----------------------------------------------------------------------------
(***************************************************************************)
(* Sums of sizes.  Total is defined by recursion along the sequence; a     *)
(* function that fits the recursion exists for every sequence, and any two *)
(* agree as far as their sequences do.                                     *)
(***************************************************************************)
Fits(f, sizes, n) ==
    f = [k \in 0 .. n |-> IF k = 0 THEN 0 ELSE f[k - 1] + sizes[k]]

LEMMA FitsAt ==
    ASSUME NEW f, NEW sizes, NEW n \in Nat, Fits(f, sizes, n)
    PROVE  f[0] = 0 /\ \A k \in 1 .. n : f[k] = f[k - 1] + sizes[k]
<1> DEFINE g == [k \in 0 .. n |-> IF k = 0 THEN 0 ELSE f[k - 1] + sizes[k]]
<1>1. f = g
  BY DEF Fits
<1>2. g[0] = 0 /\ \A k \in 1 .. n : g[k] = f[k - 1] + sizes[k]
  OBVIOUS
<1> HIDE DEF g
<1> QED BY <1>1, <1>2

LEMMA FitsExists ==
    ASSUME NEW sizes \in Seq(Nat)
    PROVE  \E f \in [0 .. Len(sizes) -> Nat] : Fits(f, sizes, Len(sizes))
<1> DEFINE T == {n \in Nat : n <= Len(sizes) =>
                    \E f \in [0 .. n -> Nat] : Fits(f, sizes, n)}
<1>1. 0 \in T
  <2> DEFINE f == [k \in 0 .. 0 |-> 0]
  <2>1. f \in [0 .. 0 -> Nat] /\ Fits(f, sizes, 0)
    BY DEF Fits
  <2> QED BY <2>1
<1>2. ASSUME NEW n \in Nat, n \in T, n + 1 <= Len(sizes)
      PROVE  \E f \in [0 .. n + 1 -> Nat] : Fits(f, sizes, n + 1)
  <2>1. n <= Len(sizes) /\ sizes[n + 1] \in Nat
    BY <1>2
  <2>2. PICK f \in [0 .. n -> Nat] : Fits(f, sizes, n)
    BY <1>2, <2>1
  <2>3. f[0] = 0 /\ \A k \in 1 .. n : f[k] = f[k - 1] + sizes[k]
    BY <2>2, FitsAt
  <2> DEFINE g == [k \in 0 .. n + 1 |-> IF k = n + 1 THEN f[n] + sizes[n + 1] ELSE f[k]]
  <2>4. g \in [0 .. n + 1 -> Nat]
    BY <2>1
  <2>5. /\ \A k \in 0 .. n : g[k] = f[k]
        /\ g[n + 1] = f[n] + sizes[n + 1]
    OBVIOUS
  <2> HIDE DEF g
  <2>6. \A k \in 0 .. n + 1 : g[k] = IF k = 0 THEN 0 ELSE g[k - 1] + sizes[k]
    <3> SUFFICES ASSUME NEW k \in 0 .. n + 1
                 PROVE  g[k] = IF k = 0 THEN 0 ELSE g[k - 1] + sizes[k]
      OBVIOUS
    <3>1. CASE k = 0
      BY <2>3, <2>5, <3>1
    <3>2. CASE k \in 1 .. n
      <4>1. k - 1 \in 0 .. n /\ k \in 0 .. n
        BY <3>2
      <4> QED BY <2>3, <2>5, <3>2, <4>1
    <3>3. CASE k = n + 1
      <4>1. k - 1 = n /\ n \in 0 .. n /\ k # 0
        BY <3>3
      <4> QED BY <2>5, <3>3, <4>1
    <3> QED BY <3>1, <3>2, <3>3
  <2>7. Fits(g, sizes, n + 1)
    BY <2>4, <2>6 DEF Fits
  <2> QED BY <2>4, <2>7
<1>3. ASSUME NEW n \in Nat, n \in T
      PROVE  n + 1 \in T
  <2>1. n + 1 <= Len(sizes) => \E f \in [0 .. n + 1 -> Nat] : Fits(f, sizes, n + 1)
    BY <1>2, <1>3
  <2> QED BY <2>1
<1>4. Nat \subseteq T
  <2> HIDE DEF T
  <2> QED BY <1>1, <1>3, Induction
<1>5. Len(sizes) \in T
  BY <1>4
<1> QED BY <1>5

LEMMA FitsAgree ==
    ASSUME NEW s, NEW t, NEW m \in Nat, NEW n \in Nat, m <= n,
           NEW f, Fits(f, s, m), NEW g, Fits(g, t, n),
           \A k \in 1 .. m : s[k] = t[k]
    PROVE  \A k \in 0 .. m : f[k] = g[k]
<1> DEFINE T == {k \in Nat : k <= m => f[k] = g[k]}
<1>1. /\ f[0] = 0 /\ \A k \in 1 .. m : f[k] = f[k - 1] + s[k]
      /\ g[0] = 0 /\ \A k \in 1 .. n : g[k] = g[k - 1] + t[k]
  BY FitsAt
<1>2. 0 \in T
  BY <1>1
<1>3. ASSUME NEW k \in Nat, k \in T
      PROVE  k + 1 \in T
  <2> SUFFICES ASSUME k + 1 <= m PROVE f[k + 1] = g[k + 1]
    OBVIOUS
  <2>1. k + 1 \in 1 .. m /\ k + 1 \in 1 .. n /\ k + 1 - 1 = k /\ k <= m
    OBVIOUS
  <2>2. f[k] = g[k]
    BY <1>3, <2>1
  <2> QED BY <1>1, <2>1, <2>2
<1>4. Nat \subseteq T
  <2> HIDE DEF T
  <2> QED BY <1>2, <1>3, Induction
<1> QED BY <1>4

\* Any function that fits gives the total.
LEMMA TotalFits ==
    ASSUME NEW sizes \in Seq(Nat), NEW f, Fits(f, sizes, Len(sizes))
    PROVE  Total(sizes) = f[Len(sizes)]
<1>1. Total(sizes) = (CHOOSE g : Fits(g, sizes, Len(sizes)))[Len(sizes)]
  BY Zenon DEF Total, Fits
<1>2. PICK g : /\ g = CHOOSE h : Fits(h, sizes, Len(sizes))
               /\ Fits(g, sizes, Len(sizes))
  BY Zenon
<1>3. \A k \in 0 .. Len(sizes) : g[k] = f[k]
  BY <1>2, FitsAgree
<1>4. Len(sizes) \in 0 .. Len(sizes)
  OBVIOUS
<1> QED BY <1>1, <1>2, <1>3, <1>4

\* What Total computes, one element after the other.
LEMMA TotalGrows ==
    ASSUME NEW sizes \in Seq(Nat)
    PROVE  /\ Total(sizes) \in Nat
           /\ sizes = <<>> => Total(sizes) = 0
           /\ \A n \in Nat : Total(Append(sizes, n)) = Total(sizes) + n
<1>1. PICK f \in [0 .. Len(sizes) -> Nat] : Fits(f, sizes, Len(sizes))
  BY FitsExists
<1>2. Total(sizes) = f[Len(sizes)] /\ Len(sizes) \in Nat
  BY <1>1, TotalFits
<1>3. Total(sizes) \in Nat
  BY <1>1, <1>2
<1>4. sizes = <<>> => Total(sizes) = 0
  BY <1>1, <1>2, FitsAt
<1>5. ASSUME NEW n \in Nat
      PROVE  Total(Append(sizes, n)) = Total(sizes) + n
  <2> DEFINE more == Append(sizes, n)
  <2>1. PICK len \in Nat, next \in Nat : len = Len(sizes) /\ next = len + 1
    BY <1>2
  <2>2. /\ more \in Seq(Nat) /\ Len(more) = next
        /\ more[next] = n /\ \A k \in 1 .. len : sizes[k] = more[k]
    BY <2>1
  <2> HIDE DEF more
  <2>3. PICK g \in [0 .. next -> Nat] : Fits(g, more, next)
    BY <2>2, FitsExists
  <2>4. Total(more) = g[next]
    BY <2>2, <2>3, TotalFits
  <2>5. next \in 1 .. next /\ next - 1 = len /\ len <= next /\ len \in 0 .. len
    BY <2>1
  <2>6. g[next] = g[next - 1] + more[next]
    BY ZenonT(60), <2>3, <2>5, FitsAt
  <2>7. Fits(f, sizes, len)
    BY <1>1, <2>1
  <2>8. f[len] = g[len]
    <3> DEFINE T == {k \in Nat : k <= len => f[k] = g[k]}
    <3>1. f[0] = 0 /\ \A k \in 1 .. len : f[k] = f[k - 1] + sizes[k]
      BY ZenonT(60), <2>7, FitsAt
    <3>2. g[0] = 0 /\ \A k \in 1 .. next : g[k] = g[k - 1] + more[k]
      BY ZenonT(60), <2>3, FitsAt
    <3>3. 0 \in T
      BY <3>1, <3>2
    <3>4. ASSUME NEW k \in Nat, k \in T
          PROVE  k + 1 \in T
      <4> SUFFICES ASSUME k + 1 <= len PROVE f[k + 1] = g[k + 1]
        OBVIOUS
      <4>1. k + 1 \in 1 .. len /\ k + 1 \in 1 .. next /\ k + 1 - 1 = k /\ k <= len
        BY <2>5
      <4>2. f[k] = g[k] /\ sizes[k + 1] = more[k + 1]
        BY <2>2, <3>4, <4>1
      <4> QED BY SMTT(30), <3>1, <3>2, <4>1, <4>2
    <3>5. Nat \subseteq T
      <4> HIDE DEF T
      <4> QED BY <3>3, <3>4, Induction
    <3> QED BY <3>5
  <2> QED BY <1>2, <2>1, <2>2, <2>4, <2>5, <2>6, <2>8 DEF more
<1> QED BY <1>3, <1>4, <1>5

\* The data in the buffer.
LEMMA SizeOfAppend ==
    ASSUME NEW parts \in Seq(Arrival), NEW a \in Arrival
    PROVE  SizeOf(parts) \in Nat /\ SizeOf(Append(parts, a)) = SizeOf(parts) + a.msg.size
<1> DEFINE sizes == [k \in 1 .. Len(parts) |-> parts[k].msg.size]
           more  == [k \in 1 .. Len(Append(parts, a)) |-> Append(parts, a)[k].msg.size]
<1>1. \A b \in Arrival : b.msg.size \in Nat
  BY SizesAssumption DEF Arrival, Message
<1>2. /\ Len(parts) \in Nat /\ Len(Append(parts, a)) = Len(parts) + 1
      /\ \A k \in 1 .. Len(parts) : parts[k] \in Arrival /\ Append(parts, a)[k] = parts[k]
      /\ Append(parts, a)[Len(parts) + 1] = a
  OBVIOUS
<1>3. sizes \in Seq(Nat)
  BY <1>1, <1>2
<1>4. more = Append(sizes, a.msg.size)
  <2>1. /\ Len(sizes) = Len(parts) /\ Append(sizes, a.msg.size) \in Seq(Nat)
        /\ Len(Append(sizes, a.msg.size)) = Len(parts) + 1
    BY <1>1, <1>2, <1>3
  <2>2. /\ Append(sizes, a.msg.size)[Len(parts) + 1] = a.msg.size
        /\ \A k \in 1 .. Len(parts) :
            Append(sizes, a.msg.size)[k] = parts[k].msg.size
    BY <1>2, <1>3, <2>1
  <2>3. more \in Seq(Nat) /\ Len(more) = Len(parts) + 1
    <3>1. \A k \in 1 .. Len(parts) + 1 : Append(parts, a)[k].msg.size \in Nat
      BY <1>1, <1>2
    <3> QED BY SMTT(30), <1>2, <3>1
  <2>4. \A k \in 1 .. Len(parts) + 1 : more[k] = Append(sizes, a.msg.size)[k]
    BY <1>2, <2>2
  <2> QED BY <2>1, <2>3, <2>4
<1> HIDE DEF sizes, more
<1>5. /\ Total(sizes) \in Nat
      /\ Total(Append(sizes, a.msg.size)) = Total(sizes) + a.msg.size
  BY <1>1, <1>3, TotalGrows
<1> QED BY <1>4, <1>5 DEF SizeOf, sizes, more

\* A length counts as itself until it has outgrown an i32.
LEMMA AsI32Small ==
    ASSUME NEW n \in Nat, n < Half
    PROVE  AsI32(n) = n
<1>1. \A m \in 0 .. 2 * Half - 1 : m % (2 * Half) = m
  BY HalfAssumption
<1> QED BY <1>1, HalfAssumption DEF AsI32

LEMMA BufferInit == Init => NothingCompleteKept
BY DEF Init, NothingCompleteKept

\* One turn of the loop, and the buffer is as large as its last chunk asked.
LEMMA BufferStep ==
    TypeOK /\ NothingCompleteKept /\ [Next]_vars => NothingCompleteKept'
<1> SUFFICES ASSUME TypeOK, NothingCompleteKept, [Next]_vars
             PROVE  NothingCompleteKept'
  OBVIOUS
<1> DEFINE Small(parts) ==
            parts # <<>> => \/ SizeOf(parts) < Last(parts).msg.total
                            \/ SizeOf(parts) >= Half
<1>1. \A d \in Clients : Small(chunkData[d])
  BY DEF NothingCompleteKept
<1> SUFFICES \A d \in Clients : Small(chunkData'[d])
  BY DEF NothingCompleteKept
<1>2. Small(<<>>)
  OBVIOUS
<1>3. chunkData \in [Clients -> Seq(Arrival)]
  BY DEF TypeOK
<1>4. ASSUME NEW c \in Clients, NEW m \in Message, KeepChunk(c, m)
      PROVE  Small(Combined(c, m))
  <2>1. chunkData[c] \in Seq(Arrival) /\ Arriving(c, m) \in Arrival
    BY <1>3, ArrivingTyped
  <2>2. SizeOf(chunkData[c]) \in Nat
        /\ SizeOf(Combined(c, m)) = SizeOf(chunkData[c]) + Arriving(c, m).msg.size
    BY <2>1, SizeOfAppend DEF Combined
  <2>3. Arriving(c, m).msg = m /\ m.size \in Nat /\ m.total \in Int
    <3>1. m.size \in Sizes /\ m.total \in Totals
      BY DEF Message
    <3>2. \A t \in Totals : t \in Int
      BY TotalsAssumption, HalfAssumption
    <3> QED BY <3>1, <3>2, SizesAssumption DEF Arriving
  <2>4. Combined(c, m)[Len(Combined(c, m))] = Arriving(c, m)
    BY <2>1 DEF Combined
  <2>5. Last(Combined(c, m)).msg = m
    BY <2>3, <2>4 DEF Last
  <2>6. SizeOf(Combined(c, m)) \in Nat
    BY <2>2, <2>3
  <2>7. AsI32(SizeOf(Combined(c, m))) < m.total
    BY <1>4 DEF KeepChunk, TooShort
  <2> QED BY <2>5, <2>6, <2>7, AsI32Small, HalfAssumption
<1> HIDE DEF Small
<1>5. CASE UNCHANGED vars
  BY <1>1, <1>5 DEF vars
<1>6. ASSUME NEW c \in Clients, Connect(c) \/ Disconnect(c)
      PROVE  \A d \in Clients : Small(chunkData'[d])
  BY <1>1, <1>2, <1>3, <1>6 DEF Connect, Disconnect
<1>7. ASSUME NEW c \in Clients, NEW m \in Message, Receive(c, m)
      PROVE  \A d \in Clients : Small(chunkData'[d])
  <2>1. CASE CountOnly(c, m)
    BY <1>1, <2>1 DEF CountOnly
  <2>2. CASE ShowWhole(c, m) \/ ShowChunks(c, m)
    BY <1>1, <1>2, <1>3, <2>2 DEF ShowWhole, ShowChunks, Clear
  <2>3. CASE KeepChunk(c, m)
    BY <1>1, <1>3, <1>4, <2>3 DEF KeepChunk
  <2> QED BY <1>7, <2>1, <2>2, <2>3 DEF Receive
<1> QED BY <1>5, <1>6, <1>7 DEF Next

\* For every width of an i32 and whatever is sent, the buffer never holds a
\* message that is complete, unless its length has outgrown the i32.
THEOREM NothingCompleteStays == Spec => []NothingCompleteKept
<1>1. Spec => []TypeOK
  <2>1. PlacedInv => TypeOK
    BY DEF PlacedInv
  <2> QED BY <2>1, PlacedAlways, PTL
<1> QED BY <1>1, BufferInit, BufferStep, PTL DEF Spec

-----------------------------------------------------------------------------
(***************************************************************************)
(* GpbFeed: what the devices of a plan finish is shown, whole and in order.*)
(***************************************************************************)
\* The place of a chunk in the plan, and the place behind it.
Planned(at) == at \in Nat \X Nat /\ at[1] \in DOMAIN Plan /\ at[2] \in 1 .. Chunks(at[1])

Behind(at) == IF at[2] < Chunks(at[1]) THEN <<at[1], at[2] + 1>> ELSE <<at[1] + 1, 1>>

AllSent == <<Len(Plan) + 1, 1>>

Earlier(at, to) == at[1] < to[1] \/ (at[1] = to[1] /\ at[2] < to[2])

\* The message m is the chunk at this place.
IsChunk(m, at) == Planned(at) /\ m = ChunkOf(at[1], at[2]) /\ m.body = at

\* The stream of a device holds the chunks from the one that its handler waits
\* for up to the one that the device sends next, without a gap.
Gapless(to, stream, next) ==
    /\ Planned(to) \/ to = AllSent
    /\ stream \in Seq(Message)
    /\ \A w \in 1 .. Len(stream) :
        IsChunk(stream[w], stream[w].body) /\ Earlier(stream[w].body, to)
    /\ \A w \in 1 .. Len(stream) - 1 : stream[w + 1].body = Behind(stream[w].body)
    /\ IF stream = <<>> THEN next = to
       ELSE stream[1].body = next /\ Behind(stream[Len(stream)].body) = to

\* What the handler has is a part of the message it is at, behind all the
\* messages before it.
Tidy(parts, log) ==
    /\ parts \in Seq(Arrival)
    /\ \A k \in 1 .. Len(parts) : IsChunk(parts[k].msg, <<Len(log) + 1, k>>)
    /\ log \in Seq(Seq(Arrival))
    /\ \A e \in 1 .. Len(log) : EntryMessage(log[e]) = e

Expected(parts, log) == <<Len(log) + 1, Len(parts) + 1>>

\* The first messages of the plan.
FirstMessages(n) == [j \in 1 .. n |-> j]

Follows(to, stream, done, parts, log) ==
    /\ Tidy(parts, log)
    /\ Gapless(to, stream, Expected(parts, log))
    /\ done = FirstMessages(to[1] - 1)

InStep(d) == Follows(place[d], wire[d], finished[d], chunkData[d], shown[d])

FeedInv ==
    /\ PlacedInv
    /\ place \in [Devices -> Nat \X Nat]
    /\ wire \in [Devices -> Seq(Message)]
    /\ finished \in [Devices -> Seq(DOMAIN Plan)]
    /\ \A d \in Devices : Planned(place[d]) \/ place[d] = AllSent
    /\ IF performance_mode
       THEN \A d \in Devices : shown[d] = <<>>
       ELSE \A d \in Devices : InStep(d)

LEMMA PlanFacts ==
    /\ Len(Plan) \in Nat
    /\ DOMAIN Plan = 1 .. Len(Plan)
    /\ \A i \in DOMAIN Plan : /\ Plan[i] \in Seq(Nat \ {0})
                              /\ Plan[i] \in Seq(Nat)
                              /\ Chunks(i) \in Nat \ {0}
                              /\ 1 \in 1 .. Chunks(i)
                              /\ Plan[i] # <<>> => Chunks(i) = Len(Plan[i])
<1>1. Plan \in Seq(Seq(Nat \ {0}))
  BY PlanAssumption
<1>2. Len(Plan) \in Nat /\ DOMAIN Plan = 1 .. Len(Plan)
  BY <1>1
<1>3. ASSUME NEW i \in DOMAIN Plan
      PROVE  /\ Plan[i] \in Seq(Nat \ {0})
             /\ Plan[i] \in Seq(Nat)
             /\ Chunks(i) \in Nat \ {0}
             /\ 1 \in 1 .. Chunks(i)
             /\ Plan[i] # <<>> => Chunks(i) = Len(Plan[i])
  <2>1. Plan[i] \in Seq(Nat \ {0})
    BY <1>1
  <2>2. Plan[i] \in Seq(Nat) /\ Len(Plan[i]) \in Nat
    BY <2>1
  <2>3. Plan[i] # <<>> => Len(Plan[i]) # 0
    BY <2>1
  <2> QED BY <2>1, <2>2, <2>3 DEF Chunks
<1> QED BY <1>2, <1>3

\* The place behind a chunk is one of the plan again or its end.
LEMMA BehindPlanned ==
    ASSUME NEW at, Planned(at)
    PROVE  /\ Planned(Behind(at)) \/ Behind(at) = AllSent
           /\ Behind(at) \in Nat \X Nat
           /\ Earlier(at, Behind(at))
           /\ \A from : Planned(from) /\ Earlier(from, at) => Earlier(from, Behind(at))
<1>1. /\ at \in Nat \X Nat /\ at[1] \in 1 .. Len(Plan) /\ at[2] \in 1 .. Chunks(at[1])
      /\ Len(Plan) \in Nat /\ Chunks(at[1]) \in Nat \ {0}
  BY PlanFacts DEF Planned
<1>2. CASE at[2] < Chunks(at[1])
  <2>1. Behind(at) = <<at[1], at[2] + 1>>
    BY <1>2 DEF Behind
  <2> QED BY <1>1, <1>2, <2>1 DEF Planned, Earlier
<1>3. CASE ~ (at[2] < Chunks(at[1]))
  <2>1. Behind(at) = <<at[1] + 1, 1>>
    BY <1>3 DEF Behind
  <2>2. CASE at[1] = Len(Plan)
    BY <1>1, <2>1, <2>2 DEF Planned, Earlier, AllSent
  <2>3. CASE at[1] # Len(Plan)
    <3>1. at[1] + 1 \in DOMAIN Plan /\ 1 \in 1 .. Chunks(at[1] + 1)
      BY <1>1, <2>3, PlanFacts
    <3> QED BY <1>1, <2>1, <3>1 DEF Planned, Earlier
  <2> QED BY <2>2, <2>3
<1> QED BY <1>2, <1>3

\* The device sends the next chunk.
LEMMA GaplessSend ==
    ASSUME NEW to, NEW stream, NEW next, Gapless(to, stream, next), Planned(to)
    PROVE  Gapless(Behind(to), Append(stream, ChunkOf(to[1], to[2])), next)
<1> DEFINE m == ChunkOf(to[1], to[2])
           more == Append(stream, m)
<1>1. m \in Message /\ IsChunk(m, to) /\ m.body = to
  <2>1. m \in Message
    BY PlanAssumption DEF Planned
  <2>2. m.body = <<to[1], to[2]>> /\ to = <<to[1], to[2]>>
    BY DEF ChunkOf, Planned
  <2> QED BY <2>1, <2>2 DEF IsChunk
<1>2. /\ stream \in Seq(Message) /\ Len(stream) \in Nat
      /\ more \in Seq(Message) /\ Len(more) = Len(stream) + 1
      /\ more[Len(stream) + 1] = m
      /\ \A w \in 1 .. Len(stream) : more[w] = stream[w]
      /\ more # <<>>
  <2>1. stream \in Seq(Message)
    BY DEF Gapless
  <2> HIDE DEF m
  <2> QED BY <1>1, <2>1
<1> HIDE DEF m, more
<1>3. ASSUME NEW w \in 1 .. Len(more)
      PROVE  IsChunk(more[w], more[w].body) /\ Earlier(more[w].body, Behind(to))
  <2>1. CASE w = Len(more)
    BY <1>1, <1>2, <2>1, BehindPlanned
  <2>2. CASE w # Len(more)
    <3>1. w \in 1 .. Len(stream)
      BY <1>2, <2>2
    <3>2. IsChunk(stream[w], stream[w].body) /\ Earlier(stream[w].body, to)
      BY <3>1 DEF Gapless
    <3> QED BY <1>2, <3>1, <3>2, BehindPlanned DEF IsChunk
  <2> QED BY <2>1, <2>2
<1>4. ASSUME NEW w \in 1 .. Len(more) - 1
      PROVE  more[w + 1].body = Behind(more[w].body)
  <2>1. CASE w = Len(stream)
    <3>1. stream # <<>>
      BY <1>2, <2>1
    <3> QED BY <1>1, <1>2, <2>1, <3>1 DEF Gapless
  <2>2. CASE w # Len(stream)
    <3>1. w \in 1 .. Len(stream) - 1 /\ w \in 1 .. Len(stream) /\ w + 1 \in 1 .. Len(stream)
      BY <1>2, <2>2
    <3> QED BY <1>2, <3>1 DEF Gapless
  <2> QED BY <2>1, <2>2
<1>5. more[1].body = next
  <2>1. CASE stream = <<>>
    BY <1>1, <1>2, <2>1 DEF Gapless
  <2>2. CASE stream # <<>>
    <3>1. 1 \in 1 .. Len(stream)
      BY <1>2, <2>2
    <3> QED BY <1>2, <2>2, <3>1 DEF Gapless
  <2> QED BY <2>1, <2>2
<1>6. Behind(more[Len(more)].body) = Behind(to)
  BY <1>1, <1>2
<1>7. Gapless(Behind(to), more, next)
  BY <1>2, <1>3, <1>4, <1>5, <1>6, BehindPlanned DEF Gapless
<1> QED BY <1>7 DEF more, m

\* The handler takes the chunk it waits for.
LEMMA GaplessTake ==
    ASSUME NEW to, NEW stream, NEW next, Gapless(to, stream, next), stream # <<>>
    PROVE  /\ Head(stream) \in Message
           /\ IsChunk(Head(stream), next) /\ Earlier(next, to)
           /\ Gapless(to, Tail(stream), Behind(next))
<1> DEFINE rest == Tail(stream)
<1>1. /\ stream \in Seq(Message) /\ Len(stream) \in Nat /\ 1 \in 1 .. Len(stream)
      /\ Head(stream) = stream[1] /\ Head(stream) \in Message
      /\ rest \in Seq(Message) /\ Len(rest) = Len(stream) - 1
      /\ \A w \in 1 .. Len(rest) : rest[w] = stream[w + 1]
  BY DEF Gapless
<1> HIDE DEF rest
<1>2. stream[1].body = next /\ IsChunk(stream[1], next) /\ Earlier(next, to)
  BY <1>1 DEF Gapless
<1>3. ASSUME NEW w \in 1 .. Len(rest)
      PROVE  IsChunk(rest[w], rest[w].body) /\ Earlier(rest[w].body, to)
  <2>1. w + 1 \in 1 .. Len(stream)
    BY <1>1
  <2> QED BY <1>1, <2>1 DEF Gapless
<1>4. ASSUME NEW w \in 1 .. Len(rest) - 1
      PROVE  rest[w + 1].body = Behind(rest[w].body)
  <2>1. /\ w + 1 \in 1 .. Len(stream) - 1 /\ w \in 1 .. Len(rest) /\ w + 1 \in 1 .. Len(rest)
    BY <1>1
  <2> QED BY <1>1, <2>1 DEF Gapless
<1>5. IF rest = <<>> THEN Behind(next) = to
      ELSE rest[1].body = Behind(next) /\ Behind(rest[Len(rest)].body) = to
  <2>1. CASE rest = <<>>
    <3>1. Len(stream) = 1
      BY <1>1, <2>1
    <3> QED BY <1>2, <2>1, <3>1 DEF Gapless
  <2>2. CASE rest # <<>>
    <3>1. 1 \in 1 .. Len(rest) /\ Len(rest) \in 1 .. Len(rest) /\ 1 \in 1 .. Len(stream) - 1
          /\ Len(rest) + 1 = Len(stream)
      BY <1>1, <2>2
    <3>2. rest[1] = stream[2] /\ rest[Len(rest)] = stream[Len(stream)]
      BY <1>1, <3>1
    <3>3. stream[1 + 1].body = Behind(stream[1].body)
      BY <3>1 DEF Gapless
    <3> QED BY <1>2, <2>2, <3>2, <3>3 DEF Gapless
  <2> QED BY <2>1, <2>2
<1> QED BY <1>1, <1>2, <1>3, <1>4, <1>5 DEF Gapless, rest

-----------------------------------------------------------------------------
\* A part of the chunks is shorter than all of them.
LEMMA PrefixTotal ==
    ASSUME NEW sizes \in Seq(Nat \ {0}), NEW t \in Seq(Nat), Len(t) <= Len(sizes),
           \A j \in 1 .. Len(t) : t[j] = sizes[j]
    PROVE  /\ Total(t) \in Nat /\ Total(sizes) \in Nat
           /\ Len(t) = Len(sizes) => Total(t) = Total(sizes)
           /\ Len(t) < Len(sizes) => Total(t) < Total(sizes)
<1>0. PICK n \in Nat, k \in Nat : n = Len(sizes) /\ k = Len(t)
  OBVIOUS
<1>1. n \in Nat /\ k \in Nat /\ k <= n /\ sizes \in Seq(Nat)
      /\ \A j \in 1 .. n : sizes[j] \in Nat \ {0}
  BY <1>0
<1>2. PICK f \in [0 .. n -> Nat] : Fits(f, sizes, n)
  BY <1>0, <1>1, FitsExists
<1>3. f[0] = 0 /\ \A j \in 1 .. n : f[j] = f[j - 1] + sizes[j]
  BY ZenonT(60), <1>2, FitsAt
<1>4. Total(sizes) = f[n]
  BY <1>1, <1>2, <1>0, TotalFits
<1>5. Total(t) = f[k]
  <2> DEFINE g == [j \in 0 .. k |-> f[j]]
  <2>1. \A j \in 1 .. k : t[j] = sizes[j] /\ j \in 1 .. n /\ j - 1 \in 0 .. k
    BY <1>0, <1>1
  <2>2. g = [j \in 0 .. k |-> IF j = 0 THEN 0 ELSE g[j - 1] + t[j]]
    <3>1. ASSUME NEW j \in 0 .. k
          PROVE  f[j] = IF j = 0 THEN 0 ELSE g[j - 1] + t[j]
      <4>1. CASE j = 0
        BY <1>3, <4>1
      <4>2. CASE j # 0
        <5>1. j \in 1 .. k
          BY <1>1, <4>2
        <5>2. g[j - 1] = f[j - 1] /\ f[j] = f[j - 1] + sizes[j] /\ t[j] = sizes[j]
          BY <1>3, <2>1, <5>1
        <5> QED BY <4>2, <5>2
      <4> QED BY <4>1, <4>2
    <3> QED BY <3>1
  <2>3. Fits(g, t, k)
    BY <2>2 DEF Fits
  <2>4. g[k] = f[k]
    BY <1>1
  <2>5. Total(t) = g[k]
    <3> HIDE DEF g
    <3> QED BY <2>3, <1>0, TotalFits
  <2> QED BY <2>4, <2>5
<1>6. ASSUME k < n
      PROVE  f[k] < f[n]
  <2> DEFINE T == {j \in Nat : k + j + 1 <= n => f[k] < f[k + j + 1]}
  <2>1. \A j \in 0 .. n : f[j] \in Nat
    BY <1>2
  <2>2. ASSUME NEW j \in Nat, k + j + 1 <= n
        PROVE  /\ f[k + j + 1] > f[k + j]
    <3>1. k + j + 1 \in 1 .. n /\ (k + j + 1) - 1 = k + j /\ k + j \in 0 .. n
      BY <1>1, <2>2
    <3>2. f[k + j + 1] = f[k + j] + sizes[k + j + 1]
      BY <1>3, <3>1
    <3>3. sizes[k + j + 1] \in Nat /\ sizes[k + j + 1] # 0 /\ f[k + j] \in Nat
      BY <1>1, <2>1, <3>1
    <3> QED BY <3>2, <3>3
  <2>3. 0 \in T
    <3>1. k + 0 = k
      BY <1>1
    <3>2. k + 0 + 1 <= n => f[k + 0] < f[k + 0 + 1]
      <4>1. 0 \in Nat /\ k + 0 + 1 \in 0 .. n /\ k + 0 \in 0 .. n
        BY <1>1, <1>6
      <4> QED BY <2>1, <2>2, <4>1
    <3> QED BY <3>1, <3>2
  <2>4. ASSUME NEW j \in Nat, j \in T
        PROVE  j + 1 \in T
    <3> SUFFICES ASSUME k + (j + 1) + 1 <= n
                 PROVE  f[k] < f[k + (j + 1) + 1]
      OBVIOUS
    <3>1. /\ k + j + 1 <= n /\ k + (j + 1) = k + j + 1
          /\ k \in 0 .. n /\ k + j + 1 \in 0 .. n /\ k + (j + 1) + 1 \in 0 .. n
      BY <1>1
    <3>2. f[k] < f[k + j + 1]
      BY <2>4, <3>1
    <3>3. f[k + (j + 1) + 1] > f[k + (j + 1)]
      <4>1. j + 1 \in Nat
        OBVIOUS
      <4> HIDE DEF T
      <4> QED BY <2>2, <4>1
    <3> QED BY <2>1, <3>1, <3>2, <3>3
  <2>5. Nat \subseteq T
    <3> HIDE DEF T
    <3> QED BY <2>3, <2>4, Induction
  <2>6. n - k - 1 \in Nat /\ k + (n - k - 1) + 1 = n
    BY <1>1, <1>6
  <2>7. n - k - 1 \in T
    BY <2>5, <2>6
  <2> QED BY <2>6, <2>7
<1>7. f[k] \in Nat /\ f[n] \in Nat
  BY <1>1, <1>2
<1> QED BY <1>0, <1>4, <1>5, <1>6, <1>7

\* The handler of a device compares with the sum of the chunks of a message: it
\* finds that all are there with the last one, and not before.
LEMMA SizeDecides ==
    ASSUME NEW parts, NEW log, Tidy(parts, log), NEW a \in Arrival,
           IsChunk(a.msg, Expected(parts, log))
    PROVE  /\ a.msg.total = 0 => Chunks(Len(log) + 1) = 1
           /\ a.msg.total # 0 =>
                ( TooShort(Append(parts, a), a.msg)
                  <=> Len(parts) + 1 < Chunks(Len(log) + 1) )
<1> DEFINE i == Len(log) + 1
           more == Append(parts, a)
           t == [k \in 1 .. Len(more) |-> more[k].msg.size]
<1>1. parts \in Seq(Arrival) /\ log \in Seq(Seq(Arrival))
  BY DEF Tidy
<1>2. /\ Len(parts) \in Nat /\ Len(log) \in Nat
      /\ more \in Seq(Arrival) /\ Len(more) = Len(parts) + 1
      /\ more[Len(parts) + 1] = a
      /\ \A k \in 1 .. Len(parts) : more[k] = parts[k]
  BY <1>1
<1>3. i \in DOMAIN Plan /\ Len(parts) + 1 \in 1 .. Chunks(i) /\ a.msg = ChunkOf(i, Len(parts) + 1)
  BY DEF IsChunk, Planned, Expected
<1>4. a.msg.total = Total(Plan[i]) /\ a.msg \in Message
  BY <1>3 DEF ChunkOf, Arrival
<1>5. /\ Plan[i] \in Seq(Nat \ {0}) /\ Plan[i] \in Seq(Nat)
      /\ Plan[i] = <<>> => Chunks(i) = 1
      /\ Plan[i] # <<>> => Chunks(i) = Len(Plan[i])
  BY <1>3, PlanFacts DEF Chunks
<1>6. CASE Plan[i] = <<>>
  <2>1. Total(Plan[i]) = 0
    BY <1>5, <1>6, TotalGrows
  <2> QED BY <1>4, <1>5, <1>6, <2>1
<1>7. CASE Plan[i] # <<>>
  <2>1. a.msg.total < Half /\ a.msg.total \in Int
    <3>1. a.msg.total \in Totals
      BY <1>4 DEF Message
    <3>2. \A x \in Totals : x \in Int /\ x < Half
      BY TotalsAssumption, HalfAssumption
    <3> QED BY <3>1, <3>2
  <2>2. \A k \in 1 .. Len(more) : t[k] = Plan[i][k]
    <3> SUFFICES ASSUME NEW k \in 1 .. Len(more)
                 PROVE  more[k].msg.size = Plan[i][k]
      OBVIOUS
    <3>1. CASE k = Len(more)
      BY <1>2, <1>3, <1>7, <3>1 DEF ChunkOf
    <3>2. CASE k # Len(more)
      <4>1. k \in 1 .. Len(parts)
        BY <1>2, <3>2
      <4>2. parts[k].msg = ChunkOf(i, k)
        BY <4>1 DEF Tidy, IsChunk
      <4> QED BY <1>2, <1>7, <4>1, <4>2 DEF ChunkOf
    <3> QED BY <3>1, <3>2
  <2>3. t \in Seq(Nat) /\ Len(t) = Len(parts) + 1 /\ Len(t) <= Len(Plan[i])
    <3>1. \A k \in 1 .. Len(more) : Plan[i][k] \in Nat
      BY <1>2, <1>3, <1>5, <1>7
    <3>2. \A k \in 1 .. Len(more) : more[k].msg.size \in Nat
      BY <2>2, <3>1
    <3>3. t \in Seq(Nat) /\ Len(t) = Len(more)
      BY <1>2, <3>2
    <3>4. Chunks(i) = Len(Plan[i]) /\ Len(more) <= Chunks(i)
      BY <1>2, <1>3, <1>5, <1>7
    <3> QED BY <1>2, <3>3, <3>4
  <2>4. \A j \in 1 .. Len(t) : t[j] = Plan[i][j]
    BY <1>2, <2>2, <2>3
  <2>5. /\ Total(t) \in Nat /\ Total(Plan[i]) \in Nat
        /\ Len(t) = Len(Plan[i]) => Total(t) = Total(Plan[i])
        /\ Len(t) < Len(Plan[i]) => Total(t) < Total(Plan[i])
    <3> HIDE DEF t
    <3> QED BY <1>5, <2>3, <2>4, PrefixTotal
  <2>6. Total(Plan[i]) # 0
    <3>1. \A j \in 1 .. Len(<<>>) : <<>>[j] = Plan[i][j]
      OBVIOUS
    <3>2. <<>> \in Seq(Nat) /\ Len(<<>>) = 0 /\ Len(<<>>) < Len(Plan[i])
      BY <1>5, <1>7
    <3>3. Total(<<>>) = 0
      BY <3>2, TotalGrows
    <3>4. Plan[i] \in Seq(Nat \ {0}) /\ Len(<<>>) <= Len(Plan[i])
      BY <1>5, <3>2
    <3>5. Total(<<>>) < Total(Plan[i])
      BY <3>1, <3>2, <3>4, PrefixTotal
    <3> QED BY <2>5, <3>3, <3>5
  <2>7. SizeOf(more) = Total(t)
    BY DEF SizeOf
  <2>8. Total(t) < Half
    <3>1. Len(t) \in Nat /\ Len(Plan[i]) \in Nat
      BY <1>5, <2>3
    <3>2. Total(t) <= Total(Plan[i])
      <4> HIDE DEF t
      <4> QED BY <2>3, <2>5, <3>1
    <3> HIDE DEF t
    <3> QED BY <1>4, <2>1, <2>5, <3>2, HalfAssumption
  <2>9. TooShort(more, a.msg) <=> Total(t) < a.msg.total
    <3> HIDE DEF t
    <3> QED BY <2>5, <2>7, <2>8, AsI32Small DEF TooShort
  <2>10. a.msg.total # 0
    BY <1>4, <2>6
  <2>11. Total(t) < a.msg.total <=> Len(parts) + 1 < Chunks(i)
    <3>1. Len(t) = Len(parts) + 1 /\ Chunks(i) = Len(Plan[i]) /\ Len(Plan[i]) \in Nat
      BY <1>5, <1>7, <2>3
    <3> HIDE DEF t
    <3> QED BY <1>2, <1>4, <2>3, <2>5, <3>1
  <2> QED BY <2>9, <2>10, <2>11
<1> QED BY <1>6, <1>7

\* One more chunk is in the buffer.
LEMMA TidyKeep ==
    ASSUME NEW parts, NEW log, Tidy(parts, log), NEW a \in Arrival,
           IsChunk(a.msg, Expected(parts, log))
    PROVE  /\ Tidy(Append(parts, a), log)
           /\ Len(parts) + 1 < Chunks(Len(log) + 1) =>
                Expected(Append(parts, a), log) = Behind(Expected(parts, log))
<1>1. parts \in Seq(Arrival)
  BY DEF Tidy
<1>2. /\ Append(parts, a) \in Seq(Arrival) /\ Len(parts) \in Nat
      /\ Len(Append(parts, a)) = Len(parts) + 1
      /\ Append(parts, a)[Len(parts) + 1] = a
      /\ \A k \in 1 .. Len(parts) : Append(parts, a)[k] = parts[k]
  BY <1>1
<1>3. ASSUME NEW k \in 1 .. Len(parts) + 1
      PROVE  IsChunk(Append(parts, a)[k].msg, <<Len(log) + 1, k>>)
  <2>1. CASE k = Len(parts) + 1
    BY <1>2, <2>1 DEF Expected
  <2>2. CASE k # Len(parts) + 1
    <3>1. k \in 1 .. Len(parts)
      BY <1>2, <2>2
    <3> QED BY <1>2, <3>1 DEF Tidy
  <2> QED BY <2>1, <2>2
<1>4. Len(parts) + 1 < Chunks(Len(log) + 1) =>
        Expected(Append(parts, a), log) = Behind(Expected(parts, log))
  BY <1>2 DEF Expected, Behind
<1> QED BY <1>2, <1>3, <1>4 DEF Tidy

\* The message is complete, and shown.
LEMMA TidyShow ==
    ASSUME NEW parts, NEW log, Tidy(parts, log), NEW a \in Arrival,
           IsChunk(a.msg, Expected(parts, log)),
           Len(parts) + 1 = Chunks(Len(log) + 1)
    PROVE  LET longer == Append(log, Append(parts, a))
           IN  /\ Tidy(<<>>, longer)
               /\ Expected(<<>>, longer) = Behind(Expected(parts, log))
               /\ Len(longer) = Len(log) + 1
<1> DEFINE whole  == Append(parts, a)
           longer == Append(log, whole)
           i == Len(log) + 1
<1>1. parts \in Seq(Arrival) /\ log \in Seq(Seq(Arrival))
  BY DEF Tidy
<1>2. /\ whole \in Seq(Arrival) /\ Len(parts) \in Nat
      /\ Len(whole) = Len(parts) + 1 /\ 1 \in 1 .. Len(whole)
  BY <1>1
<1>3. Tidy(whole, log)
  BY TidyKeep
<1>4. EntryMessage(whole) = i
  <2>1. \A k \in 1 .. Len(whole) : whole[k].msg.body = <<i, k>>
    BY <1>3 DEF Tidy, IsChunk
  <2>2. whole[1].msg.body[1] = i
    BY <1>2, <2>1
  <2> HIDE DEF whole, i
  <2>3. Len(whole) = Chunks(i)
    BY <1>2 DEF i
  <2> QED BY <2>1, <2>2, <2>3 DEF EntryMessage
<1> HIDE DEF whole
<1>5. /\ longer \in Seq(Seq(Arrival)) /\ Len(log) \in Nat /\ Len(longer) = Len(log) + 1
      /\ longer[Len(log) + 1] = whole
      /\ \A e \in 1 .. Len(log) : longer[e] = log[e]
  BY <1>1, <1>2
<1>6. \A e \in 1 .. Len(longer) : EntryMessage(longer[e]) = e
  <2> HIDE DEF longer
  <2> SUFFICES ASSUME NEW e \in 1 .. Len(longer)
               PROVE  EntryMessage(longer[e]) = e
    OBVIOUS
  <2>1. CASE e = Len(log) + 1
    BY <1>4, <1>5, <2>1
  <2>2. CASE e # Len(log) + 1
    <3>1. e \in 1 .. Len(log)
      BY <1>5, <2>2
    <3> QED BY <1>5, <3>1 DEF Tidy
  <2> QED BY <2>1, <2>2
<1>7. <<>> \in Seq(Arrival) /\ Len(<<>>) = 0
  OBVIOUS
<1>8. Tidy(<<>>, longer)
  BY <1>5, <1>6, <1>7 DEF Tidy
<1>9. Expected(<<>>, longer) = Behind(Expected(parts, log))
  <2>1. Expected(<<>>, longer) = <<i + 1, 1>>
    BY <1>5, <1>7 DEF Expected
  <2>2. Expected(parts, log)[2] = Chunks(i) /\ Expected(parts, log)[1] = i
    BY DEF Expected
  <2>3. ~ (Chunks(i) < Chunks(i))
    BY <1>2
  <2> QED BY <2>1, <2>2, <2>3 DEF Behind
<1> QED BY <1>5, <1>8, <1>9 DEF whole

-----------------------------------------------------------------------------
LEMMA FirstMessagesGrow ==
    ASSUME NEW n \in Nat
    PROVE  /\ Len(FirstMessages(n)) = n
           /\ Append(FirstMessages(n), n + 1) = FirstMessages(n + 1)
           /\ \A j \in 1 .. n : FirstMessages(n)[j] = j
           /\ FirstMessages(0) = <<>>
<1>1. FirstMessages(n) \in Seq(Nat) /\ Len(FirstMessages(n)) = n
      /\ FirstMessages(n + 1) \in Seq(Nat) /\ Len(FirstMessages(n + 1)) = n + 1
  BY DEF FirstMessages
<1>2. \A j \in 1 .. n + 1 : Append(FirstMessages(n), n + 1)[j] = FirstMessages(n + 1)[j]
  BY <1>1 DEF FirstMessages
<1>3. Append(FirstMessages(n), n + 1) \in Seq(Nat)
      /\ Len(Append(FirstMessages(n), n + 1)) = n + 1
  BY <1>1
<1>4. Append(FirstMessages(n), n + 1) = FirstMessages(n + 1)
  BY <1>1, <1>2, <1>3
<1>5. FirstMessages(0) = <<>>
  BY DEF FirstMessages
<1> QED BY <1>1, <1>4, <1>5 DEF FirstMessages

\* A connection that begins is in step.
LEMMA FreshInStep ==
    /\ Follows(<<1, 1>>, <<>>, <<>>, <<>>, <<>>)
    /\ Planned(<<1, 1>>) \/ <<1, 1>> = AllSent
<1>1. Len(<<>>) = 0 /\ <<>> \in Seq(Message) /\ <<>> \in Seq(Arrival)
      /\ <<>> \in Seq(Seq(Arrival))
  OBVIOUS
<1>2. Tidy(<<>>, <<>>) /\ Expected(<<>>, <<>>) = <<1, 1>>
  BY <1>1 DEF Tidy, Expected
<1>3. Planned(<<1, 1>>) \/ <<1, 1>> = AllSent
  <2>1. CASE Len(Plan) = 0
    BY <2>1 DEF AllSent
  <2>2. CASE Len(Plan) # 0
    <3>1. 1 \in DOMAIN Plan
      BY <2>2, PlanFacts
    <3> QED BY <3>1, PlanFacts DEF Planned
  <2> QED BY <2>1, <2>2
<1>4. Gapless(<<1, 1>>, <<>>, <<1, 1>>)
  BY <1>1, <1>3 DEF Gapless
<1>5. FirstMessages(1 - 1) = <<>>
  BY DEF FirstMessages
<1> QED BY <1>2, <1>3, <1>4, <1>5 DEF Follows

LEMMA FeedStarts == FeedInit => FeedInv
<1> SUFFICES ASSUME FeedInit PROVE FeedInv
  OBVIOUS
<1>1. PlacedInv
  BY PlacedInit DEF FeedInit
<1>2. \A d \in Devices : /\ place[d] = <<1, 1>> /\ wire[d] = <<>> /\ finished[d] = <<>>
                         /\ chunkData[d] = <<>> /\ shown[d] = <<>>
  BY DevicesAssumption DEF FeedInit, Init, Start, Nothing
<1>3. /\ place \in [Devices -> Nat \X Nat]
      /\ wire \in [Devices -> Seq(Message)]
      /\ finished \in [Devices -> Seq(DOMAIN Plan)]
  BY DEF FeedInit, Start, Nothing
<1>4. \A d \in Devices : InStep(d)
  BY <1>2, FreshInStep DEF InStep
<1>5. \A d \in Devices : Planned(place[d]) \/ place[d] = AllSent
  BY <1>2, FreshInStep
<1>6. performance_mode => \A d \in Devices : shown[d] = <<>>
  BY <1>2
<1> QED BY <1>1, <1>2, <1>3, <1>4, <1>5, <1>6 DEF FeedInv

\* The handler of a device takes one chunk: the message it is at is longer by
\* one chunk, or shown.
LEMMA ChunkTaken ==
    ASSUME FeedInv, ~ performance_mode, NEW d \in Devices, FeedReceive(d)
    PROVE  /\ InStep(d)'
           /\ \/ shown'[d] = shown[d]
              \/ /\ Len(shown'[d]) = Len(shown[d]) + 1
                 /\ Len(shown[d]) < place[d][1] - 1
<1> DEFINE parts == chunkData[d]
           log == shown[d]
           m == Head(wire[d])
           a == Arriving(d, m)
           i == Len(log) + 1
           next == Expected(parts, log)
<1>1. /\ wire[d] # <<>> /\ Receive(d, m) /\ wire'[d] = Tail(wire[d])
      /\ place'[d] = place[d] /\ finished'[d] = finished[d]
  BY DEF FeedReceive, FeedInv
<1>2. /\ Tidy(parts, log) /\ Gapless(place[d], wire[d], next)
      /\ finished[d] = FirstMessages(place[d][1] - 1)
      /\ place[d] \in Nat \X Nat
  BY DEF FeedInv, InStep, Follows
<1>3. /\ m \in Message /\ IsChunk(m, next) /\ Earlier(next, place[d])
      /\ Gapless(place[d], Tail(wire[d]), Behind(next))
  BY <1>1, <1>2, GaplessTake
<1>4. d \in Clients /\ TypeOK
  BY DevicesAssumption DEF FeedInv, PlacedInv
<1>5. a \in Arrival /\ a.msg = m
  BY <1>3, <1>4, ArrivingTyped
<1>6. /\ chunkData \in [Clients -> Seq(Arrival)]
      /\ shown \in [Clients -> Seq(Seq(Arrival))]
      /\ Len(parts) \in Nat /\ Len(log) \in Nat
  BY <1>4 DEF TypeOK
<1>7. next[1] = i /\ next[2] = Len(parts) + 1 /\ next[2] \in 1 .. Chunks(i) /\ Chunks(i) \in Nat
      /\ i \in DOMAIN Plan
  BY <1>3, PlanFacts DEF IsChunk, Planned, Expected
<1>8. CASE KeepChunk(d, m)
  <2>1. /\ chunkData'[d] = Append(parts, a) /\ shown'[d] = log
        /\ m.total # 0 /\ TooShort(Append(parts, a), m)
    BY <1>4, <1>6, <1>8 DEF KeepChunk, Combined
  <2>2. Len(parts) + 1 < Chunks(i)
    BY ZenonT(60), <1>2, <1>3, <1>5, <2>1, SizeDecides
  <2>3. Tidy(Append(parts, a), log) /\ Expected(Append(parts, a), log) = Behind(next)
    BY <1>2, <1>3, <1>5, <2>2, TidyKeep
  <2> QED BY <1>1, <1>2, <1>3, <2>1, <2>3 DEF InStep, Follows
<1>9. CASE ShowWhole(d, m) \/ ShowChunks(d, m)
  <2>1. /\ Len(parts) + 1 = Chunks(i)
        /\ chunkData'[d] = <<>> /\ shown'[d] = Append(log, Append(parts, a))
    <3>1. CASE ShowWhole(d, m)
      <4>1. m.total = 0 /\ chunkData'[d] = <<>> /\ shown'[d] = Append(log, <<a>>)
        BY <1>4, <1>6, <3>1 DEF ShowWhole, Show, Clear
      <4>2. Chunks(i) = 1
        BY <1>2, <1>3, <1>5, <4>1, SizeDecides
      <4>3. parts = <<>> /\ Len(parts) = 0
        BY <1>4, <1>6, <1>7, <4>2
      <4>4. Append(parts, a) = <<a>>
        BY <4>3
      <4> QED BY <4>1, <4>2, <4>3, <4>4
    <3>2. CASE ShowChunks(d, m)
      <4>1. /\ m.total # 0 /\ ~ TooShort(Append(parts, a), m)
            /\ chunkData'[d] = <<>> /\ shown'[d] = Append(log, Append(parts, a))
        BY <1>4, <1>6, <3>2 DEF ShowChunks, Show, Clear, Combined
      <4>2. ~ (Len(parts) + 1 < Chunks(i))
        BY <1>2, <1>3, <1>5, <4>1, SizeDecides
      <4> QED BY <1>6, <1>7, <4>1, <4>2
    <3> QED BY <1>9, <3>1, <3>2
  <2>2. /\ Tidy(<<>>, Append(log, Append(parts, a)))
        /\ Expected(<<>>, Append(log, Append(parts, a))) = Behind(next)
        /\ Len(Append(log, Append(parts, a))) = Len(log) + 1
    BY <1>2, <1>3, <1>5, <2>1, TidyShow
  <2>3. Len(log) < place[d][1] - 1
    <3>1. place[d][1] \in Nat /\ place[d][2] \in Nat
      BY <1>2
    <3>2. CASE place[d][1] = i
      <4>1. place[d] # AllSent
        BY <1>7, <3>2, PlanFacts DEF AllSent
      <4>2. place[d][2] <= Chunks(i)
        BY <1>2, <1>7, <3>2, <4>1 DEF Gapless, Planned
      <4> QED BY <1>3, <1>7, <2>1, <3>1, <3>2, <4>2 DEF Earlier
    <3>3. CASE place[d][1] # i
      BY <1>3, <1>6, <1>7, <3>1, <3>3 DEF Earlier
    <3> QED BY <3>2, <3>3
  <2> QED BY <1>1, <1>2, <1>3, <2>1, <2>2, <2>3 DEF InStep, Follows
<1>10. ~ CountOnly(d, m)
  BY DEF CountOnly
<1> QED BY <1>1, <1>8, <1>9, <1>10 DEF Receive

\* What one client's turn leaves alone.
LEMMA ReceiveElsewhere ==
    ASSUME TypeOK, NEW c \in Clients, NEW m \in Message, Receive(c, m)
    PROVE  /\ conn' = conn /\ performance_mode' = performance_mode
           /\ performance_mode => shown' = shown
           /\ \A d \in Clients \ {c} : chunkData'[d] = chunkData[d] /\ shown'[d] = shown[d]
<1>1. /\ chunkData \in [Clients -> Seq(Arrival)]
      /\ shown \in [Clients -> Seq(Seq(Arrival))]
  BY DEF TypeOK
<1>2. CASE CountOnly(c, m)
  BY <1>2 DEF CountOnly, Arrive
<1>3. CASE ShowWhole(c, m)
  BY <1>1, <1>3 DEF ShowWhole, Arrive, Show, Clear
<1>4. CASE KeepChunk(c, m)
  BY <1>1, <1>4 DEF KeepChunk, Arrive
<1>5. CASE ShowChunks(c, m)
  BY <1>1, <1>5 DEF ShowChunks, Arrive, Show, Clear
<1> QED BY <1>2, <1>3, <1>4, <1>5 DEF Receive

\* The clients of the feed are clients: every step is one of the service.
LEMMA FeedStepIsStep == FeedInv /\ [FeedNext]_feedVars => [Next]_vars
<1> SUFFICES ASSUME FeedInv, [FeedNext]_feedVars PROVE [Next]_vars
  OBVIOUS
<1>1. CASE \E c \in Clients : FeedConnect(c) \/ FeedDisconnect(c)
  BY <1>1 DEF FeedConnect, FeedDisconnect, Next
<1>2. ASSUME NEW d \in Devices, SendChunk(d)
      PROVE  UNCHANGED vars
  BY <1>2 DEF SendChunk
<1>3. ASSUME NEW d \in Devices, FeedReceive(d)
      PROVE  Next
  <2>1. wire[d] \in Seq(Message) /\ wire[d] # <<>>
    BY <1>3 DEF FeedInv, FeedReceive
  <2>2. Head(wire[d]) \in Message /\ d \in Clients
    BY <2>1, DevicesAssumption
  <2> QED BY <1>3, <2>2 DEF FeedReceive, Next
<1>4. ASSUME NEW c \in Clients \ Devices, WildReceive(c)
      PROVE  Next
  BY <1>4, WildAssumption DEF WildReceive, Next
<1>5. CASE UNCHANGED feedVars
  BY <1>5 DEF feedVars, vars
<1> QED BY <1>1, <1>2, <1>3, <1>4, <1>5 DEF FeedNext

\* A device that keeps what it has is in step as before.
LEMMA StaysInStep ==
    ASSUME NEW d, InStep(d),
           UNCHANGED <<place[d], wire[d], finished[d], chunkData[d], shown[d]>>
    PROVE  InStep(d)'
BY DEF InStep, Follows

LEMMA SendStep ==
    ASSUME FeedInv, NEW d \in Devices, SendChunk(d)
    PROVE  /\ Planned(place[d])
           /\ place' = [place EXCEPT ![d] = Behind(place[d])]
           /\ wire' = [wire EXCEPT ![d] = Append(@, ChunkOf(place[d][1], place[d][2]))]
           /\ ChunkOf(place[d][1], place[d][2]) \in Message
           /\ \/ Behind(place[d])[1] = place[d][1] /\ finished' = finished
              \/ /\ Behind(place[d])[1] = place[d][1] + 1
                 /\ finished' = [finished EXCEPT ![d] = Append(@, place[d][1])]
<1>1. Planned(place[d])
  <2>1. place[d][1] \in DOMAIN Plan
    BY DEF SendChunk
  <2>2. place[d] # AllSent
    BY <2>1, PlanFacts DEF AllSent
  <2> QED BY <2>2 DEF FeedInv
<1>2. /\ wire' = [wire EXCEPT ![d] = Append(@, ChunkOf(place[d][1], place[d][2]))]
      /\ ChunkOf(place[d][1], place[d][2]) \in Message
  BY <1>1, PlanAssumption DEF SendChunk, Planned
<1>3. place[d] \in Nat \X Nat
  BY DEF FeedInv
<1>4. CASE place[d][2] < Chunks(place[d][1])
  <2>1. Behind(place[d]) = <<place[d][1], place[d][2] + 1>>
    BY <1>4 DEF Behind
  <2> QED BY <1>1, <1>2, <1>4, <2>1 DEF SendChunk
<1>5. CASE ~ (place[d][2] < Chunks(place[d][1]))
  <2>1. Behind(place[d]) = <<place[d][1] + 1, 1>>
    BY <1>5 DEF Behind
  <2> QED BY <1>1, <1>2, <1>5, <2>1 DEF SendChunk
<1> QED BY <1>4, <1>5

LEMMA FeedInvSend ==
    ASSUME FeedInv, NEW d \in Devices, SendChunk(d), PlacedInv'
    PROVE  FeedInv'
<1> DEFINE at == place[d]
           m  == ChunkOf(at[1], at[2])
<1>1. /\ place \in [Devices -> Nat \X Nat] /\ wire \in [Devices -> Seq(Message)]
      /\ finished \in [Devices -> Seq(DOMAIN Plan)]
      /\ \A e \in Devices : Planned(place[e]) \/ place[e] = AllSent
  BY DEF FeedInv
<1>2. /\ Planned(at) /\ m \in Message
      /\ place' = [place EXCEPT ![d] = Behind(at)]
      /\ wire' = [wire EXCEPT ![d] = Append(@, m)]
      /\ \/ Behind(at)[1] = at[1] /\ finished' = finished
         \/ /\ Behind(at)[1] = at[1] + 1
            /\ finished' = [finished EXCEPT ![d] = Append(@, at[1])]
  BY SendStep
<1>3. Behind(at) \in Nat \X Nat /\ (Planned(Behind(at)) \/ Behind(at) = AllSent)
      /\ at[1] \in DOMAIN Plan /\ at[1] \in Nat \ {0}
  BY <1>2, BehindPlanned, PlanFacts DEF Planned
<1> HIDE DEF at, m
<1>4. /\ place' \in [Devices -> Nat \X Nat]
      /\ wire' \in [Devices -> Seq(Message)]
      /\ finished' \in [Devices -> Seq(DOMAIN Plan)]
      /\ \A e \in Devices : Planned(place'[e]) \/ place'[e] = AllSent
  <2>1. \A e \in Devices : Append(wire[e], m) \in Seq(Message)
    BY <1>1, <1>2
  <2>2. \A e \in Devices : Append(finished[e], at[1]) \in Seq(DOMAIN Plan)
    BY <1>1, <1>3
  <2> QED BY <1>1, <1>2, <1>3, <2>1, <2>2
<1>5. performance_mode' = performance_mode /\ shown' = shown /\ chunkData' = chunkData
  BY DEF SendChunk, vars
<1>6. ASSUME NEW e \in Devices, e # d
      PROVE  UNCHANGED <<place[e], wire[e], finished[e], chunkData[e], shown[e]>>
  BY <1>1, <1>2, <1>5, <1>6
<1>7. ASSUME ~ performance_mode
      PROVE  InStep(d)'
  <2>1. InStep(d)
    BY <1>7 DEF FeedInv
  <2>2. Gapless(Behind(at), Append(wire[d], m), Expected(chunkData[d], shown[d]))
    BY <1>2, <2>1, GaplessSend DEF InStep, Follows, at, m
  <2>3. finished[d] = FirstMessages(at[1] - 1)
    BY <2>1 DEF InStep, Follows, at
  <2>4. finished'[d] = FirstMessages(Behind(at)[1] - 1)
    <3>1. CASE Behind(at)[1] = at[1] /\ finished' = finished
      BY <2>3, <3>1
    <3>2. CASE /\ Behind(at)[1] = at[1] + 1
               /\ finished' = [finished EXCEPT ![d] = Append(@, at[1])]
      <4>1. at[1] - 1 \in Nat /\ (at[1] - 1) + 1 = at[1] /\ Behind(at)[1] - 1 = at[1]
        BY <1>3, <3>2
      <4>2. Append(FirstMessages(at[1] - 1), at[1]) = FirstMessages(at[1])
        BY <4>1, FirstMessagesGrow
      <4> QED BY <1>1, <2>3, <3>2, <4>1, <4>2
    <3> QED BY <1>2, <3>1, <3>2
  <2>5. place'[d] = Behind(at) /\ wire'[d] = Append(wire[d], m)
    BY <1>1, <1>2
  <2> QED BY <1>5, <2>1, <2>2, <2>4, <2>5 DEF InStep, Follows
<1>8. IF performance_mode' THEN \A e \in Devices : shown'[e] = <<>>
      ELSE \A e \in Devices : InStep(e)'
  <2>1. CASE performance_mode
    BY <1>5, <2>1 DEF FeedInv
  <2>2. CASE ~ performance_mode
    <3> SUFFICES ASSUME NEW e \in Devices PROVE InStep(e)'
      BY <1>5, <2>2
    <3>1. InStep(e)
      BY <2>2 DEF FeedInv
    <3> QED BY <1>6, <1>7, <2>2, <3>1, StaysInStep
  <2> QED BY <2>1, <2>2
<1> QED BY <1>4, <1>8 DEF FeedInv

LEMMA FeedInvConnect ==
    ASSUME FeedInv, NEW c \in Clients, FeedConnect(c), PlacedInv'
    PROVE  FeedInv'
<1>1. UNCHANGED <<performance_mode, chunkData, shown, place, wire, finished>>
  BY DEF FeedConnect, Connect
<1>2. \A d \in Devices : InStep(d) => InStep(d)'
  BY <1>1 DEF InStep, Follows
<1> QED BY <1>1, <1>2 DEF FeedInv

LEMMA FeedInvDisconnect ==
    ASSUME FeedInv, NEW c \in Clients, FeedDisconnect(c), PlacedInv'
    PROVE  FeedInv'
<1>1. /\ place \in [Devices -> Nat \X Nat] /\ wire \in [Devices -> Seq(Message)]
      /\ finished \in [Devices -> Seq(DOMAIN Plan)]
      /\ \A e \in Devices : Planned(place[e]) \/ place[e] = AllSent
      /\ \A e \in Devices : e \in Clients
      /\ TypeOK
  BY DevicesAssumption DEF FeedInv, PlacedInv
<1>2. /\ place' = [d \in Devices |-> IF d = c THEN <<1, 1>> ELSE place[d]]
      /\ wire' = [d \in Devices |-> IF d = c THEN <<>> ELSE wire[d]]
      /\ finished' = [d \in Devices |-> IF d = c THEN <<>> ELSE finished[d]]
      /\ chunkData' = [chunkData EXCEPT ![c] = <<>>]
      /\ shown' = [shown EXCEPT ![c] = <<>>]
      /\ performance_mode' = performance_mode
  BY DEF FeedDisconnect, Disconnect
<1>3. ASSUME NEW e \in Devices, e # c
      PROVE  UNCHANGED <<place[e], wire[e], finished[e], chunkData[e], shown[e]>>
  BY <1>1, <1>2, <1>3 DEF TypeOK
<1>4. ASSUME NEW e \in Devices, e = c
      PROVE  /\ place'[e] = <<1, 1>> /\ wire'[e] = <<>> /\ finished'[e] = <<>>
             /\ chunkData'[e] = <<>> /\ shown'[e] = <<>>
  BY <1>1, <1>2, <1>4 DEF TypeOK
<1>5. ASSUME NEW e \in Devices, e = c
      PROVE  InStep(e)'
  BY <1>4, <1>5, FreshInStep DEF InStep
<1>6. \A e \in Devices : Planned(place'[e]) \/ place'[e] = AllSent
  BY <1>1, <1>3, <1>4, FreshInStep
<1>7. IF performance_mode' THEN \A e \in Devices : shown'[e] = <<>>
      ELSE \A e \in Devices : InStep(e)'
  <2>1. CASE performance_mode
    BY <1>2, <1>3, <1>4, <2>1 DEF FeedInv
  <2>2. CASE ~ performance_mode
    <3> SUFFICES ASSUME NEW e \in Devices PROVE InStep(e)'
      BY <1>2, <2>2
    <3>1. InStep(e)
      BY <2>2 DEF FeedInv
    <3> QED BY <1>3, <1>5, <3>1, StaysInStep
  <2> QED BY <2>1, <2>2
<1>8. place' \in [Devices -> Nat \X Nat]
  BY <1>1, <1>2
<1>9. wire' \in [Devices -> Seq(Message)]
  BY <1>1, <1>2
<1>10. finished' \in [Devices -> Seq(DOMAIN Plan)]
  <2>1. \A S : finished \in [Devices -> Seq(S)] => finished' \in [Devices -> Seq(S)]
    BY <1>2
  <2> QED BY <1>1, <2>1
<1> QED BY <1>6, <1>7, <1>8, <1>9, <1>10 DEF FeedInv

LEMMA FeedInvReceive ==
    ASSUME FeedInv, NEW d \in Devices, FeedReceive(d), PlacedInv'
    PROVE  FeedInv'
<1>1. /\ wire \in [Devices -> Seq(Message)] /\ d \in Clients /\ TypeOK
      /\ wire[d] # <<>> /\ Receive(d, Head(wire[d]))
      /\ wire' = [wire EXCEPT ![d] = Tail(@)] /\ UNCHANGED <<place, finished>>
  BY DevicesAssumption DEF FeedInv, PlacedInv, FeedReceive
<1>2. Head(wire[d]) \in Message /\ Tail(wire[d]) \in Seq(Message)
  BY <1>1
<1>3. /\ performance_mode' = performance_mode
      /\ performance_mode => shown' = shown
      /\ \A e \in Clients \ {d} : chunkData'[e] = chunkData[e] /\ shown'[e] = shown[e]
  BY <1>1, <1>2, ReceiveElsewhere
<1>4. ASSUME NEW e \in Devices, e # d
      PROVE  UNCHANGED <<place[e], wire[e], finished[e], chunkData[e], shown[e]>>
  BY <1>1, <1>3, <1>4, DevicesAssumption
<1>5. IF performance_mode' THEN \A e \in Devices : shown'[e] = <<>>
      ELSE \A e \in Devices : InStep(e)'
  <2>1. CASE performance_mode
    BY <1>3, <2>1 DEF FeedInv
  <2>2. CASE ~ performance_mode
    <3> SUFFICES ASSUME NEW e \in Devices PROVE InStep(e)'
      BY <1>3, <2>2
    <3>1. InStep(e)
      BY <2>2 DEF FeedInv
    <3>2. InStep(d)'
      BY <2>2, ChunkTaken
    <3> QED BY <1>4, <3>1, <3>2, StaysInStep
  <2> QED BY <2>1, <2>2
<1>6. wire' \in [Devices -> Seq(Message)]
  BY <1>1, <1>2
<1> QED BY <1>1, <1>5, <1>6 DEF FeedInv

LEMMA FeedInvWild ==
    ASSUME FeedInv, NEW c \in Clients \ Devices, WildReceive(c), PlacedInv'
    PROVE  FeedInv'
<1>1. TypeOK /\ UNCHANGED <<place, wire, finished>> /\ c \in Clients
  BY DEF FeedInv, PlacedInv, WildReceive
<1>2. PICK m \in Message : Receive(c, m)
  BY WildAssumption DEF WildReceive
<1>3. /\ performance_mode' = performance_mode
      /\ \A d \in Devices : chunkData'[d] = chunkData[d] /\ shown'[d] = shown[d]
  BY <1>1, <1>2, ReceiveElsewhere, DevicesAssumption
<1>4. \A d \in Devices : InStep(d) => InStep(d)'
  BY <1>1, <1>3 DEF InStep
<1> QED BY <1>1, <1>3, <1>4 DEF FeedInv

LEMMA FeedInvNext == FeedInv /\ [FeedNext]_feedVars => FeedInv'
<1> SUFFICES ASSUME FeedInv, [FeedNext]_feedVars PROVE FeedInv'
  OBVIOUS
<1>1. PlacedInv'
  BY FeedStepIsStep, PlacedNext DEF FeedInv
<1>2. CASE UNCHANGED feedVars
  <2>1. \A d \in Devices : InStep(d) => InStep(d)'
    BY <1>2 DEF feedVars, InStep
  <2> QED BY <1>1, <1>2, <2>1 DEF feedVars, FeedInv
<1> QED BY <1>1, <1>2, FeedInvConnect, FeedInvDisconnect, FeedInvSend, FeedInvReceive,
           FeedInvWild DEF FeedNext

-----------------------------------------------------------------------------
\* What a device has finished and its handler has shown are the first messages
\* of the plan.
LEMMA Mapped ==
    ASSUME FeedInv, ~ performance_mode, NEW d \in Devices
    PROVE  /\ finished[d] = FirstMessages(place[d][1] - 1)
           /\ [e \in DOMAIN shown[d] |-> EntryMessage(shown[d][e])] = FirstMessages(Len(shown[d]))
           /\ Len(shown[d]) \in Nat
<1>2. Tidy(chunkData[d], shown[d]) /\ finished[d] = FirstMessages(place[d][1] - 1)
  BY DEF FeedInv, InStep, Follows
<1>3. /\ shown[d] \in Seq(Seq(Arrival))
      /\ \A e \in 1 .. Len(shown[d]) : EntryMessage(shown[d][e]) = e
  BY <1>2 DEF Tidy
<1>4. DOMAIN shown[d] = 1 .. Len(shown[d]) /\ Len(shown[d]) \in Nat
  BY <1>3
<1> QED BY <1>2, <1>3, <1>4 DEF FirstMessages

LEMMA MappedStart == FeedInit => Feed!Init
<1> SUFFICES ASSUME FeedInit PROVE Feed!Init
  OBVIOUS
<1>1. \A d \in Devices : conn[d] = "idle" /\ shown[d] = <<>>
  BY DevicesAssumption DEF FeedInit, Init
<1>2. [e \in DOMAIN <<>> |-> EntryMessage(<<>>[e])] = <<>>
  OBVIOUS
<1>3. [d \in Devices |-> conn[d] = "open"] = [d \in Devices |-> FALSE]
  BY <1>1
<1>4. [d \in Devices |-> [e \in DOMAIN shown[d] |-> EntryMessage(shown[d][e])]]
        = [d \in Devices |-> <<>>]
  BY <1>1, <1>2
<1>5. (IF performance_mode THEN Nothing ELSE finished) = [d \in Devices |-> <<>>]
  BY DEF FeedInit, Nothing
<1> QED BY <1>3, <1>4, <1>5 DEF Feed!Init

LEMMA MappedConnect ==
    ASSUME FeedInv, NEW c \in Clients, FeedConnect(c)
    PROVE  [Feed!Next]_(Feed!vars)
<1>1. /\ UNCHANGED <<performance_mode, shown, finished>>
      /\ conn[c] = "idle" /\ conn' = [conn EXCEPT ![c] = "open"]
      /\ conn \in [Clients -> {"idle", "open"}]
  BY DEF FeedConnect, Connect, FeedInv, PlacedInv, TypeOK
<1>2. CASE c \in Devices
  <2>1. Feed!Begin(c)
    BY <1>1, <1>2, DevicesAssumption DEF Feed!Begin
  <2> QED BY <1>2, <2>1 DEF Feed!Next
<1>3. CASE c \notin Devices
  BY <1>1, <1>3, DevicesAssumption DEF Feed!vars
<1> QED BY <1>2, <1>3

LEMMA MappedDisconnect ==
    ASSUME FeedInv, NEW c \in Clients, FeedDisconnect(c)
    PROVE  [Feed!Next]_(Feed!vars)
<1>1. /\ performance_mode' = performance_mode /\ conn[c] = "open"
      /\ conn' = [conn EXCEPT ![c] = "idle"] /\ shown' = [shown EXCEPT ![c] = <<>>]
      /\ finished' = [d \in Devices |-> IF d = c THEN <<>> ELSE finished[d]]
      /\ finished \in [Devices -> Seq(DOMAIN Plan)]
      /\ conn \in [Clients -> {"idle", "open"}]
      /\ shown \in [Clients -> Seq(Seq(Arrival))]
  BY DEF FeedDisconnect, Disconnect, FeedInv, PlacedInv, TypeOK
<1>2. [e \in DOMAIN <<>> |-> EntryMessage(<<>>[e])] = <<>>
  OBVIOUS
<1>3. CASE c \in Devices
  <2>1. Feed!End(c)
    <3>1. [d \in Devices |-> conn'[d] = "open"]
            = [[d \in Devices |-> conn[d] = "open"] EXCEPT ![c] = FALSE]
      BY <1>1, <1>3, DevicesAssumption
    <3>2. [d \in Devices |-> [e \in DOMAIN shown'[d] |-> EntryMessage(shown'[d][e])]]
            = [[d \in Devices |-> [e \in DOMAIN shown[d] |-> EntryMessage(shown[d][e])]]
                 EXCEPT ![c] = <<>>]
      <4>1. \A d \in Devices : shown'[d] = IF d = c THEN <<>> ELSE shown[d]
        BY <1>1, DevicesAssumption
      <4> QED BY <1>2, <1>3, <4>1
    <3>3. (IF performance_mode' THEN Nothing ELSE finished')
            = [(IF performance_mode THEN Nothing ELSE finished) EXCEPT ![c] = <<>>]
      BY <1>1, <1>3 DEF Nothing
    <3>4. [d \in Devices |-> conn[d] = "open"][c]
      BY <1>1, <1>3
    <3> QED BY <3>1, <3>2, <3>3, <3>4 DEF Feed!End, Nothing
  <2> QED BY <1>3, <2>1 DEF Feed!Next
<1>4. CASE c \notin Devices
  <2>1. \A d \in Devices : conn'[d] = conn[d] /\ shown'[d] = shown[d] /\ finished'[d] = finished[d]
    BY <1>1, <1>4, DevicesAssumption
  <2>2. finished' = finished
    BY <1>1, <2>1
  <2> QED BY <1>1, <2>1, <2>2 DEF Feed!vars, Nothing
<1> QED BY <1>3, <1>4

LEMMA MappedSend ==
    ASSUME FeedInv, NEW d \in Devices, SendChunk(d)
    PROVE  [Feed!Next]_(Feed!vars)
<1>1. /\ UNCHANGED <<performance_mode, conn, shown>> /\ conn[d] = "open"
  BY DEF SendChunk, vars
<1>2. CASE performance_mode
  BY <1>1, <1>2 DEF Feed!vars, Nothing
<1>3. CASE ~ performance_mode /\ finished' = finished
  BY <1>1, <1>3 DEF Feed!vars
<1>4. CASE ~ performance_mode /\ finished' = [finished EXCEPT ![d] = Append(@, place[d][1])]
  <2>1. place[d][1] \in DOMAIN Plan
    BY DEF SendChunk
  <2>2. [e \in Devices |-> conn[e] = "open"][d]
    BY <1>1
  <2>3. Feed!Finish(d, place[d][1])
    BY <1>1, <1>4, <2>2 DEF Feed!Finish
  <2> QED BY <2>1, <2>3 DEF Feed!Next
<1> QED BY <1>2, <1>3, <1>4, SendStep

LEMMA MappedReceive ==
    ASSUME FeedInv, NEW d \in Devices, FeedReceive(d)
    PROVE  [Feed!Next]_(Feed!vars)
<1>1. /\ wire[d] # <<>> /\ Receive(d, Head(wire[d]))
      /\ wire[d] \in Seq(Message) /\ UNCHANGED <<place, finished>>
      /\ d \in Clients /\ TypeOK
  BY DevicesAssumption DEF FeedInv, PlacedInv, FeedReceive
<1>2. Head(wire[d]) \in Message
  BY <1>1
<1>3. /\ conn' = conn /\ performance_mode' = performance_mode
      /\ performance_mode => shown' = shown
      /\ \A c \in Devices \ {d} : shown'[c] = shown[c]
  BY <1>1, <1>2, ReceiveElsewhere, DevicesAssumption
<1>4. conn[d] = "open"
  BY <1>1 DEF Receive, CountOnly, ShowWhole, KeepChunk, ShowChunks, Arrive
<1>5. CASE performance_mode
  BY <1>1, <1>3, <1>5 DEF Feed!vars, Nothing
<1>6. CASE ~ performance_mode /\ shown'[d] = shown[d]
  <2>1. \A c \in Devices : shown'[c] = shown[c]
    BY <1>3, <1>6
  <2> QED BY <1>1, <1>3, <1>6, <2>1 DEF Feed!vars
<1>7. CASE /\ ~ performance_mode
           /\ Len(shown'[d]) = Len(shown[d]) + 1
           /\ Len(shown[d]) < place[d][1] - 1
  <2> DEFINE old == [c \in Devices |-> [e \in DOMAIN shown[c] |-> EntryMessage(shown[c][e])]]
             new == [c \in Devices |-> [e \in DOMAIN shown'[c] |-> EntryMessage(shown'[c][e])]]
             n == Len(shown[d])
             last == place[d][1] - 1
  <2>1. /\ n \in Nat /\ old[d] = FirstMessages(n) /\ finished[d] = FirstMessages(last)
    BY <1>7, Mapped
  <2>2. new[d] = FirstMessages(n + 1)
    <3>1. InStep(d)'
      BY <1>7, ChunkTaken
    <3>2. /\ shown'[d] \in Seq(Seq(Arrival))
          /\ \A e \in 1 .. Len(shown'[d]) : EntryMessage(shown'[d][e]) = e
      BY <3>1 DEF InStep, Follows, Tidy
    <3>3. DOMAIN shown'[d] = 1 .. n + 1
      BY <1>7, <3>2
    <3> QED BY <1>7, <3>2, <3>3 DEF FirstMessages
  <2>3. last \in Nat /\ n < last /\ n + 1 \in 1 .. last
    <3>1. place[d][1] \in Nat
      BY DEF FeedInv
    <3> QED BY <1>7, <2>1, <3>1
  <2>4. \A c \in Devices \ {d} : new[c] = old[c]
    BY <1>3
  <2> HIDE DEF last, n
  <2>5. /\ Len(old[d]) = n /\ Len(finished[d]) = last /\ finished[d][n + 1] = n + 1
        /\ new[d] = Append(old[d], n + 1)
    BY <2>1, <2>2, <2>3, FirstMessagesGrow
  <2>6. new = [old EXCEPT ![d] = Append(@, finished[d][Len(@) + 1])]
    <3>1. DOMAIN new = Devices /\ DOMAIN old = Devices
      OBVIOUS
    <3>2. new[d] = Append(old[d], finished[d][Len(old[d]) + 1])
      BY <2>5
    <3>3. new = [c \in Devices |-> new[c]] /\ old = [c \in Devices |-> old[c]]
      OBVIOUS
    <3> HIDE DEF new, old
    <3> QED BY <2>4, <3>1, <3>2, <3>3
  <2>7. [c \in Devices |-> conn[c] = "open"][d]
    BY <1>4
  <2>8. Feed!Deliver(d)
    <3>1. Len(old[d]) < Len(finished[d])
      BY <2>3, <2>5
    <3> QED BY <1>1, <1>3, <1>7, <2>6, <2>7, <3>1 DEF Feed!Deliver
  <2> QED BY <2>8 DEF Feed!Next
<1> QED BY <1>5, <1>6, <1>7, ChunkTaken

LEMMA MappedWild ==
    ASSUME FeedInv, NEW c \in Clients \ Devices, WildReceive(c)
    PROVE  UNCHANGED Feed!vars
<1>1. TypeOK /\ UNCHANGED <<place, wire, finished>> /\ c \in Clients
  BY DEF FeedInv, PlacedInv, WildReceive
<1>2. PICK m \in Message : Receive(c, m)
  BY WildAssumption DEF WildReceive
<1>3. /\ conn' = conn /\ performance_mode' = performance_mode
      /\ \A d \in Devices : shown'[d] = shown[d]
  BY <1>1, <1>2, ReceiveElsewhere, DevicesAssumption
<1> QED BY <1>1, <1>3 DEF Feed!vars

\* Every client, device or not, that follows the feed is one of the service's:
\* what is proved of Spec holds of FeedSpec.
THEOREM FeedIsService == FeedSpec => Spec
<1>1. FeedInit => Init
  BY DEF FeedInit
<1> QED BY <1>1, FeedStarts, FeedInvNext, FeedStepIsStep, PTL DEF FeedSpec, Spec

\* For any plan, any number of devices and whatever other clients send: what a
\* device's handler shows are the messages the device has finished, whole, once
\* and in order.
THEOREM ShownAsFinished == FeedSpec => ImplementsMessageFeed
<1>1. FeedInv /\ [FeedNext]_feedVars => [Feed!Next]_(Feed!vars)
  <2> SUFFICES ASSUME FeedInv, [FeedNext]_feedVars PROVE [Feed!Next]_(Feed!vars)
    OBVIOUS
  <2>1. CASE UNCHANGED feedVars
    BY <2>1 DEF feedVars, Feed!vars
  <2> QED BY <2>1, MappedConnect, MappedDisconnect, MappedSend, MappedReceive, MappedWild
          DEF FeedNext
<1> QED BY <1>1, MappedStart, FeedStarts, FeedInvNext, PTL
        DEF FeedSpec, ImplementsMessageFeed, Feed!Steps

-----------------------------------------------------------------------------
(***************************************************************************)
(* GpbService: rows are decoded with the type their device has encoded.    *)
(***************************************************************************)
\* The index that a set of files should have.
Exact(fs) ==
    [name \in UNION {TopLevel[f] : f \in fs} |->
        <<CHOOSE f \in fs : name \in TopLevel[f], name>>]

Loaded == registry = "loaded" => index = Exact(Compiled(directory \cap Listed))

-----------------------------------------------------------------------------
\* No two files have a name in common, so the order of the pool is of no
\* consequence.
LEMMA PositionExact ==
    ASSUME NEW fs, NEW pool \in Pools(fs), NEW i \in DOMAIN pool,
           NEW name \in TopLevel[pool[i]]
    PROVE  Position(pool, name) = i
<1>1. pool \in [1 .. Cardinality(Compiled(fs)) -> Compiled(fs)]
    BY DEF Pools, SetToSeqs
<1>2. \A j, k \in DOMAIN pool : j # k => pool[j] # pool[k]
    BY <1>1 DEF Pools, SetToSeqs
<1>3. \A j \in DOMAIN pool : pool[j] \in Files
    BY <1>1 DEF Compiled
<1>4. \A j \in DOMAIN pool : name \in TopLevel[pool[j]] => j = i
    BY <1>2, <1>3, NamesAssumption
<1>5. \A j \in DOMAIN pool : name \in TopLevel[pool[j]] => j <= i
    BY <1>1, <1>4
<1> QED
    BY <1>4, <1>5 DEF Position

LEMMA IndexExact ==
    ASSUME NEW fs, NEW pool \in Pools(fs)
    PROVE  Index(pool) = Exact(Compiled(fs))
<1>1. pool \in [1 .. Cardinality(Compiled(fs)) -> Compiled(fs)]
    BY DEF Pools, SetToSeqs
<1>2. \A f \in Compiled(fs) : \E i \in DOMAIN pool : pool[i] = f
    BY DEF Pools
<1>3. UNION {TopLevel[pool[i]] : i \in DOMAIN pool}
        = UNION {TopLevel[f] : f \in Compiled(fs)}
    BY <1>1, <1>2
<1>4. ASSUME NEW name \in UNION {TopLevel[pool[i]] : i \in DOMAIN pool}
      PROVE  pool[Position(pool, name)] = CHOOSE f \in Compiled(fs) : name \in TopLevel[f]
    <2>1. PICK i \in DOMAIN pool : name \in TopLevel[pool[i]]
        OBVIOUS
    <2>2. Position(pool, name) = i
        BY <2>1, PositionExact
    <2>3. pool[i] \in Compiled(fs)
        BY <1>1
    <2>4. \A f \in Compiled(fs) : name \in TopLevel[f] => f = pool[i]
        BY <2>1, <2>3, NamesAssumption DEF Compiled
    <2> QED
        BY <2>1, <2>2, <2>3, <2>4
<1> QED
    BY <1>3, <1>4, Zenon DEF Index, Exact

LEMMA LoadedInductive == Loaded /\ [ServiceNext]_serviceVars => Loaded'
<1> SUFFICES ASSUME Loaded, [ServiceNext]_serviceVars PROVE Loaded'
    OBVIOUS
<1>1. CASE Load(directory) /\ UNCHANGED directory
    <2>1. PICK pool \in Pools(directory \cap Listed) : index' = Index(pool)
        BY <1>1 DEF Load
    <2>2. index' = Exact(Compiled(directory \cap Listed))
        BY <2>1, IndexExact
    <2> QED
        BY <1>1, <2>2 DEF Loaded
<1>2. CASE LoadFails /\ UNCHANGED directory
    BY <1>2 DEF LoadFails, Loaded
<1>3. CASE UNCHANGED <<registryVars, directory>>
    BY <1>3 DEF Loaded, registryVars
<1> QED
    BY <1>1, <1>2, <1>3 DEF ServiceNext, ServiceLoad, Serve, serviceVars

-----------------------------------------------------------------------------
\* The look-up finds the type a path names, or nothing.
LEMMA FindExact ==
    ASSUME NEW path, NEW f \in Files, NEW name \in TopLevel[f], NEW fs \in SUBSET Files,
           Names(path, name), index = Exact(fs)
    PROVE  Find(path) = IF f \in fs THEN <<f, name>> ELSE Missing
<1>1. name \in DOMAIN index <=> f \in fs
    BY NamesAssumption DEF Exact
<1>2. ASSUME f \in fs PROVE index[name] = <<f, name>>
    BY <1>2, NamesAssumption DEF Exact
<1>3. CASE Dashed[path[1]] = name /\ name # InSuitOam
    BY <1>1, <1>2, <1>3 DEF Find
<1>4. CASE /\ Dashed[path[1]] = InSuitOam /\ Len(path) > 1 /\ path[2] = name
           /\ \A g \in Files : InSuitOam \notin TopLevel[g]
    <2>1. InSuitOam \notin DOMAIN index
        BY <1>4 DEF Exact
    <2>2. Find(path) = Lookup(name)
        BY <1>4, <2>1 DEF Find
    <2> QED
        BY <1>1, <1>2, <2>2 DEF Lookup
<1> QED
    BY <1>3, <1>4 DEF Names

LEMMA TransExact ==
    ASSUME Loaded, registry = "loaded",
           NEW i \in DOMAIN Plan, Content[i].encoding = "gpb"
    PROVE  Trans(Content[i]) =
               IF Known(Content[i])
               THEN Shown("rows", Rows(Content[i].rows, Content[i].type))
               ELSE Shown("no module", <<>>)
<1> DEFINE t == Content[i]
           fs == Compiled(directory \cap Listed)
<1>1. /\ t.type[1] \in Files /\ t.type = <<t.type[1], t.type[2]>>
      /\ t.type[2] \in TopLevel[t.type[1]]
      /\ Names(t.path, t.type[2]) /\ Missing # t.type
    BY ContentAssumption
<1>2. fs \in SUBSET Files /\ index = Exact(fs)
    BY DEF Loaded, Compiled
<1>3. Find(t.path) = IF t.type[1] \in fs THEN t.type ELSE Missing
    <2> HIDE DEF t, fs
    <2>1. Find(t.path) = IF t.type[1] \in fs THEN <<t.type[1], t.type[2]>> ELSE Missing
        BY <1>1, <1>2, FindExact
    <2> QED
        BY <1>1, <2>1
<1>4. Trans(t) = TransContent(t)
    BY DEF Trans
<1> QED
    BY <1>1, <1>3, <1>4 DEF TransContent, Known

-----------------------------------------------------------------------------
\* Before the registry is loaded nothing is shown.
Served == registry # "loaded" => \A d \in Devices : shown[d] = <<>>

LEMMA ServedInductive == Served /\ [ServiceNext]_serviceVars => Served'
<1> SUFFICES ASSUME Served, [ServiceNext]_serviceVars PROVE Served'
    OBVIOUS
<1>1. CASE ServiceLoad
    BY <1>1 DEF ServiceLoad, Load, LoadFails, Served, feedVars
<1>2. CASE Serve
    BY <1>2 DEF Serve, Served, registryVars
<1>3. CASE UNCHANGED serviceVars
    BY <1>3 DEF Served, serviceVars, registryVars, feedVars
<1> QED
    BY <1>1, <1>2, <1>3 DEF ServiceNext

LEMMA ServiceStart == ServiceInit => Loaded /\ Served
    BY DevicesAssumption
    DEF ServiceInit, RegistryInit, FeedInit, Init, Loaded, Served

\* trans_gpb_content decodes rows with what find_module returns; whatever the
\* order in which read_dir lists the files, and whatever else they define,
\* that is the type the device has encoded, or none.
THEOREM RowsDecodedAsSent == ServiceSpec => []DecodedAsSent
<1>1. Loaded /\ Served => DecodedAsSent
    <2> SUFFICES ASSUME Loaded, Served, NEW d \in Devices, NEW e \in DOMAIN shown[d],
                        EntryMessage(shown[d][e]) \in DOMAIN Plan,
                        Content[EntryMessage(shown[d][e])].encoding = "gpb"
                 PROVE  LET t == Content[EntryMessage(shown[d][e])]
                        IN  Trans(t) = IF Known(t) THEN Shown("rows", Rows(t.rows, t.type))
                                       ELSE Shown("no module", <<>>)
        BY DEF DecodedAsSent
    <2>1. registry = "loaded"
        BY DEF Served
    <2> QED
        BY <2>1, TransExact
<1>2. Loaded /\ Served /\ [ServiceNext]_serviceVars => Loaded' /\ Served'
    BY LoadedInductive, ServedInductive
<1> QED
    BY <1>1, <1>2, ServiceStart, PTL DEF ServiceSpec

\* The service behind its registry is the service that the clients feed: what
\* is proved of FeedSpec and of Spec holds of it.
THEOREM ServiceIsFed == ServiceSpec => FeedSpec
<1>1. ServiceInit => FeedInit
    BY DEF ServiceInit
<1>2. [ServiceNext]_serviceVars => [FeedNext]_feedVars
    BY DEF ServiceNext, ServiceLoad, Serve, serviceVars
<1> QED BY <1>1, <1>2, PTL DEF ServiceSpec, FeedSpec

=============================================================================
