-------------------------- MODULE HealthMonitorProofs --------------------------
(* Proofs about HealthMonitor, for any capacity of the rings, any bounds   *)
(* and buckets of the histogram, and any number of errors and samples.     *)
EXTENDS HealthMonitor, SequenceTheorems, FiniteSetTheorems, WellFoundedInduction, TLAPS

(* A nonempty set of naturals has a least element, and Min is it. *)
LEMMA LeastExists ==
    ASSUME NEW S, S \subseteq Nat, S # {}
    PROVE  Min(S) \in S /\ \A n \in S : Min(S) =< n
  <1> DEFINE R == {ss \in Nat \X Nat : ss[1] < ss[2]}
  <1>1. IsWellFoundedOn(R, Nat)
    BY NatLessThanWellFounded DEF OpToRel
  <1>2. PICK m \in S : \A n \in S : ~(<<n, m>> \in R)
    <2> HIDE DEF R
    <2> QED BY <1>1, WFMin, Zenon
  <1>3. ASSUME NEW n \in S PROVE m =< n
    <2>1. n \in Nat /\ m \in Nat /\ ~(n < m)
      BY <1>2, Zenon
    <2> QED
      BY <2>1
  <1> QED
    BY <1>3, Zenon DEF Min

LEMMA MaxOfTwo ==
    ASSUME NEW a \in Int, NEW b \in Int
    PROVE  Max({a, b}) = IF a >= b THEN a ELSE b
  <1> DEFINE m == IF a >= b THEN a ELSE b
  <1>1. m \in {a, b} /\ \A y \in {a, b} : m >= y
    OBVIOUS
  <1>2. ASSUME NEW x \in {a, b}, \A y \in {a, b} : x >= y PROVE x = m
    BY <1>2
  <1> HIDE DEF m
  <1>3. Max({a, b}) = m
    BY <1>1, <1>2 DEF Max
  <1> QED
    BY <1>3 DEF m

LEMMA MinOfTwo ==
    ASSUME NEW a \in Int, NEW b \in Int
    PROVE  Min({a, b}) = IF a =< b THEN a ELSE b
  <1> DEFINE m == IF a =< b THEN a ELSE b
  <1>1. m \in {a, b} /\ \A y \in {a, b} : m =< y
    OBVIOUS
  <1>2. ASSUME NEW x \in {a, b}, \A y \in {a, b} : x =< y PROVE x = m
    BY <1>2
  <1> HIDE DEF m
  <1>3. Min({a, b}) = m
    BY <1>1, <1>2 DEF Min
  <1> QED
    BY <1>3 DEF m

-----------------------------------------------------------------------------
(* The rings *)

(* What Latest returns, element by element *)
LEMMA LatestIs ==
    ASSUME NEW log \in Seq(Errors)
    PROVE  LET n == IF Len(log) =< MaxRecent THEN Len(log) ELSE MaxRecent
           IN  /\ Latest(log) \in Seq(Errors) /\ Len(Latest(log)) = n
               /\ \A i \in 1 .. n : Latest(log)[i] = log[Len(log) - n + i]
  <1> DEFINE n == IF Len(log) =< MaxRecent THEN Len(log) ELSE MaxRecent
             m == Max({1, Len(log) - MaxRecent + 1})
  <1>1. MaxRecent \in Nat /\ Len(log) \in Nat
    BY MonitorAssumption
  <1>2. m = Len(log) - n + 1 /\ n \in Nat /\ n =< Len(log)
    <2>1. m = IF 1 >= Len(log) - MaxRecent + 1 THEN 1 ELSE Len(log) - MaxRecent + 1
      BY <1>1, MaxOfTwo
    <2> HIDE DEF m
    <2> QED
      BY <1>1, <2>1
  <1> HIDE DEF m, n
  <1>3. m \in Int /\ \A i \in m .. Len(log) : log[i] \in Errors
    BY <1>1, <1>2
  <1>4. /\ SubSeq(log, m, Len(log)) \in Seq(Errors)
        /\ Len(SubSeq(log, m, Len(log))) = IF m =< Len(log) THEN Len(log) - m + 1 ELSE 0
        /\ \A i \in 1 .. Len(log) - m + 1 : SubSeq(log, m, Len(log))[i] = log[m + i - 1]
    BY <1>1, <1>3, SubSeqProperties
  <1>5. Latest(log) = SubSeq(log, m, Len(log))
    BY DEF Latest, m
  <1>6. Len(Latest(log)) = n
    BY <1>1, <1>2, <1>4, <1>5
  <1>7. ASSUME NEW i \in 1 .. n PROVE Latest(log)[i] = log[Len(log) - n + i]
    <2>1. i \in 1 .. Len(log) - m + 1 /\ m + i - 1 = Len(log) - n + i
      BY <1>1, <1>2
    <2> QED
      BY <1>4, <1>5, <2>1
  <1> QED
    BY <1>4, <1>5, <1>6, <1>7 DEF n

LEMMA LatestSize ==
    ASSUME NEW log \in Seq(Errors)
    PROVE  /\ Latest(log) \in Seq(Errors) /\ Len(Latest(log)) \in 0 .. MaxRecent
           /\ Len(Latest(log)) =< Len(log)
  <1>1. MaxRecent \in Nat /\ Len(log) \in Nat
    BY MonitorAssumption
  <1>2. Latest(log) \in Seq(Errors) /\ Len(Latest(log)) = IF Len(log) =< MaxRecent THEN Len(log) ELSE MaxRecent
    BY LatestIs
  <1> QED
    BY <1>1, <1>2

(* CircularBuffer::push keeps the latest of the history. *)
LEMMA PushKeepsLatest ==
    ASSUME NEW log \in Seq(Errors), NEW e \in Errors
    PROVE  Push(Latest(log), e) = Latest(Append(log, e))
  <1> DEFINE more == Append(log, e)
             n == IF Len(log) =< MaxRecent THEN Len(log) ELSE MaxRecent
             k == IF Len(more) =< MaxRecent THEN Len(more) ELSE MaxRecent
             new == Push(Latest(log), e)
  <1>1. MaxRecent \in Nat /\ Len(log) \in Nat
    BY MonitorAssumption
  <1>2. /\ more \in Seq(Errors) /\ Len(more) = Len(log) + 1 /\ more[Len(log) + 1] = e
        /\ \A i \in 1 .. Len(log) : more[i] = log[i]
    BY AppendProperties
  <1>3. /\ Latest(log) \in Seq(Errors) /\ Len(Latest(log)) = n
        /\ \A i \in 1 .. n : Latest(log)[i] = log[Len(log) - n + i]
    BY LatestIs
  <1> HIDE DEF more
  <1>4. /\ Latest(more) \in Seq(Errors) /\ Len(Latest(more)) = k
        /\ \A i \in 1 .. k : Latest(more)[i] = more[Len(more) - k + i]
    BY <1>2, LatestIs, Zenon
  <1>5. CASE MaxRecent = 0
    <2>1. new = Latest(log) /\ n = 0 /\ k = 0
      BY <1>1, <1>2, <1>5 DEF Push
    <2> QED
      BY <1>3, <1>4, <2>1, EmptySeq DEF more
  <1>6. CASE MaxRecent # 0
    <2> DEFINE kept == IF Len(Latest(log)) = MaxRecent THEN Tail(Latest(log)) ELSE Latest(log)
    <2>1. new = Append(kept, e)
      BY <1>6 DEF Push
    <2>2. kept \in Seq(Errors) /\ Len(kept) = k - 1
          /\ \A i \in 1 .. k - 1 : kept[i] = log[Len(log) + 1 - k + i]
      <3>1. CASE n = MaxRecent
        <4>1. Latest(log) # <<>> /\ k = MaxRecent /\ k \in Nat
          BY <1>1, <1>2, <1>3, <1>6, <3>1
        <4>2. /\ Tail(Latest(log)) \in Seq(Errors) /\ Len(Tail(Latest(log))) = k - 1
              /\ \A i \in 1 .. k - 1 : Tail(Latest(log))[i] = Latest(log)[i + 1]
          BY <1>3, <3>1, <4>1, HeadTailProperties
        <4> HIDE DEF n, k
        <4>3. \A i \in 1 .. k - 1 : Latest(log)[i + 1] = log[Len(log) + 1 - k + i]
          <5>1. SUFFICES ASSUME NEW i \in 1 .. k - 1
                         PROVE  Latest(log)[i + 1] = log[Len(log) + 1 - k + i]
            OBVIOUS
          <5>2. i + 1 \in 1 .. n /\ Len(log) - n + (i + 1) = Len(log) + 1 - k + i
            BY <1>1, <3>1, <4>1
          <5> QED
            BY <1>3, <5>2
        <4> QED
          BY <1>3, <3>1, <4>2, <4>3
      <3>2. CASE n # MaxRecent
        <4>1. n = Len(log) /\ k = Len(log) + 1
          BY <1>1, <1>2, <3>2
        <4>2. kept = Latest(log)
          BY <1>3, <3>2
        <4> HIDE DEF kept, n, k
        <4> QED
          BY <1>1, <1>3, <4>1, <4>2
      <3> QED
        BY <3>1, <3>2, Zenon
    <2> HIDE DEF kept
    <2>3. k \in Nat /\ k >= 1 /\ k =< Len(log) + 1
      BY <1>1, <1>2, <1>6
    <2> HIDE DEF k
    <2>4. /\ new \in Seq(Errors) /\ Len(new) = k /\ new[k] = e
          /\ \A i \in 1 .. k - 1 : new[i] = kept[i]
      <3>1. /\ Append(kept, e) \in Seq(Errors) /\ Len(Append(kept, e)) = Len(kept) + 1
            /\ Append(kept, e)[Len(kept) + 1] = e
            /\ \A i \in 1 .. Len(kept) : Append(kept, e)[i] = kept[i]
        BY <2>2, AppendProperties
      <3> QED
        BY <2>1, <2>2, <2>3, <3>1
    <2> HIDE DEF new
    <2>5. ASSUME NEW i \in 1 .. k PROVE new[i] = Latest(more)[i]
      <3>1. Latest(more)[i] = more[Len(log) + 1 - k + i]
        BY <1>2, <1>4
      <3>2. CASE i = k
        <4>1. Len(log) + 1 - k + i = Len(log) + 1
          BY <1>1, <2>3, <3>2
        <4> QED
          BY <1>2, <2>4, <3>1, <3>2, <4>1
      <3>3. CASE i # k
        <4>1. i \in 1 .. k - 1 /\ Len(log) + 1 - k + i \in 1 .. Len(log)
          BY <1>1, <2>3, <3>3
        <4> QED
          BY <1>2, <2>2, <2>4, <3>1, <4>1
      <3> QED
        BY <3>2, <3>3
    <2> QED
      BY <1>4, <2>4, <2>5, SeqEqual DEF more, new
  <1> QED
    BY <1>5, <1>6

-----------------------------------------------------------------------------
(* The percentiles *)

(* A larger value is in a bucket with no smaller top, and below its own. *)
LEMMA BucketTop ==
    ASSUME NEW a \in Nat, NEW b \in Nat, a =< b
    PROVE  LET top(v) == (v \div Width) * Width + Width - 1
           IN  top(a) \in Int /\ top(b) \in Int /\ a =< top(a) /\ top(a) =< top(b)
  <1> DEFINE w == Width
             q == a \div w
             r == b \div w
  <1>1. w \in Nat \ {0}
    BY MonitorAssumption
  <1> HIDE DEF w
  <1>2. /\ q \in Nat /\ r \in Nat
        /\ a = w * q + (a % w) /\ a % w \in 0 .. w - 1
        /\ b = w * r + (b % w) /\ b % w \in 0 .. w - 1
    BY <1>1
  <1> HIDE DEF q, r
  <1>3. q =< r
    <2> SUFFICES ASSUME r + 1 =< q PROVE FALSE
      BY <1>2
    <2>1. w * (r + 1) =< w * q
      BY <1>1, <1>2
    <2>2. w * (r + 1) = w * r + w
      BY <1>1, <1>2
    <2> QED
      BY <1>1, <1>2, <2>1, <2>2
  <1>4. w * q =< w * r /\ w * q = q * w /\ w * r = r * w /\ w * q \in Nat /\ w * r \in Nat
    BY <1>1, <1>2, <1>3
  <1>5. a =< q * w + w - 1
    BY <1>1, <1>2, <1>4
  <1> QED
    BY <1>1, <1>4, <1>5 DEF q, r, w

Reached(p) == {u \in MinRtt .. MaxRtt : CountUpTo(u) > 0 /\ 100 * CountUpTo(u) >= p * Samples}

(* With a sample there is a value of any percentile: at the upper bound of *)
(* the histogram all samples are counted.                                  *)
LEMMA RankIsReached ==
    ASSUME histogram \in Seq(MinRtt .. MaxRtt), Samples > 0, NEW p \in 0 .. 100
    PROVE  Reached(p) \subseteq Nat /\ MaxRtt \in Reached(p)
  <1>1. MinRtt \in Nat /\ MaxRtt \in Nat /\ MinRtt =< MaxRtt /\ Len(histogram) \in Nat
    BY MonitorAssumption
  <1>2. {i \in 1 .. Len(histogram) : histogram[i] =< MaxRtt} = 1 .. Len(histogram)
    <2>1. \A i \in 1 .. Len(histogram) : histogram[i] \in MinRtt .. MaxRtt
      BY ElementOfSeq, Zenon
    <2> QED
      BY <1>1, <2>1
  <1>3. CountUpTo(MaxRtt) = Samples
    <2> DEFINE n == Len(histogram)
    <2>1. 1 \in Int /\ n \in Int /\ n \in Nat
      BY <1>1
    <2>2. CountUpTo(MaxRtt) = Cardinality(1 .. n) /\ Samples = n
      BY <1>2, Zenon DEF CountUpTo, Samples
    <2> HIDE DEF n
    <2>3. Cardinality(1 .. n) = IF 1 > n THEN 0 ELSE n - 1 + 1
      BY <2>1, FS_Interval
    <2>4. Cardinality(1 .. n) = n
      BY <2>1, <2>3
    <2> QED
      BY <2>2, <2>4
  <1>4. p * Samples =< 100 * Samples
    BY <1>1 DEF Samples
  <1> QED
    BY <1>1, <1>3, <1>4 DEF Reached

LEMMA PercentilesOrdered ==
    ASSUME histogram \in Seq(MinRtt .. MaxRtt), Samples > 0
    PROVE  MinRtt =< Percentile(50) /\ Percentile(50) =< Percentile(99) /\ Percentile(99) =< MaxRtt
  <1>1. MinRtt \in Nat /\ MaxRtt \in Nat /\ MinRtt =< MaxRtt /\ Samples \in Nat
    BY MonitorAssumption DEF Samples
  <1>2. \A p \in {50, 99} : Reached(p) \subseteq Nat /\ MaxRtt \in Reached(p)
    <2>1. ASSUME NEW p \in 0 .. 100 PROVE Reached(p) \subseteq Nat /\ MaxRtt \in Reached(p)
      BY RankIsReached, Zenon
    <2>2. \A p \in {50, 99} : p \in 0 .. 100
      OBVIOUS
    <2> QED
      BY <2>1, <2>2, Zenon
  <1>3. \A p \in {50, 99} : Min(Reached(p)) \in Reached(p) /\ \A u \in Reached(p) : Min(Reached(p)) =< u
    BY <1>2, LeastExists
  <1>4. Reached(99) \subseteq Reached(50)
    <2>1. ASSUME NEW u \in Reached(99) PROVE u \in Reached(50)
      <3>1. CountUpTo(u) \in Nat
        <4>1. IsFiniteSet(1 .. Len(histogram))
          BY FS_Interval
        <4>2. IsFiniteSet({i \in 1 .. Len(histogram) : histogram[i] =< u})
          BY <4>1, FS_Subset
        <4> QED
          BY <4>2, FS_CardinalityType DEF CountUpTo
      <3> QED
        BY <1>1, <2>1, <3>1 DEF Reached
    <2> QED
      BY <2>1
  <1> DEFINE a == Min(Reached(50))
             b == Min(Reached(99))
  <1>5. a \in Nat /\ b \in Nat /\ MinRtt =< a /\ a =< b
    <2>1. a \in MinRtt .. MaxRtt /\ b \in MinRtt .. MaxRtt
      BY <1>3 DEF Reached
    <2>2. a =< b
      BY <1>3, <1>4
    <2> QED
      BY <1>1, <2>1, <2>2
  <1>6. /\ ValueAtPercentile(50) = (a \div Width) * Width + Width - 1
        /\ ValueAtPercentile(99) = (b \div Width) * Width + Width - 1
    BY DEF ValueAtPercentile, Reached
  <1> HIDE DEF a, b
  <1>7. /\ ValueAtPercentile(50) \in Int /\ ValueAtPercentile(99) \in Int
        /\ MinRtt =< ValueAtPercentile(50) /\ ValueAtPercentile(50) =< ValueAtPercentile(99)
    <2>1. /\ ValueAtPercentile(50) \in Int /\ ValueAtPercentile(99) \in Int
          /\ a =< ValueAtPercentile(50) /\ ValueAtPercentile(50) =< ValueAtPercentile(99)
      BY <1>5, <1>6, BucketTop
    <2> QED
      BY <1>1, <1>5, <2>1
  <1>8. \A p \in {50, 99} :
           Percentile(p) = IF ValueAtPercentile(p) =< MaxRtt THEN ValueAtPercentile(p) ELSE MaxRtt
    BY <1>1, <1>7, MinOfTwo DEF Percentile
  <1> QED
    BY <1>1, <1>7, <1>8

-----------------------------------------------------------------------------
(* The account of a connection *)

MonitorInv ==
    /\ MonitorTypeOK /\ RingsHoldLatest
    /\ Samples = rtts /\ clamped =< rtts

LEMMA LatestEmpty == Latest(<<>>) = <<>> /\ Len(<<>>) = 0
  <1>1. <<>> \in Seq(Errors) /\ Len(<<>>) = 0
    OBVIOUS
  <1>2. /\ Latest(<<>>) \in Seq(Errors) /\ Len(Latest(<<>>)) \in 0 .. MaxRecent
        /\ Len(Latest(<<>>)) =< Len(<<>>)
    BY <1>1, LatestSize, Zenon
  <1> QED
    BY <1>1, <1>2

LEMMA MonitorInit == Init => MonitorInv
  <1> SUFFICES ASSUME Init PROVE MonitorInv
    OBVIOUS
  <1>1. MonitorTypeOK /\ Samples = rtts /\ clamped =< rtts
    BY MonitorAssumption DEF Init, MonitorTypeOK, Samples
  <1> QED
    BY <1>1, LatestEmpty DEF Init, MonitorInv, RingsHoldLatest

(* One more error in one of the rings *)
LEMMA RingStep ==
    ASSUME NEW log \in Seq(Errors), NEW ring, ring = Latest(log), NEW e \in Errors,
           NEW other \in 0 .. MaxRecent, NEW n \in 0 .. MaxU64, Len(ring) + other =< n
    PROVE  /\ Push(ring, e) = Latest(Append(log, e)) /\ Push(ring, e) \in Seq(Errors)
           /\ Append(log, e) \in Seq(Errors)
           /\ Len(Push(ring, e)) + other =< SaturatingAdd(n, 1)
  <1>1. MaxRecent \in Nat /\ MaxU64 \in Nat /\ 2 * MaxRecent =< MaxU64 /\ Len(log) \in Nat
    BY MonitorAssumption
  <1>2. Append(log, e) \in Seq(Errors) /\ Len(Append(log, e)) = Len(log) + 1
    BY AppendProperties
  <1>3. Push(ring, e) = Latest(Append(log, e))
    BY PushKeepsLatest
  <1>4. /\ Len(ring) = IF Len(log) =< MaxRecent THEN Len(log) ELSE MaxRecent
    BY LatestIs
  <1> DEFINE more == Append(log, e)
  <1> HIDE DEF more
  <1>5. Latest(more) \in Seq(Errors) /\ Len(Latest(more)) = IF Len(more) =< MaxRecent THEN Len(more) ELSE MaxRecent
    BY <1>2, LatestIs, Zenon DEF more
  <1>6. Len(Latest(more)) \in Nat /\ Len(Latest(more)) =< Len(ring) + 1 /\ Len(Latest(more)) =< MaxRecent
    BY <1>1, <1>2, <1>4, <1>5 DEF more
  <1>7. Len(Latest(more)) + other =< SaturatingAdd(n, 1)
    BY <1>1, <1>4, <1>6 DEF SaturatingAdd
  <1> QED
    BY <1>2, <1>3, <1>5, <1>7 DEF more

LEMMA MonitorStep == MonitorInv /\ [Next]_vars => MonitorInv'
  <1> SUFFICES ASSUME MonitorInv, [Next]_vars PROVE MonitorInv'
    OBVIOUS
  <1>0. /\ MaxRecent \in Nat /\ MaxU64 \in Nat /\ MaxErrors \in Nat /\ MaxSamples \in Nat /\ MaxAge \in Nat
        /\ MinRtt \in Nat /\ MaxRtt \in Nat /\ MinRtt =< MaxRtt /\ Latencies \subseteq Nat
        /\ FrameCounts \subseteq Nat
    BY MonitorAssumption
  <1>1. /\ uptime \in 0 .. MaxAge /\ sinceMsg \in 0 .. uptime
        /\ messages \in 0 .. MaxU64 /\ errors \in 0 .. MaxU64 /\ clamped \in 0 .. MaxU64
        /\ serverErrors \in Seq(Errors) /\ internalErrors \in Seq(Errors)
        /\ serverLog \in Seq(Errors) /\ internalLog \in Seq(Errors)
        /\ histogram \in Seq(MinRtt .. MaxRtt) /\ rtts \in 0 .. MaxSamples
    BY DEF MonitorInv, MonitorTypeOK
  <1>2. Len(serverErrors) \in 0 .. MaxRecent /\ Len(internalErrors) \in 0 .. MaxRecent
    <2>1. ASSUME NEW log \in Seq(Errors) PROVE Len(Latest(log)) \in 0 .. MaxRecent
      BY LatestSize
    <2> QED
      BY <1>1, <2>1 DEF MonitorInv, RingsHoldLatest
  <1>3. \A k \in Nat : \A n \in 0 .. MaxU64 :
           SaturatingAdd(n, k) \in 0 .. MaxU64 /\ n =< SaturatingAdd(n, k) /\ SaturatingAdd(n, k) =< n + k
    BY <1>0 DEF SaturatingAdd
  <1>4. CASE ResetConnection
    <2>1. Init'
      BY <1>4 DEF ResetConnection, Init
    <2>2. MonitorTypeOK' /\ Samples' = rtts' /\ clamped' =< rtts'
      BY <1>0, <2>1 DEF Init, MonitorTypeOK, Samples
    <2>3. RingsHoldLatest'
      BY <2>1, LatestEmpty DEF Init, RingsHoldLatest
    <2> QED
      BY <2>2, <2>3 DEF MonitorInv
  <1>5. CASE RecordError
    <2>1. errors' \in 0 .. MaxU64 /\ errors =< errors'
      BY <1>1, <1>3, <1>5 DEF RecordError
    <2>2. Len(serverErrors) + Len(internalErrors) =< errors'
      BY <1>0, <1>1, <1>2, <2>1 DEF MonitorInv, RingsHoldLatest
    <2> QED
      BY <1>1, <1>5, <2>1, <2>2 DEF RecordError, MonitorInv, MonitorTypeOK, RingsHoldLatest, Samples
  <1>6. CASE ClearErrorBuffers
    BY <1>1, <1>6, LatestEmpty
    DEF ClearErrorBuffers, MonitorInv, MonitorTypeOK, RingsHoldLatest, Samples
  <1>7. CASE TimePasses
    BY <1>0, <1>1, <1>7 DEF TimePasses, MonitorInv, MonitorTypeOK, RingsHoldLatest, Samples
  <1>8. ASSUME NEW frames \in FrameCounts, RecordInboundFrames(frames) PROVE MonitorInv'
    BY <1>0, <1>1, <1>3, <1>8
    DEF RecordInboundFrames, MonitorInv, MonitorTypeOK, RingsHoldLatest, Samples
  <1>9. ASSUME NEW e \in Errors, RecordServerError(e) PROVE MonitorInv'
    <2>1. /\ Push(serverErrors, e) = Latest(Append(serverLog, e)) /\ Push(serverErrors, e) \in Seq(Errors)
          /\ Append(serverLog, e) \in Seq(Errors)
          /\ Len(Push(serverErrors, e)) + Len(internalErrors) =< SaturatingAdd(errors, 1)
      BY <1>1, <1>2, RingStep, Zenon DEF MonitorInv, RingsHoldLatest
    <2>2. SaturatingAdd(errors, 1) \in 0 .. MaxU64
      BY <1>1, <1>3
    <2> QED
      BY <1>1, <1>9, <2>1, <2>2
      DEF RecordServerError, MonitorInv, MonitorTypeOK, RingsHoldLatest, Samples
  <1>10. ASSUME NEW e \in Errors, RecordInternalError(e) PROVE MonitorInv'
    <2>1. /\ Push(internalErrors, e) = Latest(Append(internalLog, e)) /\ Push(internalErrors, e) \in Seq(Errors)
          /\ Append(internalLog, e) \in Seq(Errors)
          /\ Len(Push(internalErrors, e)) + Len(serverErrors) =< SaturatingAdd(errors, 1)
      <3>1. Len(internalErrors) + Len(serverErrors) =< errors /\ internalErrors = Latest(internalLog)
        BY <1>1, <1>2 DEF MonitorInv, RingsHoldLatest
      <3> QED
        BY <1>1, <1>2, <3>1, RingStep, Zenon
    <2>2. SaturatingAdd(errors, 1) \in 0 .. MaxU64
      BY <1>1, <1>3
    <2> QED
      BY <1>1, <1>2, <1>10, <2>1, <2>2
      DEF RecordInternalError, MonitorInv, MonitorTypeOK, RingsHoldLatest, Samples
  <1>11. ASSUME NEW rtt \in Latencies, RecordRtt(rtt) PROVE MonitorInv'
    <2>1. Clamped(rtt) \in MinRtt .. MaxRtt
      BY <1>0 DEF Clamped
    <2>2. histogram' = Append(histogram, Clamped(rtt)) /\ rtts' = rtts + 1 /\ rtts < MaxSamples
      BY <1>11, <2>1 DEF RecordRtt, Recorded
    <2>3. histogram' \in Seq(MinRtt .. MaxRtt) /\ Len(histogram') = Len(histogram) + 1
      <3> DEFINE values == MinRtt .. MaxRtt
      <3> HIDE DEF values
      <3>1. histogram \in Seq(values) /\ Clamped(rtt) \in values
        BY <1>1, <2>1 DEF values
      <3>2. /\ Append(histogram, Clamped(rtt)) \in Seq(values)
            /\ Len(Append(histogram, Clamped(rtt))) = Len(histogram) + 1
        BY <3>1, AppendProperties
      <3> QED
        BY <2>2, <3>2 DEF values
    <2>4. clamped' \in 0 .. MaxU64 /\ clamped' =< clamped + 1
      <3>1. clamped' \in {SaturatingAdd(clamped, 1), clamped}
        BY <1>11 DEF RecordRtt
      <3>2. SaturatingAdd(clamped, 1) \in 0 .. MaxU64 /\ SaturatingAdd(clamped, 1) =< clamped + 1
        BY <1>1, <1>3
      <3> QED
        BY <1>0, <1>1, <3>1, <3>2
    <2>5. Samples' = rtts' /\ clamped' =< rtts' /\ rtts' \in 0 .. MaxSamples
      BY <1>0, <1>1, <2>2, <2>3, <2>4 DEF MonitorInv, Samples
    <2> QED
      BY <1>1, <1>11, <2>3, <2>4, <2>5
      DEF RecordRtt, MonitorInv, MonitorTypeOK, RingsHoldLatest
  <1>12. CASE UNCHANGED vars
    BY <1>12 DEF vars, MonitorInv, MonitorTypeOK, RingsHoldLatest, Samples
  <1> QED
    BY <1>4, <1>5, <1>6, <1>7, <1>8, <1>9, <1>10, <1>11, <1>12 DEF Next

(* Every variable of the monitor keeps its type. *)
THEOREM MonitorTypeCorrect == Spec => []MonitorTypeOK
  <1>1. MonitorInv => MonitorTypeOK
    BY DEF MonitorInv
  <1> QED
    BY <1>1, MonitorInit, MonitorStep, PTL DEF Spec

(* For any capacity, zero included, and any errors, each CircularBuffer    *)
(* holds the latest of its errors in order, all of them counted.           *)
THEOREM RingsAreLatest == Spec => []RingsHoldLatest
  <1>1. MonitorInv => RingsHoldLatest
    BY DEF MonitorInv
  <1> QED
    BY <1>1, MonitorInit, MonitorStep, PTL DEF Spec

(* For any bounds, buckets and round trips, record_rtt loses no sample and *)
(* get_stats reports ordered percentiles within the bounds.                *)
THEOREM StatsAreConsistent == Spec => []StatsConsistent
  <1>1. MonitorInv => StatsConsistent
    <2> SUFFICES ASSUME MonitorInv PROVE StatsConsistent
      OBVIOUS
    <2>1. Samples = rtts /\ clamped =< rtts /\ histogram \in Seq(MinRtt .. MaxRtt) /\ rtts \in Nat
      BY MonitorAssumption DEF MonitorInv, MonitorTypeOK
    <2>2. CASE rtts = 0
      BY <2>1, <2>2 DEF StatsConsistent, Percentile
    <2>3. CASE rtts # 0
      BY <2>1, <2>3, PercentilesOrdered DEF StatsConsistent
    <2> QED
      BY <2>2, <2>3
  <1> QED
    BY <1>1, MonitorInit, MonitorStep, PTL DEF Spec
================================================================================
