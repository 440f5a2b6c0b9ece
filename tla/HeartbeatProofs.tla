--------------------------- MODULE HeartbeatProofs ---------------------------
(***************************************************************************)
(* The timers of Heartbeat for every interval, timeout and delay with the  *)
(* margins the code states: a timeout of at least three intervals and      *)
(* frames that take at most one.  The backoff of the client for every      *)
(* base, cap and jitter.                                                   *)
(***************************************************************************)
EXTENDS Heartbeat, SequenceTheorems, FiniteSetTheorems, FunctionTheorems, TLAPS

Oldest(q) == q[1]
Served == phase = "session" /\ link = "up" /\ server = "reading"

\* On a tunnel that is served somebody owes an answer, and for how long is
\* bounded by the age of the oldest frame under way.
PongsFresh ==
    Served => /\ pongs # <<>> => sincePong <= Interval + MaxDelay + Oldest(pongs)
              /\ pongs = <<>> /\ pings # <<>> => sincePong <= Interval + Oldest(pings)
              /\ pongs = <<>> /\ pings = <<>> => sincePong <= sinceTick
PingsFresh ==
    Served => /\ pings # <<>> => idle <= Interval + Oldest(pings)
              /\ pings = <<>> => idle <= sinceTick

\* What the ages say of a link that was cut, and that a tick checks the pongs.
Checked == phase = "session" => sincePong <= Timeout + sinceTick
CutAge == /\ link = "up" => cutFor = 0
          /\ link = "cut" => /\ pings = <<>> /\ pongs = <<>>
                             /\ phase = "session" => cutFor <= sincePong
                             /\ server = "reading" => cutFor <= idle

IInv == TypeOK /\ PongsFresh /\ PingsFresh /\ Checked /\ CutAge

\* An older queue: as long, still of ages while it is in time, its head older.
LEMMA AgedQueue ==
    ASSUME DelayAssumption, NEW q \in Seq(0 .. MaxDelay), InTime(q)
    PROVE  /\ Aged(q) \in Seq(0 .. MaxDelay)
           /\ Aged(q) = <<>> <=> q = <<>>
           /\ q # <<>> => Oldest(Aged(q)) = Oldest(q) + 1
<1>1. DOMAIN q = 1 .. Len(q) /\ Len(q) \in Nat
  OBVIOUS
<1>2. \A i \in DOMAIN q : q[i] + 1 \in 0 .. MaxDelay
  BY DEF DelayAssumption, InTime
<1>3. Aged(q) \in Seq(0 .. MaxDelay) /\ Len(Aged(q)) = Len(q)
  BY <1>1, <1>2 DEF Aged
<1>4. Aged(q) = <<>> <=> q = <<>>
  BY <1>3
<1>5. ASSUME q # <<>> PROVE Oldest(Aged(q)) = Oldest(q) + 1
  BY <1>5, <1>1 DEF Aged, Oldest
<1>. QED BY <1>3, <1>4, <1>5

\* What a queue of ages gives and takes.
LEMMA QueueFacts ==
    ASSUME DelayAssumption, NEW q \in Seq(0 .. MaxDelay)
    PROVE  /\ Append(q, 0) \in Seq(0 .. MaxDelay) /\ Append(q, 0) # <<>>
           /\ Oldest(Append(q, 0)) = IF q = <<>> THEN 0 ELSE Oldest(q)
           /\ q # <<>> => Oldest(q) \in 0 .. MaxDelay /\ Tail(q) \in Seq(0 .. MaxDelay)
<1>1. 0 \in 0 .. MaxDelay
  BY DEF DelayAssumption
<1>2. /\ Append(q, 0) \in Seq(0 .. MaxDelay) /\ Len(Append(q, 0)) = Len(q) + 1
      /\ \A i \in 1 .. Len(q) : Append(q, 0)[i] = q[i]
      /\ Append(q, 0)[Len(q) + 1] = 0
  BY <1>1, AppendProperties
<1>3. Len(q) \in Nat /\ (q = <<>> <=> Len(q) = 0)
  BY EmptySeq
<1>4. Append(q, 0) # <<>>
  BY <1>2, <1>3
<1>5. CASE q = <<>>
  BY <1>2, <1>3, <1>4, <1>5 DEF Oldest
<1>6. CASE q # <<>>
  <2>1. Len(q) >= 1
    BY <1>3, <1>6
  <2>2. Oldest(q) \in 0 .. MaxDelay
    BY <2>1, <1>3, ElementOfSeq DEF Oldest
  <2>3. Tail(q) \in Seq(0 .. MaxDelay)
    BY <1>6, HeadTailProperties
  <2>. QED BY <1>2, <1>3, <1>4, <1>6, <2>1, <2>2, <2>3 DEF Oldest
<1>. QED BY <1>5, <1>6

\* The clocks as numbers, for the arithmetic below.
LEMMA Numbers ==
    ASSUME TypeOK
    PROVE  /\ sincePong \in Nat /\ idle \in Nat /\ sinceTick \in Nat
           /\ sinceTick <= Interval /\ Interval \in Nat \ {0} /\ MaxDelay \in Nat
           /\ MaxDelay <= Interval
           /\ pings # <<>> => Oldest(pings) \in 0 .. MaxDelay
           /\ pongs # <<>> => Oldest(pongs) \in 0 .. MaxDelay
<1>1. /\ sincePong \in Nat /\ idle \in Nat /\ sinceTick \in Nat
      /\ sinceTick <= Interval /\ Interval \in Nat \ {0} /\ MaxDelay \in Nat
      /\ MaxDelay <= Interval
  BY ClockAssumption, DelayAssumption DEF TypeOK, ClockAssumption, DelayAssumption
<1>2. /\ pings # <<>> => Oldest(pings) \in 0 .. MaxDelay
      /\ pongs # <<>> => Oldest(pongs) \in 0 .. MaxDelay
  BY QueueFacts, DelayAssumption DEF TypeOK
<1>. QED BY <1>1, <1>2

\* Nothing has waited at first.
LEMMA InitHolds == Init => IInv
BY ClockAssumption, DelayAssumption
   DEF Init, IInv, TypeOK, PongsFresh, PingsFresh, Checked, CutAge, Served

\* Leaving keeps the types of what it sets and empties the queues.
LEMMA LeavesTypes ==
    ASSUME TypeOK, Leaves
    PROVE  /\ phase' = "waiting" /\ backoff' \in BackoffMin .. BackoffMax
           /\ left' \in 0 .. BackoffMax + Jitter /\ quick' \in Nat
           /\ pings' = <<>> /\ pongs' = <<>>
           /\ UNCHANGED <<sinceTick, sincePong, attempt>>
<1>1. Reset \in BackoffMin .. BackoffMax
  BY ClockAssumption DEF TypeOK, Reset, ClockAssumption
<1>2. PICK j \in 0 .. Jitter : left' = Reset + j
  BY DEF Leaves
<1>3. left' \in 0 .. BackoffMax + Jitter
  BY <1>1, <1>2, ClockAssumption DEF ClockAssumption
<1>. QED BY <1>1, <1>3 DEF Leaves, TypeOK

\* A step that leaves the session and at most tells the server.
LEMMA LeaveHolds ==
    ASSUME IInv, Leaves, UNCHANGED <<link, cutFor, idle>>,
           server' = server \/ server' = "gone"
    PROVE  IInv'
BY LeavesTypes, EmptySeq, ClockAssumption
   DEF IInv, TypeOK, PongsFresh, PingsFresh, Checked, CutAge, Served, ClockAssumption

\* A new tunnel starts with both clocks at zero and nothing under way.
LEMMA ConnectedHolds == ASSUME IInv, Connected PROVE IInv'
BY EmptySeq, ClockAssumption, DelayAssumption, MarginAssumption
   DEF MarginAssumption, Connected, IInv, TypeOK, PongsFresh, PingsFresh, Checked, CutAge, Served,
       ClockAssumption, DelayAssumption, netVars, serverVars

\* A ping joins the queue at age 0; alone there, it is as old as the tick.
LEMMA BeatsHolds == ASSUME IInv, Beats PROVE IInv'
<1>1. /\ Sent(pings) \in Seq(0 .. MaxDelay)
      /\ link = "up" /\ server = "reading" =>
             /\ Sent(pings) # <<>>
             /\ Oldest(Sent(pings)) = IF pings = <<>> THEN 0 ELSE Oldest(pings)
      /\ link = "cut" => Sent(pings) = pings
  BY QueueFacts, DelayAssumption DEF Sent, IInv, TypeOK
<1>2. /\ pings' = Sent(pings)
      /\ UNCHANGED <<phase, sincePong, link, pongs, cutFor, server, idle>>
      /\ sinceTick' = 0 /\ sinceTick = Interval /\ sincePong <= Timeout
  BY ClockAssumption DEF Beats, Stale, IInv, TypeOK, serverVars, ClockAssumption
<1>3. TypeOK'
  <2>1. pings' \in Seq(0 .. MaxDelay) /\ sinceTick' \in 0 .. Interval
    BY <1>1, <1>2, ClockAssumption DEF IInv, TypeOK, ClockAssumption
  <2>. QED BY <2>1 DEF Beats, IInv, TypeOK, serverVars
<1>4. CutAge'
  BY <1>1, <1>2 DEF IInv, CutAge
<1>5. Checked'
  BY <1>2, ClockAssumption DEF IInv, TypeOK, Checked, ClockAssumption
<1>6. PongsFresh'
  <2>1. CASE pings = <<>>
    BY <2>1, <1>1, <1>2, Numbers DEF IInv, PongsFresh, Served
  <2>2. CASE pings # <<>>
    BY <2>2, <1>1, <1>2, Numbers DEF IInv, PongsFresh, Served
  <2>. QED BY <2>1, <2>2
<1>7. PingsFresh'
  <2>1. CASE pings = <<>>
    BY <2>1, <1>1, <1>2, Numbers DEF IInv, PingsFresh, Served
  <2>2. CASE pings # <<>>
    BY <2>2, <1>1, <1>2, Numbers DEF IInv, PingsFresh, Served
  <2>. QED BY <2>1, <2>2
<1>. QED BY <1>3, <1>4, <1>5, <1>6, <1>7 DEF IInv

\* The pong that answers the oldest ping is younger than it may be.
LEMMA PingArrivesHolds == ASSUME IInv, PingArrives PROVE IInv'
<1>1. /\ pings \in Seq(0 .. MaxDelay) /\ pings # <<>>
      /\ Oldest(pings) \in 0 .. MaxDelay /\ pings' \in Seq(0 .. MaxDelay)
      /\ pings' # <<>> => Oldest(pings') \in 0 .. MaxDelay
  <2>1. Oldest(pings) \in 0 .. MaxDelay /\ pings' \in Seq(0 .. MaxDelay)
    BY QueueFacts, DelayAssumption DEF PingArrives, IInv, TypeOK
  <2>. QED BY <2>1, QueueFacts, DelayAssumption DEF PingArrives, IInv, TypeOK
<1>2. /\ pongs' \in Seq(0 .. MaxDelay) /\ pongs' # <<>>
      /\ Oldest(pongs') = IF pongs = <<>> THEN 0 ELSE Oldest(pongs)
  BY QueueFacts, DelayAssumption DEF PingArrives, IInv, TypeOK
<1>3. /\ UNCHANGED <<phase, sinceTick, sincePong, link, cutFor, server>> /\ idle' = 0
      /\ link # "cut"
  BY <1>1 DEF PingArrives, clientVars, IInv, CutAge
<1>4. TypeOK'
  BY <1>1, <1>2, ClockAssumption DEF PingArrives, IInv, TypeOK, clientVars, ClockAssumption
<1>5. CutAge' /\ Checked'
  BY <1>3 DEF IInv, CutAge, Checked
<1>6. PongsFresh'
  BY <1>1, <1>2, <1>3, Numbers DEF IInv, PongsFresh, Served
<1>7. PingsFresh'
  BY <1>1, <1>3, Numbers DEF IInv, PingsFresh, Served
<1>. QED BY <1>4, <1>5, <1>6, <1>7 DEF IInv

\* The pong that arrives is the oldest under way.
LEMMA PongArrivesHolds == ASSUME IInv, PongArrives PROVE IInv'
<1>1. /\ pongs' \in Seq(0 .. MaxDelay)
      /\ pongs' # <<>> => Oldest(pongs') \in 0 .. MaxDelay
      /\ pings # <<>> => Oldest(pings) \in 0 .. MaxDelay
  <2>1. pongs' \in Seq(0 .. MaxDelay)
    BY QueueFacts, DelayAssumption DEF PongArrives, IInv, TypeOK
  <2>. QED BY <2>1, QueueFacts, DelayAssumption DEF IInv, TypeOK
<1>2. /\ UNCHANGED <<phase, sinceTick, link, cutFor, server, idle, pings>> /\ sincePong' = 0
      /\ link # "cut"
  BY DEF PongArrives, serverVars, IInv, CutAge
<1>3. TypeOK'
  BY <1>1 DEF PongArrives, IInv, TypeOK, serverVars
<1>4. CutAge' /\ Checked'
  BY <1>2, ClockAssumption DEF IInv, TypeOK, CutAge, Checked, ClockAssumption
<1>5. PongsFresh' /\ PingsFresh'
  BY <1>1, <1>2, Numbers DEF IInv, PongsFresh, PingsFresh, Served
<1>. QED BY <1>3, <1>4, <1>5 DEF IInv

\* The server's timer and the cut end what PongsFresh and PingsFresh speak of.
LEMMA IdleTimeoutHolds == ASSUME IInv, IdleTimeout PROVE IInv'
BY EmptySeq DEF IdleTimeout, IInv, TypeOK, PongsFresh, PingsFresh, Checked, CutAge, Served,
                clientVars

\* A link is cut while both ends have heard from it in time.
LEMMA IsCutHolds == ASSUME IInv, IsCut PROVE IInv'
BY EmptySeq, ClockAssumption, DelayAssumption
   DEF IsCut, IInv, TypeOK, PongsFresh, PingsFresh, Checked, CutAge, Served,
       clientVars, serverVars, ClockAssumption, DelayAssumption

\* The client dials again with every clock of the old tunnel reset.
LEMMA WakesUpHolds == ASSUME IInv, WakesUp PROVE IInv'
BY ClockAssumption
   DEF WakesUp, Doubled, IInv, TypeOK, PongsFresh, PingsFresh, Checked, CutAge, Served,
       netVars, serverVars, ClockAssumption

\* Time ages what a bound speaks of and what it is compared with alike.
LEMMA ElapseHolds == ASSUME IInv, Elapse PROVE IInv'
<1>1. /\ pings' = Aged(pings) /\ Aged(pings) \in Seq(0 .. MaxDelay)
      /\ Aged(pings) = <<>> <=> pings = <<>>
      /\ pings # <<>> => Oldest(Aged(pings)) = Oldest(pings) + 1
  BY AgedQueue, DelayAssumption DEF Elapse, IInv, TypeOK
<1>2. /\ pongs' = Aged(pongs) /\ Aged(pongs) \in Seq(0 .. MaxDelay)
      /\ Aged(pongs) = <<>> <=> pongs = <<>>
      /\ pongs # <<>> => Oldest(Aged(pongs)) = Oldest(pongs) + 1
  BY AgedQueue, DelayAssumption DEF Elapse, IInv, TypeOK
<1>3. TypeOK'
  BY <1>1, <1>2, ClockAssumption DEF Elapse, IInv, TypeOK, ClockAssumption
<1>4. Served' => /\ Served
                 /\ sincePong' = sincePong + 1 /\ sinceTick' = sinceTick + 1
                 /\ idle' = idle + 1
  BY DEF Elapse, Served
<1>5. PongsFresh'
  BY <1>1, <1>2, <1>4, Numbers, SMTT(40) DEF IInv, PongsFresh
<1>6. PingsFresh'
  BY <1>1, <1>4, Numbers DEF IInv, PingsFresh
<1>7. Checked' /\ CutAge'
  BY <1>1, <1>2, ClockAssumption DEF Elapse, IInv, TypeOK, Checked, CutAge, ClockAssumption
<1>. QED BY <1>3, <1>5, <1>6, <1>7 DEF IInv

\* Every step keeps the clocks in order.
LEMMA StepHolds == IInv /\ [Next]_vars => IInv'
<1>. SUFFICES ASSUME IInv, [Next]_vars PROVE IInv'
  OBVIOUS
<1>1. CASE AttemptFails
  BY <1>1, LeaveHolds DEF AttemptFails, serverVars
<1>2. CASE BeatsStale
  BY <1>2, LeaveHolds DEF BeatsStale, serverVars
<1>3. CASE ClientSeesEnd
  BY <1>3, LeaveHolds DEF ClientSeesEnd, serverVars
<1>4. CASE Breaks
  <2>1. CASE Leaves /\ UNCHANGED <<link, cutFor, serverVars>>
    BY <2>1, LeaveHolds DEF serverVars
  <2>2. CASE /\ server' = "gone" /\ pings' = <<>> /\ link = "up"
             /\ UNCHANGED <<clientVars, link, pongs, cutFor, idle>>
    BY <2>2, EmptySeq DEF clientVars, IInv, TypeOK, PongsFresh, PingsFresh, Checked, CutAge, Served
  <2>. QED BY <1>4, <2>1, <2>2 DEF Breaks
<1>5. CASE ServerSeesEnd
  BY <1>5 DEF ServerSeesEnd, IInv, TypeOK, PongsFresh, PingsFresh, Checked, CutAge, Served,
              clientVars, netVars
<1>6. CASE UNCHANGED vars
  BY <1>6 DEF vars, clientVars, netVars, serverVars, IInv, TypeOK, PongsFresh, PingsFresh,
              Checked, CutAge, Served
<1>. QED
  BY <1>1, <1>2, <1>3, <1>4, <1>5, <1>6, ConnectedHolds, BeatsHolds, PingArrivesHolds,
     PongArrivesHolds, IdleTimeoutHolds, IsCutHolds, WakesUpHolds, ElapseHolds DEF Next

\* The clocks are always as fresh as the frames that reset them.
THEOREM Invariance == Spec => []IInv
<1>1. Init => IInv
  BY InitHolds
<1>2. IInv /\ [Next]_vars => IInv'
  BY StepHolds
<1>. QED BY <1>1, <1>2, PTL DEF Spec

\* The heartbeat's state stays within its types.
THEOREM ClocksTyped == Spec => []TypeOK
<1>1. IInv => TypeOK
  BY DEF IInv
<1>. QED BY <1>1, Invariance, PTL

\* With a margin of three intervals and frames of at most one, neither end
\* ever gives up a live tunnel.
THEOREM NeverFalseAlarm == Spec => []NoFalseAlarm
<1>1. IInv => NoFalseAlarm
  <2>. SUFFICES ASSUME IInv, Served PROVE ~Stale /\ idle < ControlIdle
    BY DEF NoFalseAlarm, Served
  <2>2. sincePong <= 3 * Interval /\ idle <= 2 * Interval
    BY Numbers DEF IInv, PongsFresh, PingsFresh
  <2>. QED
    BY <2>2, ClockAssumption, MarginAssumption
       DEF IInv, TypeOK, Stale, ClockAssumption, MarginAssumption
<1>. QED BY <1>1, Invariance, PTL

\* A link that is cut is left within the timeout, by the client one interval
\* later at most.
THEOREM AlwaysLeftInTime == Spec => []LeftInTime
<1>1. IInv => LeftInTime
  BY ClockAssumption DEF IInv, TypeOK, Checked, CutAge, LeftInTime, ClockAssumption
<1>. QED BY <1>1, Invariance, PTL
-----------------------------------------------------------------------------
(* The backoff.                                                            *)

\* A power of two is the number of sets of so many numbers.
LEMMA PowerIsCount ==
    ASSUME NEW n \in Nat
    PROVE  /\ IsFiniteSet(SUBSET (1 .. n)) /\ Cardinality(SUBSET (1 .. n)) = 2 ^ n
           /\ 2 ^ n \in Nat
<1>1. IsFiniteSet(1 .. n) /\ Cardinality(1 .. n) = n
  BY FS_Interval
<1>2. IsFiniteSet(SUBSET (1 .. n)) /\ Cardinality(SUBSET (1 .. n)) = 2 ^ n
  BY <1>1, FS_SUBSET
<1>. QED BY <1>2, FS_CardinalityType

\* One set of no numbers.
LEMMA PowerOfZero == 2 ^ 0 = 1
<1>1. SUBSET (1 .. 0) = {{}}
  OBVIOUS
<1>. QED BY <1>1, PowerIsCount, FS_Singleton

\* With one number more there are as many sets that have it as sets that do not.
LEMMA PowerOfNext == ASSUME NEW n \in Nat PROVE 2 ^ (n + 1) = 2 * 2 ^ n
<1>. DEFINE Old == SUBSET (1 .. n)
            New == {s \in SUBSET (1 .. n + 1) : n + 1 \in s}
            f == [s \in Old |-> s \cup {n + 1}]
<1>1. /\ IsFiniteSet(Old) /\ Cardinality(Old) = 2 ^ n /\ 2 ^ n \in Nat
      /\ Cardinality(SUBSET (1 .. n + 1)) = 2 ^ (n + 1)
  BY PowerIsCount
<1>2. SUBSET (1 .. n + 1) = Old \cup New
  <2>1. \A s \in SUBSET (1 .. n + 1) : n + 1 \notin s => s \in Old
    OBVIOUS
  <2>. QED BY <2>1
<1>3. Old \cap New = {}
  OBVIOUS
<1>4. ExistsBijection(Old, New)
  <2>1. f \in [Old -> New]
    OBVIOUS
  <2>2. ASSUME NEW s \in Old, NEW t \in Old, f[s] = f[t] PROVE s = t
    <3>1. s = f[s] \ {n + 1} /\ t = f[t] \ {n + 1}
      OBVIOUS
    <3>. QED BY <2>2, <3>1
  <2>3. ASSUME NEW t \in New PROVE \E s \in Old : f[s] = t
    <3>1. t \ {n + 1} \in Old /\ (t \ {n + 1}) \cup {n + 1} = t
      OBVIOUS
    <3>2. f[t \ {n + 1}] = t
      BY <3>1
    <3>. QED BY <3>1, <3>2
  <2>4. f \in Bijection(Old, New)
    BY <2>1, <2>2, <2>3, Fun_IsBij
  <2>. QED BY <2>4 DEF ExistsBijection
<1>. HIDE DEF Old, New, f
<1>5. IsFiniteSet(New) /\ Cardinality(New) = 2 ^ n
  BY <1>1, <1>4, FS_Bijection
<1>6. Cardinality(Old \cup New) = Cardinality(Old) + Cardinality(New) - Cardinality({})
  BY <1>1, <1>3, <1>5, FS_Union
<1>7. 2 ^ (n + 1) = 2 ^ n + 2 ^ n - 0
  <2>1. Cardinality({}) = 0
    BY FS_EmptySet
  <2>. QED BY <1>1, <1>2, <1>5, <1>6, <2>1, Zenon
<1>8. \A k \in Nat : k + k - 0 = 2 * k
  OBVIOUS
<1>. QED BY <1>1, <1>7, <1>8, Zenon

\* The wait after so many failures in a row, x being the least wait doubled as often.
Wait(x) == IF x <= BackoffMax THEN x ELSE BackoffMax

\* Doubling the wait is the wait of the doubled number, and the longest stays.
LEMMA WaitDoubles ==
    ASSUME NEW x \in Nat \ {0}
    PROVE  IF Wait(x) = BackoffMax
           THEN Wait(2 * Wait(x)) = Wait(x)
           ELSE Wait(2 * Wait(x)) = Wait(2 * x)
BY ClockAssumption DEF Wait, ClockAssumption

\* The least wait, doubled as often as the client has failed.
LEMMA LeastDoubled ==
    ASSUME NEW n \in Nat
    PROVE  /\ BackoffMin * 2 ^ n \in Nat \ {0}
           /\ BackoffMin * 2 ^ (n + 1) = 2 * (BackoffMin * 2 ^ n)
<1>1. 2 ^ n \in Nat /\ 2 ^ (n + 1) = 2 * 2 ^ n
  BY PowerIsCount, PowerOfNext
<1>2. 2 ^ n # 0
  <2>1. {} \in SUBSET (1 .. n)
    OBVIOUS
  <2>. QED BY <2>1, PowerIsCount, FS_EmptySet
<1>3. BackoffMin \in Nat \ {0}
  BY ClockAssumption DEF ClockAssumption
<1>4. \A b, k \in Nat \ {0} : b * k \in Nat \ {0} /\ b * (2 * k) = 2 * (b * k)
  OBVIOUS
<1>. QED BY <1>1, <1>2, <1>3, <1>4

\* Every wait is the one the failures before it make it.
THEOREM BackoffAlwaysFollows == Spec => []BackoffFollowsFailures
<1>. DEFINE Follows(b, n) == b = Wait(BackoffMin * 2 ^ n)
<1>1. BackoffFollowsFailures <=> Follows(backoff, quick)
  BY DEF BackoffFollowsFailures, Wait
<1>2. Follows(BackoffMin, 0)
  <2>1. BackoffMin * 1 = BackoffMin /\ BackoffMin <= BackoffMax
    BY ClockAssumption DEF ClockAssumption
  <2>. QED BY <2>1, PowerOfZero DEF Wait
<1>3. ASSUME NEW n \in Nat, NEW b, Follows(b, n)
      PROVE  IF b = BackoffMax THEN Follows(Wait(2 * b), n) ELSE Follows(Wait(2 * b), n + 1)
  <2>. DEFINE x == BackoffMin * 2 ^ n
  <2>1. x \in Nat \ {0} /\ BackoffMin * 2 ^ (n + 1) = 2 * x
    BY LeastDoubled
  <2>2. b = Wait(x)
    BY <1>3
  <2>. HIDE DEF x
  <2>3. IF b = BackoffMax THEN Wait(2 * b) = b ELSE Wait(2 * b) = Wait(2 * x)
    BY <2>1, <2>2, WaitDoubles
  <2>. QED BY <1>3, <2>1, <2>3
<1>. HIDE DEF Follows
<1>4. Init => Follows(backoff, quick)
  BY <1>2 DEF Init
<1>5. IInv /\ Follows(backoff, quick) /\ [Next]_vars => Follows(backoff, quick)'
  <2>. SUFFICES ASSUME IInv, Follows(backoff, quick), [Next]_vars
                PROVE  Follows(backoff', quick')
    OBVIOUS
  <2>1. CASE Leaves
    BY <1>2, <2>1 DEF Leaves, Reset
  <2>2. CASE WakesUp
    <3>1. quick \in Nat /\ backoff' = Wait(2 * backoff)
      BY <2>2 DEF IInv, TypeOK, WakesUp, Doubled, Wait
    <3>. QED BY <1>3, <2>2, <3>1 DEF WakesUp
  <2>3. CASE UNCHANGED <<backoff, quick>>
    BY <2>3
  <2>. QED
    BY <2>1, <2>2, <2>3
    DEF Next, AttemptFails, Connected, Beats, BeatsStale, PingArrives, PongArrives, IdleTimeout,
        ServerSeesEnd, ClientSeesEnd, Breaks, IsCut, Elapse, vars, clientVars
<1>6. Follows(backoff, quick) => BackoffFollowsFailures
  BY <1>1
<1>. QED BY <1>4, <1>5, <1>6, Invariance, PTL DEF Spec
=============================================================================
