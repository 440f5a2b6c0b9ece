---------------------------- MODULE MetricsProofs ----------------------------
(***************************************************************************)
(* The traffic registry, its samples and their history, for every set of   *)
(* tunnels and proxies and every bound: what a sample is worth, and how    *)
(* often the history steps back.                                           *)
(***************************************************************************)
EXTENDS Metrics, FiniteSetTheorems, FunctionTheorems, SequenceTheorems, WellFoundedInduction, TLAPS

-----------------------------------------------------------------------------
(* Sums over sets.                                                         *)

\* A set of subsets of a finite set has one that has no other within it.
LEMMA SmallestSet ==
    ASSUME NEW D, IsFiniteSet(D), NEW C \in SUBSET (SUBSET D), C # {}
    PROVE  \E s \in C : \A t \in C : t \subseteq s => t = s
<1>1. /\ IsWellFoundedOn(StrictSubsetOrdering(D), FiniteSubsetsOf(D))
      /\ FiniteSubsetsOf(D) = SUBSET D
  BY FS_StrictSubsetOrderingWellFounded, FS_FiniteSubsetsOfFinite
<1>2. PICK s \in C : \A t \in C : ~(<<t, s>> \in StrictSubsetOrdering(D))
  BY <1>1, WFMin
<1>3. ASSUME NEW t \in C, t \subseteq s PROVE t = s
  BY <1>2, <1>3 DEF StrictSubsetOrdering
<1>. QED BY <1>3

\* A function that adds up b over the subsets of D.
Adds(g, b, D) ==
    /\ g \in [SUBSET D -> Nat] /\ g[{}] = 0
    /\ \A s \in SUBSET D : \A x \in D \ s : g[s \cup {x}] = b[x] + g[s]

\* The sum over a set, of any function of its elements.
SumOf(b, ps) == MapThenSumSet(LAMBDA p : b[p], ps)

\* It is what such a function says, whatever the order the elements are taken in.
LEMMA SumIsAdded ==
    ASSUME NEW b, NEW D, IsFiniteSet(D), NEW g, Adds(g, b, D)
    PROVE  SumOf(b, D) = g[D]
<1>. DEFINE Pick(s) == CHOOSE x \in s : TRUE
            Sums(f) == f = [s \in SUBSET D |-> IF s = {} THEN 0 ELSE b[Pick(s)] + f[s \ {Pick(s)}]]
            iter == CHOOSE f : Sums(f)
            Off == {s \in SUBSET D : iter[s] # g[s]}
<1>1. SumOf(b, D) = iter[D]
  BY DEF SumOf, MapThenSumSet, MapThenFoldSet
<1>2. \A s \in SUBSET D : s # {} => Pick(s) \in s
  OBVIOUS
<1>. HIDE DEF Pick
<1>3. ASSUME NEW s \in SUBSET D, s # {} PROVE g[s] = b[Pick(s)] + g[s \ {Pick(s)}]
  <2>1. Pick(s) \in s /\ (s \ {Pick(s)}) \cup {Pick(s)} = s
    BY <1>2, <1>3
  <2>2. s \ {Pick(s)} \in SUBSET D /\ Pick(s) \in D \ (s \ {Pick(s)})
    BY <2>1
  <2>. QED BY <2>1, <2>2 DEF Adds
<1>4. g = [s \in SUBSET D |-> IF s = {} THEN 0 ELSE b[Pick(s)] + g[s \ {Pick(s)}]]
  <2>. DEFINE h == [s \in SUBSET D |-> IF s = {} THEN 0 ELSE b[Pick(s)] + g[s \ {Pick(s)}]]
  <2>1. \A s \in SUBSET D : g[s] = h[s]
    BY <1>3 DEF Adds
  <2>2. g = [s \in SUBSET D |-> g[s]]
    BY DEF Adds
  <2>. QED BY <2>1, <2>2
<1>5. Sums(iter)
  <2>1. Sums(g)
    BY <1>4
  <2>. HIDE DEF Sums
  <2>. QED BY <2>1
<1>6. iter = [s \in SUBSET D |-> IF s = {} THEN 0 ELSE b[Pick(s)] + iter[s \ {Pick(s)}]]
  BY <1>5
<1>. HIDE DEF iter, Sums
<1>7. \A s \in SUBSET D : iter[s] = IF s = {} THEN 0 ELSE b[Pick(s)] + iter[s \ {Pick(s)}]
  BY <1>6
<1>8. Off = {}
  <2>1. SUFFICES ASSUME Off # {} PROVE FALSE
    OBVIOUS
  <2>2. PICK s \in Off : \A t \in Off : t \subseteq s => t = s
    <3>1. Off \in SUBSET (SUBSET D)
      OBVIOUS
    <3>. HIDE DEF Off
    <3>. QED BY <2>1, <3>1, SmallestSet
  <2>3. s # {}
    BY <2>2, <1>7 DEF Adds
  <2>4. s \ {Pick(s)} \in SUBSET D /\ s \ {Pick(s)} # s
    BY <2>2, <2>3, <1>2
  <2>5. s \ {Pick(s)} \notin Off
    BY <2>2, <2>4
  <2>6. iter[s \ {Pick(s)}] = g[s \ {Pick(s)}]
    BY <2>4, <2>5
  <2>. QED BY <2>2, <2>3, <2>6, <1>3, <1>7
<1>. QED BY <1>1, <1>8

\* There is such a function for every finite set of numbers.
LEMMA AddingExists ==
    ASSUME NEW b, NEW D, IsFiniteSet(D), \A x \in D : b[x] \in Nat
    PROVE  \E g : Adds(g, b, D)
<1>. DEFINE Without == {s \in SUBSET D : ~ \E g : Adds(g, b, s)}
<1>1. SUFFICES ASSUME Without # {} PROVE FALSE
  OBVIOUS
<1>2. PICK s \in Without : \A t \in Without : t \subseteq s => t = s
  <2>1. Without \in SUBSET (SUBSET D)
    OBVIOUS
  <2>. HIDE DEF Without
  <2>. QED BY <1>1, <2>1, SmallestSet
<1>3. s # {}
  <2>1. Adds([t \in SUBSET {} |-> 0], b, {})
    BY DEF Adds
  <2>. QED BY <2>1, <1>2
<1>4. PICK y \in s : TRUE
  BY <1>3
<1>. DEFINE r == s \ {y}
<1>5. PICK g : Adds(g, b, r)
  BY <1>2, <1>4
<1>. DEFINE h == [t \in SUBSET s |-> IF y \in t THEN b[y] + g[t \ {y}] ELSE g[t]]
<1>6. y \in D /\ s \subseteq D /\ b[y] \in Nat /\ \A x \in s : b[x] \in Nat
  BY <1>2, <1>4
<1>7. \A t \in SUBSET s : /\ t \ {y} \in SUBSET r
                          /\ y \notin t => t \in SUBSET r
  OBVIOUS
<1>8. g \in [SUBSET r -> Nat] /\ g[{}] = 0
      /\ \A t \in SUBSET r : \A x \in r \ t : g[t \cup {x}] = b[x] + g[t]
  BY <1>5 DEF Adds
<1>9. h \in [SUBSET s -> Nat]
  <2>1. \A t \in SUBSET s : (IF y \in t THEN b[y] + g[t \ {y}] ELSE g[t]) \in Nat
    BY <1>6, <1>7, <1>8
  <2>. QED BY <2>1
<1>10. h[{}] = 0
  BY <1>8
<1>11. ASSUME NEW t \in SUBSET s, NEW x \in s \ t PROVE h[t \cup {x}] = b[x] + h[t]
  <2>1. t \cup {x} \in SUBSET s
    BY <1>11
  <2>2. CASE x = y
    <3>1. (t \cup {x}) \ {y} = t /\ y \notin t
      BY <2>2, <1>11
    <3>. QED BY <2>1, <2>2, <3>1
  <2>3. CASE x # y /\ y \in t
    <3>1. (t \cup {x}) \ {y} = (t \ {y}) \cup {x}
      BY <2>3
    <3>2. t \ {y} \in SUBSET r /\ x \in r \ (t \ {y})
      BY <2>3, <1>11
    <3>3. g[(t \ {y}) \cup {x}] = b[x] + g[t \ {y}]
      BY <3>2, <1>8
    <3>4. h[t \cup {x}] = b[y] + g[(t \ {y}) \cup {x}]
      BY <2>1, <2>3, <3>1
    <3>5. h[t] = b[y] + g[t \ {y}]
      BY <2>3
    <3>6. g[t \ {y}] \in Nat /\ b[x] \in Nat
      BY <1>6, <1>7, <1>8
    <3>. QED BY <3>3, <3>4, <3>5, <3>6, <1>6
  <2>4. CASE x # y /\ y \notin t
    <3>1. t \in SUBSET r /\ x \in r \ t
      BY <2>4, <1>11
    <3>2. h[t \cup {x}] = g[t \cup {x}] /\ h[t] = g[t]
      BY <2>1, <2>4
    <3>. QED BY <3>1, <3>2, <1>8
  <2>. QED BY <2>2, <2>3, <2>4
<1>12. Adds(h, b, s)
  <2>. HIDE DEF h
  <2>. QED BY <1>9, <1>10, <1>11 DEF Adds
<1>. QED BY <1>2, <1>12

\* One function adds up b over every subset of a finite set of numbers.
LEMMA SumsAreAdded ==
    ASSUME NEW b, NEW D, IsFiniteSet(D), \A x \in D : b[x] \in Nat
    PROVE  \E g : Adds(g, b, D) /\ \A s \in SUBSET D : SumOf(b, s) = g[s]
<1>1. PICK g : Adds(g, b, D)
  BY AddingExists
<1>2. ASSUME NEW s \in SUBSET D PROVE SumOf(b, s) = g[s]
  <2>. DEFINE h == [t \in SUBSET s |-> g[t]]
  <2>1. /\ h \in [SUBSET s -> Nat] /\ h[{}] = 0
        /\ \A t \in SUBSET s : \A x \in s \ t : h[t \cup {x}] = b[x] + h[t]
    BY <1>1 DEF Adds
  <2>2. h[s] = g[s]
    OBVIOUS
  <2>. HIDE DEF h
  <2>3. Adds(h, b, s)
    BY <2>1 DEF Adds
  <2>4. IsFiniteSet(s)
    BY FS_Subset
  <2>. QED BY <2>2, <2>3, <2>4, SumIsAdded
<1>. QED BY <1>1, <1>2

\* A sum of numbers is a number, nothing sums up to zero, and one element more
\* adds its own value.
LEMMA SumStep ==
    ASSUME NEW b, NEW D, IsFiniteSet(D), \A x \in D : b[x] \in Nat
    PROVE  /\ SumOf(b, {}) = 0
           /\ \A s \in SUBSET D : SumOf(b, s) \in Nat
           /\ \A s \in SUBSET D : \A x \in D \ s : SumOf(b, s \cup {x}) = b[x] + SumOf(b, s)
<1>1. PICK g : Adds(g, b, D) /\ \A s \in SUBSET D : SumOf(b, s) = g[s]
  BY SumsAreAdded
<1>2. \A s \in SUBSET D : \A x \in D \ s : s \cup {x} \in SUBSET D
  OBVIOUS
<1>. QED BY <1>1, <1>2 DEF Adds

\* A sum depends on the values of its elements alone.
LEMMA SumSame ==
    ASSUME NEW b, NEW c, NEW D, IsFiniteSet(D), \A x \in D : b[x] \in Nat /\ b[x] = c[x]
    PROVE  SumOf(b, D) = SumOf(c, D)
<1>1. PICK g : Adds(g, b, D)
  BY AddingExists
<1>2. Adds(g, c, D)
  BY <1>1 DEF Adds
<1>. QED BY <1>1, <1>2, SumIsAdded

\* The sum over a set is the sum over a part of it and the sum over the rest.
LEMMA SumSplit ==
    ASSUME NEW b, NEW D, IsFiniteSet(D), \A x \in D : b[x] \in Nat, NEW U \in SUBSET D
    PROVE  SumOf(b, D) = SumOf(b, U) + SumOf(b, D \ U)
<1>. DEFINE Off == {s \in SUBSET (D \ U) : SumOf(b, U \cup s) # SumOf(b, U) + SumOf(b, s)}
<1>1. /\ SumOf(b, {}) = 0
      /\ \A s \in SUBSET D : SumOf(b, s) \in Nat
      /\ \A s \in SUBSET D : \A x \in D \ s : SumOf(b, s \cup {x}) = b[x] + SumOf(b, s)
  BY SumStep
<1>2. IsFiniteSet(D \ U) /\ Off \in SUBSET (SUBSET (D \ U))
  BY FS_Subset, D \ U \in SUBSET D
<1>3. Off = {}
  <2>1. SUFFICES ASSUME Off # {} PROVE FALSE
    OBVIOUS
  <2>2. PICK s \in Off : \A t \in Off : t \subseteq s => t = s
    <3>. HIDE DEF Off
    <3>. QED BY <2>1, <1>2, SmallestSet
  <2>3. s # {}
    <3>1. SumOf(b, U) = SumOf(b, U) + SumOf(b, {})
      BY <1>1
    <3>2. {} \notin Off
      BY <3>1, U \cup {} = U
    <3>. QED BY <2>2, <3>2
  <2>4. PICK y \in s : TRUE
    BY <2>3
  <2>. DEFINE r == s \ {y}
  <2>5. /\ r \in SUBSET (D \ U) /\ r # s /\ r \subseteq s /\ r \cup {y} = s
        /\ r \in SUBSET D /\ U \cup r \in SUBSET D /\ y \in D \ r /\ y \in D \ (U \cup r)
        /\ (U \cup r) \cup {y} = U \cup s /\ b[y] \in Nat
    BY <2>2, <2>4
  <2>. HIDE DEF r
  <2>6. SumOf(b, U \cup r) = SumOf(b, U) + SumOf(b, r)
    BY <2>2, <2>5
  <2>7. SumOf(b, s) = b[y] + SumOf(b, r)
    BY <1>1, <2>5
  <2>8. SumOf(b, U \cup s) = b[y] + SumOf(b, U \cup r)
    BY <1>1, <2>5
  <2>9. SumOf(b, U) \in Nat /\ SumOf(b, r) \in Nat
    BY <1>1, <2>5
  <2>10. SumOf(b, U \cup s) = SumOf(b, U) + SumOf(b, s)
    BY <2>5, <2>6, <2>7, <2>8, <2>9
  <2>. QED BY <2>2, <2>10
<1>4. U \cup (D \ U) = D
  OBVIOUS
<1>. QED BY <1>3, <1>4

\* When one value grows by one, so does the sum over each set with that element,
\* and no other.
LEMMA SumBumped ==
    ASSUME NEW b, NEW c, NEW D, IsFiniteSet(D), \A x \in D : b[x] \in Nat, NEW p,
           \A x \in D : c[x] = IF x = p THEN b[x] + 1 ELSE b[x]
    PROVE  SumOf(c, D) = SumOf(b, D) + (IF p \in D THEN 1 ELSE 0)
<1>1. CASE p \notin D
  <2>1. \A x \in D : b[x] \in Nat /\ b[x] = c[x]
    BY <1>1
  <2>2. SumOf(b, D) = SumOf(c, D)
    BY <2>1, SumSame
  <2>3. SumOf(b, D) \in Nat
    BY SumStep
  <2>. QED BY <1>1, <2>2, <2>3
<1>2. CASE p \in D
  <2>. DEFINE r == D \ {p}
  <2>1. IsFiniteSet(r) /\ r \in SUBSET D /\ p \in D \ r /\ r \cup {p} = D
    BY <1>2, FS_RemoveElement
  <2>2. \A x \in D : c[x] \in Nat
    OBVIOUS
  <2>3. SumOf(b, r \cup {p}) = b[p] + SumOf(b, r) /\ SumOf(b, r) \in Nat
    BY <2>1, SumStep
  <2>4. SumOf(c, r \cup {p}) = c[p] + SumOf(c, r)
    BY <2>1, <2>2, SumStep
  <2>5. \A x \in r : b[x] \in Nat /\ b[x] = c[x]
    OBVIOUS
  <2>. HIDE DEF r
  <2>6. SumOf(b, r) = SumOf(c, r)
    BY <2>1, <2>5, SumSame
  <2>7. b[p] \in Nat /\ c[p] = b[p] + 1
    BY <1>2
  <2>8. SumOf(b, D) = b[p] + SumOf(b, r) /\ SumOf(c, D) = c[p] + SumOf(b, r)
    BY <2>1, <2>3, <2>4, <2>6
  <2>9. SumOf(c, D) = SumOf(b, D) + 1
    BY <2>3, <2>7, <2>8
  <2>. QED BY <1>2, <2>9
<1>. QED BY <1>1, <1>2
-----------------------------------------------------------------------------
(* The invariant.                                                          *)

Typed == TypeOK /\ IsFiniteSet(DOMAIN bytes)

Sum(ps) == SumOf(bytes, ps)

\* The counters of the tunnels that are over.
Gone == DOMAIN bytes \ Listed

\* The tunnels share no proxy, and whoever holds the lock loads the counters it
\* should: the sampler those on the list, a handler those just taken off it.
OnList ==
    /\ Listed \subseteq DOMAIN bytes
    /\ \A t, u \in DOMAIN tunnels : t # u => tunnels[t] \cap tunnels[u] = {}
    /\ holder = Nobody => unread = {}
    /\ holder = "sampler" <=> sampler = "sum"
    /\ holder = "sampler" => unread \subseteq Listed
    /\ holder \in Tunnel => unread \cap Listed = {}
    /\ sampler \in {"sum", "push"} => n < MaxSamples

\* What a handler that is retiring its tunnel has summed up so far.
Summed == IF holder \in Tunnel THEN sum ELSE 0

\* Nothing is retired that was not relayed, and nothing twice.
Account == retired + Summed <= Sum(Gone \ unread)

\* The total the next sampler to take the lock would find, were nothing relayed
\* in between: it never goes down.
Held == retired + Sum(Listed) + Summed + (IF holder \in Tunnel THEN Sum(unread) ELSE 0)

\* What is due is held.  The sampler's sum stays between what was due when it
\* took the lock and the total held now, as does the total it then pushes; the
\* last sample is below both.
Window ==
    /\ due <= Held
    /\ holder = "sampler" => /\ floor <= sum + Sum(unread)
                             /\ last <= sum + Sum(unread)
                             /\ sum <= retired + Sum(Listed \ unread)
    /\ sampler = "push" => floor <= total /\ last <= total /\ total <= Held
    /\ last <= Held

Back(h) == {i \in 1 .. Len(h) - 1 : h[i] > h[i + 1]}
Descents(h) == Cardinality(Back(h))

\* Before the first sample of a process its history may be one of earlier
\* processes, which leaves it one step back of its own.
Steps ==
    /\ n > 0 => history # <<>> /\ history[Len(history)] = last /\ Descents(history) < starts
    /\ n = 0 => last = 0 /\ (history = <<>> \/ Descents(history) + 1 < starts)
    /\ file # Torn => file = <<>> \/ Descents(file) < starts

\* The next-state relation has these steps within one process.
Working ==
    \/ \E t \in Tunnel : \/ RegisterTunnel(t) \/ Unregister(t) \/ Retire(t)
                         \/ \E p \in Proxy : RegisterProxy(t, p)
    \/ \E p \in Proxy : Count(p) \/ Load(p)
    \/ SampleBegins \/ SampleSummed \/ SamplePushed
    \/ PersistBegins \/ PersistEnds \/ PersistFails

\* Total is the sum of the counters.
LEMMA TotalIsSum == \A ps : Total(ps) = Sum(ps)
BY DEF Total, Sum, SumOf

\* What the lemmas on sums say of the counters as they are.
LEMMA SumFacts ==
    ASSUME Typed
    PROVE  /\ \A ps \in SUBSET DOMAIN bytes : Sum(ps) \in Nat
           /\ Sum({}) = 0
           /\ \A ps \in SUBSET DOMAIN bytes : \A qs \in SUBSET ps : Sum(ps) = Sum(qs) + Sum(ps \ qs)
           /\ \A ps \in SUBSET DOMAIN bytes : \A p \in DOMAIN bytes \ ps :
                 Sum(ps \cup {p}) = bytes[p] + Sum(ps)
<1>1. IsFiniteSet(DOMAIN bytes) /\ \A p \in DOMAIN bytes : bytes[p] \in Nat
  BY BoundsAssumption DEF Typed, TypeOK
<1>2. /\ SumOf(bytes, {}) = 0
      /\ \A s \in SUBSET DOMAIN bytes : SumOf(bytes, s) \in Nat
      /\ \A s \in SUBSET DOMAIN bytes : \A x \in DOMAIN bytes \ s :
            SumOf(bytes, s \cup {x}) = bytes[x] + SumOf(bytes, s)
  BY <1>1, SumStep
<1>3. ASSUME NEW ps \in SUBSET DOMAIN bytes, NEW qs \in SUBSET ps
      PROVE  SumOf(bytes, ps) = SumOf(bytes, qs) + SumOf(bytes, ps \ qs)
  <2>1. IsFiniteSet(ps) /\ \A p \in ps : bytes[p] \in Nat
    BY <1>1, FS_Subset
  <2>. QED BY <2>1, SumSplit
<1>. QED BY <1>2, <1>3 DEF Sum

\* A counter is never above the sum of all.
LEMMA CountFits ==
    ASSUME Typed, NEW p \in Proxy, Count(p)
    PROVE  bytes[p] + 1 \in 0 .. MaxBytes
<1>1. p \in DOMAIN bytes /\ Sum(DOMAIN bytes) < MaxBytes
  BY TotalIsSum DEF Count
<1>. DEFINE r == DOMAIN bytes \ {p}
<1>2. r \in SUBSET DOMAIN bytes /\ p \in DOMAIN bytes \ r /\ r \cup {p} = DOMAIN bytes
  BY <1>1
<1>3. Sum(r \cup {p}) = bytes[p] + Sum(r) /\ Sum(r) \in Nat
  BY <1>2, SumFacts
<1>4. bytes[p] \in Nat
  BY <1>1, BoundsAssumption DEF Typed, TypeOK
<1>. QED BY <1>1, <1>2, <1>3, <1>4, BoundsAssumption

\* The types hold at the start.
LEMMA InitTyped == Init => Typed
<1>1. SUFFICES ASSUME Init PROVE Typed
  OBVIOUS
<1>2. DOMAIN bytes = {} /\ DOMAIN tunnels = {}
  BY <1>1 DEF Init, Fresh
<1>3. IsFiniteSet(DOMAIN bytes)
  BY <1>2, FS_EmptySet
<1>4. history = <<>> /\ file = <<>> /\ starts = 1
  BY <1>1 DEF Init
<1>5. history \in Seq(Nat) /\ Len(history) <= HistoryCap
  BY <1>4, BoundsAssumption
<1>6. TypeOK
  BY <1>1, <1>2, <1>4, <1>5, BoundsAssumption DEF Init, Fresh, TypeOK
<1>. QED BY <1>3, <1>6 DEF Typed

\* The history's cap holds after every push.
LEMMA TrimmedFits ==
    ASSUME NEW h \in Seq(Nat), Len(h) <= HistoryCap, NEW x \in Nat
    PROVE  Trimmed(Append(h, x)) \in Seq(Nat) /\ Len(Trimmed(Append(h, x))) <= HistoryCap
<1>1. Append(h, x) \in Seq(Nat) /\ Len(Append(h, x)) = Len(h) + 1 /\ Append(h, x) # <<>>
  OBVIOUS
<1>. DEFINE a == Append(h, x)
<1>. HIDE DEF a
<1>2. a \in Seq(Nat) /\ Len(a) \in Nat /\ a # <<>> /\ Len(a) <= HistoryCap + 1
  BY <1>1, BoundsAssumption DEF a
<1>3. Tail(a) \in Seq(Nat) /\ Len(Tail(a)) = Len(a) - 1
  BY <1>2
<1>4. Trimmed(a) \in Seq(Nat) /\ Len(Trimmed(a)) <= HistoryCap
  BY <1>2, <1>3, BoundsAssumption DEF Trimmed
<1>. QED BY <1>4 DEF a

\* Every step keeps the types.
LEMMA StepTyped == Typed /\ OnList /\ [Next]_vars => Typed'
<1>1. SUFFICES ASSUME Typed, OnList, [Next]_vars PROVE Typed'
  OBVIOUS
<1>. USE BoundsAssumption, NamesAssumption
<1>2. TypeOK /\ IsFiniteSet(DOMAIN bytes) /\ Listed \subseteq DOMAIN bytes
  BY <1>1 DEF Typed, OnList
<1>3. ASSUME NEW t \in Tunnel, RegisterTunnel(t) PROVE Typed'
  <2>1. tunnels' \in [DOMAIN tunnels' -> SUBSET Proxy] /\ DOMAIN tunnels' = DOMAIN tunnels \cup {t}
    BY <1>2, <1>3 DEF RegisterTunnel, TypeOK
  <2>. QED BY <1>2, <1>3, <2>1 DEF Typed, TypeOK, RegisterTunnel, lockVars, sampleVars
<1>4. ASSUME NEW t \in Tunnel, Unregister(t) PROVE Typed'
  <2>1. tunnels' \in [DOMAIN tunnels' -> SUBSET Proxy] /\ DOMAIN tunnels' = DOMAIN tunnels \ {t}
    BY <1>2, <1>4 DEF Unregister, Delisted, TypeOK
  <2>2. unread' \subseteq DOMAIN bytes'
    <3>1. tunnels[t] \subseteq Listed /\ unread' = tunnels[t] /\ bytes' = bytes
      BY <1>4 DEF Unregister, Listed
    <3>. QED BY <1>2, <3>1
  <2>3. /\ left' \subseteq Tunnel /\ left' \cap DOMAIN tunnels' = {}
        /\ DOMAIN tunnels' \subseteq Tunnel
    BY <1>2, <1>4, <2>1 DEF TypeOK, Unregister
  <2>4. /\ UNCHANGED <<bytes, retired, due, total, last, floor, sampler, n, history, file, starts>>
        /\ sum' = 0 /\ holder' = t
    BY <1>4 DEF Unregister, sampleVars
  <2>. QED BY <1>2, <2>1, <2>2, <2>3, <2>4 DEF Typed, TypeOK
<1>5. ASSUME NEW t \in Tunnel, Retire(t) PROVE Typed'
  <2>1. /\ UNCHANGED <<tunnels, left, bytes, due, unread, sampleVars, file, starts>>
        /\ retired' = retired + sum /\ holder' = Nobody /\ sum' = 0
    BY <1>5 DEF Retire, Retired
  <2>2. retired' \in Nat
    BY <1>2, <2>1 DEF TypeOK
  <2>. QED BY <1>2, <2>1, <2>2 DEF Typed, TypeOK, sampleVars
<1>6. ASSUME NEW t \in Tunnel, NEW p \in Proxy, RegisterProxy(t, p) PROVE Typed'
  <2>1. tunnels' \in [DOMAIN tunnels' -> SUBSET Proxy] /\ DOMAIN tunnels' = DOMAIN tunnels
    BY <1>2, <1>6 DEF RegisterProxy, TypeOK
  <2>2. bytes' \in [DOMAIN bytes' -> 0..MaxBytes] /\ DOMAIN bytes' = DOMAIN bytes \cup {p}
    BY <1>2, <1>6 DEF RegisterProxy, TypeOK
  <2>3. IsFiniteSet(DOMAIN bytes')
    BY <1>2, <2>2, FS_AddElement
  <2>. QED BY <1>2, <1>6, <2>1, <2>2, <2>3 DEF Typed, TypeOK, RegisterProxy, lockVars, sampleVars
<1>7. ASSUME NEW p \in Proxy, Count(p) PROVE Typed'
  <2>1. bytes' \in [DOMAIN bytes' -> 0..MaxBytes] /\ DOMAIN bytes' = DOMAIN bytes
    BY <1>1, <1>2, <1>7, CountFits DEF Count, TypeOK
  <2>2. due' \in Nat
    <3>1. due \in Nat /\ due' \in {due, due + 1}
      BY <1>2, <1>7 DEF Count, TypeOK
    <3>. QED BY <3>1
  <2>. QED BY <1>2, <1>7, <2>1, <2>2 DEF Typed, TypeOK, Count, lockVars, sampleVars
<1>8. ASSUME NEW p \in Proxy, Load(p) PROVE Typed'
  <2>1. bytes[p] \in Nat
    BY <1>2, <1>8 DEF Load, TypeOK
  <2>. QED BY <1>2, <1>8, <2>1, SMTT(40) DEF Typed, TypeOK, Load, registryVars, sampleVars
<1>9. ASSUME SampleBegins PROVE Typed'
  BY <1>2, <1>9, SMTT(40) DEF Typed, TypeOK, SampleBegins, registryVars
<1>10. ASSUME SampleSummed PROVE Typed'
  BY <1>2, <1>10 DEF Typed, TypeOK, SampleSummed, registryVars
<1>11. ASSUME SamplePushed PROVE Typed'
  <2>1. history' \in Seq(Nat) /\ Len(history') <= HistoryCap
    BY <1>2, <1>11, TrimmedFits DEF SamplePushed, TypeOK
  <2>2. n' \in 0 .. MaxSamples
    BY <1>1, <1>2, <1>11 DEF SamplePushed, TypeOK, OnList
  <2>3. sampler' \in {"idle", "persist"}
    BY <1>11 DEF SamplePushed
  <2>4. last' \in Nat /\ total' \in Nat /\ floor' \in Nat
    BY <1>2, <1>11 DEF SamplePushed, TypeOK
  <2>. QED BY <1>2, <1>11, <2>1, <2>2, <2>3, <2>4 DEF Typed, TypeOK, SamplePushed, registryVars, lockVars
<1>12. ASSUME PersistBegins PROVE Typed'
  BY <1>2, <1>12 DEF Typed, TypeOK, PersistBegins, registryVars, lockVars
<1>13. ASSUME PersistEnds PROVE Typed'
  BY <1>2, <1>13 DEF Typed, TypeOK, PersistEnds, registryVars, lockVars
<1>14. ASSUME PersistFails PROVE Typed'
  BY <1>2, <1>14 DEF Typed, TypeOK, PersistFails, registryVars, lockVars
<1>15. ASSUME Restart PROVE Typed'
  <2>1. history' \in Seq(Nat) /\ Len(history') <= HistoryCap
    <3>1. CASE file = Torn
      BY <1>15, <3>1 DEF Restart, Loaded
    <3>2. CASE file # Torn
      BY <1>2, <1>15, <3>2 DEF Restart, Loaded, TypeOK
    <3>. QED BY <3>1, <3>2
  <2>2. DOMAIN bytes' = {} /\ DOMAIN tunnels' = {}
    BY <1>15 DEF Restart
  <2>3. IsFiniteSet(DOMAIN bytes')
    BY <2>2, FS_EmptySet
  <2>. QED BY <1>2, <1>15, <2>1, <2>2, <2>3, SMTT(40) DEF Typed, TypeOK, Restart
<1>16. CASE UNCHANGED vars
  BY <1>2, <1>16 DEF Typed, TypeOK, vars, registryVars, lockVars, sampleVars
<1>. QED
  BY <1>1, <1>3, <1>4, <1>5, <1>6, <1>7, <1>8, <1>9, <1>10, <1>11, <1>12, <1>13, <1>14, <1>15,
     <1>16 DEF Next

\* The registry and the lock are in order at the start.
LEMMA InitOnList == Init => OnList
<1>1. SUFFICES ASSUME Init PROVE OnList
  OBVIOUS
<1>2. DOMAIN tunnels = {} /\ Listed = {}
  BY <1>1 DEF Init, Fresh, Listed
<1>. QED BY <1>1, <1>2, NamesAssumption DEF Init, Fresh, OnList

\* Every step keeps them so.
LEMMA StepOnList == Typed /\ OnList /\ [Next]_vars => OnList'
<1>1. SUFFICES ASSUME Typed, OnList, [Next]_vars PROVE OnList'
  OBVIOUS
<1>. USE NamesAssumption
<1>2. TypeOK
  BY <1>1 DEF Typed
<1>3. ASSUME NEW t \in Tunnel, RegisterTunnel(t) PROVE OnList'
  <2>1. /\ DOMAIN tunnels' = DOMAIN tunnels \cup {t} /\ t \notin DOMAIN tunnels
        /\ tunnels'[t] = {} /\ \A u \in DOMAIN tunnels : tunnels'[u] = tunnels[u]
    BY <1>3 DEF RegisterTunnel
  <2>2. Listed' = Listed
    BY <2>1 DEF Listed
  <2>. QED BY <1>1, <1>3, <2>1, <2>2 DEF OnList, RegisterTunnel, lockVars, sampleVars
<1>4. ASSUME NEW t \in Tunnel, Unregister(t) PROVE OnList'
  <2>1. /\ DOMAIN tunnels' = DOMAIN tunnels \ {t} /\ t \in DOMAIN tunnels
        /\ \A u \in DOMAIN tunnels' : tunnels'[u] = tunnels[u]
        /\ unread' = tunnels[t] /\ holder' = t /\ holder = Nobody
        /\ UNCHANGED <<bytes, sampler, n>>
    BY <1>4 DEF Unregister, Delisted, sampleVars
  <2>2. Listed' \subseteq Listed
    BY <2>1 DEF Listed
  <2>3. unread' \cap Listed' = {}
    <3>1. \A u \in DOMAIN tunnels' : tunnels'[u] \cap tunnels[t] = {}
      BY <1>1, <2>1 DEF OnList
    <3>. QED BY <2>1, <3>1 DEF Listed
  <2>4. \A u, v \in DOMAIN tunnels' : u # v => tunnels'[u] \cap tunnels'[v] = {}
    BY <1>1, <2>1 DEF OnList
  <2>. QED BY <1>1, <2>1, <2>2, <2>3, <2>4 DEF OnList
<1>5. ASSUME NEW t \in Tunnel, Retire(t) PROVE OnList'
  BY <1>1, <1>5 DEF OnList, Listed, Retire, sampleVars
<1>6. ASSUME NEW t \in Tunnel, NEW p \in Proxy, RegisterProxy(t, p) PROVE OnList'
  <2>1. /\ DOMAIN tunnels' = DOMAIN tunnels /\ t \in DOMAIN tunnels /\ p \notin DOMAIN bytes
        /\ tunnels'[t] = tunnels[t] \cup {p}
        /\ \A u \in DOMAIN tunnels : u # t => tunnels'[u] = tunnels[u]
        /\ DOMAIN bytes' = DOMAIN bytes \cup {p} /\ holder = Nobody
        /\ UNCHANGED <<holder, unread, sampler, n>>
    BY <1>2, <1>6 DEF RegisterProxy, TypeOK, lockVars, sampleVars
  <2>2. Listed' = Listed \cup {p}
    BY <2>1 DEF Listed
  <2>3. \A u \in DOMAIN tunnels : p \notin tunnels[u]
    BY <1>1, <2>1 DEF OnList, Listed
  <2>4. \A u, v \in DOMAIN tunnels' : u # v => tunnels'[u] \cap tunnels'[v] = {}
    <3>1. ASSUME NEW u \in DOMAIN tunnels, NEW v \in DOMAIN tunnels, u # v
          PROVE  tunnels'[u] \cap tunnels'[v] = {}
      <4>1. tunnels[u] \cap tunnels[v] = {}
        BY <1>1, <3>1 DEF OnList
      <4>2. CASE u = t
        BY <2>1, <2>3, <3>1, <4>1, <4>2
      <4>3. CASE v = t
        BY <2>1, <2>3, <3>1, <4>1, <4>3
      <4>. QED BY <2>1, <4>1, <4>2, <4>3
    <3>. QED BY <2>1, <3>1
  <2>. QED BY <1>1, <2>1, <2>2, <2>4 DEF OnList
<1>7. ASSUME NEW p \in Proxy, Count(p) PROVE OnList'
  BY <1>1, <1>7 DEF OnList, Listed, Count, lockVars, sampleVars
<1>8. ASSUME NEW p \in Proxy, Load(p) PROVE OnList'
  BY <1>1, <1>8 DEF OnList, Listed, Load, registryVars, sampleVars
<1>9. ASSUME SampleBegins PROVE OnList'
  BY <1>1, <1>9 DEF OnList, Listed, SampleBegins, registryVars
<1>10. ASSUME SampleSummed PROVE OnList'
  BY <1>1, <1>10 DEF OnList, Listed, SampleSummed, registryVars
<1>11. ASSUME SamplePushed PROVE OnList'
  BY <1>1, <1>11 DEF OnList, Listed, SamplePushed, registryVars, lockVars
<1>12. ASSUME PersistBegins PROVE OnList'
  BY <1>1, <1>12 DEF OnList, Listed, PersistBegins, registryVars, lockVars
<1>13. ASSUME PersistEnds PROVE OnList'
  BY <1>1, <1>13 DEF OnList, Listed, PersistEnds, registryVars, lockVars
<1>14. ASSUME PersistFails PROVE OnList'
  BY <1>1, <1>14 DEF OnList, Listed, PersistFails, registryVars, lockVars
<1>15. ASSUME Restart PROVE OnList'
  <2>1. Listed' = {} /\ DOMAIN tunnels' = {}
    BY <1>15 DEF Restart, Listed
  <2>. QED BY <1>15, <2>1 DEF Restart, OnList
<1>16. CASE UNCHANGED vars
  BY <1>1, <1>16 DEF OnList, Listed, vars, registryVars, lockVars, sampleVars
<1>. QED
  BY <1>1, <1>3, <1>4, <1>5, <1>6, <1>7, <1>8, <1>9, <1>10, <1>11, <1>12, <1>13, <1>14, <1>15,
     <1>16 DEF Next
-----------------------------------------------------------------------------
(* Nothing relayed is lost or counted twice.                               *)

\* The total held is one the counters really reached.
LEMMA HeldIsReal ==
    ASSUME Typed, OnList, Account
    PROVE  Held \in Nat /\ Held <= Sum(DOMAIN bytes)
<1>1. /\ Listed \in SUBSET DOMAIN bytes /\ unread \in SUBSET DOMAIN bytes
      /\ Gone \in SUBSET DOMAIN bytes /\ Gone \ unread \in SUBSET Gone
      /\ Gone \ unread \in SUBSET DOMAIN bytes
      /\ retired \in Nat /\ sum \in Nat
  BY DEF Typed, TypeOK, OnList, Gone
<1>2. /\ Sum(Listed) \in Nat /\ Sum(unread) \in Nat /\ Sum(Gone) \in Nat
      /\ Sum(Gone \ unread) \in Nat
  BY <1>1, SumFacts
<1>3. Sum(DOMAIN bytes) = Sum(Listed) + Sum(Gone)
  BY <1>1, SumFacts DEF Gone
<1>4. CASE holder \in Tunnel
  <2>1. Gone \ (Gone \ unread) = unread
    BY <1>1, <1>4 DEF OnList, Gone
  <2>2. Sum(Gone) = Sum(Gone \ unread) + Sum(unread)
    BY <1>1, <2>1, SumFacts
  <2>. QED BY <1>1, <1>2, <1>3, <1>4, <2>2 DEF Account, Held, Summed
<1>5. CASE holder \notin Tunnel
  <2>1. Gone \ unread = Gone
    BY <1>5, NamesAssumption DEF OnList, Typed, TypeOK, Gone
  <2>. QED BY <1>1, <1>2, <1>3, <1>5, <2>1 DEF Account, Held, Summed
<1>. QED BY <1>4, <1>5

\* A tunnel taken off the list takes its own counters with it, which its
\* handler then loads.
LEMMA UnregisterHeld ==
    ASSUME Typed, OnList, Account, NEW t \in Tunnel, Unregister(t)
    PROVE  Account' /\ Held' = Held
<1>1. /\ DOMAIN tunnels' = DOMAIN tunnels \ {t} /\ t \in DOMAIN tunnels
      /\ \A u \in DOMAIN tunnels' : tunnels'[u] = tunnels[u]
      /\ unread' = tunnels[t] /\ holder' = t /\ holder = Nobody /\ sum' = 0
      /\ UNCHANGED <<bytes, retired>>
  BY DEF Unregister, Delisted
<1>2. unread = {} /\ holder \notin Tunnel /\ holder' \in Tunnel
  BY <1>1, NamesAssumption DEF OnList
<1>3. /\ tunnels[t] \in SUBSET Listed /\ Listed \in SUBSET DOMAIN bytes
      /\ tunnels[t] \in SUBSET DOMAIN bytes
  BY <1>1 DEF OnList, Listed
<1>4. Listed' = Listed \ tunnels[t]
  <2>1. \A u \in DOMAIN tunnels' : tunnels[u] \cap tunnels[t] = {}
    BY <1>1 DEF OnList
  <2>. QED BY <1>1, <2>1 DEF Listed
<1>5. (Gone \ unread)' = Gone \ unread
  BY <1>1, <1>2, <1>3, <1>4 DEF Gone
<1>6. Sum(Listed) = Sum(tunnels[t]) + Sum(Listed \ tunnels[t])
  BY <1>3, SumFacts
<1>7. Sum(Listed)' = Sum(Listed \ tunnels[t]) /\ Sum(unread)' = Sum(tunnels[t])
  BY <1>1, <1>4 DEF Sum
<1>8. Sum(Gone \ unread)' = Sum(Gone \ unread)
  BY <1>1, <1>5 DEF Sum
<1>9. /\ Sum(tunnels[t]) \in Nat /\ Sum(Listed \ tunnels[t]) \in Nat /\ retired \in Nat
  BY <1>3, SumFacts, Listed \ tunnels[t] \in SUBSET DOMAIN bytes DEF Typed, TypeOK
<1>10. Account'
  BY <1>1, <1>2, <1>8, <1>9 DEF Account, Summed
<1>. QED BY <1>1, <1>2, <1>6, <1>7, <1>9, <1>10 DEF Held, Summed

\* Loading a counter moves it from those to be read to the sum.
LEMMA LoadHeld ==
    ASSUME Typed, OnList, Account, NEW p \in Proxy, Load(p)
    PROVE  Account' /\ Held' = Held
<1>1. /\ p \in unread /\ unread' = unread \ {p} /\ sum' = sum + bytes[p]
      /\ UNCHANGED <<holder, tunnels, bytes, retired, Listed>>
  BY DEF Load, registryVars, Listed
<1>2. /\ Listed \in SUBSET DOMAIN bytes /\ unread \in SUBSET DOMAIN bytes
      /\ retired \in Nat /\ sum \in Nat
  BY DEF Typed, TypeOK, OnList
<1>. DEFINE r == unread \ {p}
<1>3. r \in SUBSET DOMAIN bytes /\ p \in DOMAIN bytes \ r /\ unread = r \cup {p} /\ bytes[p] \in Nat
  BY <1>1, <1>2 DEF Typed, TypeOK
<1>4. Sum(unread) = bytes[p] + Sum(r) /\ Sum(r) \in Nat
  <2>. HIDE DEF r
  <2>1. Sum(r \cup {p}) = bytes[p] + Sum(r) /\ Sum(r) \in Nat
    BY <1>3, SumFacts
  <2>. QED BY <1>3, <2>1
<1>5. Sum(unread)' = Sum(r) /\ Sum(Listed)' = Sum(Listed) /\ Sum(Listed) \in Nat
  BY <1>1, <1>2, SumFacts DEF Sum
<1>6. Summed' = Summed + (IF holder \in Tunnel THEN bytes[p] ELSE 0) /\ Summed \in Nat
  BY <1>1, <1>2, <1>3 DEF Summed
<1>. HIDE DEF r
<1>7. Held' = Held
  BY <1>1, <1>2, <1>3, <1>4, <1>5, <1>6 DEF Held
<1>8. Account'
  <2>1. CASE holder \in Tunnel
    <3>. DEFINE g == Gone \ unread
    <3>1. g \in SUBSET DOMAIN bytes /\ p \in DOMAIN bytes \ g /\ (Gone \ unread)' = g \cup {p}
      BY <1>1, <1>2, <2>1 DEF OnList, Gone
    <3>. HIDE DEF g
    <3>2. Sum(g \cup {p}) = bytes[p] + Sum(g) /\ Sum(g) \in Nat
      BY <3>1, SumFacts
    <3>3. Sum(Gone \ unread)' = Sum(g \cup {p})
      BY <1>1, <3>1 DEF Sum
    <3>4. retired + Summed <= Sum(g)
      BY DEF Account, g
    <3>5. retired' + Summed' <= Sum(Gone \ unread)'
      BY <1>1, <1>2, <1>3, <1>6, <2>1, <3>2, <3>3, <3>4
    <3>. QED BY <3>5 DEF Account
  <2>2. CASE holder \notin Tunnel
    <3>1. Gone \ unread = Gone /\ (Gone \ unread)' = Gone
      BY <1>1, <2>2, NamesAssumption DEF OnList, Typed, TypeOK, Gone
    <3>2. Sum(Gone \ unread)' = Sum(Gone \ unread)
      BY <1>1, <3>1 DEF Sum
    <3>3. Summed' = Summed
      BY <1>1, <2>2 DEF Summed
    <3>. QED BY <1>1, <3>2, <3>3 DEF Account
  <2>. QED BY <2>1, <2>2
<1>. QED BY <1>7, <1>8

\* A byte more in a counter is one more in each sum with that counter.
LEMMA CountSums ==
    ASSUME Typed, OnList, NEW p \in Proxy, Count(p)
    PROVE  \A ps \in SUBSET DOMAIN bytes :
              SumOf(bytes', ps) = SumOf(bytes, ps) + (IF p \in ps THEN 1 ELSE 0)
<1>1. /\ DOMAIN bytes' = DOMAIN bytes /\ IsFiniteSet(DOMAIN bytes)
      /\ \A x \in DOMAIN bytes : bytes[x] \in Nat
      /\ \A x \in DOMAIN bytes : bytes'[x] = IF x = p THEN bytes[x] + 1 ELSE bytes[x]
  BY BoundsAssumption DEF Typed, TypeOK, Count
<1>2. ASSUME NEW b, NEW c, b = bytes, c = bytes', NEW ps \in SUBSET DOMAIN b
      PROVE  SumOf(c, ps) = SumOf(b, ps) + (IF p \in ps THEN 1 ELSE 0)
  <2>1. IsFiniteSet(ps) /\ \A x \in ps : b[x] \in Nat
    BY <1>1, <1>2, FS_Subset
  <2>2. \A x \in ps : c[x] = IF x = p THEN b[x] + 1 ELSE b[x]
    BY <1>1, <1>2
  <2>. QED BY <2>1, <2>2, SumBumped
<1>. QED BY <1>2

\* Counting makes the total held grow, or leaves it when the counter is one of
\* a tunnel that is over and was already summed up; no byte is due then.
LEMMA CountHeld ==
    ASSUME Typed, OnList, Account, NEW p \in Proxy, Count(p)
    PROVE  /\ Account' /\ Held' \in Nat /\ Held <= Held'
           /\ due <= Held => due' <= Held'
<1>1. /\ DOMAIN bytes' = DOMAIN bytes
      /\ UNCHANGED <<Listed, unread, retired, sum, holder>>
  BY DEF Count, lockVars, Listed
<1>2. /\ Listed \in SUBSET DOMAIN bytes /\ unread \in SUBSET DOMAIN bytes
      /\ Gone \ unread \in SUBSET DOMAIN bytes
      /\ retired \in Nat /\ sum \in Nat
  BY DEF Typed, TypeOK, OnList, Gone
<1>3. /\ Sum(Listed)' = Sum(Listed) + (IF p \in Listed THEN 1 ELSE 0)
      /\ Sum(unread)' = Sum(unread) + (IF p \in unread THEN 1 ELSE 0)
      /\ Sum(Gone \ unread)' = Sum(Gone \ unread) + (IF p \in Gone \ unread THEN 1 ELSE 0)
  <2>1. (Gone \ unread)' = Gone \ unread
    BY <1>1 DEF Gone
  <2>. QED BY <1>1, <1>2, <2>1, CountSums DEF Sum
<1>4. Sum(Listed) \in Nat /\ Sum(unread) \in Nat /\ Sum(Gone \ unread) \in Nat
  BY <1>2, SumFacts
<1>5. Summed' = Summed /\ Summed \in Nat
  BY <1>1, <1>2 DEF Summed
<1>6. Account'
  BY <1>1, <1>2, <1>3, <1>4, <1>5 DEF Account
<1>7. Held' \in Nat /\ Held \in Nat /\ Held + (IF p \in Listed THEN 1 ELSE 0) <= Held'
  BY <1>1, <1>2, <1>3, <1>4, <1>5 DEF Held
<1>8. due \in Nat /\ due' = due + (IF p \in Listed THEN 1 ELSE 0)
  BY DEF Typed, TypeOK, Count
<1>9. due <= Held => due' <= Held'
  BY <1>7, <1>8
<1>10. Held <= Held'
  BY <1>7
<1>. QED BY <1>6, <1>7, <1>9, <1>10

\* A new counter starts at zero and changes no sum.
LEMMA RegisterHeld ==
    ASSUME Typed, OnList, Account, NEW t \in Tunnel, NEW p \in Proxy, RegisterProxy(t, p)
    PROVE  Account' /\ Held' = Held
<1>1. /\ DOMAIN tunnels' = DOMAIN tunnels /\ t \in DOMAIN tunnels /\ p \notin DOMAIN bytes
      /\ tunnels'[t] = tunnels[t] \cup {p}
      /\ \A u \in DOMAIN tunnels : u # t => tunnels'[u] = tunnels[u]
      /\ DOMAIN bytes' = DOMAIN bytes \cup {p} /\ bytes'[p] = 0
      /\ \A x \in DOMAIN bytes : bytes'[x] = bytes[x]
      /\ holder = Nobody /\ UNCHANGED <<holder, unread, sum, retired>>
  BY DEF RegisterProxy, Typed, TypeOK, lockVars
<1>2. /\ IsFiniteSet(DOMAIN bytes) /\ \A x \in DOMAIN bytes : bytes[x] \in Nat
      /\ Listed \in SUBSET DOMAIN bytes /\ unread = {} /\ holder \notin Tunnel
      /\ retired \in Nat
  BY <1>1, BoundsAssumption, NamesAssumption DEF Typed, TypeOK, OnList
<1>3. Listed' = Listed \cup {p} /\ (Gone \ unread)' = Gone \ unread
  <2>1. Listed' = Listed \cup {p}
    BY <1>1 DEF Listed
  <2>. QED BY <1>1, <1>2, <2>1 DEF Gone
<1>4. ASSUME NEW b, NEW c, b = bytes, c = bytes'
      PROVE  /\ \A ps \in SUBSET DOMAIN b : SumOf(c, ps) = SumOf(b, ps)
             /\ \A ps \in SUBSET DOMAIN b : SumOf(c, ps \cup {p}) = SumOf(b, ps)
  <2>1. ASSUME NEW ps \in SUBSET DOMAIN b PROVE SumOf(c, ps) = SumOf(b, ps)
    <3>1. IsFiniteSet(ps) /\ \A x \in ps : b[x] \in Nat /\ b[x] = c[x]
      BY <1>1, <1>2, <1>4, FS_Subset
    <3>. QED BY <3>1, SumSame
  <2>2. ASSUME NEW ps \in SUBSET DOMAIN b PROVE SumOf(c, ps \cup {p}) = SumOf(b, ps)
    <3>. DEFINE D == DOMAIN b \cup {p}
    <3>1. IsFiniteSet(D) /\ \A x \in D : c[x] \in Nat
      BY <1>1, <1>2, <1>4, FS_AddElement
    <3>2. ps \in SUBSET D /\ p \in D \ ps /\ c[p] = 0
      BY <1>1, <1>4
    <3>. HIDE DEF D
    <3>3. SumOf(c, ps \cup {p}) = c[p] + SumOf(c, ps) /\ SumOf(c, ps) \in Nat
      BY <3>1, <3>2, SumStep
    <3>. QED BY <2>1, <3>2, <3>3
  <2>. QED BY <2>1, <2>2
<1>5. /\ Sum(Listed)' = Sum(Listed)
      /\ Sum(Gone \ unread)' = Sum(Gone \ unread)
  <2>1. Gone \ unread \in SUBSET DOMAIN bytes
    BY DEF Gone
  <2>. QED BY <1>2, <1>3, <1>4, <2>1 DEF Sum
<1>6. Account'
  BY <1>1, <1>2, <1>5 DEF Account, Summed
<1>. QED BY <1>1, <1>2, <1>5, <1>6 DEF Held, Summed

\* Every step within a process keeps the account, and the total held never
\* goes down.
LEMMA StepHeld == Typed /\ OnList /\ Account /\ (Working \/ UNCHANGED vars)
                     => Account' /\ Held' \in Nat /\ Held <= Held'
<1>1. SUFFICES ASSUME Typed, OnList, Account, Working \/ UNCHANGED vars
               PROVE  Account' /\ Held' \in Nat /\ Held <= Held'
  OBVIOUS
<1>. USE NamesAssumption
<1>2. Held \in Nat
  BY <1>1, HeldIsReal
<1>3. ASSUME UNCHANGED <<Listed, bytes, retired, unread, Summed>>, holder' = holder
      PROVE  Account' /\ Held' = Held
  <2>1. (Gone \ unread)' = Gone \ unread
    BY <1>3 DEF Gone
  <2>2. /\ Sum(Gone \ unread)' = Sum(Gone \ unread)
        /\ Sum(Listed)' = Sum(Listed) /\ Sum(unread)' = Sum(unread)
    BY <1>3, <2>1 DEF Sum
  <2>3. Account'
    BY <1>1, <1>3, <2>2 DEF Account
  <2>. QED BY <1>3, <2>2, <2>3 DEF Held
<1>4. ASSUME NEW t \in Tunnel, RegisterTunnel(t) PROVE Account' /\ Held' = Held
  <2>1. /\ DOMAIN tunnels' = DOMAIN tunnels \cup {t} /\ t \notin DOMAIN tunnels
        /\ tunnels'[t] = {} /\ \A u \in DOMAIN tunnels : tunnels'[u] = tunnels[u]
    BY <1>4 DEF RegisterTunnel
  <2>2. Listed' = Listed
    BY <2>1 DEF Listed
  <2>. QED BY <1>3, <1>4, <2>2 DEF RegisterTunnel, lockVars, Summed
<1>5. ASSUME NEW t \in Tunnel, Retire(t) PROVE Account' /\ Held' = Held
  <2>1. /\ holder \in Tunnel /\ holder' \notin Tunnel /\ unread = {} /\ retired' = retired + sum
        /\ UNCHANGED <<Listed, bytes, unread>>
    BY <1>5 DEF Retire, Retired, Listed
  <2>2. (Gone \ unread)' = Gone \ unread /\ Sum(Gone \ unread)' = Sum(Gone \ unread)
    BY <2>1 DEF Gone, Sum
  <2>3. /\ Sum(Listed)' = Sum(Listed) /\ Sum(Listed) \in Nat /\ Sum(unread) = 0
        /\ retired \in Nat /\ sum \in Nat
    BY <1>1, <2>1, SumFacts DEF Sum, OnList, Typed, TypeOK
  <2>4. Account'
    BY <1>1, <2>1, <2>2, <2>3 DEF Account, Summed
  <2>. QED BY <2>1, <2>3, <2>4 DEF Held, Summed
<1>6. ASSUME SampleBegins PROVE Account' /\ Held' = Held
  <2>1. /\ holder \notin Tunnel /\ holder' \notin Tunnel /\ unread = {} /\ unread' = Listed
        /\ UNCHANGED <<Listed, bytes, retired>>
    BY <1>1, <1>6 DEF SampleBegins, registryVars, Listed, OnList
  <2>2. (Gone \ unread)' = Gone \ unread
    BY <2>1 DEF Gone
  <2>. QED BY <1>1, <2>1, <2>2 DEF Account, Held, Summed, Sum
<1>7. ASSUME SampleSummed PROVE Account' /\ Held' = Held
  <2>1. /\ holder \notin Tunnel /\ holder' \notin Tunnel
        /\ UNCHANGED <<Listed, bytes, retired, unread>>
    BY <1>7 DEF SampleSummed, registryVars, Listed
  <2>2. (Gone \ unread)' = Gone \ unread
    BY <2>1 DEF Gone
  <2>. QED BY <1>1, <2>1, <2>2 DEF Account, Held, Summed, Sum
<1>8. ASSUME SamplePushed \/ PersistBegins \/ PersistEnds \/ PersistFails \/ UNCHANGED vars
      PROVE  Account' /\ Held' = Held
  BY <1>3, <1>8 DEF SamplePushed, PersistBegins, PersistEnds, PersistFails, vars, registryVars,
     lockVars, Listed, Summed
<1>. QED
  BY <1>1, <1>2, <1>4, <1>5, <1>6, <1>7, <1>8, UnregisterHeld, RegisterHeld, LoadHeld, CountHeld
  DEF Working

\* The sample stays within its window, whatever the relays count meanwhile.
LEMMA StepWindow == Typed /\ OnList /\ Account /\ Window /\ (Working \/ UNCHANGED vars) => Window'
<1>1. SUFFICES ASSUME Typed, OnList, Account, Window, Working \/ UNCHANGED vars PROVE Window'
  OBVIOUS
<1>. USE NamesAssumption
<1>2. Held \in Nat /\ Held' \in Nat /\ Held <= Held'
  BY <1>1, HeldIsReal, StepHeld
<1>3. /\ Listed \in SUBSET DOMAIN bytes /\ unread \in SUBSET DOMAIN bytes
      /\ Listed \ unread \in SUBSET DOMAIN bytes
      /\ retired \in Nat /\ sum \in Nat /\ floor \in Nat /\ total \in Nat /\ last \in Nat
      /\ due \in Nat
  BY <1>1 DEF Typed, TypeOK, OnList
<1>4. /\ Sum(Listed) \in Nat /\ Sum(unread) \in Nat /\ Sum(Listed \ unread) \in Nat /\ Sum({}) = 0
  BY <1>1, <1>3, SumFacts
<1>5. ASSUME holder' # "sampler", sampler' = sampler, UNCHANGED <<due, total, last, floor>>
      PROVE  Window'
  BY <1>1, <1>2, <1>3, <1>5 DEF Window
<1>6. ASSUME NEW t \in Tunnel, RegisterTunnel(t) \/ Unregister(t) \/ Retire(t) PROVE Window'
  BY <1>5, <1>6 DEF RegisterTunnel, Unregister, Retire, lockVars, sampleVars, registryVars
<1>7. ASSUME NEW t \in Tunnel, NEW p \in Proxy, RegisterProxy(t, p) PROVE Window'
  BY <1>5, <1>7 DEF RegisterProxy, lockVars, sampleVars
<1>8. ASSUME NEW p \in Proxy, Count(p) PROVE Window'
  <2>1. UNCHANGED <<Listed, unread, retired, sum, floor, total, last, holder, sampler>>
    BY <1>8 DEF Count, lockVars, sampleVars, Listed
  <2>2. /\ Sum(unread)' = Sum(unread) + (IF p \in unread THEN 1 ELSE 0)
        /\ Sum(Listed \ unread)' = Sum(Listed \ unread) + (IF p \in Listed \ unread THEN 1 ELSE 0)
    <3>1. (Listed \ unread)' = Listed \ unread
      BY <2>1
    <3>. QED BY <1>1, <1>3, <1>8, <2>1, <3>1, CountSums DEF Sum
  <2>3. due' <= Held'
    BY <1>1, <1>8, CountHeld DEF Window
  <2>. QED BY <1>1, <1>2, <1>3, <1>4, <2>1, <2>2, <2>3 DEF Window
<1>9. ASSUME NEW p \in Proxy, Load(p) PROVE Window'
  <2>1. /\ p \in unread /\ unread' = unread \ {p} /\ sum' = sum + bytes[p]
        /\ UNCHANGED <<Listed, retired, due, floor, total, last, holder, sampler, bytes>>
    BY <1>9 DEF Load, registryVars, sampleVars, Listed
  <2>2. CASE holder # "sampler"
    BY <1>5, <2>1, <2>2
  <2>3. CASE holder = "sampler"
    <3>. DEFINE r == unread \ {p}
    <3>. DEFINE d == Listed \ unread
    <3>1. /\ r \in SUBSET DOMAIN bytes /\ p \in DOMAIN bytes \ r /\ unread = r \cup {p}
          /\ d \in SUBSET DOMAIN bytes /\ p \in DOMAIN bytes \ d /\ bytes[p] \in Nat
      BY <1>1, <1>3, <2>1 DEF Typed, TypeOK
    <3>2. (Listed \ unread)' = d \cup {p}
      BY <1>1, <2>1, <2>3 DEF OnList
    <3>. HIDE DEF r, d
    <3>3. /\ Sum(r \cup {p}) = bytes[p] + Sum(r) /\ Sum(r) \in Nat
          /\ Sum(d \cup {p}) = bytes[p] + Sum(d) /\ Sum(d) \in Nat
      BY <1>1, <3>1, SumFacts
    <3>4. Sum(unread)' = Sum(r) /\ Sum(Listed \ unread)' = bytes[p] + Sum(d)
      BY <2>1, <3>2, <3>3 DEF Sum, r
    <3>5. /\ floor <= sum + (bytes[p] + Sum(r)) /\ sum <= retired + Sum(d)
          /\ last <= sum + (bytes[p] + Sum(r))
      BY <1>1, <2>3, <3>1, <3>3 DEF Window, d
    <3>6. /\ floor' <= sum' + Sum(unread)' /\ sum' <= retired' + Sum(Listed \ unread)'
          /\ last' <= sum' + Sum(unread)'
      BY <1>3, <2>1, <3>1, <3>3, <3>4, <3>5
    <3>. QED BY <1>1, <1>2, <1>3, <2>1, <3>6 DEF Window
  <2>. QED BY <2>2, <2>3
<1>10. ASSUME SampleBegins PROVE Window'
  <2>1. /\ holder = Nobody /\ sum' = retired /\ unread' = Listed /\ floor' = due
        /\ sampler' = "sum" /\ UNCHANGED <<Listed, bytes, retired, due, last>>
    BY <1>10 DEF SampleBegins, registryVars, Listed
  <2>2. due <= Held /\ last <= Held
    BY <1>1 DEF Window
  <2>3. Sum(unread)' = Sum(Listed) /\ Sum(Listed \ unread)' = Sum({})
    <3>1. (Listed \ unread)' = {}
      BY <2>1
    <3>. QED BY <2>1, <3>1 DEF Sum
  <2>4. unread = {} /\ holder \notin Tunnel
    BY <1>1, <2>1 DEF OnList
  <2>5. Held = retired + Sum(Listed)
    BY <1>3, <1>4, <2>4 DEF Held, Summed
  <2>. QED BY <1>2, <1>3, <1>4, <2>1, <2>2, <2>3, <2>5 DEF Window
<1>11. ASSUME SampleSummed PROVE Window'
  <2>1. /\ holder = "sampler" /\ unread = {} /\ total' = sum /\ sampler = "sum"
        /\ holder' = Nobody /\ sampler' = "push" /\ UNCHANGED <<due, last, floor>>
    BY <1>11 DEF SampleSummed, registryVars
  <2>2. Listed \ unread = Listed /\ holder \notin Tunnel
    BY <2>1
  <2>3. Held = retired + Sum(Listed)
    BY <1>3, <1>4, <2>2 DEF Held, Summed
  <2>4. floor <= sum + Sum({}) /\ last <= sum + Sum({}) /\ sum <= retired + Sum(Listed)
    BY <1>1, <2>1, <2>2 DEF Window
  <2>. QED BY <1>1, <1>2, <1>3, <1>4, <2>1, <2>3, <2>4 DEF Window
<1>12. ASSUME SamplePushed PROVE Window'
  <2>1. /\ sampler = "push" /\ last' = total /\ sampler' \in {"persist", "idle"}
        /\ UNCHANGED <<holder, due>>
    BY <1>12 DEF SamplePushed, lockVars, registryVars
  <2>2. holder # "sampler"
    BY <1>1, <2>1 DEF OnList
  <2>. QED BY <1>1, <1>2, <1>3, <2>1, <2>2 DEF Window
<1>13. ASSUME PersistBegins \/ PersistEnds \/ PersistFails PROVE Window'
  <2>1. /\ sampler \in {"persist", "write"} /\ sampler' \in {"write", "idle"}
        /\ UNCHANGED <<holder, due, last>>
    BY <1>13 DEF PersistBegins, PersistEnds, PersistFails, lockVars, registryVars
  <2>2. holder # "sampler"
    BY <1>1, <2>1 DEF OnList
  <2>. QED BY <1>1, <1>2, <1>3, <2>1, <2>2 DEF Window
<1>14. CASE UNCHANGED vars
  <2>1. /\ UNCHANGED <<holder, sampler, due, last, floor, total, sum, retired, bytes, unread, Listed>>
    BY <1>14 DEF vars, registryVars, lockVars, sampleVars, Listed
  <2>2. Sum(unread)' = Sum(unread) /\ Sum(Listed \ unread)' = Sum(Listed \ unread)
    BY <2>1 DEF Sum
  <2>. QED BY <1>1, <1>2, <1>3, <2>1, <2>2 DEF Window
<1>. QED
  BY <1>1, <1>6, <1>7, <1>8, <1>9, <1>10, <1>11, <1>12, <1>13, <1>14 DEF Working
-----------------------------------------------------------------------------
(* The history.                                                            *)

\* The steps back of a sequence are finitely many.
LEMMA BackFinite ==
    ASSUME NEW h \in Seq(Nat)
    PROVE  IsFiniteSet(Back(h)) /\ Descents(h) \in Nat
<1>1. IsFiniteSet(1 .. Len(h) - 1)
  BY FS_Interval
<1>2. Back(h) \in SUBSET (1 .. Len(h) - 1)
  BY DEF Back
<1>3. IsFiniteSet(Back(h))
  BY <1>1, <1>2, FS_Subset
<1>. QED BY <1>3, FS_CardinalityType DEF Descents

\* A history of no sample, or of one, never steps back.
LEMMA ShortHasNoDescent ==
    ASSUME NEW h \in Seq(Nat), Len(h) <= 1
    PROVE  Descents(h) = 0
<1>1. Back(h) = {}
  BY DEF Back
<1>. QED BY <1>1, FS_EmptySet DEF Descents

\* One more sample steps back at most once, and not at all when it is no lower
\* than the one before it.
LEMMA AppendDescents ==
    ASSUME NEW h \in Seq(Nat), NEW x \in Nat
    PROVE  /\ Descents(Append(h, x)) <= Descents(h) + 1
           /\ h # <<>> /\ h[Len(h)] <= x => Descents(Append(h, x)) = Descents(h)
<1>. DEFINE a == Append(h, x)
<1>1. /\ a \in Seq(Nat) /\ Len(a) = Len(h) + 1 /\ Len(h) \in Nat
      /\ \A i \in 1 .. Len(h) : a[i] = h[i]
      /\ a[Len(h) + 1] = x
  OBVIOUS
<1>. HIDE DEF a
<1>2. \A i \in 1 .. Len(h) : h[i] \in Nat
  OBVIOUS
<1>3. Back(a) = Back(h) \cup {i \in {Len(h)} : i >= 1 /\ h[i] > x}
  <2>1. ASSUME NEW i \in Back(a) PROVE i \in Back(h) \/ (i = Len(h) /\ i >= 1 /\ h[i] > x)
    <3>1. i \in 1 .. Len(h) /\ a[i] > a[i + 1]
      BY <1>1 DEF Back
    <3>2. CASE i = Len(h)
      BY <1>1, <3>1, <3>2
    <3>3. CASE i # Len(h)
      <4>1. i + 1 \in 1 .. Len(h) /\ i \in 1 .. Len(h) - 1
        BY <1>1, <3>1, <3>3
      <4>. QED BY <1>1, <3>1, <4>1 DEF Back
    <3>. QED BY <3>2, <3>3
  <2>2. ASSUME NEW i \in Back(h) PROVE i \in Back(a)
    <3>1. i \in 1 .. Len(h) /\ i + 1 \in 1 .. Len(h) /\ h[i] > h[i + 1]
      BY <1>1 DEF Back
    <3>. QED BY <1>1, <3>1 DEF Back
  <2>3. ASSUME NEW i \in {Len(h)}, i >= 1, h[i] > x PROVE i \in Back(a)
    <3>1. i \in 1 .. Len(a) - 1 /\ a[i] = h[i] /\ a[i + 1] = x
      BY <1>1, <2>3
    <3>. QED BY <2>3, <3>1 DEF Back
  <2>. QED BY <2>1, <2>2, <2>3
<1>4. IsFiniteSet(Back(h)) /\ Descents(h) \in Nat
  BY BackFinite
<1>5. CASE Len(h) >= 1 /\ h[Len(h)] > x
  <2>1. Back(a) = Back(h) \cup {Len(h)}
    BY <1>3, <1>5
  <2>2. Descents(a) <= Descents(h) + 1
    <3>1. Cardinality(Back(h) \cup {Len(h)})
             = IF Len(h) \in Back(h) THEN Cardinality(Back(h)) ELSE Cardinality(Back(h)) + 1
      BY <1>4, FS_AddElement
    <3>. QED BY <1>4, <2>1, <3>1 DEF Descents
  <2>3. ~ (h[Len(h)] <= x)
    BY <1>1, <1>2, <1>5
  <2>. QED BY <2>2, <2>3 DEF a
<1>6. CASE ~ (Len(h) >= 1 /\ h[Len(h)] > x)
  <2>1. Back(a) = Back(h)
    BY <1>3, <1>6
  <2>2. Descents(a) = Descents(h)
    BY <2>1 DEF Descents
  <2>. QED BY <1>4, <2>2 DEF a
<1>. QED BY <1>5, <1>6

\* Dropping the oldest sample drops its step back, if it was one.
LEMMA TailDescents ==
    ASSUME NEW h \in Seq(Nat), h # <<>>
    PROVE  Descents(Tail(h)) <= Descents(h)
<1>. DEFINE f == [i \in Back(Tail(h)) |-> i + 1]
<1>1. /\ Tail(h) \in Seq(Nat) /\ Len(Tail(h)) = Len(h) - 1 /\ Len(h) \in Nat \ {0}
      /\ \A i \in 1 .. Len(h) - 1 : Tail(h)[i] = h[i + 1]
  OBVIOUS
<1>2. ASSUME NEW i \in Back(Tail(h)) PROVE i \in Int /\ i + 1 \in Back(h)
  <2>1. i \in 1 .. (Len(h) - 1) - 1 /\ Tail(h)[i] > Tail(h)[i + 1]
    BY <1>1 DEF Back
  <2>2. i \in 1 .. Len(h) - 1 /\ i + 1 \in 1 .. Len(h) - 1
    BY <1>1, <2>1
  <2>3. h[i + 1] > h[(i + 1) + 1]
    BY <1>1, <2>1, <2>2
  <2>. QED BY <2>2, <2>3 DEF Back
<1>3. f \in Injection(Back(Tail(h)), Back(h))
  <2>1. f \in [Back(Tail(h)) -> Back(h)]
    BY <1>2
  <2>2. \A i, j \in Back(Tail(h)) : f[i] = f[j] => i = j
    BY <1>2
  <2>. HIDE DEF f
  <2>. QED BY <2>1, <2>2 DEF Injection, IsInjective
<1>. HIDE DEF f
<1>. QED BY <1>3, FS_Injection, BackFinite DEF Descents

\* Trimming keeps the last sample and adds no step back.
LEMMA TrimmedDescents ==
    ASSUME NEW h \in Seq(Nat), h # <<>>
    PROVE  /\ Trimmed(h) # <<>> /\ Trimmed(h)[Len(Trimmed(h))] = h[Len(h)]
           /\ Descents(Trimmed(h)) <= Descents(h)
<1>1. CASE Len(h) > HistoryCap
  <2>1. Trimmed(h) = Tail(h) /\ Len(h) \in Nat /\ Len(h) > 1
    BY <1>1, BoundsAssumption DEF Trimmed
  <2>2. /\ Tail(h) \in Seq(Nat) /\ Len(Tail(h)) = Len(h) - 1
        /\ \A i \in 1 .. Len(h) - 1 : Tail(h)[i] = h[i + 1]
    OBVIOUS
  <2>3. Len(h) - 1 \in 1 .. Len(h) - 1 /\ (Len(h) - 1) + 1 = Len(h)
    BY <2>1
  <2>4. Tail(h)[Len(Tail(h))] = h[Len(h)]
    BY <2>2, <2>3
  <2>5. Tail(h) # <<>>
    <3>1. Len(Tail(h)) # 0
      <4>1. Len(h) - 1 # 0
        BY <2>1
      <4>2. Len(Tail(h)) = Len(h) - 1
        BY <2>2
      <4>. QED BY <4>1, <4>2, Zenon
    <3>2. Len(<<>>) = 0
      OBVIOUS
    <3>. QED BY <3>1, <3>2, Zenon
  <2>. QED BY <2>1, <2>4, <2>5, TailDescents
<1>2. CASE ~ (Len(h) > HistoryCap)
  <2>1. Trimmed(h) = h
    BY <1>2 DEF Trimmed
  <2>. QED BY <2>1, BackFinite
<1>. QED BY <1>1, <1>2

\* A push ends the history with the new sample, which steps back only when it
\* is the first of its process.
LEMMA PushSteps ==
    ASSUME Typed, OnList, Window, Steps, SamplePushed
    PROVE  Steps'
<1>. USE BoundsAssumption
<1>1. /\ history \in Seq(Nat) /\ total \in Nat /\ floor \in Nat /\ last \in Nat
      /\ starts \in Nat /\ starts >= 1 /\ n \in Nat
  BY DEF Typed, TypeOK
<1>2. /\ history' = Trimmed(Append(history, total)) /\ last' = total /\ n' = n + 1
      /\ sampler = "push" /\ UNCHANGED <<file, starts>>
  BY DEF SamplePushed
<1>. DEFINE a == Append(history, total)
<1>3. a \in Seq(Nat) /\ a # <<>> /\ a[Len(a)] = total
  BY <1>1
<1>4. Descents(a) < starts
  <2>1. Descents(history) \in Nat /\ Descents(a) \in Nat
    BY <1>1, <1>3, BackFinite
  <2>2. CASE n > 0
    <3>1. history # <<>> /\ history[Len(history)] = last /\ Descents(history) < starts
      BY <2>2 DEF Steps
    <3>2. last <= total
      BY <1>1, <1>2 DEF Window
    <3>. QED BY <1>1, <3>1, <3>2, AppendDescents
  <2>3. CASE n = 0 /\ history = <<>>
    <3>1. Len(a) <= 1
      BY <2>3
    <3>2. Descents(a) = 0
      <4>. HIDE DEF a
      <4>. QED BY <1>3, <3>1, ShortHasNoDescent
    <3>. QED BY <1>1, <3>2
  <2>4. CASE n = 0 /\ history # <<>>
    <3>1. Descents(history) + 1 < starts
      BY <2>4 DEF Steps
    <3>2. Descents(a) <= Descents(history) + 1
      BY <1>1, AppendDescents
    <3>. QED BY <1>1, <2>1, <3>1, <3>2
  <2>. QED BY <1>1, <2>2, <2>3, <2>4
<1>5. /\ history' # <<>> /\ history'[Len(history')] = total
      /\ Descents(history') <= Descents(a)
  <2>. HIDE DEF a
  <2>1. /\ Trimmed(a) # <<>> /\ Trimmed(a)[Len(Trimmed(a))] = a[Len(a)]
        /\ Descents(Trimmed(a)) <= Descents(a)
    BY <1>3, TrimmedDescents
  <2>. QED BY <1>2, <1>3, <2>1 DEF a
<1>6. Descents(history') < starts
  <2>1. history' \in Seq(Nat)
    BY <1>1, <1>2, TrimmedFits DEF Typed, TypeOK
  <2>2. Descents(history') \in Nat /\ Descents(a) \in Nat
    BY <1>3, <2>1, BackFinite
  <2>. QED BY <1>1, <1>4, <1>5, <2>2
<1>7. file # Torn => file = <<>> \/ Descents(file) < starts
  BY DEF Steps
<1>. QED BY <1>1, <1>2, <1>5, <1>6, <1>7 DEF Steps

\* Every step keeps the history and the file as near to order as restarts let
\* them be.
LEMMA StepSteps == Typed /\ OnList /\ Window /\ Steps /\ [Next]_vars => Steps'
<1>1. SUFFICES ASSUME Typed, OnList, Window, Steps, [Next]_vars PROVE Steps'
  OBVIOUS
<1>2. starts \in Nat /\ n \in Nat /\ starts >= 1
  BY <1>1, BoundsAssumption DEF Typed, TypeOK
<1>3. ASSUME UNCHANGED <<n, history, last, starts, file>> PROVE Steps'
  BY <1>1, <1>3 DEF Steps
<1>4. ASSUME NEW t \in Tunnel, RegisterTunnel(t) \/ Unregister(t) \/ Retire(t) PROVE Steps'
  BY <1>3, <1>4 DEF RegisterTunnel, Unregister, Retire, sampleVars
<1>5. ASSUME NEW t \in Tunnel, NEW p \in Proxy, RegisterProxy(t, p) PROVE Steps'
  BY <1>3, <1>5 DEF RegisterProxy, sampleVars
<1>6. ASSUME NEW p \in Proxy, Count(p) \/ Load(p) PROVE Steps'
  BY <1>3, <1>6 DEF Count, Load, sampleVars
<1>7. ASSUME SampleBegins \/ SampleSummed \/ PersistFails \/ UNCHANGED vars PROVE Steps'
  BY <1>3, <1>7 DEF SampleBegins, SampleSummed, PersistFails, vars, sampleVars
<1>8. ASSUME PersistBegins PROVE Steps'
  BY <1>1, <1>8 DEF PersistBegins, Steps
<1>9. ASSUME PersistEnds PROVE Steps'
  <2>1. file' = history /\ UNCHANGED <<n, history, last, starts>>
    BY <1>9 DEF PersistEnds
  <2>2. history = <<>> \/ Descents(history) < starts
    <3>1. history \in Seq(Nat)
      BY <1>1 DEF Typed, TypeOK
    <3>2. Descents(history) \in Nat
      BY <3>1, BackFinite
    <3>. QED BY <1>1, <1>2, <3>2 DEF Steps
  <2>. QED BY <1>1, <2>1, <2>2 DEF Steps
<1>10. ASSUME Restart PROVE Steps'
  <2>1. /\ starts' = starts + 1 /\ history' = Loaded /\ n' = 0 /\ last' = 0 /\ file' = file
    BY <1>10 DEF Restart
  <2>2. file # Torn => file = <<>> \/ (Descents(file) < starts /\ Descents(file) \in Nat)
    BY <1>1, BackFinite DEF Steps, Typed, TypeOK
  <2>3. history' = <<>> \/ Descents(history') + 1 < starts'
    <3>1. CASE file = Torn
      BY <2>1, <3>1 DEF Loaded
    <3>2. CASE file # Torn
      <4>1. history' = file
        BY <2>1, <3>2 DEF Loaded
      <4>. QED BY <1>2, <2>1, <2>2, <3>2, <4>1
    <3>. QED BY <3>1, <3>2
  <2>4. file' # Torn => file' = <<>> \/ Descents(file') < starts'
    BY <1>2, <2>1, <2>2
  <2>. QED BY <2>1, <2>3, <2>4 DEF Steps
<1>. QED
  BY <1>1, <1>4, <1>5, <1>6, <1>7, <1>8, <1>9, <1>10, PushSteps DEF Next
-----------------------------------------------------------------------------
(* The theorems.                                                           *)

IInv == Typed /\ OnList /\ Account /\ Window /\ Steps

\* A process that has just been started has nothing to account for.
LEMMA FreshSums == Fresh => Account /\ Window
<1>1. SUFFICES ASSUME Fresh PROVE Account /\ Window
  OBVIOUS
<1>2. /\ retired = 0 /\ due = 0 /\ sum = 0 /\ holder = Nobody /\ sampler = "idle" /\ last = 0
      /\ DOMAIN bytes = {} /\ Listed = {} /\ unread = {}
  BY <1>1 DEF Fresh, Listed
<1>3. SumOf(bytes, {}) = 0
  <2>1. IsFiniteSet(DOMAIN bytes) /\ \A x \in DOMAIN bytes : bytes[x] \in Nat
    BY <1>2, FS_EmptySet
  <2>. QED BY <2>1, SumStep
<1>4. Gone \ unread = {} /\ holder \notin Tunnel /\ holder # "sampler"
  BY <1>2, NamesAssumption DEF Gone
<1>5. Sum(Gone \ unread) = 0 /\ Sum(Listed) = 0
  BY <1>2, <1>3, <1>4 DEF Sum
<1>6. Summed = 0 /\ Held = 0
  BY <1>2, <1>4, <1>5 DEF Held, Summed
<1>. QED BY <1>2, <1>4, <1>5, <1>6 DEF Account, Window

\* The invariant holds at the start.
LEMMA InitInv == Init => IInv
<1>1. SUFFICES ASSUME Init PROVE IInv
  OBVIOUS
<1>2. Steps
  BY <1>1 DEF Init, Fresh, Steps
<1>. QED BY <1>1, <1>2, InitTyped, InitOnList, FreshSums DEF Init, IInv

\* Every step keeps it.
LEMMA StepInv == IInv /\ [Next]_vars => IInv'
<1>1. SUFFICES ASSUME IInv, [Next]_vars PROVE IInv'
  OBVIOUS
<1>2. Typed' /\ OnList' /\ Steps'
  BY <1>1, StepTyped, StepOnList, StepSteps DEF IInv
<1>3. CASE Working \/ UNCHANGED vars
  BY <1>1, <1>2, <1>3, StepHeld, StepWindow DEF IInv
<1>4. CASE Restart
  <2>1. /\ retired' = 0 /\ due' = 0 /\ sum' = 0 /\ holder' = Nobody /\ sampler' = "idle" /\ last' = 0
        /\ DOMAIN bytes' = {} /\ Listed' = {} /\ unread' = {}
    BY <1>4 DEF Restart, Listed
  <2>2. SumOf(bytes', {}) = 0
    <3>1. IsFiniteSet(DOMAIN bytes') /\ \A x \in DOMAIN bytes' : bytes'[x] \in Nat
      BY <2>1, FS_EmptySet
    <3>. QED BY <3>1, SumStep
  <2>3. (Gone \ unread)' = {} /\ holder' \notin Tunnel /\ holder' # "sampler"
    BY <2>1, NamesAssumption DEF Gone
  <2>4. Account' /\ Window'
    <3>1. Sum(Gone \ unread)' = 0 /\ Sum(Listed)' = 0
      BY <2>1, <2>2, <2>3 DEF Sum
    <3>2. Summed' = 0 /\ Held' = 0
      BY <2>1, <2>3, <3>1 DEF Held, Summed
    <3>. QED BY <2>1, <2>3, <3>1, <3>2 DEF Account, Window
  <2>. QED BY <1>2, <2>4 DEF IInv
<1>. QED BY <1>1, <1>3, <1>4 DEF Next, Working

\* The invariant, in every reachable state.
LEMMA AlwaysInv == Spec => []IInv
BY InitInv, StepInv, PTL DEF Spec

\* The registry and the history keep their types, and the history its cap, in
\* memory and on disk.
THEOREM TypeCorrect == Spec => []TypeOK
<1>1. IInv => TypeOK
  BY DEF IInv, Typed
<1>. QED BY <1>1, AlwaysInv, PTL

\* Although relays count without the lock, and tunnels come and go, a sample has
\* every byte counted, while its tunnel was listed, before the sampler took the
\* lock, and is at most what had been relayed when it is pushed.
THEOREM AlwaysInWindow == Spec => []SampleInWindow
<1>1. IInv => SampleInWindow
  <2>1. SUFFICES ASSUME IInv, sampler = "push" PROVE floor <= total /\ total <= Total(DOMAIN bytes)
    BY DEF SampleInWindow
  <2>2. Held \in Nat /\ Held <= Sum(DOMAIN bytes)
    BY <2>1, HeldIsReal DEF IInv
  <2>3. floor <= total /\ total <= Held
    BY <2>1 DEF IInv, Window
  <2>4. Sum(DOMAIN bytes) \in Nat /\ total \in Nat
    BY <2>1, SumFacts DEF IInv, Typed, TypeOK
  <2>5. Total(DOMAIN bytes) = Sum(DOMAIN bytes)
    BY TotalIsSum
  <2>. QED BY <2>2, <2>3, <2>4, <2>5
<1>. QED BY <1>1, AlwaysInv, PTL

\* Within one process the samples never go down.
THEOREM AlwaysMonotonic == Spec => SamplesMonotonic
<1>1. IInv /\ [Next]_vars => [n' = n + 1 => last <= last']_vars
  <2>1. SUFFICES ASSUME IInv, [Next]_vars, n' = n + 1 PROVE last <= last'
    BY DEF vars
  <2>2. n \in Nat /\ last \in Nat /\ floor \in Nat /\ total \in Nat
    BY <2>1, BoundsAssumption DEF IInv, Typed, TypeOK
  <2>3. CASE SamplePushed
    <3>1. sampler = "push" /\ last' = total
      BY <2>3 DEF SamplePushed
    <3>. QED BY <2>1, <2>2, <3>1 DEF IInv, Window
  <2>4. CASE ~ SamplePushed
    <3>1. n' = n \/ n' = 0
      BY <2>1, <2>4 DEF Next, RegisterTunnel, Unregister, Retire, RegisterProxy, Count, Load,
         SampleBegins, SampleSummed, PersistBegins, PersistEnds, PersistFails, Restart, vars,
         sampleVars
    <3>. QED BY <2>1, <2>2, <3>1
  <2>. QED BY <2>3, <2>4
<1>. QED BY <1>1, AlwaysInv, PTL DEF Spec, SamplesMonotonic

\* The history steps back at most once for every restart, whatever a crash left
\* in the file.
THEOREM OneStepBackAlways == Spec => []OneStepBackPerRestart
<1>1. IInv => OneStepBackPerRestart
  <2>1. SUFFICES ASSUME IInv PROVE Descents(history) < starts
    BY DEF OneStepBackPerRestart, Descents, Back
  <2>2. history \in Seq(Nat) /\ starts \in Nat /\ starts >= 1 /\ n \in Nat
    BY <2>1, BoundsAssumption DEF IInv, Typed, TypeOK
  <2>3. Descents(history) \in Nat
    BY <2>2, BackFinite
  <2>4. CASE history = <<>>
    <3>1. Len(history) <= 1
      BY <2>4
    <3>2. Descents(history) = 0
      BY <2>2, <3>1, ShortHasNoDescent
    <3>. QED BY <2>2, <3>2
  <2>5. CASE history # <<>>
    BY <2>1, <2>2, <2>3, <2>5 DEF IInv, Steps
  <2>. QED BY <2>4, <2>5
<1>. QED BY <1>1, AlwaysInv, PTL
=============================================================================
