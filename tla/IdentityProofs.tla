---------------------------- MODULE IdentityProofs ----------------------------
(***************************************************************************)
(* What the clients pinned stays what the server serves in Identity, for   *)
(* every set of keys, as long as no two processes start at the same time.  *)
(***************************************************************************)
EXTENDS Identity, TLAPS

Making == {"create one", "write one", "create two", "write two"}

\* Process p has both halves of artifact a in memory and is past making them.
Passed(p, a) == \/ pc[p] \in {"loaded", "up"}
                \/ a = "tls" /\ pc[p] # "off" /\ art[p] = "noise"

\* A start begins with the TLS pair, and no two start at the same time.
Alone == /\ \A p \in Process : pc[p] = "off" => art[p] = "tls"
         /\ \A p, q \in Process : Starting(p) /\ Starting(q) => p = q

\* The second file is never there without the first one written.
Ordered == \A a \in Artifact :
               a \notin lost /\ two[a] # "absent" => /\ one[a] \in Key
                                                     /\ two[a] \in {"empty", one[a]}

\* A key on the disk was generated.
Old == \A a \in Artifact : two[a] \in Key => two[a] \in used

\* What making artifact a of key k finds and leaves on the disk, stage by stage.
Stage(s, a, k) ==
    /\ s = "read" => There(a)
    /\ s = "create one" => ~There(a)
    /\ s = "write one" => one[a] = "empty"
    /\ s \in {"create two", "write two"} => one[a] = k
    /\ s \in Making \ {"write two"} => two[a] # k /\ (a \notin lost => two[a] = "absent")
    /\ s = "write two" => two[a] = "empty"

\* The process that starts has the new key's halves in memory, and no other
\* process has loaded the artifact it makes.
Stages == \A p \in Process :
              /\ Stage(pc[p], art[p], mem[p][art[p]].one)
              /\ pc[p] \in Making =>
                     /\ mem[p][art[p]].one \in used
                     /\ mem[p][art[p]].two = mem[p][art[p]].one
                     /\ art[p] \notin lost => \A q \in Process : ~Passed(q, art[p])

Loaded == \A p \in Process, a \in Artifact :
              a \notin lost /\ Passed(p, a) => /\ two[a] # "absent"
                                               /\ mem[p][a] = [one |-> one[a], two |-> two[a]]

Pins == \A c \in pinned :
            /\ "noise" \notin lost => two["noise"] = c.noise
            /\ "tls" \notin lost => two["tls"] # "absent" /\ one["tls"] = c.tls

IInv == TypeOK /\ Alone /\ Ordered /\ Old /\ Stages /\ Loaded /\ Pins

\* There is nothing to serve at first.
LEMMA InitHolds == Init => IInv
BY KeyAssumption DEF Init, IInv, TypeOK, Alone, Ordered, Old, Stages, Stage, Making, Loaded, Pins,
                     Passed, Starting, Nothing, Content, Process, Artifact

\* Every other process is as it was, and none of them starts.
Others(p) == \A q \in Process \ {p} : /\ pc[q] \in {"off", "up"}
                                      /\ pc'[q] = pc[q] /\ art'[q] = art[q] /\ mem'[q] = mem[q]

\* A step that is p's alone.
OfProcess(p) == \A q \in Process \ {p} : pc'[q] = pc[q] /\ art'[q] = art[q] /\ mem'[q] = mem[q]

\* A step of the one process that starts, while all others rest.
LEMMA OthersRest ==
    ASSUME IInv, NEW p \in Process, OfProcess(p), pc'[p] = "off" => art'[p] = "tls",
           Starting(p) \/ \A q \in Process : ~Starting(q)
    PROVE  Others(p) /\ Alone'
<1>1. \A q \in Process \ {p} : pc[q] \in {"off", "up"}
  BY DEF IInv, Alone, Starting
<1>. QED BY <1>1 DEF Others, OfProcess, IInv, Alone, Starting

\* Then only p's own stage and what the others have loaded is to be looked at.
LEMMA OnlyOwnStage ==
    ASSUME IInv, NEW p \in Process, Others(p),
           Stage(pc[p], art[p], mem[p][art[p]].one)',
           pc'[p] \in Making =>
               /\ mem'[p][art'[p]].one \in used'
               /\ mem'[p][art'[p]].two = mem'[p][art'[p]].one
               /\ art'[p] \notin lost' => \A q \in Process : ~Passed(q, art[p])'
    PROVE  Stages'
<1>. SUFFICES ASSUME NEW q \in Process \ {p}
              PROVE  /\ Stage(pc[q], art[q], mem[q][art[q]].one)'
                     /\ pc'[q] \notin Making
  BY DEF Stages
<1>1. pc'[q] \in {"off", "up"}
  BY DEF Others
<1>. QED BY <1>1 DEF Stage, Making

\* What the others have loaded is on the disk when those files did not change.
LEMMA OnlyOwnLoaded ==
    ASSUME IInv, NEW p \in Process, Others(p), lost' = lost,
           \A q \in Process, a \in Artifact :
               a \notin lost /\ Passed(q, a) => one'[a] = one[a] /\ two'[a] = two[a],
           \A a \in Artifact :
               a \notin lost /\ Passed(p, a)' =>
                   two'[a] # "absent" /\ mem'[p][a] = [one |-> one'[a], two |-> two'[a]]
    PROVE  Loaded'
<1>. SUFFICES ASSUME NEW q \in Process \ {p}, NEW a \in Artifact, a \notin lost, Passed(q, a)'
              PROVE  two'[a] # "absent" /\ mem'[q][a] = [one |-> one'[a], two |-> two'[a]]
  BY DEF Loaded
<1>1. Passed(q, a)
  BY DEF Others, Passed
<1>. QED BY <1>1 DEF Others, IInv, Loaded

\* A start finds each pair as the last start left it.
LEMMA StartsHolds == ASSUME IInv, ~Overlap, NEW p \in Process, Starts(p) PROVE IInv'
<1>1. /\ pc[p] = "off" /\ \A q \in Process : ~Starting(q)
      /\ pc' = [pc EXCEPT ![p] = "check"] /\ UNCHANGED <<one, two, art, mem, used, pinned, lost>>
  BY DEF Starts, Goes, disk
<1>2. TypeOK' /\ OfProcess(p) /\ pc'[p] = "check" /\ art[p] = "tls"
  BY <1>1 DEF OfProcess, IInv, TypeOK, Alone, Process
<1>3. Others(p) /\ Alone'
  BY <1>1, <1>2, OthersRest
<1>4. Stages'
  BY <1>2, <1>3, OnlyOwnStage DEF Stage, Making
<1>5. Loaded'
  BY <1>1, <1>2, <1>3, OnlyOwnLoaded DEF Passed
<1>. QED BY <1>1, <1>2, <1>3, <1>4, <1>5 DEF IInv, Ordered, Old, Pins

\* The process ends its start or its life and the disk stays.
LEMMA EndsHolds ==
    ASSUME IInv, NEW p \in Process, Starting(p) \/ pc[p] = "up", Ends(p),
           UNCHANGED <<disk, used, lost>>, pinned' \subseteq [noise : Key, tls : Key], Pins'
    PROVE  IInv'
<1>1. /\ pc' = [pc EXCEPT ![p] = "off"] /\ art' = [art EXCEPT ![p] = "tls"]
      /\ mem' = [mem EXCEPT ![p] = Nothing] /\ UNCHANGED <<one, two, used, lost>>
  BY DEF Ends, Goes, disk
<1>2. Nothing \in [Artifact -> [one : Content, two : Content]]
  BY DEF Nothing, Content
<1>3. TypeOK' /\ OfProcess(p) /\ pc'[p] = "off" /\ art'[p] = "tls"
  <2>1. /\ pc' \in [Process -> {"off", "check", "read", "create one", "write one",
                                "create two", "write two", "loaded", "up"}]
        /\ art' \in [Process -> Artifact]
        /\ mem' \in [Process -> [Artifact -> [one : Content, two : Content]]]
        /\ pc'["tool"] # "up"
    BY <1>1, <1>2 DEF IInv, TypeOK, Process, Artifact
  <2>2. OfProcess(p) /\ pc'[p] = "off" /\ art'[p] = "tls"
    BY <1>1 DEF OfProcess, IInv, TypeOK
  <2>. QED BY <1>1, <2>1, <2>2 DEF IInv, TypeOK
<1>4. Alone'
  BY <1>3 DEF OfProcess, IInv, Alone, Starting
<1>5. Stages'
  <2>. SUFFICES ASSUME NEW q \in Process
                PROVE  /\ Stage(pc[q], art[q], mem[q][art[q]].one)'
                       /\ pc'[q] \in Making =>
                              /\ mem'[q][art'[q]].one \in used'
                              /\ mem'[q][art'[q]].two = mem'[q][art'[q]].one
                              /\ art'[q] \notin lost' => \A r \in Process : ~Passed(r, art[q])'
    BY DEF Stages
  <2>1. CASE q = p
    BY <2>1, <1>3 DEF Stage, Making
  <2>2. CASE q # p
    <3>1. \A r \in Process, a \in Artifact : Passed(r, a)' => Passed(r, a)
      BY <1>3 DEF OfProcess, Passed
    <3>2. art[q] \in Artifact
      BY DEF IInv, TypeOK
    <3>3. pc'[q] = pc[q] /\ art'[q] = art[q] /\ mem'[q] = mem[q]
      BY <2>2, <1>3 DEF OfProcess
    <3>4. Stage(pc[q], art[q], mem[q][art[q]].one)'
      BY <3>3, <1>1, ZenonT(40) DEF IInv, Stages, Stage, There
    <3>. QED BY <3>1, <3>2, <3>3, <3>4, <1>1 DEF IInv, Stages
  <2>. QED BY <2>1, <2>2
<1>6. Loaded'
  <2>. SUFFICES ASSUME NEW q \in Process, NEW a \in Artifact, a \notin lost, Passed(q, a)'
                PROVE  two[a] # "absent" /\ mem'[q][a] = [one |-> one[a], two |-> two[a]]
    BY <1>1 DEF Loaded
  <2>1. q # p /\ Passed(q, a)
    BY <1>3 DEF OfProcess, Passed
  <2>. QED BY <2>1, <1>3 DEF OfProcess, IInv, Loaded
<1>. QED BY <1>1, <1>3, <1>4, <1>5, <1>6 DEF IInv, Ordered, Old

\* The steps of a start that leave both files of every artifact as they are.
LEMMA LooksHolds ==
    ASSUME IInv, NEW p \in Process, FindsPair(p) \/ Generates(p) \/ Reads(p)
    PROVE  IInv'
<1>1. /\ Starting(p) /\ art[p] \in Artifact /\ UNCHANGED <<one, two, pinned, lost>>
      /\ mem[p] \in [Artifact -> [one : Content, two : Content]]
  BY DEF FindsPair, Generates, Reads, Starting, disk, IInv, TypeOK
<1>2. CASE FindsPair(p)
  <2>1. /\ There(art[p]) /\ pc[p] = "check" /\ pc' = [pc EXCEPT ![p] = "read"]
        /\ UNCHANGED <<art, mem, used>>
    BY <1>2 DEF FindsPair, Goes
  <2>2. TypeOK' /\ OfProcess(p) /\ pc'[p] = "read"
    BY <1>1, <2>1 DEF OfProcess, IInv, TypeOK, Process
  <2>3. Others(p) /\ Alone'
    BY <1>1, <2>2, OthersRest
  <2>4. Stages'
    BY <1>1, <2>1, <2>2, <2>3, OnlyOwnStage DEF Stage, Making, There
  <2>5. Loaded'
    <3>1. \A a \in Artifact : Passed(p, a)' => Passed(p, a)
      BY <2>1, <2>2 DEF Passed
    <3>. QED BY <1>1, <2>1, <2>3, <3>1, OnlyOwnLoaded DEF IInv, Loaded
  <2>. QED BY <1>1, <2>1, <2>2, <2>3, <2>4, <2>5 DEF IInv, Ordered, Old, Pins
<1>3. CASE Generates(p)
  <2>1. PICK k \in Key \ used : /\ mem' = [mem EXCEPT ![p][art[p]] = [one |-> k, two |-> k]]
                                /\ used' = used \cup {k}
    BY <1>3 DEF Generates
  <2>2. /\ ~There(art[p]) /\ pc[p] = "check" /\ pc' = [pc EXCEPT ![p] = "create one"]
        /\ art' = art
    BY <1>3 DEF Generates, Goes
  <2>3. TypeOK' /\ OfProcess(p) /\ pc'[p] = "create one"
    <3>1. mem' \in [Process -> [Artifact -> [one : Content, two : Content]]]
      BY <2>1 DEF IInv, TypeOK, Content
    <3>. QED BY <1>1, <2>1, <2>2, <3>1 DEF OfProcess, IInv, TypeOK, Process
  <2>4. mem'[p][art[p]] = [one |-> k, two |-> k] /\ \A a \in Artifact \ {art[p]} : mem'[p][a] = mem[p][a]
    BY <1>1, <2>1 DEF IInv, TypeOK
  <2>5. Others(p) /\ Alone'
    BY <1>1, <2>3, OthersRest
  <2>6. two[art[p]] # k /\ (art[p] \notin lost => two[art[p]] = "absent")
    BY <1>1, <2>2, KeyAssumption DEF IInv, Ordered, Old, There
  <2>7. art[p] \notin lost => \A q \in Process : ~Passed(q, art[p])'
    <3>1. \A q \in Process : Passed(q, art[p])' => Passed(q, art[p])
      BY <2>2, <2>3 DEF Passed, OfProcess
    <3>. QED BY <1>1, <2>6, <3>1 DEF IInv, Loaded
  <2>8. Stages'
    <3>. art'[p] = art[p]
      BY <2>2
    <3>1. mem'[p][art'[p]].one = k /\ mem'[p][art'[p]].two = k
      BY <2>4
    <3>2. Stage(pc[p], art[p], mem[p][art[p]].one)'
      BY <1>1, <2>2, <2>3, <2>6, <3>1 DEF Stage, Making, There
    <3>. QED BY <1>1, <2>1, <2>5, <2>7, <3>1, <3>2, OnlyOwnStage
  <2>9. Loaded'
    <3>1. \A a \in Artifact : Passed(p, a)' => Passed(p, a) /\ a # art[p]
      BY <2>2, <2>3 DEF Passed
    <3>. QED BY <1>1, <2>4, <2>5, <3>1, OnlyOwnLoaded DEF IInv, Loaded
  <2>. QED BY <1>1, <2>1, <2>3, <2>5, <2>8, <2>9 DEF IInv, Ordered, Old, Pins
<1>4. CASE Reads(p)
  <2>1. /\ pc[p] = "read" /\ used' = used
        /\ mem' = [mem EXCEPT ![p][art[p]] = [one |-> one[art[p]], two |-> two[art[p]]]]
        /\ \/ /\ art[p] = "tls" /\ pc' = [pc EXCEPT ![p] = "check"]
              /\ art' = [art EXCEPT ![p] = "noise"]
           \/ art[p] = "noise" /\ pc' = [pc EXCEPT ![p] = "loaded"] /\ art' = art
    BY <1>1, <1>4 DEF Reads, NextArtifact, Goes, Artifact
  <2>2. /\ mem'[p][art[p]] = [one |-> one[art[p]], two |-> two[art[p]]]
        /\ \A a \in Artifact \ {art[p]} : mem'[p][a] = mem[p][a]
    BY <1>1, <2>1 DEF IInv, TypeOK
  <2>3. TypeOK' /\ OfProcess(p) /\ pc'[p] \in {"check", "loaded"} /\ art'[p] = "noise"
    <3>1. mem' \in [Process -> [Artifact -> [one : Content, two : Content]]]
      BY <1>1, <2>1 DEF IInv, TypeOK
    <3>2. /\ pc' \in [Process -> {"off", "check", "read", "create one", "write one",
                                  "create two", "write two", "loaded", "up"}]
          /\ art' \in [Process -> Artifact] /\ pc'["tool"] # "up"
      <4>1. /\ pc \in [Process -> {"off", "check", "read", "create one", "write one",
                                   "create two", "write two", "loaded", "up"}]
            /\ art \in [Process -> Artifact] /\ pc["tool"] # "up"
            /\ "noise" \in Artifact
        BY DEF IInv, TypeOK, Artifact
      <4>2. pc' \in [Process -> {"off", "check", "read", "create one", "write one",
                                 "create two", "write two", "loaded", "up"}]
        BY <2>1, <4>1
      <4>3. art' \in [Process -> Artifact]
        BY <2>1, <4>1
      <4>4. pc'["tool"] # "up"
        BY <2>1, <4>1 DEF Process
      <4>. QED BY <4>2, <4>3, <4>4
    <3>3. OfProcess(p)
      BY <2>1 DEF OfProcess, IInv, TypeOK
    <3>4. pc'[p] \in {"check", "loaded"} /\ art'[p] = "noise"
      BY <2>1 DEF IInv, TypeOK
    <3>. QED BY <1>1, <2>1, <3>1, <3>2, <3>3, <3>4 DEF IInv, TypeOK
  <2>4. Others(p) /\ Alone'
    BY <1>1, <2>3, OthersRest
  <2>5. Stages'
    BY <2>3, <2>4, OnlyOwnStage DEF Stage, Making
  <2>6. two[art[p]] # "absent"
    BY <2>1 DEF IInv, Stages, Stage, There
  <2>7. Loaded'
    <3>1. \A a \in Artifact : Passed(p, a)' => Passed(p, a) \/ a = art[p]
      BY <2>1, <2>3 DEF Passed, Artifact, IInv, TypeOK
    <3>2. \A a \in Artifact \ {art[p]} : Passed(p, a)' => Passed(p, a)
      BY <3>1
    <3>. QED BY <1>1, <2>2, <2>4, <2>6, <3>2, OnlyOwnLoaded DEF IInv, Loaded
  <2>. QED BY <1>1, <2>1, <2>3, <2>4, <2>5, <2>7 DEF IInv, Ordered, Old, Pins
<1>. QED BY <1>2, <1>3, <1>4

\* The private half of a pair is written first.
LEMMA MakesOneHolds == ASSUME IInv, NEW p \in Process, CreatesOne(p) \/ WritesOne(p) PROVE IInv'
<1>. DEFINE a == art[p]  k == mem[p][art[p]].one
<1>1. a \in Artifact /\ UNCHANGED <<two, art, mem, used, pinned, lost>>
  BY DEF CreatesOne, WritesOne, IInv, TypeOK
<1>2. \/ /\ pc[p] = "create one" /\ pc' = [pc EXCEPT ![p] = "write one"]
         /\ one' = [one EXCEPT ![a] = "empty"]
      \/ /\ pc[p] = "write one" /\ pc' = [pc EXCEPT ![p] = "create two"]
         /\ one' = [one EXCEPT ![a] = k]
  BY DEF CreatesOne, WritesOne, Goes
<1>3. /\ two[a] # k /\ (a \notin lost => two[a] = "absent")
      /\ k \in used /\ k \in Key /\ mem[p][a].two = k
      /\ a \notin lost => \A q \in Process : ~Passed(q, a)
  BY <1>2 DEF IInv, Stages, Stage, Making, TypeOK
<1>4. TypeOK' /\ OfProcess(p)
  <2>1. one' \in [Artifact -> Content]
    BY <1>2, <1>3 DEF IInv, TypeOK, Content
  <2>2. PICK s \in {"write one", "create two"} : pc' = [pc EXCEPT ![p] = s]
    BY <1>2
  <2>. QED BY <1>1, <2>1, <2>2 DEF OfProcess, IInv, TypeOK, Process
<1>5. /\ pc'[p] \in {"write one", "create two"}
      /\ pc'[p] = "write one" => one'[a] = "empty"
      /\ pc'[p] = "create two" => one'[a] = k
      /\ \A b \in Artifact \ {a} : one'[b] = one[b] /\ two'[b] = two[b]
  BY <1>1, <1>2 DEF IInv, TypeOK
<1>6. Others(p) /\ Alone'
  BY <1>2, <1>4, <1>5, OthersRest DEF Starting
<1>7. \A q \in Process, b \in Artifact : Passed(q, b)' => Passed(q, b)
  BY <1>1, <1>2, <1>4, <1>5 DEF OfProcess, Passed
<1>8. Stages'
  <2>1. Stage(pc[p], art[p], mem[p][art[p]].one)'
    BY <1>1, <1>3, <1>5 DEF Stage, Making
  <2>. QED BY <1>1, <1>3, <1>6, <1>7, <2>1, OnlyOwnStage
<1>9. Ordered' /\ Old'
  BY <1>1, <1>3, <1>5 DEF IInv, Ordered, Old
<1>10. Loaded'
  <2>1. \A q \in Process, b \in Artifact :
            b \notin lost /\ Passed(q, b) => one'[b] = one[b] /\ two'[b] = two[b]
    BY <1>3, <1>5
  <2>2. \A b \in Artifact :
            b \notin lost /\ Passed(p, b)' =>
                two'[b] # "absent" /\ mem'[p][b] = [one |-> one'[b], two |-> two'[b]]
    BY <1>1, <1>7, <2>1 DEF IInv, Loaded
  <2>. QED BY <1>1, <1>6, <2>1, <2>2, OnlyOwnLoaded
<1>11. Pins'
  BY <1>1, <1>3, <1>5 DEF IInv, Pins, Ordered, Artifact
<1>. QED BY <1>4, <1>6, <1>8, <1>9, <1>10, <1>11 DEF IInv

\* The second half is written of the same key as the first.
LEMMA MakesTwoHolds == ASSUME IInv, NEW p \in Process, CreatesTwo(p) \/ WritesTwo(p) PROVE IInv'
<1>. DEFINE a == art[p]  k == mem[p][art[p]].one
<1>1. a \in Artifact /\ UNCHANGED <<one, mem, used, pinned, lost>>
  BY DEF CreatesTwo, WritesTwo, IInv, TypeOK
<1>2. \/ /\ pc[p] = "create two" /\ pc' = [pc EXCEPT ![p] = "write two"] /\ art' = art
         /\ two' = [two EXCEPT ![a] = "empty"]
      \/ /\ pc[p] = "write two" /\ two' = [two EXCEPT ![a] = mem[p][a].two]
         /\ \/ a = "tls" /\ pc' = [pc EXCEPT ![p] = "check"] /\ art' = [art EXCEPT ![p] = "noise"]
            \/ a = "noise" /\ pc' = [pc EXCEPT ![p] = "loaded"] /\ art' = art
  BY <1>1 DEF CreatesTwo, WritesTwo, Goes, NextArtifact, Artifact
<1>3. /\ one[a] = k /\ k \in used /\ k \in Key /\ mem[p][a].two = k
      /\ a \notin lost => \A q \in Process : ~Passed(q, a)
      /\ a \notin lost => two[a] \in {"absent", "empty"}
  BY <1>2 DEF IInv, Stages, Stage, Making, TypeOK
<1>4. TypeOK' /\ OfProcess(p)
  <2>1. two' \in [Artifact -> Content]
    BY <1>2, <1>3 DEF IInv, TypeOK, Content
  <2>2. /\ pc' \in [Process -> {"off", "check", "read", "create one", "write one",
                                "create two", "write two", "loaded", "up"}]
        /\ art' \in [Process -> Artifact] /\ pc'["tool"] # "up"
    <3>1. PICK s \in {"write two", "check", "loaded"}, b \in Artifact :
              pc' = [pc EXCEPT ![p] = s] /\ (art' = art \/ art' = [art EXCEPT ![p] = b])
      BY <1>2 DEF Artifact
    <3>. QED BY <3>1 DEF IInv, TypeOK, Process
  <2>3. OfProcess(p)
    BY <1>1, <1>2 DEF OfProcess, IInv, TypeOK
  <2>. QED BY <1>1, <2>1, <2>2, <2>3 DEF IInv, TypeOK
<1>5. /\ two'[a] \in {"empty", k} /\ one'[a] = k
      /\ pc'[p] = "write two" => two'[a] = "empty" /\ art'[p] = a
      /\ pc'[p] # "write two" => two'[a] = k /\ pc'[p] \in {"check", "loaded"} /\ art'[p] = "noise"
      /\ \A b \in Artifact \ {a} : one'[b] = one[b] /\ two'[b] = two[b]
  BY <1>1, <1>2, <1>3 DEF IInv, TypeOK
<1>6. Others(p) /\ Alone'
  BY <1>2, <1>4, <1>5, OthersRest DEF Starting
<1>7. \A q \in Process, b \in Artifact :
          Passed(q, b)' => Passed(q, b) \/ (q = p /\ b = a /\ pc'[p] # "write two")
  <2>1. ASSUME NEW b \in Artifact, Passed(p, b)' PROVE Passed(p, b) \/ (b = a /\ pc'[p] # "write two")
    BY <1>2, <1>5, <2>1 DEF Passed, Artifact, IInv, TypeOK
  <2>. QED BY <1>4, <2>1 DEF OfProcess, Passed
<1>8. Stages'
  <2>1. Stage(pc[p], art[p], mem[p][art[p]].one)'
    BY <1>1, <1>5 DEF Stage, Making
  <2>2. CASE pc'[p] = "write two"
    BY <1>1, <1>3, <1>5, <1>6, <1>7, <2>1, <2>2, OnlyOwnStage
  <2>3. CASE pc'[p] # "write two"
    <3>1. pc'[p] \notin Making
      BY <1>5, <2>3 DEF Making
    <3>. QED BY <1>6, <2>1, <3>1, OnlyOwnStage
  <2>. QED BY <2>2, <2>3
<1>9. Ordered' /\ Old'
  <2>1. Ordered'
    BY <1>1, <1>3, <1>5, KeyAssumption DEF IInv, Ordered
  <2>2. Old'
    BY <1>1, <1>3, <1>5, KeyAssumption DEF IInv, Old
  <2>. QED BY <2>1, <2>2
<1>10. Loaded'
  <2>1. \A q \in Process, b \in Artifact :
            b \notin lost /\ Passed(q, b) => one'[b] = one[b] /\ two'[b] = two[b]
    BY <1>3, <1>5
  <2>2. ASSUME NEW b \in Artifact, b \notin lost, Passed(p, b)'
        PROVE  two'[b] # "absent" /\ mem'[p][b] = [one |-> one'[b], two |-> two'[b]]
    <3>1. CASE Passed(p, b)
      BY <1>1, <2>1, <2>2, <3>1 DEF IInv, Loaded
    <3>2. CASE b = a /\ pc'[p] # "write two"
      <4>1. mem[p][a] \in [one : Content, two : Content]
        BY <1>1 DEF IInv, TypeOK
      <4>2. mem[p][a] = [one |-> k, two |-> k]
        BY <1>3, <4>1
      <4>. QED BY <1>1, <1>3, <1>5, <3>2, <4>2, KeyAssumption
    <3>. QED BY <1>7, <2>2, <3>1, <3>2
  <2>. QED BY <1>1, <1>6, <2>1, <2>2, OnlyOwnLoaded
<1>11. Pins'
  <2>. SUFFICES ASSUME NEW c \in pinned
                PROVE  /\ "noise" \notin lost => two'["noise"] = c.noise
                       /\ "tls" \notin lost => two'["tls"] # "absent" /\ one'["tls"] = c.tls
    BY <1>1 DEF Pins
  <2>1. c.noise \in Key
    BY DEF IInv, TypeOK
  <2>. QED BY <1>1, <1>3, <1>5, <2>1, KeyAssumption, ZenonT(40) DEF IInv, Pins, Artifact
<1>. QED BY <1>4, <1>6, <1>8, <1>9, <1>10, <1>11 DEF IInv

\* A loaded identity becomes a client config that pins what is on the disk.
LEMMA ProvisionsKeeps ==
    ASSUME IInv, NEW p \in Process, pc[p] \in {"loaded", "up"}, Provisions(mem[p]),
           UNCHANGED <<one, two, lost>>
    PROVE  pinned' \subseteq [noise : Key, tls : Key] /\ Pins'
<1>1. \A a \in Artifact : a \notin lost => /\ two[a] # "absent"
                                           /\ mem[p][a] = [one |-> one[a], two |-> two[a]]
  BY DEF IInv, Loaded, Passed
<1>. DEFINE c == Rendered(mem[p])
<1>2. pinned' = pinned \cup {c} /\ c.tls \in Key /\ c.noise \in Key
  BY DEF Provisions, HasCertificate, Usable, Rendered
<1>3. c = [noise |-> mem[p]["noise"].two, tls |-> mem[p]["tls"].one]
  BY DEF Rendered
<1>4. /\ "noise" \notin lost => two["noise"] = c.noise
      /\ "tls" \notin lost => two["tls"] # "absent" /\ one["tls"] = c.tls
  BY <1>1, <1>3 DEF Artifact
<1>5. pinned' \subseteq [noise : Key, tls : Key]
  <2>1. c \in [noise : Key, tls : Key]
    <3>. HIDE DEF c
    <3>. QED BY <1>2, <1>3
  <2>. QED BY <1>2, <2>1 DEF IInv, TypeOK
<1>. QED BY <1>2, <1>4, <1>5 DEF IInv, Pins

\* A step that only hands out pins.
LEMMA OnlyPinned ==
    ASSUME IInv, UNCHANGED <<one, two, pc, art, mem, used, lost>>,
           pinned' \subseteq [noise : Key, tls : Key], Pins'
    PROVE  IInv'
<1>1. TypeOK'
  BY DEF IInv, TypeOK
<1>2. Alone' /\ Ordered' /\ Old'
  BY DEF IInv, Alone, Starting, Ordered, Old
<1>3. \A p \in Process, a \in Artifact : Passed(p, a)' <=> Passed(p, a)
  BY DEF Passed
<1>4. Stages'
  <2>1. \A p \in Process : /\ art[p] \in Artifact
                           /\ Stage(pc[p], art[p], mem[p][art[p]].one)'
                                <=> Stage(pc[p], art[p], mem[p][art[p]].one)
    BY ZenonT(40) DEF IInv, TypeOK, Stage, There
  <2>. QED BY <1>3, <2>1 DEF IInv, Stages
<1>5. Loaded'
  BY <1>3 DEF IInv, Loaded
<1>. QED BY <1>1, <1>2, <1>4, <1>5 DEF IInv

\* Coming up, going down and handing out a config leave the files alone.
LEMMA ServedHolds ==
    ASSUME IInv, Serves \/ CannotBind \/ FromTool \/ FromDashboard \/ \E p \in Process : Dies(p)
    PROVE  IInv'
<1>. "server" \in Process /\ "tool" \in Process
  BY DEF Process
<1>1. CASE Serves
  <2>1. /\ pc["server"] = "loaded" /\ pc' = [pc EXCEPT !["server"] = "up"]
        /\ UNCHANGED <<one, two, art, mem, used, pinned, lost>>
    BY <1>1 DEF Serves, Goes, disk
  <2>2. TypeOK' /\ OfProcess("server") /\ pc'["server"] = "up"
    BY <2>1 DEF OfProcess, IInv, TypeOK, Process
  <2>3. Others("server") /\ Alone'
    BY <2>1, <2>2, OthersRest DEF Starting
  <2>4. Stages'
    BY <2>2, <2>3, OnlyOwnStage DEF Stage, Making
  <2>5. Loaded'
    <3>1. \A a \in Artifact : Passed("server", a)
      BY <2>1 DEF Passed
    <3>. QED BY <2>1, <2>3, <3>1, OnlyOwnLoaded DEF IInv, Loaded
  <2>. QED BY <2>1, <2>2, <2>3, <2>4, <2>5 DEF IInv, Ordered, Old, Pins
<1>2. CASE CannotBind
  <2>1. /\ Starting("server") /\ Ends("server") /\ UNCHANGED <<disk, used, pinned, lost>>
    BY <1>2 DEF CannotBind, Starting
  <2>2. pinned' \subseteq [noise : Key, tls : Key] /\ Pins'
    BY <2>1 DEF IInv, TypeOK, Pins, disk
  <2>. QED BY <2>1, <2>2, EndsHolds
<1>3. CASE FromTool
  <2>1. /\ pc["tool"] = "loaded" /\ Ends("tool") /\ Provisions(mem["tool"])
        /\ UNCHANGED <<disk, used, lost>> /\ UNCHANGED <<one, two, lost>>
    BY <1>3 DEF FromTool, disk
  <2>2. pinned' \subseteq [noise : Key, tls : Key] /\ Pins'
    BY <2>1, ProvisionsKeeps
  <2>. QED BY <2>1, <2>2, EndsHolds DEF Starting
<1>4. CASE FromDashboard
  <2>1. /\ pc["server"] \in {"loaded", "up"} /\ Provisions(mem["server"])
        /\ UNCHANGED <<one, two, pc, art, mem, used, lost>>
    BY <1>4 DEF FromDashboard, disk
  <2>2. pinned' \subseteq [noise : Key, tls : Key] /\ Pins'
    BY <2>1, ProvisionsKeeps
  <2>. QED BY <2>1, <2>2, OnlyPinned
<1>5. ASSUME NEW p \in Process, Dies(p) PROVE IInv'
  <2>1. /\ Starting(p) \/ pc[p] = "up"
        /\ Ends(p) /\ UNCHANGED <<disk, used, pinned, lost>>
    BY <1>5 DEF Dies, Starting
  <2>2. pinned' \subseteq [noise : Key, tls : Key] /\ Pins'
    BY <2>1 DEF IInv, TypeOK, Pins, disk
  <2>. QED BY <2>1, <2>2, EndsHolds
<1>. QED BY <1>1, <1>2, <1>3, <1>4, <1>5

\* The operator loses a file, and what follows from that pair is off.
LEMMA LosesHolds == ASSUME IInv, NEW a \in Artifact, Loses(a) PROVE IInv'
<1>1. /\ \A p \in Process : pc[p] \in {"off", "up"}
      /\ lost' = lost \cup {a} /\ UNCHANGED <<pc, art, mem, used, pinned>>
      /\ \/ one' = [one EXCEPT ![a] = "absent"] /\ two' = two
         \/ two' = [two EXCEPT ![a] = "absent"] /\ one' = one
  BY DEF Loses, Starting
<1>2. TypeOK'
  <2>1. one' \in [Artifact -> Content] /\ two' \in [Artifact -> Content]
    BY <1>1 DEF IInv, TypeOK, Content
  <2>. QED BY <1>1, <2>1 DEF IInv, TypeOK
<1>3. /\ \A b \in Artifact \ {a} : one'[b] = one[b] /\ two'[b] = two[b]
      /\ two'[a] \in {"absent", two[a]}
  BY <1>1 DEF IInv, TypeOK
<1>4. Alone' /\ Ordered' /\ Old'
  BY <1>1, <1>3, KeyAssumption DEF IInv, Alone, Starting, Ordered, Old
<1>5. Stages'
  BY <1>1 DEF Stages, Stage, Making
<1>6. Loaded'
  BY <1>1, <1>3 DEF IInv, Loaded, Passed
<1>7. Pins'
  BY <1>1, <1>3 DEF IInv, Pins, Artifact
<1>. QED BY <1>2, <1>4, <1>5, <1>6, <1>7 DEF IInv

\* IInv is inductive when starts do not overlap.
LEMMA StepHolds == ASSUME ~Overlap, IInv, [Next]_vars PROVE IInv'
<1>1. CASE Next
  BY <1>1, StartsHolds, LooksHolds, MakesOneHolds, MakesTwoHolds, ServedHolds, LosesHolds
  DEF Next, Load
<1>2. CASE UNCHANGED vars
  <2>1. UNCHANGED <<one, two, pc, art, mem, used, lost>> /\ UNCHANGED pinned
    BY <1>2 DEF vars, disk
  <2>2. pinned' \subseteq [noise : Key, tls : Key] /\ Pins'
    BY <2>1 DEF IInv, TypeOK, Pins
  <2>. QED BY <2>1, <2>2, OnlyPinned
<1>. QED BY <1>1, <1>2

\* What is pinned is what the server has in memory.
LEMMA PinsServed == IInv => PinnedIsServed
<1>. SUFFICES ASSUME IInv, pc["server"] = "up", NEW c \in pinned
              PROVE  /\ "noise" \notin lost => mem["server"]["noise"].one = c.noise
                     /\ "tls" \notin lost => mem["server"]["tls"].one = c.tls
  BY DEF PinnedIsServed, TrustsNoise, TrustsTls
<1>1. c.noise \in Key
  BY DEF IInv, TypeOK
<1>2. \A a \in Artifact : a \notin lost => mem["server"][a] = [one |-> one[a], two |-> two[a]]
  BY DEF IInv, Loaded, Passed, Process
<1>3. "noise" \notin lost => one["noise"] = c.noise
  BY <1>1, KeyAssumption DEF IInv, Pins, Ordered, Artifact
<1>4. "tls" \notin lost => one["tls"] = c.tls
  BY DEF IInv, Pins
<1>. QED BY <1>2, <1>3, <1>4 DEF Artifact

\* Whatever dies or fails between two file operations, a server that is up has
\* the keys that every client pinned of it, unless the operator lost one of the
\* two files of that artifact.
THEOREM PinnedAlwaysServed == ASSUME ~Overlap PROVE Spec => []PinnedIsServed
<1>1. IInv /\ [Next]_vars => IInv'
  BY StepHolds
<1>. QED BY <1>1, InitHolds, PinsServed, PTL DEF Spec

Kept(a) == Complete(a) => one'[a] \in {one[a], "absent"} /\ two'[a] \in {two[a], "absent"}

\* What p makes is not complete: one file is missing, empty or of an older key.
LEMMA MakingKeeps ==
    ASSUME IInv, NEW p \in Process, NEW a \in Artifact,
           CreatesOne(p) \/ WritesOne(p) \/ CreatesTwo(p) \/ WritesTwo(p)
    PROVE  Kept(a)
<1>1. CASE a = art[p]
  <2>1. pc[p] \in Making /\ Stage(pc[p], art[p], mem[p][art[p]].one)
    BY DEF CreatesOne, WritesOne, CreatesTwo, WritesTwo, Making, IInv, Stages
  <2>2. ~Complete(a)
    BY <1>1, <2>1, KeyAssumption DEF Stage, Making, There, Complete
  <2>. QED BY <2>2 DEF Kept
<1>2. CASE a # art[p]
  <2>1. one'[a] = one[a] /\ two'[a] = two[a]
    BY <1>2 DEF CreatesOne, WritesOne, CreatesTwo, WritesTwo, IInv, TypeOK
  <2>. QED BY <2>1 DEF Kept
<1>. QED BY <1>1, <1>2

\* As long as no two processes start at the same time, which nothing in
\* identity.rs sees to: a pair written to the end is written again only after one
\* of its files was lost, and no pair holds the halves of two keys unless it lost
\* a file.
THEOREM PairAlwaysStays == ASSUME ~Overlap PROVE Spec => PairStays
<1>1. ASSUME IInv, [Next]_vars, NEW a \in Artifact PROVE Kept(a)
  <2>1. CASE UNCHANGED disk
    BY <2>1 DEF disk, Kept
  <2>2. ASSUME NEW b \in Artifact, Loses(b) PROVE Kept(a)
    BY <1>1, <2>2 DEF Loses, Kept, IInv, TypeOK
  <2>3. ASSUME NEW p \in Process, Load(p) PROVE Kept(a) \/ UNCHANGED disk
    BY <1>1, <2>3, MakingKeeps DEF Load, Starts, FindsPair, Generates, Reads, Dies
  <2>4. Serves \/ CannotBind \/ FromTool \/ FromDashboard => UNCHANGED disk
    BY DEF Serves, CannotBind, FromTool, FromDashboard
  <2>. QED BY <1>1, <2>1, <2>2, <2>3, <2>4 DEF Next, vars
<1>2. IInv /\ [Next]_vars => [LeftAlone]_vars
  BY <1>1 DEF Kept, LeftAlone
<1>3. IInv => Unmixed
  BY KeyAssumption DEF IInv, Ordered, Mixed, Unmixed
<1>4. IInv /\ [Next]_vars => IInv'
  BY StepHolds
<1>. QED BY <1>2, <1>3, <1>4, InitHolds, PTL DEF Spec, PairStays
-----------------------------------------------------------------------------
(* The types do not depend on starts being one at a time.                  *)

\* Every step keeps the types, whether starts overlap or not.
LEMMA StepTyped == TypeOK /\ [Next]_vars => TypeOK'
<1>. SUFFICES ASSUME TypeOK, [Next]_vars PROVE TypeOK'
  OBVIOUS
<1>0. "tool" \in Process /\ "server" \in Process
  BY DEF Process
<1>. USE <1>0 DEF TypeOK, Goes
<1>1. ASSUME NEW p \in Process, Starts(p) \/ FindsPair(p) PROVE TypeOK'
  BY <1>1 DEF Starts, FindsPair, disk
<1>2. ASSUME NEW p \in Process, Generates(p) PROVE TypeOK'
  <2>1. PICK k \in Key : /\ mem' = [mem EXCEPT ![p][art[p]] = [one |-> k, two |-> k]]
                         /\ used' = used \cup {k}
    BY <1>2 DEF Generates
  <2>2. [one |-> k, two |-> k] \in [one : Content, two : Content]
    BY DEF Content
  <2>3. mem' \in [Process -> [Artifact -> [one : Content, two : Content]]]
    BY <2>1, <2>2
  <2>4. pc' = [pc EXCEPT ![p] = "create one"] /\ UNCHANGED <<disk, art, pinned, lost>>
    BY <1>2 DEF Generates
  <2>. QED BY <2>1, <2>3, <2>4 DEF disk
<1>3. ASSUME NEW p \in Process, Reads(p) PROVE TypeOK'
  BY <1>3 DEF Reads, NextArtifact, Artifact, disk
<1>4. ASSUME NEW p \in Process, CreatesOne(p) \/ CreatesTwo(p) PROVE TypeOK'
  BY <1>4 DEF CreatesOne, CreatesTwo, Content
<1>5. ASSUME NEW p \in Process, WritesOne(p) \/ WritesTwo(p) PROVE TypeOK'
  <2>1. mem[p][art[p]].one \in Content /\ mem[p][art[p]].two \in Content
    OBVIOUS
  <2>2. CASE WritesOne(p)
    BY <2>1, <2>2 DEF WritesOne
  <2>3. CASE WritesTwo(p)
    <3>1. "noise" \in Artifact
      BY DEF Artifact
    <3>. QED BY <2>1, <2>3, <3>1, ZenonT(30) DEF WritesTwo, NextArtifact
  <2>. QED BY <1>5, <2>2, <2>3
<1>6. ASSUME NEW p \in Process, Ends(p), UNCHANGED <<disk, used, lost>>, pinned' \subseteq [noise : Key, tls : Key]
      PROVE  TypeOK'
  <2>1. Nothing \in [Artifact -> [one : Content, two : Content]]
    BY DEF Nothing, Content
  <2>2. "tls" \in Artifact
    BY DEF Artifact
  <2>3. mem' \in [Process -> [Artifact -> [one : Content, two : Content]]]
    BY <1>6, <2>1 DEF Ends
  <2>4. /\ art' \in [Process -> Artifact]
        /\ pc' \in [Process -> {"off", "check", "read", "create one", "write one",
                               "create two", "write two", "loaded", "up"}]
        /\ pc'["tool"] # "up"
    BY <1>6, <2>2 DEF Ends
  <2>. QED BY <1>6, <2>3, <2>4 DEF disk
<1>7. ASSUME NEW p \in Process, Dies(p) \/ (p = "server" /\ CannotBind) PROVE TypeOK'
  BY <1>6, <1>7 DEF Dies, CannotBind
<1>8. ASSUME NEW p \in Process, Provisions(mem[p]) PROVE pinned' \subseteq [noise : Key, tls : Key]
  <2>1. Rendered(mem[p]) \in [noise : Key, tls : Key]
    BY <1>8 DEF Provisions, HasCertificate, Usable, Rendered
  <2>. QED BY <1>8, <2>1 DEF Provisions
<1>9. CASE FromTool
  BY <1>6, <1>8, <1>9 DEF FromTool, Process
<1>10. CASE FromDashboard
  BY <1>8, <1>10 DEF FromDashboard, Process, disk
<1>11. CASE Serves
  BY <1>11 DEF Serves, Process, disk
<1>12. ASSUME NEW a \in Artifact, Loses(a) PROVE TypeOK'
  BY <1>12 DEF Loses, Content
<1>13. CASE UNCHANGED vars
  BY <1>13 DEF vars, disk
<1>. QED BY <1>1, <1>2, <1>3, <1>4, <1>5, <1>7, <1>9, <1>10, <1>11, <1>12, <1>13
         DEF Next, Load, Process

\* Whatever starts overlap, every file and every process holds the half of a
\* key, nothing or no bytes, and every pinned config the halves of two keys.
THEOREM TypeCorrect == Spec => []TypeOK
<1>1. Init => TypeOK
  BY DEF Init, TypeOK, Nothing, Content, Artifact, Process
<1>. QED BY <1>1, StepTyped, PTL DEF Spec
=============================================================================
