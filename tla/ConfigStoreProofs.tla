-------------------------- MODULE ConfigStoreProofs --------------------------
(***************************************************************************)
(* Proofs about ConfigStore for any users, entries and requests: whether   *)
(* or not the requests overlap, and of what they promise one at a time.    *)
(***************************************************************************)
EXTENDS ConfigStore, TLAPS

\* The types, and: whatever is on its way to the file or the memory loads.
IInv == /\ TypeOK
        /\ SavedTablesLoad
        /\ \A r \in Request : InProgress(r) => Loads(copy[r])

\* The edits of upsert_user and delete_user keep a table loadable: `retain`
\* before `push` keeps the names unique.
LEMMA EditLoads ==
    ASSUME NEW t \in Table, Loads(t), NEW o \in Op, Acceptable(o, t)
    PROVE  Edit(o, t) \in Table /\ Loads(Edit(o, t))
  BY DEF Loads, Op, User, Table, Acceptable, Edit, Without

\* What a prefix of a table's text parses as is a table, and the file holds no
\* more than the content it is declared to.
LEMMA TornIsContent ==
    ASSUME NEW t \in Table
    PROVE  Parts(t) \subseteq Table /\ Torn(t) \subseteq Content /\ Mixture \subseteq Content
  <1>1. ASSUME NEW s \in Parts(t) PROVE s \in Table
    <2>1. CASE s \in SUBSET t
      BY <2>1 DEF Table
    <2>2. ASSUME NEW u \in t, s \in EndingIn(u, t) PROVE s \in Table
      <3>1. PICK q \in SUBSET (t \ {u}) : s = q \cup {[u EXCEPT !.ports = {}]}
        BY <2>2 DEF EndingIn
      <3>2. [u EXCEPT !.ports = {}] \in User
        BY <2>2 DEF Table, User
      <3> QED
        BY <3>1, <3>2 DEF Table
    <2>3. s \in SUBSET t \/ s \in UNION {EndingIn(u, t) : u \in t}
      BY <1>1 DEF Parts
    <2>4. CASE s \in UNION {EndingIn(u, t) : u \in t}
      BY <2>2, <2>4
    <2> QED
      BY <2>1, <2>3, <2>4
  <1>2. Broken \in Content /\ \A s \in Table : Part(s) \in Content
    BY DEF Broken, Part, Content, Table
  <1> QED
    BY <1>1, <1>2 DEF Torn, Mixture

\* A file that may be half a text is not taken for a whole one.
LEMMA TornIsNotWhole ==
    ASSUME NEW c, NEW t, c \in Torn(t) \cup Mixture
    PROVE  c.text # "table"
  BY DEF Torn, Mixture, Broken, Part

\* The server starts with a table and a file that load.
LEMMA InitInv == Init => IInv
  BY DEF Init, IInv, TypeOK, SavedTablesLoad, Loads, Text, Content, Table, Stage, InProgress

\* Every step of a request, a crash and a restart keep them loadable.
LEMMA StepInv == IInv /\ [Next]_vars => IInv'
  <1> SUFFICES ASSUME IInv, [Next]_vars PROVE IInv'
    OBVIOUS
  <1> USE DEF IInv, TypeOK, SavedTablesLoad, InProgress, Stage
  <1>0. {} \in Table
    BY DEF Table
  <1>1. ASSUME NEW r \in Request, NEW o \in Op, EditCopy(r, o) PROVE IInv'
    <2>1. Edit(o, mem) \in Table /\ Loads(Edit(o, mem))
      BY <1>1, EditLoads DEF EditCopy
    <2> QED
      BY <1>1, <2>1 DEF EditCopy
  <1>2. ASSUME NEW r \in Request, NEW o \in Op, Refuse(r, o) PROVE IInv'
    BY <1>0, <1>2 DEF Refuse, Forget
  <1>3. ASSUME NEW r \in Request, OpenFile(r) PROVE IInv'
    BY <1>0, <1>3 DEF OpenFile, Empty, Content
  <1>10. ASSUME NEW r \in Request, WriteSome(r) PROVE IInv'
    <2>1. copy[r] \in Table
      BY <1>10
    <2>2. file' \in Content /\ file'.text # "table"
      BY <1>10, <2>1, TornIsContent, TornIsNotWhole DEF WriteSome
    <2> QED
      BY <1>0, <1>10, <2>2 DEF WriteSome
  <1>4. ASSUME NEW r \in Request, WriteFile(r) PROVE IInv'
    <2>1. CASE file' = Text(copy[r])
      BY <1>0, <1>4, <2>1 DEF WriteFile, Text, Content
    <2>2. CASE file' \in Mixture
      <3>1. file' \in Content /\ file'.text # "table"
        BY <1>0, <2>2, TornIsContent, TornIsNotWhole
      <3> QED
        BY <1>0, <1>4, <3>1 DEF WriteFile
    <2> QED
      BY <1>4, <2>1, <2>2 DEF WriteFile
  <1>5. ASSUME NEW r \in Request, WriteError(r) PROVE IInv'
    BY <1>0, <1>5 DEF WriteError, Forget
  <1>6. ASSUME NEW r \in Request, Swap(r) PROVE IInv'
    BY <1>0, <1>6 DEF Swap, Forget
  <1>7. CASE Crash
    BY <1>7 DEF Crash
  <1>8. CASE Restart
    BY <1>0, <1>8 DEF Restart, Loads
  <1>9. CASE UNCHANGED vars
    BY <1>9 DEF vars
  <1> QED
    BY <1>1, <1>2, <1>3, <1>4, <1>5, <1>6, <1>7, <1>8, <1>9, <1>10 DEF Next

\* The inductive invariant holds of every reachable state.
LEMMA Invariance == Spec => []IInv
  BY InitInv, StepInv, PTL DEF Spec

\* Every variable keeps its type.
THEOREM TypeCorrect == Spec => []TypeOK
  <1>1. IInv => TypeOK
    BY DEF IInv
  <1> QED
    BY <1>1, Invariance, PTL

\* Whatever the dashboard saves, by however many overlapping requests, a restart
\* can load.
THEOREM SavesLoad == Spec => []SavedTablesLoad
  <1>1. IInv => SavedTablesLoad
    BY DEF IInv
  <1> QED
    BY <1>1, Invariance, PTL
-----------------------------------------------------------------------------
(* Requests one at a time.                                                 *)

\* Requests in progress exclude each other.
NoOverlap == \A r, s \in Request : InProgress(r) /\ InProgress(s) => r = s

\* The file of a server with no request in progress: the table in memory, or
\* what a failed write left.
Settled == Reads(mem) \/ HalfSaved

\* How far the file is ahead of the memory for a request in each stage.  A copy
\* is one edit away from the memory.
Ahead(r) ==
    /\ InProgress(r) => /\ op[r] \in Op /\ Acceptable(op[r], mem)
                        /\ copy[r] = Edit(op[r], mem)
    /\ st[r] = "edited" => Settled
    /\ st[r] = "truncated" => file = Empty
    /\ st[r] = "writing" => file \in Torn(copy[r])
    /\ st[r] = "written" => file = Text(copy[r])

\* What a crash leaves: what a server at rest has, or the whole copy that was
\* being saved.
Left == Settled \/ \E r \in Request : st[r] = "aborted" /\ file = Text(Edit(op[r], mem))

Serial == /\ NoOverlap
          /\ up => /\ (\A r \in Request : ~InProgress(r)) => Settled
                   /\ \A r \in Request : Ahead(r)
          /\ ~up => Left /\ \A r \in Request : ~InProgress(r)

SInv == IInv /\ Serial

\* The text of a table reads as that table.
LEMMA TextOfTable ==
    ASSUME NEW t PROVE Text(t).text = "table" /\ Text(t).users = t
  BY DEF Text

\* A server starts with no request and a file that is its memory.
LEMMA SerialInit == Init => Serial
  BY TextOfTable DEF Init, Serial, NoOverlap, Settled, Reads, Ahead, Left, InProgress

\* An edit that is under way or broken off leaves the file half saved, until all
\* of it is written.
LEMMA HalfWay ==
    ASSUME NEW r \in Request, Ahead(r), st[r] \in {"edited", "truncated", "writing"}
    PROVE  Settled
  BY DEF Ahead, Settled, HalfSaved, InProgress

\* Every step of one request at a time keeps the file with the memory.
LEMMA SerialStep == ASSUME OneAtATime, SInv, [Next]_vars PROVE Serial'
  <1> USE DEF SInv, IInv, TypeOK, Serial, NoOverlap, Ahead, InProgress, Stage
  <1>1. ASSUME NEW r \in Request, NEW o \in Op, EditCopy(r, o) PROVE Serial'
    <2>1. Settled /\ \A q \in Request : ~InProgress(q)
      BY <1>1, OneAtATime DEF EditCopy, Alone
    <2>2. Settled'
      BY <1>1, <2>1 DEF EditCopy, Settled, Reads, HalfSaved
    <2> QED
      BY <1>1, <2>1, <2>2 DEF EditCopy
  <1>2. ASSUME NEW r \in Request, NEW o \in Op, Refuse(r, o) PROVE Serial'
    <2>1. Settled /\ \A q \in Request : ~InProgress(q)
      BY <1>2, OneAtATime DEF Refuse, Alone
    <2>2. Settled'
      BY <1>2, <2>1 DEF Refuse, Settled, Reads, HalfSaved
    <2> QED
      BY <1>2, <2>1, <2>2 DEF Refuse, Forget
  <1>3. ASSUME NEW r \in Request, OpenFile(r) PROVE Serial'
    BY <1>3 DEF OpenFile
  <1>4. ASSUME NEW r \in Request, WriteSome(r) PROVE Serial'
    <2>1. file' \in Torn(copy[r])
      BY <1>4 DEF WriteSome, Own
    <2> QED
      BY <1>4, <2>1 DEF WriteSome
  <1>5. ASSUME NEW r \in Request, WriteFile(r) PROVE Serial'
    <2>1. file' = Text(copy[r])
      BY <1>5, OneAtATime DEF WriteFile, Own
    <2> QED
      BY <1>5, <2>1 DEF WriteFile
  <1>6. ASSUME NEW r \in Request, WriteError(r) PROVE Serial'
    <2>1. Settled
      BY <1>6, HalfWay DEF WriteError
    <2>2. Settled'
      BY <1>6, <2>1 DEF WriteError, Settled, Reads, HalfSaved
    <2> QED
      BY <1>6, <2>2 DEF WriteError, Forget
  <1>7. ASSUME NEW r \in Request, Swap(r) PROVE Serial'
    <2>1. Reads(mem)'
      BY <1>7, TextOfTable DEF Swap, Reads
    <2> QED
      BY <1>7, <2>1 DEF Swap, Forget, Settled
  <1>8. CASE Crash
    <2>1. \A q \in Request : ~InProgress(q)'
      BY <1>8 DEF Crash
    <2>2. Settled => Settled'
      BY <1>8 DEF Crash, Settled, Reads, HalfSaved
    <2>3. Left'
      <3>1. CASE Settled
        BY <2>2, <3>1 DEF Left
      <3>2. CASE ~Settled
        <4>1. PICK r \in Request : InProgress(r)
          BY <1>8, <3>2 DEF Crash
        <4>2. st[r] = "written" /\ file = Text(Edit(op[r], mem))
          BY <1>8, <3>2, <4>1, HalfWay DEF Crash
        <4>3. st'[r] = "aborted" /\ file' = Text(Edit(op'[r], mem'))
          BY <1>8, <4>1, <4>2 DEF Crash
        <4> QED
          BY <4>3 DEF Left
      <3> QED
        BY <3>1, <3>2
    <2> QED
      BY <1>8, <2>1, <2>3 DEF Crash
  <1>9. CASE Restart
    <2>1. Reads(mem)'
      BY <1>9 DEF Restart, Reads
    <2> QED
      BY <1>9, <2>1 DEF Restart, Settled
  <1>10. CASE UNCHANGED vars
    BY <1>10 DEF vars, Settled, Left, Reads, HalfSaved
  <1> QED
    BY <1>1, <1>2, <1>3, <1>4, <1>5, <1>6, <1>7, <1>8, <1>9, <1>10 DEF Next

\* Both invariants hold of every reachable state.
LEMMA SerialInvariance == ASSUME OneAtATime PROVE Spec => []SInv
  <1>1. Init => SInv
    BY InitInv, SerialInit DEF SInv
  <1>2. SInv /\ [Next]_vars => SInv'
    BY StepInv, SerialStep, OneAtATime DEF SInv
  <1> QED
    BY <1>1, <1>2, PTL DEF Spec

\* With requests one at a time the file follows the memory: between two
\* requests it holds the table the server works with, or what a failed write
\* left of one edit of that table.
THEOREM FileAlwaysFollows == ASSUME OneAtATime PROVE Spec => []FileFollowsMemory
  <1>1. SInv => FileFollowsMemory
    BY DEF SInv, Serial, Settled, FileFollowsMemory
  <1> QED
    BY <1>1, SerialInvariance, PTL

\* With requests one at a time a restart serves the acknowledged table or that
\* with the edit being saved when the process died; from a file cut short it
\* serves a part of one edit of the acknowledged table, and nothing besides.
THEOREM RestartNeverGrants == ASSUME OneAtATime PROVE Spec => RestartGrantsNothing
  <1> DEFINE Served ==
          \/ mem' = mem
          \/ \E r \in Request : st[r] = "aborted" /\ mem' = Edit(op[r], mem)
          \/ /\ file.text = "part"
             /\ \E o \in Op : Acceptable(o, mem) /\ mem' \in Parts(Edit(o, mem))
  <1>1. SInv /\ [Next]_vars => [~up /\ up' => Served]_vars
    <2> SUFFICES ASSUME SInv, [Next]_vars, ~up, up'
                 PROVE  Served
      OBVIOUS
    <2>1. Restart
      BY DEF Next, EditCopy, Refuse, OpenFile, WriteSome, WriteFile, WriteError, Swap, Crash, vars
    <2>2. file.text \in {"table", "part"} /\ mem' = file.users /\ Left
      BY <2>1 DEF Restart, SInv, Serial
    <2>3. CASE Reads(mem)
      BY <2>2, <2>3 DEF Reads
    <2>4. CASE HalfSaved
      <3>1. file # Empty /\ file # Broken
        BY <2>2 DEF Empty, Broken
      <3>2. PICK o \in Op : Acceptable(o, mem) /\ file \in Torn(Edit(o, mem))
        BY <2>4, <3>1 DEF HalfSaved
      <3>3. PICK t \in Parts(Edit(o, mem)) : file = Part(t)
        BY <3>1, <3>2 DEF Torn
      <3>4. file.text = "part" /\ file.users = t
        BY <3>3 DEF Part
      <3> QED
        BY <2>2, <3>2, <3>4
    <2>5. CASE \E r \in Request : st[r] = "aborted" /\ file = Text(Edit(op[r], mem))
      BY <2>2, <2>5, TextOfTable
    <2> QED
      BY <2>2, <2>3, <2>4, <2>5 DEF Left, Settled
  <1> QED
    BY <1>1, SerialInvariance, PTL DEF Spec, RestartGrantsNothing

\* With requests one at a time every change of the running server's table is
\* the edit of one request in progress, applied to the table it replaces.
THEOREM AlwaysOneEdit == ASSUME OneAtATime PROVE Spec => OneEditAtATime
  <1>1. SInv /\ [Next]_vars =>
          [up /\ up' => \E r \in Request : InProgress(r) /\ mem' = Edit(op[r], mem)]_mem
    <2> SUFFICES ASSUME SInv, [Next]_vars, up, up', mem' # mem
                 PROVE  \E r \in Request : InProgress(r) /\ mem' = Edit(op[r], mem)
      OBVIOUS
    <2>1. PICK r \in Request : Swap(r)
      BY DEF Next, EditCopy, Refuse, OpenFile, WriteSome, WriteFile, WriteError, Crash, Restart, vars
    <2> QED
      BY <2>1 DEF Swap, SInv, Serial, Ahead, InProgress
  <1> QED
    BY <1>1, SerialInvariance, PTL DEF Spec, OneEditAtATime
=============================================================================
