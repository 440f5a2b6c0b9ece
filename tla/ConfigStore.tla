----------------------------- MODULE ConfigStore -----------------------------
(***************************************************************************)
(* The server's table of users and the config file behind it               *)
(* (rs_srpd/src/dashboard.rs, config.rs): dashboard requests copy the      *)
(* table, edit the copy, rewrite the file and swap the copy in; a restart  *)
(* loads and validates the file.  No lock is held from the copy to the     *)
(* swap, and the HTTP server runs requests on several threads, so every    *)
(* access to shared state is a step.  Writing the file is several: it is   *)
(* truncated, then written from its start, and the write may stop after    *)
(* any prefix.  A prefix of the text may well parse: the users are the     *)
(* last table but one, and of a user only the name and the token are       *)
(* required.                                                               *)
(*                                                                         *)
(* The rest of the config (transports, secret, the dashboard's address) is *)
(* never edited and left out, and so is the order of the users: any of     *)
(* them may be the ones a prefix holds.  A port entry is opaque; GoodEntry *)
(* holds those that parse.                                                 *)
(***************************************************************************)
CONSTANTS
    Request,          \* dashboard requests; each is one after another
    Name, Token,      \* what a payload may carry; Blank is one of each
    Blank,
    Entry, GoodEntry, \* port range entries, and those parse_port_range takes
    Idle,             \* no operation
    OneAtATime        \* TRUE if requests never overlap (a single operator)

User == [name : Name, token : Token, ports : SUBSET Entry]
Table == SUBSET User

\* What the config file holds: the text of a table; a text that is not the whole
\* of what was written, but parses, as this table; nothing; or one that does not
\* parse.
Content == [text : {"table", "part", "empty", "broken"}, users : Table]
Text(t) == [text |-> "table", users |-> t]
Part(t) == [text |-> "part", users |-> t]
Empty == [text |-> "empty", users |-> {}]
Broken == [text |-> "broken", users |-> {}]

\* What a prefix of the text of t parses as, if it does: some of the users, or
\* one that ends in user u before its ports, which default to none.
EndingIn(u, t) == {s \cup {[u EXCEPT !.ports = {}]} : s \in SUBSET (t \ {u})}
Parts(t) == (SUBSET t) \cup UNION {EndingIn(u, t) : u \in t}

\* A prefix of the text of t; and what prefixes of several texts, one written
\* over the other, may read as: nothing is known of that.
Torn(t) == {Broken} \cup {Part(s) : s \in Parts(t)}
Mixture == {Broken} \cup {Part(t) : t \in Table}

Op == [type : {"upsert"}, user : User] \cup [type : {"delete"}, name : Name]

ASSUME EntryAssumption == GoodEntry \subseteq Entry
ASSUME IdleAssumption == Idle \notin Op

VARIABLES
    file,     \* what the config file holds
    up,       \* whether the server runs
    mem,      \* the shared config: its table of users
    st,       \* how far each request is
    op,       \* the operation of each request
    copy      \* the edited copy each request holds

vars == <<file, up, mem, st, op, copy>>

Stage == {"new", "edited", "truncated", "writing", "written", "aborted"}
InProgress(r) == st[r] \in {"edited", "truncated", "writing", "written"}

\* What `load` accepts: a file that parses, with unique names and port entries
\* that parse.  It does not look for blank names.
Loads(t) == /\ t \in Table
            /\ \A u, v \in t : u.name = v.name => u = v
            /\ \A u \in t : u.ports \subseteq GoodEntry

Init == /\ mem \in {t \in Table : Loads(t)}
        /\ file = Text(mem)
        /\ up = TRUE
        /\ st = [r \in Request |-> "new"]
        /\ op = [r \in Request |-> Idle]
        /\ copy = [r \in Request |-> {}]
-----------------------------------------------------------------------------
(* The dashboard's edits.                                                  *)

\* Seeded bug: port entries of a payload are stored unparsed.
AcceptableUnparsed(o, t) ==
    IF o.type = "upsert"
    THEN o.user.name # Blank /\ o.user.token # Blank
    ELSE \E u \in t : u.name = o.name

\* The checks of upsert_user and delete_user.
Acceptable(o, t) ==
    IF o.type = "upsert"
    THEN o.user.name # Blank /\ o.user.token # Blank /\ o.user.ports \subseteq GoodEntry
    ELSE \E u \in t : u.name = o.name

Without(t, n) == {u \in t : u.name # n}

\* Seeded bug: the whole payload is pushed in place of its user.
EditPushingPayload(o, t) ==
    IF o.type = "upsert" THEN Without(t, o.user.name) \cup {o} ELSE Without(t, o.name)

\* The edit itself: retain the other users, then push.
Edit(o, t) == IF o.type = "upsert" THEN Without(t, o.user.name) \cup {o.user}
              ELSE Without(t, o.name)

\* What a request leaves behind when it is answered.
Forget(r) == /\ st' = [st EXCEPT ![r] = "new"]
             /\ op' = [op EXCEPT ![r] = Idle]
             /\ copy' = [copy EXCEPT ![r] = {}]

Alone(r) == OneAtATime => \A s \in Request \ {r} : ~InProgress(s)

\* Seeded bug: the edit starts from the file in place of the shared table.
EditFile(r, o) ==
    /\ up /\ ~InProgress(r) /\ Alone(r) /\ Acceptable(o, mem)
    /\ st' = [st EXCEPT ![r] = "edited"]
    /\ op' = [op EXCEPT ![r] = o]
    /\ copy' = [copy EXCEPT ![r] = Edit(o, file.users)]
    /\ UNCHANGED <<file, up, mem>>

\* A request copies the shared table and edits the copy; a request that fails a
\* check is answered at once and leaves no trace.
EditCopy(r, o) ==
    /\ up /\ ~InProgress(r) /\ Alone(r) /\ Acceptable(o, mem)
    /\ st' = [st EXCEPT ![r] = "edited"]
    /\ op' = [op EXCEPT ![r] = o]
    /\ copy' = [copy EXCEPT ![r] = Edit(o, mem)]
    /\ UNCHANGED <<file, up, mem>>

Refuse(r, o) ==
    /\ up /\ ~InProgress(r) /\ Alone(r) /\ ~Acceptable(o, mem)
    /\ Forget(r)
    /\ UNCHANGED <<file, up, mem>>

\* fs::write opens the file, which empties it...
OpenFile(r) ==
    /\ up /\ st[r] = "edited"
    /\ st' = [st EXCEPT ![r] = "truncated"]
    /\ file' = Empty
    /\ UNCHANGED <<up, mem, op, copy>>

\* The file surely holds nothing but what r has written since it opened it: of
\* requests that overlap, a piece in the file may be anybody's.
Own(r) == IF st[r] = "truncated" THEN file = Empty ELSE OneAtATime

\* ... and writes the text from its start, perhaps in several pieces.
WriteSome(r) ==
    /\ up /\ st[r] = "truncated"
    /\ st' = [st EXCEPT ![r] = "writing"]
    /\ file' \in IF Own(r) THEN Torn(copy[r]) ELSE Mixture
    /\ UNCHANGED <<up, mem, op, copy>>

\* The last piece.  Over the text of another request the longer text shows
\* beyond the end of the shorter.
WriteFile(r) ==
    /\ up /\ st[r] \in {"truncated", "writing"}
    /\ st' = [st EXCEPT ![r] = "written"]
    /\ \/ file' = Text(copy[r])
       \/ ~Own(r) /\ file' \in Mixture
    /\ UNCHANGED <<up, mem, op, copy>>

\* The file cannot be opened, or a piece cannot be written: the request is
\* answered with an error, the memory stays and so does what is in the file.
WriteError(r) ==
    /\ up /\ st[r] \in {"edited", "truncated", "writing"}
    /\ Forget(r)
    /\ UNCHANGED <<file, up, mem>>

\* Seeded bug: the edit waits for a restart to take effect.
SwapNever(r) == up /\ st[r] = "written" /\ Forget(r) /\ UNCHANGED <<file, up, mem>>

\* The copy becomes the shared config and the request is answered "ok".
Swap(r) ==
    /\ up /\ st[r] = "written"
    /\ mem' = copy[r]
    /\ Forget(r)
    /\ UNCHANGED <<file, up>>
-----------------------------------------------------------------------------
(* The process.                                                            *)

\* The process dies; requests in progress are never answered.
Crash ==
    /\ up
    /\ up' = FALSE
    /\ st' = [r \in Request |-> IF InProgress(r) THEN "aborted" ELSE "new"]
    /\ UNCHANGED <<file, mem, op, copy>>

\* Seeded bug: the server starts with no users if it cannot load its file.
RestartAnyway ==
    /\ ~up
    /\ up' = TRUE
    /\ mem' = IF file.text \in {"table", "part"} THEN file.users ELSE {}
    /\ st' = [r \in Request |-> "new"]
    /\ op' = [r \in Request |-> Idle]
    /\ copy' = [r \in Request |-> {}]
    /\ UNCHANGED file

\* The server starts only with a file that loads, whole or not.  `mem` keeps its
\* last value while the server is down, for the properties.
Restart ==
    /\ ~up /\ file.text \in {"table", "part"} /\ Loads(file.users)
    /\ up' = TRUE
    /\ mem' = file.users
    /\ st' = [r \in Request |-> "new"]
    /\ op' = [r \in Request |-> Idle]
    /\ copy' = [r \in Request |-> {}]
    /\ UNCHANGED file

Next == \/ \E r \in Request : \/ \E o \in Op : EditCopy(r, o) \/ Refuse(r, o)
                              \/ OpenFile(r) \/ WriteSome(r) \/ WriteFile(r) \/ WriteError(r) \/ Swap(r)
        \/ Crash \/ Restart

Spec == Init /\ [][Next]_vars
-----------------------------------------------------------------------------
(* Properties.                                                             *)

TypeOK == /\ file \in Content
          /\ up \in BOOLEAN
          /\ mem \in Table
          /\ st \in [Request -> Stage]
          /\ op \in [Request -> Op \cup {Idle}]
          /\ copy \in [Request -> Table]

\* Whatever the dashboard saves, a restart can load: every edit it accepts keeps
\* the table one that `validate` would accept, requests overlapping or not.
SavedTablesLoad == Loads(mem) /\ (file.text = "table" => Loads(file.users))

\* A load of the file gives t; and what the file may hold when an edit of the
\* table in memory was cut short.
Reads(t) == file.text \in {"table", "part"} /\ file.users = t
HalfSaved == \/ file = Empty
             \/ \E o \in Op : Acceptable(o, mem) /\ file \in Torn(Edit(o, mem))

\* With no request in progress the file is what the server works with, or what
\* is left of one edit of it whose write failed: never an edit that was not
\* answered "ok" whole, nor a piece of anything older.
FileFollowsMemory ==
    up /\ (\A r \in Request : ~InProgress(r)) => Reads(mem) \/ HalfSaved

\* The running server's table changes by one whole edit at a time: each request
\* answered "ok" has its edit, and no earlier answered edit is undone by it.
OneEditAtATime ==
    [][up /\ up' => \E r \in Request : InProgress(r) /\ mem' = Edit(op[r], mem)]_mem

\* A restart serves the acknowledged table, or that with the one edit that was
\* being saved when the process died.  Only a file cut short may have it serve
\* less: fewer of these users, or one of them without its ports, but no user,
\* token or port that is in neither.
RestartGrantsNothing ==
    [][~up /\ up' =>
          \/ mem' = mem
          \/ \E r \in Request : st[r] = "aborted" /\ mem' = Edit(op[r], mem)
          \/ /\ file.text = "part"
             /\ \E o \in Op : Acceptable(o, mem) /\ mem' \in Parts(Edit(o, mem))]_vars
=============================================================================
