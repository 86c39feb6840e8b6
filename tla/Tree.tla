-------------------------------- MODULE Tree --------------------------------
(***************************************************************************)
(* The tree of one namespace: rows with a path and a parent, the locks on  *)
(* its paths, and the requests that create, delete, move and copy rows.    *)
(*                                                                         *)
(* Folders are rows too.  A write makes the folders on the way to its path *)
(* in its transaction; a move or a deletion removes, after its transaction *)
(* and one by one, the ancestors it has left empty.  PostgreSQL runs the   *)
(* statements at READ COMMITTED, so a transaction is one action here and   *)
(* what a request read before it may be out of date when it runs.          *)
(***************************************************************************)
EXTENDS Integers, Sequences, FiniteSets

CONSTANTS
    Requests,     \* API requests in flight; each may run many calls
    Paths,        \* the paths the column can hold: sequences of names
    Kinds,        \* node types besides "folder"
    Clients,      \* {"one"}: each call is answered before the next is sent;
                  \* {"many"}: calls overlap
    MayCrash,     \* whether a worker may die in the middle of a request
    MaxCalls,     \* bound: calls in a behaviour of one client
    MaxOverlaps,  \* bound: calls in a behaviour of many clients
    MaxLockCalls, \* bound: lock calls and expiries in a behaviour
    MaxBirths,    \* bound: rows created at one path
    NoRow,        \* value of a row id that has no row
    NoParent      \* parent of a top-level row: NULL

ASSUME PathsAssumption ==
    /\ Paths # {} /\ IsFiniteSet(Paths)   \* the column has a maximal length
    /\ \A p \in Paths : p \in Seq(STRING) /\ Len(p) > 0
    /\ \A p \in Paths : \A n \in 1 .. Len(p) : SubSeq(p, 1, n) \in Paths

ASSUME BoundsAssumption ==
    /\ MaxCalls \in Nat /\ MaxOverlaps \in Nat /\ MaxLockCalls \in Nat /\ MaxBirths \in Nat
    /\ MayCrash \in BOOLEAN
    /\ Clients \subseteq {"one", "many"}
    /\ "folder" \notin Kinds

\* A primary key: the path a row was created at, and which row of that path
Ids == Paths \X (1 .. MaxBirths)

VARIABLES
    rows,     \* the TreeItem table, by primary key
    births,   \* how many rows were created at each path, so that keys are new
    locks,    \* the TreeLock table, by path
    req,      \* what each request holds in memory
    clients,  \* whether calls overlap; chosen once
    calls,    \* calls begun so far
    lockCalls,
    crashed   \* whether a worker has died between two steps

vars == <<rows, births, locks, req, clients, calls, lockCalls, crashed>>

Row  == [path : Paths, parent : Ids \cup {NoParent}, kind : Kinds \cup {"folder"}]

\* NULL is no key and no row, whatever path the row has
ASSUME NullsAssumption ==
    /\ NoParent \notin Ids
    /\ NoRow \notin [path : Seq(STRING), parent : Ids \cup {NoParent}, kind : Kinds \cup {"folder"}]

\* A lock has no expiry, or one ahead, or one that has passed
Lock == {"none", "forever", "timed", "expired"}

Ops == {"create", "delete", "move", "copy", "save"}
PC  == {"idle", "loaded", "checked", "valid", "prune", "pruning"}

\* What a request holds: the row it loaded (key and columns), its target, the
\* descendants a copy has listed, the ancestor it is about to prune (up), that
\* one's parent (next) and the parent of that (over), each as it was read, and
\* the key it has deleted last.  held is history: the locks in force ever since
\* the request began.
Held == [pc : PC, op : Ops, path : Paths, dest : Paths, kind : Kinds \cup {"folder"},
         id : Ids \cup {NoParent}, parent : Ids \cup {NoParent},
         list : SUBSET (Ids \X Paths),
         up : Ids \cup {NoParent}, next : Ids \cup {NoParent},
         over : Ids \cup {NoParent},
         gone : Ids \cup {NoParent}, held : SUBSET Paths]

-----------------------------------------------------------------------------
(* Paths *)

Below(p, q)   == Len(p) > Len(q) /\ SubSeq(p, 1, Len(q)) = q
Covers(q, p)  == p = q \/ Below(p, q)
\* self.breadcrumbs[:-1]
Ancestors(p)  == {SubSeq(p, 1, n) : n \in 1 .. Len(p) - 1}
\* dest + path[len(root):]; every name has the same length here
Rebase(p, root, dest) == dest \o SubSeq(p, Len(root) + 1, Len(p))

-----------------------------------------------------------------------------
(* Rows *)

Live(rs)         == {i \in Ids : rs[i] # NoRow}
At(rs, p)        == {i \in Live(rs) : rs[i].path = p}
Children(rs, i)  == {j \in Live(rs) : rs[j].parent = i}
FoldersAt(rs, p) == {i \in At(rs, p) : rs[i].kind = "folder"}

\* The row i and everything below it by parent links: what a cascade deletes
Subtree(rs, i) ==
    LET under[n \in Nat] ==   \* i and what is at most n links below it
            IF n = 0 THEN {i} \cap Live(rs)
            ELSE LET above == under[n - 1]
                 IN  above \cup {j \in Live(rs) : rs[j].parent \in above}
    IN  under[Cardinality(Live(rs))]

\* descendants(include_self=True): the query walks down from the top level, so
\* it finds nothing below a row that does not hang from there
Descendants(rs, i) ==
    IF \E t \in Children(rs, NoParent) : i \in Subtree(rs, t)
    THEN Subtree(rs, i) ELSE {}

Remove(rs, S) == [i \in Ids |-> IF i \in S THEN NoRow ELSE rs[i]]

\* unique_together: (namespace, path)
Unique(rs) == \A i, j \in Live(rs) : rs[i].path = rs[j].path => i = j

-----------------------------------------------------------------------------
(* Making the folders on the way to a path *)

NewId(p)       == <<p, births[p] + 1>>
Missing(rs, S) == {q \in S : At(rs, q) = {}}
\* An ancestor that is not a folder makes update_or_create fail; it is skipped
Usable(rs, S)  == {q \in S : At(rs, q) = {} \/ FoldersAt(rs, q) # {}}
FolderId(rs, q) ==
    IF At(rs, q) = {} THEN NewId(q) ELSE CHOOSE i \in FoldersAt(rs, q) : TRUE

\* Mutant: the parent of a new row is given by path, not by key
LastParentPath(rs, p) ==
    LET found == Usable(rs, Ancestors(p))
    IN  IF found = {} THEN NoParent ELSE CHOOSE q \in found : \A o \in found : Len(o) <= Len(q)

\* parents[-1], or None: the last ancestor of p that was made or found
LastParent(rs, p) ==
    LET found == Usable(rs, Ancestors(p))
        last == {q \in found : \A o \in found : Len(o) <= Len(q)}
    IN  IF last = {} THEN NoParent ELSE FolderId(rs, CHOOSE q \in last : TRUE)

\* The table once the folders at S exist.  A folder that is there already is
\* updated: it gets the parent its path says.
WithFolders(rs, S) ==
    LET usable == Usable(rs, S)
        ids == {FolderId(rs, q) : q \in usable}
    IN  [i \in Ids |->
            IF i \in ids
            THEN LET q == CHOOSE o \in usable : FolderId(rs, o) = i
                 IN  [path |-> q, parent |-> LastParent(rs, q), kind |-> "folder"]
            ELSE rs[i]]

\* Bound: the paths of S get new rows only while their keys last
Room(S)  == \A q \in S : births[q] < MaxBirths
Count(S) == births' = [p \in Paths |-> IF p \in S THEN births[p] + 1 ELSE births[p]]

-----------------------------------------------------------------------------
(* Locks *)

Active == {p \in Paths : locks[p] \in {"forever", "timed"}}

\* Mutant: moving a folder does not look at the locks inside it
RefusingAbove(r) ==
    {q \in Paths : \E p \in {req[r].path, req[r].dest} : Covers(q, p)}

\* The paths whose lock refuses request r: ensure_paths_writable on its path
\* and its target, and ensure_subtree_writable when it moves a folder
Refusing(r) ==
    LET m == req[r]
        targets == {m.path} \cup (IF m.op \in {"move", "copy"} THEN {m.dest} ELSE {})
    IN  {q \in Paths : \/ \E p \in targets : Covers(q, p)
                       \/ m.op = "move" /\ m.kind = "folder" /\ Covers(m.path, q)}

-----------------------------------------------------------------------------
(* The life of a request *)

\* What a request holds of a row i it has loaded at p
Loaded(op, p, d, k, i, parent, held) ==
    [pc |-> "loaded", op |-> op, path |-> p, dest |-> d, kind |-> k, id |-> i,
     parent |-> parent, list |-> {}, up |-> NoParent, next |-> NoParent,
     over |-> NoParent, gone |-> NoParent, held |-> held]
Idle == LET p == CHOOSE q \in Paths : TRUE
        IN  [Loaded("create", p, p, "folder", NoParent, NoParent, {}) EXCEPT !.pc = "idle"]

Go(r, m) == req' = [req EXCEPT ![r] = m]
End(r)   == Go(r, Idle)

\* The slot that runs the calls of one client, one after the other
Single == CHOOSE r \in Requests : TRUE

\* A call begins: the manager loads the row at its path
Begin(r, op, p, d, k) ==
    /\ req[r].pc = "idle" /\ calls < IF clients = "one" THEN MaxCalls ELSE MaxOverlaps
    /\ clients = "one" => r = Single
    /\ IF op = "create"
       THEN At(rows, p) = {} /\ k # "folder"
       ELSE \E i \in At(rows, p) : rows[i].kind = k
    /\ op = "move" => d # p /\ ~Below(d, p)
    /\ op = "copy" => d # p /\ k # "secret"
    /\ op \notin {"move", "copy"} => d = p
    /\ LET found == At(rows, p)
           i == IF found = {} THEN NoParent ELSE CHOOSE j \in found : TRUE
           parent == IF found = {} THEN NoParent ELSE rows[i].parent
       IN  Go(r, Loaded(op, p, d, k, i, parent, Active))
    /\ calls' = calls + 1
    /\ UNCHANGED <<rows, births, locks, clients, lockCalls, crashed>>

\* The lock check: refused when an active lock covers what it checks
CheckLocks(r) ==
    /\ req[r].pc = "loaded"
    /\ IF Refusing(r) \cap Active # {}
       THEN End(r)
       ELSE Go(r, [req[r] EXCEPT !.pc = IF req[r].op = "save" THEN "valid" ELSE "checked"])
    /\ UNCHANGED <<rows, births, locks, clients, calls, lockCalls, crashed>>

\* Mutant: only the target itself is looked at, not the items on its way
ConflictAtTarget(p) == At(rows, p) # {}

\* _validate_path_conflicts
Conflict(p) == \/ At(rows, p) # {}
               \/ \E q \in Ancestors(p) : At(rows, q) # FoldersAt(rows, q)

\* _folder_content_items, or the item itself: no folders, no secrets
Copied(m) ==
    {<<i, rows[i].path>> : i \in
        {j \in Descendants(rows, m.id) : rows[j].kind \notin {"folder", "secret"}}}

\* Everything a request reads between its lock check and its transaction: the
\* conflicts at its target, the parent it may prune (which may be gone: an
\* error), the descendants a copy will copy (no folders, no secrets).
Validate(r) ==
    /\ req[r].pc = "checked"
    /\ LET m == req[r]
           prunes == m.op \in {"delete", "move"}
           fails == \/ m.op \in {"create", "move"} /\ Conflict(m.dest)
                    \/ prunes /\ m.parent # NoParent /\ rows[m.parent] = NoRow
       IN  IF fails
           THEN End(r)
           ELSE Go(r, [m EXCEPT !.pc = "valid",
                                !.up = IF prunes THEN m.parent ELSE NoParent,
                                !.next = IF prunes /\ m.parent # NoParent
                                         THEN rows[m.parent].parent ELSE NoParent,
                                !.list = IF m.op = "copy" THEN Copied(m) ELSE {}])
    /\ UNCHANGED <<rows, births, locks, clients, calls, lockCalls, crashed>>

\* Permissions, capabilities, references or contents refuse the call
Refuse(r) ==
    /\ req[r].pc \in {"loaded", "checked", "valid"}
    /\ End(r)
    /\ UNCHANGED <<rows, births, locks, clients, calls, lockCalls, crashed>>

\* A transaction commits with table rs, new rows at S and what r holds in m,
\* or it is rolled back: two rows with one path, or a path that does not fit
CommitTo(r, rs, S, m) ==
    IF Unique(rs) /\ \A i \in Live(rs) : rs[i].path \in Paths
    THEN Room(S) /\ rows' = rs /\ Count(S) /\ Go(r, m)
    ELSE UNCHANGED <<rows, births>> /\ End(r)

\* create_item: parents, the item, its first version
CommitCreate(r) ==
    LET m == req[r]
        made == Missing(rows, Ancestors(m.path))
        rs == [WithFolders(rows, Ancestors(m.path)) EXCEPT
                 ![NewId(m.path)] = [path |-> m.path, kind |-> m.kind,
                                     parent |-> LastParent(rows, m.path)]]
    IN  /\ m.pc = "valid" /\ m.op = "create"
        /\ Room({m.path})
        /\ CommitTo(r, rs, made \cup {m.path}, Idle)
        /\ UNCHANGED <<locks, clients, calls, lockCalls, crashed>>

\* _generic_delete: the row, or the folder with its descendants
CommitDelete(r) ==
    LET m == req[r]
    IN  /\ m.pc = "valid" /\ m.op = "delete"
        /\ rows' = Remove(rows, IF m.kind = "folder" THEN Descendants(rows, m.id)
                                ELSE Subtree(rows, m.id))
        /\ Go(r, [m EXCEPT !.pc = "prune", !.gone = m.id])
        /\ UNCHANGED <<births, locks, clients, calls, lockCalls, crashed>>

\* Mutant: a move changes paths and forgets the parent
MovedPathOnly(m) ==
    LET top == [WithFolders(rows, Ancestors(m.dest)) EXCEPT
                  ![m.id] = [path |-> m.dest, kind |-> m.kind, parent |-> m.parent]]
        under == IF m.kind = "folder" THEN Descendants(top, m.id) \ {m.id} ELSE {}
    IN  [i \in Ids |-> IF i \in under
                       THEN [top[i] EXCEPT !.path = Rebase(top[i].path, m.path, m.dest)]
                       ELSE top[i]]

\* _generic_move: the parents of the new path, the row as it was loaded with
\* its new path and parent, then every descendant found by parent links.  A
\* row deleted since it was loaded is inserted again.
Moved(m) ==
    LET top == [WithFolders(rows, Ancestors(m.dest)) EXCEPT
                  ![m.id] = [path |-> m.dest, kind |-> m.kind,
                             parent |-> LastParent(rows, m.dest)]]
        under == IF m.kind = "folder" THEN Descendants(top, m.id) \ {m.id} ELSE {}
    IN  [i \in Ids |-> IF i \in under
                       THEN [top[i] EXCEPT !.path = Rebase(top[i].path, m.path, m.dest)]
                       ELSE top[i]]

CommitMove(r) ==
    LET m == req[r]
        made == Missing(rows, Ancestors(m.dest))
        rs == Moved(m)
    IN  /\ m.pc = "valid" /\ m.op = "move"
        /\ CommitTo(r, rs, made, [m EXCEPT !.pc = "prune"])
        /\ UNCHANGED <<locks, clients, calls, lockCalls, crashed>>

\* _generic_copy: an item at the parallel path of every row listed, each with
\* its own lock and conflict checks, in one transaction
CommitCopy(r) ==
    LET m == req[r]
        target(e) == Rebase(e[2], m.path, m.dest)
        targets == {target(e) : e \in m.list}
        above == UNION {Ancestors(p) : p \in targets}
        fails == \/ ~(targets \subseteq Paths)
                 \/ \E e \in m.list : rows[e[1]] = NoRow
                 \/ \E p \in targets : Conflict(p) \/ \E q \in Active : Covers(q, p)
                 \/ \E p \in targets : p \in above
        kindAt(p) == rows[(CHOOSE e \in m.list : target(e) = p)[1]].kind
        made == Missing(rows, above)
        base == WithFolders(rows, above)
        rs == [i \in Ids |->
                 IF i[1] \in targets /\ i = NewId(i[1])
                 THEN [path |-> i[1], kind |-> kindAt(i[1]), parent |-> LastParent(rows, i[1])]
                 ELSE base[i]]
    IN  /\ m.pc = "valid" /\ m.op = "copy"
        /\ IF fails
           THEN UNCHANGED <<rows, births>> /\ End(r)
           ELSE Room(targets) /\ CommitTo(r, rs, made \cup targets, Idle)
        /\ UNCHANGED <<locks, clients, calls, lockCalls, crashed>>

\* item.save() of an update, a tag or a description: every column goes back as
\* it was loaded, path and parent too; a row deleted since is inserted again,
\* and a parent that is gone breaks the foreign key
CommitSave(r) ==
    LET m == req[r]
    IN  /\ m.pc = "valid" /\ m.op = "save"
        /\ IF m.parent # NoParent /\ rows[m.parent] = NoRow
           THEN UNCHANGED <<rows, births>> /\ End(r)
           ELSE CommitTo(r, [rows EXCEPT ![m.id] =
                               [path |-> m.path, parent |-> m.parent, kind |-> m.kind]],
                         {}, Idle)
        /\ UNCHANGED <<locks, clients, calls, lockCalls, crashed>>

\* parent.children.exists(), and then parent.parent: the end of the climb, an
\* ancestor that has children, or a parent that is gone (an error) ends the call
PruneCheck(r) ==
    /\ req[r].pc = "prune"
    /\ LET m == req[r]
           stop == \/ m.up = NoParent
                   \/ Children(rows, m.up) \ {m.gone} # {}
                   \/ m.next # NoParent /\ rows[m.next] = NoRow
           over == IF m.next = NoParent THEN NoParent ELSE rows[m.next].parent
       IN  IF stop THEN End(r) ELSE Go(r, [m EXCEPT !.pc = "pruning", !.over = over])
    /\ UNCHANGED <<rows, births, locks, clients, calls, lockCalls, crashed>>

\* Mutant: only the nearest ancestor is pruned
PruneDeleteOnce(r) ==
    /\ req[r].pc = "pruning"
    /\ rows' = Remove(rows, Subtree(rows, req[r].up))
    /\ End(r)
    /\ UNCHANGED <<births, locks, clients, calls, lockCalls, crashed>>

\* Mutant: the loop does not move on to the next ancestor
PruneDeleteStuck(r) ==
    /\ req[r].pc = "pruning"
    /\ rows' = Remove(rows, Subtree(rows, req[r].up))
    /\ Go(r, [req[r] EXCEPT !.pc = "prune", !.gone = req[r].up])
    /\ UNCHANGED <<births, locks, clients, calls, lockCalls, crashed>>

\* parent.delete(), which cascades, and the climb to the next ancestor
PruneDelete(r) ==
    /\ req[r].pc = "pruning"
    /\ LET m == req[r]
       IN  /\ rows' = Remove(rows, Subtree(rows, m.up))
           /\ Go(r, [m EXCEPT !.pc = "prune", !.up = m.next, !.next = m.over, !.over = NoParent,
                              !.gone = IF m.op = "delete" THEN m.up ELSE NoParent])
    /\ UNCHANGED <<births, locks, clients, calls, lockCalls, crashed>>

\* A worker dies: what its transaction committed stays, the rest is not done
Crash(r) ==
    /\ MayCrash /\ ~crashed /\ req[r].pc # "idle"
    /\ End(r)
    /\ crashed' = TRUE
    /\ UNCHANGED <<rows, births, locks, clients, calls, lockCalls>>

-----------------------------------------------------------------------------
(* Locks change *)

\* The requests in flight no longer have a lock on p all along
Unlocked(p) == req' = [s \in Requests |-> [req[s] EXCEPT !.held = @ \ {p}]]

\* Bound: locks come and go only where calls overlap
LockStep == /\ clients = "many" /\ lockCalls < MaxLockCalls
            /\ lockCalls' = lockCalls + 1
            /\ UNCHANGED <<rows, births, clients, calls, crashed>>

\* create: only where there is a row, and not over an active lock; an expired
\* lock is revived
CreateLock(p, kind) ==
    /\ At(rows, p) # {} /\ p \notin Active
    /\ kind \in {"forever", "timed"}
    /\ locks' = [locks EXCEPT ![p] = kind]
    /\ UNCHANGED req
    /\ LockStep

\* replace: whatever lock row is there gets the new expiry, an expired one too
ReplaceLock(p, kind) ==
    /\ locks[p] # "none" /\ locks[p] # kind
    /\ kind \in {"forever", "timed"}
    /\ locks' = [locks EXCEPT ![p] = kind]
    /\ UNCHANGED req
    /\ LockStep

DeleteLock(p) ==
    /\ locks[p] # "none"
    /\ locks' = [locks EXCEPT ![p] = "none"]
    /\ Unlocked(p)
    /\ LockStep

\* The clock passes expires_at; the row stays
Expire(p) ==
    /\ locks[p] = "timed"
    /\ locks' = [locks EXCEPT ![p] = "expired"]
    /\ Unlocked(p)
    /\ LockStep

-----------------------------------------------------------------------------
Commit(r) == \/ CommitCreate(r) \/ CommitDelete(r) \/ CommitMove(r)
             \/ CommitCopy(r) \/ CommitSave(r)

Step(r) == \/ Refuse(r) \/ CheckLocks(r) \/ Validate(r) \/ Commit(r)
           \/ PruneCheck(r) \/ PruneDelete(r)

Init ==
    /\ rows = [i \in Ids |-> NoRow]
    /\ births = [p \in Paths |-> 0]
    /\ locks = [p \in Paths |-> "none"]
    /\ req = [r \in Requests |-> Idle]
    /\ clients \in Clients
    /\ calls = 0 /\ lockCalls = 0
    /\ crashed = FALSE

Next ==
    \/ \E r \in Requests : Step(r) \/ Crash(r)
    \/ \E r \in Requests, op \in Ops, p, d \in Paths, k \in Kinds \cup {"folder"} :
          Begin(r, op, p, d, k)
    \/ \E p \in Paths : DeleteLock(p) \/ Expire(p)
    \/ \E p \in Paths, kind \in Lock : CreateLock(p, kind) \/ ReplaceLock(p, kind)

\* A worker that runs a call goes on with it; nobody is obliged to call
Fairness == \A r \in Requests : WF_vars(Step(r))

Spec == Init /\ [][Next]_vars
FairSpec == Spec /\ Fairness

-----------------------------------------------------------------------------
(* Properties *)

\* Every variable has its type.
TypeOK ==
    /\ rows \in [Ids -> Row \cup {NoRow}]
    /\ births \in [Paths -> 0 .. MaxBirths]
    /\ locks \in [Paths -> Lock]
    /\ req \in [Requests -> Held]
    /\ clients \in Clients
    /\ calls \in Nat /\ lockCalls \in 0 .. MaxLockCalls
    /\ crashed \in BOOLEAN

Resting == \A r \in Requests : req[r].pc = "idle"
Front(p) == SubSeq(p, 1, Len(p) - 1)

\* Whatever is created, moved, copied, deleted and pruned, and wherever a
\* worker dies: while calls do not overlap, the parent of a row is the folder
\* at its path without the last name, so that walking the tree by parent links
\* and looking rows up by path prefix find the same rows.
ParentsFollowPaths ==
    clients = "one" =>
        \A i \in Live(rows) :
            IF Len(rows[i].path) = 1 THEN rows[i].parent = NoParent
            ELSE rows[i].parent \in FoldersAt(rows, Front(rows[i].path))

\* The ancestors of a row are folders and nothing is below an item; a folder
\* with nothing in it has been pruned by the time the call is answered.
\* (docs/concepts/tree-and-items.md:11; while calls do not overlap, and unless
\* a worker died before it pruned.)
FoldersHaveContents ==
    clients = "one" =>
        \A i \in Live(rows) :
            IF rows[i].kind = "folder" THEN Resting /\ ~crashed => Children(rows, i) # {}
            ELSE Children(rows, i) = {}

\* A request that gets past its lock check did so at a moment when its path
\* and its target, and all below its path when it moves a folder, were free of
\* locks: none of the locks that cover them has been in force since it began.
NoLockIsPassed ==
    \A r \in Requests : req[r].pc \notin {"idle", "loaded"} =>
        \A q \in req[r].held :
            /\ ~Covers(q, req[r].path) /\ ~Covers(q, req[r].dest)
            /\ req[r].op = "move" /\ req[r].kind = "folder" => ~Covers(req[r].path, q)

\* A call comes to its end: it climbs to the top at most, however the tree
\* changes around it.
CallsEnd == \A r \in Requests : req[r].pc # "idle" ~> req[r].pc = "idle"

\* Seen from outside, while calls do not overlap, the tree is a set of items
\* by path, folders are what their paths imply, and each call takes effect at
\* once: see PathTree.
ItemsByPath == {<<rows[i].path, rows[i].kind>> :
                    i \in {j \in Live(rows) : rows[j].kind # "folder"}}
PT == INSTANCE PathTree WITH items <- ItemsByPath
ImplementsPathTree == PT!Init /\ [][clients = "one" => PT!Next]_ItemsByPath

\* Folders "disappear when they become empty" (docs/concepts/
\* tree-and-items.md:11): pruning never takes an item away.
PruningSparesItems ==
    [][\A r \in Requests : req[r].pc = "pruning" /\ req'[r].pc = "prune" =>
          \A i \in Live(rows) \ Live(rows') : rows[i].kind = "folder"]_vars

=============================================================================
