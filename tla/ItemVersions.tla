---------------------------- MODULE ItemVersions ----------------------------
(***************************************************************************)
(* One versioned tree item (a config, a template or a secret) at one path, *)
(* its version rows and its tags, under concurrent API requests.           *)
(*                                                                         *)
(* A request loads the item row, which carries the tags, then reads and    *)
(* writes in separate database statements.  PostgreSQL runs them at READ   *)
(* COMMITTED and nothing locks the row in between (there is no             *)
(* select_for_update and no ATOMIC_REQUESTS), so each statement, or each   *)
(* transaction's commit, is one action here.  item.save() writes every     *)
(* column, the tags as they were when the request loaded them included.    *)
(***************************************************************************)
EXTENDS Naturals

CONSTANTS
    Requests,      \* concurrent API requests; one of them may run many calls
    Docs,          \* document contents a client may submit
    CreateDocs,    \* contents an item can be created with
    CustomTags,    \* tag names a client may set
    Kinds,         \* node types an item at the path may have
    MaxVersion,    \* bound: highest version number handed out
    MaxPk,         \* bound: number of rows created at the path
    MayCrash,      \* whether a worker may die in the middle of a request
    MayRemove,     \* whether clients delete the whole item
    Absent,        \* value of a version number that has no row
    Cleared        \* content of a soft-deleted version row: data = ""

ASSUME ConstantsAssumption ==
    /\ Kinds \subseteq {"config", "template", "secret"}
    /\ MaxVersion \in Nat \ {0}
    /\ MaxPk \in Nat
    /\ MayCrash \in BOOLEAN
    /\ MayRemove \in BOOLEAN
    /\ Absent \notin Docs /\ Cleared \notin Docs /\ Absent # Cleared
    /\ CreateDocs \subseteq Docs \cup {Cleared}

VARIABLES
    row,       \* the TreeItem row: pk (0 when there is none) and tags
    versions,  \* the version rows of that item, by number
    lastPk,    \* the highest primary key handed out
    kind,      \* node_type of the item, which no request changes
    locked,    \* whether an active lock covers the path
    req,       \* what each request holds in memory
    revived    \* history: a save() has re-inserted a deleted row

vars == <<row, versions, lastPk, kind, locked, req, revived>>

Numbers  == 1 .. MaxVersion
TagNames == {"latest", "stable"} \cup CustomTags
\* tags: {tag_name: version_number}; 0 stands for a name that is not a key
Tags     == [TagNames -> 0 .. MaxVersion]
NoTags   == [t \in TagNames |-> 0]
NoRow    == [pk |-> 0, tags |-> NoTags]

\* "config" reserves stable; for the other kinds it is a name like any other
ReservedTags == IF kind = "config" THEN {"latest", "stable"} ELSE {"latest"}

PC == {"idle", "loaded", "secretLoaded", "number", "insert", "save",
       "saveTags", "softDelete", "commit", "commitRepoint", "remove",
       "create", "acked"}
\* the points at which a request has passed every check and will write
Writing == PC \ {"idle", "loaded", "secretLoaded", "acked"}

\* What a request holds: the row it loaded (pk and tags, edited in memory),
\* the document and version number it works on, and, as history, whether the
\* path has been writable at some moment since it loaded.
Held == [pc : PC, pk : Nat, tags : Tags, doc : Docs \cup {Cleared},
         ver : 0 .. MaxVersion, open : BOOLEAN]
Idle == [pc |-> "idle", pk |-> 0, tags |-> NoTags, doc |-> Cleared, ver |-> 0,
         open |-> FALSE]

-----------------------------------------------------------------------------
(* Version rows *)

NoVersions == [n \in Numbers |-> Absent]
Rows(vs)   == {n \in Numbers : vs[n] # Absent}
Live(vs)   == {n \in Numbers : vs[n] \in Docs}

\* n is the greatest element of S, or 0 when S is empty
IsHighest(n, S) ==
    \/ S = {} /\ n = 0
    \/ n \in S /\ \A m \in S : m <= n

\* the rows that item.versions reaches from an instance with primary key pk
RowsOf(pk) == IF row.pk = pk THEN versions ELSE NoVersions

\* Mutant of SameAsLast: unchanged against any version, not the last one.
SameAsAny(vs, d) == \E n \in Rows(vs) : vs[n] = d

\* data equals the content of versions.last(), a soft-deleted row included
SameAsLast(vs, d) == \E n \in Rows(vs) : IsHighest(n, Rows(vs)) /\ vs[n] = d

\* Mutant of IsNextNumber: one too far.
SkipsANumber(n, vs) == \E m \in 0 .. MaxVersion : IsHighest(m, Rows(vs)) /\ n = m + 2

\* the number ConfigVersion.save() computes: max("version") + 1
IsNextNumber(n, vs) == \E m \in 0 .. MaxVersion : IsHighest(m, Rows(vs)) /\ n = m + 1

\* Mutant of NumberTaken: a unique index over live rows only.
TakenByLiveRow(n, vs) == n \in Live(vs)

\* unique_together = [("config", "version")]
NumberTaken(n, vs) == n \in Rows(vs)

\* Mutant of VersionKnown: off by one.
KnownOrNext(v, vs) == \E m \in 0 .. MaxVersion : IsHighest(m, Rows(vs)) /\ v <= m + 1

\* versions.filter(version=v).exists(): a soft-deleted row counts
VersionKnown(v, vs) == v \in Rows(vs)

-----------------------------------------------------------------------------
(* Requests *)

\* Mutant of EnsureWritable: the lock check is dropped.
NoLockCheck == TRUE

\* no active lock on the path or an ancestor
EnsureWritable == ~locked

Finish(r) == req' = [req EXCEPT ![r] = Idle]

\* A request builds its TreeManager: get_item() reads the row, if any.
Load(r) ==
    /\ req[r].pc = "idle"
    /\ req' = [req EXCEPT ![r] = [Idle EXCEPT !.pc = "loaded",
                                  !.pk = row.pk, !.tags = row.tags,
                                  !.open = ~locked]]
    /\ UNCHANGED <<row, versions, lastPk, kind, locked, revived>>

\* SecretManager.update checks the lock before it loads the row.
LoadSecret(r) ==
    /\ kind = "secret"
    /\ req[r].pc = "idle"
    /\ EnsureWritable
    /\ row.pk # 0
    /\ req' = [req EXCEPT ![r] = [Idle EXCEPT !.pc = "secretLoaded",
                                  !.pk = row.pk, !.tags = row.tags,
                                  !.open = ~locked]]
    /\ UNCHANGED <<row, versions, lastPk, kind, locked, revived>>

\* Any early return before the first write: missing item, permission, lock,
\* unknown version, reserved tag, tag already set, invalid document, preview.
Refuse(r) ==
    /\ req[r].pc \in {"loaded", "secretLoaded"}
    /\ Finish(r)
    /\ UNCHANGED <<row, versions, lastPk, kind, locked, revived>>

\* The checks of a call on the item loaded by r have passed.
Checked(r) == req[r].pc = "loaded" /\ req[r].pk # 0 /\ EnsureWritable

Proceed(r, to, tags, d, v) ==
    /\ req' = [req EXCEPT ![r] = [@ EXCEPT !.pc = to, !.tags = tags,
                                           !.doc = d, !.ver = v]]
    /\ UNCHANGED <<row, versions, lastPk, kind, locked, revived>>

-----------------------------------------------------------------------------
(* Update: compare, number, insert, save *)

\* versions.last() of an item without version rows is None, and the update
\* dies on it: both disjuncts need a last row.
CompareUpdate(r, d) ==
    LET vs == RowsOf(req[r].pk) IN
    /\ kind # "secret"
    /\ Checked(r)
    /\ Rows(vs) # {}
    /\ \/ SameAsLast(vs, d) /\ Proceed(r, "save", req[r].tags, d, 0)
       \/ ~SameAsLast(vs, d) /\ Proceed(r, "number", req[r].tags, d, 0)

\* A secret without rows is numbered from 1, and an unchanged one returns
\* without a save.
CompareSecret(r, d) ==
    LET vs == RowsOf(req[r].pk) IN
    /\ req[r].pc = "secretLoaded"
    /\ \/ SameAsLast(vs, d) /\ Proceed(r, "acked", req[r].tags, d, 0)
       \/ ~SameAsLast(vs, d) /\ Proceed(r, "number", req[r].tags, d, 0)

NumberVersion(r) ==
    /\ req[r].pc = "number"
    /\ \E n \in Numbers :
          /\ IsNextNumber(n, RowsOf(req[r].pk))
          /\ Proceed(r, "insert", req[r].tags, req[r].doc, n)

\* The INSERT fails when the item is gone (the foreign key, checked when the
\* transaction commits) or the number was taken in the meantime (the unique
\* constraint); both are IntegrityErrors.
InsertFails(r) ==
    /\ req[r].pc = "insert"
    /\ \/ row.pk # req[r].pk
       \/ NumberTaken(req[r].ver, versions)
    /\ Finish(r)
    /\ UNCHANGED <<row, versions, lastPk, kind, locked, revived>>

\* tags["latest"] moves in memory only: the transaction ends here, and
\* _finalize_content_update saves the row after it.
InsertVersion(r) ==
    /\ kind # "secret"
    /\ req[r].pc = "insert"
    /\ row.pk = req[r].pk
    /\ ~NumberTaken(req[r].ver, versions)
    /\ versions' = [versions EXCEPT ![req[r].ver] = req[r].doc]
    /\ req' = [req EXCEPT ![r] = [@ EXCEPT !.pc = "save",
                                           !.tags["latest"] = req[r].ver]]
    /\ UNCHANGED <<row, lastPk, kind, locked, revived>>

\* SecretManager.update inserts and saves in one transaction.
InsertSecretVersion(r) ==
    LET tags == [req[r].tags EXCEPT !["latest"] = req[r].ver] IN
    /\ kind = "secret"
    /\ req[r].pc = "insert"
    /\ row.pk = req[r].pk
    /\ ~NumberTaken(req[r].ver, versions)
    /\ versions' = [versions EXCEPT ![req[r].ver] = req[r].doc]
    /\ row' = [row EXCEPT !.tags = tags]
    /\ req' = [req EXCEPT ![r] = [@ EXCEPT !.pc = "acked", !.tags = tags]]
    /\ UNCHANGED <<lastPk, kind, locked, revived>>

\* The foreign key of a secret's version is checked after secret.save(), which
\* re-inserts a row deleted in the meantime: the update brings the secret back.
ReviveSecret(r) ==
    LET tags == [req[r].tags EXCEPT !["latest"] = req[r].ver] IN
    /\ kind = "secret"
    /\ req[r].pc = "insert"
    /\ row.pk = 0
    /\ row' = [pk |-> req[r].pk, tags |-> tags]
    /\ versions' = [versions EXCEPT ![req[r].ver] = req[r].doc]
    /\ revived' = TRUE
    /\ req' = [req EXCEPT ![r] = [@ EXCEPT !.pc = "acked", !.tags = tags]]
    /\ UNCHANGED <<lastPk, kind, locked>>

\* item.save() is UPDATE ... WHERE id = pk over every column.
SaveRow(r) ==
    /\ req[r].pc = "save"
    /\ row.pk = req[r].pk
    /\ row' = [row EXCEPT !.tags = req[r].tags]
    /\ req' = [req EXCEPT ![r].pc = "acked"]
    /\ UNCHANGED <<versions, lastPk, kind, locked, revived>>

\* When the UPDATE matches no row, Django inserts one with the same pk.
ReviveRow(r) ==
    /\ req[r].pc = "save"
    /\ row.pk = 0
    /\ row' = [pk |-> req[r].pk, tags |-> req[r].tags]
    /\ revived' = TRUE
    /\ req' = [req EXCEPT ![r].pc = "acked"]
    /\ UNCHANGED <<versions, lastPk, kind, locked>>

\* That INSERT is refused when the path is taken again, or when the parent
\* folder was pruned along with the item.
SaveFails(r) ==
    /\ req[r].pc = "save"
    /\ row.pk # req[r].pk
    /\ Finish(r)
    /\ UNCHANGED <<row, versions, lastPk, kind, locked, revived>>

-----------------------------------------------------------------------------
(* Tags and description *)

SetTag(r, t, v) ==
    /\ Checked(r)
    /\ t \notin ReservedTags
    /\ VersionKnown(v, RowsOf(req[r].pk))
    /\ req[r].tags[t] # v
    /\ Proceed(r, "save", [req[r].tags EXCEPT ![t] = v], Cleared, 0)

\* Mutant of DeleteTag: stores null under the name instead of deleting the key.
NullTag(r, t) ==
    /\ Checked(r)
    /\ t \notin ReservedTags
    /\ req[r].tags[t] # 0
    /\ Proceed(r, "save", [req[r].tags EXCEPT ![t] = Absent], Cleared, 0)

DeleteTag(r, t) ==
    /\ Checked(r)
    /\ t \notin ReservedTags
    /\ req[r].tags[t] # 0
    /\ Proceed(r, "save", [req[r].tags EXCEPT ![t] = 0], Cleared, 0)

\* set_description saves the whole row: the tags it loaded go with it.
SetDescription(r) ==
    /\ Checked(r)
    /\ Proceed(r, "save", req[r].tags, Cleared, 0)

\* mark-stable: v was resolved earlier in the request.
PromoteStable(r, v) ==
    /\ kind = "config"
    /\ Checked(r)
    /\ req[r].tags["stable"] # v
    /\ v \in Live(RowsOf(req[r].pk))
    /\ Proceed(r, "saveTags", [req[r].tags EXCEPT !["stable"] = v], Cleared, v)

\* save(update_fields=["tags"]) raises when it matches no row, and the
\* propagation lookup that follows in the transaction needs a live version;
\* either failure rolls the promotion back.
SaveTags(r) ==
    /\ req[r].pc = "saveTags"
    /\ IF row.pk = req[r].pk /\ req[r].ver \in Live(versions)
       THEN row' = [row EXCEPT !.tags = req[r].tags]
       ELSE UNCHANGED row
    /\ Finish(r)
    /\ UNCHANGED <<versions, lastPk, kind, locked, revived>>

-----------------------------------------------------------------------------
(* Deletion *)

\* v is what resolve_version made of the reference: a tag of the loaded row
\* or a number, naming a version that is live.
DeleteVersion(r, v) ==
    /\ Checked(r)
    /\ v \in Live(RowsOf(req[r].pk))
    /\ Proceed(r, "softDelete", req[r].tags, Cleared, v)

\* item_version.save() re-reads the row and refuses one already deleted (that
\* read and the UPDATE, which takes the row's lock, are one step here).  A
\* SecretVersion also demands encrypted_data = None, which _generic_delete
\* never sets: a secret's version is always refused.
SoftDeleteFails(r) ==
    /\ req[r].pc = "softDelete"
    /\ \/ kind = "secret"
       \/ req[r].ver \notin Live(RowsOf(req[r].pk))
    /\ Finish(r)
    /\ UNCHANGED <<row, versions, lastPk, kind, locked, revived>>

\* Mutant of SoftDelete: latest is left where it was.
SoftDeleteKeepsLatest(r) ==
    /\ kind # "secret"
    /\ req[r].pc = "softDelete"
    /\ req[r].ver \in Live(RowsOf(req[r].pk))
    /\ Proceed(r, "commit", req[r].tags, Cleared, req[r].ver)

\* The UPDATE of the version row is not committed yet; the query for the new
\* latest runs in the same transaction and does not see it.
SoftDelete(r) ==
    LET others == Live(RowsOf(req[r].pk)) \ {req[r].ver} IN
    /\ kind # "secret"
    /\ req[r].pc = "softDelete"
    /\ req[r].ver \in Live(RowsOf(req[r].pk))
    /\ IF req[r].tags["latest"] = req[r].ver
       THEN \E n \in 0 .. MaxVersion :
               /\ IsHighest(n, others)
               /\ Proceed(r, "commitRepoint", [req[r].tags EXCEPT !["latest"] = n],
                          Cleared, req[r].ver)
       ELSE Proceed(r, "commit", req[r].tags, Cleared, req[r].ver)

\* An item that is gone by now took its version rows along, and the two
\* updates have nothing left to change.
CommitDelete(r) ==
    /\ req[r].pc \in {"commit", "commitRepoint"}
    /\ IF row.pk = req[r].pk /\ VersionKnown(req[r].ver, versions)
       THEN /\ versions' = [versions EXCEPT ![req[r].ver] = Cleared]
            /\ row' = IF req[r].pc = "commitRepoint"
                      THEN [row EXCEPT !.tags = req[r].tags] ELSE row
       ELSE UNCHANGED <<row, versions>>
    /\ Finish(r)
    /\ UNCHANGED <<lastPk, kind, locked, revived>>

DeleteItem(r) ==
    /\ MayRemove
    /\ Checked(r)
    /\ Proceed(r, "remove", req[r].tags, Cleared, 0)

\* Mutant of RemoveRow: the version rows outlive the item.
RemoveRowOnly(r) ==
    /\ req[r].pc = "remove"
    /\ row' = IF row.pk = req[r].pk THEN NoRow ELSE row
    /\ Finish(r)
    /\ UNCHANGED <<versions, lastPk, kind, locked, revived>>

\* The cascade takes the version rows; deleting a row already gone is no error.
RemoveRow(r) ==
    /\ req[r].pc = "remove"
    /\ IF row.pk = req[r].pk
       THEN row' = NoRow /\ versions' = NoVersions
       ELSE UNCHANGED <<row, versions>>
    /\ Finish(r)
    /\ UNCHANGED <<lastPk, kind, locked, revived>>

-----------------------------------------------------------------------------
(* Creation *)

CreateItem(r, d) ==
    /\ req[r].pc = "loaded"
    /\ req[r].pk = 0
    /\ EnsureWritable
    /\ row.pk = 0                  \* _validate_path_conflicts looks again
    /\ Proceed(r, "create", req[r].tags, d, 0)

\* The row says latest = 1 whether or not there was content to store: an
\* empty document, copied from a soft-deleted version, leaves no version row.
InsertItem(r) ==
    /\ req[r].pc = "create"
    /\ row.pk = 0
    /\ lastPk < MaxPk
    /\ lastPk' = lastPk + 1
    /\ row' = [pk |-> lastPk + 1, tags |-> [NoTags EXCEPT !["latest"] = 1]]
    /\ versions' = IF req[r].doc = Cleared THEN NoVersions
                   ELSE [NoVersions EXCEPT ![1] = req[r].doc]
    /\ Finish(r)
    /\ UNCHANGED <<kind, locked, revived>>

\* unique_together = [("namespace", "path")]
InsertItemFails(r) ==
    /\ req[r].pc = "create"
    /\ row.pk # 0
    /\ Finish(r)
    /\ UNCHANGED <<row, versions, lastPk, kind, locked, revived>>

-----------------------------------------------------------------------------
(* Responses, crashes, locks *)

Respond(r) ==
    /\ req[r].pc = "acked"
    /\ Finish(r)
    /\ UNCHANGED <<row, versions, lastPk, kind, locked, revived>>

\* The worker dies: an open transaction rolls back, a committed one stays.
Crash(r) ==
    /\ MayCrash
    /\ req[r].pc \in Writing
    /\ Finish(r)
    /\ UNCHANGED <<row, versions, lastPk, kind, locked, revived>>

LockPath ==
    /\ ~locked
    /\ locked' = TRUE
    /\ UNCHANGED <<row, versions, lastPk, kind, req, revived>>

\* A lock is deleted, or expires.
UnlockPath ==
    /\ locked
    /\ locked' = FALSE
    /\ req' = [r \in Requests |-> IF req[r].pc = "idle" THEN Idle
                                  ELSE [req[r] EXCEPT !.open = TRUE]]
    /\ UNCHANGED <<row, versions, lastPk, kind, revived>>

-----------------------------------------------------------------------------
Init ==
    /\ row = NoRow
    /\ versions = NoVersions
    /\ lastPk = 0
    /\ kind \in Kinds
    /\ locked = FALSE
    /\ req = [r \in Requests |-> Idle]
    /\ revived = FALSE

Step(r) ==
    \/ Load(r) \/ LoadSecret(r) \/ Refuse(r)
    \/ \E d \in Docs : CompareUpdate(r, d) \/ CompareSecret(r, d)
    \/ NumberVersion(r) \/ InsertFails(r)
    \/ InsertVersion(r) \/ InsertSecretVersion(r) \/ ReviveSecret(r)
    \/ SaveRow(r) \/ ReviveRow(r) \/ SaveFails(r)
    \/ \E t \in TagNames, v \in Numbers : SetTag(r, t, v)
    \/ \E t \in TagNames : DeleteTag(r, t)
    \/ SetDescription(r)
    \/ \E v \in Numbers : PromoteStable(r, v)
    \/ SaveTags(r)
    \/ \E v \in Numbers : DeleteVersion(r, v)
    \/ SoftDeleteFails(r) \/ SoftDelete(r) \/ CommitDelete(r)
    \/ DeleteItem(r) \/ RemoveRow(r)
    \/ \E d \in CreateDocs : CreateItem(r, d)
    \/ InsertItem(r) \/ InsertItemFails(r)
    \/ Respond(r) \/ Crash(r)

Next == (\E r \in Requests : Step(r)) \/ LockPath \/ UnlockPath

Spec == Init /\ [][Next]_vars

-----------------------------------------------------------------------------
(* Properties *)

\* Every variable and every field of a request holds a value of its kind.
TypeOK ==
    /\ row \in [pk : Nat, tags : Tags]
    /\ versions \in [Numbers -> Docs \cup {Absent, Cleared}]
    /\ lastPk \in Nat
    /\ kind \in Kinds
    /\ locked \in BOOLEAN
    /\ req \in [Requests -> Held]
    /\ revived \in BOOLEAN

\* A request that has gone past its checks saw the path unlocked at some
\* moment of its life: a lock taken before a request starts, and kept, stops
\* every write of that request (a lock taken later may not: the check and the
\* write are separate transactions).
LockRespected == \A r \in Requests : req[r].pc \in Writing => req[r].open

\* Unless a stale save() re-inserted a deleted row, the version numbers of an
\* item are 1 .. n without a gap, whichever way numbering, inserting, crashing
\* and deleting interleave.
VersionsContiguous ==
    ~revived => \A n \in Rows(versions) : \A m \in 1 .. n : m \in Rows(versions)

\* Unless a stale save() re-inserted a deleted row, no tag, however stale the
\* snapshot that wrote it, names a version that was never stored.
TagTargetsExist ==
    ~revived => \A t \in TagNames : row.tags[t] # 0 => row.tags[t] \in Rows(versions)

\* While the item keeps its row, a stored version never disappears, never
\* changes content except to be cleared, and once cleared stays cleared, even
\* when two requests compute the same number.
VersionsImmutable ==
    [][row'.pk = row.pk =>
          \A n \in Rows(versions) : versions'[n] \in {versions[n], Cleared}]_vars

\* no request is between its checks and its last write
Quiescent == \A r \in Requests : req[r].pc \notin Writing

\* "latest ... Always points to the highest non-deleted version": between
\* calls, latest names the highest live version, and is no tag when none is.
LatestIsHighestLive ==
    Quiescent /\ row.pk # 0 => IsHighest(row.tags["latest"], Live(versions))

\* "latest advances to the new version": when an update is answered with
\* success, the content behind latest is the content that was sent.
AcknowledgedUpdateIsLatest ==
    \A r \in Requests :
        req[r].pc = "acked" /\ req[r].doc # Cleared =>
            \E n \in Live(versions) : row.tags["latest"] = n /\ versions[n] = req[r].doc

\* "A version can be soft-deleted": a deletion that passed its checks on a
\* live version ends with that version cleared.
SoftDeleteTakesEffect ==
    [][\A r \in Requests :
          req[r].pc = "softDelete" /\ req'[r].pc = "idle" =>
              versions'[req[r].ver] \notin Docs]_vars

\* The version rows as the store shows them: a row that an update has
\* inserted but whose tags are not saved yet is still hidden.
Published ==
    [n \in Numbers |->
        IF n \in {req[r].ver : r \in {q \in Requests : req[q].pc = "save"}}
        THEN Absent ELSE versions[n]]

Store == INSTANCE VersionStore WITH
    Names   <- TagNames \ {"latest"},
    exists  <- row.pk # 0,
    history <- Published,
    latest  <- row.tags["latest"],
    pins    <- [t \in TagNames \ {"latest"} |-> row.tags[t]]

\* Calls made one at a time, by workers that do not die, are the atomic steps
\* of the documented store.
ImplementsStore == Store!Spec
=============================================================================
