# OCMO in TLA+

OCMO is a server for versioned configuration: a namespace holds a tree of
configs, templates, secrets and resolvers; configs are extended, merged,
rendered and served; everything is versioned, tagged, locked, audited and
announced by webhooks. The server (`api/core`) is a Django application over
PostgreSQL. This directory holds TLA+ models of its core logic, the TLC
configurations that check them on small instances, and proofs, checked by
TLAPS, of what holds for every instance.

What makes the code worth modelling is how it meets its database. Every API
call builds a manager that loads rows, decides, and writes in separate
statements. PostgreSQL runs these at READ COMMITTED in autocommit mode; there
is no `select_for_update`, no `ATOMIC_REQUESTS`, and `save()` writes every
column of the row as the request loaded it. Several worker processes serve
requests at once. So a call is a sequence of atomic statements (or
transactions) that other calls interleave with, and the models take exactly
that grain: one action per statement or commit, one program counter per
request, and what the request holds in memory as state.

## 1. The parts of the system

| part | code | state | operations | what is hard | what makes it correct |
|---|---|---|---|---|---|
| item versions and tags | `managers/tree/{base,update,tags}.py`, `managers/secret.py`, `models/{config,secret}.py` | item row with `tags`, version rows | create, update, set and delete tag, mark-stable, describe, delete version, delete item | stale whole-row saves, number allocation, commit before save, resurrection by `save()` | stored versions immutable, numbers without gaps, tags name stored versions, `latest` the highest live version, an acknowledged update visible |
| tree structure | `managers/tree/{create,mutate,paths}.py`, `models/tree.py` | rows with path and parent | create with ancestors, move, copy, delete folder, prune empty ancestors | checks before the transaction, prune outside it, cascades | every ancestor of an item is a folder row, no item lost by another's prune, paths and parents agree |
| locks | `managers/lock.py` | lock rows with expiry | create, replace, delete, covering and subtree checks | check and write in separate transactions, expiry, subtrees | nothing under a lock held throughout a call is written by it |
| resolution | `managers/{resolution,resolving,resolve_parameters}.py`, `utils/deep_merge.py` | none of its own | resolve a config or a folder: extend, reference, merge, render, cast; promote `stable` | recursion, extend modes, optional sources, edits between two reads | it ends, gives what the references mean, and records what its result depends on |
| resolve cache | `managers/resolve_cache.py`, `managers/resolution.py` | two cache layers keyed by request | get and revalidate, fill, expire | fill racing an edit, watchers of absent sources, versions that recur | a hit equals what a full resolve would give |
| artifact store | `managers/artifacts.py` | files or Redis keys by content hash | store, exists, load, sweep | shared temporary name, age sweep against fresh links | a link handed out stays good for the advertised time |
| resolvers and tokens | `managers/resolver_tokens.py`, `managers/tree/resolver_ops.py` | two token slots, enabled flag | rotate, enable, disable, authenticate | whole-row saves again | the token shown last for a slot is accepted, a disabled resolver stays disabled |
| webhook configuration | `managers/webhook/{cache,main}.py` | a cache per process | load, invalidate, deliver | invalidation reaches one process, put after invalidate | a delivery uses the configuration in force |
| global permission rules | `managers/global_permissions.py` | ordered rows, a catch-all last; compiled lists per process | create, update, move, delete, check | validation after the rows moved, no transaction, a cache keyed by count and time | the stored list compiles, a check applies the rules in force |
| propagation | `managers/propagation.py`, `managers/tree/propagation.py` | none of its own | merge a tagged version into target configs | partial failure, stale target | all targets or a reported skip, no edit overwritten |
| namespaces and keys | `managers/{namespace,crypto}.py` | active tags, wrapped data key | create, patch, first-use key creation | two first uses | every stored secret can be decrypted |
| permissions | `managers/permissions.py`, `utils/permissions_compiler.py` | policy documents with tags, the namespace's active tag, compiled documents per process, answers per request | change policies, tags and the active tag; check | caches against edits, checks against stale rows | an answer is that of a document in force, access can always be decided |
| audit | `managers/audit/` | append-only rows, a draft and its stack per request | record, list, timeline | nested calls, exceptions, rollbacks, failed inserts | an event per audited call, of that call |
| validation, casting, naming, diff, schemas | `managers/{config_validation,cast}.py`, `utils/output_naming.py`, `managers/tree/{diff,versions,read}.py`, `schemas/` | none | pure conversions and queries | - | - |
| SDK transport | `sdk/ocmo/{client,auth}.py` | a token in memory and on disk, attempts of a call | send, retry, refresh a token | lost and late answers, a token shared by processes | nothing unrepeatable is repeated, a refresh gets the call in, a call ends |
| other clients | `cli/`, `frontend/`, generated SDK code | none of the server's | - | - | - |

How they interact: the HTTP handlers build a `TreeManager` (or
`SecretManager`, `LockManager`, ...) per call; decorators check permissions
before the body, and write audit rows and send webhooks after it. Updates and
tag moves call propagation, which calls updates of other items. Resolution
reads items through the same managers, fills the resolve cache and the
artifact store, and `mark-stable` calls back into the tags. Writers never
touch the resolve cache: entries are revalidated when they are read. The
webhook cache is dropped explicitly by three kinds of write.

`PROJECT.json` lists each part with its status, and under `hazards` each place
where one of these difficulties bites, with the properties that cover it.

## 2. What is modelled

| module | part | abstract specification, composition |
|---|---|---|
| `ItemVersions` | one versioned item under concurrent requests | implements `VersionStore` |
| `Tree` | all rows of a namespace and the locks on its paths | implements `PathTree` |
| `ResolveCache` | the two cache layers over a changing tree | - |
| `Resolution` | the recursion, extend modes, folders, names, promotion | checked against `Meaning`, a definition without chain or stack |
| `GlobalRules` | the ordered rule table and its compiled lists | - |
| `Permissions` | policies of a namespace, active tag, memos | checked against `Granted`, a definition without buckets |
| `WebhookConfig` | the webhook configuration of several processes | - |
| `ArtifactStore` | one file of the filesystem store | - |
| `Propagation` | a tagged version merged into its targets | - |
| `ResolverTokens` | token slots and enabled flag | - |
| `Audit` | the events of one request | - |
| `ClientTransport` | SDK calls, tokens, retries | - |
| `MCServer` | the nine parts that share no state, in one run | composes the last nine modules above |

Every module that has two modes (`"alone"` and `"overlapping"`, or `"one"`
and `"many"` clients) chooses one in its initial state. What the code promises
only while calls come one after the other is stated for the first mode, what
it promises whatever overlaps for both. Definitions whose comment begins with
"Mutant" are what a slip of the code would make of the definition below them;
nothing uses them. Variables marked "history" record what happened for the
sake of a property and decide nothing.

### ItemVersions: one versioned item under concurrent requests

`ItemVersions.tla` models one path that holds at most one config, template or
secret, its version rows, and any number of requests.

State. `row` is the `TreeItem`/`Config` row, reduced to its primary key and
its `tags` column (`pk = 0`: no row; tag 0: the name is not a key of the JSON
object). `versions` is the set of version rows as a function from numbers: a
content, `Cleared` for a soft-deleted row, `Absent` for none. `lastPk` is the
key sequence. `locked` says whether some active lock covers the path. `req[r]`
is the manager object of request `r`: where it is, the row it loaded (`pk`,
`tags`, edited in memory as the code edits `self.item.tags`), and the content
and version number it works on. Two parts are history only: `req[r].open`
(the path was seen unlocked at some moment since `r` loaded) and `revived` (a
`save()` has re-inserted a row somebody deleted).

| code | actions |
|---|---|
| `get_item`, `get_or_raise` (`base.py`) | `Load`; `LoadSecret` for `SecretManager.update`, which checks the lock before it loads |
| any early error | `Refuse` |
| `_generic_update_versioned`, `_finalize_content_update` (`update.py`), `ConfigVersion.save` | `CompareUpdate` (compare with `versions.last()`), `NumberVersion` (maximum plus one), `InsertVersion` or `InsertFails` (the transaction ends), `SaveRow`, `ReviveRow` or `SaveFails` (`item.save()` after it) |
| `SecretManager.update` | `CompareSecret`, `NumberVersion`, `InsertSecretVersion` or `ReviveSecret` (insert and save in one transaction) |
| `set_*_tag` (`tags.py`) | `SetTag`, `DeleteTag`, then the save |
| `set_description` | `SetDescription`, then the save |
| `promote_stable_tag`, `_promote_stable_tags` | `PromoteStable`, `SaveTags` (one transaction, `update_fields`) |
| `_generic_delete` of a version (`mutate.py`) | `DeleteVersion`, `SoftDelete` or `SoftDeleteFails`, `CommitDelete` |
| `_generic_delete` of the item | `DeleteItem`, `RemoveRow` (the cascade takes the version rows) |
| `create_item`, `SecretManager.create`, `_generic_copy` into the path | `CreateItem`, `InsertItem` or `InsertItemFails` |
| the end of a call, a worker that dies | `Respond`, `Crash` |
| `LockManager.create`, `delete`, expiry | `LockPath`, `UnlockPath` |

What `save()` on a deleted row does is Django's: an UPDATE that matches no row
is followed by an INSERT with the same key. For a config this happens after
the version's transaction has ended, so the version's foreign key has already
failed (`InsertFails`); for a secret both are one transaction and PostgreSQL
checks the foreign key at its end, so the row and the version come back
together (`ReviveSecret`). Two statements are merged: `item_version.save()`
re-reads its row and updates it in one step, which the row's lock orders
against every other writer of that row but not against a deletion that falls
between the two.

`VersionStore.tla` is the abstract specification, what
`docs/concepts/versions-and-tags.md` promises: a history of numbered contents,
`latest` always the highest live one, every call one atomic step. The
refinement maps a version row that was inserted but whose tags are not saved
yet to "not there" (`Published`): the call takes effect when the row is saved.

### ResolveCache: two cache layers over a changing tree

`ResolveCache.tla` models the resolves of one config. Writers never touch the
cache; an entry is trusted or not when it is read, by reading again what it
was made from, one item after the other, while the tree goes on changing.

State. A path stands for the reference by which it is used (`path@tag`), and
`tree[p]` for what that reference names now: a version of one *life* of the
item (a re-created item numbers its versions from 1 again), or nothing.
`Extends` gives the references of a content in the document's order;
references to templates and secrets are references like those of `extend`.
`res` and `art` are layers 1 and 2; an entry is its participants and the
optional sources that were missing. `artifacts` are the stored artifacts,
named by content. `req[r]` is the local state of `resolve_at_path` and of the
pipeline. `seen[r]` is history: everything each path has named since `r`
started. The requests share their parameters and have `no_creds = false`; both
are parts of the keys, so other requests have entries of their own.

| code | actions |
|---|---|
| `_resolve_cache_context` | `Start`: reads the root, fixes the keys |
| layer 2 lookup, layer 1 lookup (`resolve_at_path`) | `LookupArtifact`, `LookupResolution`; both may find nothing, because there is nothing, because the cache fails, or because the request bypasses it |
| `skipped_optional_extend_valid` | `CheckSkipped`, one source per step |
| `_check_participant` in `participants_valid` | `CheckParticipant`, one participant per step |
| artifact check of `is_valid`, permission check, `_items_from_artifact_entry` | `ServeArtifact` |
| permission check, `_cast_from_resolution_entry` | `CastResolution`, `StoreArtifact`, `FillArtifact` |
| `ResolvePipelineManager` | `ReadSource`, `SkipSource` (one reference per step), `Resolved` |
| `_run_pipeline` after the pipeline | `StoreArtifact`, `FillArtifact`, `FillResolution` (not with secrets) |
| an answer, an error, a worker that dies | `End` |
| other requests' edits | `Retarget` (publish, move or delete a tag, delete a version or the item), `Create` |
| TTL and eviction, the artifact sweep | `EvictResolution`, `EvictArtifact`, `Sweep` |

Two simplifications: a path is used by one reference only, and references form
no cycle (the recursion guard of `_resolve_recursive` turns a cycle into an
error, which is `End`). A folder resolve passes the config row it listed to
the pipeline, so the root may be read from an older row: `ReadSource` has that
case.

### Tree: rows, folders, locks, and the calls that move them

State. `rows` is the `TreeItem` table by primary key (a path a row was created
at, and a count of the rows created there), each row with `path`, `parent` and
kind; folders are rows. `locks` is the `TreeLock` table. `req[r]` holds what a
manager holds in memory: the row it loaded, its target, the descendants a copy
has listed, the ancestors it is about to prune as Django loaded them (`up`,
`next`, `over`). `held` is history: the locks in force ever since the request
began.

| code | actions |
|---|---|
| manager construction, `get_item` | `Begin` |
| `ensure_paths_writable`, `ensure_subtree_writable` (`lock.py`) | `CheckLocks`, with `Refusing` the paths asked about |
| `_validate_path_conflicts`, the parent read before the transaction, `_folder_content_items` | `Validate` |
| any refusal before the first write | `Refuse` |
| `create_item`, `_make_sure_path_exists` | `CommitCreate`, with `WithFolders` (an ancestor that is not a folder makes `update_or_create` fail; the failure is swallowed) |
| `_generic_delete` of an item or a folder | `CommitDelete`, then pruning |
| `_generic_move` | `CommitMove` (row as loaded, descendants by parent links), then pruning |
| `_generic_copy` | `CommitCopy` |
| `item.save()` of updates, tags, descriptions | `CommitSave`: every column as it was loaded |
| the loop over empty ancestors, after the transaction | `PruneCheck`, `PruneDelete`, one ancestor per round, count and cascade apart |
| a worker that dies | `Crash` |
| `LockManager.create`, `replace`, `delete`, the clock | `CreateLock`, `ReplaceLock`, `DeleteLock`, `Expire` |

A transaction is one action: at READ COMMITTED its statements see what others
commit in between, but every row it changes is locked until it ends and
conflicting inserts fail by the unique key (`CommitTo`). `PathTree` is what the
tree promises while calls do not overlap: a set of items by path with the
folders that their paths imply, every call one step.

### Resolution: what resolving computes

The recursion of `ResolvePipelineManager` is a stack of `frames`; between any
two reads of the database other requests edit, delete and promote.

| code | actions |
|---|---|
| the request of `api/resolve.py`, listing of a folder | `BeginRequest` |
| `resolve_at_path` of the next config | `BeginConfig` |
| `_resolve_recursive` down to the extend block: depth, chain, zip's lengths | `Enter` (an operator of several actions) |
| `replicate` looking at its only source | `PeekReplicated` |
| `classify_extend_source` | `ClassifySource` |
| the second read of the source, and its resolve | `EnterSource` |
| `_apply_extend`, `deep_merge` | `MergeSources`, with `Extended` and `Merge` |
| output names, `deduplicate_output_names` | `PlainName`, `Suffix`, `WithNames` |
| collecting promotions, `_promote_stable_tags` | `NextInRequest`, `EndRequest` |
| other requests | `UpdateConfig`, `DeleteConfig`, `SetStable` |

A document is a value for each of two keys, what it extends with which mode,
and what its name template substitutes; parameters, templates and rendering
map one document to another and are left out.

### The other parts of the server

`GlobalRules`. `rules` is the table, `adm[a]` the row (and the rows still to
shift) that a call of an administrator holds, `compiled` the process's cache,
`chk[c]` a check. `GlobalPermissionManager.create` is `BeginCreate`,
`ValidateCreate`, `SaveRule`; `update` is `BeginUpdate`, `ValidateUpdate`,
`SaveRule`; `move` is `BeginMove`, `SelectShifted`, `ShiftOne` for each row,
`PlaceMoved`; `delete` is `DeleteRule`. `load_global_rules` is `BeginCheck` (the
signature) and `Compile` (the rows, read after it). Each statement is a step,
since no call has a transaction. The order read by a validation and the write
after it are steps of their own, and a worker may die between (`AdminDies`).

`Permissions`. `permDocs` and `permTags` are the versions and tags of
`_permissions`, `activeTag` the column of the namespace. `set_config_tag` is
`LoadTags`, `SavePermItem`; `update_configs` is `LoadConfig`, `AddPolicy`,
`SavePermItem`; `NamespaceManager.update` is `CheckActive`, `SaveNamespace`. A
request's checks are `CheckWithoutPolicy` and `CheckPolicy`, with the compiled
documents of the process (`policyCache`) and the answers the request remembers
(`access[r].answers`). A policy is its effect, its actions, and the sets of
paths and identities it matches.

`WebhookConfig`. Documents and keys are told apart by the time of the change
that made them active. A change and the invalidation after it are two steps
(`ChangeDocument` or `ChangeKey`, then `Invalidate`); `load_config` is
`BeginFill` and `PutConfig`. `MoveActiveTag` is the change that invalidates
nothing. `ProcessDies` empties a process.

`ArtifactStore`. Names lead to inodes. `store` is `BeginStore`, `OpenTmp`
(makes the file or truncates the one there), two `WritePart`s through the
descriptor, `Replace`; `sweep_expired` is `FindExpired`, `Unlink`. All writers
of one content share one temporary name.

`Propagation`. `set_config_tag` and the manual call are `SetTag` and
`PropagateManually`; the planning loop of `propagate_config` is `ReadTarget` per
target and `AllRead`, the writing loop `WriteTarget` per target and `EndRun`. A
document is what it holds for the payload's keys and for its own. Users edit,
lock and delete targets at any point; workers die (`PropagationDies`).

`ResolverTokens`. A keeper loads a row (`LoadResolver`) and saves it later:
`RotateToken` and `UpdateResolver` every column, `SwitchResolver` one. A consumer
presents a token (`PresentToken`), its use is noted (`StampToken`, one column),
and `ensure_resolver_enabled` decides (`AdmitConsumer`) on the row as found.

`Audit`. `running` is the stack of decorated calls, `draft` and `waiting` the
manager's current draft and its stack, `context` the context variable.
`run_decorated` is `BeginAudited` and `EndAudited`, `enrich_audit` is `Enrich`,
`transaction.atomic` is `OpenTransaction` and `CloseTransaction` (events are rows
of the same database and are rolled back with it), the resolve recorder
`RecordResolve`, `RecordParticipant`, `EndRecording`. An insert may fail.

`ClientTransport`. A call takes a token from memory, from the shared file or
from the identity provider (`TakeCached`, `FetchToken`, `WriteTokenFile` in two
steps), sends (`SendRequest`), and gets an answer, none, or one nobody waits for
any more (`ServeRequest`, `ConnectionFails`); then `Retry`, `Refresh` or
`ReturnAnswer`. Tokens age, expire, are revoked and replaced. Calls of different
processes share the file; calls of one process come one after the other.

`MCServer` extends the nine modules of this and the previous section but for
`Tree`. They share no variables, as the code of these parts shares none: what
one part asks of another is an input here (which target is locked, whether
an insert fails, what the tag names). A step of one part therefore commutes
with every step of another, and a property of one part holds in the product
exactly when it holds in the sum. The variable `part` chooses the part whose
steps a behaviour takes.

### What the runs show

| run | instance | shows |
|---|---|---|
| `VersionsSequential` | one request at a time, no crash; 2 contents, 3 versions, 2 creations, a custom tag, all three kinds | the types, that `latest` names the highest live version between calls, that an acknowledged update is what `latest` shows, and that the code implements `VersionStore` |
| `VersionsConcurrent` | two requests, crashes, deletion of the item, all three kinds | that locks taken before a call stop it, version numbers have no gaps, tags name stored versions, stored versions never change except to be cleared |
| `VersionsRace` | two requests on a config, no crash | a violation: `latest` is left on a version that is not the highest live one |
| `VersionsCrash` | one request on a config, crashes | a violation: an update is acknowledged that `latest` does not show |
| `SecretSoftDelete` | one request on a secret | a violation: deleting a secret's version never takes effect |
| `ResolveCaching` | two callers with different permissions, a root of two versions, an optional overlay, a secret, two edits or expiries | that every version in an answer was current during the request, that answers other than layer 2 hits leave out only optional sources that were missing, that no caller gets what he may not resolve |
| `ResolveOverlay` | one caller | a violation: a layer 2 hit leaves out an overlay that exists |
| `ResolveRecreated` | one caller, items that may be created twice | a violation: a hit serves the content of a deleted item under the same version of its successor |

| `TreeOperations` | three levels of paths, two rows per path, two kinds; one client with a worker that may die, or two overlapping clients with locks | that the tree is a `PathTree` while calls do not overlap, that parents are where paths say and empty folders are gone, that no lock asked about is passed, and that every call ends |
| `TreePruneRace` | two overlapping clients | a violation: pruning deletes an item |
| `ServerParts` | the nine parts of `MCServer`, both modes of each | that each part keeps its promises: see the modules' properties and the theorems below |
| `StablePromotion` | one request, several extend modes | a violation: `stable` is set to the version number of another config |

The seven violations are disagreements between the code and its documents;
`findings` in `PROJECT.json` quotes the lines.

`VersionsRace`. Request A loads the row (latest 1) to describe the item,
request B updates it (version 2, latest 2), A saves the row with latest 1.

`VersionsCrash`. The worker dies after the version row is committed and before
the tags are saved. The client retries with the same content; it equals the
newest version, so no version is made, the old tags are saved and the answer
is a success. The content is stored and no call with that content makes it
latest.

`ResolveOverlay`. A resolve fills layer 1 while the overlay is missing, and
the entry says so. A second resolve in another format casts that entry and
writes layer 2 without saying so. The overlay is created; a third resolve hits
layer 2 and does not look for it. (The run has one format: the layer 2 entry
of the first resolve is lost instead.)

`ResolveRecreated`. An entry is filled from version 1 of an item. The item is
deleted and another one created at its path, which has a version 1 too.

`TreePruneRace`. A deletion finds the folder above its item without children;
before it deletes the folder, a creation that found the folder existing
commits an item in it; the folder's deletion cascades to that item.

`StablePromotion`. Config a broadcasts over config b. Its outputs carry the
version of b, and the first of them is what is promoted as `stable` of a.

The safety properties of `VersionsConcurrent` are stated "unless `revived`"
where a resurrected row loses its history: the code then starts numbering
again (a config cannot be updated any more, a secret starts from 1 or from a
higher number), and its tags name versions that are gone.

Bounds and why they are enough. Two contents make "changed" and "unchanged"
differ. Three versions let two requests race for a number while an older
version exists to fall back to when one is deleted. Two creations
(`MaxPk = 2`, one in the concurrent run, where a resurrected row keeps its
key) let a path be deleted and created again. Two requests make every
interleaving in which one call overtakes another; what a third could add is
covered by the theorems, which hold for any number. `CreateDocs` holds no
`Cleared` in the runs; the theorems say which results depend on that.
Deadlock is checked in the runs of `ItemVersions`: a request can always load,
finish or fail.

For `ResolveCache`: two versions of each item let a reference move away and
back, two requests let one fill an entry between another's reads, and two
events (edits or expiries together, `MaxEvents`) are what the staleness
scenarios need: one to make an entry old, one to make it valid again or to
lose the other layer. The three paths are one of each sort: the root, an
optional source, a required source that is a secret. Once the events are used
up and the root is missing nothing can happen any more, so these runs do not
check deadlock. The theorems hold for any number of events, items, requests
and callers.

For `Tree`: the six paths make folders inside folders that can be moved or
copied onto each other with what they hold; two rows per path let a path be
deleted and created again. One client makes three calls, enough for one call
to build, one to change, and one to meet what the other two left; overlapping
clients make two, in all interleavings, with two lock events. Rows run out
(`MaxBirths`) only where a third creation at one path would be needed.

For `MCServer`: every part has at least what its hazards take, two of each
thing that can be confused and one mishap more than is tolerated once. Two
rules and the catch-all position let a move shift one onto the other; three
versions, two tags and a changing active tag let a compiled document be old;
two processes let one change what the other has cached; two writers, a
sweeper and three inodes let a file be truncated, replaced and removed under a
writer; three targets are one by latest, one pinned, one forbidden; three
configs, with depth 3, reach a cycle, a config that extends its own old
version and every extend mode; two resolvers, two keepers and three tokens let
a copy race a rotation; four audited calls nest three deep with one failed
insert; two processes and three tokens let a refreshed token be replaced by
another process. Behaviours end when the bounds are used up, so this run and
those of `Tree` do not check deadlock.

Fairness and liveness. `TreeOperations` assumes weak fairness of each
request's own steps: a worker that runs a call goes on with it, which is what
a process does. Nobody is obliged to call, to lock or to unlock, and a crash
ends a call too. `CallsEnd` then says that the climb to empty ancestors ends
however the tree changes around it. No other specification states fairness:
their calls have a fixed number of steps between one guard and the next, and
where the code loops (retries of the client, references of a resolve) the bound
on the loop is a safety property (`SendsAreBounded`, `ResolvesAsDefined`).

## 3. What is proved

All proofs are checked by TLAPS from nothing but the named assumptions on
constants; each property below was first checked by TLC, and each invariant is
inductive: the initial states have it and every step keeps it.

`ItemVersions_proofs.tla`, for every set of requests, contents, tags and kinds and for every bound,
from `ConstantsAssumption` only (contents and the two sentinels are different
values, the bounds are numbers), and for the last three with one caller and
no crash:

| theorem | property | rests on |
|---|---|---|
| `TypeCorrect` | `TypeOK` | inductive as it stands |
| `LocksRespected` | `LockRespected` | `LockInv`: a request in flight while the path is unlocked remembers it; the property alone says nothing of a request that loaded under a lock and is not past its checks yet |
| `KeysIdentifyRows` | `KeysInv` | keys are handed out in order and a row that is gone leaves no tags and no versions; a request past its checks holds a key |
| `StoredVersionsAreImmutable` | `VersionsImmutable` | `KeysInv`: a step that keeps the key of the row neither removes nor re-creates it |
| `VersionNumbersHaveNoGaps` | `VersionsContiguous` | `SnapshotInv`: all numbers below the one a request is about to insert are stored, as long as its row is the stored one (version rows only grow under one key) |
| `TagsNameStoredVersions` | `TagTargetsExist`, if no item is created from empty content | `TagInv`: the tags any request holds for the stored row name stored versions, however old its snapshot is |
| `OneCallerSeesTheStore` | `ImplementsStore` | `AloneInv`: what the caller holds, point by point of its call, is the stored row, so that each commit is one step of the store and everything else a stutter |
| `OneCallerFindsLatest`, `OneCallerFindsUpdates` | `LatestIsHighestLive`, `AcknowledgedUpdateIsLatest` | the same, and that every step of the abstract store keeps `latest` the highest live version |

Each invariant was checked by TLC on the concurrent instance before it was
proved. `OnlyWritesWrite` (nine actions write the database) and `ProceedFacts`
(what moving a request on does to its fields) carry most of the case analysis.

`ResolveCache_proofs.tla`, for every set of paths, references, callers, casts
and for every bound, from `ConstantsAssumption` of that module:

| theorem | property | rests on |
|---|---|---|
| `CacheTypeCorrect` | `TypeOK` | the inductive invariant below |
| `CacheServesNamedVersions` | `ServedVersionsWereNamed` | `SeenOK`: a running request has seen what every path names now, and the participants it has confirmed (those already revalidated, or all it read) are among what it has seen. Nothing is assumed of the entries: revalidation alone is enough, so a fill that lost a race does no harm |
| `CacheServesPermitted` | `ServedOnlyPermitted` | `SeenOK`: past the permission check, or in the pipeline, all participants are permitted |
| `CastsSkipMissing` | `CastsSkipOnlyMissingSources` | `CoverInv`: a layer 1 entry and what a request holds are closed under references, except through optional sources that it lists as skipped, and each listed source is either still to be checked or was missing at some moment of the request. Layer 2 entries list none, which is the finding `ResolveOverlay` |

`UpdateInv` reduces the steps of one running request to a fact about the record
it holds afterwards; `ChangeInv` shows that an edit only adds to what is seen.

The other modules, each for every value of its constants, from the
assumptions named in it:

| theorem (module of the proof) | property | rests on |
|---|---|---|
| `TreeTypeCorrect`, `TreeHonoursLocks` (`Tree_proofs`) | `TypeOK`, `NoLockIsPassed` | `IInv`: the locks a request remembers are still active, and past its check none of them covers what it writes |
| `TreeParentsFollowPaths`, `TreeFoldersHaveContents` (`Tree_proofs`) | `ParentsFollowPaths`, `FoldersHaveContents` | calls that do not overlap: `OneInv`, with one part per point of a call: parent links lead to the root with paths one name shorter each, what a save is about to write agrees with the row it loaded, and the only folder without contents is the ancestor that the call is looking at. `Subtree` is a recursive function; that it is what parent links reach is proved by induction on the depth |
| `TreeImplementsPathTree` (`Tree_proofs`) | `ImplementsPathTree` | the same invariant: each commit is one step of the abstract tree (create, delete with all below, move or copy of a whole subtree, prune) and all else a stutter |
| `RulesServed` (`Access_proofs`) | `RulesInForceServed` | `EntriesCover`: whatever in the table is not newer than an entry's stamp is on its list. It survives a stale list stored late, since the clock moves between writes |
| `ServedIsTable` | `ServedListIsTable` | one after the other: a list as long as the table that has every rule of it is the table |
| `TableCompiles` | `RulesCompile` | one after the other: at most one rule has a catch-all pattern, in the last position, and what any call is about to write fits that |
| `AnswersAreThePolicys` (`Access_proofs`) | `AnswersFollowPolicy` | `CacheInv` (an entry is the document of its number), `NamedInv` (a request knows all its tag has named); `Decide` by buckets equals `Granted` by policies |
| `ActiveTagIsSafe` | `ActiveTagNamesPolicy` | one caller: `ActiveInv`, what a call is about to save leaves the active tag on a version |
| `OwnChangesShow` (`ProcessState_proofs`) | `HooksShowOwnChanges` | `EntriesInv`: a dispatch in flight holds the active document |
| `AloneIsWhole` | `ArtifactIsWhole` | the temporary name's file is the writer's, and not the artifact's |
| `EndsWhole` | `ArtifactEndsWhole` | `PartsComing`: while nobody has died, each part that a named file lacks is pending in a writer that has this file open |
| `PostsActOnce`, `RetriesEnd`, `RefreshHelps` | `PostTakesEffectOnce`, `SendsAreBounded`, `RefreshedCallsGetIn` | `CallsInv`: `Once` (before a POST is sent again its last request came back refused), `Counted` (each request after the first has cost an attempt), `GetsIn` (a refresh empties memory and disk, so the next token is new) |
| `ParticipantsKeepTheirResolve` | `ParticipantsHaveTheirResolve` | `RecordingInv`: while a resolve is recorded no call is running that could roll its event back, what is saved next follows that event with only participants between, and open transactions hold fewer events the further out they are |
| `EventsOfTheirCalls`, `LossOfCallersOnly` (`ProcessState_proofs`) | `EventsTellTheirCalls`, `LossTakesOnlyCallers` | `AuditInv`: drafts lie on the stack in the order of their calls; a call that has lost nothing of what it made has its draft as long as it runs, with only drafts of running calls above it, and then its event; the context in force is that of the innermost audited call that runs |
| `PropagationKeepsOwnKeys`, `PropagationArrives` (`Propagation_proofs`) | `OwnKeysKept`, `PayloadArrives` | `PlanInv`: an unmeddled target is as it was read until it is written; `ResultInv`: what is reported stays so |
| `ResolvesRight`, `ParticipantsSuffice` (`Resolution_proofs`) | `ResolvesAsDefined`, `ParticipantsDecide` | `ResInv`, see below |
| `NamesAreUnique` | `OutputNamesDiffer` | two names that are equal have the same suffix, and the n-th further output of a name has a suffix of its own |
| `RotatedTokensStay`, `TokensIdentify`, `DisabledStayOut` (`Access_proofs`) | `TokensAsRotated`, `OneHolder`, `DisabledIsRefused` | `FreshInv` (a row not changed since it was loaded is the stored one), `OwnerInv` (tokens are new when made, and a row held in memory or stored has tokens of its own resolver), `KnownInv` |

The proof about `Resolution` relates two recursions: the stack of the code, with
its chain of `path@version`, and the definition `Meaning`, which has neither and
counts the references that are left. `ResInv` says of every frame that what it
holds of its sources is what they mean with one reference less to follow
(`StackMeans`), and it says so not only of the configs as they are but of every
later state of them in which all that was consulted and skipped still is so
(`MeansInv`). That is what a resolve that edits overtake can keep, and what
`ParticipantsSuffice` needs. As long as nothing has changed, what is about to
fail must mean nothing (`TopFails`): for a missing version, the depth and zip's
lengths that is one step of the definition; for the chain it is `NoCycle`: were
the config on the chain to mean something, it would do so with a least number of
references, and by going round once with fewer. `MeaningStep` shows that the
recursive definition has the values it says, `OverlaidType`, `FlattenType` and
`ListedType` that the recursive functions on sequences have their types.

`Iteration_proofs.tla` holds what these proofs share: induction over numbers
stated for a set (a set of numbers that has 0 and the successor of each of its
members has all numbers), from which facts about recursive functions are proved,
and what repeating a step a number of times does. The library's induction
theorems take an operator as a parameter, which the provers cannot instantiate;
a set they can.

Assumed besides numbers and distinct sentinels: there are finitely many paths
(`PathsAssumption`: a request walks finitely many rows), NULL is no row
(`NullsAssumption`), None is no draft (`DraftAssumption`), requests name
references that there are (`RequestsAssumption`), and documents have the shape that
`ConfigExtendSchema` checks when they are saved (`DocumentsAssumption`).

Only model-checked: `CallsEnd` (liveness under fairness is out of the prover's
reach, and so is `ENABLED`). Every invariant and action property of a passing run
is stated by a theorem.

## 4. What the properties do not say

- `LatestIsHighestLive`, `AcknowledgedUpdateIsLatest` and `ImplementsStore` hold
  for one caller; two runs show what overlapping and dying make of them.
- `ParentsFollowPaths`, `FoldersHaveContents` and `ImplementsPathTree` hold while
  calls do not overlap. Overlapping moves and saves do leave rows whose path and
  parent disagree, since `save()` writes both as they were loaded.
- `NoLockIsPassed` is about the locks the code asks about, see below.
- `RulesCompile` excepts a rule that a move has shifted to the catch-all position,
  the one beyond the last ordinary position; it then ties with the catch-all
  rule, which is no longer sure to be last (`docs/features/authorization.md:73`).
- `OutputNamesDiffer` excepts names that documents give themselves and that
  look like another name with a suffix: `deduplicate_output_names`
  (`output_naming.py:56-76`) does not look up the names it makes.
- `TokensAsRotated` and `DisabledIsRefused` except resolvers whose row a call has
  saved whole from an old one (`resolver_ops.py:20`): then a rotation of the
  other slot is undone, and a disabled resolver may be enabled again.
- `HooksShowOwnChanges` is of the process that handled the change. Other
  processes go on with what they have; nothing tells them.
- `RefreshedCallsGetIn` is of OIDC with a client secret. One call at a time per
  process: coroutines that share one provider are not modelled, nor is a
  token cache that cannot be written.

### Observations

Disagreements met while modelling that no run refutes, since the model is of
the code and the statement is elsewhere:

- After a 401 the bearer provider reads its token file again, but the header of
  the client keeps the old token (`client.py:249-255`): the request is sent a
  second time as it was. The docstring says "Returns True if headers were
  updated", and `docs/quickstart/install-sdk.md` and the SDK's README describe
  the refresh.
- An audit event of a denied promotion is a row in the transaction that the
  denial rolls back (`resolution.py:845`), while `docs/features/audit.md:16` lists
  "Access denied events (always audited)".
- Deleting a folder asks for locks at and above its path, not below it
  (`mutate.py:515`); `docs/features/locks.md:3` says that locks prevent write
  operations "on a path and all its descendants", which a lock inside the
  folder does not.
- Copying an item whose tagged version is soft-deleted (`mutate.py:434`) creates
  an item from empty content; `TagsNameStoredVersions` excepts it.

## 5. What is not modelled, and why

Checks of one request against tables or schemas (validation, capability
tables, built-in paths) decide before the first write; in the models each is a
step that ends the call. Casting, rendering, diffing and listing are functions of
documents or read-only queries. The namespace's encryption key is written with
its first secret in one statement. The Redis artifact backend is one `SETEX`,
and the age of a stored file against the lifetime of a link is a question of
seconds that the model has not. Identity providers, sessions and health probes
keep no state of the server's. Most of the repository's lines are not control
at all: a generated SDK and generated CLI commands, request and response
schemas, the frontend, queries with their filters and pages. The models cover the
managers that change state, which is where the concurrency is.

## 6. Where to go on

1. Parameters of `Resolution`, where they select sources, and its composition with
   `ResolveCache`: `ParticipantsDecide` is what that module takes for granted.
2. The composition of `Propagation` with `ItemVersions`, whose updates it calls.
