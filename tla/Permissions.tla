---------------------------- MODULE Permissions ----------------------------
(***************************************************************************)
(* Access inside a namespace: the policies of the config _permissions, the *)
(* tag of it that the namespace names as active, the calls that change     *)
(* either, and the checks of requests, which compile a version once per    *)
(* process and remember their answers for as long as the request lasts.    *)
(*                                                                         *)
(* _permissions is a builtin path: it is never deleted, moved or copied,   *)
(* and none of its versions is.  A version is its number in permDocs.      *)
(***************************************************************************)
EXTENDS Integers, FiniteSets, Sequences

CONSTANTS
    Callers,            \* calls in flight that change the config or the namespace
    Requests,           \* requests in flight that ask for permission
    Documents,          \* the policy documents that are saved
    InitialDocument,    \* the document of version 1
    Checks,             \* what is asked: [who, type, verb, path]
    Resolvers,          \* the identities that are resolvers, whose implicit
    Scope,              \* scope is this set of paths
    NamespaceWriters,   \* who may write the namespace, by the global rules
    BuiltinPaths,
    PermTags,           \* tags, "latest" among them
    MaxPolicies,        \* bound: versions of _permissions
    MaxPermCalls        \* bound: calls begun in a behaviour

ASSUME PermAssumption ==
    /\ "latest" \in PermTags /\ InitialDocument \in Documents
    /\ \A d \in Documents : \A p \in d : \A a \in p.actions : a = <<a[1], a[2]>>
    /\ MaxPolicies \in Nat /\ MaxPermCalls \in Nat

VARIABLES
    permDocs,       \* versions of _permissions, in the order of their numbers
    permTags,       \* its tags: a version number, or 0
    activeTag,      \* permissions_tag of the namespace
    policyCache,    \* _policy_cache of the process: compiled documents by key
    permCalls,      \* what each call holds
    permBegun,      \* calls begun so far
    access          \* what each request holds

permVars == <<permDocs, permTags, activeTag, policyCache, permCalls, permBegun, access>>

-----------------------------------------------------------------------------
(* Policies: [effect, actions, who, paths], with "*" for any type or verb *)

Covers(p, k) == k.who \in p.who /\ k.path \in p.paths

\* compile_policy_set: buckets by type and verb
Bucket(doc, type, verb, effect) ==
    {p \in doc : p.effect = effect /\ <<type, verb>> \in p.actions}

\* get_candidates
Candidates(doc, k, effect) ==
    UNION {Bucket(doc, type, verb, effect) : type \in {k.type, "*"}, verb \in {k.verb, "*"}}

\* check_tree: a matching deny policy decides, then a matching allow policy
Decide(doc, k) ==
    /\ ~ \E p \in Candidates(doc, k, "Deny") : Covers(p, k)
    /\ \E p \in Candidates(doc, k, "Allow") : Covers(p, k)

ImplicitlyAllowed(k) == k.who \in Resolvers /\ k.verb = "resolve" /\ k.path \in Scope

-----------------------------------------------------------------------------
(* Calls *)

Hold(c, m)   == permCalls' = [permCalls EXCEPT ![c] = m]
NotChecked   == UNCHANGED policyCache
Named(r, tags) == IF access[r].open /\ tags[access[r].tag] # 0 THEN {tags[access[r].tag]} ELSE {}

\* The tags of the row become these; requests see what their tag names now
SaveTags(tags) ==
    /\ permTags' = tags
    /\ access' = [r \in Requests |-> [access[r] EXCEPT !.named = @ \cup Named(r, tags)]]

\* The namespace is loaded: its row is what the call knows of the active tag
BeginPermCall(c, op, tag, arg) ==
    /\ permCalls[c].pc = "idle" /\ permBegun < MaxPermCalls
    /\ permBegun' = permBegun + 1
    /\ Hold(c, [pc |-> op, tag |-> tag, arg |-> arg, active |-> activeTag])
    /\ NotChecked /\ UNCHANGED <<permDocs, permTags, activeTag, access>>

\* Mutant: the active tag may be deleted
MayDeleteAny(m) == permTags[m.tag] # 0

\* _check_active_namespace_tag_deletion, against the namespace as it was loaded
MayDelete(m) == permTags[m.tag] # 0 /\ m.tag # m.active

\* set_config_tag: the item is loaded and the change of its tag decided
LoadTags(c) ==
    /\ permCalls[c].pc = "tag"
    /\ LET m == permCalls[c]
           ok == IF m.arg # 0 THEN m.arg <= Len(permDocs) /\ permTags[m.tag] # m.arg ELSE MayDelete(m)
       IN  Hold(c, IF ok THEN [pc |-> "save", tags |-> [permTags EXCEPT ![m.tag] = m.arg]]
                   ELSE [pc |-> "idle"])
    /\ NotChecked /\ UNCHANGED <<permDocs, permTags, activeTag, permBegun, access>>

\* update_configs: the item is loaded, a version is added in a transaction, and
\* then the row is saved as it was loaded, with its number as latest
LoadConfig(c) ==
    /\ permCalls[c].pc = "update"
    /\ Hold(c, [pc |-> "add", doc |-> permCalls[c].arg, tags |-> permTags])
    /\ NotChecked /\ UNCHANGED <<permDocs, permTags, activeTag, permBegun, access>>

AddPolicy(c) ==
    /\ permCalls[c].pc = "add" /\ Len(permDocs) < MaxPolicies
    /\ LET m == permCalls[c]
       IN  IF m.doc = permDocs[Len(permDocs)]
           THEN Hold(c, [pc |-> "save", tags |-> m.tags]) /\ UNCHANGED permDocs
           ELSE /\ permDocs' = Append(permDocs, m.doc)
                /\ Hold(c, [pc |-> "save", tags |-> [m.tags EXCEPT !["latest"] = Len(permDocs) + 1]])
    /\ NotChecked /\ UNCHANGED <<permTags, activeTag, permBegun, access>>

SavePermItem(c) ==
    /\ permCalls[c].pc = "save"
    /\ SaveTags(permCalls[c].tags) /\ Hold(c, [pc |-> "idle"])
    /\ NotChecked /\ UNCHANGED <<permDocs, activeTag, permBegun>>

\* NamespaceManager.update: a new active tag exists on the config.  Another
\* field (arg = "other") needs no check, and the row is saved as it was loaded.
CheckActive(c) ==
    /\ permCalls[c].pc = "namespace"
    /\ LET m == permCalls[c]
       IN  Hold(c, IF m.arg = "other" THEN [pc |-> "saveNs", active |-> m.active]
                   ELSE IF permTags[m.tag] # 0 THEN [pc |-> "saveNs", active |-> m.tag]
                   ELSE [pc |-> "idle"])
    /\ NotChecked /\ UNCHANGED <<permDocs, permTags, activeTag, permBegun, access>>

SaveNamespace(c) ==
    /\ permCalls[c].pc = "saveNs"
    /\ activeTag' = permCalls[c].active /\ Hold(c, [pc |-> "idle"])
    /\ NotChecked /\ UNCHANGED <<permDocs, permTags, permBegun, access>>

\* The worker dies, after the version was added and before the row was saved too
PermCallDies(c) ==
    /\ permCalls[c].pc # "idle" /\ Hold(c, [pc |-> "idle"])
    /\ NotChecked /\ UNCHANGED <<permDocs, permTags, activeTag, permBegun, access>>

-----------------------------------------------------------------------------
(* Requests *)

NotCalls == UNCHANGED <<permDocs, permTags, activeTag, permCalls, permBegun>>

\* A request loads the namespace.  named is history: the versions that its
\* active tag names while the request lasts.
BeginAccess(r) ==
    /\ ~access[r].open
    /\ access' = [access EXCEPT ![r] = [open |-> TRUE, tag |-> activeTag, answers |-> {},
                      named |-> IF permTags[activeTag] # 0 THEN {permTags[activeTag]} ELSE {}]]
    /\ NotCalls /\ UNCHANGED policyCache

MemoKey(k) == <<k.who, k.type, k.verb, k.path>>

\* Mutant: a compiled document is cached for the namespace, whatever its version
KeyOfNamespace(version) == 0

CacheKey(version) == version

Answer(r, k, yes) ==
    access' = [access EXCEPT ![r].answers = @ \cup {[check |-> k, yes |-> yes]}]

Remembered(r, k) == {a \in access[r].answers : MemoKey(a.check) = MemoKey(k)}

\* Builtin paths and the scope of a resolver need no policy; an answer is given again
CheckWithoutPolicy(r, k) ==
    /\ access[r].open
    /\ \/ k.path \in BuiltinPaths /\ Answer(r, k, k.who \in NamespaceWriters \ Resolvers)
       \/ k.path \notin BuiltinPaths /\ ImplicitlyAllowed(k) /\ Answer(r, k, TRUE)
       \/ /\ k.path \notin BuiltinPaths /\ ~ImplicitlyAllowed(k)
          /\ \E a \in Remembered(r, k) : Answer(r, k, a.yes)
    /\ NotCalls /\ UNCHANGED policyCache

\* load_policy_set: the version that the tag names, compiled now or before; no
\* version is BrokenNamespace, and there is no answer
CheckPolicy(r, k) ==
    /\ access[r].open /\ k.path \notin BuiltinPaths /\ ~ImplicitlyAllowed(k)
    /\ Remembered(r, k) = {}
    /\ LET v == permTags[access[r].tag]
           hits == {e \in policyCache : e.key = CacheKey(v)}
       IN  /\ v # 0
           /\ \/ /\ hits = {}
                 /\ policyCache' = policyCache \cup {[key |-> CacheKey(v), doc |-> permDocs[v]]}
                 /\ Answer(r, k, Decide(permDocs[v], k))
              \/ /\ UNCHANGED policyCache
                 /\ \E e \in hits : Answer(r, k, Decide(e.doc, k))
    /\ NotCalls

EndAccess(r) ==
    /\ access[r].open
    /\ access' = [access EXCEPT ![r] = [open |-> FALSE, tag |-> "latest", answers |-> {}, named |-> {}]]
    /\ NotCalls /\ UNCHANGED policyCache

\* The least recently used entry makes room, or the process starts anew
EvictPolicy(e) ==
    /\ policyCache' = policyCache \ {e}
    /\ NotCalls /\ UNCHANGED access

-----------------------------------------------------------------------------
PermInit ==
    /\ permDocs = <<InitialDocument>>
    /\ permTags = [t \in PermTags |-> IF t = "latest" THEN 1 ELSE 0]
    /\ activeTag = "latest"
    /\ policyCache = {} /\ permBegun = 0
    /\ permCalls = [c \in Callers |-> [pc |-> "idle"]]
    /\ access = [r \in Requests |-> [open |-> FALSE, tag |-> "latest", answers |-> {}, named |-> {}]]

PermNext ==
    \/ \E c \in Callers, t \in PermTags \ {"latest"}, v \in 0 .. MaxPolicies : BeginPermCall(c, "tag", t, v)
    \/ \E c \in Callers, d \in Documents : BeginPermCall(c, "update", "latest", d)
    \/ \E c \in Callers, t \in PermTags, f \in {"tag", "other"} : BeginPermCall(c, "namespace", t, f)
    \/ \E c \in Callers : \/ LoadTags(c) \/ LoadConfig(c) \/ AddPolicy(c) \/ SavePermItem(c)
                          \/ CheckActive(c) \/ SaveNamespace(c) \/ PermCallDies(c)
    \/ \E r \in Requests : BeginAccess(r) \/ EndAccess(r)
    \/ \E r \in Requests, k \in Checks : CheckWithoutPolicy(r, k) \/ CheckPolicy(r, k)
    \/ \E e \in policyCache : EvictPolicy(e)

PermSpec == PermInit /\ [][PermNext]_permVars

-----------------------------------------------------------------------------
(* Properties *)

\* Deny over allow, policy by policy: some policy that is about the action, the
\* path and the identity allows, and none denies
About(p, k) == /\ Covers(p, k)
               /\ \E a \in p.actions : a[1] \in {k.type, "*"} /\ a[2] \in {k.verb, "*"}
Granted(doc, k) == /\ \E p \in doc : p.effect = "Allow" /\ About(p, k)
                   /\ ~ \E p \in doc : p.effect = "Deny" /\ About(p, k)

\* However calls, checks, evictions and deaths interleave: an answer about a
\* path under policies is what deny over allow gives for a document that the
\* tag the request began with named while the request lasted.
AnswersFollowPolicy ==
    \A r \in Requests : \A a \in access[r].answers :
        a.check.path \in BuiltinPaths \/ ImplicitlyAllowed(a.check)
        \/ \E v \in access[r].named : a.yes = Granted(permDocs[v], a.check)

\* While calls come one after the other, whoever dies in the middle of one, the
\* active tag names a version: access to the namespace can be decided.
ActiveTagNamesPolicy ==
    (\A c, d \in Callers : c = d) => permTags[activeTag] \in 1 .. Len(permDocs)

=============================================================================
