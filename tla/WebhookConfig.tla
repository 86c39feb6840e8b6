--------------------------- MODULE WebhookConfig ---------------------------
(***************************************************************************)
(* The webhooks of a namespace, as the processes of the server know them:  *)
(* the document that the active tag of _webhooks names, resolved with the  *)
(* signing key it refers to, is cached per process until this process      *)
(* handles a change of it.  Nothing expires and no other process is told.  *)
(*                                                                         *)
(* A document and a key are told apart by the time of the change that made *)
(* them the active ones.                                                   *)
(***************************************************************************)
EXTENDS Integers, FiniteSets

CONSTANTS
    Processes,
    HookModes,          \* {"alone"}: calls and dispatches one after the other
    MaxHookChanges      \* bound: changes in a behaviour

ASSUME HookAssumption ==
    /\ MaxHookChanges \in Nat
    /\ HookModes \subseteq {"alone", "overlapping"}

VARIABLES
    hookClock,      \* changes so far
    hookDoc,        \* the active document: when it became so, does it refer to the key
    hookKey,        \* the signing key: when it became so
    hookCache,      \* config_cache of each process: at most one entry
    changing,       \* what each process has changed and not yet invalidated
    filling,        \* the load_config in flight in each process
    handled,        \* history: the last change each process has dropped its entry for
    hookMode

hookVars == <<hookClock, hookDoc, hookKey, hookCache, changing, filling, handled, hookMode>>

HooksAtRest == \A p \in Processes : changing[p] = "nothing" /\ filling[p].pc = "idle"
HookTurn    == hookMode = "alone" => HooksAtRest

NotHooks == UNCHANGED <<hookClock, hookDoc, hookKey, changing, handled, hookMode>>

-----------------------------------------------------------------------------
(* Changes: the row is saved, and then the entry of the process dropped *)

\* An update of _webhooks whose latest version is the active one, or another
\* webhooks_tag of the namespace
ChangeDocument(p, refers) ==
    /\ changing[p] = "nothing" /\ HookTurn /\ hookClock < MaxHookChanges
    /\ hookClock' = hookClock + 1
    /\ hookDoc' = [at |-> hookClock + 1, refers |-> refers]
    /\ changing' = [changing EXCEPT ![p] = "document"]
    /\ UNCHANGED <<hookKey, hookCache, filling, handled, hookMode>>

\* SecretManager.update of the key
ChangeKey(p) ==
    /\ changing[p] = "nothing" /\ HookTurn /\ hookClock < MaxHookChanges
    /\ hookClock' = hookClock + 1
    /\ hookKey' = hookClock + 1
    /\ changing' = [changing EXCEPT ![p] = "key"]
    /\ UNCHANGED <<hookDoc, hookCache, filling, handled, hookMode>>

\* Mutant: an update of the key drops nothing
DroppedUnlessKey(p) == IF changing[p] = "key" THEN hookCache[p] ELSE {}

\* invalidate_namespace, and invalidate_namespace_secret: only an entry whose
\* resolution has consulted the key
Dropped(p) == IF changing[p] = "key" THEN {e \in hookCache[p] : ~e.refers} ELSE {}

Invalidate(p) ==
    /\ changing[p] # "nothing"
    /\ hookCache' = [hookCache EXCEPT ![p] = Dropped(p)]
    /\ handled' = [handled EXCEPT ![p] = [@ EXCEPT ![changing[p]] =
                      IF changing[p] = "key" THEN hookKey ELSE hookDoc.at]]
    /\ changing' = [changing EXCEPT ![p] = "nothing"]
    /\ UNCHANGED <<hookClock, hookDoc, hookKey, filling, hookMode>>

\* set_config_tag moves the tag that is the active one: no entry is dropped
MoveActiveTag(refers) ==
    /\ HookTurn /\ hookClock < MaxHookChanges
    /\ hookClock' = hookClock + 1
    /\ hookDoc' = [at |-> hookClock + 1, refers |-> refers]
    /\ UNCHANGED <<hookKey, hookCache, changing, filling, handled, hookMode>>

-----------------------------------------------------------------------------
(* Dispatch of an event: load_config *)

\* Nothing is cached: the active document is read
BeginFill(p) ==
    /\ filling[p].pc = "idle" /\ HookTurn /\ hookCache[p] = {}
    /\ filling' = [filling EXCEPT ![p] = [pc |-> "document", doc |-> hookDoc]]
    /\ UNCHANGED hookCache /\ NotHooks

\* Then the key it refers to, and the result is put in the cache
PutConfig(p) ==
    /\ filling[p].pc = "document"
    /\ hookCache' = [hookCache EXCEPT ![p] =
          {[doc |-> filling[p].doc.at, refers |-> filling[p].doc.refers,
            key |-> IF filling[p].doc.refers THEN hookKey ELSE 0]}]
    /\ filling' = [filling EXCEPT ![p] = [pc |-> "idle"]]
    /\ NotHooks

\* The entries of other namespaces push this one out
EvictHooks(p) ==
    /\ hookCache[p] # {}
    /\ hookCache' = [hookCache EXCEPT ![p] = {}]
    /\ UNCHANGED filling /\ NotHooks

\* The process dies, after a change was saved and before its entry is dropped too
ProcessDies(p) ==
    /\ hookCache' = [hookCache EXCEPT ![p] = {}]
    /\ changing' = [changing EXCEPT ![p] = "nothing"]
    /\ filling' = [filling EXCEPT ![p] = [pc |-> "idle"]]
    /\ handled' = [handled EXCEPT ![p] = [document |-> 0, key |-> 0]]
    /\ UNCHANGED <<hookClock, hookDoc, hookKey, hookMode>>

-----------------------------------------------------------------------------
HooksInit ==
    /\ hookClock = 0 /\ hookDoc = [at |-> 0, refers |-> TRUE] /\ hookKey = 0
    /\ hookCache = [p \in Processes |-> {}]
    /\ changing = [p \in Processes |-> "nothing"]
    /\ filling = [p \in Processes |-> [pc |-> "idle"]]
    /\ handled = [p \in Processes |-> [document |-> 0, key |-> 0]]
    /\ hookMode \in HookModes

HooksNext ==
    \/ \E p \in Processes, refers \in BOOLEAN : ChangeDocument(p, refers)
    \/ \E refers \in BOOLEAN : MoveActiveTag(refers)
    \/ \E p \in Processes : \/ ChangeKey(p) \/ Invalidate(p) \/ BeginFill(p) \/ PutConfig(p)
                            \/ EvictHooks(p) \/ ProcessDies(p)

HooksSpec == HooksInit /\ [][HooksNext]_hookVars

-----------------------------------------------------------------------------
(* Properties *)

\* While changes and dispatches come one after the other: a process delivers to
\* the hooks, and signs with the key, of every change that it has handled itself,
\* so the event of a change of the webhooks goes to the webhooks it made.
HooksShowOwnChanges ==
    hookMode = "alone" =>
        \A p \in Processes : changing[p] = "nothing" =>
            \A e \in hookCache[p] : /\ e.doc >= handled[p].document
                                    /\ e.refers => e.key >= handled[p].key

=============================================================================
