--------------------------- MODULE ResolverTokens ---------------------------
(***************************************************************************)
(* The resolvers of a namespace, their two token slots and the enabled     *)
(* flag, under calls that load a row, change it in memory and save it, and *)
(* under requests that authenticate with a token.                          *)
(*                                                                         *)
(* rotate and update save every column as it was loaded; enable, disable   *)
(* and the note that a token was used save the one column they are about.  *)
(* A token is the number under which it was generated.                     *)
(***************************************************************************)
EXTENDS Integers

CONSTANTS
    ResolverIds,        \* primary keys
    Keepers,            \* requests that manage resolvers
    Consumers,          \* requests that present a token
    MaxTokens,          \* bound: tokens generated
    MaxKeeperCalls,     \* bound: calls in a behaviour
    NoResolver

ASSUME TokenAssumption ==
    /\ MaxTokens \in Nat \ {0}
    /\ MaxKeeperCalls \in Nat

VARIABLES
    resolverRows,   \* the rows
    tokensMade,     \* tokens generated so far
    keeping,        \* the call of each keeper, with the row it holds
    consuming,      \* the request of each consumer; history: was the resolver enabled
    keeperCalls,    \* calls so far
    lastRotated,    \* history: the last token saved for each slot
    lastSwitched,   \* history: what enable or disable has last saved
    overwritten     \* history: resolvers saved whole from a row that had changed

tokenVars == <<resolverRows, tokensMade, keeping, consuming, keeperCalls,
               lastRotated, lastSwitched, overwritten>>

Slots == {1, 2}
Token == 1 .. MaxTokens

OnlyFirst(token) == [s \in Slots |-> IF s = 1 THEN token ELSE 0]

NotKeeping   == [pc |-> "idle"]
NotConsuming == [pc |-> "idle"]

-----------------------------------------------------------------------------
(* Managing resolvers *)

\* Every keeper that holds a row of the resolver now holds an old one
Outdated(id) ==
    [k \in Keepers |-> IF keeping[k].pc = "loaded" /\ keeping[k].id = id
                       THEN [keeping[k] EXCEPT !.fresh = FALSE] ELSE keeping[k]]

LoadResolver(k, id, call) ==
    /\ keeping[k].pc = "idle" /\ resolverRows[id] # NoResolver
    /\ keeperCalls < MaxKeeperCalls /\ keeperCalls' = keeperCalls + 1
    /\ keeping' = [keeping EXCEPT ![k] =
            [pc |-> "loaded", id |-> id, row |-> resolverRows[id], call |-> call, fresh |-> TRUE]]
    /\ UNCHANGED <<resolverRows, tokensMade, consuming, lastRotated, lastSwitched, overwritten>>

\* item.save(): the row as it is held, re-inserted if it was deleted
SaveWhole(k, row) ==
    LET id == keeping[k].id
    IN  /\ resolverRows' = [resolverRows EXCEPT ![id] = row]
        /\ keeping' = [Outdated(id) EXCEPT ![k] = NotKeeping]
        /\ overwritten' = IF keeping[k].fresh THEN overwritten ELSE overwritten \cup {id}

\* assign_to, and the save
RotateToken(k, slot) ==
    /\ keeping[k].pc = "loaded" /\ keeping[k].call = "rotate"
    /\ tokensMade < MaxTokens /\ tokensMade' = tokensMade + 1
    /\ SaveWhole(k, [keeping[k].row EXCEPT !.slots[slot] = tokensMade + 1])
    /\ lastRotated' = [lastRotated EXCEPT ![keeping[k].id][slot] = tokensMade + 1]
    /\ UNCHANGED <<consuming, keeperCalls, lastSwitched>>

\* update_resolvers, set_description
UpdateResolver(k) ==
    /\ keeping[k].pc = "loaded" /\ keeping[k].call = "update"
    /\ SaveWhole(k, keeping[k].row)
    /\ UNCHANGED <<tokensMade, consuming, keeperCalls, lastRotated, lastSwitched>>

\* set_resolver_enabled: nothing is saved if the row it holds says so already;
\* save(update_fields=["enabled"]) fails on a deleted row
SwitchResolver(k, on) ==
    LET id == keeping[k].id
    IN  /\ keeping[k].pc = "loaded" /\ keeping[k].call = "switch"
        /\ IF keeping[k].row.enabled = on \/ resolverRows[id] = NoResolver
           THEN /\ keeping' = [keeping EXCEPT ![k] = NotKeeping]
                /\ UNCHANGED <<resolverRows, lastSwitched>>
           ELSE /\ resolverRows' = [resolverRows EXCEPT ![id].enabled = on]
                /\ keeping' = [Outdated(id) EXCEPT ![k] = NotKeeping]
                /\ lastSwitched' = [lastSwitched EXCEPT ![id] = on]
        /\ UNCHANGED <<tokensMade, consuming, keeperCalls, lastRotated, overwritten>>

RemoveResolver(k) ==
    LET id == keeping[k].id
    IN  /\ keeping[k].pc = "loaded" /\ keeping[k].call = "delete"
        /\ resolverRows' = [resolverRows EXCEPT ![id] = NoResolver]
        /\ keeping' = [Outdated(id) EXCEPT ![k] = NotKeeping]
        /\ UNCHANGED <<tokensMade, consuming, keeperCalls, lastRotated, lastSwitched, overwritten>>

\* Mutant: a copy is the same row at another path
CopiedTokens(row, token) == row.slots

\* create_item generates token 1 of the copy
CopyTokens(row, token) == OnlyFirst(token)

\* A key that no row has had yet
InsertResolver(id, slots, enabled) ==
    /\ resolverRows[id] = NoResolver /\ lastRotated[id] = OnlyFirst(0)
    /\ tokensMade < MaxTokens /\ tokensMade' = tokensMade + 1
    /\ resolverRows' = [resolverRows EXCEPT ![id] = [slots |-> slots, enabled |-> enabled]]
    /\ lastRotated' = [lastRotated EXCEPT ![id] = slots]
    /\ lastSwitched' = [lastSwitched EXCEPT ![id] = enabled]
    /\ UNCHANGED <<consuming, overwritten>>

\* create_item: one transaction
CreateResolver(id) ==
    /\ keeperCalls < MaxKeeperCalls /\ keeperCalls' = keeperCalls + 1
    /\ InsertResolver(id, OnlyFirst(tokensMade + 1), TRUE)
    /\ UNCHANGED keeping

\* _generic_copy: one transaction, with the enabled flag of the source as held
CopyResolver(k, id) ==
    /\ keeping[k].pc = "loaded" /\ keeping[k].call = "copy"
    /\ InsertResolver(id, CopyTokens(keeping[k].row, tokensMade + 1), keeping[k].row.enabled)
    /\ keeping' = [keeping EXCEPT ![k] = NotKeeping]
    /\ UNCHANGED keeperCalls

\* A refusal, or a worker that dies
KeeperGivesUp(k) ==
    /\ keeping[k].pc = "loaded"
    /\ keeping' = [keeping EXCEPT ![k] = NotKeeping]
    /\ UNCHANGED <<resolverRows, tokensMade, consuming, keeperCalls, lastRotated, lastSwitched, overwritten>>

-----------------------------------------------------------------------------
(* Authenticating with a token *)

Holders(token) ==
    {id \in ResolverIds : resolverRows[id] # NoResolver
                          /\ \E s \in Slots : resolverRows[id].slots[s] = token}

\* ResolverTokenManager.authenticate: exactly one row has the fingerprint
PresentToken(c, token) ==
    /\ consuming[c].pc = "idle"
    /\ \E id \in ResolverIds :
          /\ Holders(token) = {id}
          /\ consuming' = [consuming EXCEPT ![c] =
                [pc |-> "stamp", id |-> id, row |-> resolverRows[id], on |-> lastSwitched[id]]]
    /\ UNCHANGED <<resolverRows, tokensMade, keeping, keeperCalls, lastRotated, lastSwitched, overwritten>>

\* Mutant: every column is saved
StampedWhole(c) == consuming[c].row

\* save(update_fields=["token<n>_last_used"]), which fails on a deleted row
Stamped(c) == resolverRows[consuming[c].id]

StampToken(c) ==
    LET id == consuming[c].id
    IN  /\ consuming[c].pc = "stamp"
        /\ IF resolverRows[id] = NoResolver
           THEN consuming' = [consuming EXCEPT ![c] = NotConsuming] /\ UNCHANGED resolverRows
           ELSE /\ resolverRows' = [resolverRows EXCEPT ![id] = Stamped(c)]
                /\ consuming' = [consuming EXCEPT ![c].pc = "known"]
        /\ UNCHANGED <<tokensMade, keeping, keeperCalls, lastRotated, lastSwitched, overwritten>>

\* Mutant: any known resolver may resolve
AdmitsAll(c) == TRUE

\* ensure_resolver_enabled: of the row as it was found
Admits(c) == consuming[c].row.enabled

AdmitConsumer(c) ==
    /\ consuming[c].pc = "known"
    /\ consuming' = [consuming EXCEPT ![c] =
            IF Admits(c) THEN [consuming[c] EXCEPT !.pc = "admitted"] ELSE NotConsuming]
    /\ UNCHANGED <<resolverRows, tokensMade, keeping, keeperCalls, lastRotated, lastSwitched, overwritten>>

EndConsuming(c) ==
    /\ consuming[c].pc = "admitted"
    /\ consuming' = [consuming EXCEPT ![c] = NotConsuming]
    /\ UNCHANGED <<resolverRows, tokensMade, keeping, keeperCalls, lastRotated, lastSwitched, overwritten>>

-----------------------------------------------------------------------------
\* One resolver to begin with, as create_item leaves it
TokenInit ==
    /\ \E first \in ResolverIds :
          /\ resolverRows = [id \in ResolverIds |->
                IF id = first THEN [slots |-> OnlyFirst(1), enabled |-> TRUE] ELSE NoResolver]
          /\ lastRotated = [id \in ResolverIds |-> IF id = first THEN OnlyFirst(1) ELSE OnlyFirst(0)]
    /\ lastSwitched = [id \in ResolverIds |-> TRUE]
    /\ tokensMade = 1 /\ keeperCalls = 0 /\ overwritten = {}
    /\ keeping = [k \in Keepers |-> NotKeeping]
    /\ consuming = [c \in Consumers |-> NotConsuming]

TokenNext ==
    \/ \E id \in ResolverIds : CreateResolver(id)
    \/ \E k \in Keepers :
          \/ \E id \in ResolverIds, call \in {"rotate", "update", "switch", "delete", "copy"} :
                LoadResolver(k, id, call)
          \/ \E s \in Slots : RotateToken(k, s)
          \/ \E on \in BOOLEAN : SwitchResolver(k, on)
          \/ \E id \in ResolverIds : CopyResolver(k, id)
          \/ UpdateResolver(k) \/ RemoveResolver(k) \/ KeeperGivesUp(k)
    \/ \E c \in Consumers :
          \/ \E t \in Token : PresentToken(c, t)
          \/ StampToken(c) \/ AdmitConsumer(c) \/ EndConsuming(c)

TokenSpec == TokenInit /\ [][TokenNext]_tokenVars

-----------------------------------------------------------------------------
\* Unless a rotation or an update has saved a row that changed after it was
\* loaded, the tokens of a resolver are the last ones made for its slots and it
\* is enabled as it was last told to be: neither enable and disable nor the use of
\* a token, which save rows read earlier, bring an older token back.
TokensAsRotated ==
    \A id \in ResolverIds \ overwritten :
        resolverRows[id] # NoResolver =>
            /\ resolverRows[id].slots = lastRotated[id]
            /\ resolverRows[id].enabled = lastSwitched[id]

\* "Clonning tokens is not allowed": however calls overlap no token is held by
\* two resolvers, for then authenticate would refuse it to both.
OneHolder == \A t \in Token : \A i, j \in Holders(t) : i = j

\* A resolver that is disabled when its token is presented is not let in: the
\* flag that is checked is the one last saved, unless an old row overwrote it.
DisabledIsRefused ==
    \A c \in Consumers :
        consuming[c].pc = "admitted" => consuming[c].on \/ consuming[c].id \in overwritten
=============================================================================
