------------------------------ MODULE MCServer ------------------------------
(***************************************************************************)
(* The parts of the server that share no state with each other: a step of  *)
(* one leaves the variables of the others alone, so that their product has *)
(* no behaviour which their sum has not.  A behaviour is of one part.      *)
(***************************************************************************)
EXTENDS GlobalRules, Permissions, WebhookConfig, ArtifactStore, Propagation,
        ResolverTokens, Audit, ClientTransport, MCResolution

CONSTANT Parts

VARIABLE part

vars == <<part, ruleVars, permVars, hookVars, storeVars, propVars, resolutionVars,
          tokenVars, auditVars, sdkVars>>

AllowAll  == [effect |-> "Allow", actions |-> {<<"config", "*">>}, who |-> {"user"}, paths |-> {"a", "b"}]
DenyWrite == [effect |-> "Deny", actions |-> {<<"*", "write">>}, who |-> {"user", "robot"}, paths |-> {"a"}]
AllowRead == [effect |-> "Allow", actions |-> {<<"config", "read">>}, who |-> {"robot"}, paths |-> {"a"}]

SomeDocuments == {{}, {AllowAll}, {AllowAll, DenyWrite, AllowRead}}
NoDocument    == {}
SomeChecks    == {[who |-> "user", type |-> "config", verb |-> "read", path |-> "a"],
                  [who |-> "user", type |-> "config", verb |-> "write", path |-> "a"],
                  [who |-> "robot", type |-> "config", verb |-> "resolve", path |-> "a"],
                  [who |-> "user", type |-> "config", verb |-> "read", path |-> "_permissions"]}

FirstState == [p \in ConfigPaths |-> [there |-> TRUE, docs |-> <<Plain>>, stable |-> 0]]

SomeRefs == [t \in Targets |-> IF t = 2 THEN "pinned" ELSE "latest"]

SomeSettings == {[mode |-> "resolve", modifies |-> TRUE]}

\* The parts that do not move are all in one state
Init == /\ part \in Parts
        /\ RulesInit /\ PermInit /\ HooksInit /\ StoreInit /\ PropInit /\ ResolutionInit
        /\ TokenInit /\ AuditInit /\ SdkInit
        /\ part # "rules" => ruleMode = "alone"
        /\ part # "webhooks" => hookMode = "alone"
        /\ part # "artifacts" => storeMode = "alone"
        /\ part # "propagation" => trigger = "tag"
        /\ part # "resolve" => configs = FirstState
        /\ part # "resolvers" => resolverRows[1] # NoResolver
        /\ part # "client" => sdk = [provider |-> "secret", retries |-> 0, mode |-> "alone"]

Turn(p) == part = p /\ part' = part

Next ==
    \/ Turn("rules") /\ RulesNext
       /\ UNCHANGED <<permVars, hookVars, storeVars, propVars, resolutionVars, tokenVars, auditVars, sdkVars>>
    \/ Turn("permissions") /\ PermNext
       /\ UNCHANGED <<ruleVars, hookVars, storeVars, propVars, resolutionVars, tokenVars, auditVars, sdkVars>>
    \/ Turn("webhooks") /\ HooksNext
       /\ UNCHANGED <<ruleVars, permVars, storeVars, propVars, resolutionVars, tokenVars, auditVars, sdkVars>>
    \/ Turn("artifacts") /\ StoreNext
       /\ UNCHANGED <<ruleVars, permVars, hookVars, propVars, resolutionVars, tokenVars, auditVars, sdkVars>>
    \/ Turn("propagation") /\ PropNext
       /\ UNCHANGED <<ruleVars, permVars, hookVars, storeVars, resolutionVars, tokenVars, auditVars, sdkVars>>
    \/ Turn("resolve") /\ ResolutionNext
       /\ UNCHANGED <<ruleVars, permVars, hookVars, storeVars, propVars, tokenVars, auditVars, sdkVars>>
    \/ Turn("resolvers") /\ TokenNext
       /\ UNCHANGED <<ruleVars, permVars, hookVars, storeVars, propVars, resolutionVars, auditVars, sdkVars>>
    \/ Turn("audit") /\ AuditNext
       /\ UNCHANGED <<ruleVars, permVars, hookVars, storeVars, propVars, resolutionVars, tokenVars, sdkVars>>
    \/ Turn("client") /\ SdkNext
       /\ UNCHANGED <<ruleVars, permVars, hookVars, storeVars, propVars, resolutionVars, tokenVars, auditVars>>

Spec == Init /\ [][Next]_vars

=============================================================================
