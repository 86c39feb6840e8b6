-------------------------- MODULE ClientTransport --------------------------
(***************************************************************************)
(* Calls of SDK processes: the token, sending, answers that come, fail or  *)
(* come too late, retries, and the refresh of a token that is refused.     *)
(* The processes of one user share the token cache on disk; with the       *)
(* bearer provider that file is OCMO_TOKEN_FILE.                           *)
(*                                                                         *)
(* Tokens are numbered as they are issued, calls as they begin.  PUT       *)
(* stands for the methods that are retried, POST for the others.           *)
(***************************************************************************)
EXTENDS Integers, Sequences

CONSTANTS
    SdkProcesses,
    Providers,          \* "secret", "login": OIDC with and without client secret; "bearer"
    RetrySettings,      \* the values of OCMO_RETRIES
    SdkModes,           \* "alone": no two calls overlap
    MaxIssued,          \* bound: tokens issued
    MaxSdkCalls,        \* bound: calls in a behaviour
    MaxMishaps          \* bound: servers unavailable, connections lost, tokens not
                        \* served, aged, ended or replaced

ASSUME TransportAssumption ==
    /\ Providers \subseteq {"secret", "login", "bearer"}
    /\ RetrySettings \subseteq Nat
    /\ SdkModes \subseteq {"alone", "together"}
    /\ MaxIssued \in Nat \ {0} /\ {MaxSdkCalls, MaxMishaps} \subseteq Nat

VARIABLES
    sdk,            \* provider, retries, mode
    issued,         \* tokens issued so far
    accepted,       \* those the server accepts
    young,          \* those before 80% of their lifetime
    memory,         \* the token each process holds
    tokenFile,      \* the token on disk, 0 for none
    sdkCall,        \* the call of each process
    wire,           \* requests on their way, also of calls that are over
    mishaps,        \* so far
    effects         \* history: how often each call took effect

sdkVars == <<sdk, issued, accepted, young, memory, tokenFile, sdkCall, wire, mishaps, effects>>

NoSdkCall == [pc |-> "idle"]
AtRest(p) == sdkCall[p].pc \in {"idle", "over"}
Issue     == /\ issued < MaxIssued /\ issued' = issued + 1
             /\ accepted' = accepted \cup {issued + 1} /\ young' = young \cup {issued + 1}
NoneIssued == UNCHANGED <<issued, accepted, young>>
Wired      == UNCHANGED <<wire, mishaps, effects>>
Mishap     == mishaps < MaxMishaps /\ mishaps' = mishaps + 1

-----------------------------------------------------------------------------
(* The token *)

BeginSdkCall(p, method) ==
    /\ AtRest(p) /\ (sdk.mode = "alone" => \A q \in SdkProcesses : AtRest(q))
    /\ Len(effects) < MaxSdkCalls /\ effects' = Append(effects, 0)
    /\ sdkCall' = [sdkCall EXCEPT ![p] =
            [pc |-> IF sdk.provider = "bearer" THEN "send" ELSE "token", id |-> Len(effects) + 1,
             method |-> method, token |-> memory[p], attempt |-> 0, sends |-> 0,
             answer |-> "none", refreshed |-> FALSE, revoked |-> FALSE]]
    /\ NoneIssued /\ UNCHANGED <<sdk, memory, tokenFile, wire, mishaps>>

CachedToken(p) == IF memory[p] \in young THEN memory[p]
                  ELSE IF tokenFile \in young THEN tokenFile ELSE 0

\* get_token, with a token that is still good for a while
TakeCached(p) ==
    /\ sdkCall[p].pc = "token" /\ CachedToken(p) # 0
    /\ memory' = [memory EXCEPT ![p] = CachedToken(p)]
    /\ sdkCall' = [sdkCall EXCEPT ![p].pc = "send", ![p].token = CachedToken(p)]
    /\ NoneIssued /\ Wired /\ UNCHANGED <<sdk, tokenFile>>

\* get_token, _fetch_token
FetchToken(p) ==
    /\ sdkCall[p].pc = "token" /\ CachedToken(p) = 0 /\ sdk.provider = "secret"
    /\ Issue
    /\ memory' = [memory EXCEPT ![p] = issued + 1]
    /\ sdkCall' = [sdkCall EXCEPT ![p].pc = "open", ![p].token = issued + 1]
    /\ Wired /\ UNCHANGED <<sdk, tokenFile>>

\* OcmoAuthError: there is no secret to fetch with, or the token endpoint fails
NoToken(p) ==
    /\ sdkCall[p].pc = "token" /\ CachedToken(p) = 0
    /\ IF sdk.provider = "secret" THEN Mishap ELSE UNCHANGED mishaps
    /\ sdkCall' = [sdkCall EXCEPT ![p].pc = "over", ![p].answer = "no token"]
    /\ NoneIssued /\ UNCHANGED <<sdk, memory, tokenFile, wire, effects>>

\* _write_cache: the file is emptied, written, and readable for others' eyes
\* (and ignored for that) until chmod
WriteTokenFile(p) ==
    /\ sdkCall[p].pc \in {"open", "write"}
    /\ IF sdkCall[p].pc = "open"
       THEN tokenFile' = 0 /\ sdkCall' = [sdkCall EXCEPT ![p].pc = "write"]
       ELSE tokenFile' = memory[p] /\ sdkCall' = [sdkCall EXCEPT ![p].pc = "send"]
    /\ NoneIssued /\ Wired /\ UNCHANGED <<sdk, memory>>

-----------------------------------------------------------------------------
(* Sending and the answer *)

\* The loop of request_raw
SendRequest(p) ==
    LET call == sdkCall[p]
    IN  /\ call.pc = "send"
        /\ IF call.attempt > sdk.retries
           THEN sdkCall' = [sdkCall EXCEPT ![p].pc = "over", ![p].answer = "unreachable"] /\ UNCHANGED wire
           ELSE /\ wire' = wire \cup {[by |-> p, id |-> call.id, send |-> call.sends + 1, token |-> call.token]}
                /\ sdkCall' = [sdkCall EXCEPT ![p].pc = "wait", ![p].sends = @ + 1]
        /\ NoneIssued /\ UNCHANGED <<sdk, memory, tokenFile, mishaps, effects>>

\* The server: a refused token, a call that takes effect, an overload, or a gateway
\* that gives up with or without the effect.  Nobody waits for a late answer.
ServeRequest(request, effect, answer) ==
    LET p == request.by
        awaited == sdkCall[p].pc = "wait" /\ sdkCall[p].id = request.id
                   /\ sdkCall[p].sends = request.send
    IN  /\ request \in wire /\ wire' = wire \ {request}
        /\ IF request.token \in accepted THEN answer # "unauthorized" /\ (answer = "ok" => effect)
           ELSE answer = "unauthorized" /\ ~effect
        /\ IF answer = "unavailable" THEN Mishap ELSE UNCHANGED mishaps
        /\ effects' = IF effect THEN [effects EXCEPT ![request.id] = @ + 1] ELSE effects
        /\ sdkCall' = IF awaited THEN [sdkCall EXCEPT ![p].pc = "answered", ![p].answer = answer]
                      ELSE sdkCall
        /\ NoneIssued /\ UNCHANGED <<sdk, memory, tokenFile>>

\* httpx.TransportError: a timeout, or the connection breaks.  The request may
\* never arrive, arrive later, or have been served
ConnectionFails(p) ==
    /\ sdkCall[p].pc \in {"wait", "answered"} /\ sdkCall[p].answer # "failed"
    /\ Mishap
    /\ sdkCall' = [sdkCall EXCEPT ![p].pc = "answered", ![p].answer = "failed"]
    /\ NoneIssued /\ UNCHANGED <<sdk, memory, tokenFile, wire, effects>>

\* Mutant: every method is retried
RetryableAll(method) == TRUE

Retryable(method) == method = "PUT"

Resent(p) == /\ sdkCall[p].pc = "answered" /\ sdkCall[p].answer \in {"failed", "unavailable"}
             /\ Retryable(sdkCall[p].method) /\ sdkCall[p].attempt < sdk.retries

Retry(p) ==
    /\ Resent(p)
    /\ sdkCall' = [sdkCall EXCEPT ![p].pc = "send", ![p].attempt = @ + 1, ![p].answer = "none"]
    /\ NoneIssued /\ Wired /\ UNCHANGED <<sdk, memory, tokenFile>>

\* Only the first answer; for the bearer provider, if the file has another token
Refreshable(p) ==
    /\ sdkCall[p].pc = "answered" /\ sdkCall[p].answer = "unauthorized" /\ sdkCall[p].attempt = 0
    /\ sdk.provider = "bearer" => tokenFile \notin {0, memory[p]}

\* Mutant: the file is left alone
UnlinkedNever == tokenFile

\* invalidate
Unlinked == 0

\* Mutant: a refresh is no attempt
SpentByRetry(p) == sdkCall[p].attempt

Spent(p) == sdkCall[p].attempt + 1

\* _handle_401: an attempt is spent; the header changes with OIDC only
Refresh(p) ==
    /\ Refreshable(p)
    /\ IF sdk.provider = "bearer"
       THEN /\ memory' = [memory EXCEPT ![p] = tokenFile]
            /\ UNCHANGED tokenFile
       ELSE memory' = [memory EXCEPT ![p] = 0] /\ tokenFile' = Unlinked
    /\ sdkCall' = [sdkCall EXCEPT ![p] = [@ EXCEPT
            !.pc = IF sdk.provider = "bearer" THEN "send" ELSE "token",
            !.attempt = Spent(p), !.answer = "none", !.refreshed = TRUE]]
    /\ NoneIssued /\ Wired /\ UNCHANGED sdk

\* The answer, or the exception, goes to the caller
ReturnAnswer(p) ==
    /\ sdkCall[p].pc = "answered" /\ ~Refreshable(p) /\ ~Resent(p)
    /\ sdkCall' = [sdkCall EXCEPT ![p].pc = "over"]
    /\ NoneIssued /\ Wired /\ UNCHANGED <<sdk, memory, tokenFile>>

-----------------------------------------------------------------------------
(* Tokens age, expire and are revoked; files are rotated, users log in *)

TokenAges(t) ==
    /\ t \in young /\ young' = young \ {t}
    /\ Mishap /\ UNCHANGED <<wire, effects, sdk, issued, accepted, memory, tokenFile, sdkCall>>

TokenEnds(t) ==
    /\ t \in accepted /\ accepted' = accepted \ {t}
    /\ sdkCall' = [p \in SdkProcesses |-> IF AtRest(p) THEN sdkCall[p]
                                          ELSE [sdkCall[p] EXCEPT !.revoked = TRUE]]
    /\ Mishap /\ UNCHANGED <<wire, effects, sdk, issued, young, memory, tokenFile>>

\* store_oidc_access_token of ocmo auth login; for the bearer provider, whoever
\* keeps the file
NewTokenFile ==
    /\ sdk.provider # "secret"
    /\ Issue /\ tokenFile' = issued + 1
    /\ Mishap /\ UNCHANGED <<wire, effects, sdk, memory, sdkCall>>

-----------------------------------------------------------------------------
\* The constructors: with a client secret there need be no token yet
SdkInit ==
    /\ sdk \in [provider : Providers, retries : RetrySettings, mode : SdkModes]
    /\ issued = 1 /\ accepted = {1} /\ young = {1} /\ tokenFile = 1
    /\ memory = [p \in SdkProcesses |-> 1]
    /\ sdkCall = [p \in SdkProcesses |-> NoSdkCall]
    /\ wire = {} /\ mishaps = 0 /\ effects = <<>>

SdkNext ==
    \/ \E p \in SdkProcesses :
          \/ \E m \in {"PUT", "POST"} : BeginSdkCall(p, m)
          \/ TakeCached(p) \/ FetchToken(p) \/ NoToken(p) \/ WriteTokenFile(p) \/ SendRequest(p)
          \/ ConnectionFails(p) \/ Retry(p) \/ Refresh(p) \/ ReturnAnswer(p)
    \/ \E r \in wire, effect \in BOOLEAN, a \in {"ok", "unauthorized", "unavailable"} :
          ServeRequest(r, effect, a)
    \/ \E t \in 1 .. issued : TokenAges(t) \/ TokenEnds(t)
    \/ NewTokenFile

SdkSpec == SdkInit /\ [][SdkNext]_sdkVars

-----------------------------------------------------------------------------
\* A call whose method is not retried takes effect at most once, whatever
\* answers are lost or late, and also when its token has been refreshed.
PostTakesEffectOnce ==
    \A p \in SdkProcesses :
        sdkCall[p].pc # "idle" /\ sdkCall[p].method = "POST" => effects[sdkCall[p].id] <= 1

\* No call sends more than OCMO_RETRIES + 1 requests, refreshing included, even
\* if the server refuses every token.
SendsAreBounded ==
    \A p \in SdkProcesses : sdkCall[p].pc # "idle" => sdkCall[p].sends <= sdk.retries + 1

\* With a client secret, and while one call is made at a time, no call is refused
\* for a token that was bad before it began: the refused token is gone from memory
\* and disk, so that the next one is new.  The exception is a token first refused
\* after a retry, which is not refreshed.
RefreshedCallsGetIn ==
    \A p \in SdkProcesses :
        LET call == sdkCall[p]
        IN  /\ sdk.mode = "alone" /\ sdk.provider = "secret"
            /\ call.pc = "over" /\ call.answer = "unauthorized"
            => call.revoked \/ (call.attempt > 0 /\ ~call.refreshed)
=============================================================================
