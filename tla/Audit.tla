------------------------------- MODULE Audit -------------------------------
(***************************************************************************)
(* The audit events of one request.  A decorated call begins a draft, runs *)
(* its body, which may make other decorated calls, and saves the draft     *)
(* with the outcome; the drafts of the calls around it wait on a stack.    *)
(* What a body adds to its event (enrich_audit) goes through a context     *)
(* variable.  An event is a row in the database of the calls: a            *)
(* transaction that is rolled back takes the events saved in it along, and *)
(* an insert may fail.  A request that begins finds no draft.              *)
(*                                                                         *)
(* A call is known by its number, 1 being the first of the request.        *)
(***************************************************************************)
EXTENDS Integers, Sequences, SequencesExt

CONSTANTS
    MaxAudited,         \* bound: calls and participants of a request
    MaxNested,          \* bound: calls that are running at once
    MaxEnriched,        \* bound: calls that add to their event
    MaxAuditFailures,   \* bound: inserts that fail for no reason of ours
    AuditSettings,      \* OCMO_AUDIT_MODE, and whether the request's method modifies
    Exceptions,         \* what a call may raise: PermissionDenied, another exception
    NoDraft

ASSUME AuditAssumption ==
    /\ {MaxAudited, MaxNested, MaxEnriched, MaxAuditFailures} \subseteq Nat
    /\ AuditSettings \subseteq [mode : {"all", "modifications-and-resolve", "resolve"}, modifies : BOOLEAN]
    /\ Exceptions \subseteq {"denied", "error"}

VARIABLES
    auditing,       \* the settings the request runs under
    running,        \* the calls that are running, the innermost last
    raised,         \* the exception on its way out of a call, or "none"
    draft,          \* _draft
    waiting,        \* _draft_stack
    context,        \* _audit_operation_context: whose context it is, 0 for None
    added,          \* the contexts: which calls have added to each
    events,         \* the rows
    broken,         \* the database has refused a statement of the open transaction
    recording,      \* the resolve that is being recorded
    auditHistory    \* history of each call: audited, said, outcome, lost, undone

auditVars == <<auditing, running, raised, draft, waiting, context, added, events,
               broken, recording, auditHistory>>

Call == 1 .. MaxAudited
Begun == Len(auditHistory)
Inner == Last(running)

Idle      == [root |-> 0, parent |-> 0]
NoTxn     == -1
InTransaction == \E i \in DOMAIN running : running[i].txn # NoTxn
Failures  == Cardinality({c \in DOMAIN auditHistory : auditHistory[c].lost})

\* should_audit_operation; should_persist says the same of the draft
Audited(resolves) ==
    \/ auditing.mode = "all" \/ resolves
    \/ auditing.mode = "modifications-and-resolve" /\ auditing.modifies

NewCall(audited) ==
    [audited |-> audited, said |-> FALSE, outcome |-> "none", lost |-> FALSE,
     undone |-> FALSE, inside |-> [i \in DOMAIN running |-> running[i].call]]

-----------------------------------------------------------------------------
(* Drafts *)

DraftOf(call) == [call |-> call]

\* None is not a draft
ASSUME DraftAssumption == NoDraft \notin [call : Nat]

\* begin
BeginDraft(call) ==
    /\ waiting' = IF draft = NoDraft THEN waiting ELSE Append(waiting, draft)
    /\ draft' = DraftOf(call)

\* Mutant: the draft that waits is not taken back
PoppedNone(d, stack) == <<NoDraft, stack>>

\* The draft that waits becomes the current one
Popped(d, stack) == IF stack = <<>> THEN <<NoDraft, stack>> ELSE <<Last(stack), Front(stack)>>

\* save of draft d, given the drafts below it: the row is inserted, or the
\* insert fails and nothing is taken off the stack
SaveDraft(d, stack, event, history) ==
    \/ /\ ~broken
       /\ events' = Append(events, event)
       /\ draft' = Popped(d, stack)[1] /\ waiting' = Popped(d, stack)[2]
       /\ auditHistory' = history /\ UNCHANGED broken
    \/ /\ broken \/ Failures < MaxAuditFailures
       /\ draft' = NoDraft /\ waiting' = stack
       /\ auditHistory' = [history EXCEPT ![d.call].lost = TRUE]
       /\ broken' = InTransaction /\ UNCHANGED events

-----------------------------------------------------------------------------
(* Decorated calls *)

\* Mutant: the body shares the context of the call around it
SharedContext(call) == IF context = 0 THEN call ELSE context

OwnContext(call) == call

\* run_decorated, up to the body; a call that is skipped, or not decorated at
\* all, runs as it is
BeginAudited(resolves, skip) ==
    LET call    == Begun + 1
        audited == Audited(resolves) /\ ~skip
    IN  /\ raised = "none" /\ recording = Idle
        /\ Begun < MaxAudited /\ Len(running) < MaxNested
        /\ running' = Append(running, [call |-> call, above |-> context, txn |-> NoTxn])
        /\ auditHistory' = Append(auditHistory, NewCall(audited))
        /\ IF audited THEN BeginDraft(call) /\ context' = OwnContext(call)
           ELSE UNCHANGED <<draft, waiting, context>>
        /\ UNCHANGED <<auditing, raised, added, events, broken, recording>>

\* enrich_audit, in the body of the innermost call
Enrich ==
    /\ running # <<>> /\ raised = "none" /\ ~auditHistory[Inner.call].said
    /\ Cardinality({c \in DOMAIN auditHistory : auditHistory[c].said}) < MaxEnriched
    /\ auditHistory' = [auditHistory EXCEPT ![Inner.call].said = TRUE]
    /\ added' = IF context = 0 THEN added ELSE [added EXCEPT ![context] = @ \cup {Inner.call}]
    /\ UNCHANGED <<auditing, running, raised, draft, waiting, context, events, broken, recording>>

OpenTransaction ==
    /\ running # <<>> /\ raised = "none" /\ Inner.txn = NoTxn
    /\ running' = [running EXCEPT ![Len(running)].txn = Len(events)]
    /\ UNCHANGED <<auditing, raised, draft, waiting, context, added, events, broken, recording, auditHistory>>

\* An exception of the body itself, in its transaction
RaiseInside(exception) ==
    /\ running # <<>> /\ Inner.txn # NoTxn /\ raised = "none"
    /\ raised' = exception
    /\ UNCHANGED <<auditing, running, draft, waiting, context, added, events, broken, recording, auditHistory>>

\* It is rolled back if an exception passes, or if the database has refused a statement
CloseTransaction ==
    LET undo == raised # "none" \/ broken
        kept == SubSeq(events, 1, Inner.txn)
        gone == {events[i].call : i \in (Inner.txn + 1) .. Len(events)}
    IN  /\ running # <<>> /\ Inner.txn # NoTxn
        /\ running' = [running EXCEPT ![Len(running)].txn = NoTxn]
        /\ IF undo
           THEN /\ events' = kept /\ broken' = FALSE
                /\ auditHistory' = [c \in DOMAIN auditHistory |->
                        [auditHistory[c] EXCEPT !.undone = @ \/ c \in gone]]
           ELSE UNCHANGED <<events, broken, auditHistory>>
        /\ UNCHANGED <<auditing, raised, draft, waiting, context, added, recording>>

\* The body catches the exception of a call it made, outside its transaction
CatchRaised ==
    /\ running # <<>> /\ raised # "none" /\ Inner.txn = NoTxn
    /\ raised' = "none"
    /\ UNCHANGED <<auditing, running, draft, waiting, context, added, events, broken, recording, auditHistory>>

\* The body returns or raises; an exception passes on as it is
Outcomes == IF raised = "none" THEN {"ok"} \cup Exceptions ELSE {raised}

\* _take_audit_context, and the context of the call around it comes back
EndAudited(outcome) ==
    LET call  == Inner.call
        ended == [auditHistory EXCEPT ![call].outcome = outcome]
        event == [kind |-> "operation", call |-> draft.call, outcome |-> outcome,
                  added |-> IF context = 0 THEN {} ELSE added[context], parent |-> 0]
    IN  /\ running # <<>> /\ Inner.txn = NoTxn /\ outcome \in Outcomes
        /\ running' = Front(running)
        /\ raised' = IF outcome = "ok" \/ Len(running) = 1 THEN "none" ELSE outcome
        /\ IF ~auditHistory[call].audited
           THEN auditHistory' = ended /\ UNCHANGED <<draft, waiting, context, events, broken>>
           ELSE /\ context' = Inner.above
                /\ IF draft = NoDraft     \* set_outcome raises: logged, no event
                   THEN auditHistory' = ended /\ UNCHANGED <<draft, waiting, events, broken>>
                   ELSE SaveDraft(draft, waiting, event, ended)
        /\ UNCHANGED <<auditing, added, recording>>

-----------------------------------------------------------------------------
(* Recording a resolve and its participants, when resolve_at_path ends *)

\* An event of its own, under any draft that waits
Record(kind, parent) ==
    LET call  == Begun + 1
        below == IF draft = NoDraft THEN waiting ELSE Append(waiting, draft)
    IN  /\ Begun < MaxAudited
        /\ SaveDraft(DraftOf(call), below,
              [kind |-> kind, call |-> call, outcome |-> "ok", added |-> {}, parent |-> parent],
              Append(auditHistory, [NewCall(TRUE) EXCEPT !.outcome = "ok"]))
        /\ UNCHANGED <<auditing, running, raised, context, added>>

RecordResolve ==
    /\ running = <<>> /\ recording = Idle
    /\ Record("resolve", 0)
    /\ recording' = IF Len(events') > Len(events)
                    THEN [root |-> Begun + 1, parent |-> Begun + 1] ELSE Idle

\* Mutant: the parent is the event saved last
LastSaved == IF events = <<>> THEN 0 ELSE Last(events).call

\* save_participants: the parent is fixed before the first of them
ParentEvent == recording.parent

RecordParticipant ==
    /\ recording # Idle
    /\ Record("participant", ParentEvent)
    /\ UNCHANGED recording

EndRecording ==
    /\ recording # Idle /\ recording' = Idle
    /\ UNCHANGED <<auditing, running, raised, draft, waiting, context, added, events, broken, auditHistory>>

-----------------------------------------------------------------------------
AuditInit ==
    /\ auditing \in AuditSettings
    /\ running = <<>> /\ raised = "none" /\ draft = NoDraft /\ waiting = <<>>
    /\ context = 0 /\ added = [c \in Call |-> {}] /\ events = <<>>
    /\ broken = FALSE /\ recording = Idle /\ auditHistory = <<>>

AuditNext ==
    \/ \E resolves, skip \in BOOLEAN : BeginAudited(resolves, skip)
    \/ Enrich \/ OpenTransaction \/ CloseTransaction \/ CatchRaised
    \/ \E o \in {"ok"} \cup Exceptions : EndAudited(o)
    \/ \E e \in Exceptions : RaiseInside(e)
    \/ RecordResolve \/ RecordParticipant \/ EndRecording

AuditSpec == AuditInit /\ [][AuditNext]_auditVars

-----------------------------------------------------------------------------
Lost == {c \in DOMAIN auditHistory : auditHistory[c].lost}

\* The event of a call has the outcome of that call, and what its body and the
\* bodies of unaudited calls below it have added, nothing of another audited
\* call: however calls nest, fail and catch, as long as no insert has failed.
EventsTellTheirCalls ==
    Lost = {} =>
        \A i \in DOMAIN events :
            LET c == events[i].call
            IN  /\ events[i].outcome = auditHistory[c].outcome
                /\ events[i].kind = "operation" =>
                     /\ auditHistory[c].said <=> c \in events[i].added
                     /\ \A d \in events[i].added \ {c} : ~auditHistory[d].audited

\* When nothing is running any more every audited call has exactly one event,
\* except where its transaction was rolled back, its own insert failed or that
\* of a call it made: a lost event costs no call its event that does not enclose it.
LossTakesOnlyCallers ==
    running = <<>> =>
        \A c \in DOMAIN auditHistory :
            LET own == {i \in DOMAIN events : events[i].call = c}
            IN  \/ Cardinality(own) = 1 /\ auditHistory[c].audited
                \/ own = {} /\ \/ ~auditHistory[c].audited
                               \/ auditHistory[c].undone \/ auditHistory[c].lost
                               \/ \E d \in Lost : c \in Range(auditHistory[d].inside)

\* Each participant hangs under the event of its own resolve, which is stored.
ParticipantsHaveTheirResolve ==
    \A i \in DOMAIN events :
        events[i].kind = "participant" =>
            \E j \in 1 .. (i - 1) :
                /\ events[j].kind = "resolve" /\ events[j].call = events[i].parent
                /\ \A k \in (j + 1) .. (i - 1) : events[k].kind = "participant"
=============================================================================
