---------------------------- MODULE RuntimeNode ----------------------------
(***************************************************************************)
(* RuntimeNode.__call__(), the LangGraph node, composed with the stream it *)
(* consumes: it resumes a session if it is given one, drains the stream,   *)
(* and closes stream and session on every way out.  The stream of a task   *)
(* is that of TaskLifecycle.                                               *)
(***************************************************************************)
EXTENDS StructuredModel, FiniteSets

(* The errors that a node may fail with.                                   *)
Errors == {"config", "session", "cancelled", "timeout", "multiple", "writer", "mapper",
           "start", "provider", "structured", "observability", "invalidate"}

ASSUME NodeAssumption == None \notin Errors \cup {"close", "completed", "interrupted", "failed"}

VARIABLES
    npc,         \* where __call__() stands
    got,         \* for_terminal: INVOCATION_COMPLETED has been seen
    failure, cleanupError,
    session      \* "none", "open" or "closed": the handle of resume_session()

nodeVars == <<npc, got, failure, cleanupError, session>>
vars == <<streamVars, nodeVars>>

Init ==
    /\ StreamInit
    /\ npc = "begin" /\ got = FALSE
    /\ failure = None /\ cleanupError = None /\ session = "none"

(* The node fails; its finally clause closes the stream first.             *)
Fails(error) == failure' = error /\ npc' = "closing"

-----------------------------------------------------------------------------
(* A session is resumed before its stream is opened.                       *)
NodeBegins ==
    /\ npc = "begin"
    /\ IF mode = "session" THEN npc' = "resuming" /\ UNCHANGED streamVars
       ELSE npc' = "consuming" /\ Ask
    /\ UNCHANGED <<got, failure, cleanupError, session>>

(* The state or the RunnableConfig of the graph is refused.                *)
NodeRefuses ==
    /\ npc = "begin" /\ Fails("config")
    /\ UNCHANGED <<streamVars, got, cleanupError, session>>

Resumed ==
    /\ npc = "resuming" /\ npc' = "consuming" /\ session' = "open"
    /\ Ask
    /\ UNCHANGED <<got, failure, cleanupError>>

ResumeFails ==
    /\ npc = "resuming"
    /\ \/ Fails("session") /\ UNCHANGED <<cancels, deadline>>
       \/ Interrupted("cancelled") /\ Fails("cancelled")
    /\ UNCHANGED <<runVars, mode, frame, item, bufVars, log, resVars, abandoned, cutCleanup, turns,
                   got, cleanupError, session>>

SecondCompletion(kind) == got /\ kind = "invocation_completed"

(* _consume_stream(): the writer of the graph may raise.                   *)
Takes ==
    /\ npc = "consuming" /\ frame = "consumer" /\ item.type = "yield"
    /\ \/ /\ ~SecondCompletion(item.what)
          /\ got' = (got \/ item.what = "invocation_completed")
          /\ Ask /\ UNCHANGED <<npc, failure>>
       \/ /\ SecondCompletion(item.what)
          /\ Fails("multiple") /\ UNCHANGED <<got, streamVars>>
       \/ Fails("writer") /\ UNCHANGED <<got, streamVars>>
    /\ UNCHANGED <<cleanupError, session>>

(* The stream raises, or ends; the output mapper may raise.                *)
StreamOver ==
    /\ npc = "consuming" /\ frame = "consumer" /\ item.type # "yield"
    /\ \/ item.type = "raise" /\ Fails(item.what)
       \/ item = End /\ npc' = "closing" /\ failure' \in {None, "mapper"}
    /\ UNCHANGED <<streamVars, got, cleanupError, session>>

-----------------------------------------------------------------------------
(* The finally clause                                                      *)

NodeClosesStream ==
    /\ npc = "closing" /\ frame \in {"idle", "consumer"}
    /\ IF live THEN CloseStream /\ UNCHANGED npc
       ELSE npc' = (IF session = "open" THEN "closing_session" ELSE "done") /\ UNCHANGED streamVars
    /\ UNCHANGED <<got, failure, cleanupError, session>>

(* An error of the cleanup counts if nothing failed before it.             *)
Suppressed(error) == IF failure = None THEN error ELSE None

NodeClosesSession ==
    /\ npc = "closing_session" /\ npc' = "done" /\ session' = "closed"
    /\ \/ UNCHANGED <<cleanupError, cancels, deadline>>
       \/ cleanupError' = Suppressed("close") /\ UNCHANGED <<cancels, deadline>>
       \/ Interrupted("cancelled") /\ cleanupError' = Suppressed("cancelled")
    /\ UNCHANGED <<runVars, mode, frame, item, bufVars, log, resVars, abandoned, cutCleanup, turns,
                   got, failure>>

Next ==
    \/ NodeBegins \/ NodeRefuses \/ Resumed \/ ResumeFails \/ Takes \/ StreamOver
    \/ NodeClosesStream \/ NodeClosesSession
    \/ StreamStep /\ UNCHANGED nodeVars

Spec == Init /\ [][Next]_vars

(* The loop runs the node on, and the finalizer of a generator that was    *)
(* dropped.  Nothing makes the provider answer.                            *)
FairSpec ==
    /\ Spec
    /\ WF_vars(Finalized /\ UNCHANGED nodeVars)
    /\ WF_vars(NodeClosesStream \/ NodeClosesSession)
    /\ WF_vars((CleanedUp \/ CleanupRaises \/ Handled \/ HandledFinishes) /\ UNCHANGED nodeVars)

-----------------------------------------------------------------------------
Outcome == IF failure # None THEN failure ELSE IF cleanupError # None THEN cleanupError ELSE "result"

Completions == {n \in DOMAIN log : log[n] = "invocation_completed"}

Late == {"output_text_delta", "token_usage_updated"}

(* The invocation completed: once, without any other terminal event, and   *)
(* nothing but late deltas and usages came behind it - nothing at all if   *)
(* it is structured, and then every provider turn it took has been counted.*)
CompletedAt(n) ==
    /\ Completions = {n}
    /\ \A m \in DOMAIN log : log[m] \in Ends => m = n
    /\ \A m \in DOMAIN log : m > n => log[m] \in Late
    /\ Structured => n = Len(log) /\ spent = turns /\ turns = attempt

(* A node that returns a state update was not cancelled at any of its      *)
(* awaits, cleanup included, and the bus saw its invocation succeed and    *)
(* not fail, whatever the provider sent behind turn/completed and whatever *)
(* a strict bus did to its events.                                         *)
SuccessIsGenuine ==
    npc = "done" /\ Outcome = "result" =>
        cancels = 0 /\ \E n \in DOMAIN log : CompletedAt(n)

(* The node is done on every way out - a stream that is abandoned by a     *)
(* failing writer included, an interruption that closes the runtime, and   *)
(* one that fails to - with its session handle closed; the run is then     *)
(* unregistered and its workspace or session lock given back, unless       *)
(* _start_run() was cancelled or a finally clause raised.                  *)
EverythingReleased ==
    npc = "closing" ~>
        /\ npc = "done" /\ session # "open"
        /\ cutCleanup \/ (~registered /\ ~held)

(* "Cancellation or timeout interrupts the active turn": once the stream   *)
(* has a run in hand, a cancelled node leaves no provider turn running.    *)
CancellationInterrupts ==
    npc = "done" /\ Outcome \in {"cancelled", "timeout"} /\ at # "none" => provider # "running"

(* "Timeout, cancellation, abandoned stream, session close, and runtime    *)
(* close request interruption, release locks/workspaces": not where the    *)
(* cancellation hits _start_run() or a finally clause, or the runtime that *)
(* is to be invalidated there refuses to close.                            *)
CleanupReleases == npc = "done" /\ ~abandoned => ~held

(* "A normally drained astream() ends with a terminal event": not when a   *)
(* usage or a delta follows turn/completed.                                *)
DrainedStreamEndsTerminal == npc = "done" /\ failure = None => log[Len(log)] \in Ends

(* "The runner has one terminal outcome per invocation": not when it reads *)
(* a second turn/completed or a failure behind the first.                  *)
OneTerminalOutcome == Cardinality({n \in DOMAIN log : log[n] \in Ends}) <= 1
=============================================================================
