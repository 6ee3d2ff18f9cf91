-------------------------- MODULE RuntimeNode_proof --------------------------
(***************************************************************************)
(* What a node may conclude from a stream, for every number of attempts,   *)
(* notifications and cancellations.                                        *)
(***************************************************************************)
EXTENDS RuntimeNode, SequenceTheorems, TLAPS

(* What the events of a stream and the errors of a node are.               *)
Kinds == {"invocation_started", "turn_started", "output_text_delta", "token_usage_updated",
          "turn_completed", "turn_interrupted", "turn_failed", "interrupted", "cancelled",
          "invocation_completed", "invocation_failed", "validation_failed", "retry_scheduled"}

Items == [type : {"yield"}, what : Kinds] \cup [type : {"raise"}, what : Errors] \cup {End}

StreamTypeOK ==
    /\ at \in {"none", "new", "started", "streaming", "ended", "done", "interrupted", "failed",
               "reporting", "raising", "over"}
    /\ status \in {None, "completed", "interrupted", "failed"}
    /\ mode \in {"model", "session", "structured"}
    /\ frame \in {"idle", "start", "run", "logical", "handling", "finish", "cleanup", "consumer"}
    /\ item \in Items
    /\ lpc \in {"announce", "attempt", "replay", "invalid", "retry", "completed", "exhausted"}
    /\ attempt \in Nat /\ spent \in Nat /\ turns \in Nat /\ cancels \in Nat
    /\ buffer \in Seq(Kinds) /\ log \in Seq(Kinds)
    /\ live \in BOOLEAN

TypeOK ==
    /\ StreamTypeOK
    /\ got \in BOOLEAN
    /\ npc \in {"begin", "resuming", "consuming", "closing", "closing_session", "done"}
    /\ failure \in Errors \cup {None} /\ cleanupError \in {None, "close", "cancelled"}

LastOf(s) == s[Len(s)]

(* status is set by turn/completed.                                        *)
RunInv ==
    /\ at \in {"ended", "done"} => status = "completed"
    /\ at \in {"new", "started", "streaming"} => status = None

(* What the bus has seen of a structured invocation.                       *)
LogInv ==
    /\ lpc = "announce" <=> log = << >>
    /\ \A n \in DOMAIN log : log[n] = "invocation_started" <=> n = 1
    /\ \A n \in DOMAIN log : log[n] \in Ends => n = Len(log) /\ lpc \in {"completed", "exhausted"}
    /\ \A n \in DOMAIN log : log[n] = "retry_scheduled" => n > 1 /\ log[n - 1] = "validation_failed"
    /\ \A n \in DOMAIN log : log[n] = "turn_started" =>
          n > 1 /\ log[n - 1] \in {"invocation_started", "retry_scheduled"}

(* The buffer of an attempt may be replayed at the end of the log.         *)
Replayable(b) ==
    \A n \in DOMAIN b :
        /\ b[n] \notin Ends \cup {"invocation_started", "retry_scheduled"}
        /\ b[n] = "turn_started" => n = 1

Opened == log # << >> /\ LastOf(log) \in {"invocation_started", "retry_scheduled"}

(* An attempt is being collected: it has not been announced, its usage not *)
(* been counted.                                                           *)
Collecting ==
    /\ lpc \in {"replay", "retry"} /\ Opened
    /\ turns = attempt /\ spent + 1 = attempt
    /\ at \in {"new", "started"} => buffer = << >>
    /\ at \in {"streaming", "ended", "done", "interrupted"} => Replayable(buffer)
    /\ at \notin {"none", "over"}

Suspended == frame = "consumer" /\ item.type = "yield"

(* _events() is between two of its own events.                             *)
Between ==
    /\ lpc \in {"announce", "attempt"} => at = "new" /\ buffer = << >> /\ turns = attempt /\ spent + 1 = attempt
    /\ lpc \notin {"announce", "attempt"} => spent = turns /\ turns = attempt
    /\ lpc = "attempt" => Opened /\ frame = "consumer"
    /\ lpc = "replay" => Replayable(buffer) /\ (buffer # << >> /\ buffer[1] = "turn_started" => Opened)
    /\ lpc = "invalid" => buffer = << >> /\ log # << >> /\ LastOf(log) = "validation_failed"
    /\ lpc = "retry" => buffer = << >> /\ Opened /\ attempt < MaxAttempts
    /\ lpc = "completed" => log # << >> /\ LastOf(log) = "invocation_completed"

StructuredInv ==
    /\ attempt <= MaxAttempts
    /\ frame \in {"idle", "start"} => lpc = "announce" /\ turns = 0 /\ attempt = 1 /\ spent = 0 /\ buffer = << >>
    /\ LogInv
    /\ frame = "run" => Collecting
    /\ frame = "logical" \/ Suspended => Between

(* The completions that the node has taken: all but that of the event it   *)
(* is about to take.                                                       *)
TakenCompletions == IF Suspended THEN Completions \ {Len(log)} ELSE Completions

(* Nothing has failed so far.                                              *)
Reading == at \in {"none", "new", "started", "streaming", "ended", "done"}

(* The stream has completed, and what followed came late.                  *)
Completing ==
    \E n \in DOMAIN log :
        /\ log[n] = "invocation_completed"
        /\ \A m \in DOMAIN log : m > n => log[m] \in Late

OnlyCompletions == \A n \in DOMAIN log : log[n] \in Ends => log[n] = "invocation_completed"

Taken == IF got THEN \E n \in DOMAIN log : TakenCompletions = {n} ELSE TakenCompletions = {}

PlainInv ==
    /\ frame # "logical"
    /\ frame \in {"idle", "start"} => at = "none" /\ log = << >>
    /\ Suspended => log # << >> /\ item.what = LastOf(log)
    /\ Reading => OnlyCompletions
    /\ at = "done" => Completing
    /\ Reading /\ npc \in {"begin", "resuming", "consuming"} => Taken

Genuine == \E n \in DOMAIN log : CompletedAt(n)

Leaving == {"closing", "closing_session", "done"}

NodeInv ==
    /\ npc \in {"begin", "resuming"} => frame = "idle" /\ ~got /\ cancels = 0
    /\ npc \notin Leaving => failure = None /\ cleanupError = None
    /\ npc = "consuming" =>
         /\ frame \in {"handling", "finish", "cleanup"} => item.type = "raise"
         /\ cancels > 0 => item.type = "raise" /\ frame \in {"handling", "finish", "cleanup", "consumer"}
         /\ frame = "consumer" /\ item.type = "end" => Genuine /\ ~live
    /\ npc \in Leaving /\ failure = None =>
         frame = "consumer" /\ item.type = "end" /\ ~live /\ Genuine
    /\ npc \in Leaving /\ failure = None /\ cleanupError = None => cancels = 0

(* What is left to be delivered after a cleanup is an end or an error.     *)
Pending == frame \in {"handling", "finish", "cleanup"} => item.type # "yield"

IInv ==
    /\ TypeOK /\ RunInv /\ Pending
    /\ Structured => StructuredInv
    /\ ~Structured => PlainInv
    /\ NodeInv

-----------------------------------------------------------------------------
LEMMA Appended ==
    ASSUME NEW S, NEW s \in Seq(S), NEW e \in S
    PROVE  /\ Append(s, e) \in Seq(S)
           /\ Len(Append(s, e)) = Len(s) + 1 /\ Len(s) \in Nat
           /\ DOMAIN s = 1..Len(s) /\ DOMAIN Append(s, e) = 1..(Len(s) + 1)
           /\ \A n \in DOMAIN s : Append(s, e)[n] = s[n]
           /\ Append(s, e)[Len(s) + 1] = e
           /\ Append(s, e) # << >> /\ LastOf(Append(s, e)) = e
<1>1. /\ Append(s, e) \in Seq(S)
      /\ Len(Append(s, e)) = Len(s) + 1 /\ Len(s) \in Nat
      /\ DOMAIN s = 1..Len(s) /\ DOMAIN Append(s, e) = 1..(Len(s) + 1)
  OBVIOUS
<1>2. \A n \in DOMAIN s : Append(s, e)[n] = s[n]
  BY <1>1
<1>3. Append(s, e)[Len(s) + 1] = e /\ Append(s, e) # << >>
  OBVIOUS
<1> QED BY <1>1, <1>2, <1>3 DEF LastOf

(* A resumption of events(): where it can come from and what it hands out. *)
LEMMA RunSteps ==
    ASSUME TypeOK, RunInv, NEW out, RunStep(out)
    PROVE  /\ at' \in {"started", "streaming", "ended", "done", "interrupted", "failed", "reporting",
                       "raising", "over"}
           /\ status' \in {None, "completed", "interrupted", "failed"}
           /\ RunInv'
           /\ out.type \in {"yield", "lost", "quiet", "raise", "end"}
           /\ out.type \in {"yield", "raise", "end"} => out \in Items
           /\ at' = "over" <=> out.type \in {"raise", "end"}
           /\ out.type \in {"lost", "quiet"} => at' \in {"reporting", "raising"}
           /\ out.type = "end" => out = End /\ at = "done" /\ status = "completed" /\ status' = status
           /\ out.type = "raise" => out = Raise("provider") /\ status' = status
           /\ out.type \in {"yield", "lost"} =>
                 out.what \in Kinds \ {"retry_scheduled", "validation_failed", "cancelled"}
           /\ out.type = "yield" => /\ out.what = "turn_started" => at = "started"
                                    /\ out.what = "invocation_started" <=> at = "new"
           /\ at' = "started" => at = "new" /\ out.type = "yield"
           /\ at' = "done" => \/ out.what = "invocation_completed"
                              \/ at = "done" /\ out.what \in Late
           /\ at' \in {"streaming", "ended", "done", "interrupted"} =>
                 /\ at \in {"started", "streaming", "ended", "done"}
                 /\ out.type = "yield" /\ out.what \notin Ends \ {"invocation_completed"}
<1> USE DEF RunInv, Yield, Raise, End, Lost, Internal, Publishes, Goes, TypeOK, StreamTypeOK, Items, Kinds,
            Errors, Ends, Late
<1>1. CASE Announces(out)
  BY <1>1 DEF Announces
<1>2. CASE Notified(out)
  BY <1>2 DEF Notified
<1>3. CASE TurnEnded(out)
  BY <1>3 DEF TurnEnded
<1>4. CASE InvocationEnded(out)
  BY <1>4 DEF InvocationEnded
<1>5. CASE StreamBreaks(out)
  BY <1>5 DEF StreamBreaks
<1> QED BY <1>1, <1>2, <1>3, <1>4, <1>5 DEF RunStep

-----------------------------------------------------------------------------
(* The structured stream                                                   *)

(* The log stays well-formed under one more event.                         *)
LEMMA LogExtends ==
    ASSUME LogInv, log \in Seq(Kinds), NEW kind \in Kinds, OnBus(kind),
           lpc \notin {"completed", "exhausted"}, lpc' # "announce",
           kind = "invocation_started" <=> log = << >>,
           kind \in Ends => lpc' \in {"completed", "exhausted"},
           kind = "retry_scheduled" => log # << >> /\ LastOf(log) = "validation_failed",
           kind = "turn_started" => Opened
    PROVE  LogInv' /\ log' # << >> /\ LastOf(log') = kind
<1> DEFINE l == log'
<1>1. /\ Len(l) = Len(log) + 1 /\ Len(log) \in Nat
      /\ DOMAIN log = 1..Len(log) /\ DOMAIN l = 1..(Len(log) + 1)
      /\ \A n \in DOMAIN log : l[n] = log[n]
      /\ l[Len(log) + 1] = kind /\ l # << >> /\ LastOf(l) = kind
  BY Appended DEF OnBus
<1>2. log # << >> => Len(log) > 0
  OBVIOUS
<1>3. log = << >> => Len(log) = 0
  OBVIOUS
<1> HIDE DEF l
<1>4. \A n \in DOMAIN l : l[n] = "invocation_started" <=> n = 1
  <2>1. CASE log = << >>
    BY <1>1, <1>3, <2>1
  <2>2. CASE log # << >>
    BY <1>1, <1>2, <2>2 DEF LogInv
  <2> QED BY <2>1, <2>2
<1>5. \A n \in DOMAIN l : l[n] \in Ends => n = Len(l) /\ lpc' \in {"completed", "exhausted"}
  BY <1>1 DEF LogInv
<1>6. \A n \in DOMAIN l : l[n] = "retry_scheduled" => n > 1 /\ l[n - 1] = "validation_failed"
  <2> SUFFICES ASSUME NEW n \in DOMAIN l, l[n] = "retry_scheduled"
               PROVE  n > 1 /\ l[n - 1] = "validation_failed"
    OBVIOUS
  <2>1. CASE n \in DOMAIN log
    <3>1. n > 1 /\ log[n - 1] = "validation_failed"
      BY <1>1, <2>1 DEF LogInv
    <3> QED BY <3>1, <2>1, <1>1
  <2>2. CASE n = Len(log) + 1
    BY <2>2, <1>1, <1>2 DEF LastOf
  <2> QED BY <2>1, <2>2, <1>1
<1>7. \A n \in DOMAIN l : l[n] = "turn_started" =>
          n > 1 /\ l[n - 1] \in {"invocation_started", "retry_scheduled"}
  <2> SUFFICES ASSUME NEW n \in DOMAIN l, l[n] = "turn_started"
               PROVE  n > 1 /\ l[n - 1] \in {"invocation_started", "retry_scheduled"}
    OBVIOUS
  <2>1. CASE n \in DOMAIN log
    <3>1. n > 1 /\ log[n - 1] \in {"invocation_started", "retry_scheduled"}
      BY <1>1, <2>1 DEF LogInv
    <3> QED BY <3>1, <2>1, <1>1
  <2>2. CASE n = Len(log) + 1
    BY <2>2, <1>1, <1>2 DEF LastOf, Opened
  <2> QED BY <2>1, <2>2, <1>1
<1> QED BY <1>1, <1>4, <1>5, <1>6, <1>7 DEF LogInv, l

(* Where the consumer has nothing to take, only the log is constrained.    *)
LEMMA Left ==
    ASSUME StructuredInv, UNCHANGED <<attempt, lpc, log>>,
           frame' \in {"consumer", "cleanup", "handling", "finish"}, item'.type # "yield"
    PROVE  StructuredInv'
<1>1. LogInv'
  BY DEF StructuredInv, LogInv
<1> QED BY <1>1 DEF StructuredInv, Suspended

(* One attempt is collected into the buffer.                               *)
LEMMA Collects ==
    ASSUME TypeOK, RunInv, Structured, StructuredInv, Collect
    PROVE  StructuredInv'
<1>1. frame = "run" /\ UNCHANGED <<mode, attempt, log, abandoned, envVars, turns>>
  BY DEF Collect
<1>2. Collecting /\ LogInv /\ attempt <= MaxAttempts
  BY <1>1 DEF StructuredInv
<1>3. PICK out \in Outs :
         /\ RunStep(out)
         /\ \/ out.type = "quiet" /\ UNCHANGED <<frame, item, lpc, buffer, spent, resVars>>
            \/ /\ out.type = "yield"
               /\ buffer' = IF out.what \in Skipped THEN buffer ELSE Append(buffer, out.what)
               /\ UNCHANGED <<frame, item, lpc, spent, resVars>>
            \/ /\ out.type = "raise"
               /\ IF status = None
                  THEN frame' = "cleanup" /\ item' = out /\ UNCHANGED resVars
                  ELSE Finish(out)
               /\ UNCHANGED <<buffer, lpc, spent>>
            \/ /\ out.type = "end"
               /\ registered' = FALSE /\ spent' = Usages
               /\ frame' = "logical" /\ lpc' = "replay"
               /\ UNCHANGED <<item, buffer, held, live>>
  BY DEF Collect
<1>4. /\ at' \in {"started", "streaming", "ended", "done", "interrupted", "failed", "reporting",
                  "raising", "over"}
      /\ at' = "over" <=> out.type \in {"raise", "end"}
      /\ out.type = "quiet" => at' \in {"reporting", "raising"}
      /\ out.type = "end" => at = "done"
      /\ out.type = "yield" => out.what \in Kinds \ {"retry_scheduled", "validation_failed", "cancelled"}
      /\ out.type = "yield" => /\ out.what = "turn_started" => at = "started"
                               /\ out.what = "invocation_started" <=> at = "new"
      /\ at' = "started" => at = "new"
      /\ at' \in {"streaming", "ended", "done", "interrupted"} =>
            /\ at \in {"started", "streaming", "ended", "done"}
            /\ out.type = "yield" /\ out.what \notin Ends \ {"invocation_completed"}
  BY <1>3, RunSteps
<1>5. CASE out.type = "yield"
  <2>1. /\ buffer' = IF out.what \in Skipped THEN buffer ELSE Append(buffer, out.what)
        /\ UNCHANGED <<frame, item, lpc, spent>>
    BY <1>3, <1>5
  <2>2. at' \in {"new", "started"} => buffer' = << >>
    BY <1>2, <1>4, <1>5, <2>1 DEF Collecting, Skipped
  <2>3. ASSUME at' \in {"streaming", "ended", "done", "interrupted"}
        PROVE  Replayable(buffer')
    <3>1. Replayable(buffer) /\ (at = "started" => buffer = << >>)
      BY <1>2, <1>4, <2>3 DEF Collecting, Replayable
    <3>2. CASE out.what \in Skipped
      BY <2>1, <3>1, <3>2
    <3>3. CASE out.what \notin Skipped
      <4> DEFINE b == buffer'
      <4>1. out.what \in Kinds /\ buffer \in Seq(Kinds)
        BY <1>4, <1>5 DEF TypeOK, StreamTypeOK
      <4>2. /\ Len(buffer) \in Nat /\ DOMAIN buffer = 1..Len(buffer)
            /\ DOMAIN b = 1..(Len(buffer) + 1)
            /\ \A n \in DOMAIN buffer : b[n] = buffer[n]
            /\ b[Len(buffer) + 1] = out.what
        BY <4>1, <2>1, <3>3, Appended
      <4>3. out.what \notin Ends \cup {"invocation_started", "retry_scheduled"}
        BY <1>4, <1>5, <2>3, <3>3 DEF Skipped, Ends
      <4>4. out.what = "turn_started" => Len(buffer) = 0
        BY <1>4, <1>5, <3>1
      <4> HIDE DEF b
      <4>5. Replayable(b)
        BY <4>2, <4>3, <4>4, <3>1 DEF Replayable
      <4> QED BY <4>5 DEF b
    <3> QED BY <3>2, <3>3
  <2>4. Collecting'
    BY <1>1, <1>2, <1>4, <1>5, <2>1, <2>2, <2>3 DEF Collecting, Opened
  <2>5. LogInv'
    BY <1>1, <1>2, <2>1 DEF LogInv
  <2> QED BY <1>1, <1>2, <2>1, <2>4, <2>5 DEF StructuredInv, Suspended
<1>6. CASE out.type = "raise"
  <2>1. /\ UNCHANGED <<attempt, lpc, log>>
        /\ frame' \in {"consumer", "cleanup"} /\ item' = out
    BY <1>1, <1>3, <1>6 DEF Finish, Deliver
  <2> QED BY <1>6, <2>1, Left
<1>7. CASE out.type = "end"
  <2>1. /\ spent' = spent + 1 /\ frame' = "logical" /\ lpc' = "replay"
        /\ UNCHANGED <<item, buffer>>
    BY <1>3, <1>7 DEF Usages
  <2>2. Replayable(buffer)'
    BY <1>2, <1>4, <1>7, <2>1 DEF Collecting, Replayable
  <2>3. LogInv'
    BY <1>1, <1>2, <2>1 DEF LogInv, Collecting
  <2>4. Opened'
    BY <1>1, <1>2 DEF Collecting, Opened
  <2>5. Between'
    BY <1>1, <1>2, <2>1, <2>2, <2>4 DEF Between, Collecting
  <2> QED BY <1>1, <1>2, <2>1, <2>3, <2>5 DEF StructuredInv, Suspended
<1>8. CASE out.type = "quiet"
  <2>1. UNCHANGED <<frame, item, lpc, buffer, spent>>
    BY <1>3, <1>8
  <2>2. LogInv'
    BY <1>1, <1>2, <2>1 DEF LogInv
  <2>3. Opened'
    BY <1>1, <1>2 DEF Collecting, Opened
  <2>4. Collecting'
    BY <1>1, <1>2, <1>4, <1>8, <2>1, <2>3 DEF Collecting
  <2> QED BY <1>1, <1>2, <2>1, <2>2, <2>4 DEF StructuredInv, Suspended
<1> QED BY <1>3, <1>5, <1>6, <1>7, <1>8

(* _events() dispatches an event of its own, or replays one of the buffer. *)
LEMMA Dispatched ==
    ASSUME TypeOK, Structured, StructuredInv,
           Announce \/ Replay \/ Completes \/ ValidationFails \/ Exhausted \/ RetryScheduled
    PROVE  StructuredInv'
<1>1. Between /\ LogInv /\ attempt <= MaxAttempts
  BY DEF StructuredInv, Announce, Replay, Completes, ValidationFails, Exhausted, RetryScheduled,
         Dispatches
<1>2. ASSUME NEW kind \in Kinds, NEW from, NEW to, Dispatches(kind, from, to),
             to # "announce", from \notin {"completed", "exhausted"},
             kind = "invocation_started" <=> from = "announce",
             kind \in Ends => to \in {"completed", "exhausted"},
             kind = "retry_scheduled" => log # << >> /\ LastOf(log) = "validation_failed",
             kind = "turn_started" => Opened
      PROVE  /\ LogInv' /\ log' # << >> /\ LastOf(log') = kind
             /\ lpc = from /\ lpc' = to /\ frame' = "consumer"
             /\ UNCHANGED <<at, attempt, spent, turns>>
             /\ Between' => StructuredInv'
  <2>1. /\ lpc = from /\ lpc' = to /\ frame' = "consumer" /\ OnBus(kind)
        /\ UNCHANGED <<at, attempt, spent, turns>>
    BY <1>2 DEF Dispatches, Deliver, Finish, runVars
  <2>2. log \in Seq(Kinds) /\ (lpc = "announce" <=> log = << >>)
    BY <1>1 DEF TypeOK, StreamTypeOK, LogInv
  <2>3. LogInv' /\ log' # << >> /\ LastOf(log') = kind
    BY <1>1, <1>2, <2>1, <2>2, LogExtends
  <2> QED BY <1>1, <2>1, <2>3 DEF StructuredInv
<1>3. CASE Announce
  <2>1. Dispatches("invocation_started", "announce", "attempt") /\ UNCHANGED buffer
    BY <1>3 DEF Announce
  <2>2. /\ log' # << >> /\ LastOf(log') = "invocation_started"
        /\ lpc = "announce" /\ lpc' = "attempt" /\ frame' = "consumer"
        /\ UNCHANGED <<at, attempt, spent, turns>> /\ (Between' => StructuredInv')
    BY <1>2, <2>1 DEF Kinds, Ends
  <2> QED BY <1>1, <2>1, <2>2 DEF Between, Opened
<1>4. CASE Replay
  <2>1. /\ buffer # << >> /\ Dispatches(Head(buffer), "replay", "replay")
        /\ buffer' = Tail(buffer) /\ lpc = "replay"
    BY <1>4 DEF Replay, Dispatches
  <2>2. /\ Head(buffer) = buffer[1] /\ 1 \in DOMAIN buffer /\ Head(buffer) \in Kinds
        /\ Len(buffer) \in Nat /\ DOMAIN buffer = 1..Len(buffer)
        /\ DOMAIN Tail(buffer) = 1..(Len(buffer) - 1)
        /\ \A n \in DOMAIN Tail(buffer) : Tail(buffer)[n] = buffer[n + 1]
    BY <2>1 DEF TypeOK, StreamTypeOK
  <2>3. Replayable(buffer) /\ (buffer[1] = "turn_started" => Opened)
    BY <1>1, <2>1 DEF Between
  <2>4. Head(buffer) \notin Ends \cup {"invocation_started", "retry_scheduled"}
    BY <2>2, <2>3 DEF Replayable
  <2>5. /\ lpc' = "replay" /\ UNCHANGED <<at, attempt, spent, turns>>
        /\ frame' = "consumer" /\ (Between' => StructuredInv')
    BY <1>2, <2>1, <2>2, <2>3, <2>4
  <2>6. /\ Replayable(Tail(buffer))
        /\ \A n \in DOMAIN Tail(buffer) : Tail(buffer)[n] # "turn_started"
    BY <2>2, <2>3 DEF Replayable
  <2>7. buffer' # << >> => buffer'[1] # "turn_started"
    <3>1. Tail(buffer) \in Seq(Kinds)
      BY <2>1 DEF TypeOK, StreamTypeOK
    <3>2. Tail(buffer) # << >> => 1 \in DOMAIN Tail(buffer)
      BY <3>1
    <3> QED BY <2>1, <2>6, <3>2
  <2>8. Replayable(buffer)'
    BY <2>1, <2>6 DEF Replayable
  <2> QED BY <1>1, <2>1, <2>5, <2>7, <2>8 DEF Between
<1>5. CASE Completes
  <2>1. Dispatches("invocation_completed", "replay", "completed") /\ buffer = << >> /\ UNCHANGED buffer
    BY <1>5 DEF Completes
  <2>2. /\ log' # << >> /\ LastOf(log') = "invocation_completed"
        /\ lpc = "replay" /\ lpc' = "completed"
        /\ UNCHANGED <<at, attempt, spent, turns>> /\ (Between' => StructuredInv')
    BY <1>2, <2>1 DEF Kinds, Ends
  <2> QED BY <1>1, <2>1, <2>2 DEF Between
<1>6. CASE ValidationFails
  <2>1. Dispatches("validation_failed", "replay", "invalid") /\ buffer = << >> /\ UNCHANGED buffer
    BY <1>6 DEF ValidationFails
  <2>2. /\ log' # << >> /\ LastOf(log') = "validation_failed"
        /\ lpc = "replay" /\ lpc' = "invalid"
        /\ UNCHANGED <<at, attempt, spent, turns>> /\ (Between' => StructuredInv')
    BY <1>2, <2>1 DEF Kinds, Ends
  <2> QED BY <1>1, <2>1, <2>2 DEF Between
<1>7. CASE Exhausted
  <2>1. Dispatches("invocation_failed", "invalid", "exhausted") /\ UNCHANGED buffer
    BY <1>7 DEF Exhausted
  <2>2. /\ lpc = "invalid" /\ lpc' = "exhausted"
        /\ UNCHANGED <<at, attempt, spent, turns>> /\ (Between' => StructuredInv')
    BY <1>2, <2>1 DEF Kinds, Ends
  <2> QED BY <1>1, <2>1, <2>2 DEF Between
<1>8. CASE RetryScheduled
  <2>1. /\ Dispatches("retry_scheduled", "invalid", "retry") /\ UNCHANGED buffer
        /\ attempt < MaxAttempts /\ lpc = "invalid"
    BY <1>8 DEF RetryScheduled, Dispatches
  <2>2. buffer = << >> /\ log # << >> /\ LastOf(log) = "validation_failed"
    BY <1>1, <2>1 DEF Between
  <2>3. /\ log' # << >> /\ LastOf(log') = "retry_scheduled"
        /\ lpc' = "retry"
        /\ UNCHANGED <<at, attempt, spent, turns>> /\ (Between' => StructuredInv')
    BY <1>2, <2>1, <2>2 DEF Kinds, Ends
  <2>4. attempt' < MaxAttempts
    BY <2>1, <2>3
  <2> QED BY <1>1, <2>1, <2>2, <2>3, <2>4 DEF Between, Opened
<1> QED BY <1>3, <1>4, <1>5, <1>6, <1>7, <1>8

(* What the node does to its stream: it asks for an item, closes it, and   *)
(* is cancelled elsewhere.                                                 *)
Asked == Ask /\ (frame = "idle" \/ Suspended)

Elsewhere ==
    /\ cancels' \in Nat
    /\ UNCHANGED <<runVars, mode, frame, item, bufVars, log, resVars, abandoned, cutCleanup, turns>>

StreamMoves == StreamStep \/ Asked \/ CloseStream \/ Elsewhere

LEMMA StructuredStep ==
    ASSUME TypeOK, RunInv, Pending, Structured, StructuredInv, StreamMoves
    PROVE  StructuredInv'
<1>1. CASE Started
  <2>1. /\ frame = "start" /\ at' = "new" /\ turns' = turns + 1 /\ frame' = "logical"
        /\ UNCHANGED <<bufVars, log>>
    BY <1>1 DEF Started, NewRun
  <2>2. /\ lpc = "announce" /\ turns = 0 /\ attempt = 1 /\ spent = 0 /\ buffer = << >>
        /\ attempt <= MaxAttempts /\ LogInv
    BY <2>1 DEF StructuredInv
  <2>3. LogInv'
    BY <2>1, <2>2 DEF LogInv, bufVars
  <2>4. Between'
    BY <2>1, <2>2 DEF Between, bufVars
  <2> QED BY <2>1, <2>2, <2>3, <2>4 DEF StructuredInv, Suspended, bufVars
<1>2. CASE StartFails
  BY <1>2, Left DEF StartFails, Finish, Deliver, Raise, bufVars
<1>3. CASE PlainStep
  BY <1>3 DEF PlainStep
<1>4. CASE Handled
  <2>1. /\ frame' \in {"cleanup", "finish"} /\ item'.type # "yield"
        /\ UNCHANGED <<attempt, lpc, log>>
    BY <1>4 DEF Handled, Pending, Raise, bufVars
  <2> QED BY <2>1, Left
<1>5. CASE HandledFinishes
  BY <1>5, Left DEF HandledFinishes, Finish, Deliver, Pending, bufVars
<1>6. CASE CleanedUp
  BY <1>6, Left DEF CleanedUp, Finish, Deliver, Pending, bufVars
<1>7. CASE CleanupRaises
  BY <1>7, Left DEF CleanupRaises, CutShort, Finish, Deliver, Raise, bufVars
<1>8. CASE Collect
  BY <1>8, Collects
<1>9. CASE Announce \/ Replay \/ Completes \/ ValidationFails \/ Exhausted \/ RetryScheduled
  BY <1>9, Dispatched
<1>10. CASE Retries
  <2>1. /\ frame = "logical" /\ lpc = "retry" /\ at' = "new" /\ frame' = "run"
        /\ turns' = turns + 1 /\ attempt' = attempt + 1
        /\ UNCHANGED <<lpc, buffer, spent, log>>
    BY <1>10 DEF Retries, NewRun
  <2>2. Between /\ LogInv
    BY <2>1 DEF StructuredInv
  <2>3. LogInv'
    BY <2>1, <2>2 DEF LogInv
  <2>4. Opened'
    BY <2>1, <2>2 DEF Between, Opened
  <2>5. attempt < MaxAttempts /\ spent = turns /\ turns = attempt /\ buffer = << >>
    BY <2>1, <2>2 DEF Between
  <2>6. Collecting'
    BY <2>1, <2>4, <2>5 DEF Collecting
  <2>7. attempt' <= MaxAttempts
    BY <2>1, <2>5, StructuredAssumption DEF TypeOK, StreamTypeOK
  <2> QED BY <2>1, <2>3, <2>6, <2>7 DEF StructuredInv, Suspended
<1>11. CASE LogicalEnds
  <2>1. item'.type # "yield"
    BY <1>11 DEF LogicalEnds, Finish, Deliver, Raise, End
  <2> QED BY <1>11, <2>1, Left DEF LogicalEnds, Finish, Deliver, bufVars
<1>12. CASE Finalized \/ CloseStream \/ Elsewhere
  <2>1. UNCHANGED <<at, frame, item, lpc, attempt, buffer, spent, log, turns>>
    BY <1>12 DEF Finalized, CloseStream, Elsewhere, runVars, bufVars
  <2> QED BY <2>1
     DEF StructuredInv, LogInv, Collecting, Between, Suspended, Opened, Replayable, LastOf
<1>13. ASSUME NEW why, \/ StartCancelled(why) \/ LogicalCancelled(why)
                       \/ CollectCancelled(why) \/ CleanupCancelled(why)
       PROVE  StructuredInv'
  <2>1. item'.type # "yield" /\ frame' \in {"consumer", "cleanup", "handling"}
    BY <1>13 DEF StartCancelled, LogicalCancelled, CollectCancelled, CleanupCancelled, CutShort,
                 Finish, Deliver, Raise
  <2>2. UNCHANGED <<attempt, lpc, log>>
    BY <1>13 DEF StartCancelled, LogicalCancelled, CollectCancelled, CleanupCancelled, bufVars
  <2> QED BY <2>1, <2>2, Left
<1>14. ASSUME NEW why, PlainCancelled(why)
       PROVE  StructuredInv'
  BY <1>14 DEF PlainCancelled
<1>15. CASE Asked
  <2>1. UNCHANGED <<at, item, attempt, buffer, spent, log, turns>> /\ (frame = "idle" \/ Suspended)
    BY <1>15 DEF Asked, Ask, runVars
  <2>2. LogInv'
    <3>1. lpc' \in {"completed", "exhausted", "announce"} <=> lpc \in {"completed", "exhausted", "announce"}
      BY <1>15 DEF Asked, Ask
    <3>2. lpc' = "announce" <=> lpc = "announce"
      BY <1>15 DEF Asked, Ask
    <3> QED BY <2>1, <3>1, <3>2 DEF LogInv, StructuredInv
  <2>3. CASE frame = "idle"
    BY <1>15, <2>1, <2>2, <2>3 DEF Asked, Ask, StructuredInv, Suspended
  <2>4. CASE Suspended /\ lpc = "attempt"
    <3>1. frame' = "run" /\ lpc' = "replay"
      BY <1>15, <2>4 DEF Asked, Ask, Suspended
    <3>2. Between /\ attempt <= MaxAttempts
      BY <2>4 DEF StructuredInv
    <3>3. Opened'
      BY <2>1, <2>4, <3>2 DEF Between, Opened
    <3>4. Collecting'
      BY <2>1, <2>4, <3>1, <3>2, <3>3 DEF Between, Collecting
    <3> QED BY <2>1, <2>2, <3>1, <3>2, <3>4 DEF StructuredInv, Suspended
  <2>5. CASE Suspended /\ lpc # "attempt"
    <3>1. frame' = "logical" /\ lpc' = lpc
      BY <1>15, <2>5 DEF Asked, Ask, Suspended
    <3>2. Between /\ attempt <= MaxAttempts
      BY <2>5 DEF StructuredInv
    <3>3. Opened' <=> Opened
      BY <2>1 DEF Opened
    <3>4. Between'
      BY <2>1, <2>5, <3>1, <3>2, <3>3 DEF Between, Replayable
    <3> QED BY <2>1, <2>2, <3>1, <3>2, <3>4 DEF StructuredInv, Suspended
  <2> QED BY <2>1, <2>3, <2>4, <2>5
<1> QED
  BY <1>1, <1>2, <1>3, <1>4, <1>5, <1>6, <1>7, <1>8, <1>9, <1>10, <1>11, <1>12, <1>13, <1>14, <1>15
  DEF StreamMoves, StreamStep

-----------------------------------------------------------------------------
(* Types                                                                   *)

LEMMA StreamTypes ==
    ASSUME TypeOK, RunInv, Pending, StreamMoves
    PROVE  StreamTypeOK' /\ RunInv' /\ Pending'
<1> USE DEF TypeOK, StreamTypeOK
<1>1. /\ Raise("start") \in Items /\ Raise("provider") \in Items /\ Raise("structured") \in Items
      /\ Raise("cancelled") \in Items /\ Raise("timeout") \in Items /\ End \in Items
      /\ Raise("observability") \in Items /\ Raise("invalidate") \in Items
      /\ \A kind \in Kinds : Yield(kind) \in Items
  BY DEF Items, Raise, End, Yield, Errors
<1>2. \A why : Interrupted(why) => cancels' \in Nat /\ why \in {"cancelled", "timeout"}
  BY DEF Interrupted
<1>3. /\ \A error : Raise(error).type = "raise" /\ Raise(error).type # "yield"
      /\ End.type # "yield"
  BY DEF Raise, End
<1>4. CASE Started
  BY <1>4 DEF Started, NewRun, bufVars, envVars, RunInv, Pending
<1>5. CASE StartFails
  BY <1>1, <1>3, <1>5 DEF StartFails, Finish, Deliver, runVars, bufVars, envVars, RunInv, Pending
<1>6. CASE PlainStep
  <2>1. PICK out \in Outs :
         /\ RunStep(out)
         /\ IF out.type \in {"yield", "lost"} THEN OnBus(out.what) ELSE UNCHANGED log
         /\ \/ out.type = "yield" /\ Deliver(out) /\ UNCHANGED resVars
            \/ out.type \in {"lost", "quiet"} /\ UNCHANGED <<frame, item, resVars>>
            \/ /\ out.type \in {"raise", "end"}
               /\ IF status = None
                  THEN frame' = "cleanup" /\ item' = out /\ UNCHANGED resVars
                  ELSE Finish(out)
    BY <1>6 DEF PlainStep
  <2>2. /\ at' \in {"none", "new", "started", "streaming", "ended", "done", "interrupted", "failed",
                    "reporting", "raising", "over"}
        /\ status' \in {None, "completed", "interrupted", "failed"}
        /\ RunInv' /\ (out.type \in {"yield", "raise", "end"} => out \in Items)
        /\ out.type \in {"yield", "lost"} => out.what \in Kinds
    BY <2>1, RunSteps
  <2>3. UNCHANGED <<mode, bufVars, envVars, turns>>
    BY <1>6 DEF PlainStep
  <2>4. log' \in Seq(Kinds)
    BY <2>1, <2>2, Appended DEF OnBus
  <2>5. /\ \/ UNCHANGED <<frame, item>> /\ frame = "run"
           \/ frame' \in {"consumer", "cleanup"} /\ item' = out /\ out \in Items
        /\ frame' = "cleanup" => item'.type # "yield"
        /\ live' \in BOOLEAN
    <3>1. frame = "run"
      BY <1>6 DEF PlainStep
    <3> QED BY <2>1, <2>2, <3>1 DEF Finish, Deliver, resVars
  <2> QED BY <2>2, <2>3, <2>4, <2>5 DEF bufVars, envVars, Pending
<1>7. CASE Handled
  BY <1>1, <1>2, <1>3, <1>7
  DEF Handled, InterruptOrInvalidate, InvalidateRaises, runVars, bufVars, RunInv, Pending
<1>8. CASE HandledFinishes
  BY <1>8 DEF HandledFinishes, Finish, Deliver, runVars, bufVars, envVars, RunInv, Pending
<1>9. CASE CleanedUp
  BY <1>9 DEF CleanedUp, InterruptOrInvalidate, Finish, Deliver, bufVars, envVars, RunInv, Pending
<1>10. CASE CleanupRaises
  BY <1>1, <1>3, <1>10
  DEF CleanupRaises, CutShort, InvalidateRaises, Finish, Deliver, bufVars, RunInv, Pending
<1>11. CASE Collect
  <2>1. PICK out \in Outs :
         /\ RunStep(out)
         /\ \/ out.type = "quiet" /\ UNCHANGED <<frame, item, lpc, buffer, spent, resVars>>
            \/ /\ out.type = "yield"
               /\ buffer' = IF out.what \in Skipped THEN buffer ELSE Append(buffer, out.what)
               /\ UNCHANGED <<frame, item, lpc, spent, resVars>>
            \/ /\ out.type = "raise"
               /\ IF status = None
                  THEN frame' = "cleanup" /\ item' = out /\ UNCHANGED resVars
                  ELSE Finish(out)
               /\ UNCHANGED <<buffer, lpc, spent>>
            \/ /\ out.type = "end"
               /\ registered' = FALSE /\ spent' = Usages
               /\ frame' = "logical" /\ lpc' = "replay"
               /\ UNCHANGED <<item, buffer, held, live>>
    BY <1>11 DEF Collect
  <2>2. /\ RunInv' /\ (out.type \in {"yield", "raise", "end"} => out \in Items)
        /\ out.type = "yield" => out.what \in Kinds
    BY <2>1, RunSteps
  <2>3. UNCHANGED <<mode, attempt, log, envVars, turns>> /\ frame = "run"
    BY <1>11 DEF Collect
  <2>4. buffer' \in Seq(Kinds)
    BY <2>1, <2>2, Appended
  <2>5. /\ lpc' \in {lpc, "replay"} /\ spent' \in Nat
        /\ frame' \in {frame, "cleanup", "consumer", "logical"}
        /\ item' = item \/ (item' = out /\ out \in Items)
        /\ live' \in BOOLEAN /\ (frame' = "cleanup" => item'.type # "yield")
    <3>1. CASE out.type = "yield"
      BY <2>1, <2>3, <3>1 DEF resVars
    <3>2. CASE out.type = "raise"
      BY <2>1, <2>2, <2>3, <3>2 DEF Finish, Deliver, resVars
    <3>3. CASE out.type = "end"
      BY <2>1, <2>3, <3>3 DEF Usages
    <3>4. CASE out.type = "quiet"
      BY <2>1, <2>3, <3>4 DEF resVars
    <3> QED BY <2>1, <3>1, <3>2, <3>3, <3>4
  <2>6. item' \in Items /\ lpc' \in {"announce", "attempt", "replay", "invalid", "retry", "completed", "exhausted"}
    BY <2>2, <2>5
  <2>7. attempt' \in Nat /\ turns' \in Nat /\ cancels' \in Nat /\ log' \in Seq(Kinds) /\ mode' = mode
    BY <2>3 DEF envVars
  <2>8. Pending'
    BY <2>3, <2>5 DEF Pending
  <2>9. /\ at' \in {"none", "new", "started", "streaming", "ended", "done", "interrupted", "failed",
                    "reporting", "raising", "over"}
        /\ status' \in {None, "completed", "interrupted", "failed"}
    BY <2>1, RunSteps
  <2> QED BY <2>2, <2>3, <2>4, <2>5, <2>6, <2>7, <2>8, <2>9
<1>12. ASSUME NEW kind \in Kinds, NEW from, NEW to, Dispatches(kind, from, to), buffer' \in Seq(Kinds),
              to \in {"attempt", "replay", "invalid", "retry", "completed", "exhausted"}
       PROVE  StreamTypeOK' /\ RunInv' /\ Pending'
  <2>1. log' \in Seq(Kinds)
    BY <1>12, Appended DEF Dispatches, OnBus
  <2>2. /\ item' \in Items /\ frame' = "consumer" /\ live' \in BOOLEAN /\ cancels' \in Nat
    BY <1>1, <1>2, <1>12 DEF Dispatches, Deliver, Finish, resVars
  <2> QED BY <1>12, <2>1, <2>2 DEF Dispatches, runVars, RunInv, Pending
<1>13. CASE Announce
  BY <1>12, <1>13 DEF Announce, Kinds
<1>14. CASE Replay
  BY <1>12, <1>14 DEF Replay
<1>15. CASE Completes
  BY <1>12, <1>15 DEF Completes, Kinds
<1>16. CASE ValidationFails
  BY <1>12, <1>16 DEF ValidationFails, Kinds
<1>17. CASE Exhausted
  BY <1>12, <1>17 DEF Exhausted, Kinds
<1>18. CASE RetryScheduled
  BY <1>12, <1>18 DEF RetryScheduled, Kinds
<1>19. CASE Retries
  BY <1>19 DEF Retries, NewRun, envVars, RunInv, Pending
<1>20. CASE LogicalEnds
  BY <1>1, <1>3, <1>20 DEF LogicalEnds, Finish, Deliver, runVars, bufVars, envVars, RunInv, Pending
<1>21. CASE Finalized
  BY <1>21 DEF Finalized, runVars, bufVars, envVars, RunInv, Pending
<1>22. ASSUME NEW why, StartCancelled(why)
       PROVE  StreamTypeOK' /\ RunInv' /\ Pending'
  <2>1. Raise(why) \in Items /\ cancels' \in Nat
    BY <1>1, <1>2, <1>22 DEF StartCancelled
  <2> QED BY <1>22, <2>1 DEF StartCancelled, Deliver, bufVars, RunInv, Pending
<1>23. ASSUME NEW why, PlainCancelled(why)
       PROVE  StreamTypeOK' /\ RunInv' /\ Pending'
  <2>1. Raise(why) \in Items /\ cancels' \in Nat
    BY <1>1, <1>2, <1>23 DEF PlainCancelled
  <2>2. log' \in Seq(Kinds)
    BY <1>23, Appended DEF PlainCancelled, OnBus, Kinds
  <2> QED BY <1>3, <1>23, <2>1, <2>2 DEF PlainCancelled, RunCancelled, bufVars, resVars, RunInv, Pending
<1>24. ASSUME NEW why, CollectCancelled(why)
       PROVE  StreamTypeOK' /\ RunInv' /\ Pending'
  <2>1. Raise(why) \in Items /\ cancels' \in Nat
    BY <1>1, <1>2, <1>24 DEF CollectCancelled
  <2> QED BY <1>3, <1>24, <2>1
     DEF CollectCancelled, RunCancelled, Finish, Deliver, bufVars, resVars, RunInv, Pending
<1>25. ASSUME NEW why, LogicalCancelled(why)
       PROVE  StreamTypeOK' /\ RunInv' /\ Pending'
  <2>1. Raise(why) \in Items /\ cancels' \in Nat
    BY <1>1, <1>2, <1>25 DEF LogicalCancelled
  <2> QED BY <1>25, <2>1 DEF LogicalCancelled, Finish, Deliver, bufVars, RunInv, Pending
<1>26. CASE Asked
  BY <1>26 DEF Asked, Ask, runVars, envVars, RunInv, Pending
<1>27. CASE CloseStream
  <2>1. UNCHANGED <<at, status, mode, lpc, attempt, spent, buffer, turns, cancels, log>>
    BY <1>27 DEF CloseStream, runVars, bufVars, envVars
  <2>2. CASE Structured
    BY <1>27, <2>1, <2>2 DEF CloseStream, RunInv, Pending
  <2>3. CASE ~Structured
    <3>1. item' = End /\ frame' \in {"cleanup", "consumer"} /\ live' \in BOOLEAN
      BY <1>27, <2>3 DEF CloseStream, Finish, Deliver, resVars
    <3> QED BY <1>1, <1>3, <2>1, <3>1 DEF RunInv, Pending
  <2> QED BY <2>2, <2>3
<1>28. CASE Elsewhere
  BY <1>28 DEF Elsewhere, runVars, bufVars, resVars, RunInv, Pending
<1>29. ASSUME NEW why, CleanupCancelled(why)
       PROVE  StreamTypeOK' /\ RunInv' /\ Pending'
  <2>1. Raise(why) \in Items /\ Raise("cancelled") \in Items /\ cancels' \in Nat
    BY <1>1, <1>2, <1>29 DEF CleanupCancelled
  <2>2. item' \in Items /\ item'.type # "yield" /\ frame' \in {"handling", "consumer"} /\ live' \in BOOLEAN
    BY <1>3, <1>29, <2>1 DEF CleanupCancelled, CutShort, Deliver, Pending
  <2> QED BY <1>29, <2>1, <2>2 DEF CleanupCancelled, runVars, bufVars, RunInv, Pending
<1> QED
  BY <1>4, <1>5, <1>6, <1>7, <1>8, <1>9, <1>10, <1>11, <1>13, <1>14, <1>15, <1>16, <1>17, <1>18,
     <1>19, <1>20, <1>21, <1>22, <1>23, <1>24, <1>25, <1>26, <1>27, <1>28, <1>29
  DEF StreamMoves, StreamStep

-----------------------------------------------------------------------------
(* The plain stream                                                        *)

LEMMA Completed ==
    ASSUME log \in Seq(Kinds), NEW kind \in Kinds, OnBus(kind)
    PROVE  /\ Completions' = IF kind = "invocation_completed" THEN Completions \cup {Len(log')}
                              ELSE Completions
           /\ Len(log') \notin Completions /\ Len(log') \in DOMAIN log'
           /\ DOMAIN log \subseteq DOMAIN log' /\ log' # << >> /\ LastOf(log') = kind
           /\ \A n \in DOMAIN log' : (n = Len(log') /\ log'[n] = kind) \/ (n \in DOMAIN log /\ log'[n] = log[n])
           /\ \A n \in DOMAIN log : log'[n] = log[n]
           /\ \A n \in DOMAIN log' : ~(n > Len(log'))
<1>1. /\ Len(log') = Len(log) + 1 /\ Len(log) \in Nat
      /\ DOMAIN log = 1..Len(log) /\ DOMAIN log' = 1..(Len(log) + 1)
      /\ \A n \in DOMAIN log : log'[n] = log[n]
      /\ log'[Len(log) + 1] = kind /\ log' # << >> /\ LastOf(log') = kind
  BY Appended DEF OnBus
<1>2. \A n \in DOMAIN log' : (n = Len(log') /\ log'[n] = kind) \/ (n \in DOMAIN log /\ log'[n] = log[n])
  <2> DEFINE l == log'
  <2>1. /\ Len(l) = Len(log) + 1 /\ Len(log) \in Nat
        /\ DOMAIN log = 1..Len(log) /\ DOMAIN l = 1..(Len(log) + 1)
        /\ \A n \in DOMAIN log : l[n] = log[n]
        /\ l[Len(log) + 1] = kind
    BY <1>1
  <2> HIDE DEF l
  <2>2. \A n \in DOMAIN l : (n = Len(l) /\ l[n] = kind) \/ (n \in DOMAIN log /\ l[n] = log[n])
    BY <2>1
  <2> QED BY <2>2 DEF l
<1>3. /\ Len(log') \in DOMAIN log' /\ Len(log') \notin DOMAIN log /\ DOMAIN log \subseteq DOMAIN log'
      /\ \A n \in DOMAIN log' : ~(n > Len(log'))
  BY <1>1
<1>4. Completions' = IF kind = "invocation_completed" THEN Completions \cup {Len(log')} ELSE Completions
  BY <1>1, <1>2, <1>3 DEF Completions
<1> QED BY <1>1, <1>2, <1>3, <1>4 DEF Completions

(* The log and what the node has taken do not change.                      *)
LEMMA Quiet ==
    ASSUME PlainInv, UNCHANGED log, ~Suspended, ~Suspended', frame' \notin {"logical", "idle"},
           frame' = "start" => frame \in {"idle", "start"}, at' = "done" => at = "done",
           Reading' => Reading, frame' = "start" => UNCHANGED at,
           npc' \in {"begin", "resuming", "consuming"} =>
               npc \in {"begin", "resuming", "consuming"} /\ UNCHANGED got
    PROVE  PlainInv'
<1>1. Completions' = Completions
  BY DEF Completions
<1>2. TakenCompletions' = TakenCompletions
  BY <1>1 DEF TakenCompletions
<1>3. frame' \in {"idle", "start"} => at' = "none" /\ log' = << >>
  BY DEF PlainInv
<1>4. Reading' => OnlyCompletions'
  BY DEF PlainInv, OnlyCompletions
<1>5. at' = "done" => Completing'
  BY DEF PlainInv, Completing
<1>6. Reading' /\ npc' \in {"begin", "resuming", "consuming"} => Taken'
  BY <1>2 DEF PlainInv, Taken
<1> QED BY <1>3, <1>4, <1>5, <1>6 DEF PlainInv

(* Nothing that the plain invariant speaks of changes.                     *)
LEMMA Same ==
    ASSUME PlainInv, UNCHANGED <<at, frame, item, log, npc, got>>
    PROVE  PlainInv'
<1>1. Completions' = Completions /\ (Suspended' <=> Suspended) /\ (Reading' <=> Reading)
  BY DEF Completions, Suspended, Reading
<1>2. TakenCompletions' = TakenCompletions
  BY <1>1 DEF TakenCompletions
<1>3. (Taken' <=> Taken) /\ (OnlyCompletions' <=> OnlyCompletions) /\ (Completing' <=> Completing)
  BY <1>2 DEF Taken, OnlyCompletions, Completing
<1> QED BY <1>1, <1>3 DEF PlainInv, LastOf

LEMMA PlainResumed ==
    ASSUME TypeOK, RunInv, ~Structured, PlainInv, PlainStep, UNCHANGED nodeVars
    PROVE  PlainInv'
<1>1. PICK out \in Outs :
         /\ RunStep(out)
         /\ IF out.type \in {"yield", "lost"} THEN OnBus(out.what) ELSE UNCHANGED log
         /\ \/ out.type = "yield" /\ Deliver(out) /\ UNCHANGED resVars
            \/ out.type \in {"lost", "quiet"} /\ UNCHANGED <<frame, item, resVars>>
            \/ /\ out.type \in {"raise", "end"}
               /\ IF status = None
                  THEN frame' = "cleanup" /\ item' = out /\ UNCHANGED resVars
                  ELSE Finish(out)
  BY DEF PlainStep
<1>2. /\ out.type \in {"yield", "lost", "quiet", "raise", "end"}
      /\ at' \in {"started", "streaming", "ended", "done", "interrupted", "failed", "reporting",
                  "raising", "over"}
      /\ out.type \in {"yield", "lost"} => out.what \in Kinds
      /\ at' = "over" <=> out.type \in {"raise", "end"}
      /\ out.type \in {"lost", "quiet"} => at' \in {"reporting", "raising"}
      /\ at' = "started" => at = "new" /\ out.type = "yield"
      /\ out.type = "yield" => (out.what = "invocation_started" <=> at = "new")
      /\ at' = "done" => \/ out.what = "invocation_completed"
                         \/ at = "done" /\ out.what \in Late
      /\ at' \in {"streaming", "ended", "done", "interrupted"} =>
            /\ at \in {"started", "streaming", "ended", "done"}
            /\ out.what \notin Ends \ {"invocation_completed"}
  BY <1>1, RunSteps
<1>3. frame = "run" /\ ~Suspended /\ log \in Seq(Kinds) /\ UNCHANGED <<npc, got>>
  BY DEF PlainStep, Suspended, TypeOK, StreamTypeOK, nodeVars
<1>4. CASE out.type = "yield"
  <2>1. frame' = "consumer" /\ item' = out /\ OnBus(out.what) /\ Suspended'
    BY <1>1, <1>4 DEF Deliver, Suspended
  <2>2. /\ Completions' \ {Len(log')} = Completions
        /\ DOMAIN log \subseteq DOMAIN log' /\ log' # << >> /\ LastOf(log') = out.what
        /\ \A n \in DOMAIN log' :
              (n = Len(log') /\ log'[n] = out.what) \/ (n \in DOMAIN log /\ log'[n] = log[n])
        /\ Len(log') \in DOMAIN log' /\ \A n \in DOMAIN log : log'[n] = log[n]
        /\ \A n \in DOMAIN log' : ~(n > Len(log'))
    BY <1>2, <1>3, <1>4, <2>1, Completed
  <2>3. TakenCompletions' = TakenCompletions
    BY <1>3, <2>1, <2>2 DEF TakenCompletions
  <2>4. ASSUME Reading'
        PROVE  Reading /\ out.what \notin Ends \ {"invocation_completed"}
    <3>1. at' \in {"started", "streaming", "ended", "done"}
      BY <1>2, <2>4 DEF Reading
    <3> QED BY <1>2, <1>4, <3>1 DEF Reading, Ends
  <2>5. Reading' => OnlyCompletions'
    BY <2>2, <2>4 DEF PlainInv, OnlyCompletions
  <2>6. Reading' /\ npc \in {"begin", "resuming", "consuming"} => Taken'
    BY <1>3, <2>2, <2>3, <2>4 DEF PlainInv, Taken
  <2>7. ASSUME at' = "done"
        PROVE  Completing'
    <3>1. CASE out.what = "invocation_completed"
      BY <2>2, <3>1 DEF Completing, LastOf
    <3>2. CASE at = "done" /\ out.what \in Late
      <4>1. PICK n \in DOMAIN log : /\ log[n] = "invocation_completed"
                                    /\ \A m \in DOMAIN log : m > n => log[m] \in Late
        BY <3>2 DEF PlainInv, Completing
      <4>2. n \in DOMAIN log' /\ log'[n] = "invocation_completed"
        BY <2>2, <4>1
      <4>3. \A m \in DOMAIN log' : m > n => log'[m] \in Late
        BY <2>2, <3>2, <4>1
      <4> QED BY <4>2, <4>3 DEF Completing
    <3> QED BY <1>2, <2>7, <3>1, <3>2
  <2> QED BY <1>3, <2>1, <2>2, <2>5, <2>6, <2>7 DEF PlainInv
<1>5. CASE out.type \in {"lost", "quiet"}
  <2>1. UNCHANGED frame /\ ~Reading' /\ at' # "done"
    BY <1>1, <1>2, <1>5 DEF Reading
  <2> QED BY <1>3, <2>1 DEF PlainInv, Suspended
<1>6. CASE out.type \in {"raise", "end"}
  <2>1. UNCHANGED log /\ frame' \in {"cleanup", "consumer"} /\ item' = out
    BY <1>1, <1>6 DEF Finish, Deliver
  <2>2. ~Suspended' /\ ~Reading' /\ at' # "done"
    BY <1>2, <1>6, <2>1 DEF Suspended, Reading
  <2> QED BY <1>3, <2>1, <2>2, Quiet
<1> QED BY <1>2, <1>4, <1>5, <1>6

LEMMA PlainStreamStep ==
    ASSUME TypeOK, RunInv, Pending, ~Structured, PlainInv, StreamStep, UNCHANGED nodeVars
    PROVE  PlainInv'
<1>1. UNCHANGED <<npc, got>> /\ frame # "logical"
  BY DEF nodeVars, PlainInv
<1>2. CASE PlainStep
  BY <1>2, PlainResumed
<1>3. ASSUME NEW why, PlainCancelled(why)
      PROVE  PlainInv'
  <2>1. frame' = "handling" /\ at' = "over"
    BY <1>3 DEF PlainCancelled, RunCancelled
  <2> QED BY <1>1, <2>1 DEF PlainInv, Suspended, Reading
<1>4. CASE Finalized
  <2>1. UNCHANGED <<at, frame, item, log>>
    BY <1>4 DEF Finalized, runVars
  <2> QED BY <1>1, <2>1, Same
<1>5. CASE Started
  <2>1. /\ frame = "start" /\ frame' \in {"run", "logical"} /\ at' = "new" /\ UNCHANGED log
    BY <1>5 DEF Started, NewRun
  <2>2. Reading /\ frame' = "run"
    BY <1>5, <2>1 DEF PlainInv, Reading, Started
  <2> QED BY <1>1, <2>1, <2>2, Quiet DEF Suspended
<1>6. CASE StartFails \/ HandledFinishes \/ CleanedUp \/ CleanupRaises
  <2>1. /\ frame \in {"start", "finish", "cleanup"} /\ frame' = "consumer"
        /\ UNCHANGED <<at, log>> /\ item'.type # "yield"
    BY <1>6 DEF StartFails, HandledFinishes, CleanedUp, CleanupRaises, CutShort, Finish, Deliver,
                InterruptOrInvalidate, InvalidateRaises, runVars, Raise, Pending
  <2> QED BY <1>1, <2>1, Quiet DEF Suspended, Reading
<1>7. CASE Handled
  <2>1. frame = "handling" /\ frame' \in {"finish", "cleanup"} /\ UNCHANGED <<at, log>>
    BY <1>7 DEF Handled, InterruptOrInvalidate, InvalidateRaises, runVars
  <2> QED BY <1>1, <2>1, Quiet DEF Suspended, Reading
<1>8. ASSUME NEW why, CleanupCancelled(why) \/ StartCancelled(why)
      PROVE  PlainInv'
  <2>1. /\ frame \in {"start", "cleanup"} /\ frame' = "consumer"
        /\ UNCHANGED <<at, log>> /\ item'.type # "yield"
    BY <1>8 DEF StartCancelled, CleanupCancelled, CutShort, Deliver, runVars, Raise
  <2> QED BY <1>1, <2>1, Quiet DEF Suspended, Reading
<1>9. /\ ~Collect /\ ~Announce /\ ~Replay /\ ~Completes /\ ~ValidationFails /\ ~Exhausted
      /\ ~RetryScheduled /\ ~Retries /\ ~LogicalEnds
      /\ \A why : ~CollectCancelled(why) /\ ~LogicalCancelled(why)
  BY <1>1 DEF Collect, Announce, Replay, Completes, ValidationFails, Exhausted, RetryScheduled,
              Dispatches, Retries, LogicalEnds, CollectCancelled, LogicalCancelled
<1> QED BY <1>2, <1>3, <1>4, <1>5, <1>6, <1>7, <1>8, <1>9 DEF StreamStep

(* The node asks for the next item, having taken the last.                 *)
LEMMA PlainAsked ==
    ASSUME TypeOK, ~Structured, PlainInv, Ask, npc' = "consuming",
           \/ frame = "idle" /\ npc \in {"begin", "resuming"} /\ UNCHANGED got
           \/ /\ Suspended /\ npc = "consuming" /\ ~SecondCompletion(item.what)
              /\ got' = (got \/ item.what = "invocation_completed")
    PROVE  PlainInv'
<1>1. /\ UNCHANGED <<at, item, log>>
      /\ frame' = IF frame = "idle" THEN "start" ELSE "run"
  BY DEF Ask, runVars
<1>2. CASE frame = "idle"
  BY <1>1, <1>2, Quiet DEF Suspended, Reading
<1>3. CASE frame # "idle"
  <2>1. /\ Suspended /\ npc = "consuming" /\ ~SecondCompletion(item.what)
        /\ got' = (got \/ item.what = "invocation_completed")
    BY <1>3
  <2>2. log # << >> /\ item.what = LastOf(log) /\ log \in Seq(Kinds)
    BY <2>1 DEF PlainInv, TypeOK, StreamTypeOK
  <2>3. Len(log) \in DOMAIN log
    BY <2>2
  <2>4. Completions' = Completions /\ TakenCompletions' = Completions
    BY <1>1, <1>3 DEF Completions, TakenCompletions, Suspended
  <2>5. Completions = IF item.what = "invocation_completed" THEN TakenCompletions \cup {Len(log)}
                      ELSE TakenCompletions
    BY <2>1, <2>2, <2>3 DEF Completions, TakenCompletions, LastOf
  <2>6. Reading => Taken
    BY <2>1 DEF PlainInv
  <2>7. ASSUME Reading
        PROVE  Taken'
    <3>1. CASE item.what = "invocation_completed"
      BY <1>1, <2>1, <2>3, <2>4, <2>5, <2>6, <2>7, <3>1 DEF SecondCompletion, Taken
    <3>2. CASE item.what # "invocation_completed"
      BY <1>1, <2>1, <2>4, <2>5, <2>6, <2>7, <3>2 DEF TypeOK, Taken
    <3> QED BY <3>1, <3>2
  <2>8. frame' = "run" /\ ~Suspended' /\ (Reading' <=> Reading)
    BY <1>1, <1>3 DEF Suspended, Reading
  <2>9. (OnlyCompletions' <=> OnlyCompletions) /\ (Completing' <=> Completing)
    BY <1>1 DEF OnlyCompletions, Completing
  <2> QED BY <1>1, <2>7, <2>8, <2>9 DEF PlainInv
<1> QED BY <1>2, <1>3

(* The node leaves.                                                        *)
LEMMA PlainLeaves ==
    ASSUME PlainInv, npc' \in Leaving, UNCHANGED <<at, log>>,
           UNCHANGED <<frame, item>> \/ (frame' \in {"cleanup", "consumer"} /\ item'.type # "yield")
    PROVE  PlainInv'
<1>1. /\ Reading' <=> Reading
      /\ OnlyCompletions' <=> OnlyCompletions
      /\ Completing' <=> Completing
  BY DEF Reading, OnlyCompletions, Completing
<1> QED BY <1>1 DEF PlainInv, Leaving, Suspended, LastOf

-----------------------------------------------------------------------------
(* The node                                                                *)

(* A plain stream ends after a completion, and a structured one after the  *)
(* completion of the logical invocation, with every usage counted.         *)
LEMMA EndIsGenuine ==
    ASSUME TypeOK, RunInv, Structured => StructuredInv, ~Structured => PlainInv, npc = "consuming",
           \/ ~Structured /\ frame = "run" /\ at = "done"
           \/ Structured /\ frame = "logical" /\ lpc = "completed"
    PROVE  Genuine
<1> log \in Seq(Kinds)
  BY DEF TypeOK, StreamTypeOK
<1>1. CASE Structured
  <2>1. Between /\ LogInv
    BY <1>1 DEF StructuredInv
  <2>2. /\ log # << >> /\ LastOf(log) = "invocation_completed"
        /\ spent = turns /\ turns = attempt
    BY <1>1, <2>1 DEF Between
  <2>3. Len(log) \in DOMAIN log
    BY <2>2
  <2>4. \A n \in DOMAIN log : log[n] \in Ends => n = Len(log)
    BY <2>1 DEF LogInv
  <2>5. Completions = {Len(log)}
    BY <2>2, <2>3, <2>4 DEF Completions, LastOf, Ends
  <2>6. \A n \in DOMAIN log : ~(n > Len(log))
    OBVIOUS
  <2>7. CompletedAt(Len(log))
    BY <2>2, <2>4, <2>5, <2>6 DEF CompletedAt
  <2> QED BY <2>3, <2>7 DEF Genuine
<1>2. CASE ~Structured
  <2>1. Completing /\ OnlyCompletions /\ Taken
    BY <1>2 DEF PlainInv, Reading
  <2>2. TakenCompletions = Completions
    BY <1>2 DEF TakenCompletions, Suspended
  <2>3. PICK n \in DOMAIN log : /\ log[n] = "invocation_completed"
                                /\ \A m \in DOMAIN log : m > n => log[m] \in Late
    BY <2>1 DEF Completing
  <2>4. n \in Completions
    BY <2>3 DEF Completions
  <2>5. Completions = {n}
    BY <2>1, <2>2, <2>4 DEF Taken
  <2>6. \A m \in DOMAIN log : log[m] \in Ends => m = n
    BY <2>1, <2>5 DEF OnlyCompletions, Completions
  <2>7. CompletedAt(n)
    BY <1>2, <2>3, <2>5, <2>6 DEF CompletedAt
  <2> QED BY <2>7 DEF Genuine
<1> QED BY <1>1, <1>2

LEMMA SameGenuine ==
    ASSUME UNCHANGED <<log, mode, spent, turns, attempt>>
    PROVE  Genuine' <=> Genuine
BY DEF Genuine, CompletedAt, Completions, Structured

(* While the node consumes: a step of the stream ends it genuinely, and    *)
(* nothing that was cancelled comes back as anything but an error.         *)
LEMMA Consumes ==
    ASSUME TypeOK, RunInv, Structured => StructuredInv, ~Structured => PlainInv, NodeInv,
           npc = "consuming", frame \notin {"idle", "consumer"}, StreamStep, ~Finalized
    PROVE  /\ frame' \in {"handling", "finish", "cleanup"} => item'.type = "raise"
           /\ cancels' > 0 => item'.type = "raise" /\ frame' \in {"handling", "finish", "cleanup", "consumer"}
           /\ frame' = "consumer" /\ item'.type = "end" => Genuine' /\ ~live'
<1>1. /\ frame \in {"handling", "finish", "cleanup"} => item.type = "raise"
      /\ cancels > 0 => item.type = "raise" /\ frame \in {"handling", "finish", "cleanup"}
      /\ cancels \in Nat
  BY DEF NodeInv, TypeOK, StreamTypeOK
<1>2. \A error : Raise(error).type = "raise"
  BY DEF Raise
<1>3. CASE Started
  BY <1>1, <1>3 DEF Started, envVars
<1>4. CASE StartFails
  BY <1>1, <1>2, <1>4 DEF StartFails, Finish, Deliver, envVars
<1>5. CASE PlainStep
  <2>1. PICK out \in Outs :
         /\ RunStep(out)
         /\ IF out.type \in {"yield", "lost"} THEN OnBus(out.what) ELSE UNCHANGED log
         /\ \/ out.type = "yield" /\ Deliver(out) /\ UNCHANGED resVars
            \/ out.type \in {"lost", "quiet"} /\ UNCHANGED <<frame, item, resVars>>
            \/ /\ out.type \in {"raise", "end"}
               /\ IF status = None
                  THEN frame' = "cleanup" /\ item' = out /\ UNCHANGED resVars
                  ELSE Finish(out)
    BY <1>5 DEF PlainStep
  <2>2. /\ frame = "run" /\ ~Structured /\ UNCHANGED <<mode, cancels>>
    BY <1>5 DEF PlainStep, envVars
  <2>3. /\ out.type \in {"yield", "lost", "quiet", "raise", "end"}
        /\ out.type = "end" => out = End /\ at = "done" /\ status = "completed"
        /\ out.type = "raise" => out = Raise("provider")
    BY <2>1, RunSteps
  <2>4. \/ out.type \in {"lost", "quiet"} /\ UNCHANGED frame
        \/ item' = out /\ frame' \in {"consumer", "cleanup"}
    BY <2>1 DEF Deliver, Finish
  <2>5. ~(cancels' > 0)
    BY <1>1, <2>2
  <2>6. CASE out.type = "yield"
    <3>1. frame' = "consumer"
      BY <2>1, <2>6 DEF Deliver
    <3> QED BY <2>4, <2>5, <2>6, <3>1
  <2>7. CASE out.type = "raise"
    BY <2>4, <2>5, <2>7
  <2>8. CASE out.type \in {"lost", "quiet"}
    <3>1. frame' = "run"
      BY <2>1, <2>2, <2>8
    <3> QED BY <2>5, <3>1
  <2>9. CASE out.type = "end"
    <3>1. status # None
      BY <2>3, <2>9, NodeAssumption
    <3>2. frame' = "consumer" /\ live' = FALSE /\ UNCHANGED log
      BY <2>1, <2>9, <3>1 DEF Finish, Deliver
    <3>3. Genuine
      BY <2>2, <2>3, <2>9, EndIsGenuine
    <3>4. Genuine'
      <4>1. UNCHANGED <<log, mode, spent, turns, attempt>>
        BY <1>5, <3>2 DEF PlainStep, bufVars
      <4> QED BY <3>3, <4>1, SameGenuine
    <3> QED BY <2>5, <3>2, <3>4
  <2> QED BY <2>3, <2>6, <2>7, <2>8, <2>9
<1>6. CASE Handled
  BY <1>1, <1>2, <1>6 DEF Handled
<1>7. CASE HandledFinishes
  BY <1>1, <1>7 DEF HandledFinishes, Finish, Deliver, envVars
<1>8. CASE CleanedUp
  BY <1>1, <1>8 DEF CleanedUp, Finish, Deliver, envVars
<1>9. CASE CleanupRaises
  BY <1>2, <1>9 DEF CleanupRaises, CutShort, Finish, Deliver
<1>10. CASE Collect
  <2>1. PICK out \in Outs :
         \/ out.type \in {"yield", "quiet"} /\ UNCHANGED frame
         \/ /\ out.type = "raise" /\ item' = out /\ frame' \in {"cleanup", "consumer"}
         \/ frame' = "logical"
    BY <1>10 DEF Collect, Finish, Deliver
  <2>2. frame = "run" /\ ~(cancels' > 0)
    BY <1>1, <1>10 DEF Collect, envVars
  <2> QED BY <2>1, <2>2
<1>11. CASE Announce \/ Replay \/ Completes \/ ValidationFails \/ Exhausted \/ RetryScheduled
  <2>1. /\ frame = "logical" /\ frame' = "consumer"
        /\ (item'.type = "yield" /\ UNCHANGED cancels) \/ item'.type = "raise"
    BY <1>11 DEF Announce, Replay, Completes, ValidationFails, Exhausted, RetryScheduled,
                 Dispatches, Finish, Deliver, Yield, Raise
  <2> QED BY <1>1, <2>1
<1>12. CASE Retries
  BY <1>1, <1>12 DEF Retries, envVars
<1>13. CASE LogicalEnds
  <2>1. /\ frame = "logical" /\ frame' = "consumer" /\ live' = FALSE
        /\ lpc = "completed" \/ item'.type = "raise"
        /\ UNCHANGED <<log, mode, cancels, spent, turns, attempt>>
    BY <1>13 DEF LogicalEnds, Finish, Deliver, Raise, bufVars, envVars
  <2>2. ~(cancels' > 0)
    BY <1>1, <2>1
  <2>3. Structured
    BY <2>1 DEF PlainInv
  <2>4. lpc = "completed" => Genuine
    BY <2>1, <2>3, EndIsGenuine
  <2>5. Genuine => Genuine'
    BY <2>1, SameGenuine
  <2> QED BY <2>1, <2>2, <2>4, <2>5
<1>14. ASSUME NEW why, \/ StartCancelled(why) \/ PlainCancelled(why)
                       \/ CollectCancelled(why) \/ LogicalCancelled(why) \/ CleanupCancelled(why)
       PROVE  item'.type = "raise" /\ frame' \in {"handling", "cleanup", "consumer"}
  BY <1>2, <1>14
  DEF StartCancelled, PlainCancelled, CollectCancelled, LogicalCancelled, CleanupCancelled, CutShort,
      Finish, Deliver
<1> QED
  BY <1>3, <1>4, <1>5, <1>6, <1>7, <1>8, <1>9, <1>10, <1>11, <1>12, <1>13, <1>14 DEF StreamStep

(* The stream runs only where the node waits for it, or in its finally     *)
(* clause after a failure.                                                 *)
LEMMA NodeStreamStep ==
    ASSUME TypeOK, RunInv, Structured => StructuredInv, ~Structured => PlainInv, NodeInv,
           StreamStep, UNCHANGED nodeVars
    PROVE  NodeInv'
<1>1. UNCHANGED <<npc, got, failure, cleanupError>>
  BY DEF nodeVars
<1>2. CASE Finalized
  <2>1. UNCHANGED <<frame, item, live, cancels, log, mode, spent, turns, attempt>>
    BY <1>2 DEF Finalized, bufVars, envVars
  <2>2. Genuine' <=> Genuine
    BY <2>1, SameGenuine
  <2> QED BY <1>1, <2>1, <2>2 DEF NodeInv
<1>3. CASE ~Finalized
  <2>1. frame \notin {"idle", "consumer"}
    BY <1>3
    DEF StreamStep, Started, StartFails, PlainStep, Handled, HandledFinishes, CleanedUp,
        CleanupRaises, CleanupCancelled, Collect, Announce, Replay, Completes, ValidationFails, Exhausted,
        RetryScheduled, Dispatches, Retries, LogicalEnds, StartCancelled, PlainCancelled,
        CollectCancelled, LogicalCancelled
  <2>2. CASE npc = "consuming"
    <3>1. /\ frame' \in {"handling", "finish", "cleanup"} => item'.type = "raise"
          /\ cancels' > 0 => item'.type = "raise" /\ frame' \in {"handling", "finish", "cleanup", "consumer"}
          /\ frame' = "consumer" /\ item'.type = "end" => Genuine' /\ ~live'
      BY <1>3, <2>1, <2>2, Consumes
    <3> QED BY <1>1, <2>2, <3>1 DEF NodeInv, Leaving
  <2>3. CASE npc # "consuming"
    <3>1. npc \in Leaving /\ failure # None
      BY <2>1, <2>3 DEF NodeInv, TypeOK, Leaving
    <3> QED BY <1>1, <3>1 DEF NodeInv, Leaving
  <2> QED BY <2>2, <2>3
<1> QED BY <1>2, <1>3

LEMMA SameMode ==
    ASSUME StreamMoves
    PROVE  mode' = mode
BY DEF StreamMoves, StreamStep, Started, StartFails, PlainStep, Handled, HandledFinishes, CleanedUp,
       CleanupRaises, CleanupCancelled, Collect, Announce, Replay, Completes, ValidationFails, Exhausted,
       RetryScheduled, Dispatches, Retries, LogicalEnds, Finalized, StartCancelled, PlainCancelled,
       CollectCancelled, LogicalCancelled, Asked, Ask, CloseStream, Elsewhere

(* What remains to be shown of a step of the node.                         *)
NodeTypeOK ==
    /\ got \in BOOLEAN
    /\ npc \in {"begin", "resuming", "consuming", "closing", "closing_session", "done"}
    /\ failure \in Errors \cup {None} /\ cleanupError \in {None, "close", "cancelled"}

LEMMA Composed ==
    ASSUME IInv, StreamMoves, NodeTypeOK', ~Structured => PlainInv', NodeInv'
    PROVE  IInv'
<1>1. StreamTypeOK' /\ RunInv' /\ Pending'
  BY StreamTypes DEF IInv
<1>2. TypeOK'
  BY <1>1 DEF TypeOK, NodeTypeOK
<1>3. Structured' <=> Structured
  BY SameMode DEF Structured
<1>4. Structured => StructuredInv'
  BY StructuredStep DEF IInv
<1> QED BY <1>1, <1>2, <1>3, <1>4 DEF IInv

(* The stream does not move.                                               *)
Still == UNCHANGED streamVars

LEMMA StillFacts ==
    ASSUME IInv, Still
    PROVE  /\ StreamMoves /\ (Genuine' <=> Genuine)
           /\ UNCHANGED <<frame, item, live, cancels, at, log, turns, attempt, spent, mode>>
<1>1. UNCHANGED <<runVars, mode, frame, item, bufVars, log, resVars, abandoned, envVars, turns>>
  BY DEF Still, streamVars
<1>2. UNCHANGED <<frame, item, live, cancels, cutCleanup, at, log, turns, attempt, spent, mode>>
  BY <1>1 DEF runVars, bufVars, resVars, envVars
<1>3. cancels' \in Nat
  BY <1>2 DEF IInv, TypeOK, StreamTypeOK
<1>4. StreamMoves
  BY <1>1, <1>2, <1>3 DEF StreamMoves, Elsewhere
<1> QED BY <1>2, <1>4, SameGenuine

(* The node goes on to resume its session.                                 *)
LEMMA Begun ==
    ASSUME PlainInv, UNCHANGED <<at, frame, item, log, got>>, frame = "idle", npc = "begin", npc' = "resuming"
    PROVE  PlainInv'
<1>1. /\ Reading /\ Reading' /\ ~Suspended /\ ~Suspended' /\ Completions' = Completions
      /\ at' # "done"
  BY DEF PlainInv, Reading, Suspended, Completions
<1>2. TakenCompletions' = TakenCompletions
  BY <1>1 DEF TakenCompletions
<1>3. Taken'
  BY <1>1, <1>2 DEF PlainInv, Taken
<1> QED BY <1>1, <1>3 DEF PlainInv, OnlyCompletions

LEMMA BeginsStep ==
    ASSUME IInv, NodeBegins
    PROVE  IInv'
<1>1. /\ npc = "begin" /\ UNCHANGED <<got, failure, cleanupError>>
      /\ frame = "idle" /\ ~got /\ cancels = 0 /\ failure = None /\ cleanupError = None
  BY DEF NodeBegins, IInv, NodeInv, Leaving
<1>2. CASE mode = "session"
  <2>1. npc' = "resuming" /\ Still
    BY <1>2 DEF NodeBegins, Still
  <2>2. ~Structured => PlainInv'
    BY <1>1, <2>1, StillFacts, Begun DEF IInv
  <2>3. NodeInv'
    BY <1>1, <2>1, StillFacts DEF NodeInv, Leaving
  <2>4. NodeTypeOK'
    BY <1>1, <2>1 DEF NodeTypeOK, IInv, TypeOK
  <2> QED BY <2>1, <2>2, <2>3, <2>4, StillFacts, Composed
<1>3. CASE mode # "session"
  <2>1. npc' = "consuming" /\ Ask
    BY <1>3 DEF NodeBegins
  <2>2. StreamMoves
    BY <1>1, <2>1 DEF StreamMoves, Asked
  <2>3. ~Structured => PlainInv'
    BY <1>1, <2>1, PlainAsked DEF IInv
  <2>4. NodeInv'
    <3>1. frame' = "start" /\ UNCHANGED cancels
      BY <1>1, <2>1 DEF Ask, envVars
    <3> QED BY <1>1, <2>1, <3>1 DEF NodeInv, Leaving
  <2>5. NodeTypeOK'
    BY <1>1, <2>1 DEF NodeTypeOK, IInv, TypeOK
  <2> QED BY <2>2, <2>3, <2>4, <2>5, Composed
<1> QED BY <1>2, <1>3

LEMMA RefusesStep ==
    ASSUME IInv, NodeRefuses
    PROVE  IInv'
<1>1. /\ npc = "begin" /\ npc' = "closing" /\ failure' = "config" /\ Still
      /\ UNCHANGED <<got, cleanupError>>
  BY DEF NodeRefuses, Fails, Still
<1>2. ~Structured => PlainInv'
  BY <1>1, StillFacts, PlainLeaves DEF IInv, Leaving
<1>3. failure' # None /\ failure' \in Errors
  BY <1>1, NodeAssumption DEF Errors
<1>4. NodeInv'
  BY <1>1, <1>3 DEF NodeInv, Leaving
<1>5. NodeTypeOK'
  BY <1>1, <1>3 DEF NodeTypeOK, IInv, TypeOK
<1> QED BY <1>1, <1>2, <1>4, <1>5, StillFacts, Composed

LEMMA ResumedStep ==
    ASSUME IInv, Resumed
    PROVE  IInv'
<1>1. /\ npc = "resuming" /\ npc' = "consuming" /\ UNCHANGED <<got, failure, cleanupError>>
      /\ frame = "idle" /\ ~got /\ cancels = 0 /\ failure = None /\ cleanupError = None /\ Ask
  BY DEF Resumed, IInv, NodeInv, Leaving
<1>2. StreamMoves
  BY <1>1 DEF StreamMoves, Asked
<1>3. ~Structured => PlainInv'
  BY <1>1, PlainAsked DEF IInv
<1>4. frame' = "start" /\ UNCHANGED cancels
  BY <1>1 DEF Ask, envVars
<1>5. NodeInv'
  BY <1>1, <1>4 DEF NodeInv, Leaving
<1>6. NodeTypeOK'
  BY <1>1 DEF NodeTypeOK, IInv, TypeOK
<1> QED BY <1>2, <1>3, <1>5, <1>6, Composed

LEMMA ResumeFailsStep ==
    ASSUME IInv, ResumeFails
    PROVE  IInv'
<1>1. /\ npc = "resuming" /\ npc' = "closing" /\ failure' \in {"session", "cancelled"}
      /\ UNCHANGED <<got, cleanupError, frame, item, at, log>>
  BY DEF ResumeFails, Fails, runVars
<1>2. Elsewhere
  BY DEF ResumeFails, Elsewhere, Interrupted, IInv, TypeOK, StreamTypeOK
<1>3. StreamMoves
  BY <1>2 DEF StreamMoves
<1>4. ~Structured => PlainInv'
  BY <1>1, PlainLeaves DEF IInv, Leaving
<1>5. failure' # None /\ failure' \in Errors
  BY <1>1, NodeAssumption DEF Errors
<1>6. NodeInv'
  BY <1>1, <1>5 DEF NodeInv, Leaving
<1>7. NodeTypeOK'
  BY <1>1, <1>5 DEF NodeTypeOK, IInv, TypeOK
<1> QED BY <1>3, <1>4, <1>6, <1>7, Composed

LEMMA TakesStep ==
    ASSUME IInv, Takes
    PROVE  IInv'
<1>1. /\ npc = "consuming" /\ frame = "consumer" /\ item.type = "yield" /\ Suspended
      /\ UNCHANGED cleanupError /\ cleanupError = None /\ failure = None /\ ~(cancels > 0)
  BY DEF Takes, Suspended, IInv, NodeInv, Leaving
<1>2. CASE /\ ~SecondCompletion(item.what)
           /\ got' = (got \/ item.what = "invocation_completed")
           /\ Ask /\ UNCHANGED <<npc, failure>>
  <2>1. StreamMoves
    BY <1>1, <1>2 DEF StreamMoves, Asked
  <2>2. ~Structured => PlainInv'
    BY <1>1, <1>2, PlainAsked DEF IInv
  <2>3. frame' \in {"run", "logical"} /\ UNCHANGED cancels
    BY <1>1, <1>2 DEF Ask, envVars
  <2>4. NodeInv'
    BY <1>1, <1>2, <2>3 DEF NodeInv, Leaving
  <2>5. NodeTypeOK'
    BY <1>1, <1>2 DEF NodeTypeOK, IInv, TypeOK
  <2> QED BY <2>1, <2>2, <2>4, <2>5, Composed
<1>3. CASE npc' = "closing" /\ failure' \in {"multiple", "writer"} /\ UNCHANGED got /\ Still
  <2>1. ~Structured => PlainInv'
    BY <1>3, StillFacts, PlainLeaves DEF IInv, Leaving
  <2>2. failure' # None /\ failure' \in Errors
    BY <1>3, NodeAssumption DEF Errors
  <2>3. NodeInv'
    BY <1>3, <2>2 DEF NodeInv, Leaving
  <2>4. NodeTypeOK'
    BY <1>1, <1>3, <2>2 DEF NodeTypeOK, IInv, TypeOK
  <2> QED BY <1>3, <2>1, <2>3, <2>4, StillFacts, Composed
<1> QED BY <1>2, <1>3 DEF Takes, Fails, Still

LEMMA OverStep ==
    ASSUME IInv, StreamOver
    PROVE  IInv'
<1>1. /\ npc = "consuming" /\ frame = "consumer" /\ npc' = "closing" /\ Still
      /\ UNCHANGED <<got, cleanupError>> /\ cleanupError = None /\ cancels \in Nat
      /\ \/ item.type = "raise" /\ failure' = item.what
         \/ item = End /\ failure' \in {None, "mapper"}
  <2>1. /\ npc = "consuming" /\ frame = "consumer" /\ npc' = "closing" /\ UNCHANGED <<got, cleanupError>>
        /\ Still
        /\ \/ item.type = "raise" /\ failure' = item.what
           \/ item = End /\ failure' \in {None, "mapper"}
    BY DEF StreamOver, Fails, Still
  <2>2. cleanupError = None /\ cancels \in Nat
    BY <2>1 DEF IInv, NodeInv, Leaving, TypeOK, StreamTypeOK
  <2> QED BY <2>1, <2>2
<1>2. ~Structured => PlainInv'
  BY <1>1, StillFacts, PlainLeaves DEF IInv, Leaving
<1>3. CASE item.type = "raise" /\ failure' = item.what
  <2>1. failure' \in Errors /\ failure' # None
    <3>1. item \in Items
      BY DEF IInv, TypeOK, StreamTypeOK
    <3>2. item.what \in Errors
      BY <3>1, <1>3 DEF Items, End
    <3> QED BY <1>3, <3>2, NodeAssumption
  <2>2. NodeInv'
    BY <1>1, <2>1 DEF NodeInv, Leaving
  <2>3. NodeTypeOK'
    BY <1>1, <2>1 DEF NodeTypeOK, IInv, TypeOK
  <2> QED BY <1>1, <1>2, <2>2, <2>3, StillFacts, Composed
<1>4. CASE item = End /\ failure' \in {None, "mapper"}
  <2>1. item.type = "end"
    BY <1>4 DEF End
  <2>2. Genuine /\ ~live /\ cancels = 0
    BY <1>1, <2>1 DEF IInv, NodeInv
  <2>3. NodeInv'
    BY <1>1, <2>1, <2>2, StillFacts DEF NodeInv, Leaving
  <2>4. NodeTypeOK'
    BY <1>1, <1>4 DEF NodeTypeOK, IInv, TypeOK, Errors
  <2> QED BY <1>1, <1>2, <2>3, <2>4, StillFacts, Composed
<1> QED BY <1>1, <1>3, <1>4

LEMMA ClosesStreamStep ==
    ASSUME IInv, NodeClosesStream
    PROVE  IInv'
<1>1. npc = "closing" /\ npc' \in Leaving /\ UNCHANGED <<got, failure, cleanupError>>
  BY DEF NodeClosesStream, Leaving
<1>2. NodeTypeOK'
  BY <1>1 DEF NodeTypeOK, IInv, TypeOK, Leaving
<1>3. CASE live /\ CloseStream
  <2>1. StreamMoves
    BY <1>3 DEF StreamMoves
  <2>2. /\ UNCHANGED <<at, log>>
        /\ UNCHANGED <<frame, item>> \/ (frame' \in {"cleanup", "consumer"} /\ item'.type # "yield")
    BY <1>3 DEF CloseStream, Finish, Deliver, runVars, End
  <2>3. ~Structured => PlainInv'
    BY <1>1, <2>2, PlainLeaves DEF IInv
  <2>4. failure # None
    BY <1>1, <1>3 DEF IInv, NodeInv, Leaving
  <2>5. NodeInv'
    BY <1>1, <2>4 DEF NodeInv, Leaving
  <2> QED BY <1>2, <2>1, <2>3, <2>5, Composed
<1>4. CASE Still
  <2>1. ~Structured => PlainInv'
    BY <1>1, <1>4, StillFacts, PlainLeaves DEF IInv
  <2>2. NodeInv'
    BY <1>1, <1>4, StillFacts DEF IInv, NodeInv, Leaving
  <2> QED BY <1>2, <1>4, <2>1, <2>2, StillFacts, Composed
<1> QED BY <1>3, <1>4 DEF NodeClosesStream, Still

LEMMA ClosesSessionStep ==
    ASSUME IInv, NodeClosesSession
    PROVE  IInv'
<1>1. /\ npc = "closing_session" /\ npc' = "done"
      /\ UNCHANGED <<got, failure, frame, item, at, log, live, mode, spent, turns, attempt>>
  BY DEF NodeClosesSession, runVars, resVars, bufVars
<1>2. \/ UNCHANGED <<cleanupError, cancels>>
      \/ cleanupError' = Suppressed("close") /\ UNCHANGED cancels
      \/ cancels' \in Nat /\ cleanupError' = Suppressed("cancelled")
  BY DEF NodeClosesSession, Interrupted, IInv, TypeOK, StreamTypeOK
<1>3. /\ cleanupError' \in {None, "close", "cancelled"}
      /\ failure = None => UNCHANGED <<cleanupError, cancels>> \/ cleanupError' # None
  BY <1>2, NodeAssumption DEF Suppressed, IInv, TypeOK, Errors
<1>4. Elsewhere
  BY <1>2 DEF NodeClosesSession, Elsewhere, IInv, TypeOK, StreamTypeOK
<1>5. StreamMoves
  BY <1>4 DEF StreamMoves
<1>6. ~Structured => PlainInv'
  BY <1>1, PlainLeaves DEF IInv, Leaving
<1>7. Genuine' <=> Genuine
  BY <1>1, SameGenuine
<1>8. NodeInv'
  BY <1>1, <1>3, <1>7 DEF IInv, NodeInv, Leaving
<1>9. NodeTypeOK'
  BY <1>1, <1>3 DEF NodeTypeOK, IInv, TypeOK
<1> QED BY <1>5, <1>6, <1>8, <1>9, Composed

(* The node's view of the stream is an invariant, for every number of      *)
(* attempts, cancellations and notifications.                              *)
THEOREM NodeInvariance == Spec => []IInv
<1>1. Init => IInv
  <2> SUFFICES ASSUME Init
               PROVE  IInv
    OBVIOUS
  <2>1. TypeOK
    <3>1. End \in Items /\ << >> \in Seq(Kinds)
      BY DEF Items
    <3> QED BY <3>1 DEF Init, StreamInit, RunInit, TypeOK, StreamTypeOK
  <2>2. log = << >> /\ ~Suspended /\ Completions = {}
    BY DEF Init, StreamInit, Suspended, Completions
  <2>3. StructuredInv
    BY <2>2, StructuredAssumption DEF Init, StreamInit, StructuredInv, LogInv
  <2>4. PlainInv
    BY <2>2 DEF Init, StreamInit, RunInit, PlainInv, TakenCompletions, Taken, OnlyCompletions
  <2> QED BY <2>1, <2>3, <2>4 DEF Init, StreamInit, RunInit, IInv, RunInv, Pending, NodeInv, Leaving
<1>2. IInv /\ [Next]_vars => IInv'
  <2> SUFFICES ASSUME IInv, [Next]_vars
               PROVE  IInv'
    OBVIOUS
  <2>1. CASE StreamStep /\ UNCHANGED nodeVars
    <3>1. StreamMoves
      BY <2>1 DEF StreamMoves
    <3>2. ~Structured => PlainInv'
      BY <2>1, PlainStreamStep DEF IInv
    <3>3. NodeInv'
      BY <2>1, NodeStreamStep DEF IInv
    <3>4. NodeTypeOK'
      BY <2>1 DEF nodeVars, NodeTypeOK, IInv, TypeOK
    <3> QED BY <3>1, <3>2, <3>3, <3>4, Composed
  <2>2. CASE UNCHANGED vars
    <3>1. Still /\ UNCHANGED <<npc, got, failure, cleanupError>>
      BY <2>2 DEF vars, nodeVars, Still
    <3>2. NodeInv'
      BY <3>1, StillFacts DEF IInv, NodeInv
    <3>3. ~Structured => PlainInv'
      BY <3>1, StillFacts, Same DEF IInv
    <3>4. NodeTypeOK'
      BY <3>1 DEF NodeTypeOK, IInv, TypeOK
    <3> QED BY <3>1, <3>2, <3>3, <3>4, StillFacts, Composed
  <2> QED
    BY <2>1, <2>2, BeginsStep, RefusesStep, ResumedStep, ResumeFailsStep, TakesStep, OverStep, ClosesStreamStep,
       ClosesSessionStep
    DEF Next
<1> QED BY <1>1, <1>2, PTL DEF Spec

(* Whatever happens in the attempts of a structured invocation, the bus    *)
(* sees one well-formed logical stream (StructuredCodexModel._events).     *)
THEOREM LogicalStreamTheorem == Spec => []LogicalStreamWellFormed
<1>1. IInv => LogicalStreamWellFormed
  <2> SUFFICES ASSUME IInv, Structured, log # << >>
               PROVE  /\ {n \in DOMAIN log : log[n] = "invocation_started"} = {1}
                      /\ \A n \in DOMAIN log : log[n] \in Ends => n = Len(log)
                      /\ \A n \in {m \in DOMAIN log : log[m] = "retry_scheduled"} :
                            log[n - 1] = "validation_failed"
                      /\ \A n \in {m \in DOMAIN log : log[m] = "turn_started"} :
                            log[n - 1] \in {"invocation_started", "retry_scheduled"}
                      /\ attempt <= MaxAttempts
    BY DEF LogicalStreamWellFormed
  <2>1. LogInv /\ attempt <= MaxAttempts
    BY DEF IInv, StructuredInv
  <2>2. 1 \in DOMAIN log
    <3>1. log \in Seq(Kinds)
      BY DEF IInv, TypeOK, StreamTypeOK
    <3> QED BY <3>1
  <2> QED BY <2>1, <2>2 DEF LogInv
<1> QED BY <1>1, NodeInvariance, PTL

(* A node that returns a state update (RuntimeNode.__call__) was not       *)
(* cancelled, and its invocation completed once and failed never: what the *)
(* bus saw behind the completion are deltas and usages that came late.     *)
THEOREM SuccessTheorem == Spec => []SuccessIsGenuine
<1>1. IInv => SuccessIsGenuine
  <2> SUFFICES ASSUME IInv, npc = "done", Outcome = "result"
               PROVE  cancels = 0 /\ Genuine
    BY DEF SuccessIsGenuine, Genuine
  <2>1. failure = None
    BY DEF Outcome, IInv, TypeOK, Errors
  <2>2. cleanupError = None
    BY <2>1 DEF Outcome, IInv, TypeOK
  <2> QED BY <2>1, <2>2 DEF IInv, NodeInv, Leaving
<1> QED BY <1>1, NodeInvariance, PTL
=============================================================================
