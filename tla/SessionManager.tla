--------------------------- MODULE SessionManager ---------------------------
(***************************************************************************)
(* Persistent sessions of CodexRuntime: session(), resume_session(),       *)
(* migrate_session() and the handle _CodexSession (turn, close, archive,   *)
(* delete), over restarts of the runtime.                                  *)
(*                                                                         *)
(* Each member of Calls is one call of the host, a coroutine; an action is *)
(* the code between two awaits.  What a call creates (provider thread,     *)
(* workspace, _SessionState, handle) bears the name of the call.           *)
(***************************************************************************)
EXTENDS Profiles, SessionCodec, FiniteSets

CONSTANTS
    Calls,
    Runtimes,      \* configurations (config, catalog, identity) to start with
    Overrides,     \* InvocationConfig values of session()
    Foreign,       \* descriptors that this library did not issue
    Experimental,  \* experimental_dynamic_tools
    MaxRestarts,
    MaxOverlapping, \* bound on the calls of a host that does not wait,
    MaxSerial,     \* on the calls and restarts of one that does, and
    MaxLeft,       \* on the workspaces that are left at a time
    None

ASSUME CallsAssumption == None \notin Calls
(* A foreign descriptor does not bear the identity of a runtime: what this  *)
(* library issues for the account is in origin.                            *)
ASSUME ForeignAssumption ==
    \A d \in Foreign, r \in Runtimes :
        Decodable(d) => \/ Decode(d)["provider"] # "codex"
                        \/ Decode(d)["identity_fingerprint"] # r.identity
(* The texts of a descriptor are not empty: thread ids, identities, names  *)
(* of profiles, members of enumerations, and fingerprints, which are hashes. *)
ASSUME TextAssumption ==
    /\ Empty \notin Calls
    /\ \A r \in Runtimes : r.identity # Empty
    /\ \A r \in Runtimes : \A p \in Builtin \cup DOMAIN r.config.specs :
          LET spec == ProfileSpecOf(r.config, p)
          IN  /\ p # Empty /\ spec \in ProfileSpec
              /\ p \in DOMAIN r.config.profiles => \A o \in Overrides \cup {NoOverride} :
                    <<Binding(r.config, p, o), p, spec.context, spec.security>> # Empty
ASSUME BoundAssumption == {MaxRestarts, MaxOverlapping, MaxSerial, MaxLeft} \subseteq Nat /\ Experimental \in BOOLEAN

(* load_runtime_config and start() accept only valid configurations.       *)
Usable == {r \in Runtimes : ValidConfig(r.config) /\ CatalogServes(r.config, r.catalog)}

VARIABLES
    serial,      \* does the host wait for each call before the next?
    rt,          \* the configuration the runtime was started with
    started,     \* is the runtime started and not closed?
    restarts,
    turn,        \* where the turn that runs through a handle stands
    pc, arg,     \* where each call stands; its arguments and local variables
    threads,     \* provider threads that exist (external)
    registry,    \* _sessions: descriptor -> state
    st,          \* the _SessionState objects
    hd,          \* the handles returned
    workspaces,  \* workspace directories on disk
    left,        \* history: those that a cancellation or a failing close() has left there
    origin       \* issued descriptors, with the way they came about

rtVars == <<rt, started, restarts, serial>>
diskVars == <<workspaces, left>>
vars == <<rtVars, turn, pc, arg, threads, registry, st, hd, diskVars, origin>>

NoState == [thread |-> None, descriptor |-> None, ws |-> None, gen |-> 0, lock |-> None,
            active |-> None, archived |-> FALSE, deleted |-> FALSE, profile |-> None,
            tools |-> FALSE,
            live |-> TRUE]  \* the thread object is one of the SDK client in use
NoHandle == [state |-> None, gen |-> 0, closed |-> FALSE, descriptor |-> None]
NoArg == [op |-> "none", h |-> None, d |-> None, profile |-> None, override |-> NoOverride,
          tools |-> FALSE, existing |-> None, prev |-> None]

Init ==
    /\ serial \in BOOLEAN
    /\ rt \in Usable /\ started = TRUE /\ restarts = 0
    /\ pc = [c \in Calls |-> "idle"] /\ arg = [c \in Calls |-> NoArg]
    /\ threads = {} /\ workspaces = {} /\ left = {}
    /\ registry = << >> /\ origin = << >>
    /\ turn = [h \in Calls |-> "none"]
    /\ st = [c \in Calls |-> NoState]
    /\ hd = [c \in Calls |-> NoHandle]

Finished == {"idle", "done"}

Quiet == \A c \in Calls : pc[c] \in Finished /\ turn[c] = "none"

(* The host makes a call.                                                  *)
Begun == Cardinality({c \in Calls : pc[c] # "idle"})

Begins(c) ==
    /\ pc[c] = "idle"
    /\ IF serial THEN Quiet /\ Begun + restarts < MaxSerial ELSE Begun < MaxOverlapping

Goto(c, l) == pc' = [pc EXCEPT ![c] = l]
Finish(c) == Goto(c, "done") /\ arg' = [arg EXCEPT ![c] = NoArg]

With(f, d, v) == [x \in DOMAIN f \cup {d} |-> IF x = d THEN v ELSE f[x]]
Without(f, d) == [x \in DOMAIN f \ {d} |-> f[x]]

ProfileOf(p) == ProfileSpecOf(rt.config, p)

-----------------------------------------------------------------------------
(* Descriptors.                                                            *)

ConfigurationFingerprint(binding, p) == <<binding, p, ProfileOf(p).context, ProfileOf(p).security>>

DescriptorValues(binding, p, thread) ==
    [provider |-> "codex", provider_session_id |-> thread,
     identity_fingerprint |-> rt.identity,
     configuration_fingerprint |-> ConfigurationFingerprint(binding, p),
     profile |-> p, level |-> "medium", context_policy |-> ProfileOf(p).context,
     security_policy |-> ProfileOf(p).security]

MakeDescriptor(binding, p, thread, nonce) ==
    LET values == DescriptorValues(binding, p, thread)
    IN  Encode(IF nonce = None THEN values ELSE With(values, "descriptor_nonce", nonce))

(* The descriptor becomes known to the host, with the event or the handle. *)
Issue(d, o, tools) ==
    origin' = With(origin, d, [rt |-> rt, override |-> o, tools |-> tools])

ThreadOf(d) == Decode(d)["provider_session_id"]

SameIdentity(d) ==
    /\ Decodable(d)
    /\ Decode(d)["provider"] = "codex"
    /\ Decode(d)["identity_fingerprint"] = rt.identity

(* The checks of resume_session() on a descriptor.                         *)
ResumeAccepts(d, tools) ==
    /\ SameIdentity(d)
    /\ LET v == Decode(d)
           p == v["profile"]
       IN  /\ KnownProfile(rt.config, p)
           /\ ToolBindingOK(ProfileOf(p), tools, Experimental)
           /\ ExecutableProfile(ProfileOf(p), tools, Experimental)
           /\ v["context_policy"] = ProfileOf(p).context
           /\ v["security_policy"] = ProfileOf(p).security
           /\ CanResolve(rt.config, rt.catalog, p, NoOverride)
           /\ v["configuration_fingerprint"]
                 = ConfigurationFingerprint(Binding(rt.config, p, NoOverride), p)

(* The state registered under a descriptor, unless it was deleted.         *)
Existing(d) ==
    IF d \in DOMAIN registry /\ ~st[registry[d]].deleted THEN registry[d] ELSE None

Busy(s) == s # None /\ (st[s].active # None \/ st[s].lock # None)

-----------------------------------------------------------------------------
(* session(): a workspace, a thread, a registered state, an event, a       *)
(* handle.  A check that fails raises before anything is created.          *)

Create(c, p, o, tools) ==
    /\ Begins(c) /\ started
    /\ KnownProfile(rt.config, p)
    /\ SessionProfile(ProfileOf(p))
    /\ ToolBindingOK(ProfileOf(p), tools, Experimental)
    /\ ExecutableProfile(ProfileOf(p), tools, Experimental)
    /\ CanResolve(rt.config, rt.catalog, p, o)
    /\ workspaces' = workspaces \cup {c}
    /\ arg' = [arg EXCEPT ![c] = [NoArg EXCEPT !.op = "session", !.profile = p,
                                    !.override = o, !.tools = tools]]
    /\ Goto(c, "threading")
    /\ UNCHANGED <<rtVars, turn, threads, registry, st, hd, left, origin>>

Created(c) ==
    /\ pc[c] = "threading" /\ arg[c].op = "session"
    /\ LET a == arg[c]
           d == MakeDescriptor(Binding(rt.config, a.profile, a.override), a.profile, c, None)
       IN  /\ threads' = threads \cup {c}
           /\ st' = [st EXCEPT ![c] = [NoState EXCEPT !.thread = c, !.descriptor = d,
                                         !.ws = c, !.profile = a.profile, !.tools = a.tools]]
           /\ registry' = With(registry, d, c)
           /\ arg' = [arg EXCEPT ![c].existing = c]
           /\ Issue(d, a.override, a.tools)
    /\ Goto(c, "announcing")
    /\ UNCHANGED <<rtVars, turn, hd, diskVars>>

(* The provider refuses the thread, or an observer the event: only the     *)
(* workspace is taken back, the state stays registered.  (A cancellation   *)
(* is no Exception: see CallCancelled and AnnounceFails.)                  *)
CreateFails(c) ==
    /\ arg[c].op = "session" /\ pc[c] \in {"threading", "announcing"}
    /\ workspaces' = workspaces \ {c}
    /\ Finish(c)
    /\ UNCHANGED <<rtVars, turn, threads, registry, st, hd, left, origin>>

(* The event is dispatched and the handle returned; it takes the           *)
(* generation the state has by then.                                       *)
Return(c) ==
    /\ pc[c] = "announcing"
    /\ LET s == arg[c].existing
       IN  hd' = [hd EXCEPT ![c] = [NoHandle EXCEPT !.state = s, !.gen = st[s].gen,
                                      !.descriptor = st[s].descriptor]]
    /\ Finish(c)
    /\ UNCHANGED <<rtVars, turn, threads, registry, st, diskVars, origin>>

-----------------------------------------------------------------------------
(* resume_session(): the state looked up before the await is rebound after *)
(* it, whatever happened to it in between.                                 *)

Resume(c, d, tools) ==
    /\ Begins(c) /\ started
    /\ ResumeAccepts(d, tools)
    /\ ~Busy(Existing(d))
    /\ workspaces' = workspaces \cup {c}
    /\ arg' = [arg EXCEPT ![c] = [NoArg EXCEPT !.op = "resume", !.d = d, !.tools = tools,
                                    !.existing = IF d \in DOMAIN registry THEN registry[d]
                                                 ELSE None]]
    /\ Goto(c, "threading")
    /\ UNCHANGED <<rtVars, turn, threads, registry, st, hd, left, origin>>

(* The other variables of a rebinding and of a new state.                  *)
Rebind(c, s, rebound) ==
    /\ st' = [st EXCEPT ![s] = [rebound EXCEPT !.ws = c, !.gen = @ + 1, !.live = TRUE]]
    /\ arg' = [arg EXCEPT ![c].existing = s]

(* Mutant: the workspace of the former generation stays.                   *)
WorkspacesAfterRebindKept(old) == workspaces

WorkspacesAfterRebind(old) == workspaces \ {old}

Resumed(c) ==
    /\ pc[c] = "threading" /\ arg[c].op = "resume" /\ ThreadOf(arg[c].d) \in threads
    /\ LET a == arg[c]
           s == a.existing
       IN  IF s # None /\ ~st[s].deleted
           THEN /\ Rebind(c, s, [st[s] EXCEPT !.tools = a.tools])
                /\ workspaces' = WorkspacesAfterRebind(st[s].ws)
                /\ UNCHANGED registry
           ELSE /\ st' = [st EXCEPT ![c] = [NoState EXCEPT
                            !.thread = ThreadOf(a.d), !.descriptor = a.d, !.ws = c,
                            !.profile = Decode(a.d)["profile"], !.tools = a.tools]]
                /\ registry' = With(registry, a.d, c)
                /\ arg' = [arg EXCEPT ![c].existing = c]
                /\ UNCHANGED workspaces
    /\ Goto(c, "announcing")
    /\ UNCHANGED <<rtVars, turn, threads, hd, left, origin>>

(* thread_resume() fails: the new workspace is removed.                    *)
RebindFails(c) ==
    /\ pc[c] = "threading" /\ arg[c].op \in {"resume", "migrate"}
    /\ workspaces' = workspaces \ {c}
    /\ Finish(c)
    /\ UNCHANGED <<rtVars, turn, threads, registry, st, hd, left, origin>>

(* session(), resume_session() or migrate_session() is cancelled while it  *)
(* awaits the thread: its workspace stays, and nobody knows of it.         *)
CallCancelled(c) ==
    /\ pc[c] = "threading" /\ Cardinality(left) < MaxLeft
    /\ left' = left \cup {c}
    /\ Finish(c)
    /\ UNCHANGED <<rtVars, turn, threads, registry, st, hd, workspaces, origin>>

(* A strict observer refuses the event of a rebinding, or any of the three *)
(* calls is cancelled there: what was registered stays, there is no handle.*)
AnnounceFails(c) ==
    /\ pc[c] = "announcing"
    /\ Finish(c)
    /\ UNCHANGED <<rtVars, turn, threads, registry, st, hd, diskVars, origin>>

-----------------------------------------------------------------------------
(* migrate_session(): another profile, the same thread and permissions.    *)

(* Mutant: the policy of the old descriptor is not compared.               *)
MigrationAllowedNewPolicy(d, p) ==
    /\ SameIdentity(d)
    /\ KnownProfile(rt.config, p)
    /\ Persistent(ProfileOf(p))
    /\ ExecutableProfile(ProfileOf(p), FALSE, Experimental)
    /\ CanResolve(rt.config, rt.catalog, p, NoOverride)

(* The host passes the target's policy; any other one is refused.          *)
MigrationAllowed(d, p) ==
    /\ SameIdentity(d)
    /\ KnownProfile(rt.config, p)
    /\ Persistent(ProfileOf(p))
    /\ ExecutableProfile(ProfileOf(p), FALSE, Experimental)
    /\ Decode(d)["security_policy"] = ProfileOf(p).security
    /\ CanResolve(rt.config, rt.catalog, p, NoOverride)

Migrate(c, d, p) ==
    /\ Begins(c) /\ started
    /\ MigrationAllowed(d, p)
    /\ ~Busy(Existing(d))
    /\ workspaces' = workspaces \cup {c}
    /\ arg' = [arg EXCEPT ![c] = [NoArg EXCEPT
                    !.op = "migrate", !.d = d, !.profile = p, !.existing = Existing(d),
                    !.prev = IF Existing(d) = None THEN None ELSE st[Existing(d)].ws]]
    /\ Goto(c, "threading")
    /\ UNCHANGED <<rtVars, turn, threads, registry, st, hd, left, origin>>

(* Mutant: the new descriptor names a new thread.                          *)
MigratedDescriptorNewThread(c) ==
    MakeDescriptor(Binding(rt.config, arg[c].profile, NoOverride), arg[c].profile, c, c)

(* Mutant: the binding of the former profile is kept.                      *)
MigratedDescriptorOldBinding(c) ==
    MakeDescriptor(Binding(rt.config, Decode(arg[c].d)["profile"], NoOverride), arg[c].profile,
                   ThreadOf(arg[c].d), c)

MigratedDescriptor(c) ==
    MakeDescriptor(Binding(rt.config, arg[c].profile, NoOverride), arg[c].profile,
                   ThreadOf(arg[c].d), c)

(* The tool binding of the old profile is kept.                            *)
Migrated(c) ==
    /\ pc[c] = "threading" /\ arg[c].op = "migrate" /\ ThreadOf(arg[c].d) \in threads
    /\ LET a == arg[c]
           s == a.existing
           d == MigratedDescriptor(c)
       IN  /\ Issue(d, NoOverride, FALSE)
           /\ IF s # None
              THEN /\ Rebind(c, s, [st[s] EXCEPT !.descriptor = d, !.profile = a.profile])
                   /\ registry' = With(Without(registry, a.d), d, s)
                   /\ workspaces' = WorkspacesAfterRebind(a.prev)
              ELSE /\ st' = [st EXCEPT ![c] = [NoState EXCEPT
                               !.thread = ThreadOf(a.d), !.descriptor = d, !.ws = c,
                               !.profile = a.profile]]
                   /\ registry' = With(registry, d, c)
                   /\ arg' = [arg EXCEPT ![c].existing = c]
                   /\ UNCHANGED workspaces
    /\ Goto(c, "announcing")
    /\ UNCHANGED <<rtVars, turn, threads, hd, left>>

-----------------------------------------------------------------------------
(* The handle.                                                             *)

Current(h) == hd[h].state # None /\ hd[h].gen = st[hd[h].state].gen
Open(h) == Current(h) /\ ~hd[h].closed /\ ~st[hd[h].state].deleted

OnHandle(c, op, h) == arg' = [arg EXCEPT ![c] = [NoArg EXCEPT !.op = op, !.h = h]]

StateOf(c) == hd[arg[c].h].state

(* ainvoke() and astream(): the lock is free, so it is taken at once.      *)
Turn(h) ==
    /\ serial => Quiet
    /\ Open(h)
    /\ st[hd[h].state].lock = None
    /\ st' = [st EXCEPT ![hd[h].state].lock = h]
    /\ turn' = [turn EXCEPT ![h] = "turning"]
    /\ UNCHANGED <<rtVars, pc, arg, threads, registry, hd, diskVars, origin>>

(* thread.turn() returned, which it does not when the client of the thread *)
(* object is closed: the run is active and registered.  With tools, the    *)
(* bridge needs a started runtime.                                         *)
TurnStarts(h) ==
    /\ turn[h] = "turning"
    /\ st[hd[h].state].thread \in threads /\ st[hd[h].state].live
    /\ st[hd[h].state].tools => started
    /\ st' = [st EXCEPT ![hd[h].state].active = h]
    /\ turn' = [turn EXCEPT ![h] = "running"]
    /\ UNCHANGED <<rtVars, pc, arg, threads, registry, hd, diskVars, origin>>

(* The turn did not start, ended, timed out or was left by its consumer;   *)
(* the run is unregistered and the lock released.                          *)
TurnEnds(h) ==
    /\ turn[h] # "none"
    /\ st' = [st EXCEPT ![hd[h].state].active = None, ![hd[h].state].lock = None]
    /\ turn' = [turn EXCEPT ![h] = "none"]
    /\ UNCHANGED <<rtVars, pc, arg, threads, registry, hd, diskVars, origin>>

(* A turn that cannot be interrupted closes the whole runtime; the host    *)
(* may do so too.  The steps of close() are those of RuntimeLifecycle;     *)
(* here: the registry is cleared and every registered workspace goes, but  *)
(* for those of turns whose interruption raises once more.                 *)
CloseRuntime ==
    /\ started
    /\ serial => \A c \in Calls : pc[c] \in Finished
    /\ started' = FALSE
    /\ \E kept \in SUBSET {st[registry[d]].ws : d \in {e \in DOMAIN registry :
                                                  st[registry[e]].active # None}} :
          /\ workspaces' = workspaces \ ({st[registry[d]].ws : d \in DOMAIN registry} \ kept)
          /\ left' = left \cup (kept \cap workspaces) /\ Cardinality(left') <= MaxLeft
    /\ registry' = << >>
    /\ UNCHANGED <<rt, restarts, serial, turn, pc, arg, threads, st, hd, origin>>

Close(c, h) ==
    /\ Begins(c)
    /\ hd[h].state # None /\ ~hd[h].closed
    /\ LET s == hd[h].state
       IN  IF Current(h) /\ st[s].active # None
           THEN Goto(c, "closing") /\ OnHandle(c, "close", h) /\ UNCHANGED <<hd, workspaces>>
           ELSE /\ hd' = [hd EXCEPT ![h].closed = TRUE]
                /\ workspaces' = workspaces \ IF Current(h) THEN {st[s].ws} ELSE {}
                /\ Finish(c)
    /\ UNCHANGED <<rtVars, turn, threads, registry, st, left, origin>>

(* The interrupted turn ended or five seconds have passed.                 *)
Closes(c) ==
    /\ pc[c] = "closing"
    /\ hd' = [hd EXCEPT ![arg[c].h].closed = TRUE]
    /\ workspaces' = workspaces \ {st[StateOf(c)].ws}
    /\ Finish(c)
    /\ UNCHANGED <<rtVars, turn, threads, registry, st, left, origin>>

Archive(c, h) ==
    /\ Begins(c) /\ Open(h) /\ ~st[hd[h].state].archived /\ started
    /\ OnHandle(c, "archive", h)
    /\ Goto(c, "archiving")
    /\ UNCHANGED <<rtVars, turn, threads, registry, st, hd, diskVars, origin>>

Archived(c) ==
    /\ pc[c] = "archiving"
    /\ st' = [st EXCEPT ![StateOf(c)].archived = TRUE]
    /\ Finish(c)
    /\ UNCHANGED <<rtVars, turn, threads, registry, hd, diskVars, origin>>

Delete(c, h) ==
    /\ Begins(c) /\ Current(h) /\ ~st[hd[h].state].deleted /\ started
    /\ OnHandle(c, "delete", h)
    /\ Goto(c, "deleting")
    /\ UNCHANGED <<rtVars, turn, threads, registry, st, hd, diskVars, origin>>

Deleted(c) ==
    /\ pc[c] = "deleting"
    /\ threads' = threads \ {st[StateOf(c)].thread}
    /\ st' = [st EXCEPT ![StateOf(c)].deleted = TRUE]
    /\ hd' = [hd EXCEPT ![arg[c].h].closed = TRUE]
    /\ workspaces' = workspaces \ {st[StateOf(c)].ws}
    /\ Finish(c)
    /\ UNCHANGED <<rtVars, turn, registry, left, origin>>

(* close() whose interrupt raises, archive() and delete() whose request    *)
(* fails, or a cancellation: nothing changed, unless the provider had      *)
(* carried out a deletion whose answer is lost.                            *)
HandleCallFails(c) ==
    /\ pc[c] \in {"closing", "archiving", "deleting"}
    /\ \/ UNCHANGED threads
       \/ pc[c] = "deleting" /\ threads' = threads \ {st[StateOf(c)].thread}
    /\ Finish(c)
    /\ UNCHANGED <<rtVars, turn, registry, st, hd, diskVars, origin>>

-----------------------------------------------------------------------------
(* The process ends, by a crash or after close(), and another one starts a *)
(* runtime: only the provider's threads and the descriptors that the host  *)
(* kept survive.  (Directories left by a crash are no longer counted.)     *)
Restart(r) ==
    /\ restarts < MaxRestarts
    /\ serial => Quiet
    /\ restarts' = restarts + 1
    /\ rt' = r /\ started' = TRUE
    /\ pc' = [c \in Calls |-> IF pc[c] = "idle" THEN "idle" ELSE "done"]
    /\ registry' = << >> /\ workspaces' = {} /\ left' = {}
    /\ turn' = [h \in Calls |-> "none"]
    /\ hd' = [c \in Calls |-> NoHandle]
    /\ st' = [c \in Calls |-> NoState]
    /\ arg' = [c \in Calls |-> NoArg]
    /\ UNCHANGED <<serial, threads, origin>>

(* start() after close() on the same CodexRuntime: a new SDK client, the   *)
(* same configuration; the account and the catalog are read anew.  The     *)
(* host still has its handles, calls that are not over go on, and the      *)
(* thread objects of the former client are of no use any more.  A request  *)
(* to that client was refused or answered before it was closed.            *)
StartAgain(r) ==
    /\ ~started /\ restarts < MaxRestarts
    /\ serial => Quiet
    /\ \A c \in Calls : pc[c] \notin {"threading", "archiving", "deleting"}
    /\ r.config = rt.config
    /\ rt' = r /\ started' = TRUE /\ restarts' = restarts + 1
    /\ st' = [s \in Calls |-> [st[s] EXCEPT !.live = FALSE]]
    /\ UNCHANGED <<serial, turn, pc, arg, threads, registry, hd, diskVars, origin>>

Next ==
    \/ \E c \in Calls :
          \/ \E p \in Builtin \cup DOMAIN rt.config.specs :
                \/ \E o \in Overrides, b \in BOOLEAN : Create(c, p, o, b)
                \/ \E d \in DOMAIN origin \cup Foreign : Migrate(c, d, p)
          \/ \E d \in DOMAIN origin \cup Foreign, b \in BOOLEAN : Resume(c, d, b)
          \/ \E h \in Calls : Close(c, h) \/ Archive(c, h) \/ Delete(c, h)
          \/ Created(c) \/ CreateFails(c) \/ Return(c)
          \/ Resumed(c) \/ Migrated(c) \/ RebindFails(c)
          \/ CallCancelled(c) \/ AnnounceFails(c)
          \/ Turn(c) \/ TurnStarts(c) \/ TurnEnds(c)
          \/ Closes(c) \/ Archived(c) \/ Deleted(c)
          \/ HandleCallFails(c)
    \/ CloseRuntime
    \/ \E r \in Usable : Restart(r) \/ StartAgain(r)

Spec == Init /\ [][Next]_vars
-----------------------------------------------------------------------------
(* Properties.                                                             *)

(* A descriptor denotes the provider thread it was issued for: whatever    *)
(* was resumed or migrated meanwhile, neither the registry nor a handle    *)
(* leads from it to another conversation (_sessions, _SessionState).  When *)
(* the calls do not overlap, the state found bears that very descriptor.   *)
DescriptorKeepsThread ==
    /\ \A d \in DOMAIN registry :
          /\ st[registry[d]].thread = ThreadOf(d)
          /\ serial => st[registry[d]].descriptor = d
    /\ \A h \in Calls : hd[h].state # None =>
          st[hd[h].state].thread = ThreadOf(hd[h].descriptor)

(* The permissions of a conversation never change: all descriptors of one  *)
(* thread, over migrations and restarts, carry the same security policy.   *)
(* This is what the check in migrate_session() guarantees, and more than   *)
(* the documentation asks for: see ReducedMigrationAdmitted.               *)
PermissionsNeverChange ==
    \A d, e \in DOMAIN origin :
        ThreadOf(d) = ThreadOf(e) => Decode(d)["security_policy"] = Decode(e)["security_policy"]

(* Every conversation runs under a profile that session() would accept,    *)
(* although migrate_session() tests only its lifecycle: the configuration  *)
(* rules out the others.  resume_session() tests neither, so this is said  *)
(* of profiles whose name keeps its lifecycle over restarts.               *)
OnlySessionProfiles ==
    \A d \in DOMAIN registry : SessionProfile(ProfileOf(st[registry[d]].profile))

(* When the host makes one call at a time, a state has at most one usable  *)
(* handle; the workspace of a handle that was made since the last start()  *)
(* exists; and every workspace on disk belongs to a registered state, to   *)
(* the call in progress, or is one that a cancelled call or a close() with *)
(* a failing interruption has left: no other way of ending a call, no      *)
(* resumption, migration or restart leaks one.                             *)
SerialHostOwnsWorkspaces ==
    serial /\ started =>
        /\ \A h, g \in Calls : Open(h) /\ Open(g) /\ hd[h].state = hd[g].state => h = g
        /\ \A h \in Calls : Open(h) /\ st[hd[h].state].live => st[hd[h].state].ws \in workspaces
        /\ \A w \in workspaces \ left :
              \/ pc[w] \in {"threading", "announcing"}
              \/ \E d \in DOMAIN registry : st[registry[d]].ws = w

(* A descriptor can be resumed by every later runtime with the             *)
(* configuration under which it was issued, also after a migration and     *)
(* after restarts: what session() and migrate_session() encode is what     *)
(* resume_session() expects.  (Not for a session that overrides its model: *)
(* see OverriddenSessionResumes.)                                          *)
IssuedDescriptorsResume ==
    \A d \in DOMAIN origin :
        origin[d].rt = rt /\ origin[d].override = NoOverride => ResumeAccepts(d, origin[d].tools)

-----------------------------------------------------------------------------
(* Statements of the documentation that the code does not meet.            *)

(* The turns that run, through the client in use, in a session that bears  *)
(* a descriptor.                                                           *)
Running(d) ==
    {h \in Calls : /\ turn[h] = "running"
                   /\ st[hd[h].state].live /\ st[hd[h].state].descriptor = d}

(* Only one turn is active per session: the lock is per _SessionState, and *)
(* two resumptions of one descriptor that overlap make two of them.  (That *)
(* the descriptor from before a migration still resumes is by design; it   *)
(* is another descriptor than that of the migrated session.)               *)
OneTurnPerSession == \A d \in DOMAIN origin : Cardinality(Running(d)) <= 1

(* A migration may reduce the permissions of a session.                    *)
Authority(policy) ==
    CASE policy = "isolated" -> 0 [] policy = "read_only" -> 1
      [] policy = "controlled_tools" -> 2 [] policy = "native" -> 3

ReducedMigrationAdmitted ==
    \A d \in DOMAIN origin, p \in Builtin \cup DOMAIN rt.config.specs :
        /\ SameIdentity(d) /\ Persistent(ProfileOf(p))
        /\ ExecutableProfile(ProfileOf(p), FALSE, Experimental)
        /\ CanResolve(rt.config, rt.catalog, p, NoOverride)
        /\ Authority(ProfileOf(p).security) <= Authority(Decode(d)["security_policy"])
        => MigrationAllowed(d, p)

(* close() preserves resumability, whatever model the session was given.   *)
OverriddenSessionResumes ==
    \A d \in DOMAIN origin : origin[d].rt = rt => ResumeAccepts(d, origin[d].tools)

(* Only a profile with host tools has a tool executor.                     *)
ToolsOnlyWherePermitted ==
    \A d \in DOMAIN registry : st[registry[d]].tools =>
        ProfileOf(st[registry[d]].profile).host_tools # "disabled"
=============================================================================
