------------------------ MODULE SessionManager_proof ------------------------
(***************************************************************************)
(* Proofs about SessionManager, for any number of calls, configurations,   *)
(* overrides, foreign descriptors and restarts.                            *)
(*                                                                         *)
(* Each action is first reduced to what it does to calls, states, handles  *)
(* and tables, field by field (the Effect lemmas); the actions that add    *)
(* nothing are brought under one frame, CoreFrame (lemma Steps).  Then one *)
(* step lemma per conjunct of the inductive invariant, and the theorems.   *)
(***************************************************************************)
EXTENDS SessionManager, TLAPS

-----------------------------------------------------------------------------
(* Profiles: what the checks of the configuration (model_post_init of      *)
(* RuntimeConfigV1) buy the three factories of the runtime.                *)

(* A custom profile that model_post_init accepts is a profile of exactly   *)
(* one factory: model(), task() or session() (the validate_*_profile       *)
(* functions).  None is configured in vain, none can be opened in two      *)
(* lifecycles.                                                             *)
THEOREM OneFactory ==
    ASSUME NEW spec \in ProfileSpec, ValidCustomSpec(spec)
    PROVE  /\ ModelProfile(spec) \/ TaskProfile(spec) \/ SessionProfile(spec)
           /\ ~(ModelProfile(spec) /\ TaskProfile(spec))
           /\ ~(ModelProfile(spec) /\ SessionProfile(spec))
           /\ ~(TaskProfile(spec) /\ SessionProfile(spec))
<1> USE DEF ModelProfile, TaskProfile, SessionProfile, Persistent
<1>1. spec.lifecycle \in {"ephemeral", "persistent"} /\ spec.context \in {"external", "runtime", "hybrid"}
  BY DEF ProfileSpec, LifecycleMode, ContextPolicy, ValidCustomSpec
<1>2. CASE spec.lifecycle = "ephemeral"
  BY <1>1, <1>2 DEF ValidCustomSpec
<1>3. CASE spec.lifecycle = "persistent"
  BY <1>1, <1>3 DEF ValidCustomSpec
<1> QED BY <1>1, <1>2, <1>3

(* migrate_session() tests only that the target profile is persistent,     *)
(* session() tests its context too.  For the profiles of an accepted       *)
(* configuration the weaker test is enough: what a session is migrated to, *)
(* session() would have opened.                                            *)
THEOREM PersistentIsSession ==
    ASSUME NEW config, ValidConfig(config), NEW p \in Builtin \cup DOMAIN config.specs,
           Persistent(ProfileSpecOf(config, p))
    PROVE  SessionProfile(ProfileSpecOf(config, p))
<1>1. CASE p \in Builtin
  <2>1. ProfileSpecOf(config, p) = DefaultProfileSpecs[p]
    BY <1>1 DEF ProfileSpecOf
  <2>2. p = "session"
    BY <1>1, <2>1 DEF Builtin, DefaultProfileSpecs, Persistent, SpecOf
  <2> QED BY <2>1, <2>2 DEF DefaultProfileSpecs, SessionProfile, Persistent, SpecOf
<1>2. CASE p \notin Builtin
  <2>1. ProfileSpecOf(config, p) = config.specs[p] /\ ValidCustomSpec(config.specs[p])
    BY <1>2 DEF ProfileSpecOf, ValidConfig
  <2> QED BY <2>1 DEF SessionProfile, Persistent, ValidCustomSpec
<1> QED BY <1>1, <1>2

(* What a model view advertises (effective_capabilities()) is what         *)
(* _start_run() lets it do: of the views that model(), brain() and         *)
(* with_tools() can return under any accepted configuration, exactly those *)
(* can run that advertise tools or structured output; none advertises      *)
(* both; a view runs with tools exactly when it advertises them; and a     *)
(* structured facade is available exactly over the views that run without  *)
(* tools.                                                                  *)
THEOREM HonestCapabilities ==
    ASSUME NEW config, NEW experimental \in BOOLEAN, NEW view \in ModelViews(config, experimental)
    PROVE  /\ ExecutableProfile(view.spec, view.tools, experimental)
                 <=> AdvertisesTools(view, experimental) \/ AdvertisesStructured(view)
           /\ ~(AdvertisesTools(view, experimental) /\ AdvertisesStructured(view))
           /\ AdvertisesTools(view, experimental) <=> view.tools
           /\ StructuredAvailable(view)
                 <=> ~view.tools /\ ExecutableProfile(view.spec, FALSE, experimental)
<1>1. CASE view \in PlainViews(config)
  <2>1. view.tools = FALSE
    BY <1>1 DEF PlainViews, Brain, View
  <2> QED
    BY <2>1 DEF ExecutableProfile, AdvertisesTools, AdvertisesStructured, StructuredAvailable,
                AcceptsSchema
<1>2. CASE view \in WithTools(PlainViews(config), experimental)
  <2>1. PICK v \in PlainViews(config) : /\ ToolBindingOK(v.spec, TRUE, experimental)
                                        /\ view = View(v.spec, TRUE)
    BY <1>2 DEF WithTools
  <2>2. view.tools /\ experimental /\ view.spec.host_tools \in {"controlled", "explicit"}
    BY <2>1 DEF ToolBindingOK, View
  <2> QED
    BY <2>2 DEF ExecutableProfile, AdvertisesTools, AdvertisesStructured,
                StructuredAvailable, AcceptsSchema
<1> QED BY <1>1, <1>2 DEF ModelViews

-----------------------------------------------------------------------------
(* The codec: encode() and decode() of session descriptors, for every value. *)

(* The values encode() is given: all keys but the version, the nonce if    *)
(* there is one, none of them empty.                                       *)
Values(S) == {v \in UNION {[K -> S] : K \in {RequiredKeys \ {"version"},
                                            (RequiredKeys \ {"version"}) \cup OptionalKeys}} :
                \A k \in DOMAIN v : v[k] # Empty}

(* decode() accepts what encode() made and gives the same values back, so  *)
(* a descriptor that the host kept over a restart names the same thread,   *)
(* identity and profile.                                                   *)
THEOREM RoundTrip ==
    ASSUME NEW S, NEW v \in Values(S)
    PROVE  Decodable(Encode(v)) /\ Decode(Encode(v)) = v
<1> DEFINE K == RequiredKeys \ {"version"}
<1>1. /\ v = [k \in DOMAIN v |-> v[k]]
      /\ DOMAIN v \in {K, K \cup OptionalKeys}
      /\ \A k \in DOMAIN v : v[k] # Empty
  BY DEF Values
<1>2. "version" \notin DOMAIN v /\ "version" \in RequiredKeys
  BY <1>1 DEF RequiredKeys, OptionalKeys
<1>3. DOMAIN Encode(v).token = DOMAIN v \cup {"version"}
  BY DEF Encode
<1>4. /\ Encode(v).token["version"] = 1
      /\ \A k \in DOMAIN v : Encode(v).token[k] = v[k]
  BY <1>2 DEF Encode
<1>5. DOMAIN Encode(v).token \ {"version"} = DOMAIN v
  BY <1>2, <1>3
<1>6. Decodable(Encode(v))
  <2>1. Encode(v).prefix = Prefix
    BY DEF Encode
  <2>2. DOMAIN v \cup {"version"} \in {RequiredKeys, RequiredKeys \cup OptionalKeys}
    BY <1>1, <1>2
  <2>3. \A k \in DOMAIN Encode(v).token \ {"version"} : Encode(v).token[k] # Empty
    BY <1>1, <1>4, <1>5
  <2> QED BY <2>1, <2>2, <2>3, <1>3, <1>4 DEF Decodable
<1>7. Decode(Encode(v)) = [k \in DOMAIN v |-> v[k]]
  BY <1>4, <1>5 DEF Decode
<1> QED BY <1>1, <1>6, <1>7

(* Different values have different descriptors: no two sessions share one. *)
THEOREM Injective ==
    ASSUME NEW S, NEW v \in Values(S), NEW w \in Values(S), Encode(v) = Encode(w)
    PROVE  v = w
BY RoundTrip

-----------------------------------------------------------------------------

(* The descriptor belongs to the account of runtime r.                     *)
SameAs(r, d) ==
    /\ Decodable(d)
    /\ Decode(d)["provider"] = "codex"
    /\ Decode(d)["identity_fingerprint"] = r.identity

(* The nonce that migrate_session() adds.                                  *)
NonceOf(d) ==
    IF "descriptor_nonce" \in DOMAIN Decode(d) THEN Decode(d)["descriptor_nonce"] ELSE None

(* The checks of session(), resume_session() and migrate_session() as they *)
(* are made under any runtime r.                                           *)
FingerprintOf(r, p, o) ==
    LET spec == ProfileSpecOf(r.config, p)
    IN  <<Binding(r.config, p, o), p, spec.context, spec.security>>

(* The profile can be executed and its mapping resolved.                   *)
Issuable(r, p, o, tools) ==
    LET spec == ProfileSpecOf(r.config, p)
    IN  /\ KnownProfile(r.config, p)
        /\ ToolBindingOK(spec, tools, Experimental)
        /\ ExecutableProfile(spec, tools, Experimental)
        /\ CanResolve(r.config, r.catalog, p, o)

(* resume_session() accepts the descriptor.                                *)
Accepts(r, d, tools) ==
    LET v == Decode(d)
        spec == ProfileSpecOf(r.config, v["profile"])
    IN  /\ SameAs(r, d)
        /\ Issuable(r, v["profile"], NoOverride, tools)
        /\ v["context_policy"] = spec.context
        /\ v["security_policy"] = spec.security
        /\ v["configuration_fingerprint"] = FingerprintOf(r, v["profile"], NoOverride)

(* migrate_session() accepts the target profile.                           *)
Migratable(r, d, p) ==
    /\ Issuable(r, p, NoOverride, FALSE)
    /\ SessionProfile(ProfileSpecOf(r.config, p))
    /\ Decode(d)["security_policy"] = ProfileSpecOf(r.config, p).security

(* What a descriptor holds that was issued under runtime r.                *)
IssuedUnder(r, d, o, tools) ==
    LET v == Decode(d)
        spec == ProfileSpecOf(r.config, v["profile"])
    IN  /\ r \in Usable
        /\ SameAs(r, d)
        /\ Issuable(r, v["profile"], o, tools)
        /\ SessionProfile(spec)
        /\ v["context_policy"] = spec.context
        /\ v["security_policy"] = spec.security
        /\ v["configuration_fingerprint"] = FingerprintOf(r, v["profile"], o)

(* The places of a call.                                                   *)
PCs == {"idle", "threading", "announcing", "closing", "archiving", "deleting", "done"}
Unborn == {"idle", "threading"}
OnHandlePCs == {"closing", "archiving", "deleting"}

MaybeCall == Calls \cup {None}

StateOK(x) ==
    /\ DOMAIN x = DOMAIN NoState
    /\ {x.thread, x.ws} \subseteq MaybeCall
    /\ x.gen \in Nat
    /\ {x.deleted, x.live} \subseteq BOOLEAN

HandleOK(x) ==
    /\ DOMAIN x = DOMAIN NoHandle
    /\ x.state \in MaybeCall
    /\ x.gen \in Nat
    /\ x.closed \in BOOLEAN

ArgOK(x) ==
    /\ DOMAIN x = DOMAIN NoArg
    /\ x.existing \in MaybeCall

(* The type invariant.                                                     *)
TypeOK ==
    /\ serial \in BOOLEAN /\ started \in BOOLEAN /\ rt \in Usable
    /\ DOMAIN pc = Calls /\ \A c \in Calls : pc[c] \in PCs
    /\ threads \subseteq Calls /\ workspaces \subseteq Calls
    /\ DOMAIN arg = Calls /\ \A c \in Calls : ArgOK(arg[c])
    /\ DOMAIN st = Calls /\ \A s \in Calls : StateOK(st[s])
    /\ DOMAIN hd = Calls /\ \A h \in Calls : HandleOK(hd[h])
    /\ \A d \in DOMAIN registry : registry[d] \in Calls
    /\ \A c \in Calls :
          /\ pc[c] \in OnHandlePCs => arg[c].h \in Calls
          /\ pc[c] = "announcing" => arg[c].existing \in Calls

(* What bears the name of a call does not exist before the call created it. *)
FreshInv ==
    \A c \in Calls : pc[c] \in Unborn =>
        /\ st[c].thread = None
        /\ \A d \in DOMAIN registry : registry[d] # c
        /\ \A x \in Calls : arg[x].existing # c /\ hd[x].state # c /\ st[x].ws # c
        /\ \A d \in DOMAIN origin : ThreadOf(d) # c /\ NonceOf(d) # c

(* Descriptors, states, handles and pending calls agree on the thread.     *)
ThreadInv ==
    /\ \A d \in DOMAIN origin : ThreadOf(d) \in Calls
    /\ \A d \in DOMAIN registry : d \in DOMAIN origin /\ st[registry[d]].thread = ThreadOf(d)
    /\ \A s \in Calls : st[s].thread # None =>
          /\ st[s].thread = ThreadOf(st[s].descriptor)
          /\ st[s].ws \in Calls
    /\ \A h \in Calls : hd[h].state # None =>
          /\ st[hd[h].state].thread # None
          /\ st[hd[h].state].thread = ThreadOf(hd[h].descriptor)
    /\ \A c \in Calls : pc[c] = "announcing" =>
          st[arg[c].existing].thread # None
    /\ \A c \in Calls : pc[c] = "threading" =>
          /\ arg[c].op \in {"session", "resume", "migrate"}
          /\ arg[c].op = "session" => arg[c].existing = None
          /\ arg[c].op # "session" => arg[c].d \in DOMAIN origin
          /\ arg[c].existing # None => st[arg[c].existing].thread = ThreadOf(arg[c].d)

(* What a pending call checked before its await still holds.               *)
PendingInv ==
    \A c \in Calls : pc[c] = "threading" =>
        /\ arg[c].op = "session" =>
              /\ Issuable(rt, arg[c].profile, arg[c].override, arg[c].tools)
              /\ SessionProfile(ProfileSpecOf(rt.config, arg[c].profile))
              /\ arg[c].override \in Overrides
        /\ arg[c].op = "resume" => Accepts(rt, arg[c].d, arg[c].tools)
        /\ arg[c].op = "migrate" => Migratable(rt, arg[c].d, arg[c].profile)

(* A descriptor holds what it was issued with.                             *)
OriginInv ==
    \A d \in DOMAIN origin : IssuedUnder(origin[d].rt, d, origin[d].override, origin[d].tools)

(* A host that makes one call at a time: no two calls are under way.       *)
SerialCalls == serial =>
    \A c, x \in Calls : pc[c] \notin Finished /\ pc[x] \notin Finished => c = x

(* Then a registered state bears the descriptor it is registered under,    *)
(* and what a pending call read from the registry still stands.            *)
SerialRegistry == serial =>
    /\ \A d \in DOMAIN registry : st[registry[d]].descriptor = d
    /\ \A c \in Calls : pc[c] = "threading" /\ arg[c].op = "resume" =>
          arg[c].existing = IF arg[c].d \in DOMAIN registry THEN registry[arg[c].d] ELSE None
    /\ \A c \in Calls : pc[c] = "threading" /\ arg[c].op = "migrate" /\ arg[c].existing # None =>
          /\ arg[c].d \in DOMAIN registry /\ registry[arg[c].d] = arg[c].existing
          /\ arg[c].prev = st[arg[c].existing].ws
          /\ ~st[arg[c].existing].deleted

(* No two states own one workspace; a handle is never ahead of its state.  *)
OwnerInv ==
    /\ \A s, t \in Calls : st[s].ws = st[t].ws /\ st[s].ws # None => s = t
    /\ \A h \in Calls : hd[h].state # None => hd[h].gen <= st[hd[h].state].gen

(* Handles, for a host that makes one call at a time: the handle in use is *)
(* the only current one of its state, and none is while the state is being *)
(* bound to a new handle.                                                  *)
HandleInv == serial =>
    /\ \A h, g \in Calls : Current(h) /\ Current(g) /\ hd[h].state = hd[g].state => h = g
    /\ \A c \in Calls : pc[c] = "announcing" =>
          /\ ~st[arg[c].existing].deleted
          /\ st[arg[c].existing].ws = c
          /\ \A h \in Calls : hd[h].state = arg[c].existing => ~Current(h)
    /\ \A c \in Calls : pc[c] \in OnHandlePCs => Current(arg[c].h)

Pending == {"threading", "announcing"}

(* A handle of the SDK client in use.                                      *)
InUse(h) == started /\ Open(h) /\ st[hd[h].state].live

(* The directories, for a host that makes one call at a time: a call that  *)
(* creates has one, and the runtime is not closed meanwhile; so has every  *)
(* handle of the SDK client in use; and none is left that nobody knows of. *)
DiskInv == serial =>
    /\ \A c \in Calls : pc[c] \in Pending => started /\ c \in workspaces
    /\ \A c \in Calls : pc[c] = "announcing" =>
          \E d \in DOMAIN registry : registry[d] = arg[c].existing
    /\ \A h \in Calls : InUse(h) => st[hd[h].state].ws \in workspaces
    /\ \A s \in Calls : st[s].deleted => st[s].ws \notin workspaces
    /\ \A w \in workspaces \ left : pc[w] \in Pending \/ \E d \in DOMAIN registry : st[registry[d]].ws = w

(* No two configurations give one custom profile two lifecycles.           *)
StableLifecycles ==
    \A r, q \in Usable : \A p \in DOMAIN r.config.specs \cap DOMAIN q.config.specs :
        r.config.specs[p].lifecycle = q.config.specs[p].lifecycle

(* Every state runs under a profile of sessions.                           *)
ProfileInv ==
    \A s \in Calls : st[s].thread # None => SessionProfile(ProfileSpecOf(rt.config, st[s].profile))

-----------------------------------------------------------------------------
(* What a descriptor holds after Encode() and Decode().                    *)
LEMMA DescriptorFields ==
    ASSUME NEW b, NEW p, NEW t, NEW n
    PROVE  LET d == MakeDescriptor(b, p, t, n)
               v == Decode(d)
           IN  /\ ThreadOf(d) = t
               /\ v["provider"] = "codex"
               /\ v["identity_fingerprint"] = rt.identity
               /\ v["configuration_fingerprint"] = ConfigurationFingerprint(b, p)
               /\ v["profile"] = p
               /\ v["context_policy"] = ProfileOf(p).context
               /\ v["security_policy"] = ProfileOf(p).security
               /\ NonceOf(d) = n
<1> DEFINE v == DescriptorValues(b, p, t)
           w == IF n = None THEN v ELSE With(v, "descriptor_nonce", n)
           K == {"provider", "provider_session_id", "identity_fingerprint",
                 "configuration_fingerprint", "profile", "level", "context_policy",
                 "security_policy"}
<1>1. DOMAIN v = K
  BY DEF DescriptorValues
<1>2. /\ DOMAIN w = IF n = None THEN K ELSE K \cup {"descriptor_nonce"}
      /\ \A k \in K : w[k] = v[k]
      /\ n # None => w["descriptor_nonce"] = n
  BY <1>1 DEF With
<1> HIDE DEF w
<1>3. \A k \in DOMAIN w : k # "version"
  BY <1>2
<1>4. MakeDescriptor(b, p, t, n) = Encode(w)
  BY DEF MakeDescriptor, w
<1>5. DOMAIN Decode(Encode(w)) = DOMAIN w /\ \A k \in DOMAIN w : Decode(Encode(w))[k] = w[k]
  BY <1>3 DEF Encode, Decode
<1>6. \A k \in K : Decode(Encode(w))[k] = v[k]
  BY <1>2, <1>5
<1> HIDE DEF K
<1>7. NonceOf(Encode(w)) = n
  BY <1>2, <1>5 DEF NonceOf, K
<1> QED BY <1>4, <1>6, <1>7 DEF ThreadOf, DescriptorValues, K

(* The records that Init and a restart begin with.                         *)
LEMMA Blank ==
    /\ StateOK(NoState) /\ NoState.thread = None /\ NoState.ws = None
    /\ HandleOK(NoHandle) /\ NoHandle.state = None
    /\ ArgOK(NoArg) /\ NoArg.existing = None
<1>1. StateOK(NoState) /\ NoState.thread = None /\ NoState.ws = None
  BY DEF StateOK, NoState, MaybeCall
<1>2. HandleOK(NoHandle) /\ NoHandle.state = None
  BY DEF HandleOK, NoHandle, MaybeCall
<1>3. ArgOK(NoArg) /\ NoArg.existing = None
  BY DEF ArgOK, NoArg, MaybeCall
<1> QED BY <1>1, <1>2, <1>3

(* The runtime has just started.                                           *)
LEMMA InitType == Init => TypeOK
BY Blank DEF Init, TypeOK, PCs, OnHandlePCs

-----------------------------------------------------------------------------
(* What an action does to the call c that it belongs to, to states and to  *)
(* handles, field by field.                                                *)
SameCall(x) == pc'[x] = pc[x] /\ arg'[x] = arg[x]
OnlyCall(c) ==
    /\ \A x \in Calls \ {c} : SameCall(x)
    /\ pc'[c] \in PCs /\ DOMAIN pc' = Calls
    /\ ArgOK(arg'[c]) /\ DOMAIN arg' = Calls

SameState(s) ==
    /\ StateOK(st'[s])
    /\ st'[s].thread = st[s].thread /\ st'[s].descriptor = st[s].descriptor
    /\ st'[s].profile = st[s].profile /\ st'[s].ws = st[s].ws /\ st'[s].gen = st[s].gen
SameStates ==
    /\ DOMAIN st' = Calls
    /\ \A s \in Calls : SameState(s) /\ st'[s].deleted = st[s].deleted /\ st'[s].live = st[s].live
OnlyState(s) ==
    /\ DOMAIN st' = Calls /\ StateOK(st'[s])
    /\ \A x \in Calls \ {s} : st'[x] = st[x]

SameHandle(h) ==
    /\ HandleOK(hd'[h])
    /\ hd'[h].state = hd[h].state /\ hd'[h].gen = hd[h].gen
    /\ hd'[h].descriptor = hd[h].descriptor
OnlyHandle(h) ==
    /\ DOMAIN hd' = Calls /\ HandleOK(hd'[h])
    /\ \A x \in Calls \ {h} : hd'[x] = hd[x]

(* A handle is marked closed.                                              *)
LEMMA CloseHandleEffect ==
    ASSUME TypeOK, NEW h \in Calls, hd' = [hd EXCEPT ![h].closed = TRUE]
    PROVE  /\ DOMAIN hd' = Calls /\ \A x \in Calls : SameHandle(x)
           /\ OnlyHandle(h) /\ hd'[h].closed
<1>1. HandleOK(hd[h]) /\ DOMAIN hd = Calls
  BY DEF TypeOK
<1> DEFINE y == [hd[h] EXCEPT !.closed = TRUE]
<1>2. /\ HandleOK(y) /\ y.state = hd[h].state /\ y.gen = hd[h].gen
      /\ y.descriptor = hd[h].descriptor /\ y.closed
  BY <1>1 DEF HandleOK, NoHandle
<1>3. hd' = [hd EXCEPT ![h] = y]
  OBVIOUS
<1> HIDE DEF y
<1>4. DOMAIN hd' = Calls /\ hd'[h] = y /\ \A x \in Calls \ {h} : hd'[x] = hd[x]
  BY <1>1, <1>3
<1> QED BY <1>2, <1>4 DEF SameHandle, OnlyHandle, TypeOK

(* A call returns or raises.                                               *)
LEMMA FinishEffect ==
    ASSUME TypeOK, NEW c \in Calls, Finish(c)
    PROVE  OnlyCall(c) /\ pc'[c] = "done" /\ arg'[c].existing = None
BY Blank DEF TypeOK, Finish, Goto, OnlyCall, SameCall, PCs

(* A call on a handle goes to its await.                                   *)
LEMMA OnHandleEffect ==
    ASSUME TypeOK, NEW c \in Calls, NEW h \in Calls, NEW l \in OnHandlePCs, NEW op,
           Goto(c, l), OnHandle(c, op, h)
    PROVE  OnlyCall(c) /\ pc'[c] = l /\ arg'[c].existing = None /\ arg'[c].h = h
<1>1. /\ ArgOK([NoArg EXCEPT !.op = op, !.h = h])
      /\ [NoArg EXCEPT !.op = op, !.h = h].existing = None
      /\ [NoArg EXCEPT !.op = op, !.h = h].h = h
  BY DEF NoArg, ArgOK, MaybeCall
<1> QED BY <1>1 DEF TypeOK, Goto, OnHandle, OnlyCall, SameCall, PCs, OnHandlePCs

(* session() goes to thread_start().                                       *)
LEMMA CreateEffect ==
    ASSUME TypeOK, NEW c \in Calls, NEW p, NEW o, NEW b, Create(c, p, o, b)
    PROVE  /\ OnlyCall(c) /\ pc[c] = "idle" /\ pc'[c] = "threading"
           /\ arg'[c].op = "session" /\ arg'[c].profile = p /\ arg'[c].override = o
           /\ arg'[c].tools = b /\ arg'[c].existing = None
<1> DEFINE a == [NoArg EXCEPT !.op = "session", !.profile = p, !.override = o, !.tools = b]
<1>1. /\ ArgOK(a) /\ a.op = "session" /\ a.profile = p /\ a.override = o
      /\ a.tools = b /\ a.existing = None
  BY DEF NoArg, ArgOK, MaybeCall
<1>2. arg' = [arg EXCEPT ![c] = a]
  BY DEF Create
<1> HIDE DEF a
<1> QED BY <1>1, <1>2 DEF TypeOK, Create, Begins, Goto, OnlyCall, SameCall, PCs

(* resume_session() goes to thread_resume().                               *)
LEMMA ResumeEffect ==
    ASSUME TypeOK, NEW c \in Calls, NEW d, NEW b, Resume(c, d, b)
    PROVE  /\ OnlyCall(c) /\ pc[c] = "idle" /\ pc'[c] = "threading"
           /\ arg'[c].op = "resume" /\ arg'[c].d = d /\ arg'[c].tools = b
           /\ arg'[c].existing = IF d \in DOMAIN registry THEN registry[d] ELSE None
<1> DEFINE e == IF d \in DOMAIN registry THEN registry[d] ELSE None
           a == [NoArg EXCEPT !.op = "resume", !.d = d, !.tools = b, !.existing = e]
<1>1. e \in MaybeCall
  BY DEF TypeOK, MaybeCall
<1>2. arg' = [arg EXCEPT ![c] = a]
  BY DEF Resume
<1> HIDE DEF e
<1>3. ArgOK(a) /\ a.op = "resume" /\ a.d = d /\ a.tools = b /\ a.existing = e
  BY <1>1 DEF NoArg, ArgOK
<1> HIDE DEF a
<1>4. pc[c] = "idle" /\ Goto(c, "threading")
  BY DEF Resume, Begins
<1>5. OnlyCall(c) /\ pc'[c] = "threading" /\ arg'[c] = a
  BY <1>2, <1>3, <1>4 DEF TypeOK, Goto, OnlyCall, SameCall, PCs
<1> QED BY <1>3, <1>4, <1>5 DEF e

(* migrate_session() goes to thread_resume().                              *)
LEMMA MigrateEffect ==
    ASSUME TypeOK, NEW c \in Calls, NEW d, NEW p, Migrate(c, d, p)
    PROVE  /\ OnlyCall(c) /\ pc[c] = "idle" /\ pc'[c] = "threading"
           /\ arg'[c].op = "migrate" /\ arg'[c].d = d /\ arg'[c].profile = p
           /\ arg'[c].existing = Existing(d)
           /\ Existing(d) # None => arg'[c].prev = st[Existing(d)].ws
<1> DEFINE e == Existing(d)
           w == IF e = None THEN None ELSE st[e].ws
           a == [NoArg EXCEPT !.op = "migrate", !.d = d, !.profile = p, !.existing = e, !.prev = w]
<1>1. e \in MaybeCall
  BY DEF TypeOK, MaybeCall, Existing
<1>2. arg' = [arg EXCEPT ![c] = a]
  BY DEF Migrate
<1> HIDE DEF e
<1>w. e # None => w = st[e].ws
  OBVIOUS
<1> HIDE DEF w
<1>3. /\ ArgOK(a) /\ a.op = "migrate" /\ a.d = d /\ a.profile = p /\ a.existing = e /\ a.prev = w
  BY <1>1 DEF NoArg, ArgOK
<1> HIDE DEF a
<1>4. pc[c] = "idle" /\ Goto(c, "threading")
  BY DEF Migrate, Begins
<1>5. OnlyCall(c) /\ pc'[c] = "threading" /\ arg'[c] = a
  BY <1>2, <1>3, <1>4 DEF TypeOK, Goto, OnlyCall, SameCall, PCs
<1> QED BY <1>w, <1>3, <1>4, <1>5 DEF e

(* close(), archive() and delete() begin.                                  *)
LEMMA HandleCallEffect ==
    ASSUME TypeOK, NEW c \in Calls, NEW h \in Calls, Close(c, h) \/ Archive(c, h) \/ Delete(c, h)
    PROVE  /\ OnlyCall(c) /\ pc[c] = "idle" /\ arg'[c].existing = None
           /\ pc'[c] \in OnHandlePCs => arg'[c].h = h /\ Current(h)
           /\ pc'[c] \in OnHandlePCs \cup {"done"}
           /\ DOMAIN hd' = Calls /\ \A x \in Calls : SameHandle(x)
<1>1. pc[c] = "idle"
  BY DEF Close, Archive, Delete, Begins
<1>2. UNCHANGED hd => DOMAIN hd' = Calls /\ \A x \in Calls : SameHandle(x)
  BY DEF TypeOK, SameHandle
<1>3. hd' = [hd EXCEPT ![h].closed = TRUE] => DOMAIN hd' = Calls /\ \A x \in Calls : SameHandle(x)
  BY CloseHandleEffect
<1>4. CASE \E l \in OnHandlePCs, op \in {"close", "archive", "delete"} :
             Goto(c, l) /\ OnHandle(c, op, h) /\ UNCHANGED hd /\ Current(h)
  BY <1>1, <1>2, <1>4, OnHandleEffect
<1>5. CASE Finish(c) /\ hd' = [hd EXCEPT ![h].closed = TRUE]
  BY <1>1, <1>3, <1>5, FinishEffect DEF OnHandlePCs
<1> QED BY <1>4, <1>5 DEF Close, Archive, Delete, OnHandlePCs, Open

(* Turns, archive() and delete() change neither what a state denotes nor   *)
(* its generation.                                                         *)
LEMMA TurnEffect ==
    ASSUME TypeOK, NEW h \in Calls, Turn(h) \/ TurnStarts(h) \/ TurnEnds(h)
    PROVE  SameStates
<1>1. \A s \in Calls : StateOK(st[s]) /\ DOMAIN st = Calls
  BY DEF TypeOK
<1>2. ASSUME NEW s \in Calls, NEW x,
             \/ x = [st[s] EXCEPT !.active = h]
             \/ x = [st[s] EXCEPT !.lock = h]
             \/ x = [st[s] EXCEPT !.active = None, !.lock = None]
      PROVE  /\ StateOK(x) /\ x.thread = st[s].thread /\ x.descriptor = st[s].descriptor
             /\ x.profile = st[s].profile /\ x.ws = st[s].ws /\ x.gen = st[s].gen
             /\ x.deleted = st[s].deleted /\ x.live = st[s].live
  BY <1>1, <1>2 DEF StateOK, NoState
<1> DEFINE s == hd[h].state
<1>3. CASE s \notin Calls
  <2>1. DOMAIN st' = Calls /\ \A x \in Calls : st'[x] = st[x]
    BY <1>1, <1>3 DEF Turn, TurnStarts, TurnEnds
  <2> QED BY <1>1, <2>1 DEF SameStates, SameState
<1>4. CASE s \in Calls
  <2> HIDE DEF s
  <2>1. \/ st' = [st EXCEPT ![s] = [st[s] EXCEPT !.active = h]]
        \/ st' = [st EXCEPT ![s] = [st[s] EXCEPT !.lock = h]]
        \/ st' = [st EXCEPT ![s] = [st[s] EXCEPT !.active = None, !.lock = None]]
    BY <1>1, <1>4 DEF Turn, TurnStarts, TurnEnds, s
  <2>2. DOMAIN st' = Calls /\ \A x \in Calls \ {s} : st'[x] = st[x]
    BY <1>1, <1>4, <2>1
  <2>3. /\ StateOK(st'[s]) /\ st'[s].thread = st[s].thread /\ st'[s].descriptor = st[s].descriptor
        /\ st'[s].profile = st[s].profile /\ st'[s].ws = st[s].ws /\ st'[s].gen = st[s].gen
        /\ st'[s].deleted = st[s].deleted /\ st'[s].live = st[s].live
    <3>1. \/ st'[s] = [st[s] EXCEPT !.active = h]
          \/ st'[s] = [st[s] EXCEPT !.lock = h]
          \/ st'[s] = [st[s] EXCEPT !.active = None, !.lock = None]
      BY <1>1, <1>4, <2>1
    <3> QED BY <1>2, <1>4, <3>1
  <2> QED BY <1>1, <2>2, <2>3 DEF SameStates, SameState
<1> QED BY <1>3, <1>4

(* archive() marks the state.                                              *)
LEMMA ArchivedEffect ==
    ASSUME TypeOK, NEW c \in Calls, Archived(c)
    PROVE  SameStates
<1>1. \A s \in Calls : StateOK(st[s]) /\ DOMAIN st = Calls
  BY DEF TypeOK
<1>2. ASSUME NEW s \in Calls
      PROVE  LET x == [st[s] EXCEPT !.archived = TRUE]
             IN  /\ StateOK(x) /\ x.thread = st[s].thread /\ x.descriptor = st[s].descriptor
                 /\ x.profile = st[s].profile /\ x.ws = st[s].ws /\ x.gen = st[s].gen
                 /\ x.deleted = st[s].deleted /\ x.live = st[s].live
  BY <1>1 DEF StateOK, NoState
<1>3. st' = [st EXCEPT ![StateOf(c)] = [st[StateOf(c)] EXCEPT !.archived = TRUE]]
  BY DEF Archived
<1> QED BY <1>1, <1>2, <1>3 DEF SameStates, SameState

(* delete() marks the state.                                               *)
LEMMA DeletedEffect ==
    ASSUME TypeOK, NEW c \in Calls, Deleted(c)
    PROVE  /\ DOMAIN st' = Calls /\ \A s \in Calls : SameState(s)
           /\ \A s \in Calls \ {StateOf(c)} : st'[s].deleted = st[s].deleted
           /\ \A s \in Calls : st'[s].live = st[s].live
           /\ StateOf(c) \in Calls => st'[StateOf(c)].deleted
<1>1. \A s \in Calls : StateOK(st[s]) /\ DOMAIN st = Calls
  BY DEF TypeOK
<1>2. ASSUME NEW s \in Calls
      PROVE  LET x == [st[s] EXCEPT !.deleted = TRUE]
             IN  /\ StateOK(x) /\ x.thread = st[s].thread /\ x.descriptor = st[s].descriptor
                 /\ x.profile = st[s].profile /\ x.ws = st[s].ws /\ x.gen = st[s].gen
                 /\ x.deleted /\ x.live = st[s].live
  BY <1>1 DEF StateOK, NoState
<1>3. st' = [st EXCEPT ![StateOf(c)] = [st[StateOf(c)] EXCEPT !.deleted = TRUE]]
  BY DEF Deleted
<1> QED BY <1>1, <1>2, <1>3 DEF SameState

(* A new state.                                                            *)
LEMMA NewState ==
    ASSUME TypeOK, NEW c \in Calls, NEW t \in MaybeCall, NEW d, NEW p, NEW b,
           st' = [st EXCEPT ![c] = [NoState EXCEPT !.thread = t, !.descriptor = d, !.ws = c,
                                      !.profile = p, !.tools = b]]
    PROVE  /\ OnlyState(c)
           /\ st'[c].thread = t /\ st'[c].descriptor = d /\ st'[c].ws = c /\ st'[c].profile = p
           /\ st'[c].gen = 0 /\ st'[c].deleted = FALSE
<1> DEFINE x == [NoState EXCEPT !.thread = t, !.descriptor = d, !.ws = c,
                                !.profile = p, !.tools = b]
<1>1. /\ StateOK(x) /\ x.thread = t /\ x.descriptor = d /\ x.ws = c /\ x.profile = p
      /\ x.gen = 0 /\ x.deleted = FALSE
  BY DEF StateOK, NoState, MaybeCall
<1> HIDE DEF x
<1> QED BY <1>1 DEF TypeOK, OnlyState, x

(* A state is there: the call goes to its event.                           *)
LEMMA ExistingEffect ==
    ASSUME TypeOK, NEW c \in Calls, NEW s \in Calls,
           arg' = [arg EXCEPT ![c].existing = s], Goto(c, "announcing")
    PROVE  OnlyCall(c) /\ pc'[c] = "announcing" /\ arg'[c].existing = s
<1>1. ArgOK(arg[c]) /\ DOMAIN arg = Calls
  BY DEF TypeOK
<1> DEFINE y == [arg[c] EXCEPT !.existing = s]
<1>2. ArgOK(y) /\ y.existing = s
  BY <1>1 DEF ArgOK, NoArg, MaybeCall
<1>3. arg' = [arg EXCEPT ![c] = y]
  OBVIOUS
<1> HIDE DEF y
<1> QED BY <1>1, <1>2, <1>3 DEF TypeOK, OnlyCall, SameCall, Goto, PCs

(* thread_start() answered session().                                      *)
LEMMA CreatedEffect ==
    ASSUME TypeOK, NEW c \in Calls, Created(c)
    PROVE  LET a == arg[c]
               d == MakeDescriptor(Binding(rt.config, a.profile, a.override), a.profile, c, None)
           IN  /\ OnlyCall(c) /\ pc'[c] = "announcing" /\ arg'[c].existing = c
               /\ OnlyState(c) /\ st'[c].thread = c /\ st'[c].descriptor = d /\ st'[c].ws = c
               /\ st'[c].profile = a.profile /\ st'[c].gen = 0 /\ st'[c].deleted = FALSE
               /\ registry' = With(registry, d, c)
<1> DEFINE a == arg[c]
           d == MakeDescriptor(Binding(rt.config, a.profile, a.override), a.profile, c, None)
<1>1. /\ st' = [st EXCEPT ![c] = [NoState EXCEPT !.thread = c, !.descriptor = d, !.ws = c,
                                    !.profile = a.profile, !.tools = a.tools]]
      /\ registry' = With(registry, d, c)
      /\ arg' = [arg EXCEPT ![c].existing = c]
      /\ Goto(c, "announcing")
  BY DEF Created
<1>2. c \in MaybeCall
  BY DEF MaybeCall
<1> HIDE DEF a, d
<1>3. OnlyCall(c) /\ pc'[c] = "announcing" /\ arg'[c].existing = c
  BY <1>1, ExistingEffect
<1>4. /\ OnlyState(c)
      /\ st'[c].thread = c /\ st'[c].descriptor = d /\ st'[c].ws = c /\ st'[c].profile = a.profile
      /\ st'[c].gen = 0 /\ st'[c].deleted = FALSE
  BY <1>1, <1>2, NewState
<1> QED BY <1>1, <1>3, <1>4 DEF a, d

(* A state is bound to the workspace of the call, in a new generation.     *)
LEMMA RebindEffect ==
    ASSUME TypeOK, NEW c \in Calls, NEW s \in Calls, NEW x, DOMAIN x = DOMAIN NoState,
           x.gen \in Nat, x.thread \in MaybeCall, x.deleted \in BOOLEAN,
           Rebind(c, s, x), Goto(c, "announcing")
    PROVE  /\ OnlyCall(c) /\ pc'[c] = "announcing" /\ arg'[c].existing = s
           /\ OnlyState(s)
           /\ st'[s].thread = x.thread /\ st'[s].descriptor = x.descriptor /\ st'[s].ws = c
           /\ st'[s].profile = x.profile /\ st'[s].gen = x.gen + 1 /\ st'[s].deleted = x.deleted
<1> DEFINE y == [x EXCEPT !.ws = c, !.gen = @ + 1, !.live = TRUE]
<1>1. /\ StateOK(y) /\ y.thread = x.thread /\ y.descriptor = x.descriptor /\ y.ws = c
      /\ y.profile = x.profile /\ y.gen = x.gen + 1 /\ y.deleted = x.deleted
  BY DEF StateOK, NoState, MaybeCall
<1>2. st' = [st EXCEPT ![s] = y] /\ arg' = [arg EXCEPT ![c].existing = s]
  BY DEF Rebind
<1> HIDE DEF y
<1>3. OnlyState(s) /\ st'[s] = y
  BY <1>1, <1>2 DEF TypeOK, OnlyState
<1> QED BY <1>1, <1>2, <1>3, ExistingEffect

(* thread_resume() answered resume_session(): the state is rebound, or a   *)
(* new one made.                                                           *)
ResumesExisting(c) == arg[c].existing # None /\ ~st[arg[c].existing].deleted

(* thread_resume() answered resume_session() and the state is rebound.     *)
LEMMA ResumedOld ==
    ASSUME TypeOK, NEW c \in Calls, Resumed(c), ResumesExisting(c)
    PROVE  LET s == arg[c].existing
           IN  /\ OnlyCall(c) /\ pc'[c] = "announcing" /\ arg'[c].existing = s /\ s \in Calls
               /\ OnlyState(s)
               /\ st'[s].thread = st[s].thread /\ st'[s].descriptor = st[s].descriptor
               /\ st'[s].ws = c /\ st'[s].profile = st[s].profile
               /\ st'[s].gen = st[s].gen + 1 /\ st'[s].deleted = st[s].deleted
               /\ workspaces' = workspaces \ {st[s].ws} /\ UNCHANGED registry
<1> DEFINE s == arg[c].existing
           x == [st[s] EXCEPT !.tools = arg[c].tools]
<1>1. s \in Calls
  BY DEF TypeOK, ArgOK, MaybeCall, ResumesExisting
<1>2. /\ Rebind(c, s, x) /\ Goto(c, "announcing")
      /\ workspaces' = workspaces \ {st[s].ws} /\ UNCHANGED registry
  BY DEF Resumed, ResumesExisting, WorkspacesAfterRebind
<1>3. /\ DOMAIN x = DOMAIN NoState /\ x.gen \in Nat /\ x.thread \in MaybeCall
      /\ x.deleted \in BOOLEAN
      /\ x.gen = st[s].gen /\ x.thread = st[s].thread /\ x.descriptor = st[s].descriptor
      /\ x.profile = st[s].profile /\ x.deleted = st[s].deleted
  <2>1. StateOK(st[s])
    BY <1>1 DEF TypeOK
  <2> QED BY <2>1 DEF StateOK, NoState
<1> HIDE DEF x
<1>4. /\ OnlyCall(c) /\ pc'[c] = "announcing" /\ arg'[c].existing = s /\ OnlyState(s)
      /\ st'[s].thread = x.thread /\ st'[s].descriptor = x.descriptor /\ st'[s].ws = c
      /\ st'[s].profile = x.profile /\ st'[s].gen = x.gen + 1 /\ st'[s].deleted = x.deleted
  BY <1>1, <1>2, <1>3, RebindEffect
<1> QED BY <1>1, <1>2, <1>3, <1>4

(* thread_resume() answered resume_session() and a new state is made.      *)
LEMMA ResumedNew ==
    ASSUME TypeOK, NEW c \in Calls, Resumed(c), ~ResumesExisting(c)
    PROVE  LET d == arg[c].d
           IN  /\ OnlyCall(c) /\ pc'[c] = "announcing" /\ arg'[c].existing = c
               /\ OnlyState(c) /\ st'[c].thread = ThreadOf(d) /\ st'[c].descriptor = d
               /\ st'[c].ws = c /\ st'[c].profile = Decode(d)["profile"]
               /\ st'[c].gen = 0 /\ st'[c].deleted = FALSE
               /\ registry' = With(registry, d, c) /\ UNCHANGED workspaces
<1> DEFINE d == arg[c].d
           t == ThreadOf(d)
           p == Decode(d)["profile"]
           b == arg[c].tools
<1>1. /\ st' = [st EXCEPT ![c] = [NoState EXCEPT !.thread = t, !.descriptor = d, !.ws = c,
                                    !.profile = p, !.tools = b]]
      /\ registry' = With(registry, d, c) /\ UNCHANGED workspaces
      /\ arg' = [arg EXCEPT ![c].existing = c]
      /\ Goto(c, "announcing")
  BY DEF Resumed, ResumesExisting
<1>2. t \in MaybeCall
  BY DEF Resumed, TypeOK, MaybeCall
<1> HIDE DEF d, t, p, b
<1>3. OnlyCall(c) /\ pc'[c] = "announcing" /\ arg'[c].existing = c
  BY <1>1, ExistingEffect
<1>4. /\ OnlyState(c)
      /\ st'[c].thread = t /\ st'[c].descriptor = d /\ st'[c].ws = c /\ st'[c].profile = p
      /\ st'[c].gen = 0 /\ st'[c].deleted = FALSE
  BY <1>1, <1>2, NewState
<1> QED BY <1>1, <1>3, <1>4 DEF d, t, p

(* thread_resume() answered migrate_session() and the state is rebound.    *)
LEMMA MigratedOld ==
    ASSUME TypeOK, NEW c \in Calls, Migrated(c), arg[c].existing # None
    PROVE  LET s == arg[c].existing
               d == MigratedDescriptor(c)
           IN  /\ OnlyCall(c) /\ pc'[c] = "announcing" /\ arg'[c].existing = s /\ s \in Calls
               /\ OnlyState(s)
               /\ st'[s].thread = st[s].thread /\ st'[s].descriptor = d
               /\ st'[s].ws = c /\ st'[s].profile = arg[c].profile
               /\ st'[s].gen = st[s].gen + 1 /\ st'[s].deleted = st[s].deleted
               /\ workspaces' = workspaces \ {arg[c].prev}
               /\ registry' = With(Without(registry, arg[c].d), d, s)
<1> DEFINE s == arg[c].existing
           d == MigratedDescriptor(c)
           x == [st[s] EXCEPT !.descriptor = d, !.profile = arg[c].profile]
<1>1. s \in Calls
  BY DEF TypeOK, ArgOK, MaybeCall
<1>2. /\ Rebind(c, s, x) /\ Goto(c, "announcing")
      /\ workspaces' = workspaces \ {arg[c].prev}
      /\ registry' = With(Without(registry, arg[c].d), d, s)
  BY DEF Migrated, WorkspacesAfterRebind
<1> HIDE DEF d
<1>3. /\ DOMAIN x = DOMAIN NoState /\ x.gen \in Nat /\ x.thread \in MaybeCall
      /\ x.deleted \in BOOLEAN
      /\ x.gen = st[s].gen /\ x.thread = st[s].thread /\ x.descriptor = d
      /\ x.profile = arg[c].profile /\ x.deleted = st[s].deleted
  <2>1. StateOK(st[s])
    BY <1>1 DEF TypeOK
  <2> QED BY <2>1 DEF StateOK, NoState
<1> HIDE DEF x
<1>4. /\ OnlyCall(c) /\ pc'[c] = "announcing" /\ arg'[c].existing = s /\ OnlyState(s)
      /\ st'[s].thread = x.thread /\ st'[s].descriptor = x.descriptor /\ st'[s].ws = c
      /\ st'[s].profile = x.profile /\ st'[s].gen = x.gen + 1 /\ st'[s].deleted = x.deleted
  BY <1>1, <1>2, <1>3, RebindEffect
<1> QED BY <1>1, <1>2, <1>3, <1>4 DEF d

(* thread_resume() answered migrate_session() and a new state is made.     *)
LEMMA MigratedNew ==
    ASSUME TypeOK, NEW c \in Calls, Migrated(c), arg[c].existing = None
    PROVE  LET d == MigratedDescriptor(c)
           IN  /\ OnlyCall(c) /\ pc'[c] = "announcing" /\ arg'[c].existing = c
               /\ OnlyState(c) /\ st'[c].thread = ThreadOf(arg[c].d) /\ st'[c].descriptor = d
               /\ st'[c].ws = c /\ st'[c].profile = arg[c].profile
               /\ st'[c].gen = 0 /\ st'[c].deleted = FALSE
               /\ registry' = With(registry, d, c) /\ UNCHANGED workspaces
<1> DEFINE d == MigratedDescriptor(c)
           t == ThreadOf(arg[c].d)
           p == arg[c].profile
<1>1. /\ st' = [st EXCEPT ![c] = [NoState EXCEPT !.thread = t, !.descriptor = d, !.ws = c,
                                    !.profile = p]]
      /\ registry' = With(registry, d, c) /\ UNCHANGED workspaces
      /\ arg' = [arg EXCEPT ![c].existing = c]
      /\ Goto(c, "announcing")
  BY DEF Migrated
<1>2. t \in MaybeCall
  BY DEF Migrated, TypeOK, MaybeCall
<1> HIDE DEF d, t, p
<1>3. OnlyCall(c) /\ pc'[c] = "announcing" /\ arg'[c].existing = c
  BY <1>1, ExistingEffect
<1> DEFINE x == [NoState EXCEPT !.thread = t, !.descriptor = d, !.ws = c, !.profile = p]
<1>4. /\ StateOK(x) /\ x.thread = t /\ x.descriptor = d /\ x.ws = c /\ x.profile = p
      /\ x.gen = 0 /\ x.deleted = FALSE
  BY <1>2 DEF StateOK, NoState, MaybeCall
<1>5. st' = [st EXCEPT ![c] = x]
  BY <1>1
<1> HIDE DEF x
<1>6. OnlyState(c) /\ st'[c] = x
  BY <1>4, <1>5 DEF TypeOK, OnlyState
<1> QED BY <1>1, <1>3, <1>4, <1>6 DEF d, t, p

(* The handle is returned.                                                 *)
LEMMA ReturnEffect ==
    ASSUME TypeOK, NEW c \in Calls, Return(c)
    PROVE  LET s == arg[c].existing
           IN  /\ OnlyCall(c) /\ pc'[c] = "done" /\ arg'[c].existing = None
               /\ OnlyHandle(c) /\ hd'[c].state = s /\ hd'[c].gen = st[s].gen
               /\ hd'[c].descriptor = st[s].descriptor /\ hd'[c].closed = FALSE
<1> DEFINE s == arg[c].existing
           g == st[s].gen
           d == st[s].descriptor
           x == [NoHandle EXCEPT !.state = s, !.gen = g, !.descriptor = d]
<1>1. g \in Nat /\ s \in MaybeCall
  BY DEF TypeOK, StateOK, MaybeCall, Return
<1>2. hd' = [hd EXCEPT ![c] = x] /\ Finish(c)
  BY DEF Return
<1> HIDE DEF s, g, d
<1>3. HandleOK(x) /\ x.state = s /\ x.gen = g /\ x.descriptor = d /\ x.closed = FALSE
  BY <1>1 DEF HandleOK, NoHandle
<1> HIDE DEF x
<1>4. OnlyHandle(c) /\ hd'[c] = x
  BY <1>2, <1>3 DEF TypeOK, OnlyHandle
<1> QED BY <1>2, <1>3, <1>4, FinishEffect DEF s, g, d

-----------------------------------------------------------------------------
(* The steps that add nothing: no descriptor, state or handle appears or   *)
(* changes what it denotes, and no call begins to create.                  *)
CoreFrame ==
    /\ UNCHANGED <<serial, origin>>
    /\ rt' \in Usable /\ rt'.config = rt.config
    /\ rt' = rt \/ \A c \in Calls : pc[c] # "threading"
    /\ started' \in BOOLEAN /\ threads' \subseteq Calls /\ workspaces' \subseteq workspaces
    /\ DOMAIN registry' \subseteq DOMAIN registry
    /\ \A d \in DOMAIN registry' : registry'[d] = registry[d]
    /\ DOMAIN st' = Calls /\ \A s \in Calls : SameState(s)
    /\ DOMAIN hd' = Calls /\ \A h \in Calls : SameHandle(h)
    /\ DOMAIN pc' = Calls /\ DOMAIN arg' = Calls
    /\ \A c \in Calls :
          /\ pc'[c] \in PCs /\ ArgOK(arg'[c])
          /\ pc'[c] \in OnHandlePCs => arg'[c].h \in Calls
          /\ SameCall(c) \/ (pc'[c] \in OnHandlePCs \cup {"done"} /\ arg'[c].existing = None)

(* What does not change denotes what it denoted.                           *)
LEMMA UnchangedFrame ==
    ASSUME TypeOK
    PROVE  /\ UNCHANGED st => DOMAIN st' = Calls /\ \A s \in Calls : SameState(s)
           /\ UNCHANGED hd => DOMAIN hd' = Calls /\ \A h \in Calls : SameHandle(h)
           /\ UNCHANGED registry => /\ DOMAIN registry' \subseteq DOMAIN registry
                                    /\ \A d \in DOMAIN registry' : registry'[d] = registry[d]
BY DEF TypeOK, SameState, SameHandle

(* One call ends or waits on a handle.                                     *)
LEMMA CallFrame ==
    ASSUME TypeOK, NEW c \in Calls, OnlyCall(c), arg'[c].existing = None,
           \/ pc'[c] = "done"
           \/ pc'[c] \in OnHandlePCs /\ arg'[c].h \in Calls
    PROVE  /\ DOMAIN pc' = Calls /\ DOMAIN arg' = Calls
           /\ \A x \in Calls :
                 /\ pc'[x] \in PCs /\ ArgOK(arg'[x])
                 /\ pc'[x] \in OnHandlePCs => arg'[x].h \in Calls
                 /\ SameCall(x) \/ (pc'[x] \in OnHandlePCs \cup {"done"} /\ arg'[x].existing = None)
<1>1. \A x \in Calls : pc[x] \in PCs /\ ArgOK(arg[x])
                     /\ (pc[x] \in OnHandlePCs => arg[x].h \in Calls)
  BY DEF TypeOK
<1>2. \A x \in Calls \ {c} : pc'[x] = pc[x] /\ arg'[x] = arg[x]
  BY DEF OnlyCall, SameCall
<1>3. DOMAIN pc' = Calls /\ DOMAIN arg' = Calls /\ pc'[c] \in PCs /\ ArgOK(arg'[c])
  BY DEF OnlyCall
<1> QED BY <1>1, <1>2, <1>3 DEF SameCall, OnHandlePCs

(* No call moves.                                                          *)
LEMMA NoCallFrame ==
    ASSUME TypeOK, UNCHANGED <<pc, arg>>
    PROVE  /\ DOMAIN pc' = Calls /\ DOMAIN arg' = Calls
           /\ \A x \in Calls :
                 /\ pc'[x] \in PCs /\ ArgOK(arg'[x])
                 /\ pc'[x] \in OnHandlePCs => arg'[x].h \in Calls
                 /\ SameCall(x) \/ (pc'[x] \in OnHandlePCs \cup {"done"} /\ arg'[x].existing = None)
<1>1. /\ DOMAIN pc = Calls /\ DOMAIN arg = Calls
      /\ \A x \in Calls : pc[x] \in PCs /\ ArgOK(arg[x])
                     /\ (pc[x] \in OnHandlePCs => arg[x].h \in Calls)
  BY DEF TypeOK
<1>2. pc' = pc /\ arg' = arg
  OBVIOUS
<1> QED BY <1>1, <1>2 DEF SameCall

(* Actions that only end a call, and those of handles and turns.           *)
Ends(c) ==
    \/ CreateFails(c) \/ RebindFails(c) \/ CallCancelled(c) \/ AnnounceFails(c)
    \/ HandleCallFails(c) \/ Closes(c) \/ Archived(c) \/ Deleted(c)

(* A call that ends is such a step.                                        *)
LEMMA EndsFrame ==
    ASSUME TypeOK, NEW c \in Calls, Ends(c)
    PROVE  CoreFrame
<1>1. Finish(c)
  BY DEF Ends, CreateFails, RebindFails, CallCancelled, AnnounceFails, HandleCallFails, Closes,
         Archived, Deleted
<1>2. OnlyCall(c) /\ pc'[c] = "done" /\ arg'[c].existing = None
  BY <1>1, FinishEffect
<1>3. CASE \/ CreateFails(c) \/ RebindFails(c) \/ CallCancelled(c) \/ AnnounceFails(c)
           \/ HandleCallFails(c)
  <2>1. /\ UNCHANGED <<rtVars, registry, st, hd, origin>> /\ workspaces' \subseteq workspaces
        /\ threads' \subseteq threads
    BY <1>3 DEF CreateFails, RebindFails, CallCancelled, AnnounceFails, HandleCallFails, diskVars
  <2> QED BY <1>2, <2>1, CallFrame, UnchangedFrame DEF CoreFrame, TypeOK, rtVars
<1>4. CASE Closes(c)
  <2>1. /\ UNCHANGED <<rtVars, threads, registry, st, origin>> /\ workspaces' \subseteq workspaces
        /\ hd' = [hd EXCEPT ![arg[c].h].closed = TRUE] /\ arg[c].h \in Calls
    BY <1>4 DEF Closes, TypeOK, OnHandlePCs
  <2>2. DOMAIN hd' = Calls /\ \A x \in Calls : SameHandle(x)
    BY <2>1, CloseHandleEffect
  <2> QED BY <1>2, <2>1, <2>2, CallFrame, UnchangedFrame DEF CoreFrame, TypeOK, rtVars
<1>5. CASE Archived(c)
  <2>1. /\ UNCHANGED <<rtVars, threads, registry, hd, origin, workspaces>>
        /\ SameStates
    BY <1>5, ArchivedEffect DEF Archived, diskVars
  <2> QED BY <1>2, <2>1, CallFrame, UnchangedFrame DEF CoreFrame, TypeOK, rtVars, SameStates
<1>6. CASE Deleted(c)
  <2>1. /\ UNCHANGED <<rtVars, registry, origin>> /\ workspaces' \subseteq workspaces
        /\ threads' \subseteq threads
        /\ hd' = [hd EXCEPT ![arg[c].h].closed = TRUE] /\ arg[c].h \in Calls
    BY <1>6 DEF Deleted, TypeOK, OnHandlePCs
  <2>2. DOMAIN hd' = Calls /\ \A x \in Calls : SameHandle(x)
    BY <2>1, CloseHandleEffect
  <2>3. DOMAIN st' = Calls /\ \A x \in Calls : SameState(x)
    BY <1>6, DeletedEffect
  <2> QED BY <1>2, <2>1, <2>2, <2>3, CallFrame, UnchangedFrame DEF CoreFrame, TypeOK, rtVars
<1> QED BY <1>3, <1>4, <1>5, <1>6 DEF Ends

OnHandles(c) ==
    \/ \E h \in Calls : Close(c, h) \/ Archive(c, h) \/ Delete(c, h)
    \/ Turn(c) \/ TurnStarts(c) \/ TurnEnds(c)

(* So are turns and the calls of a handle,                                 *)
LEMMA OnHandlesFrame ==
    ASSUME TypeOK, NEW c \in Calls, OnHandles(c)
    PROVE  CoreFrame
<1>1. ASSUME NEW h \in Calls, Close(c, h) \/ Archive(c, h) \/ Delete(c, h)
      PROVE  CoreFrame
  <2>1. UNCHANGED <<rtVars, threads, registry, st, origin>> /\ workspaces' \subseteq workspaces
    BY <1>1 DEF Close, Archive, Delete, diskVars
  <2>2. /\ OnlyCall(c) /\ arg'[c].existing = None
        /\ pc'[c] \in OnHandlePCs => arg'[c].h = h
        /\ pc'[c] \in OnHandlePCs \cup {"done"}
        /\ DOMAIN hd' = Calls /\ \A x \in Calls : SameHandle(x)
    BY <1>1, HandleCallEffect
  <2> QED BY <2>1, <2>2, CallFrame, UnchangedFrame DEF CoreFrame, TypeOK, rtVars
<1>2. CASE Turn(c) \/ TurnStarts(c) \/ TurnEnds(c)
  <2>1. UNCHANGED <<rtVars, pc, arg, threads, registry, hd, workspaces, origin>>
    BY <1>2 DEF Turn, TurnStarts, TurnEnds, diskVars
  <2>2. SameStates
    BY <1>2, TurnEffect
  <2> QED BY <2>1, <2>2, NoCallFrame, UnchangedFrame DEF CoreFrame, TypeOK, rtVars, SameStates
<1> QED BY <1>1, <1>2 DEF OnHandles

(* the close of the runtime,                                               *)
LEMMA CloseRuntimeFrame ==
    ASSUME TypeOK, CloseRuntime
    PROVE  CoreFrame
<1>1. /\ UNCHANGED <<rt, serial, pc, arg, threads, st, hd, origin>>
      /\ started' = FALSE /\ workspaces' \subseteq workspaces /\ DOMAIN registry' = {}
  BY DEF CloseRuntime
<1> QED BY <1>1, NoCallFrame, UnchangedFrame DEF CoreFrame, TypeOK

(* a start() after it,                                                     *)
LEMMA StartAgainEffect ==
    ASSUME TypeOK, NEW r, StartAgain(r)
    PROVE  /\ DOMAIN st' = Calls
           /\ \A s \in Calls : SameState(s) /\ st'[s].deleted = st[s].deleted /\ ~st'[s].live
<1>1. \A s \in Calls : StateOK(st[s])
  BY DEF TypeOK
<1>2. ASSUME NEW s \in Calls
      PROVE  LET x == [st[s] EXCEPT !.live = FALSE]
             IN  /\ StateOK(x) /\ x.thread = st[s].thread /\ x.descriptor = st[s].descriptor
                 /\ x.profile = st[s].profile /\ x.ws = st[s].ws /\ x.gen = st[s].gen
                 /\ x.deleted = st[s].deleted /\ ~x.live
  BY <1>1 DEF StateOK, NoState
<1>3. st' = [s \in Calls |-> [st[s] EXCEPT !.live = FALSE]]
  BY DEF StartAgain
<1> QED BY <1>2, <1>3 DEF SameState

LEMMA StartAgainFrame ==
    ASSUME TypeOK, NEW r \in Usable, StartAgain(r)
    PROVE  CoreFrame
<1>1. /\ UNCHANGED <<serial, pc, arg, threads, registry, hd, workspaces, origin>>
      /\ started' = TRUE /\ rt' = r /\ r.config = rt.config
      /\ \A c \in Calls : pc[c] # "threading"
  BY DEF StartAgain, diskVars
<1> QED BY <1>1, NoCallFrame, UnchangedFrame, StartAgainEffect DEF CoreFrame, TypeOK

(* and a step of something else.                                           *)
LEMMA StutterFrame ==
    ASSUME TypeOK, UNCHANGED vars
    PROVE  CoreFrame
BY NoCallFrame, UnchangedFrame DEF CoreFrame, TypeOK, vars, rtVars, diskVars

(* Every step is one of nine kinds.                                        *)
LEMMA Steps ==
    ASSUME TypeOK, [Next]_vars
    PROVE  \/ CoreFrame
           \/ \E c \in Calls :
                 \/ \E p \in Builtin \cup DOMAIN rt.config.specs :
                       \/ \E o \in Overrides, b \in BOOLEAN : Create(c, p, o, b)
                       \/ \E d \in DOMAIN origin \cup Foreign : Migrate(c, d, p)
                 \/ \E d \in DOMAIN origin \cup Foreign, b \in BOOLEAN : Resume(c, d, b)
                 \/ Created(c) \/ Return(c) \/ Resumed(c) \/ Migrated(c)
           \/ \E r \in Usable : Restart(r)
BY EndsFrame, OnHandlesFrame, CloseRuntimeFrame, StartAgainFrame, StutterFrame
   DEF Next, Ends, OnHandles

(* Without() removes one entry.                                            *)
LEMMA WithoutFacts ==
    ASSUME NEW f, NEW d
    PROVE  /\ DOMAIN Without(f, d) = DOMAIN f \ {d}
           /\ \A x \in DOMAIN Without(f, d) : x \in DOMAIN f /\ Without(f, d)[x] = f[x]
BY DEF Without

(* A restart leaves what the host and the provider keep.                   *)
LEMMA RestartEffect ==
    ASSUME TypeOK, NEW r \in Usable, Restart(r)
    PROVE  /\ rt' = r /\ started' = TRUE /\ UNCHANGED <<serial, threads, origin>>
           /\ DOMAIN registry' = {} /\ workspaces' = {}
           /\ DOMAIN st' = Calls /\ \A s \in Calls : st'[s] = NoState
           /\ DOMAIN hd' = Calls /\ \A h \in Calls : hd'[h] = NoHandle
           /\ DOMAIN arg' = Calls /\ \A c \in Calls : arg'[c] = NoArg
           /\ DOMAIN pc' = Calls
           /\ \A c \in Calls : pc'[c] = IF pc[c] = "idle" THEN "idle" ELSE "done"
BY DEF Restart

(* The type invariant, for the steps that add nothing.                     *)
LEMMA FrameType ==
    ASSUME TypeOK, CoreFrame
    PROVE  TypeOK'
<1>1. \A c \in Calls : pc'[c] = "announcing" => arg'[c].existing \in Calls
  BY DEF TypeOK, CoreFrame, SameCall, OnHandlePCs
<1>2. \A s \in Calls : StateOK(st'[s])
  BY DEF CoreFrame, SameState
<1>3. \A h \in Calls : HandleOK(hd'[h])
  BY DEF CoreFrame, SameHandle
<1>4. \A d \in DOMAIN registry' : registry'[d] \in Calls
  BY DEF TypeOK, CoreFrame
<1>5. serial' \in BOOLEAN /\ started' \in BOOLEAN /\ rt' \in Usable
  BY DEF TypeOK, CoreFrame
<1> QED BY <1>1, <1>2, <1>3, <1>4, <1>5 DEF TypeOK, CoreFrame

(* What a call of the action at hand leaves to the type invariant.         *)
LEMMA CallType ==
    ASSUME TypeOK, NEW c \in Calls, OnlyCall(c), pc'[c] \notin OnHandlePCs,
           pc'[c] = "announcing" => arg'[c].existing \in Calls
    PROVE  /\ DOMAIN pc' = Calls /\ DOMAIN arg' = Calls
           /\ \A x \in Calls :
                 /\ pc'[x] \in PCs /\ ArgOK(arg'[x])
                 /\ pc'[x] \in OnHandlePCs => arg'[x].h \in Calls
                 /\ pc'[x] = "announcing" => arg'[x].existing \in Calls
<1>1. \A x \in Calls : /\ pc[x] \in PCs /\ ArgOK(arg[x])
                       /\ pc[x] \in OnHandlePCs => arg[x].h \in Calls
                       /\ pc[x] = "announcing" => arg[x].existing \in Calls
  BY DEF TypeOK
<1>2. \A x \in Calls \ {c} : pc'[x] = pc[x] /\ arg'[x] = arg[x]
  BY DEF OnlyCall, SameCall
<1>3. DOMAIN pc' = Calls /\ DOMAIN arg' = Calls /\ pc'[c] \in PCs /\ ArgOK(arg'[c])
  BY DEF OnlyCall
<1> QED BY <1>1, <1>2, <1>3

(* The type invariant, for a call that begins to create.                   *)
LEMMA BeginType ==
    ASSUME TypeOK, NEW c \in Calls, OnlyCall(c), pc'[c] = "threading",
           UNCHANGED <<rtVars, threads, registry, st, hd>>, workspaces' = workspaces \cup {c}
    PROVE  TypeOK'
<1>1. pc'[c] \notin OnHandlePCs /\ pc'[c] # "announcing"
  BY DEF OnHandlePCs
<1> QED BY <1>1, CallType DEF TypeOK, rtVars

(* The type invariant, for a call that makes or rebinds a state.           *)
LEMMA StateType ==
    ASSUME TypeOK, NEW c \in Calls, OnlyCall(c), pc'[c] = "announcing", arg'[c].existing \in Calls,
           NEW s \in Calls, OnlyState(s), UNCHANGED <<rtVars, hd>>, threads' \subseteq threads \cup {c},
           workspaces' \subseteq workspaces, \A d \in DOMAIN registry' : registry'[d] \in Calls
    PROVE  TypeOK'
<1>1. pc'[c] \notin OnHandlePCs
  BY DEF OnHandlePCs
<1>2. DOMAIN st' = Calls /\ \A x \in Calls : StateOK(st'[x])
  BY DEF TypeOK, OnlyState
<1> QED BY <1>1, <1>2, CallType DEF TypeOK, rtVars

(* The registry leads to states.                                           *)
LEMMA WithType ==
    ASSUME TypeOK, NEW d, NEW e, NEW s \in Calls,
           \/ registry' = With(registry, d, s)
           \/ registry' = With(Without(registry, e), d, s)
           \/ UNCHANGED registry
    PROVE  \A x \in DOMAIN registry' : registry'[x] \in Calls
<1>1. \A x \in DOMAIN registry : registry[x] \in Calls
  BY DEF TypeOK
<1>2. CASE registry' = With(registry, d, s)
  <2> TAKE x \in DOMAIN registry'
  <2>1. x = d => registry'[x] = s
    BY <1>2 DEF With
  <2>2. x # d => x \in DOMAIN registry /\ registry'[x] = registry[x]
    BY <1>2 DEF With
  <2> QED BY <1>1, <2>1, <2>2
<1>3. CASE registry' = With(Without(registry, e), d, s)
  <2> TAKE x \in DOMAIN registry'
  <2> DEFINE w == Without(registry, e)
  <2>1. x = d => registry'[x] = s
    BY <1>3 DEF With
  <2>2. x # d => x \in DOMAIN w /\ registry'[x] = w[x]
    BY <1>3 DEF With
  <2>3. x \in DOMAIN w => x \in DOMAIN registry /\ w[x] = registry[x]
    BY WithoutFacts
  <2> QED BY <1>1, <2>1, <2>2, <2>3
<1>4. CASE UNCHANGED registry
  BY <1>1, <1>4
<1> QED BY <1>2, <1>3, <1>4

(* Every step keeps the type invariant.                                    *)
LEMMA TypeStep == TypeOK /\ [Next]_vars => TypeOK'
<1> SUFFICES ASSUME TypeOK, [Next]_vars PROVE TypeOK'
  OBVIOUS
<1>1. CASE CoreFrame
  BY <1>1, FrameType
<1>2. ASSUME NEW c \in Calls, NEW p, NEW o, NEW b, Create(c, p, o, b) PROVE TypeOK'
  BY <1>2, CreateEffect, BeginType DEF Create
<1>3. ASSUME NEW c \in Calls, NEW d, NEW p, Migrate(c, d, p) PROVE TypeOK'
  BY <1>3, MigrateEffect, BeginType DEF Migrate
<1>4. ASSUME NEW c \in Calls, NEW d, NEW b, Resume(c, d, b) PROVE TypeOK'
  BY <1>4, ResumeEffect, BeginType DEF Resume
<1>5. ASSUME NEW c \in Calls, Created(c) PROVE TypeOK'
  <2>1. UNCHANGED <<rtVars, hd, workspaces>> /\ threads' = threads \cup {c}
    BY <1>5 DEF Created, diskVars
  <2>2. /\ OnlyCall(c) /\ pc'[c] = "announcing" /\ arg'[c].existing \in Calls /\ OnlyState(c)
        /\ \E d : registry' = With(registry, d, c)
    BY <1>5, CreatedEffect
  <2>3. \A x \in DOMAIN registry' : registry'[x] \in Calls
    BY <2>2, WithType
  <2> QED BY <2>1, <2>2, <2>3, StateType
<1>6. ASSUME NEW c \in Calls, Return(c) PROVE TypeOK'
  <2>1. UNCHANGED <<rtVars, threads, registry, st, workspaces>>
    BY <1>6 DEF Return, diskVars
  <2>2. pc'[c] \notin OnHandlePCs /\ pc'[c] # "announcing" /\ OnlyCall(c)
    BY <1>6, ReturnEffect DEF OnHandlePCs
  <2>3. DOMAIN hd' = Calls /\ \A x \in Calls : HandleOK(hd'[x])
    BY <1>6, ReturnEffect DEF TypeOK, OnlyHandle
  <2> QED BY <2>1, <2>2, <2>3, CallType DEF TypeOK, rtVars
<1>7. ASSUME NEW c \in Calls, Resumed(c) PROVE TypeOK'
  <2>1. UNCHANGED <<rtVars, threads, hd>>
    BY <1>7 DEF Resumed
  <2>2. CASE ResumesExisting(c)
    <3>1. /\ OnlyCall(c) /\ pc'[c] = "announcing" /\ arg'[c].existing = arg[c].existing
          /\ arg[c].existing \in Calls /\ OnlyState(arg[c].existing) /\ UNCHANGED registry
          /\ workspaces' = workspaces \ {st[arg[c].existing].ws}
      BY <1>7, <2>2, ResumedOld
    <3>2. \A x \in DOMAIN registry' : registry'[x] \in Calls
      BY <3>1, WithType
    <3> QED BY <2>1, <3>1, <3>2, StateType
  <2>3. CASE ~ResumesExisting(c)
    <3>1. /\ OnlyCall(c) /\ pc'[c] = "announcing" /\ arg'[c].existing = c /\ OnlyState(c)
          /\ registry' = With(registry, arg[c].d, c) /\ UNCHANGED workspaces
      BY <1>7, <2>3, ResumedNew
    <3>2. \A x \in DOMAIN registry' : registry'[x] \in Calls
      BY <3>1, WithType
    <3> QED BY <2>1, <3>1, <3>2, StateType
  <2> QED BY <2>2, <2>3
<1>8. ASSUME NEW c \in Calls, Migrated(c) PROVE TypeOK'
  <2>1. UNCHANGED <<rtVars, threads, hd>>
    BY <1>8 DEF Migrated
  <2>2. CASE arg[c].existing # None
    <3>1. /\ OnlyCall(c) /\ pc'[c] = "announcing" /\ arg'[c].existing = arg[c].existing
          /\ arg[c].existing \in Calls /\ OnlyState(arg[c].existing)
          /\ \E d : registry' = With(Without(registry, arg[c].d), d, arg[c].existing)
          /\ workspaces' = workspaces \ {arg[c].prev}
      BY <1>8, <2>2, MigratedOld
    <3>2. \A x \in DOMAIN registry' : registry'[x] \in Calls
      BY <3>1, WithType
    <3> QED BY <2>1, <3>1, <3>2, StateType
  <2>3. CASE arg[c].existing = None
    <3>1. /\ OnlyCall(c) /\ pc'[c] = "announcing" /\ arg'[c].existing \in Calls /\ OnlyState(c)
          /\ \E d : registry' = With(registry, d, c)
          /\ UNCHANGED workspaces
      BY <1>8, <2>3, MigratedNew
    <3>2. \A x \in DOMAIN registry' : registry'[x] \in Calls
      BY <3>1, WithType
    <3> QED BY <2>1, <3>1, <3>2, StateType
  <2> QED BY <2>2, <2>3
<1>9. ASSUME NEW r \in Usable, Restart(r) PROVE TypeOK'
  <2>1. \A c \in Calls : pc'[c] \in {"idle", "done"}
    BY <1>9, RestartEffect
  <2> QED BY <1>9, <2>1, RestartEffect, Blank DEF TypeOK, PCs, OnHandlePCs
<1> QED BY <1>1, <1>2, <1>3, <1>4, <1>5, <1>6, <1>7, <1>8, <1>9, Steps

(* The tables after a registration and after a descriptor was issued.      *)
Registers(d, s, gone) ==
    /\ DOMAIN registry' = (DOMAIN registry \ gone) \cup {d}
    /\ registry'[d] = s
    /\ \A x \in DOMAIN registry' \ {d} : registry'[x] = registry[x]

(* The two ways in which a state is registered.                            *)
LEMMA RegistryEffect ==
    ASSUME NEW d, NEW e, NEW s
    PROVE  /\ registry' = With(registry, d, s) => Registers(d, s, {})
           /\ registry' = With(Without(registry, e), d, s) => Registers(d, s, {e})
<1>1. ASSUME registry' = With(registry, d, s) PROVE Registers(d, s, {})
  BY <1>1 DEF With, Registers
<1>2. ASSUME registry' = With(Without(registry, e), d, s) PROVE Registers(d, s, {e})
  <2> DEFINE w == Without(registry, e)
  <2>1. DOMAIN w = DOMAIN registry \ {e} /\ \A x \in DOMAIN w : w[x] = registry[x]
    BY DEF Without
  <2> HIDE DEF w
  <2>2. registry' = With(w, d, s)
    BY <1>2 DEF w
  <2>3. DOMAIN registry' = DOMAIN w \cup {d} /\ registry'[d] = s
        /\ \A x \in DOMAIN registry' \ {d} : registry'[x] = w[x]
    BY <2>2 DEF With
  <2> QED BY <2>1, <2>3 DEF Registers
<1> QED BY <1>1, <1>2

(* A descriptor becomes known to the host.                                 *)
LEMMA IssueEffect ==
    ASSUME NEW d, NEW o, NEW b, Issue(d, o, b)
    PROVE  /\ DOMAIN origin' = DOMAIN origin \cup {d}
           /\ origin'[d].rt = rt /\ origin'[d].override = o /\ origin'[d].tools = b
           /\ \A x \in DOMAIN origin' \ {d} : origin'[x] = origin[x]
BY DEF Issue, With

(* The descriptors that session() and migrate_session() make.              *)
CreatedDescriptor(c) ==
    MakeDescriptor(Binding(rt.config, arg[c].profile, arg[c].override), arg[c].profile, c, None)

(* The descriptor of session() names the new thread.                       *)
LEMMA CreatedFields ==
    ASSUME NEW c \in Calls, Created(c)
    PROVE  LET d == CreatedDescriptor(c)
           IN  /\ ThreadOf(d) = c /\ NonceOf(d) = None
               /\ Decode(d)["profile"] = arg[c].profile
               /\ Decode(d)["security_policy"] = ProfileOf(arg[c].profile).security
               /\ Issue(d, arg[c].override, arg[c].tools)
<1>1. Issue(CreatedDescriptor(c), arg[c].override, arg[c].tools)
  BY DEF Created, CreatedDescriptor
<1> QED BY <1>1, DescriptorFields DEF CreatedDescriptor

(* The descriptor of migrate_session() names the old thread, and the call  *)
(* as its nonce.                                                           *)
LEMMA MigratedFields ==
    ASSUME NEW c \in Calls, Migrated(c)
    PROVE  LET d == MigratedDescriptor(c)
           IN  /\ ThreadOf(d) = ThreadOf(arg[c].d) /\ NonceOf(d) = c
               /\ Decode(d)["profile"] = arg[c].profile
               /\ Decode(d)["security_policy"] = ProfileOf(arg[c].profile).security
               /\ Issue(d, NoOverride, FALSE)
<1>1. Issue(MigratedDescriptor(c), NoOverride, FALSE)
  BY DEF Migrated
<1> DEFINE b == Binding(rt.config, arg[c].profile, NoOverride)
           p == arg[c].profile
           t == ThreadOf(arg[c].d)
<1>2. MigratedDescriptor(c) = MakeDescriptor(b, p, t, c)
  BY DEF MigratedDescriptor
<1> HIDE DEF b, t
<1>3. /\ ThreadOf(MigratedDescriptor(c)) = t /\ NonceOf(MigratedDescriptor(c)) = c
      /\ Decode(MigratedDescriptor(c))["profile"] = p
      /\ Decode(MigratedDescriptor(c))["security_policy"] = ProfileOf(p).security
  BY <1>2, DescriptorFields
<1> QED BY <1>1, <1>3 DEF t

-----------------------------------------------------------------------------
(* What a call creates is new.                                             *)
LEMMA FreshStep ==
    ASSUME TypeOK, FreshInv, ThreadInv, [Next]_vars
    PROVE  FreshInv'
<1> SUFFICES ASSUME NEW n \in Calls, pc'[n] \in Unborn
             PROVE  /\ st'[n].thread = None
                    /\ \A d \in DOMAIN registry' : registry'[d] # n
                    /\ \A x \in Calls : arg'[x].existing # n /\ hd'[x].state # n /\ st'[x].ws # n
                    /\ \A d \in DOMAIN origin' : ThreadOf(d) # n /\ NonceOf(d) # n
  BY DEF FreshInv
<1> DEFINE Goal == /\ st'[n].thread = None
                   /\ \A d \in DOMAIN registry' : registry'[d] # n
                   /\ \A x \in Calls : arg'[x].existing # n /\ hd'[x].state # n /\ st'[x].ws # n
                   /\ \A d \in DOMAIN origin' : ThreadOf(d) # n /\ NonceOf(d) # n
<1>0. None # n
  BY CallsAssumption
<1>f. pc[n] \in Unborn =>
        /\ st[n].thread = None
        /\ \A d \in DOMAIN registry : registry[d] # n
        /\ \A x \in Calls : arg[x].existing # n /\ hd[x].state # n /\ st[x].ws # n
        /\ \A d \in DOMAIN origin : ThreadOf(d) # n /\ NonceOf(d) # n
  BY DEF FreshInv
<1>1. CASE CoreFrame
  <2>1. pc[n] \in Unborn
    BY <1>1 DEF CoreFrame, SameCall, Unborn, OnHandlePCs
  <2> QED BY <1>0, <1>1, <1>f, <2>1 DEF CoreFrame, SameCall, SameState, SameHandle
<1>2. ASSUME NEW c \in Calls, NEW p, NEW o, NEW b, Create(c, p, o, b) PROVE Goal
  <2>1. UNCHANGED <<registry, st, hd, origin>>
    BY <1>2 DEF Create
  <2>2. pc[n] \in Unborn /\ \A x \in Calls : arg'[x].existing # n
    BY <1>0, <1>2, <1>f, CreateEffect DEF OnlyCall, SameCall, Unborn
  <2> QED BY <1>f, <2>1, <2>2
<1>3. ASSUME NEW c \in Calls, NEW d, NEW p, Migrate(c, d, p) PROVE Goal
  <2>1. UNCHANGED <<registry, st, hd, origin>>
    BY <1>3 DEF Migrate
  <2>2. pc[n] \in Unborn
    BY <1>3, MigrateEffect DEF OnlyCall, SameCall, Unborn
  <2>3. Existing(d) # n
    BY <1>0, <1>f, <2>2 DEF Existing
  <2>4. \A x \in Calls : arg'[x].existing # n
    BY <1>3, <1>f, <2>2, <2>3, MigrateEffect DEF OnlyCall, SameCall
  <2> QED BY <1>f, <2>1, <2>2, <2>4
<1>4. ASSUME NEW c \in Calls, NEW d, NEW b, Resume(c, d, b) PROVE Goal
  <2>1. UNCHANGED <<registry, st, hd, origin>>
    BY <1>4 DEF Resume
  <2>2. pc[n] \in Unborn
    BY <1>4, ResumeEffect DEF OnlyCall, SameCall, Unborn
  <2>4. \A x \in Calls : arg'[x].existing # n
    BY <1>0, <1>4, <1>f, <2>2, ResumeEffect DEF OnlyCall, SameCall
  <2> QED BY <1>f, <2>1, <2>2, <2>4
<1>5. ASSUME NEW c \in Calls, Created(c) PROVE Goal
  <2> DEFINE d == CreatedDescriptor(c)
  <2>1. /\ OnlyCall(c) /\ pc'[c] = "announcing" /\ arg'[c].existing = c
        /\ OnlyState(c) /\ st'[c].ws = c /\ Registers(d, c, {}) /\ UNCHANGED hd
    BY <1>5, CreatedEffect, RegistryEffect DEF Created, CreatedDescriptor
  <2>2. DOMAIN origin' = DOMAIN origin \cup {d} /\ ThreadOf(d) = c /\ NonceOf(d) = None
    BY <1>5, CreatedFields, IssueEffect
  <2> HIDE DEF d
  <2>3. n # c /\ pc[n] \in Unborn
    BY <2>1 DEF OnlyCall, SameCall, Unborn
  <2>4. \A x \in Calls : arg'[x].existing # n /\ hd'[x].state # n /\ st'[x].ws # n
    BY <1>f, <2>1, <2>3 DEF OnlyCall, SameCall, OnlyState
  <2>5. \A x \in DOMAIN registry' : registry'[x] # n
    BY <1>f, <2>1, <2>3 DEF Registers
  <2> QED BY <1>0, <1>f, <2>1, <2>2, <2>3, <2>4, <2>5 DEF OnlyState
<1>6. ASSUME NEW c \in Calls, Return(c) PROVE Goal
  <2>1. UNCHANGED <<registry, st, origin>>
    BY <1>6 DEF Return
  <2>2. /\ OnlyCall(c) /\ pc'[c] = "done" /\ arg'[c].existing = None
        /\ OnlyHandle(c) /\ hd'[c].state = arg[c].existing
    BY <1>6, ReturnEffect
  <2>3. n # c /\ pc[n] \in Unborn
    BY <2>2 DEF OnlyCall, SameCall, Unborn
  <2>4. \A x \in Calls : arg'[x].existing # n /\ hd'[x].state # n
    BY <1>0, <1>f, <2>2, <2>3 DEF OnlyCall, SameCall, OnlyHandle
  <2> QED BY <1>f, <2>1, <2>3, <2>4
<1>7. ASSUME NEW c \in Calls, Resumed(c) PROVE Goal
  <2> DEFINE e == arg[c].existing
  <2>1. UNCHANGED <<hd, origin>>
    BY <1>7 DEF Resumed
  <2>2. /\ OnlyCall(c) /\ pc'[c] = "announcing" /\ arg'[c].existing \in {c, e}
    BY <1>7, ResumedOld, ResumedNew
  <2>3. n # c /\ pc[n] \in Unborn
    BY <2>2 DEF OnlyCall, SameCall, Unborn
  <2>4. \A x \in Calls : arg'[x].existing # n
    BY <1>f, <2>2, <2>3 DEF OnlyCall, SameCall
  <2>5. /\ st'[n].thread = None /\ \A x \in Calls : st'[x].ws # n
        /\ \A x \in DOMAIN registry' : registry'[x] # n
    <3>1. CASE ResumesExisting(c)
      <4>1. OnlyState(e) /\ st'[e].ws = c /\ UNCHANGED registry
        BY <1>7, <3>1, ResumedOld
      <4>2. e # n
        BY <1>f, <2>3
      <4> QED BY <1>f, <2>3, <4>1, <4>2 DEF OnlyState
    <3>2. CASE ~ResumesExisting(c)
      <4>1. OnlyState(c) /\ st'[c].ws = c /\ Registers(arg[c].d, c, {})
        BY <1>7, <3>2, ResumedNew, RegistryEffect
      <4> QED BY <1>f, <2>3, <4>1 DEF OnlyState, Registers
    <3> QED BY <3>1, <3>2
  <2> QED BY <1>f, <2>1, <2>3, <2>4, <2>5
<1>8. ASSUME NEW c \in Calls, Migrated(c) PROVE Goal
  <2> DEFINE e == arg[c].existing
             d == MigratedDescriptor(c)
  <2>1. UNCHANGED hd
    BY <1>8 DEF Migrated
  <2>2. /\ OnlyCall(c) /\ pc'[c] = "announcing" /\ arg'[c].existing \in {c, e}
    BY <1>8, MigratedOld, MigratedNew
  <2>3. n # c /\ pc[n] \in Unborn
    BY <2>2 DEF OnlyCall, SameCall, Unborn
  <2>4. \A x \in Calls : arg'[x].existing # n
    BY <1>f, <2>2, <2>3 DEF OnlyCall, SameCall
  <2>5. /\ st'[n].thread = None /\ \A x \in Calls : st'[x].ws # n
        /\ \A x \in DOMAIN registry' : registry'[x] # n
    <3>1. CASE e # None
      <4>1. OnlyState(e) /\ st'[e].ws = c /\ Registers(d, e, {arg[c].d})
        BY <1>8, <3>1, MigratedOld, RegistryEffect
      <4>2. e # n
        BY <1>f, <2>3
      <4> QED BY <1>f, <2>3, <4>1, <4>2 DEF OnlyState, Registers
    <3>2. CASE e = None
      <4>1. OnlyState(c) /\ st'[c].ws = c /\ Registers(d, c, {})
        BY <1>8, <3>2, MigratedNew, RegistryEffect
      <4> QED BY <1>f, <2>3, <4>1 DEF OnlyState, Registers
    <3> QED BY <3>1, <3>2
  <2>6. DOMAIN origin' = DOMAIN origin \cup {d} /\ ThreadOf(d) = ThreadOf(arg[c].d) /\ NonceOf(d) = c
    BY <1>8, MigratedFields, IssueEffect
  <2>7. arg[c].d \in DOMAIN origin
    BY <1>8 DEF ThreadInv, Migrated
  <2> HIDE DEF d
  <2> QED BY <1>f, <2>1, <2>3, <2>4, <2>5, <2>6, <2>7
<1>9. ASSUME NEW r \in Usable, Restart(r) PROVE Goal
  <2>1. pc[n] \in Unborn
    BY <1>9, RestartEffect DEF Unborn
  <2> QED BY <1>0, <1>9, <1>f, <2>1, RestartEffect, Blank
<1> QED BY <1>1, <1>2, <1>3, <1>4, <1>5, <1>6, <1>7, <1>8, <1>9, Steps

-----------------------------------------------------------------------------
(* Descriptors, states and handles agree on the thread.                    *)
LEMMA IssuedOnly ==
    ASSUME TypeOK, NEW d \in DOMAIN origin \cup Foreign, SameIdentity(d)
    PROVE  d \in DOMAIN origin
BY ForeignAssumption DEF TypeOK, Usable, SameIdentity

(* A state is made, or rebound to its own thread.                          *)
LEMMA StateThreads ==
    ASSUME TypeOK, ThreadInv, NEW c \in Calls, NEW s \in Calls,
           OnlyCall(c), pc'[c] = "announcing", arg'[c].existing = s,
           OnlyState(s), st[s].thread # None => st'[s].thread = st[s].thread,
           st'[s].thread \in Calls, st'[s].thread = ThreadOf(st'[s].descriptor),
           st'[s].ws \in Calls, UNCHANGED hd,
           \A d \in DOMAIN registry' :
              \/ d \in DOMAIN registry /\ registry'[d] = registry[d]
              \/ registry'[d] = s /\ st'[s].thread = ThreadOf(d) /\ d \in DOMAIN origin',
           DOMAIN origin \subseteq DOMAIN origin',
           \A d \in DOMAIN origin' : d \in DOMAIN origin \/ ThreadOf(d) \in Calls
    PROVE  ThreadInv'
<1>0. None \notin Calls
  BY CallsAssumption
<1>1. \A x \in Calls : st[x].thread # None => st'[x].thread = st[x].thread
  BY DEF OnlyState
<1>2. \A d \in DOMAIN origin' : ThreadOf(d) \in Calls
  BY DEF ThreadInv
<1>3. \A d \in DOMAIN registry' : d \in DOMAIN origin' /\ st'[registry'[d]].thread = ThreadOf(d)
  <2> TAKE d \in DOMAIN registry'
  <2>1. CASE d \in DOMAIN registry /\ registry'[d] = registry[d]
    <3>1. registry[d] \in Calls /\ d \in DOMAIN origin
          /\ st[registry[d]].thread = ThreadOf(d) /\ ThreadOf(d) \in Calls
      BY <2>1 DEF ThreadInv, TypeOK
    <3> QED BY <1>0, <1>1, <2>1, <3>1
  <2>2. CASE registry'[d] = s /\ st'[s].thread = ThreadOf(d) /\ d \in DOMAIN origin'
    BY <2>2
  <2> QED BY <2>1, <2>2
<1>4. \A x \in Calls : st'[x].thread # None =>
          st'[x].thread = ThreadOf(st'[x].descriptor) /\ st'[x].ws \in Calls
  BY DEF ThreadInv, OnlyState
<1>5. \A h \in Calls : hd'[h].state # None =>
          /\ st'[hd'[h].state].thread # None
          /\ st'[hd'[h].state].thread = ThreadOf(hd'[h].descriptor)
  <2>1. \A h \in Calls : hd[h].state # None =>
          /\ hd[h].state \in Calls
          /\ st[hd[h].state].thread # None
          /\ st[hd[h].state].thread = ThreadOf(hd[h].descriptor)
    BY DEF ThreadInv, TypeOK, HandleOK, MaybeCall
  <2> QED BY <1>1, <2>1
<1>6. \A x \in Calls : pc'[x] = "announcing" => st'[arg'[x].existing].thread # None
  <2>1. \A x \in Calls : pc[x] = "announcing" =>
          arg[x].existing \in Calls /\ st[arg[x].existing].thread # None
    BY DEF ThreadInv, TypeOK
  <2> QED BY <1>0, <1>1, <2>1 DEF OnlyCall, SameCall
<1>7. \A x \in Calls : pc'[x] = "threading" =>
          /\ arg'[x].op \in {"session", "resume", "migrate"}
          /\ arg'[x].op = "session" => arg'[x].existing = None
          /\ arg'[x].op # "session" => arg'[x].d \in DOMAIN origin'
          /\ arg'[x].existing # None => st'[arg'[x].existing].thread = ThreadOf(arg'[x].d)
  <2> SUFFICES ASSUME NEW x \in Calls, pc'[x] = "threading"
               PROVE  /\ arg'[x].op \in {"session", "resume", "migrate"}
                      /\ arg'[x].op = "session" => arg'[x].existing = None
                      /\ arg'[x].op # "session" => arg'[x].d \in DOMAIN origin'
                      /\ arg'[x].existing # None =>
                            st'[arg'[x].existing].thread = ThreadOf(arg'[x].d)
    OBVIOUS
  <2>1. pc[x] = "threading" /\ arg'[x] = arg[x]
    BY DEF OnlyCall, SameCall
  <2>2. /\ arg[x].op \in {"session", "resume", "migrate"}
        /\ arg[x].op = "session" => arg[x].existing = None
        /\ arg[x].op # "session" => arg[x].d \in DOMAIN origin /\ ThreadOf(arg[x].d) \in Calls
        /\ arg[x].existing # None => st[arg[x].existing].thread = ThreadOf(arg[x].d)
        /\ arg[x].existing # None => arg[x].existing \in Calls
    BY <2>1 DEF ThreadInv, TypeOK, ArgOK, MaybeCall
  <2> QED BY <1>0, <1>1, <2>1, <2>2
<1> QED BY <1>2, <1>3, <1>4, <1>5, <1>6, <1>7 DEF ThreadInv

(* Nothing but the call changes.                                           *)
LEMMA CallThreads ==
    ASSUME TypeOK, ThreadInv, NEW c \in Calls, OnlyCall(c), UNCHANGED <<registry, st, hd, origin>>,
           pc'[c] = "threading",
           /\ arg'[c].op \in {"session", "resume", "migrate"}
           /\ arg'[c].op = "session" => arg'[c].existing = None
           /\ arg'[c].op # "session" => arg'[c].d \in DOMAIN origin
           /\ arg'[c].existing # None => st[arg'[c].existing].thread = ThreadOf(arg'[c].d)
    PROVE  ThreadInv'
<1>1. \A x \in Calls : pc'[x] = "announcing" => st[arg'[x].existing].thread # None
  BY DEF ThreadInv, OnlyCall, SameCall
<1>2. \A x \in Calls : pc'[x] = "threading" =>
          /\ arg'[x].op \in {"session", "resume", "migrate"}
          /\ arg'[x].op = "session" => arg'[x].existing = None
          /\ arg'[x].op # "session" => arg'[x].d \in DOMAIN origin
          /\ arg'[x].existing # None => st[arg'[x].existing].thread = ThreadOf(arg'[x].d)
  BY DEF ThreadInv, OnlyCall, SameCall
<1> QED BY <1>1, <1>2 DEF ThreadInv

(* The threads, for the steps that add nothing.                            *)
LEMMA FrameThreads ==
    ASSUME TypeOK, ThreadInv, CoreFrame
    PROVE  ThreadInv'
<1>1. \A d \in DOMAIN registry' : d \in DOMAIN origin' /\ st'[registry'[d]].thread = ThreadOf(d)
  BY DEF ThreadInv, CoreFrame, SameState, TypeOK
<1>2. \A s \in Calls : st'[s].thread # None =>
          st'[s].thread = ThreadOf(st'[s].descriptor) /\ st'[s].ws \in Calls
  BY DEF ThreadInv, CoreFrame, SameState
<1>3. \A h \in Calls : hd'[h].state # None =>
          /\ st'[hd'[h].state].thread # None
          /\ st'[hd'[h].state].thread = ThreadOf(hd'[h].descriptor)
  BY DEF ThreadInv, CoreFrame, SameState, SameHandle, TypeOK, HandleOK, MaybeCall
<1>4. \A c \in Calls : pc'[c] = "announcing" => st'[arg'[c].existing].thread # None
  BY DEF ThreadInv, CoreFrame, SameState, SameCall, TypeOK, OnHandlePCs
<1>5. \A c \in Calls : pc'[c] = "threading" =>
          /\ arg'[c].op \in {"session", "resume", "migrate"}
          /\ arg'[c].op = "session" => arg'[c].existing = None
          /\ arg'[c].op # "session" => arg'[c].d \in DOMAIN origin'
          /\ arg'[c].existing # None => st'[arg'[c].existing].thread = ThreadOf(arg'[c].d)
  <2> SUFFICES ASSUME NEW c \in Calls, pc'[c] = "threading"
               PROVE  /\ arg'[c].op \in {"session", "resume", "migrate"}
                      /\ arg'[c].op = "session" => arg'[c].existing = None
                      /\ arg'[c].op # "session" => arg'[c].d \in DOMAIN origin'
                      /\ arg'[c].existing # None =>
                            st'[arg'[c].existing].thread = ThreadOf(arg'[c].d)
    OBVIOUS
  <2>1. pc[c] = "threading" /\ arg'[c] = arg[c]
    BY DEF CoreFrame, SameCall, OnHandlePCs
  <2>2. arg[c].existing # None => arg[c].existing \in Calls
    BY DEF TypeOK, ArgOK, MaybeCall
  <2> QED BY <2>1, <2>2 DEF ThreadInv, CoreFrame, SameState
<1> QED BY <1>1, <1>2, <1>3, <1>4, <1>5 DEF ThreadInv, CoreFrame

(* Every step keeps descriptors, states and handles on their threads.      *)
LEMMA ThreadStep ==
    ASSUME TypeOK, FreshInv, ThreadInv, [Next]_vars
    PROVE  ThreadInv'
<1>0. None \notin Calls
  BY CallsAssumption
<1>1. CASE CoreFrame
  BY <1>1, FrameThreads
<1>2. ASSUME NEW c \in Calls, NEW p, NEW o, NEW b, Create(c, p, o, b) PROVE ThreadInv'
  BY <1>2, CreateEffect, CallThreads DEF Create
<1>3. ASSUME NEW c \in Calls, NEW d \in DOMAIN origin \cup Foreign, NEW p, Migrate(c, d, p)
      PROVE ThreadInv'
  <2>1. UNCHANGED <<registry, st, hd, origin>> /\ SameIdentity(d)
    BY <1>3 DEF Migrate, MigrationAllowed
  <2>2. d \in DOMAIN origin
    BY <2>1, IssuedOnly
  <2>3. Existing(d) # None => st[Existing(d)].thread = ThreadOf(d)
    BY DEF Existing, ThreadInv
  <2>4. /\ OnlyCall(c) /\ pc'[c] = "threading" /\ arg'[c].op = "migrate" /\ arg'[c].d = d
        /\ arg'[c].existing = Existing(d)
    BY <1>3, MigrateEffect
  <2> QED BY <2>1, <2>2, <2>3, <2>4, CallThreads
<1>4. ASSUME NEW c \in Calls, NEW d \in DOMAIN origin \cup Foreign, NEW b, Resume(c, d, b)
      PROVE ThreadInv'
  <2>1. UNCHANGED <<registry, st, hd, origin>> /\ SameIdentity(d)
    BY <1>4 DEF Resume, ResumeAccepts
  <2>2. d \in DOMAIN origin
    BY <2>1, IssuedOnly
  <2>4. /\ OnlyCall(c) /\ pc'[c] = "threading" /\ arg'[c].op = "resume" /\ arg'[c].d = d
        /\ arg'[c].existing = IF d \in DOMAIN registry THEN registry[d] ELSE None
    BY <1>4, ResumeEffect
  <2>3. arg'[c].existing # None => st[arg'[c].existing].thread = ThreadOf(d)
    BY <2>4 DEF ThreadInv
  <2> QED BY <2>1, <2>2, <2>3, <2>4, CallThreads
<1>5. ASSUME NEW c \in Calls, Created(c) PROVE ThreadInv'
  <2> DEFINE d == CreatedDescriptor(c)
  <2>1. /\ OnlyCall(c) /\ pc'[c] = "announcing" /\ arg'[c].existing = c /\ UNCHANGED hd
        /\ OnlyState(c) /\ st'[c].ws = c /\ st'[c].thread = c /\ st'[c].descriptor = d
        /\ Registers(d, c, {})
    BY <1>5, CreatedEffect, RegistryEffect DEF Created, CreatedDescriptor
  <2>2. DOMAIN origin' = DOMAIN origin \cup {d} /\ ThreadOf(d) = c
    BY <1>5, CreatedFields, IssueEffect
  <2>3. st[c].thread = None
    BY <1>5 DEF FreshInv, Created, Unborn
  <2> HIDE DEF d
  <2>4. \A x \in DOMAIN registry' :
              \/ x \in DOMAIN registry /\ registry'[x] = registry[x]
              \/ registry'[x] = c /\ st'[c].thread = ThreadOf(x) /\ x \in DOMAIN origin'
    BY <2>1, <2>2 DEF Registers
  <2> QED BY <2>1, <2>2, <2>3, <2>4, StateThreads
<1>6. ASSUME NEW c \in Calls, Return(c) PROVE ThreadInv'
  <2>1. UNCHANGED <<registry, st, origin>> /\ pc[c] = "announcing"
    BY <1>6 DEF Return
  <2>2. /\ OnlyCall(c) /\ pc'[c] = "done" /\ OnlyHandle(c) /\ hd'[c].state = arg[c].existing
        /\ hd'[c].descriptor = st[arg[c].existing].descriptor
    BY <1>6, ReturnEffect
  <2>3. /\ st[arg[c].existing].thread # None
        /\ st[arg[c].existing].thread = ThreadOf(st[arg[c].existing].descriptor)
    BY <2>1 DEF ThreadInv, TypeOK
  <2>4. \A h \in Calls : hd'[h].state # None =>
          /\ st'[hd'[h].state].thread # None
          /\ st'[hd'[h].state].thread = ThreadOf(hd'[h].descriptor)
    BY <2>1, <2>2, <2>3 DEF ThreadInv, OnlyHandle
  <2>5. \A x \in Calls : pc'[x] \in {"announcing", "threading"} => pc'[x] = pc[x] /\ arg'[x] = arg[x]
    BY <2>2 DEF OnlyCall, SameCall
  <2> QED BY <2>1, <2>4, <2>5 DEF ThreadInv
<1>7. ASSUME NEW c \in Calls, Resumed(c) PROVE ThreadInv'
  <2> DEFINE d == arg[c].d
             s == arg[c].existing
  <2>1. /\ UNCHANGED <<hd, origin>> /\ pc[c] = "threading" /\ arg[c].op # "session"
    BY <1>7 DEF Resumed
  <2>2. d \in DOMAIN origin /\ ThreadOf(d) \in Calls
    BY <2>1 DEF ThreadInv
  <2>3. CASE ResumesExisting(c)
    <3>1. /\ OnlyCall(c) /\ pc'[c] = "announcing" /\ arg'[c].existing = s /\ s \in Calls
          /\ OnlyState(s) /\ st'[s].thread = st[s].thread /\ st'[s].descriptor = st[s].descriptor
          /\ st'[s].ws = c /\ UNCHANGED registry
      BY <1>7, <2>3, ResumedOld
    <3>2. st[s].thread = ThreadOf(d) /\ st[s].thread = ThreadOf(st[s].descriptor)
      BY <1>0, <2>1, <2>2, <3>1 DEF ThreadInv
    <3> QED BY <2>1, <2>2, <3>1, <3>2, StateThreads
  <2>4. CASE ~ResumesExisting(c)
    <3>1. /\ OnlyCall(c) /\ pc'[c] = "announcing" /\ arg'[c].existing = c
          /\ OnlyState(c) /\ st'[c].thread = ThreadOf(d) /\ st'[c].descriptor = d
          /\ st'[c].ws = c /\ Registers(d, c, {})
      BY <1>7, <2>4, ResumedNew, RegistryEffect
    <3>2. st[c].thread = None
      BY <2>1 DEF FreshInv, Unborn
    <3>3. \A x \in DOMAIN registry' :
              \/ x \in DOMAIN registry /\ registry'[x] = registry[x]
              \/ registry'[x] = c /\ st'[c].thread = ThreadOf(x) /\ x \in DOMAIN origin'
      BY <2>1, <2>2, <3>1 DEF Registers
    <3> QED BY <2>1, <2>2, <3>1, <3>2, <3>3, StateThreads
  <2> QED BY <2>3, <2>4
<1>8. ASSUME NEW c \in Calls, Migrated(c) PROVE ThreadInv'
  <2> DEFINE e == arg[c].d
             s == arg[c].existing
             d == MigratedDescriptor(c)
  <2>1. UNCHANGED hd /\ pc[c] = "threading" /\ arg[c].op # "session"
    BY <1>8 DEF Migrated
  <2>2. e \in DOMAIN origin /\ ThreadOf(e) \in Calls
    BY <2>1 DEF ThreadInv
  <2>3. DOMAIN origin' = DOMAIN origin \cup {d} /\ ThreadOf(d) = ThreadOf(e)
    BY <1>8, MigratedFields, IssueEffect
  <2>4. CASE s # None
    <3>1. /\ OnlyCall(c) /\ pc'[c] = "announcing" /\ arg'[c].existing = s /\ s \in Calls
          /\ OnlyState(s) /\ st'[s].thread = st[s].thread /\ st'[s].descriptor = d
          /\ st'[s].ws = c /\ Registers(d, s, {e})
      BY <1>8, <2>4, MigratedOld, RegistryEffect
    <3>2. st[s].thread = ThreadOf(e)
      BY <2>1, <2>4 DEF ThreadInv
    <3> HIDE DEF d
    <3>3. \A x \in DOMAIN registry' :
              \/ x \in DOMAIN registry /\ registry'[x] = registry[x]
              \/ registry'[x] = s /\ st'[s].thread = ThreadOf(x) /\ x \in DOMAIN origin'
      BY <2>2, <2>3, <3>1, <3>2 DEF Registers
    <3> QED BY <2>1, <2>2, <2>3, <3>1, <3>2, <3>3, StateThreads
  <2>5. CASE s = None
    <3>1. /\ OnlyCall(c) /\ pc'[c] = "announcing" /\ arg'[c].existing = c
          /\ OnlyState(c) /\ st'[c].thread = ThreadOf(e) /\ st'[c].descriptor = d
          /\ st'[c].ws = c /\ Registers(d, c, {})
      BY <1>8, <2>5, MigratedNew, RegistryEffect
    <3>2. st[c].thread = None
      BY <2>1 DEF FreshInv, Unborn
    <3> HIDE DEF d
    <3>3. \A x \in DOMAIN registry' :
              \/ x \in DOMAIN registry /\ registry'[x] = registry[x]
              \/ registry'[x] = c /\ st'[c].thread = ThreadOf(x) /\ x \in DOMAIN origin'
      BY <2>2, <2>3, <3>1 DEF Registers
    <3> QED BY <2>1, <2>2, <2>3, <3>1, <3>2, <3>3, StateThreads
  <2> QED BY <2>4, <2>5
<1>9. ASSUME NEW r \in Usable, Restart(r) PROVE ThreadInv'
  BY <1>9, RestartEffect, Blank DEF ThreadInv
<1> QED BY <1>1, <1>2, <1>3, <1>4, <1>5, <1>6, <1>7, <1>8, <1>9, Steps

-----------------------------------------------------------------------------
(* What was checked before the await still holds after it, and descriptors *)
(* hold what was checked.                                                  *)
LEMMA ResumeIs ==
    ASSUME NEW d, NEW b
    PROVE  ResumeAccepts(d, b) <=> Accepts(rt, d, b)
BY DEF ResumeAccepts, SameIdentity, Accepts, SameAs, Issuable, FingerprintOf,
       ConfigurationFingerprint, ProfileOf

(* A profile that runs without tools accepts that there are none.          *)
LEMMA Disabled ==
    ASSUME NEW spec, NEW e, ExecutableProfile(spec, FALSE, e)
    PROVE  ToolBindingOK(spec, FALSE, e)
BY DEF ExecutableProfile, ToolBindingOK

(* What migrate_session() checks makes the target a profile of a session.  *)
LEMMA MigrateIs ==
    ASSUME TypeOK, NEW d, NEW p, MigrationAllowed(d, p)
    PROVE  Migratable(rt, d, p)
<1> DEFINE spec == ProfileSpecOf(rt.config, p)
<1>1. /\ KnownProfile(rt.config, p) /\ Persistent(spec)
      /\ ExecutableProfile(spec, FALSE, Experimental)
      /\ Decode(d)["security_policy"] = spec.security
      /\ CanResolve(rt.config, rt.catalog, p, NoOverride)
  BY DEF MigrationAllowed, ProfileOf
<1>2. ValidConfig(rt.config)
  BY DEF TypeOK, Usable
<1>3. SessionProfile(spec)
  BY <1>1, <1>2, PersistentIsSession DEF KnownProfile
<1> QED BY <1>1, <1>3, Disabled DEF Migratable, Issuable

(* No call begins to create.                                               *)
LEMMA PendingFrame ==
    ASSUME PendingInv, rt' = rt \/ \A c \in Calls : pc[c] # "threading",
           \A x \in Calls : pc'[x] = "threading" => SameCall(x)
    PROVE  PendingInv'
BY DEF PendingInv, SameCall

(* What a call checked stays true while it waits: the configuration of a   *)
(* runtime never changes.                                                  *)
LEMMA PendingStep ==
    ASSUME TypeOK, PendingInv, [Next]_vars
    PROVE  PendingInv'
<1>1. CASE CoreFrame
  <2>1. \A x \in Calls : pc'[x] = "threading" => SameCall(x)
    BY <1>1 DEF CoreFrame, OnHandlePCs
  <2> QED BY <1>1, <2>1, PendingFrame DEF CoreFrame
<1>2. ASSUME NEW c \in Calls, NEW p, NEW o \in Overrides, NEW b, Create(c, p, o, b)
      PROVE PendingInv'
  <2>1. /\ Issuable(rt, p, o, b) /\ SessionProfile(ProfileSpecOf(rt.config, p)) /\ UNCHANGED rt
    BY <1>2 DEF Create, Issuable, ProfileOf, rtVars
  <2>2. /\ OnlyCall(c) /\ arg'[c].op = "session" /\ arg'[c].profile = p
        /\ arg'[c].override = o /\ arg'[c].tools = b
    BY <1>2, CreateEffect
  <2> QED BY <2>1, <2>2 DEF PendingInv, OnlyCall, SameCall
<1>3. ASSUME NEW c \in Calls, NEW d, NEW p, Migrate(c, d, p) PROVE PendingInv'
  <2>1. Migratable(rt, d, p) /\ UNCHANGED rt
    BY <1>3, MigrateIs DEF Migrate, rtVars
  <2>2. OnlyCall(c) /\ arg'[c].op = "migrate" /\ arg'[c].d = d /\ arg'[c].profile = p
    BY <1>3, MigrateEffect
  <2> QED BY <2>1, <2>2 DEF PendingInv, OnlyCall, SameCall
<1>4. ASSUME NEW c \in Calls, NEW d, NEW b, Resume(c, d, b) PROVE PendingInv'
  <2>1. Accepts(rt, d, b) /\ UNCHANGED rt
    BY <1>4, ResumeIs DEF Resume, rtVars
  <2>2. OnlyCall(c) /\ arg'[c].op = "resume" /\ arg'[c].d = d /\ arg'[c].tools = b
    BY <1>4, ResumeEffect
  <2> QED BY <2>1, <2>2 DEF PendingInv, OnlyCall, SameCall
<1>5. ASSUME NEW c \in Calls, Created(c) \/ Resumed(c) \/ Migrated(c) PROVE PendingInv'
  <2>1. OnlyCall(c) /\ pc'[c] = "announcing" /\ UNCHANGED rt
    BY <1>5, CreatedEffect, ResumedOld, ResumedNew, MigratedOld, MigratedNew
       DEF Created, Resumed, Migrated, rtVars
  <2> QED BY <2>1, PendingFrame DEF OnlyCall
<1>6. ASSUME NEW c \in Calls, Return(c) PROVE PendingInv'
  <2>1. OnlyCall(c) /\ pc'[c] = "done" /\ UNCHANGED rt
    BY <1>6, ReturnEffect DEF Return, rtVars
  <2> QED BY <2>1, PendingFrame DEF OnlyCall
<1>7. ASSUME NEW r \in Usable, Restart(r) PROVE PendingInv'
  BY <1>7, RestartEffect DEF PendingInv
<1> QED BY <1>1, <1>2, <1>3, <1>4, <1>5, <1>6, <1>7, Steps

(* A descriptor that the runtime makes is one that it can decode.          *)
LEMMA Encoded ==
    ASSUME TypeOK, NEW p, NEW o \in Overrides \cup {NoOverride}, NEW b, Issuable(rt, p, o, b),
           NEW t \in Calls, NEW n \in MaybeCall
    PROVE  Decodable(MakeDescriptor(Binding(rt.config, p, o), p, t, n))
<1> DEFINE bd == Binding(rt.config, p, o)
           spec == ProfileSpecOf(rt.config, p)
           v == DescriptorValues(bd, p, t)
           w == IF n = None THEN v ELSE With(v, "descriptor_nonce", n)
           K == {"provider", "provider_session_id", "identity_fingerprint",
                 "configuration_fingerprint", "profile", "level", "context_policy",
                 "security_policy"}
<1>1. rt \in Runtimes /\ p \in Builtin \cup DOMAIN rt.config.specs /\ p \in DOMAIN rt.config.profiles
  BY DEF TypeOK, Usable, Issuable, CanResolve, KnownProfile
<1>2. /\ p # Empty /\ rt.identity # Empty /\ spec \in ProfileSpec
      /\ <<bd, p, spec.context, spec.security>> # Empty /\ t # Empty
      /\ n # None => n # Empty
  BY <1>1, TextAssumption DEF MaybeCall
<1>3. spec.context # Empty /\ spec.security # Empty
  BY <1>2 DEF ProfileSpec, ContextPolicy, SecurityPolicy, Empty
<1>4. /\ v["provider"] # Empty /\ v["provider_session_id"] # Empty
      /\ v["identity_fingerprint"] # Empty /\ v["configuration_fingerprint"] # Empty
      /\ v["profile"] # Empty /\ v["level"] # Empty /\ v["context_policy"] # Empty
      /\ v["security_policy"] # Empty
  BY <1>2, <1>3 DEF DescriptorValues, ConfigurationFingerprint, ProfileOf, Empty
<1>5. DOMAIN v = K /\ v = [k \in K |-> v[k]]
  BY DEF DescriptorValues
<1>6. \A k \in K : v[k] # Empty
  BY <1>4
<1> HIDE DEF v
<1>7. /\ DOMAIN w = IF n = None THEN K ELSE K \cup {"descriptor_nonce"}
      /\ \A k \in K : w[k] = v[k]
      /\ n # None => w["descriptor_nonce"] = n
      /\ w = [k \in DOMAIN w |-> w[k]]
  BY <1>5 DEF With
<1>8. \A k \in DOMAIN w : w[k] # Empty
  BY <1>2, <1>6, <1>7
<1> HIDE DEF w
<1> DEFINE S == {w[k] : k \in DOMAIN w}
<1>9. K = RequiredKeys \ {"version"} /\ OptionalKeys = {"descriptor_nonce"}
  BY DEF RequiredKeys, OptionalKeys
<1>10. DOMAIN w \in {RequiredKeys \ {"version"}, (RequiredKeys \ {"version"}) \cup OptionalKeys}
  BY <1>7, <1>9
<1>11. w \in [DOMAIN w -> S]
  BY <1>7
<1>12. w \in Values(S)
  BY <1>8, <1>10, <1>11 DEF Values
<1>13. Decodable(Encode(w))
  BY <1>12, RoundTrip
<1> QED BY <1>13 DEF MakeDescriptor, w, v

(* A descriptor made under the current configuration holds what it says.   *)
LEMMA IssuedDescriptor ==
    ASSUME TypeOK, NEW p, NEW o \in Overrides \cup {NoOverride}, NEW b, Issuable(rt, p, o, b),
           SessionProfile(ProfileSpecOf(rt.config, p)), NEW t \in Calls, NEW n \in MaybeCall
    PROVE  IssuedUnder(rt, MakeDescriptor(Binding(rt.config, p, o), p, t, n), o, b)
<1> DEFINE bd == Binding(rt.config, p, o)
           d == MakeDescriptor(bd, p, t, n)
<1>1. Decodable(d)
  BY Encoded
<1>2. FingerprintOf(rt, p, o) = ConfigurationFingerprint(bd, p)
  BY DEF FingerprintOf, ConfigurationFingerprint, ProfileOf
<1> HIDE DEF bd
<1>3. /\ Decode(d)["provider"] = "codex"
      /\ Decode(d)["identity_fingerprint"] = rt.identity
      /\ Decode(d)["configuration_fingerprint"] = ConfigurationFingerprint(bd, p)
      /\ Decode(d)["profile"] = p
      /\ Decode(d)["context_policy"] = ProfileOf(p).context
      /\ Decode(d)["security_policy"] = ProfileOf(p).security
  BY DescriptorFields
<1> HIDE DEF d
<1>4. rt \in Usable
  BY DEF TypeOK
<1>5. IssuedUnder(rt, d, o, b)
  BY <1>1, <1>2, <1>3, <1>4 DEF IssuedUnder, SameAs, ProfileOf
<1> QED BY <1>5 DEF bd, d

(* A descriptor is added under the configuration of the moment.            *)
LEMMA OriginAdds ==
    ASSUME OriginInv, NEW d, NEW o, NEW b, Issue(d, o, b), IssuedUnder(rt, d, o, b)
    PROVE  OriginInv'
<1>1. /\ DOMAIN origin' = DOMAIN origin \cup {d}
      /\ origin'[d].rt = rt /\ origin'[d].override = o /\ origin'[d].tools = b
      /\ \A x \in DOMAIN origin' \ {d} : origin'[x] = origin[x]
  BY IssueEffect
<1> QED BY <1>1 DEF OriginInv

(* session() issues such a descriptor,                                     *)
LEMMA CreatedIssues ==
    ASSUME TypeOK, PendingInv, NEW c \in Calls, Created(c)
    PROVE  IssuedUnder(rt, CreatedDescriptor(c), arg[c].override, arg[c].tools)
<1>1. /\ Issuable(rt, arg[c].profile, arg[c].override, arg[c].tools)
      /\ SessionProfile(ProfileSpecOf(rt.config, arg[c].profile))
      /\ arg[c].override \in Overrides
  BY DEF PendingInv, Created
<1>2. None \in MaybeCall
  BY DEF MaybeCall
<1> QED BY <1>1, <1>2, IssuedDescriptor DEF CreatedDescriptor

(* and so does migrate_session().                                          *)
LEMMA MigratedIssues ==
    ASSUME TypeOK, ThreadInv, PendingInv, NEW c \in Calls, Migrated(c)
    PROVE  IssuedUnder(rt, MigratedDescriptor(c), NoOverride, FALSE)
<1>1. /\ Issuable(rt, arg[c].profile, NoOverride, FALSE)
      /\ SessionProfile(ProfileSpecOf(rt.config, arg[c].profile))
  BY DEF PendingInv, Migrated, Migratable
<1>2. ThreadOf(arg[c].d) \in Calls
  BY DEF ThreadInv, Migrated
<1>3. c \in MaybeCall
  BY DEF MaybeCall
<1> QED BY <1>1, <1>2, <1>3, IssuedDescriptor DEF MigratedDescriptor

(* A descriptor keeps holding what it was issued with.                     *)
LEMMA OriginStep ==
    ASSUME TypeOK, ThreadInv, PendingInv, OriginInv, [Next]_vars
    PROVE  OriginInv'
<1>1. CASE UNCHANGED origin
  BY <1>1 DEF OriginInv
<1>2. ASSUME NEW c \in Calls, Created(c) PROVE OriginInv'
  BY <1>2, CreatedFields, CreatedIssues, OriginAdds
<1>3. ASSUME NEW c \in Calls, Migrated(c) PROVE OriginInv'
  BY <1>3, MigratedFields, MigratedIssues, OriginAdds
<1>4. ASSUME NEW r \in Usable, Restart(r) PROVE UNCHANGED origin
  BY <1>4 DEF Restart
<1>5. ASSUME NEW c \in Calls, NEW p, NEW o, NEW d, NEW b,
             Create(c, p, o, b) \/ Migrate(c, d, p) \/ Resume(c, d, b) \/ Return(c) \/ Resumed(c)
      PROVE UNCHANGED origin
  BY <1>5 DEF Create, Migrate, Resume, Return, Resumed
<1>6. CoreFrame => UNCHANGED origin
  BY DEF CoreFrame
<1> QED BY <1>1, <1>2, <1>3, <1>4, <1>5, <1>6, Steps

(* What was issued under the current configuration passes                  *)
(* resume_session().                                                       *)
LEMMA ResumesIssued ==
    ASSUME OriginInv
    PROVE  IssuedDescriptorsResume
<1> SUFFICES ASSUME NEW d \in DOMAIN origin, origin[d].rt = rt, origin[d].override = NoOverride
             PROVE  ResumeAccepts(d, origin[d].tools)
  BY DEF IssuedDescriptorsResume
<1>1. IssuedUnder(rt, d, NoOverride, origin[d].tools)
  BY DEF OriginInv
<1>2. Accepts(rt, d, origin[d].tools)
  BY <1>1 DEF IssuedUnder, Accepts
<1> QED BY <1>2, ResumeIs

-----------------------------------------------------------------------------
(* The permissions of a thread.                                            *)
LEMMA PermissionsStep ==
    ASSUME TypeOK, FreshInv, ThreadInv, PendingInv, PermissionsNeverChange, [Next]_vars
    PROVE  PermissionsNeverChange'
<1>1. CASE UNCHANGED origin
  BY <1>1 DEF PermissionsNeverChange, ThreadOf
<1>2. ASSUME NEW c \in Calls, Created(c) PROVE PermissionsNeverChange'
  <2> DEFINE d == CreatedDescriptor(c)
  <2>1. DOMAIN origin' = DOMAIN origin \cup {d} /\ ThreadOf(d) = c
    BY <1>2, CreatedFields, IssueEffect
  <2>2. \A e \in DOMAIN origin : ThreadOf(e) # c
    BY <1>2 DEF FreshInv, Created, Unborn
  <2> HIDE DEF d
  <2> QED BY <2>1, <2>2 DEF PermissionsNeverChange, ThreadOf
<1>3. ASSUME NEW c \in Calls, Migrated(c) PROVE PermissionsNeverChange'
  <2> DEFINE d == MigratedDescriptor(c)
             a == arg[c].d
  <2>1. /\ DOMAIN origin' = DOMAIN origin \cup {d} /\ ThreadOf(d) = ThreadOf(a)
        /\ Decode(d)["security_policy"] = ProfileSpecOf(rt.config, arg[c].profile).security
    BY <1>3, MigratedFields, IssueEffect DEF ProfileOf
  <2>2. Decode(a)["security_policy"] = ProfileSpecOf(rt.config, arg[c].profile).security
    BY <1>3 DEF PendingInv, Migrated, Migratable
  <2>3. a \in DOMAIN origin
    BY <1>3 DEF ThreadInv, Migrated
  <2> HIDE DEF d, a
  <2> QED BY <2>1, <2>2, <2>3 DEF PermissionsNeverChange, ThreadOf
<1>4. ASSUME NEW r \in Usable, Restart(r) PROVE UNCHANGED origin
  BY <1>4 DEF Restart
<1>5. ASSUME NEW c \in Calls, NEW p, NEW o, NEW d, NEW b,
             Create(c, p, o, b) \/ Migrate(c, d, p) \/ Resume(c, d, b) \/ Return(c) \/ Resumed(c)
      PROVE UNCHANGED origin
  BY <1>5 DEF Create, Migrate, Resume, Return, Resumed
<1>6. CoreFrame => UNCHANGED origin
  BY DEF CoreFrame
<1> QED BY <1>1, <1>2, <1>3, <1>4, <1>5, <1>6, Steps

(* A custom profile of sessions is one under every configuration that      *)
(* knows it.                                                               *)
LEMMA StaysSession ==
    ASSUME StableLifecycles, NEW r \in Usable, NEW q \in Usable, NEW p,
           KnownProfile(r.config, p), KnownProfile(q.config, p),
           SessionProfile(ProfileSpecOf(r.config, p))
    PROVE  SessionProfile(ProfileSpecOf(q.config, p))
<1>1. ValidConfig(q.config)
  BY DEF Usable
<1>2. Persistent(ProfileSpecOf(q.config, p))
  <2>1. CASE p \in Builtin
    BY <2>1 DEF ProfileSpecOf, SessionProfile
  <2>2. CASE p \notin Builtin
    <3>1. p \in DOMAIN r.config.specs \cap DOMAIN q.config.specs
      BY <2>2 DEF KnownProfile
    <3>2. r.config.specs[p].lifecycle = q.config.specs[p].lifecycle
      BY <3>1 DEF StableLifecycles
    <3> QED BY <2>2, <3>2 DEF ProfileSpecOf, SessionProfile, Persistent
  <2> QED BY <2>1, <2>2
<1> QED BY <1>1, <1>2, PersistentIsSession DEF KnownProfile

(* Every step leaves every state under a profile of sessions.              *)
LEMMA ProfileStep ==
    ASSUME StableLifecycles, TypeOK, ThreadInv, PendingInv, OriginInv, ProfileInv, [Next]_vars
    PROVE  ProfileInv'
<1>1. CASE CoreFrame
  BY <1>1 DEF ProfileInv, CoreFrame, SameState
<1>2. ASSUME NEW c \in Calls, NEW p, NEW o, NEW d, NEW b,
             Create(c, p, o, b) \/ Migrate(c, d, p) \/ Resume(c, d, b) \/ Return(c)
      PROVE ProfileInv'
  <2>1. UNCHANGED <<rt, st>>
    BY <1>2 DEF Create, Migrate, Resume, Return, rtVars
  <2> QED BY <2>1 DEF ProfileInv
<1>3. ASSUME NEW c \in Calls, Created(c) PROVE ProfileInv'
  <2>1. UNCHANGED rt /\ OnlyState(c) /\ st'[c].profile = arg[c].profile
    BY <1>3, CreatedEffect DEF Created, rtVars
  <2>2. SessionProfile(ProfileSpecOf(rt.config, arg[c].profile))
    BY <1>3 DEF PendingInv, Created
  <2> QED BY <2>1, <2>2 DEF ProfileInv, OnlyState
<1>4. ASSUME NEW c \in Calls, Resumed(c) PROVE ProfileInv'
  <2>1. UNCHANGED rt
    BY <1>4 DEF Resumed, rtVars
  <2>2. CASE ResumesExisting(c)
    <3> DEFINE s == arg[c].existing
    <3>1. OnlyState(s) /\ s \in Calls /\ st'[s].thread = st[s].thread /\ st'[s].profile = st[s].profile
      BY <1>4, <2>2, ResumedOld
    <3> QED BY <2>1, <3>1 DEF ProfileInv, OnlyState
  <2>3. CASE ~ResumesExisting(c)
    <3> DEFINE d == arg[c].d
               p == Decode(d)["profile"]
    <3>1. OnlyState(c) /\ st'[c].profile = p
      BY <1>4, <2>3, ResumedNew
    <3>2. d \in DOMAIN origin /\ Accepts(rt, d, arg[c].tools)
      BY <1>4 DEF ThreadInv, PendingInv, Resumed
    <3>3. KnownProfile(rt.config, p)
      BY <3>2 DEF Accepts, Issuable
    <3>4. IssuedUnder(origin[d].rt, d, origin[d].override, origin[d].tools)
      BY <3>2 DEF OriginInv
    <3>5. /\ origin[d].rt \in Usable /\ KnownProfile(origin[d].rt.config, p)
          /\ SessionProfile(ProfileSpecOf(origin[d].rt.config, p))
      BY <3>4 DEF IssuedUnder, Issuable
    <3>6. SessionProfile(ProfileSpecOf(rt.config, p))
      BY <3>3, <3>5, StaysSession DEF TypeOK
    <3> QED BY <2>1, <3>1, <3>6 DEF ProfileInv, OnlyState
  <2> QED BY <2>2, <2>3
<1>5. ASSUME NEW c \in Calls, Migrated(c) PROVE ProfileInv'
  <2>1. UNCHANGED rt
    BY <1>5 DEF Migrated, rtVars
  <2>2. SessionProfile(ProfileSpecOf(rt.config, arg[c].profile))
    BY <1>5 DEF PendingInv, Migrated, Migratable
  <2>3. \E s \in Calls : OnlyState(s) /\ st'[s].profile = arg[c].profile
    BY <1>5, MigratedOld, MigratedNew
  <2> QED BY <2>1, <2>2, <2>3 DEF ProfileInv, OnlyState
<1>6. ASSUME NEW r \in Usable, Restart(r) PROVE ProfileInv'
  BY <1>6, RestartEffect, Blank DEF ProfileInv
<1> QED BY <1>1, <1>2, <1>3, <1>4, <1>5, <1>6, Steps

(* A registered state has a thread, so its profile is one of sessions.     *)
LEMMA SessionsOnly ==
    ASSUME TypeOK, ThreadInv, ProfileInv
    PROVE  OnlySessionProfiles
<1> SUFFICES ASSUME NEW d \in DOMAIN registry
             PROVE  SessionProfile(ProfileOf(st[registry[d]].profile))
  BY DEF OnlySessionProfiles
<1>1. registry[d] \in Calls /\ st[registry[d]].thread \in Calls
  BY DEF TypeOK, ThreadInv
<1>2. st[registry[d]].thread # None
  BY <1>1, CallsAssumption
<1> QED BY <1>1, <1>2 DEF ProfileInv, ProfileOf

Alone(c) == \A x \in Calls \ {c} : pc[x] \in Finished /\ SameCall(x)

(* Turns, and a start() while no call is under way: no more handles are in *)
(* use than before.                                                        *)
TurnFrame ==
    /\ UNCHANGED <<serial, pc, arg, registry, hd, diskVars>>
    /\ DOMAIN st' = Calls /\ \A s \in Calls : SameState(s) /\ st'[s].deleted = st[s].deleted
    /\ started => started'
    /\ \A s \in Calls : started' /\ st'[s].live => started /\ st[s].live

HandleCall(c) == \E h \in Calls : Close(c, h) \/ Archive(c, h) \/ Delete(c, h)

(* A patient host begins a call when no other is under way.                *)
LEMMA AloneBegins ==
    ASSUME TypeOK, serial, NEW c \in Calls, Begins(c), OnlyCall(c)
    PROVE  Alone(c)
BY DEF Begins, Quiet, OnlyCall, Alone

(* A call under way is the only one.                                       *)
LEMMA AloneGoesOn ==
    ASSUME TypeOK, serial, SerialCalls, NEW c \in Calls, pc[c] \notin Finished, OnlyCall(c)
    PROVE  Alone(c)
BY DEF SerialCalls, OnlyCall, Alone

(* What a call that ends does not touch.                                   *)
LEMMA EndsEffect ==
    ASSUME TypeOK, NEW c \in Calls, Ends(c)
    PROVE  /\ OnlyCall(c) /\ pc[c] \notin Finished /\ pc'[c] = "done" /\ arg'[c].existing = None
           /\ UNCHANGED <<rtVars, registry, origin>>
           /\ \A s \in Calls : SameState(s) /\ \A h \in Calls : SameHandle(h)
           /\ \A s \in Calls : st'[s].live = st[s].live
<1>1. Finish(c) /\ pc[c] \notin Finished /\ UNCHANGED <<rtVars, registry, origin>>
  BY DEF Ends, CreateFails, RebindFails, CallCancelled, AnnounceFails, HandleCallFails, Closes,
         Archived, Deleted, Finished
<1>2. CoreFrame
  BY EndsFrame
<1>3. \A s \in Calls : st'[s].live = st[s].live
  <2>1. CASE Archived(c) \/ Deleted(c)
    BY <2>1, ArchivedEffect, DeletedEffect DEF SameStates
  <2>2. CASE ~(Archived(c) \/ Deleted(c))
    BY <2>2 DEF Ends, CreateFails, RebindFails, CallCancelled, AnnounceFails, HandleCallFails, Closes
  <2> QED BY <2>1, <2>2
<1> QED BY <1>1, <1>2, <1>3, FinishEffect DEF CoreFrame

(* Turns touch nothing but the lock and the run of a state, start() only   *)
(* the thread objects.                                                     *)
LEMMA TurnsFrame ==
    ASSUME TypeOK
    PROVE  /\ UNCHANGED vars => TurnFrame
           /\ \A h \in Calls : Turn(h) \/ TurnStarts(h) \/ TurnEnds(h) => TurnFrame
           /\ \A r \in Usable : StartAgain(r) => TurnFrame
<1>1. UNCHANGED vars => TurnFrame
  BY DEF vars, rtVars, TurnFrame, SameState, TypeOK
<1>2. ASSUME NEW h \in Calls, Turn(h) \/ TurnStarts(h) \/ TurnEnds(h) PROVE TurnFrame
  <2>1. UNCHANGED <<serial, started, pc, arg, registry, hd, diskVars>>
    BY <1>2 DEF Turn, TurnStarts, TurnEnds, rtVars
  <2> QED BY <1>2, <2>1, TurnEffect DEF TurnFrame, SameStates
<1>3. ASSUME NEW r \in Usable, StartAgain(r) PROVE TurnFrame
  <2>1. UNCHANGED <<serial, pc, arg, registry, hd, diskVars>> /\ started' = TRUE
    BY <1>3 DEF StartAgain
  <2> QED BY <1>3, <2>1, StartAgainEffect DEF TurnFrame
<1> QED BY <1>1, <1>2, <1>3

(* The steps of a system whose host makes one call at a time.              *)
LEMMA SerialSteps ==
    ASSUME TypeOK, serial, SerialCalls, [Next]_vars
    PROVE  \/ TurnFrame
           \/ CloseRuntime /\ \A c \in Calls : pc[c] \in Finished
           \/ \E r \in Usable : Restart(r)
           \/ \E c \in Calls :
                 /\ Alone(c)
                 /\ \/ Ends(c) \/ HandleCall(c)
                    \/ \E p, o, b : Create(c, p, o, b)
                    \/ \E d, p : Migrate(c, d, p)
                    \/ \E d, b : Resume(c, d, b)
                    \/ Created(c) \/ Return(c) \/ Resumed(c) \/ Migrated(c)
<1>1. ASSUME NEW c \in Calls, Ends(c) PROVE Alone(c)
  BY <1>1, EndsEffect, AloneGoesOn
<1>2. ASSUME NEW c \in Calls, NEW h \in Calls, Close(c, h) \/ Archive(c, h) \/ Delete(c, h)
      PROVE  Alone(c)
  <2>1. Begins(c)
    BY <1>2 DEF Close, Archive, Delete
  <2> QED BY <1>2, <2>1, HandleCallEffect, AloneBegins
<1>3. ASSUME NEW c \in Calls, NEW p, NEW o, NEW b, Create(c, p, o, b) PROVE Alone(c)
  BY <1>3, CreateEffect, AloneBegins DEF Create
<1>4. ASSUME NEW c \in Calls, NEW d, NEW p, Migrate(c, d, p) PROVE Alone(c)
  BY <1>4, MigrateEffect, AloneBegins DEF Migrate
<1>5. ASSUME NEW c \in Calls, NEW d, NEW b, Resume(c, d, b) PROVE Alone(c)
  BY <1>5, ResumeEffect, AloneBegins DEF Resume
<1>6. ASSUME NEW c \in Calls, Created(c) \/ Return(c) \/ Resumed(c) \/ Migrated(c) PROVE Alone(c)
  <2>1. pc[c] \notin Finished
    BY <1>6 DEF Created, Return, Resumed, Migrated, Finished
  <2> QED BY <1>6, <2>1, AloneGoesOn, CreatedEffect, ReturnEffect, ResumedOld, ResumedNew,
             MigratedOld, MigratedNew
<1>7. CloseRuntime => \A c \in Calls : pc[c] \in Finished
  BY DEF CloseRuntime
<1>8. [Next]_vars =>
        \/ UNCHANGED vars \/ CloseRuntime
        \/ \E r \in Usable : Restart(r) \/ StartAgain(r)
        \/ \E c \in Calls : 
              \/ Turn(c) \/ TurnStarts(c) \/ TurnEnds(c)
              \/ Ends(c) \/ HandleCall(c)
              \/ \E p, o, b : Create(c, p, o, b)
              \/ \E d, p : Migrate(c, d, p)
              \/ \E d, b : Resume(c, d, b)
              \/ Created(c) \/ Return(c) \/ Resumed(c) \/ Migrated(c)
  BY DEF Next, Ends, HandleCall
<1> QED BY <1>1, <1>2, <1>3, <1>4, <1>5, <1>6, <1>7, <1>8, TurnsFrame DEF HandleCall

(* The host does not change its ways.                                      *)
LEMMA SerialKept == ASSUME TypeOK, [Next]_vars PROVE serial' = serial
<1>1. ASSUME NEW c \in Calls, NEW p, NEW o, NEW d, NEW b,
             Create(c, p, o, b) \/ Migrate(c, d, p) \/ Resume(c, d, b)
             \/ Created(c) \/ Return(c) \/ Resumed(c) \/ Migrated(c)
      PROVE serial' = serial
  BY <1>1 DEF Create, Migrate, Resume, Created, Return, Resumed, Migrated, rtVars
<1> QED BY <1>1, Steps DEF CoreFrame, Restart

(* At most one call of a patient host is under way.                        *)
LEMMA SerialCallsStep ==
    ASSUME TypeOK, SerialCalls, [Next]_vars
    PROVE  SerialCalls'
<1> SUFFICES ASSUME serial PROVE SerialCalls'
  BY SerialKept DEF SerialCalls
<1>1. CASE TurnFrame
  BY <1>1 DEF TurnFrame, SerialCalls
<1>2. CASE CloseRuntime
  BY <1>2 DEF CloseRuntime, SerialCalls
<1>3. ASSUME NEW r \in Usable, Restart(r) PROVE SerialCalls'
  BY <1>3, RestartEffect DEF SerialCalls, Finished
<1>4. ASSUME NEW c \in Calls, Alone(c) PROVE SerialCalls'
  BY <1>4 DEF Alone, SameCall, SerialCalls
<1> QED BY <1>1, <1>2, <1>3, <1>4, SerialSteps

-----------------------------------------------------------------------------
(* Owners, for the steps that add nothing.                                 *)
LEMMA OwnerFrame ==
    ASSUME TypeOK, OwnerInv, \A s \in Calls : SameState(s), \A h \in Calls : SameHandle(h)
    PROVE  OwnerInv'
<1>1. \A h \in Calls : hd[h].state # None => hd[h].state \in Calls
  BY DEF TypeOK, HandleOK, MaybeCall
<1> QED BY <1>1 DEF OwnerInv, SameState, SameHandle

(* A state takes the workspace of a new call.                              *)
LEMMA OwnerState ==
    ASSUME TypeOK, FreshInv, OwnerInv, NEW c \in Calls, pc[c] = "threading",
           NEW s \in Calls, OnlyState(s), st'[s].ws = c, st[s].gen <= st'[s].gen \/ s = c,
           UNCHANGED hd
    PROVE  OwnerInv'
<1>1. \A x \in Calls : st[x].ws # c /\ hd[x].state # c
  BY DEF FreshInv, Unborn
<1>2. \A x \in Calls \ {s} : st'[x] = st[x]
  BY DEF OnlyState
<1>3. \A h \in Calls : hd[h].state # None =>
          hd[h].state \in Calls /\ hd[h].gen \in Nat /\ st[hd[h].state].gen \in Nat
  BY DEF TypeOK, HandleOK, StateOK, MaybeCall
<1>4. st'[s].gen \in Nat
  BY DEF OnlyState, StateOK
<1>5. ASSUME NEW x \in Calls, NEW y \in Calls, st'[x].ws = st'[y].ws, st'[x].ws # None
      PROVE  x = y
  BY <1>1, <1>2, <1>5 DEF OwnerInv
<1>6. ASSUME NEW h \in Calls, hd[h].state # None
      PROVE  hd[h].gen <= st'[hd[h].state].gen
  <2>1. hd[h].gen <= st[hd[h].state].gen
    BY <1>6 DEF OwnerInv
  <2>2. CASE hd[h].state = s
    BY <1>1, <1>3, <1>4, <1>6, <2>1, <2>2
  <2>3. CASE hd[h].state # s
    BY <1>2, <1>3, <1>6, <2>1, <2>3
  <2> QED BY <2>2, <2>3
<1> QED BY <1>5, <1>6 DEF OwnerInv

(* Every workspace keeps its one owner.                                    *)
LEMMA OwnerStep ==
    ASSUME TypeOK, FreshInv, OwnerInv, [Next]_vars
    PROVE  OwnerInv'
<1>1. CASE CoreFrame
  BY <1>1, OwnerFrame DEF CoreFrame
<1>2. ASSUME NEW c \in Calls, NEW p, NEW o, NEW d, NEW b,
             Create(c, p, o, b) \/ Migrate(c, d, p) \/ Resume(c, d, b)
      PROVE OwnerInv'
  <2>1. UNCHANGED <<hd, st>>
    BY <1>2 DEF Create, Migrate, Resume
  <2> QED BY <2>1 DEF OwnerInv
<1>3. ASSUME NEW c \in Calls, Created(c) PROVE OwnerInv'
  <2>1. pc[c] = "threading" /\ UNCHANGED hd
    BY <1>3 DEF Created
  <2>2. OnlyState(c) /\ st'[c].ws = c
    BY <1>3, CreatedEffect
  <2> QED BY <2>1, <2>2, OwnerState
<1>4. ASSUME NEW c \in Calls, Return(c) PROVE OwnerInv'
  <2>1. UNCHANGED st /\ pc[c] = "announcing" /\ arg[c].existing \in Calls
    BY <1>4 DEF Return, TypeOK
  <2>2. OnlyHandle(c) /\ hd'[c].state = arg[c].existing /\ hd'[c].gen = st[arg[c].existing].gen
    BY <1>4, ReturnEffect
  <2>3. st[arg[c].existing].gen \in Nat
    BY <2>1 DEF TypeOK, StateOK
  <2> QED BY <2>1, <2>2, <2>3 DEF OwnerInv, OnlyHandle
<1>5. ASSUME NEW c \in Calls, Resumed(c) \/ Migrated(c) PROVE OwnerInv'
  <2>1. pc[c] = "threading" /\ UNCHANGED hd
    BY <1>5 DEF Resumed, Migrated
  <2>2. \A s \in Calls : st[s].gen \in Nat
    BY DEF TypeOK, StateOK
  <2>3. \E s \in Calls : OnlyState(s) /\ st'[s].ws = c /\ (s = c \/ st'[s].gen = st[s].gen + 1)
    BY <1>5, ResumedOld, ResumedNew, MigratedOld, MigratedNew
  <2>4. \E s \in Calls : OnlyState(s) /\ st'[s].ws = c /\ (st[s].gen <= st'[s].gen \/ s = c)
    BY <2>2, <2>3
  <2> QED BY <2>1, <2>4, OwnerState
<1>6. ASSUME NEW r \in Usable, Restart(r) PROVE OwnerInv'
  BY <1>6, RestartEffect, Blank DEF OwnerInv
<1> QED BY <1>1, <1>2, <1>3, <1>4, <1>5, <1>6, Steps

(* With one call at a time, a call that is not the acting one is not       *)
(* pending.                                                                *)
LEMMA OnlyPending ==
    ASSUME NEW c \in Calls, Alone(c), NEW x \in Calls, pc'[x] \notin Finished
    PROVE  x = c
BY DEF Alone, SameCall

(* Registering a new descriptor for state s.                               *)
LEMMA RegistryNamed ==
    ASSUME SerialRegistry, serial, TypeOK, NEW c \in Calls, NEW s \in Calls, OnlyState(s),
           Alone(c), pc'[c] = "announcing",
           \A x \in DOMAIN registry' :
              \/ x \in DOMAIN registry /\ registry'[x] = registry[x]
                    /\ (registry[x] = s => st'[s].descriptor = x)
              \/ registry'[x] = s /\ st'[s].descriptor = x
    PROVE  SerialRegistry'
<1>1. \A x \in Calls : pc'[x] # "threading"
  BY OnlyPending DEF Finished
<1>2. \A x \in DOMAIN registry : registry[x] \in Calls /\ st[registry[x]].descriptor = x
  BY DEF SerialRegistry, TypeOK
<1>3. \A x \in DOMAIN registry' : st'[registry'[x]].descriptor = x
  BY <1>2 DEF OnlyState
<1> QED BY <1>1, <1>3 DEF SerialRegistry

(* Under a patient host, a state is found under its own descriptor only.   *)
LEMMA RegistryStep ==
    ASSUME TypeOK, FreshInv, SerialCalls, SerialRegistry, [Next]_vars
    PROVE  SerialRegistry'
<1> SUFFICES ASSUME serial PROVE SerialRegistry'
  BY SerialKept DEF SerialRegistry
<1>0. None \notin Calls
  BY CallsAssumption
<1>a. \A x \in DOMAIN registry : registry[x] \in Calls /\ st[registry[x]].descriptor = x
  BY DEF SerialRegistry, TypeOK
<1>b. \A x \in Calls : arg[x].existing # None => arg[x].existing \in Calls
  BY DEF TypeOK, ArgOK, MaybeCall
<1>1. CASE TurnFrame
  <2>1. /\ \A s \in Calls : st'[s].descriptor = st[s].descriptor /\ st'[s].ws = st[s].ws
                            /\ st'[s].deleted = st[s].deleted
        /\ UNCHANGED <<pc, arg, registry>>
    BY <1>1 DEF TurnFrame, SameState
  <2> QED BY <1>a, <1>b, <2>1 DEF SerialRegistry
<1>2. CASE CloseRuntime /\ \A c \in Calls : pc[c] \in Finished
  BY <1>2 DEF CloseRuntime, SerialRegistry, Finished
<1>3. ASSUME NEW r \in Usable, Restart(r) PROVE SerialRegistry'
  <2>1. \A c \in Calls : pc'[c] \in {"idle", "done"}
    BY <1>3, RestartEffect
  <2> QED BY <1>3, <2>1, RestartEffect DEF SerialRegistry
<1>4. ASSUME NEW c \in Calls, Alone(c), Ends(c) \/ HandleCall(c) PROVE SerialRegistry'
  <2>1. /\ pc'[c] \in OnHandlePCs \cup {"done"} /\ UNCHANGED registry
        /\ \A s \in Calls : st'[s].descriptor = st[s].descriptor
    <3>1. CASE Ends(c)
      BY <3>1, EndsEffect DEF SameState
    <3>2. ASSUME NEW h \in Calls, Close(c, h) \/ Archive(c, h) \/ Delete(c, h)
          PROVE  pc'[c] \in OnHandlePCs \cup {"done"} /\ UNCHANGED <<registry, st>>
      BY <3>2, HandleCallEffect DEF Close, Archive, Delete
    <3> QED BY <1>4, <3>1, <3>2 DEF HandleCall
  <2>2. \A x \in Calls : pc'[x] # "threading"
    BY <1>4, <2>1, OnlyPending DEF Finished, OnHandlePCs
  <2> QED BY <1>a, <2>1, <2>2 DEF SerialRegistry
<1>5. ASSUME NEW c \in Calls, Alone(c), NEW p, NEW o, NEW b, Create(c, p, o, b) PROVE SerialRegistry'
  <2>1. UNCHANGED <<registry, st>> /\ arg'[c].op = "session"
    BY <1>5, CreateEffect DEF Create
  <2>2. \A x \in Calls : pc'[x] = "threading" => x = c
    BY <1>5, OnlyPending DEF Finished
  <2> QED BY <1>a, <2>1, <2>2 DEF SerialRegistry
<1>6. ASSUME NEW c \in Calls, Alone(c), NEW d, NEW p, Migrate(c, d, p) PROVE SerialRegistry'
  <2>1. /\ UNCHANGED <<registry, st>> /\ arg'[c].op = "migrate" /\ arg'[c].d = d
        /\ arg'[c].existing = Existing(d)
        /\ Existing(d) # None => arg'[c].prev = st[Existing(d)].ws
    BY <1>6, MigrateEffect DEF Migrate
  <2>2. \A x \in Calls : pc'[x] = "threading" => x = c
    BY <1>6, OnlyPending DEF Finished
  <2>3. Existing(d) # None =>
           d \in DOMAIN registry /\ registry[d] = Existing(d) /\ ~st[Existing(d)].deleted
    BY DEF Existing
  <2> QED BY <1>a, <2>1, <2>2, <2>3 DEF SerialRegistry
<1>7. ASSUME NEW c \in Calls, Alone(c), NEW d, NEW b, Resume(c, d, b) PROVE SerialRegistry'
  <2>1. /\ UNCHANGED <<registry, st>> /\ arg'[c].op = "resume" /\ arg'[c].d = d
        /\ arg'[c].existing = IF d \in DOMAIN registry THEN registry[d] ELSE None
    BY <1>7, ResumeEffect DEF Resume
  <2>2. \A x \in Calls : pc'[x] = "threading" => x = c
    BY <1>7, OnlyPending DEF Finished
  <2> QED BY <1>a, <2>1, <2>2 DEF SerialRegistry
<1>8. ASSUME NEW c \in Calls, Alone(c), Created(c) PROVE SerialRegistry'
  <2> DEFINE d == CreatedDescriptor(c)
  <2>1. /\ pc'[c] = "announcing" /\ OnlyState(c) /\ st'[c].descriptor = d /\ Registers(d, c, {})
    BY <1>8, CreatedEffect, RegistryEffect DEF CreatedDescriptor
  <2>2. \A x \in DOMAIN registry : registry[x] # c
    BY <1>8 DEF FreshInv, Unborn, Created
  <2> HIDE DEF d
  <2> QED BY <1>8, <2>1, <2>2, RegistryNamed DEF Registers
<1>9. ASSUME NEW c \in Calls, Alone(c), Return(c) PROVE SerialRegistry'
  <2>1. UNCHANGED <<registry, st>> /\ pc'[c] = "done"
    BY <1>9, ReturnEffect DEF Return
  <2>2. \A x \in Calls : pc'[x] # "threading"
    BY <1>9, <2>1, OnlyPending DEF Finished
  <2> QED BY <1>a, <2>1, <2>2 DEF SerialRegistry
<1>10. ASSUME NEW c \in Calls, Alone(c), Resumed(c) PROVE SerialRegistry'
  <2> DEFINE d == arg[c].d
             s == arg[c].existing
  <2>1. CASE ResumesExisting(c)
    <3>1. /\ pc'[c] = "announcing" /\ OnlyState(s) /\ s \in Calls
          /\ st'[s].descriptor = st[s].descriptor /\ UNCHANGED registry
      BY <1>10, <2>1, ResumedOld
    <3> QED BY <1>10, <1>a, <3>1, RegistryNamed
  <2>2. CASE ~ResumesExisting(c)
    <3>1. /\ pc'[c] = "announcing" /\ OnlyState(c) /\ st'[c].descriptor = d /\ Registers(d, c, {})
      BY <1>10, <2>2, ResumedNew, RegistryEffect
    <3>2. \A x \in DOMAIN registry : registry[x] # c
      BY <1>10 DEF FreshInv, Unborn, Resumed
    <3> QED BY <1>10, <3>1, <3>2, RegistryNamed DEF Registers
  <2> QED BY <2>1, <2>2
<1>11. ASSUME NEW c \in Calls, Alone(c), Migrated(c) PROVE SerialRegistry'
  <2> DEFINE e == arg[c].d
             s == arg[c].existing
             d == MigratedDescriptor(c)
  <2>1. CASE s # None
    <3>1. /\ pc'[c] = "announcing" /\ OnlyState(s) /\ s \in Calls /\ st'[s].descriptor = d
          /\ Registers(d, s, {e})
      BY <1>11, <2>1, MigratedOld, RegistryEffect
    <3>2. e \in DOMAIN registry /\ registry[e] = s
      BY <1>11, <2>1 DEF SerialRegistry, Migrated
    <3>3. \A x \in DOMAIN registry \ {e} : registry[x] # s
      BY <1>a, <3>2
    <3> HIDE DEF d
    <3>4. \A x \in DOMAIN registry' :
              \/ x \in DOMAIN registry /\ registry'[x] = registry[x] /\ registry[x] # s
              \/ registry'[x] = s /\ st'[s].descriptor = x
      BY <3>1, <3>3 DEF Registers
    <3> QED BY <1>11, <3>1, <3>4, RegistryNamed
  <2>2. CASE s = None
    <3>1. /\ pc'[c] = "announcing" /\ OnlyState(c) /\ st'[c].descriptor = d /\ Registers(d, c, {})
      BY <1>11, <2>2, MigratedNew, RegistryEffect
    <3>2. \A x \in DOMAIN registry : registry[x] # c
      BY <1>11 DEF FreshInv, Unborn, Migrated
    <3> HIDE DEF d
    <3> QED BY <1>11, <3>1, <3>2, RegistryNamed DEF Registers
  <2> QED BY <2>1, <2>2
<1> QED BY <1>1, <1>2, <1>3, <1>4, <1>5, <1>6, <1>7, <1>8, <1>9, <1>10, <1>11, SerialSteps

-----------------------------------------------------------------------------
(* No generation changes: the current handles stay the same.               *)
LEMMA SameCurrent ==
    ASSUME TypeOK, \A s \in Calls : SameState(s), \A h \in Calls : SameHandle(h)
    PROVE  \A h \in Calls : Current(h)' = Current(h)
<1>1. \A h \in Calls : hd[h].state # None => hd[h].state \in Calls
  BY DEF TypeOK, HandleOK, MaybeCall
<1> QED BY <1>1 DEF Current, SameState, SameHandle

(* A new state, or a new generation, has no current handle.                *)
LEMMA NewGeneration ==
    ASSUME TypeOK, FreshInv, OwnerInv, NEW c \in Calls, pc[c] = "threading",
           NEW s \in Calls, OnlyState(s), s = c \/ st'[s].gen = st[s].gen + 1, UNCHANGED hd
    PROVE  \A h \in Calls : Current(h)' <=> Current(h) /\ hd[h].state # s
<1> TAKE h \in Calls
<1>1. hd[h].state # c
  BY DEF FreshInv, Unborn
<1>2. hd[h].state # None =>
          /\ hd[h].state \in Calls /\ hd[h].gen \in Nat /\ st[hd[h].state].gen \in Nat
          /\ hd[h].gen <= st[hd[h].state].gen
  BY DEF TypeOK, HandleOK, StateOK, MaybeCall, OwnerInv
<1>3. CASE hd[h].state = s
  BY <1>1, <1>2, <1>3 DEF Current
<1>4. CASE hd[h].state # s
  BY <1>2, <1>4 DEF Current, OnlyState
<1> QED BY <1>3, <1>4

(* Under a patient host, a state has one current handle at most.           *)
LEMMA HandleStep ==
    ASSUME TypeOK, FreshInv, SerialCalls, SerialRegistry, OwnerInv, HandleInv, [Next]_vars
    PROVE  HandleInv'
<1> SUFFICES ASSUME serial PROVE HandleInv'
  BY SerialKept DEF HandleInv
<1>0. None \notin Calls
  BY CallsAssumption
<1>a. /\ \A h, g \in Calls : Current(h) /\ Current(g) /\ hd[h].state = hd[g].state => h = g
      /\ \A c \in Calls : pc[c] = "announcing" =>
            /\ ~st[arg[c].existing].deleted
            /\ st[arg[c].existing].ws = c
            /\ \A h \in Calls : hd[h].state = arg[c].existing => ~Current(h)
      /\ \A c \in Calls : pc[c] \in OnHandlePCs => Current(arg[c].h)
  BY DEF HandleInv
<1>1. CASE TurnFrame
  <2>1. /\ UNCHANGED <<pc, arg, hd>> /\ \A h \in Calls : SameHandle(h)
        /\ \A s \in Calls : SameState(s) /\ st'[s].deleted = st[s].deleted
    BY <1>1 DEF TurnFrame, SameHandle, TypeOK
  <2>2. \A h \in Calls : Current(h)' = Current(h)
    BY <2>1, SameCurrent
  <2>3. \A c \in Calls : (pc[c] = "announcing" => arg[c].existing \in Calls)
                      /\ (pc[c] \in OnHandlePCs => arg[c].h \in Calls)
    BY DEF TypeOK
  <2> QED BY <1>a, <2>1, <2>2, <2>3 DEF HandleInv, SameState
<1>2. CASE CloseRuntime /\ \A c \in Calls : pc[c] \in Finished
  <2>1. UNCHANGED <<pc, arg, hd, st>>
    BY <1>2 DEF CloseRuntime
  <2>2. \A h \in Calls : Current(h)' = Current(h)
    BY <2>1 DEF Current
  <2> QED BY <1>2, <1>a, <2>1, <2>2 DEF HandleInv, Finished, OnHandlePCs
<1>3. ASSUME NEW r \in Usable, Restart(r) PROVE HandleInv'
  <2>1. \A c \in Calls : pc'[c] \in {"idle", "done"}
    BY <1>3, RestartEffect
  <2>2. \A h \in Calls : ~Current(h)'
    BY <1>3, RestartEffect, Blank DEF Current
  <2> QED BY <2>1, <2>2 DEF HandleInv, OnHandlePCs
<1>4. ASSUME NEW c \in Calls, Alone(c), Ends(c) PROVE HandleInv'
  <2>1. /\ pc'[c] = "done" /\ \A s \in Calls : SameState(s) /\ \A h \in Calls : SameHandle(h)
    BY <1>4, EndsEffect
  <2>2. \A h \in Calls : Current(h)' = Current(h) /\ hd'[h].state = hd[h].state
    BY <2>1, SameCurrent DEF SameHandle
  <2>3. \A x \in Calls : pc'[x] \in Finished
    BY <1>4, <2>1, OnlyPending DEF Finished
  <2> QED BY <1>a, <2>2, <2>3 DEF HandleInv, Finished, OnHandlePCs
<1>5. ASSUME NEW c \in Calls, Alone(c), NEW h \in Calls, Close(c, h) \/ Archive(c, h) \/ Delete(c, h)
      PROVE HandleInv'
  <2>1. /\ pc'[c] \in OnHandlePCs => arg'[c].h = h /\ Current(h)
        /\ pc'[c] \in OnHandlePCs \cup {"done"}
        /\ \A x \in Calls : SameHandle(x)
    BY <1>5, HandleCallEffect
  <2>2. UNCHANGED st
    BY <1>5 DEF Close, Archive, Delete
  <2>3. \A x \in Calls : SameState(x)
    BY <2>2 DEF SameState, TypeOK
  <2>4. \A x \in Calls : Current(x)' = Current(x) /\ hd'[x].state = hd[x].state
    BY <2>1, <2>3, SameCurrent DEF SameHandle
  <2>5. \A x \in Calls : x # c => pc'[x] \in Finished
    BY <1>5, OnlyPending
  <2> QED BY <1>a, <2>1, <2>4, <2>5 DEF HandleInv, Finished, OnHandlePCs
<1>6. ASSUME NEW c \in Calls, Alone(c), NEW p, NEW o, NEW d, NEW b,
             Create(c, p, o, b) \/ Migrate(c, d, p) \/ Resume(c, d, b)
      PROVE HandleInv'
  <2>1. UNCHANGED <<hd, st>> /\ pc'[c] = "threading"
    BY <1>6, CreateEffect, MigrateEffect, ResumeEffect DEF Create, Migrate, Resume
  <2>2. \A h \in Calls : Current(h)' = Current(h)
    BY <2>1 DEF Current
  <2>3. \A x \in Calls : x # c => pc'[x] \in Finished
    BY <1>6, OnlyPending
  <2> QED BY <1>a, <2>1, <2>2, <2>3 DEF HandleInv, Finished, OnHandlePCs
<1>7. ASSUME NEW c \in Calls, Alone(c), pc[c] = "threading", UNCHANGED hd, NEW s \in Calls,
             OnlyState(s), s = c \/ st'[s].gen = st[s].gen + 1, st'[s].ws = c, ~st'[s].deleted,
             pc'[c] = "announcing", arg'[c].existing = s
      PROVE HandleInv'
  <2>1. \A h \in Calls : Current(h)' <=> Current(h) /\ hd[h].state # s
    BY <1>7, NewGeneration
  <2>2. \A x \in Calls : x # c => pc'[x] \in Finished
    BY <1>7, OnlyPending
  <2> QED BY <1>7, <1>a, <2>1, <2>2 DEF HandleInv, Finished, OnHandlePCs
<1>8. ASSUME NEW c \in Calls, Alone(c), Created(c) PROVE HandleInv'
  <2>1. pc[c] = "threading" /\ UNCHANGED hd
    BY <1>8 DEF Created
  <2>2. /\ OnlyState(c) /\ st'[c].ws = c /\ ~st'[c].deleted
        /\ pc'[c] = "announcing" /\ arg'[c].existing = c
    BY <1>8, CreatedEffect
  <2> QED BY <1>7, <1>8, <2>1, <2>2
<1>9. ASSUME NEW c \in Calls, Alone(c), Return(c) PROVE HandleInv'
  <2> DEFINE s == arg[c].existing
  <2>1. UNCHANGED st /\ pc[c] = "announcing" /\ s \in Calls
    BY <1>9 DEF Return, TypeOK
  <2>2. /\ pc'[c] = "done" /\ OnlyHandle(c) /\ hd'[c].state = s
    BY <1>9, ReturnEffect
  <2>3. \A x \in Calls : pc'[x] \in Finished
    BY <1>9, <2>2, OnlyPending DEF Finished
  <2>4. \A h \in Calls : h # c => hd'[h] = hd[h] /\ Current(h)' = Current(h)
    BY <2>1, <2>2 DEF OnlyHandle, Current
  <2>5. \A h \in Calls : hd[h].state = s => ~Current(h)
    BY <1>a, <2>1
  <2>6. \A h, g \in Calls : Current(h)' /\ Current(g)' /\ hd'[h].state = hd'[g].state => h = g
    <3> SUFFICES ASSUME NEW h \in Calls, NEW g \in Calls, Current(h)', Current(g)',
                        hd'[h].state = hd'[g].state, h # g
                 PROVE  FALSE
      OBVIOUS
    <3> HIDE DEF s
    <3> QED BY <1>a, <2>2, <2>4, <2>5
  <2> QED BY <2>3, <2>6 DEF HandleInv, Finished, OnHandlePCs
<1>10. ASSUME NEW c \in Calls, Alone(c), Resumed(c) PROVE HandleInv'
  <2>1. pc[c] = "threading" /\ UNCHANGED hd
    BY <1>10 DEF Resumed
  <2>2. CASE ResumesExisting(c)
    <3> DEFINE s == arg[c].existing
    <3>1. /\ OnlyState(s) /\ s \in Calls /\ st'[s].ws = c /\ st'[s].deleted = st[s].deleted
          /\ st'[s].gen = st[s].gen + 1 /\ pc'[c] = "announcing" /\ arg'[c].existing = s
      BY <1>10, <2>2, ResumedOld
    <3>2. ~st[s].deleted
      BY <2>2 DEF ResumesExisting
    <3> QED BY <1>7, <1>10, <2>1, <3>1, <3>2
  <2>3. CASE ~ResumesExisting(c)
    <3>1. /\ OnlyState(c) /\ st'[c].ws = c /\ ~st'[c].deleted
          /\ pc'[c] = "announcing" /\ arg'[c].existing = c
      BY <1>10, <2>3, ResumedNew
    <3> QED BY <1>7, <1>10, <2>1, <3>1
  <2> QED BY <2>2, <2>3
<1>11. ASSUME NEW c \in Calls, Alone(c), Migrated(c) PROVE HandleInv'
  <2>1. pc[c] = "threading" /\ UNCHANGED hd
    BY <1>11 DEF Migrated
  <2>2. CASE arg[c].existing # None
    <3> DEFINE s == arg[c].existing
    <3>1. /\ OnlyState(s) /\ s \in Calls /\ st'[s].ws = c /\ st'[s].deleted = st[s].deleted
          /\ st'[s].gen = st[s].gen + 1 /\ pc'[c] = "announcing" /\ arg'[c].existing = s
      BY <1>11, <2>2, MigratedOld
    <3>2. ~st[s].deleted
      BY <1>11, <2>1, <2>2 DEF SerialRegistry, Migrated
    <3> QED BY <1>7, <1>11, <2>1, <3>1, <3>2
  <2>3. CASE arg[c].existing = None
    <3>1. /\ OnlyState(c) /\ st'[c].ws = c /\ ~st'[c].deleted
          /\ pc'[c] = "announcing" /\ arg'[c].existing = c
      BY <1>11, <2>3, MigratedNew
    <3> QED BY <1>7, <1>11, <2>1, <3>1
  <2> QED BY <2>2, <2>3
<1> QED BY <1>1, <1>2, <1>3, <1>4, <1>5, <1>6, <1>8, <1>9, <1>10, <1>11, SerialSteps DEF HandleCall

(* The steps that keep every state, and remove the directory w at most.    *)
LEMMA DiskShrinks ==
    ASSUME TypeOK, serial, DiskInv, NEW c \in Calls, Alone(c), pc'[c] \notin Pending,
           UNCHANGED <<started, registry>>, NEW w, workspaces' = workspaces \ {w},
           left \subseteq left',
           \A s \in Calls : SameState(s) /\ st'[s].live = st[s].live,
           \A s \in Calls : st'[s].deleted => st[s].deleted \/ st[s].ws = w,
           \A h \in Calls : Open(h)' => Open(h) /\ hd'[h].state = hd[h].state
                                        /\ st[hd[h].state].ws # w,
           \/ pc[c] \notin Pending \/ w = c \/ c \in left'
           \/ \E d \in DOMAIN registry : st[registry[d]].ws = c
    PROVE  DiskInv'
<1>1. \A x \in Calls : pc'[x] \notin Pending
  BY OnlyPending DEF Finished, Pending
<1>2. \A h \in Calls : Open(h) => hd[h].state \in Calls
  BY DEF Open, Current, TypeOK, HandleOK, MaybeCall
<1>3. ASSUME NEW h \in Calls, InUse(h)' PROVE st'[hd'[h].state].ws \in workspaces'
  <2>1. Open(h) /\ hd'[h].state = hd[h].state /\ started /\ st[hd[h].state].ws # w
    BY <1>3 DEF InUse
  <2>2. InUse(h) /\ st'[hd'[h].state].ws = st[hd[h].state].ws
    BY <1>2, <1>3, <2>1 DEF InUse, SameState
  <2> QED BY <2>1, <2>2 DEF DiskInv
<1>4. \A s \in Calls : st'[s].deleted => st'[s].ws \notin workspaces'
  BY DEF DiskInv, SameState
<1>5. \A d \in DOMAIN registry : registry[d] \in Calls /\ st'[registry[d]].ws = st[registry[d]].ws
  BY DEF TypeOK, SameState
<1>6. ASSUME NEW v \in workspaces' \ left'
      PROVE  \E d \in DOMAIN registry' : st'[registry'[d]].ws = v
  <2>1. v \in workspaces \ left /\ v # w /\ v \in Calls
    BY <1>6 DEF TypeOK
  <2>2. pc[v] \in Pending => v = c
    BY DEF Alone, Finished, Pending, TypeOK
  <2>3. \E d \in DOMAIN registry : st[registry[d]].ws = v
    BY <2>1, <2>2 DEF DiskInv
  <2> QED BY <1>5, <2>3
<1> QED BY <1>1, <1>3, <1>4, <1>6 DEF DiskInv, Pending

(* The state of an open handle has been given a directory.                 *)
LEMMA OpenOwns ==
    ASSUME TypeOK, ThreadInv
    PROVE  \A h \in Calls : Open(h) => hd[h].state \in Calls /\ st[hd[h].state].ws \in Calls
BY DEF ThreadInv, Open, Current, TypeOK, HandleOK, MaybeCall

(* The handle in use is closed, and the directory of its state removed.    *)
LEMMA DiskCloses ==
    ASSUME TypeOK, ThreadInv, serial, HandleInv, OwnerInv, DiskInv, NEW c \in Calls, Alone(c),
           pc[c] \notin Pending, pc'[c] \notin Pending,
           UNCHANGED <<started, registry, left>>, NEW h \in Calls,
           hd' = [hd EXCEPT ![h].closed = TRUE],
           \A s \in Calls : SameState(s) /\ st'[s].live = st[s].live,
           \A x \in Calls : SameHandle(x),
           \A s \in Calls \ {hd[h].state} : st'[s].deleted = st[s].deleted,
           Current(h) => workspaces' = workspaces \ {st[hd[h].state].ws},
           ~Current(h) => workspaces' = workspaces \ {None} /\ UNCHANGED st
    PROVE  DiskInv'
<1>0. None \notin workspaces /\ None \notin Calls
  BY CallsAssumption DEF TypeOK
<1>1. \A x \in Calls : Current(x)' = Current(x) /\ hd'[x].state = hd[x].state
  BY SameCurrent DEF SameHandle
<1>2. hd'[h].closed /\ \A x \in Calls \ {h} : hd'[x] = hd[x]
  BY CloseHandleEffect DEF OnlyHandle
<1>3. \A x \in Calls : Open(x) => hd[x].state \in Calls /\ st[hd[x].state].ws \in Calls
  BY OpenOwns
<1>4. \A x \in Calls : x # h /\ Current(x) /\ Current(h) => hd[x].state # hd[h].state
  BY DEF HandleInv
<1>5. ASSUME NEW x \in Calls, Open(x)'
      PROVE  x # h /\ Current(x) /\ ~hd[x].closed /\ ~st'[hd[x].state].deleted
  <2>1. x # h
    BY <1>2, <1>5 DEF Open
  <2> QED BY <1>1, <1>2, <1>5, <2>1 DEF Open
<1>6. CASE Current(h)
  <2> DEFINE w == st[hd[h].state].ws
  <2>1. hd[h].state \in Calls
    BY <1>6 DEF Current, TypeOK, HandleOK, MaybeCall
  <2>2. \A s \in Calls : st'[s].deleted => st[s].deleted \/ st[s].ws = w
    OBVIOUS
  <2>3. ASSUME NEW x \in Calls, Open(x)' PROVE Open(x) /\ hd'[x].state = hd[x].state
                                              /\ st[hd[x].state].ws # w
    <3>1. x # h /\ Current(x) /\ ~hd[x].closed /\ ~st'[hd[x].state].deleted
      BY <1>5, <2>3
    <3>2. hd[x].state # hd[h].state /\ hd[x].state \in Calls
      BY <1>4, <1>6, <3>1 DEF Current, TypeOK, HandleOK, MaybeCall
    <3>3. Open(x)
      BY <3>1, <3>2 DEF Open
    <3>4. st[hd[x].state].ws # w
      BY <1>0, <1>3, <2>1, <3>2, <3>3 DEF OwnerInv
    <3> QED BY <1>1, <3>3, <3>4
  <2>4. workspaces' = workspaces \ {w}
    BY <1>6
  <2> HIDE DEF w
  <2> QED BY <2>2, <2>3, <2>4, DiskShrinks
<1>7. CASE ~Current(h)
  <2>1. workspaces' = workspaces \ {None} /\ UNCHANGED st
    BY <1>7
  <2>2. \A s \in Calls : st'[s].deleted => st[s].deleted \/ st[s].ws = None
    BY <2>1
  <2>3. ASSUME NEW x \in Calls, Open(x)' PROVE Open(x) /\ hd'[x].state = hd[x].state
                                              /\ st[hd[x].state].ws # None
    <3>1. Open(x)
      BY <1>5, <2>1, <2>3 DEF Open
    <3> QED BY <1>0, <1>1, <1>3, <3>1
  <2> QED BY <2>1, <2>2, <2>3, DiskShrinks
<1> QED BY <1>6, <1>7

(* A call begins with a directory of its own.                              *)
LEMMA DiskBegins ==
    ASSUME TypeOK, FreshInv, serial, started, DiskInv, NEW c \in Calls, Alone(c),
           pc[c] = "idle", pc'[c] = "threading",
           UNCHANGED <<started, registry, st, hd, left>>, workspaces' = workspaces \cup {c}
    PROVE  DiskInv'
<1>1. \A x \in Calls : pc'[x] # "announcing" /\ (pc'[x] \in Pending => x = c)
  BY OnlyPending DEF Finished, Pending
<1>2. \A h \in Calls : InUse(h)' = InUse(h)
  BY DEF InUse, Open, Current
<1>3. \A s \in Calls : st[s].ws # c
  BY DEF FreshInv, Unborn
<1>4. \A v \in Calls : v # c => pc'[v] = pc[v]
  BY DEF Alone, SameCall
<1>5. workspaces \subseteq Calls
  BY DEF TypeOK
<1>6. ASSUME NEW v \in workspaces' \ left'
      PROVE  pc'[v] \in Pending \/ \E d \in DOMAIN registry' : st'[registry'[d]].ws = v
  <2>1. CASE v = c
    BY <2>1 DEF Pending
  <2>2. CASE v # c
    <3>1. v \in workspaces \ left /\ pc'[v] = pc[v]
      BY <1>4, <1>5, <1>6, <2>2
    <3> QED BY <3>1 DEF DiskInv
  <2> QED BY <2>1, <2>2
<1> QED BY <1>1, <1>2, <1>3, <1>6 DEF DiskInv

(* A state takes over the directory of the call; its former directory, if  *)
(* it had one, is removed.                                                 *)
LEMMA DiskBinds ==
    ASSUME TypeOK, FreshInv, OwnerInv, serial, DiskInv, NEW c \in Calls, Alone(c),
           pc[c] = "threading", pc'[c] = "announcing", NEW s \in Calls, arg'[c].existing = s,
           OnlyState(s), st'[s].ws = c, ~st'[s].deleted, UNCHANGED <<started, hd, left>>,
           \/ s = c /\ UNCHANGED workspaces
           \/ st'[s].gen = st[s].gen + 1 /\ workspaces' = workspaces \ {st[s].ws},
           \E d \in DOMAIN registry' : registry'[d] = s,
           \A d \in DOMAIN registry :
              \/ st[registry[d]].deleted
              \/ registry[d] = s
              \/ d \in DOMAIN registry' /\ registry'[d] = registry[d]
    PROVE  DiskInv'
<1>0. None \notin workspaces /\ workspaces \subseteq Calls
  BY CallsAssumption DEF TypeOK
<1>1. \A x \in Calls : pc'[x] \in Pending => x = c
  BY OnlyPending DEF Finished, Pending
<1>2. /\ \A x \in Calls : st[x].ws # c /\ hd[x].state # c
      /\ \A d \in DOMAIN registry : registry[d] # c
  BY DEF FreshInv, Unborn
<1>3. \A h \in Calls : Current(h)' <=> Current(h) /\ hd[h].state # s
  BY NewGeneration
<1>4. \A x \in Calls \ {s} : st'[x] = st[x]
  BY DEF OnlyState
<1>5. workspaces' \subseteq workspaces /\ c \in workspaces'
  <2>1. c \in workspaces
    BY DEF DiskInv, Pending
  <2> QED BY <1>2, <2>1
<1>6. ASSUME NEW x \in Calls, x # s, st[x].ws \in workspaces
      PROVE  st[x].ws \in workspaces'
  BY <1>0, <1>6 DEF OwnerInv
<1>7. ASSUME NEW h \in Calls, InUse(h)'
      PROVE  st'[hd'[h].state].ws \in workspaces'
  <2>1. Current(h) /\ hd[h].state # s /\ hd[h].state \in Calls /\ ~hd[h].closed
    BY <1>3, <1>7 DEF InUse, Open, Current, TypeOK, HandleOK, MaybeCall
  <2>2. st'[hd[h].state] = st[hd[h].state] /\ hd'[h] = hd[h]
    BY <1>4, <2>1
  <2>3. InUse(h)
    BY <1>7, <2>1, <2>2 DEF InUse, Open
  <2>4. st[hd[h].state].ws \in workspaces
    BY <2>3 DEF DiskInv
  <2> QED BY <1>6, <2>1, <2>2, <2>4
<1>8. \A x \in Calls : st'[x].deleted => st'[x].ws \notin workspaces'
  BY <1>4, <1>5 DEF DiskInv
<1>9. ASSUME NEW v \in workspaces' \ left'
      PROVE  pc'[v] \in Pending \/ \E d \in DOMAIN registry' : st'[registry'[d]].ws = v
  <2>1. CASE v = c
    BY <2>1 DEF Pending
  <2>2. CASE v # c
    <3>1. v \in workspaces \ left /\ pc[v] \notin Pending
      BY <1>0, <1>5, <1>9, <2>2 DEF Alone, Finished, Pending
    <3>2. PICK d \in DOMAIN registry : st[registry[d]].ws = v
      BY <3>1 DEF DiskInv
    <3>3. registry[d] \in Calls
      BY DEF TypeOK
    <3>4. ~st[registry[d]].deleted
      BY <3>1, <3>2, <3>3 DEF DiskInv
    <3>5. registry[d] # s
      BY <1>2, <1>9, <3>2, <3>3
    <3>6. d \in DOMAIN registry' /\ registry'[d] = registry[d]
      BY <3>4, <3>5
    <3> QED BY <1>4, <3>2, <3>3, <3>5, <3>6
  <2> QED BY <2>1, <2>2
<1>10. \A x \in Calls : pc'[x] = "announcing" => \E d \in DOMAIN registry' : registry'[d] = arg'[x].existing
  BY <1>1 DEF Pending
<1>11. \A x \in Calls : pc'[x] \in Pending => started' /\ x \in workspaces'
  BY <1>1, <1>5 DEF DiskInv, Pending
<1> QED BY <1>7, <1>8, <1>9, <1>10, <1>11 DEF DiskInv

(* A new descriptor is not among those issued before.                      *)
LEMMA CreatedIsNew ==
    ASSUME FreshInv, ThreadInv, NEW c \in Calls, Created(c)
    PROVE  CreatedDescriptor(c) \notin DOMAIN registry
<1>1. \A x \in DOMAIN registry : ThreadOf(x) # c
  BY DEF FreshInv, ThreadInv, Created, Unborn
<1> QED BY <1>1, CreatedFields

(* A migrated descriptor is not among those registered: its nonce is new.  *)
LEMMA MigratedIsNew ==
    ASSUME FreshInv, ThreadInv, NEW c \in Calls, Migrated(c)
    PROVE  MigratedDescriptor(c) \notin DOMAIN registry
<1>1. \A x \in DOMAIN registry : NonceOf(x) # c
  BY DEF FreshInv, ThreadInv, Migrated, Unborn
<1> QED BY <1>1, MigratedFields

(* Under a patient host, no directory is lost and none is left over.       *)
LEMMA DiskStep ==
    ASSUME TypeOK, FreshInv, ThreadInv, SerialCalls, SerialRegistry, OwnerInv, HandleInv,
           DiskInv, [Next]_vars
    PROVE  DiskInv'
<1> SUFFICES ASSUME serial, serial' PROVE DiskInv'
  BY SerialKept DEF DiskInv
<1>1. CASE TurnFrame
  <2>1. /\ UNCHANGED <<pc, arg, hd, registry, workspaces, left>> /\ (started => started')
        /\ \A s \in Calls : SameState(s) /\ st'[s].deleted = st[s].deleted
        /\ \A s \in Calls : started' /\ st'[s].live => started /\ st[s].live
    BY <1>1 DEF TurnFrame, diskVars
  <2>2. \A h \in Calls : SameHandle(h)
    BY <2>1 DEF SameHandle, TypeOK
  <2>3. \A h \in Calls : Current(h)' = Current(h)
    BY <2>1, <2>2, SameCurrent
  <2>4. \A h \in Calls : Current(h) => hd[h].state \in Calls
    BY DEF Current, TypeOK, HandleOK, MaybeCall
  <2>5. \A h \in Calls : InUse(h)' => InUse(h) /\ hd[h].state \in Calls
    BY <2>1, <2>3, <2>4 DEF InUse, Open
  <2>6. \A d \in DOMAIN registry : registry[d] \in Calls
    BY DEF TypeOK
  <2>7. \A s \in Calls : st'[s].ws = st[s].ws /\ st'[s].deleted = st[s].deleted
    BY <2>1 DEF SameState
  <2> QED BY <2>1, <2>5, <2>6, <2>7 DEF DiskInv
<1>2. CASE CloseRuntime /\ \A c \in Calls : pc[c] \in Finished
  <2>1. /\ UNCHANGED <<pc, arg, st, hd>> /\ started' = FALSE /\ workspaces' \subseteq workspaces
        /\ workspaces' \subseteq left'
    <3> DEFINE gone == {st[registry[d]].ws : d \in DOMAIN registry}
    <3>1. PICK kept : /\ workspaces' = workspaces \ (gone \ kept)
                      /\ left' = left \cup (kept \cap workspaces)
      BY <1>2 DEF CloseRuntime
    <3>2. \A w \in workspaces \ left : w \in gone
      BY <1>2 DEF DiskInv, Finished, Pending, TypeOK
    <3> HIDE DEF gone
    <3>3. workspaces' \subseteq left'
      BY <3>1, <3>2
    <3> QED BY <1>2, <3>1, <3>3 DEF CloseRuntime
  <2> QED BY <1>2, <2>1 DEF DiskInv, InUse, Finished, Pending
<1>3. ASSUME NEW r \in Usable, Restart(r) PROVE DiskInv'
  <2>1. \A c \in Calls : pc'[c] \in {"idle", "done"}
    BY <1>3, RestartEffect
  <2>2. \A h \in Calls : ~InUse(h)'
    BY <1>3, RestartEffect, Blank DEF InUse, Open, Current
  <2>3. workspaces' = {}
    BY <1>3, RestartEffect
  <2> QED BY <2>1, <2>2, <2>3 DEF DiskInv, Pending
<1> SUFFICES ASSUME NEW c \in Calls, Alone(c),
                    \/ Ends(c) \/ HandleCall(c)
                    \/ \E p, o, b : Create(c, p, o, b)
                    \/ \E d, p : Migrate(c, d, p)
                    \/ \E d, b : Resume(c, d, b)
                    \/ Created(c) \/ Return(c) \/ Resumed(c) \/ Migrated(c)
             PROVE  DiskInv'
  BY <1>1, <1>2, <1>3, SerialSteps
<1>4. UNCHANGED started
  <2>1. Ends(c) => UNCHANGED rtVars
    BY EndsEffect
  <2>2. HandleCall(c) => UNCHANGED rtVars
    BY DEF HandleCall, Close, Archive, Delete
  <2>3. ASSUME NEW p, NEW o, NEW d, NEW b,
               Create(c, p, o, b) \/ Migrate(c, d, p) \/ Resume(c, d, b)
               \/ Created(c) \/ Return(c) \/ Resumed(c) \/ Migrated(c)
        PROVE  UNCHANGED rtVars
    BY <2>3 DEF Create, Migrate, Resume, Created, Return, Resumed, Migrated
  <2>4. UNCHANGED rtVars
    BY <2>1, <2>2, <2>3
  <2> QED BY <2>4 DEF rtVars
<1>n. None \notin Calls /\ None \notin workspaces /\ workspaces \subseteq Calls
  BY CallsAssumption DEF TypeOK
<1>5. CASE Ends(c)
  <2>1. /\ pc[c] \notin Finished /\ pc'[c] = "done" /\ UNCHANGED registry
        /\ \A s \in Calls : SameState(s) /\ \A h \in Calls : SameHandle(h)
        /\ \A s \in Calls : st'[s].live = st[s].live
    BY <1>5, EndsEffect
  <2>2. pc'[c] \notin Pending
    BY <2>1 DEF Pending
  <2>3. CASE \/ CreateFails(c) \/ RebindFails(c) \/ CallCancelled(c) \/ AnnounceFails(c)
             \/ HandleCallFails(c) \/ Archived(c)
    <3>1. /\ UNCHANGED hd /\ \A s \in Calls : st'[s].deleted = st[s].deleted
      <4>1. CASE Archived(c)
        BY <4>1, ArchivedEffect DEF Archived, SameStates
      <4> QED BY <2>3, <4>1 DEF CreateFails, RebindFails, CallCancelled, AnnounceFails,
                                HandleCallFails
    <3>l. left \subseteq left'
      BY <2>3 DEF CreateFails, RebindFails, CallCancelled, AnnounceFails, HandleCallFails, Archived,
                  diskVars
    <3>2. \A h \in Calls : Current(h)' = Current(h)
      BY <2>1, SameCurrent
    <3>3. \A h \in Calls : Current(h) => hd[h].state \in Calls
      BY DEF Current, TypeOK, HandleOK, MaybeCall
    <3>4. \A h \in Calls : Open(h)' => Open(h) /\ hd'[h].state = hd[h].state
      BY <3>1, <3>2, <3>3 DEF Open
    <3>5. CASE pc[c] \in Pending /\ workspaces' = workspaces \ {c}
      <4>1. \A h \in Calls : Open(h) => st[hd[h].state].ws # c
        <5>1. CASE pc[c] = "threading"
          BY <3>3, <5>1 DEF FreshInv, Unborn, Open
        <5>2. CASE pc[c] = "announcing"
          BY <3>3, <5>2, <1>n DEF HandleInv, OwnerInv, Open, TypeOK
        <5> QED BY <3>5, <5>1, <5>2 DEF Pending
      <4> QED BY <1>4, <2>1, <2>2, <3>1, <3>4, <3>5, <3>l, <4>1, DiskShrinks
    <3>6. CASE /\ workspaces' = workspaces
               /\ \/ pc[c] \notin Pending \/ c \in left'
                  \/ pc[c] = "announcing" /\ arg[c].existing \in Calls
      <4>1. workspaces' = workspaces \ {None}
        BY <1>n, <3>6
      <4>2. \A h \in Calls : Open(h) => st[hd[h].state].ws # None
        BY <1>n, OpenOwns
      <4>3. pc[c] \notin Pending \/ c \in left' \/ \E d \in DOMAIN registry : st[registry[d]].ws = c
        <5>1. CASE pc[c] = "announcing"
          <6>1. st[arg[c].existing].ws = c
            BY <5>1 DEF HandleInv
          <6>2. \E d \in DOMAIN registry : registry[d] = arg[c].existing
            BY <5>1 DEF DiskInv
          <6> QED BY <6>1, <6>2
        <5> QED BY <3>6, <5>1
      <4> QED BY <1>4, <2>1, <2>2, <3>1, <3>4, <3>l, <4>1, <4>2, <4>3, DiskShrinks
    <3> QED BY <2>3, <3>5, <3>6 DEF CreateFails, RebindFails, CallCancelled, AnnounceFails,
                                    HandleCallFails, Archived, Pending, TypeOK, diskVars
  <2>4. CASE Closes(c) \/ Deleted(c)
    <3> DEFINE h == arg[c].h
    <3>1. /\ pc[c] \in OnHandlePCs /\ hd' = [hd EXCEPT ![h].closed = TRUE]
          /\ workspaces' = workspaces \ {st[hd[h].state].ws} /\ UNCHANGED left
      BY <2>4 DEF Closes, Deleted, OnHandlePCs, StateOf
    <3>2. h \in Calls /\ Current(h)
      BY <3>1 DEF TypeOK, HandleInv
    <3>3. \A s \in Calls \ {hd[h].state} : st'[s].deleted = st[s].deleted
      <4>1. CASE Closes(c)
        BY <4>1 DEF Closes
      <4>2. CASE Deleted(c)
        BY <4>2, DeletedEffect DEF StateOf
      <4> QED BY <2>4, <4>1, <4>2
    <3>4. pc[c] \notin Pending
      BY <3>1 DEF OnHandlePCs, Pending
    <3> HIDE DEF h
    <3> QED BY <1>4, <2>1, <2>2, <3>1, <3>2, <3>3, <3>4, DiskCloses
  <2> QED BY <1>5, <2>3, <2>4 DEF Ends
<1>6. ASSUME NEW h \in Calls, Close(c, h) \/ Archive(c, h) \/ Delete(c, h) PROVE DiskInv'
  <2>1. /\ pc[c] = "idle" /\ pc'[c] \in OnHandlePCs \cup {"done"} /\ \A x \in Calls : SameHandle(x)
    BY <1>6, HandleCallEffect
  <2>2. pc[c] \notin Pending /\ pc'[c] \notin Pending
    BY <2>1 DEF Pending, OnHandlePCs
  <2>3. UNCHANGED <<registry, st, left>>
    BY <1>6 DEF Close, Archive, Delete, diskVars
  <2>4. \A s \in Calls : SameState(s)
    BY <2>3 DEF SameState, TypeOK
  <2>5. CASE UNCHANGED <<hd, workspaces>>
    <3>1. \A x \in Calls : Open(x)' = Open(x)
      BY <2>3, <2>5 DEF Open, Current
    <3>2. workspaces' = workspaces \ {None}
      BY <1>n, <2>5
    <3>3. \A x \in Calls : Open(x) => st[hd[x].state].ws # None
      BY <1>n, OpenOwns
    <3> QED BY <1>4, <2>2, <2>3, <2>4, <2>5, <3>1, <3>2, <3>3, DiskShrinks
  <2>6. CASE ~UNCHANGED <<hd, workspaces>>
    <3>1. /\ hd' = [hd EXCEPT ![h].closed = TRUE]
          /\ workspaces' = workspaces \ IF Current(h) THEN {st[hd[h].state].ws} ELSE {}
      BY <1>6, <2>6 DEF Close, Archive, Delete, diskVars
    <3>2. ~Current(h) => workspaces' = workspaces \ {None}
      BY <1>n, <3>1
    <3> QED BY <1>4, <2>1, <2>2, <2>3, <2>4, <3>1, <3>2, DiskCloses
  <2> QED BY <2>5, <2>6
<1>7. ASSUME NEW p, NEW o, NEW d, NEW b, Create(c, p, o, b) \/ Migrate(c, d, p) \/ Resume(c, d, b)
      PROVE  DiskInv'
  <2>1. pc[c] = "idle" /\ pc'[c] = "threading"
    BY <1>7, CreateEffect, MigrateEffect, ResumeEffect
  <2>2. /\ started /\ UNCHANGED <<registry, st, hd, left>>
        /\ workspaces' = workspaces \cup {c}
    BY <1>7 DEF Create, Migrate, Resume
  <2> QED BY <1>4, <2>1, <2>2, DiskBegins
<1>8. CASE Created(c)
  <2> DEFINE d == CreatedDescriptor(c)
  <2>1. pc[c] = "threading" /\ UNCHANGED <<hd, workspaces, left>>
    BY <1>8 DEF Created, diskVars
  <2>2. /\ OnlyState(c) /\ st'[c].ws = c /\ ~st'[c].deleted /\ pc'[c] = "announcing"
        /\ arg'[c].existing = c /\ Registers(d, c, {})
    BY <1>8, CreatedEffect, RegistryEffect DEF CreatedDescriptor
  <2>3. d \notin DOMAIN registry
    BY <1>8, CreatedIsNew
  <2> HIDE DEF d
  <2>4. /\ d \in DOMAIN registry' /\ registry'[d] = c
        /\ \A x \in DOMAIN registry : x \in DOMAIN registry' /\ registry'[x] = registry[x]
    BY <2>2, <2>3 DEF Registers
  <2> QED BY <1>4, <2>1, <2>2, <2>4, DiskBinds
<1>9. CASE Return(c)
  <2> DEFINE s == arg[c].existing
  <2>1. UNCHANGED <<st, registry, workspaces, left>> /\ pc[c] = "announcing" /\ s \in Calls
    BY <1>9 DEF Return, TypeOK, diskVars
  <2>2. /\ pc'[c] = "done" /\ OnlyHandle(c) /\ hd'[c].state = s
    BY <1>9, ReturnEffect
  <2>3. \A x \in Calls : pc'[x] \in Finished
    BY <2>2, OnlyPending DEF Finished
  <2>4. st[s].ws = c /\ c \in workspaces /\ \E d \in DOMAIN registry : registry[d] = s
    BY <1>4, <2>1 DEF HandleInv, DiskInv, Pending
  <2>5. \A h \in Calls : InUse(h)' => st'[hd'[h].state].ws \in workspaces'
    <3>1. \A h \in Calls : h # c => hd'[h] = hd[h] /\ InUse(h)' = InUse(h)
      BY <1>4, <2>1, <2>2 DEF OnlyHandle, InUse, Open, Current
    <3> HIDE DEF s
    <3> QED BY <1>4, <2>1, <2>2, <2>4, <3>1 DEF DiskInv
  <2>6. ASSUME NEW v \in workspaces' \ left' PROVE \E d \in DOMAIN registry' : st'[registry'[d]].ws = v
    <3>1. CASE v = c
      BY <2>1, <2>4, <3>1
    <3>2. CASE v # c
      <4>1. v \in workspaces \ left /\ pc[v] \notin Pending
        BY <1>n, <2>1, <2>6, <3>2 DEF Alone, Finished, Pending
      <4> QED BY <1>4, <2>1, <4>1 DEF DiskInv
    <3> QED BY <3>1, <3>2
  <2>7. \A x \in Calls : st'[x].deleted => st'[x].ws \notin workspaces'
    BY <1>4, <2>1 DEF DiskInv
  <2> QED BY <2>3, <2>5, <2>6, <2>7 DEF DiskInv, Finished, Pending
<1>10. CASE Resumed(c)
  <2> DEFINE d == arg[c].d
             s == arg[c].existing
  <2>1. pc[c] = "threading" /\ UNCHANGED <<hd, left>>
    BY <1>10 DEF Resumed
  <2>r. s = IF d \in DOMAIN registry THEN registry[d] ELSE None
    BY <1>10 DEF SerialRegistry, Resumed
  <2>2. CASE ResumesExisting(c)
    <3>1. /\ OnlyState(s) /\ s \in Calls /\ st'[s].ws = c /\ st'[s].deleted = st[s].deleted
          /\ st'[s].gen = st[s].gen + 1 /\ pc'[c] = "announcing" /\ arg'[c].existing = s
          /\ workspaces' = workspaces \ {st[s].ws} /\ UNCHANGED registry
      BY <1>10, <2>2, ResumedOld
    <3>2. ~st[s].deleted /\ \E x \in DOMAIN registry : registry[x] = s
      BY <2>2, <2>r DEF ResumesExisting
    <3> HIDE DEF s
    <3> QED BY <1>4, <2>1, <3>1, <3>2, DiskBinds
  <2>3. CASE ~ResumesExisting(c)
    <3>1. /\ OnlyState(c) /\ st'[c].ws = c /\ ~st'[c].deleted /\ UNCHANGED workspaces
          /\ pc'[c] = "announcing" /\ arg'[c].existing = c /\ Registers(d, c, {})
      BY <1>10, <2>3, ResumedNew, RegistryEffect
    <3>2. d \in DOMAIN registry => st[registry[d]].deleted
      <4>1. d \in DOMAIN registry => registry[d] # None
        BY <1>n DEF TypeOK
      <4> QED BY <2>3, <2>r, <4>1 DEF ResumesExisting
    <3>3. /\ d \in DOMAIN registry' /\ registry'[d] = c
          /\ \A x \in DOMAIN registry : st[registry[x]].deleted
                \/ (x \in DOMAIN registry' /\ registry'[x] = registry[x])
      BY <3>1, <3>2 DEF Registers
    <3> QED BY <1>4, <2>1, <3>1, <3>3, DiskBinds
  <2> QED BY <2>2, <2>3
<1>11. CASE Migrated(c)
  <2> DEFINE e == arg[c].d
             s == arg[c].existing
             d == MigratedDescriptor(c)
  <2>1. pc[c] = "threading" /\ UNCHANGED <<hd, left>>
    BY <1>11 DEF Migrated
  <2>n. d \notin DOMAIN registry
    BY <1>11, MigratedIsNew
  <2>2. CASE s # None
    <3>1. /\ OnlyState(s) /\ s \in Calls /\ st'[s].ws = c /\ st'[s].deleted = st[s].deleted
          /\ st'[s].gen = st[s].gen + 1 /\ pc'[c] = "announcing" /\ arg'[c].existing = s
          /\ workspaces' = workspaces \ {arg[c].prev} /\ Registers(d, s, {e})
      BY <1>11, <2>2, MigratedOld, RegistryEffect
    <3>2. /\ ~st[s].deleted /\ arg[c].prev = st[s].ws /\ e \in DOMAIN registry /\ registry[e] = s
      BY <1>11, <2>1, <2>2 DEF SerialRegistry, Migrated
    <3> HIDE DEF d
    <3>3. /\ d \in DOMAIN registry' /\ registry'[d] = s
          /\ \A x \in DOMAIN registry : registry[x] = s
                \/ (x \in DOMAIN registry' /\ registry'[x] = registry[x])
      BY <2>n, <3>1, <3>2 DEF Registers
    <3> HIDE DEF s
    <3> QED BY <1>4, <2>1, <3>1, <3>2, <3>3, DiskBinds
  <2>3. CASE s = None
    <3>1. /\ OnlyState(c) /\ st'[c].ws = c /\ ~st'[c].deleted /\ UNCHANGED workspaces
          /\ pc'[c] = "announcing" /\ arg'[c].existing = c /\ Registers(d, c, {})
      BY <1>11, <2>3, MigratedNew, RegistryEffect
    <3> HIDE DEF d
    <3>3. /\ d \in DOMAIN registry' /\ registry'[d] = c
          /\ \A x \in DOMAIN registry : x \in DOMAIN registry' /\ registry'[x] = registry[x]
      BY <2>n, <3>1 DEF Registers
    <3> QED BY <1>4, <2>1, <3>1, <3>3, DiskBinds
  <2> QED BY <2>2, <2>3
<1> QED BY <1>5, <1>6, <1>7, <1>8, <1>9, <1>10, <1>11 DEF HandleCall

-----------------------------------------------------------------------------
(* The inductive invariant.                                                *)
SessionInv ==
    /\ TypeOK /\ FreshInv /\ ThreadInv /\ PendingInv /\ OriginInv
    /\ PermissionsNeverChange
    /\ SerialCalls /\ SerialRegistry /\ OwnerInv /\ HandleInv /\ DiskInv

(* The runtime starts with no session.                                     *)
LEMMA InitSession == Init => SessionInv
<1> SUFFICES ASSUME Init PROVE SessionInv
  OBVIOUS
<1>1. TypeOK
  BY InitType
<1>2. /\ DOMAIN registry = {} /\ DOMAIN origin = {} /\ workspaces = {}
      /\ \A c \in Calls : pc[c] = "idle" /\ arg[c] = NoArg /\ st[c] = NoState /\ hd[c] = NoHandle
  BY DEF Init
<1>3. /\ NoState.thread = None /\ NoState.ws = None /\ NoHandle.state = None
      /\ NoArg.existing = None /\ None \notin Calls /\ ~NoState.deleted
  BY Blank, CallsAssumption DEF NoState
<1>4. \A h \in Calls : ~Current(h) /\ ~Open(h)
  BY <1>2, <1>3 DEF Current, Open
<1>5. FreshInv /\ ThreadInv /\ PendingInv /\ OriginInv /\ PermissionsNeverChange
  BY <1>2, <1>3 DEF FreshInv, ThreadInv, PendingInv, OriginInv, PermissionsNeverChange
<1>6. SerialCalls /\ SerialRegistry /\ OwnerInv
  BY <1>2, <1>3 DEF SerialCalls, SerialRegistry, OwnerInv, Finished
<1>7. HandleInv /\ DiskInv
  BY <1>2, <1>3, <1>4 DEF HandleInv, DiskInv, InUse, Pending, OnHandlePCs
<1> QED BY <1>1, <1>5, <1>6, <1>7 DEF SessionInv

(* Every step keeps the invariant.                                         *)
LEMMA NextSession == SessionInv /\ [Next]_vars => SessionInv'
BY TypeStep, FreshStep, ThreadStep, PendingStep, OriginStep, PermissionsStep, SerialCallsStep,
   RegistryStep, OwnerStep, HandleStep, DiskStep DEF SessionInv

(* The invariant holds in every behaviour of session(), resume_session(),  *)
(* migrate_session() and the handles, with overlapping calls, failures,    *)
(* closes and restarts.                                                    *)
THEOREM SessionInvariance == Spec => []SessionInv
BY InitSession, NextSession, PTL DEF Spec

(* A descriptor leads to the conversation it was issued for, in the        *)
(* registry and through every handle; when the calls do not overlap, the   *)
(* state found bears that very descriptor (_sessions, _SessionState).      *)
THEOREM ThreadTheorem == Spec => []DescriptorKeepsThread
<1>1. SessionInv => DescriptorKeepsThread
  BY DEF SessionInv, ThreadInv, SerialRegistry, DescriptorKeepsThread
<1> QED BY <1>1, SessionInvariance, PTL

(* The permissions of a conversation never change, whatever it is migrated *)
(* to and however often the process restarts with another configuration    *)
(* (the check in migrate_session()).                                       *)
THEOREM PermissionsTheorem == Spec => []PermissionsNeverChange
<1>1. SessionInv => PermissionsNeverChange
  BY DEF SessionInv
<1> QED BY <1>1, SessionInvariance, PTL

(* What session() and migrate_session() encode, resume_session() accepts   *)
(* under the same configuration.                                           *)
THEOREM ResumeTheorem == Spec => []IssuedDescriptorsResume
<1>1. SessionInv => IssuedDescriptorsResume
  BY ResumesIssued DEF SessionInv
<1> QED BY <1>1, SessionInvariance, PTL

(* For a host that makes one call at a time: one usable handle per state;  *)
(* its workspace exists, if it was made since the last start(); and no     *)
(* workspace is left over but those of cancelled calls and of close() with *)
(* an interruption that raises.                                            *)
THEOREM WorkspacesTheorem == Spec => []SerialHostOwnsWorkspaces
<1>1. ASSUME SessionInv PROVE SerialHostOwnsWorkspaces
  <2> SUFFICES ASSUME serial, started PROVE SerialHostOwnsWorkspaces
    BY DEF SerialHostOwnsWorkspaces
  <2>1. \A h, g \in Calls : Open(h) /\ Open(g) /\ hd[h].state = hd[g].state => h = g
    BY <1>1 DEF SessionInv, HandleInv, Open
  <2>2. /\ \A h \in Calls : Open(h) /\ st[hd[h].state].live => st[hd[h].state].ws \in workspaces
        /\ \A w \in workspaces \ left :
              pc[w] \in Pending \/ \E d \in DOMAIN registry : st[registry[d]].ws = w
    BY <1>1 DEF SessionInv, DiskInv, InUse
  <2> QED BY <2>1, <2>2 DEF SerialHostOwnsWorkspaces, Pending
<1> QED BY <1>1, SessionInvariance, PTL

(* Every conversation runs under a profile that session() would accept,    *)
(* as long as no two configurations give one custom profile two lifecycles *)
(* (resume_session() itself does not look at the lifecycle).               *)
THEOREM ProfilesTheorem ==
    ASSUME StableLifecycles
    PROVE  Spec => []OnlySessionProfiles
<1>1. Init => ProfileInv
  BY Blank DEF Init, ProfileInv
<1>2. SessionInv /\ ProfileInv /\ [Next]_vars => ProfileInv'
  BY ProfileStep DEF SessionInv
<1>3. SessionInv /\ ProfileInv => OnlySessionProfiles
  BY SessionsOnly DEF SessionInv
<1> QED BY <1>1, <1>2, <1>3, SessionInvariance, PTL DEF Spec
=============================================================================
