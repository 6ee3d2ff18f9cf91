------------------------------ MODULE Profiles ------------------------------
(***************************************************************************)
(* Execution profiles (core/profiles.py), the configuration that maps a    *)
(* profile and a level to a model and an effort (config/models.py), and    *)
(* the checks with which CodexRuntime resolves a binding from them.        *)
(*                                                                         *)
(* Everything here is a pure operator.  A check that raises is a predicate *)
(* that is FALSE.  A mapping is a record [model, effort], a level is left  *)
(* out: the level is one more index of the same table.                     *)
(***************************************************************************)
EXTENDS Naturals

LifecycleMode == {"ephemeral", "persistent", "explicit"}
ContextPolicy == {"external", "runtime", "hybrid", "explicit"}
HostToolsMode == {"disabled", "controlled", "explicit", "provider_defined"}
SecurityPolicy == {"isolated", "read_only", "controlled_tools", "native"}

ProfileSpec == [lifecycle : LifecycleMode, context : ContextPolicy,
                host_tools : HostToolsMode, security : SecurityPolicy]

SpecOf(l, c, h, s) == [lifecycle |-> l, context |-> c, host_tools |-> h, security |-> s]

DefaultProfileSpecs ==
    [p \in {"brain", "structured", "session", "controlled_turn", "controlled_agent", "native"} |->
        CASE p \in {"brain", "structured"} ->
                SpecOf("ephemeral", "external", "disabled", "isolated")
          [] p = "session" -> SpecOf("persistent", "runtime", "disabled", "isolated")
          [] p = "controlled_turn" ->
                SpecOf("ephemeral", "external", "controlled", "controlled_tools")
          [] p = "controlled_agent" ->
                SpecOf("ephemeral", "runtime", "controlled", "controlled_tools")
          [] p = "native" -> SpecOf("explicit", "explicit", "provider_defined", "native")]

Builtin == DOMAIN DefaultProfileSpecs

Persistent(spec) == spec.lifecycle = "persistent"

-----------------------------------------------------------------------------
(* The configuration: profiles (a mapping per profile) and profile_specs.  *)

(* Mutant: any combination of lifecycle and context may be configured.     *)
ValidCustomSpecAny(spec) == TRUE

ValidCustomSpec(spec) ==
    /\ spec.context = "external" => spec.lifecycle = "ephemeral"
    /\ spec.context = "hybrid" => spec.lifecycle = "persistent"
    /\ spec.lifecycle # "explicit"
    /\ spec.context # "explicit"

(* RuntimeConfigV1: what model_post_init accepts.                          *)
ValidConfig(config) ==
    /\ DOMAIN config.profiles # {}
    /\ DOMAIN config.profiles \ Builtin \subseteq DOMAIN config.specs
    /\ DOMAIN config.specs \cap Builtin = {}
    /\ DOMAIN config.specs \subseteq DOMAIN config.profiles
    /\ \A p \in DOMAIN config.specs : ValidCustomSpec(config.specs[p])

KnownProfile(config, p) == p \in Builtin \cup DOMAIN config.specs

ProfileSpecOf(config, p) ==
    IF p \in Builtin THEN DefaultProfileSpecs[p] ELSE config.specs[p]

-----------------------------------------------------------------------------
(* The factories: which profile each of them accepts.                      *)

ModelProfile(spec) == spec.lifecycle = "ephemeral" /\ spec.context = "external"
TaskProfile(spec) == spec.lifecycle = "ephemeral" /\ spec.context = "runtime"
SessionProfile(spec) == Persistent(spec) /\ spec.context # "external"

-----------------------------------------------------------------------------
(* Binding resolution.  catalog: model -> supported efforts ({} when the   *)
(* provider names none).  An override is a mapping or NoOverride.          *)

NoOverride == [model |-> "-", effort |-> "-"]

ModelEffortSupported(catalog, b) ==
    /\ b.model \in DOMAIN catalog
    /\ catalog[b.model] # {} => b.effort \in catalog[b.model]

(* start() refuses a configuration the catalog cannot serve.               *)
CatalogServes(config, catalog) ==
    \A p \in DOMAIN config.profiles : ModelEffortSupported(catalog, config.profiles[p])

LookupMapping(config, p) == config.profiles[p]

Binding(config, p, override) ==
    [model |-> IF override.model # "-" THEN override.model ELSE LookupMapping(config, p).model,
     effort |-> IF override.effort # "-" THEN override.effort ELSE LookupMapping(config, p).effort]

CanResolve(config, catalog, p, override) ==
    /\ KnownProfile(config, p)
    /\ p \in DOMAIN config.profiles
    /\ ModelEffortSupported(catalog, Binding(config, p, override))

(* _tool_binding: no registry for a profile without host tools, a non-empty *)
(* one for a profile with managed tools under the experimental flag.       *)
ToolBindingOK(spec, hasTools, experimental) ==
    IF hasTools THEN spec.host_tools \in {"controlled", "explicit"} /\ experimental
                ELSE spec.host_tools = "disabled"

ExecutableProfile(spec, hasTools, experimental) ==
    \/ hasTools /\ spec.host_tools \in {"controlled", "explicit"} /\ experimental
    \/ spec.security = "isolated" /\ spec.host_tools = "disabled"

-----------------------------------------------------------------------------
(* Model views: the specification of a profile, with or without a bound    *)
(* registry.  model() and brain() make views without tools; with_tools()   *)
(* makes another view and leaves the first as it was.                      *)

View(spec, tools) == [spec |-> spec, tools |-> tools]

Brain == View(DefaultProfileSpecs["brain"], FALSE)

PlainViews(config) ==
    {Brain} \cup {View(ProfileSpecOf(config, p), FALSE) :
        p \in {q \in Builtin \cup DOMAIN config.specs : ModelProfile(ProfileSpecOf(config, q))}}

WithTools(views, experimental) ==
    {View(v.spec, TRUE) : v \in {w \in views : ToolBindingOK(w.spec, TRUE, experimental)}}

ModelViews(config, experimental) ==
    PlainViews(config) \cup WithTools(PlainViews(config), experimental)

(* effective_capabilities(): what a view says it can do.                   *)
AdvertisesTools(view, experimental) ==
    view.tools /\ experimental /\ view.spec.host_tools \in {"controlled", "explicit"}

AdvertisesStructured(view) ==
    ~view.tools /\ view.spec.security = "isolated" /\ view.spec.host_tools = "disabled"

(* with_structured_output() accepts a view without tools; the facade has   *)
(* no with_tools(), and its effective_capabilities() raises unless the     *)
(* view below advertises structured output.                                *)
AcceptsSchema(view) == ~view.tools

StructuredAvailable(view) == AcceptsSchema(view) /\ AdvertisesStructured(view)

=============================================================================
