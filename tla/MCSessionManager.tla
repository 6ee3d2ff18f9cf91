-------------------------- MODULE MCSessionManager --------------------------
(***************************************************************************)
(* Small instances of SessionManager: a runtime with a custom profile, one *)
(* with another profile of that name and another mapping for `session`,    *)
(* and one whose configuration is refused.                                 *)
(***************************************************************************)
EXTENDS SessionManager, TLC

Mapping(m, e) == [model |-> m, effort |-> e]

Catalog == ("m1" :> {"low"}) @@ ("m2" :> {})

Runtime(id, sessionMapping, name, spec) ==
    [identity |-> id, catalog |-> Catalog,
     config |-> [profiles |-> ("session" :> sessionMapping) @@ (name :> Mapping("m2", "high")),
                 specs |-> name :> spec]]

Chat == SpecOf("persistent", "hybrid", "disabled", "isolated")
Worker == SpecOf("persistent", "runtime", "controlled", "controlled_tools")
LocalWorker == SpecOf("persistent", "runtime", "controlled", "isolated")
Misfit == SpecOf("persistent", "external", "disabled", "isolated")

AllRuntimes ==
    {Runtime("account", Mapping("m1", "low"), "chat", Chat),
     Runtime("account", Mapping("m2", "high"), "chat", Worker),
     Runtime("account", Mapping("m1", "low"), "misfit", Misfit)}

ToolRuntimes == {Runtime("account", Mapping("m1", "low"), "worker", LocalWorker)}

(* Two configurations that give one profile name two lifecycles.           *)
RelabelledRuntimes ==
    {Runtime("account", Mapping("m1", "low"), "work", SpecOf(l, "runtime", "disabled", "isolated")) :
        l \in {"persistent", "ephemeral"}}

OneRuntime == {Runtime("account", Mapping("m1", "low"), "chat", Chat)}

NoOverrides == {NoOverride}
SomeOverrides == {NoOverride, [model |-> "m2", effort |-> "high"]}

(* A descriptor of another account, one of a task, one of a later version. *)
AlienDescriptor ==
    Encode(("provider" :> "codex") @@ ("provider_session_id" :> "t")
           @@ ("identity_fingerprint" :> "other") @@ ("configuration_fingerprint" :> "f")
           @@ ("profile" :> "session") @@ ("level" :> "medium") @@ ("context_policy" :> "runtime")
           @@ ("security_policy" :> "isolated"))
Strangers == {AlienDescriptor, [prefix |-> "task_", token |-> Malformed],
              [AlienDescriptor EXCEPT !.token["version"] = 2]}

Symmetry == Permutations(Calls)

(* No guard reads the workspaces on disk, and the property about them is   *)
(* of a serial host.  For the others a call that leaves its workspace goes *)
(* on as one that removes it: it is not followed as well, and states that  *)
(* differ in their directories only are one.                               *)
LeftBySerialHost == serial \/ left = {}
Observed == <<rtVars, turn, pc, arg, threads, registry, st, hd, origin,
              IF serial THEN diskVars ELSE << >> >>
=============================================================================
