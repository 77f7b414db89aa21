--------------------------- MODULE TargetDiscovery ---------------------------
(***************************************************************************)
(* application/target_discovery.py, TargetResolver.inspect: what a target  *)
(* is concluded to be from what its host and its service answered.         *)
(*                                                                         *)
(* A target specification says how the host is reached, whether it must be *)
(* reached, the fingerprint it is pinned by, how the model is selected and *)
(* whether server information is wanted.  What the host answered is:       *)
(*   end      "raises" for an unforeseen exception, "none" for a capture   *)
(*            that failed and "profile"                                    *)
(*   facts    what the profile was made of                                 *)
(* What became of its service is an end of ServiceDiscovery, with what it *)
(* found.                                                                  *)
(* Only whether there were errors is kept, not what they say.              *)
(***************************************************************************)
EXTENDS FiniteSets, HostIdentity, ServiceDiscovery

CONSTANTS
    Sightings,   \* the facts that hosts may have
    Pins         \* the fingerprints a specification may have noted from one of them

\* Identifiers are unique, host names and makes are not.
IdentifiersAreUnique ==
    \A a, b \in Sightings :
        \/ Usable(a.machine_ids) # None /\ Usable(a.machine_ids) = Usable(b.machine_ids)
        \/ Usable(a.uuids) # None /\ Usable(a.uuids) = Usable(b.uuids)
        => a.machine = b.machine

Facts == {"system", "machine_ids", "uuids", "hostname", "hardware", "machine"}

ASSUME TargetDiscoveryAssumption ==
    /\ \A s \in Sightings : s = [fact \in Facts |-> s[fact]]
    /\ IdentifiersAreUnique

Specs == [access : {"local", "ssh"}, required : BOOLEAN,
          expected : Pins \cup {NoFingerprint},
          selection : {"explicit", "single"}, server_info : {"off", "optional", "required"},
          metrics : BOOLEAN]

NoFacts == [machine |-> None]
HostAnswers == [end : {"raises", "none"}, facts : {NoFacts}]
               \cup [end : {"profile"}, facts : Sightings]

\* _capture_host: this machine, or what the probe found on the remote one.
Profile(spec, host) ==
    IF host.end # "profile" THEN NoProfile
    ELSE IF spec.access = "local" THEN CurrentHostIdentity(host.facts)
    ELSE MachineFingerprint(host.facts)

-----------------------------------------------------------------------------
\* _select_model finds one.
Selected(spec, models) ==
    IF spec.selection = "explicit" THEN Wanted \in models ELSE Cardinality(models) = 1

Pinned(spec) == spec.expected # NoFingerprint

\* _capture_host or _verify_host raises RuntimeError.
HostFails(spec, host) ==
    \/ host.end = "none"
    \/ Pinned(spec) /\ ~Verifiable(spec.access, Profile(spec, host), spec.expected)

\* Mutant: only a required host that was not reached is fatal.
HostIsFatal_Unreached(spec, host) == spec.required /\ host.end = "none"

HostIsFatal(spec, host) == HostFails(spec, host) /\ (spec.required \/ Pinned(spec))

\* What the capture and the checks of the host leave to decide by.
Captured(spec, host) ==
    [host |-> host.end = "profile", raises |-> host.end = "raises",
     fatal |-> HostIsFatal(spec, host),
     ready |-> /\ spec.required => host.end = "profile"
               /\ Pinned(spec) => Recognised(Profile(spec, host), spec.expected)]

\* What inspect() leaves behind: whether it raises, and, in the inspection it
\* returns or attaches to its exception, whether there is a host profile and a
\* resolved target.
Inspect(spec, captured, end, service, allow_service_unavailable) ==
    LET asks == ~captured.fatal
        dns == end = "dns" /\ ~(spec.access = "local" /\ allow_service_unavailable)
        available == asks /\ end = "returned" /\ service.healthy
        told == spec.server_info = "required" => service.server_info
        fatal == \/ ~asks
                 \/ available /\ (~Selected(spec, service.models) \/ ~told)
        resolved == captured.ready /\ available /\ Selected(spec, service.models) /\ told
        raises == \/ captured.raises
                  \/ asks /\ (dns \/ end = "raised")
                  \/ ~resolved /\ (fatal \/ available \/ ~allow_service_unavailable)
    IN [raises |-> raises, host |-> captured.host, resolved |-> resolved /\ ~raises]

\* The machines a pin may have been noted from.
Owners(pin) ==
    {f.machine : f \in {s \in Sightings : \/ Recognised(CurrentHostIdentity(s), pin)
                                         \/ Recognised(MachineFingerprint(s), pin)}}

\* What a specification asks of its host: that it was reached if it must be, and
\* is the pinned one, which behind SSH no other machine may be taken for.
RightHost(spec, host) ==
    /\ spec.required => host.end = "profile"
    /\ Pinned(spec) => /\ host.end = "profile"
                       /\ IF spec.access = "ssh" THEN Owners(spec.expected) = {host.facts.machine}
                          ELSE host.facts.machine \in Owners(spec.expected)

\* And of its service: that it is up and serves the one model.
RightService(spec, serving) ==
    /\ serving.healthy
    /\ serving.served # {}
    /\ IF spec.selection = "explicit" THEN Wanted \in serving.served
       ELSE \A m, n \in serving.served : m = n
    /\ spec.server_info = "required" => serving.info
=============================================================================
