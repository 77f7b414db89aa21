---------------------------- MODULE HostIdentity ----------------------------
(***************************************************************************)
(* Which computer is which: utils/system.py and probes/linux_dgx_probe.py  *)
(* make the fingerprints of the one they run on, core/targets.py compares  *)
(* them with a pin, and application/run_context.py and compare.py tell     *)
(* runs of different computers apart by them.                              *)
(*                                                                         *)
(* The facts of a machine are what can be read on it at one time: the      *)
(* contents of its machine-id files in the order they are looked at, its   *)
(* DMI product UUID, which often only root may read, its host name and its *)
(* hardware, beside the machine itself, which the code does not know.      *)
(* A fingerprint is a digest of some of them, and stands for them: no two  *)
(* are taken to have the same digest.                                      *)
(***************************************************************************)
EXTENDS Naturals, Sequences

None == "none"
NoFingerprint == <<>>
UnknownHost == <<"unknown-host", None>>

\* What an old row has, or an inventory that could not be captured.
NoProfile == [fingerprint |-> NoFingerprint, strength |-> None, hardware |-> NoFingerprint,
              aliases |-> {}, hostname |-> None, machine |-> None]

-----------------------------------------------------------------------------
\* The first of some files with an identifier in it that is not all zeros or ones.
Usable(values) ==
    LET usable == {i \in DOMAIN values : values[i] \notin {None, "placeholder"}}
    IN  IF usable = {} THEN None ELSE values[CHOOSE i \in usable : \A j \in usable : i <= j]

HardwareIdentity(facts) == <<"hardware_uuid", facts.system, Usable(facts.uuids)>>

\* What else the machine may have been pinned by: its hardware, and the payload
\* that an earlier version made of a machine-id.
FingerprintAliases(facts, primary) ==
    {[fingerprint |-> f, strength |-> "hardware"] :
        f \in (IF Usable(facts.uuids) = None THEN {} ELSE {HardwareIdentity(facts)}) \ {primary}}
    \cup (IF facts.system # "Linux" \/ Usable(facts.machine_ids) = None THEN {}
          ELSE {[fingerprint |-> <<"machine_id", facts.system, Usable(facts.machine_ids)>>,
                 strength |-> "installation"]})

\* The profile of a machine whose identifier stands for the installation or, as on
\* a Mac, for the hardware.  Without any, its name and make stand for it.
Fingerprinted(facts, identifier_strength) ==
    LET primary ==
            IF Usable(facts.machine_ids) # None
            THEN [fingerprint |-> <<"machine_identifier", facts.system, Usable(facts.machine_ids)>>,
                  strength |-> identifier_strength]
            ELSE IF Usable(facts.uuids) # None
            THEN [fingerprint |-> HardwareIdentity(facts), strength |-> "hardware"]
            ELSE [fingerprint |-> <<"hostname", facts.system, <<facts.hostname, facts.hardware>>>>,
                  strength |-> "weak"]
    IN  [fingerprint |-> primary.fingerprint, strength |-> primary.strength,
         hardware |-> IF Usable(facts.uuids) = None THEN NoFingerprint ELSE HardwareIdentity(facts),
         aliases |-> FingerprintAliases(facts, primary.fingerprint),
         hostname |-> facts.hostname, machine |-> facts.machine]

\* utils/system._current_host_identity: the machine that executes.
CurrentHostIdentity(facts) ==
    Fingerprinted(facts, IF facts.system = "Linux" THEN "installation" ELSE "hardware")

\* The probe's _machine_fingerprint, on a remote machine: it only knows Linux files.
MachineFingerprint(facts) ==
    Fingerprinted(IF facts.system = "Linux" THEN facts
                  ELSE [facts EXCEPT !.machine_ids = <<>>, !.uuids = <<>>], "installation")

-----------------------------------------------------------------------------
\* host_identity; an old profile has only its host name and hardware, or nothing.
SystemHostIdentity(profile) ==
    IF profile.fingerprint # NoFingerprint THEN <<"fingerprint", profile.fingerprint>>
    ELSE IF profile.hostname # None THEN <<"legacy", profile.hostname>>
    ELSE UnknownHost

\* host_fingerprint_candidates: what the profile can be recognised by, with the
\* strength of each.
Candidates(profile) ==
    LET aliases == {a.fingerprint : a \in profile.aliases}
    IN  [f \in aliases \cup ({profile.hardware, profile.fingerprint} \ {NoFingerprint}) |->
            IF f \in aliases THEN (CHOOSE a \in profile.aliases : a.fingerprint = f).strength
            ELSE IF f = profile.hardware THEN "hardware"
            ELSE profile.strength]

Recognised(profile, pin) == pin \in DOMAIN Candidates(profile)

\* Mutant: any fingerprint will do for a machine behind SSH.
Verifiable_Weak(access, profile, pin) == Recognised(profile, pin)

\* The name of a machine that is reached over the network proves nothing.
Verifiable(access, profile, pin) ==
    Recognised(profile, pin) /\ (access = "ssh" => Candidates(profile)[pin] \in {"hardware", "installation"})

\* _host_identity_binding: what a resolved target records of the pin.
HostIdentityBinding(pin, access, profile) ==
    LET actual == IF Recognised(profile, pin) THEN pin ELSE profile.fingerprint
    IN  [expected |-> pin, actual |-> actual,
         strength |-> IF Recognised(profile, actual) THEN Candidates(profile)[actual] ELSE None,
         verified |-> pin = actual /\ Verifiable(access, profile, pin)]

\* _verified_strong_host_binding: the pin the suite verified stands for the host
\* only if the profile itself has it, as strong as the binding says.
Bound(target) ==
    LET binding == target.binding
    IN  /\ binding.verified /\ binding.actual = binding.expected
        /\ Recognised(target.profile, binding.actual)
        /\ Candidates(target.profile)[binding.actual] \in {"hardware", "installation"}
        /\ binding.strength \in {None, Candidates(target.profile)[binding.actual]}

\* Mutant: the binding is not looked at.
TargetHost_Unbound(target) == SystemHostIdentity(target.profile)

TargetHost(target) ==
    IF Bound(target) THEN <<"fingerprint", target.binding.actual>>
    ELSE SystemHostIdentity(target.profile)

\* Mutant: the address of the service is left out.
TargetIdentityJson_NoRoute(target) ==
    [host |-> IF TargetHost(target) # UnknownHost THEN TargetHost(target)
              ELSE <<"destination", target.destination>>,
     schema_version |-> target.schema_version, name |-> target.name, service |-> target.service,
     model |-> target.model, topology |-> target.topology]

\* target_identity_json: of what was discovered, what stays the same from one
\* discovery to the next.
TargetIdentityJson(target) ==
    [host |-> IF TargetHost(target) # UnknownHost THEN TargetHost(target)
              ELSE <<"destination", target.destination>>,
     schema_version |-> target.schema_version, name |-> target.name, service |-> target.service,
     route |-> target.route, model |-> target.model, topology |-> target.topology]

\* A row without a target was measured where it was executed.
NoTarget == [name |-> None]

\* compare._target_identity and _topology_identity
TargetIdentity(target, system) ==
    IF target = NoTarget THEN [host |-> SystemHostIdentity(system)] ELSE TargetIdentityJson(target)
TopologyIdentity(target) ==
    IF target = NoTarget THEN "legacy-local"
    ELSE IF target.topology = None THEN "unspecified" ELSE target.topology
=============================================================================
