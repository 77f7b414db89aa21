----------------------------- MODULE SuiteProofs -----------------------------
(***************************************************************************)
(* What Suite promises of its outcome, its counts, its evidence and its    *)
(* target holds for any suites, hosts, pins and servers; with it, what     *)
(* HostProbe leaves behind and how ServiceDiscovery takes its deadlines.   *)
(*                                                                         *)
(* The probe and the discovery are proved about on their own: a step of    *)
(* the suite is one of theirs, or starts them anew, or leaves them alone.  *)
(* What they have to tell the suite is in their invariants.  The suite's   *)
(* own invariant says, place by place of execute(), what has been claimed, *)
(* run and verified by then.                                               *)
(***************************************************************************)
EXTENDS Suite, FiniteSetTheorems, SequenceTheorems, TLAPS

-----------------------------------------------------------------------------
(* The inductive invariants.                                                 *)

Ends == {"returned", "raised", "failed", "dns"}

\* Of four requests at most as many clients: which request this one is.
Turn == [asked \in Requests |-> IF asked = "health" THEN 1 ELSE IF asked = "version" THEN 2
                               ELSE IF asked = "models" THEN 3 ELSE 4]

\* A timer waits or fires only during its own request, and a client is closed
\* only after its timer has fired: so the next request finds no timer of an
\* earlier one, and a client that is closed under a request was closed by the
\* request's own timer.
TimersInv ==
    /\ waiting \subseteq {Timer} /\ firing \subseteq {Timer}
    /\ step = "idle" => waiting = {} /\ firing = {}
    /\ step = "join" => waiting = {}
    /\ Timer \in waiting => Timer \notin firing /\ client \notin closed
    /\ ~Discovering => step = "idle"

ClientInv ==
    /\ client \in 1..4 /\ closed \subseteq 1..client
    /\ Discovering => /\ client <= Turn[asking]
                      /\ step = "idle" /\ asking # "health" => client < Turn[asking]
    /\ DiscoveryIdle \/ (step = "idle" /\ asking = "health") => client = 1 /\ closed = {}

\* What has been found is what the server has.
FoundInv ==
    /\ found \in [healthy : BOOLEAN, models : SUBSET Models, server_info : BOOLEAN]
    /\ DiscoveryIdle => found = Nothing
    /\ found.healthy => server.healthy
    /\ found.models \in {{}, server.served}
    /\ found.server_info => server.info
    /\ step \in {"cancel", "join"} /\ outcome = "ok" => Gives

DiscoveryTypes ==
    /\ server \in Servers \cup {NoServer}
    /\ asking \in Requests \cup Ends \cup {"idle"}
    /\ step \in {"idle", "send", "open", "cancel", "join"}
    /\ outcome \in {"none", "ok", "slow", "broken", "refused", "fatal", "closed"}
    /\ cut \in BOOLEAN /\ late \in BOOLEAN /\ hops \in 0..MaxRedirects

\* A client is only closed once the request's time is over.
CutInv ==
    /\ step \in {"send", "open"} => ~cut
    /\ step # "idle" /\ (Timer \in firing \/ client \in closed) => late
    /\ DeadlinesAreTimeouts

DiscoveryInv == DiscoveryTypes /\ TimersInv /\ ClientInv /\ FoundInv /\ CutInv

\* Once SIGKILL was sent to the group, nobody is left to add to it.
ProbeInv ==
    /\ ProbeTypeOK
    /\ group \subseteq alive \cup ended
    /\ parent \in {"idle", "loop", "wait"} => reason = "none"
    /\ parent = "reap" => Members = {}
    /\ ProbeOver /\ reason \in {"timeout", "excess", "interrupt"} => Members = {}

Working == {"quality", "load", "child"}
Resolving == {"validate", "metrics_before"}
Early == {"begin", "before", "inspect", "discover"}

\* Nothing has gone wrong that the suite knows of.
Smooth == exc = "none" /\ ~child_failure

SuiteTypes ==
    /\ target \in Specs \cup {NoTarget}
    /\ plan \in [quality : BOOLEAN, trials : Nat]
    /\ <<target, plan>> \in Configs
    /\ pc \in Early \cup Resolving \cup {"preflight"} \cup Working
              \cup {"server_after", "metrics_after", "system_after", "merge", "exit", "done"}
    /\ exc \in {"none", "error", "interrupt"}
    /\ child_failure \in BOOLEAN /\ host \in BOOLEAN /\ resolved \in BOOLEAN
    /\ captured \in [host : BOOLEAN, raises : BOOLEAN, fatal : BOOLEAN, ready : BOOLEAN]
    /\ claimed \subseteq Roles
    /\ rows \in Seq({"running", "ok", "failed"})
    /\ status \in {"absent", "running", "ok", "failed"}
    /\ seen_host \in BOOLEAN /\ verified \in BOOLEAN /\ broken \in BOOLEAN

\* How many children there are at each place, and what they tell once it is over.
RowsInv ==
    /\ Len(rows) <= Planned /\ Len(returned) <= Len(rows)
    /\ returned \in Seq({"running", "ok", "failed"})
    /\ pc \in Early \cup Resolving \cup {"preflight", "quality"} => rows = <<>>
    /\ pc = "load" /\ plan.quality => rows # <<>>
    /\ pc = "child" => rows # <<>>
    /\ InTry \/ pc = "begin" => Smooth
    /\ pc = "merge" => exc = "none"
    /\ (InFinally \/ pc = "merge") /\ Smooth => Len(rows) = Planned
    /\ counts \in [children : 0..Planned, failed : 0..Planned, recorded : BOOLEAN]
    /\ counts.recorded => pc = "done"
    /\ status \in {"ok", "failed"} => pc = "done"
    /\ OkSuiteMeansAllRan /\ CountsMatchRows

\* From where on the target has been verified.
TargetInv ==
    /\ pc \in {"inspect", "discover"} \cup Resolving => target # NoTarget
    /\ pc = "discover" /\ captured.ready /\ ~captured.fatal /\ ~captured.raises => verified
    /\ pc \in Resolving \cup {"preflight"} \cup Working /\ target # NoTarget => verified
    /\ (InFinally \/ pc = "merge") /\ Smooth /\ target # NoTarget => verified
    /\ RunsOnlyOnVerifiedTarget

EvidenceComplete ==
    /\ "system_after" \in claimed
    /\ host => "server_after" \in claimed
    /\ "vllm_metrics_before" \in claimed => "vllm_metrics_after" \in claimed

\* execute() knows of a profile that was captured, but for Ctrl-C while the service
\* is asked.
HostKnown == host = seen_host \/ broken \/ (exc = "interrupt" /\ "target_discovery" \notin claimed)

\* What is claimed at each place.
ClaimsInv ==
    /\ host => target # NoTarget
    /\ pc \in {"begin", "before", "inspect"} => ~host /\ ~seen_host
    /\ pc = "discover" => ~host /\ seen_host = captured.host
    /\ pc \notin {"discover", "done"} => HostKnown
    /\ pc \in Early => claimed \subseteq {"system_before"}
    /\ InTry /\ pc # "before" => "system_before" \in claimed
    /\ pc \in Working => "preflight" \in claimed
    /\ (InFinally \/ pc = "merge") /\ Smooth => {"system_before", "preflight"} \subseteq claimed
    /\ pc \in Resolving \/ "vllm_metrics_before" \in claimed => resolved
    /\ pc \in {"metrics_after", "system_after"} /\ host => "server_after" \in claimed
    /\ pc = "system_after" /\ "vllm_metrics_before" \in claimed => "vllm_metrics_after" \in claimed
    /\ pc \in {"merge", "exit"} /\ ~broken => EvidenceComplete
    /\ EvidenceKept

SuiteInv == SuiteTypes /\ RowsInv /\ TargetInv /\ ClaimsInv

IInv == SuiteInv /\ ProbeInv /\ DiscoveryInv

-----------------------------------------------------------------------------
(* Hosts and services: what an inspection that resolves a target has seen.   *)

\* A pin that is recognised was made of one of the three things that identify a
\* machine; only the host name and the make are weak.
LEMMA RecognisedBy ==
    ASSUME NEW facts, NEW strength, NEW pin, pin # NoFingerprint,
           Recognised(Fingerprinted(facts, strength), pin)
    PROVE  \/ /\ Usable(facts.machine_ids) # None
              /\ \/ pin = <<"machine_identifier", facts.system, Usable(facts.machine_ids)>>
                 \/ pin = <<"machine_id", facts.system, Usable(facts.machine_ids)>>
           \/ /\ Usable(facts.uuids) # None
              /\ pin = <<"hardware_uuid", facts.system, Usable(facts.uuids)>>
           \/ /\ pin = <<"hostname", facts.system, <<facts.hostname, facts.hardware>>>>
              /\ Candidates(Fingerprinted(facts, strength))[pin] = "weak"
<1> DEFINE profile == Fingerprinted(facts, strength)
           ids == Usable(facts.machine_ids)
           uuid == Usable(facts.uuids)
           aliases == {a.fingerprint : a \in profile.aliases}
           named == <<"hostname", facts.system, <<facts.hostname, facts.hardware>>>>
<1>1. \A a \in profile.aliases : \/ uuid # None /\ a.fingerprint = <<"hardware_uuid", facts.system, uuid>>
                                 \/ ids # None /\ a.fingerprint = <<"machine_id", facts.system, ids>>
  BY DEF Fingerprinted, FingerprintAliases, HardwareIdentity
<1>2. \/ profile.hardware = NoFingerprint
      \/ uuid # None /\ profile.hardware = <<"hardware_uuid", facts.system, uuid>>
  BY DEF Fingerprinted, HardwareIdentity
<1>3. \/ ids # None /\ profile.fingerprint = <<"machine_identifier", facts.system, ids>>
      \/ uuid # None /\ profile.fingerprint = <<"hardware_uuid", facts.system, uuid>>
      \/ profile.fingerprint = named /\ profile.strength = "weak"
  BY DEF Fingerprinted, HardwareIdentity
<1> HIDE DEF profile, ids, uuid
<1>4. pin \in aliases \cup ({profile.hardware, profile.fingerprint} \ {NoFingerprint})
  BY DEF Recognised, Candidates, profile
<1>5. CASE pin \in aliases
  BY <1>1, <1>5 DEF ids, uuid
<1>6. CASE pin \notin aliases /\ pin = profile.hardware
  BY <1>2, <1>6 DEF uuid
<1>7. CASE pin \notin aliases /\ pin # profile.hardware
  <2>1. pin = profile.fingerprint
    BY <1>4, <1>7
  <2>2. Candidates(profile)[pin] = profile.strength
    BY <1>4, <1>7 DEF Candidates
  <2> QED
    BY <1>3, <2>1, <2>2 DEF ids, uuid, profile
<1> QED
  BY <1>5, <1>6, <1>7

LEMMA NothingIsUsable == Usable(<<>>) = None
BY DEF Usable

\* The pin of a machine's own identifiers, not of its name.
Identifies(facts, pin) ==
    \/ /\ Usable(facts.machine_ids) # None
       /\ \/ pin = <<"machine_identifier", facts.system, Usable(facts.machine_ids)>>
          \/ pin = <<"machine_id", facts.system, Usable(facts.machine_ids)>>
    \/ /\ Usable(facts.uuids) # None
       /\ pin = <<"hardware_uuid", facts.system, Usable(facts.uuids)>>

Named(facts, pin) == pin = <<"hostname", facts.system, <<facts.hostname, facts.hardware>>>>

\* The same for what the suite's own machine or the probe makes of some facts.
LEMMA SightingRecognisedBy ==
    ASSUME NEW s \in Sightings, NEW pin, pin # NoFingerprint
    PROVE  /\ Recognised(CurrentHostIdentity(s), pin) => Identifies(s, pin) \/ Named(s, pin)
           /\ Recognised(MachineFingerprint(s), pin) =>
                \/ Identifies(s, pin)
                \/ Named(s, pin) /\ Candidates(MachineFingerprint(s))[pin] = "weak"
<1> DEFINE blank == [s EXCEPT !.machine_ids = <<>>, !.uuids = <<>>]
<1>1. Recognised(CurrentHostIdentity(s), pin) => Identifies(s, pin) \/ Named(s, pin)
  BY RecognisedBy DEF CurrentHostIdentity, Identifies, Named
<1>2. ASSUME s.system = "Linux", Recognised(MachineFingerprint(s), pin)
      PROVE  Identifies(s, pin) \/ (Named(s, pin) /\ Candidates(MachineFingerprint(s))[pin] = "weak")
  <2>1. MachineFingerprint(s) = Fingerprinted(s, "installation")
    BY <1>2 DEF MachineFingerprint
  <2> QED
    BY <1>2, <2>1, RecognisedBy DEF Identifies, Named
<1>3. ASSUME s.system # "Linux", Recognised(MachineFingerprint(s), pin)
      PROVE  Named(s, pin) /\ Candidates(MachineFingerprint(s))[pin] = "weak"
  <2>1. MachineFingerprint(s) = Fingerprinted(blank, "installation")
    BY <1>3 DEF MachineFingerprint
  <2>2. s = [fact \in Facts |-> s[fact]]
    BY TargetDiscoveryAssumption
  <2>3. /\ blank.machine_ids = <<>> /\ blank.uuids = <<>>
        /\ blank.system = s.system /\ blank.hostname = s.hostname /\ blank.hardware = s.hardware
    BY <2>2 DEF Facts
  <2>4. Usable(blank.machine_ids) = None /\ Usable(blank.uuids) = None
    BY <2>3, NothingIsUsable
  <2> HIDE DEF blank
  <2> QED
    BY <1>3, <2>1, <2>3, <2>4, RecognisedBy DEF Named
<1> QED
  BY <1>1, <1>2, <1>3

\* Two sightings with one identifier are of one machine.
LEMMA OneMachine ==
    ASSUME NEW a \in Sightings, NEW b \in Sightings, NEW pin,
           Identifies(a, pin), Identifies(b, pin) \/ Named(b, pin)
    PROVE  a.machine = b.machine
<1>1. ~Named(b, pin)
  BY DEF Identifies, Named
<1>2. \/ Usable(a.machine_ids) # None /\ Usable(a.machine_ids) = Usable(b.machine_ids)
      \/ Usable(a.uuids) # None /\ Usable(a.uuids) = Usable(b.uuids)
  BY <1>1 DEF Identifies
<1> QED
  BY <1>2, TargetDiscoveryAssumption DEF IdentifiersAreUnique

\* A host that passes the checks of its capture is the one the specification asks
\* for: behind SSH, no other machine can have been taken for it.
LEMMA ReadyHostIsRight ==
    ASSUME NEW spec \in Specs, NEW answer \in HostAnswers,
           Captured(spec, answer).ready, ~Captured(spec, answer).fatal, ~Captured(spec, answer).raises
    PROVE  RightHost(spec, answer)
<1> DEFINE pin == spec.expected
           profile == Profile(spec, answer)
           facts == answer.facts
<1>1. /\ spec.required => answer.end = "profile"
      /\ Pinned(spec) => Recognised(profile, pin)
      /\ ~HostIsFatal(spec, answer)
      /\ answer.end # "raises"
  BY DEF Captured
<1>2. answer.end \in {"raises", "none", "profile"} /\ (answer.end = "profile" => facts \in Sightings)
  BY DEF HostAnswers
<1>3. SUFFICES ASSUME Pinned(spec)
               PROVE  /\ answer.end = "profile"
                      /\ IF spec.access = "ssh" THEN Owners(pin) = {facts.machine}
                         ELSE facts.machine \in Owners(pin)
  BY <1>1 DEF RightHost
<1>4. answer.end = "profile" /\ facts \in Sightings /\ Verifiable(spec.access, profile, pin)
  BY <1>1, <1>2, <1>3 DEF HostIsFatal, HostFails
<1>5. spec.access \in {"local", "ssh"} /\ pin # NoFingerprint
  BY <1>3 DEF Specs, Pinned
<1>6. CASE spec.access = "local"
  <2>1. Recognised(CurrentHostIdentity(facts), pin)
    BY <1>1, <1>3, <1>4, <1>6 DEF Profile
  <2> QED
    BY <1>4, <1>6, <2>1 DEF Owners
<1>7. CASE spec.access = "ssh"
  <2>1. /\ profile = MachineFingerprint(facts)
        /\ Recognised(MachineFingerprint(facts), pin)
        /\ Candidates(MachineFingerprint(facts))[pin] # "weak"
    BY <1>4, <1>7 DEF Profile, Verifiable
  <2>2. Identifies(facts, pin)
    BY <1>4, <1>5, <2>1, SightingRecognisedBy
  <2>3. facts.machine \in Owners(pin)
    BY <1>4, <2>1 DEF Owners
  <2>4. ASSUME NEW s \in Sightings,
               Recognised(CurrentHostIdentity(s), pin) \/ Recognised(MachineFingerprint(s), pin)
        PROVE  s.machine = facts.machine
    <3>1. Identifies(s, pin) \/ Named(s, pin)
      BY <1>5, <2>4, SightingRecognisedBy
    <3> QED
      BY <1>4, <2>2, <3>1, OneMachine
  <2>5. \A machine \in Owners(pin) : machine = facts.machine
    BY <2>4 DEF Owners
  <2> QED
    BY <1>4, <1>7, <2>3, <2>5
<1> QED
  BY <1>5, <1>6, <1>7

\* A service whose model was selected is one the specification asks for.
LEMMA ResolvedServiceIsRight ==
    ASSUME NEW spec \in Specs, DiscoveryInv,
           Inspect(spec, captured, asking, found, TRUE).resolved
    PROVE  /\ captured.ready /\ ~captured.fatal /\ ~captured.raises
           /\ RightService(spec, server)
<1>1. /\ captured.ready /\ ~captured.fatal /\ ~captured.raises
      /\ found.healthy /\ Selected(spec, found.models)
      /\ spec.server_info = "required" => found.server_info
  BY DEF Inspect
<1>2. /\ server.healthy
      /\ found.models \in {{}, server.served}
      /\ spec.server_info = "required" => server.info
  BY <1>1 DEF DiscoveryInv, FoundInv
<1>3. CASE spec.selection = "explicit"
  BY <1>1, <1>2, <1>3 DEF Selected, RightService
<1>4. CASE spec.selection # "explicit"
  <2>1. Cardinality(found.models) = 1
    BY <1>1, <1>4 DEF Selected
  <2>2. IsFiniteSet(found.models)
    <3>1. IsFiniteSet(Models) /\ found.models \subseteq Models
      <4>1. IsFiniteSet({Wanted})
        BY FS_Singleton
      <4>2. IsFiniteSet({Wanted} \cup {"other"})
        BY <4>1, FS_AddElement
      <4>3. Models = {Wanted} \cup {"other"}
        BY DEF Models
      <4>4. found.models \subseteq Models
        BY DEF DiscoveryInv, FoundInv
      <4> QED
        BY <4>2, <4>3, <4>4
    <3> QED
      BY <3>1, FS_Subset
  <2>3. PICK m : found.models = {m}
    BY <2>1, <2>2, FS_Singleton
  <2> QED
    BY <1>1, <1>2, <1>4, <2>3 DEF RightService
<1> QED
  BY <1>1, <1>3, <1>4

-----------------------------------------------------------------------------
(* The discovery.                                                            *)

LEMMA RedirectsAreCounted == MaxRedirects \in Nat
BY ServiceDiscoveryAssumption

LEMMA DiscoveryStarts ==
    ASSUME DiscoveryInit
    PROVE  DiscoveryInv
<1>1. DiscoveryTypes
  <2>1. hops = 0
    BY DEF DiscoveryInit
  <2>2. (hops \in 0..MaxRedirects)
    BY <2>1, RedirectsAreCounted
  <2> QED
    BY <2>2 DEF DiscoveryInit, DiscoveryTypes, Requests, Ends
<1>2. TimersInv
  BY DEF DiscoveryInit, TimersInv, Timer, Discovering, DiscoveryIdle, DiscoveryOver
<1>3. ClientInv
  BY DEF DiscoveryInit, ClientInv, Discovering, DiscoveryIdle, DiscoveryOver
<1>4. FoundInv
  BY DEF DiscoveryInit, FoundInv, Nothing, DiscoveryIdle
<1>5. CutInv
  BY DEF DiscoveryInit, CutInv, DeadlinesAreTimeouts
<1> QED
  BY <1>1, <1>2, <1>3, <1>4, <1>5 DEF DiscoveryInv

LEMMA DiscoveryIsTaken ==
    ASSUME DiscoveryTaken
    PROVE  DiscoveryInv'
<1>1. DiscoveryTypes'
  <2>1. hops' = 0
    BY DEF DiscoveryTaken
  <2>2. (hops \in 0..MaxRedirects)'
    BY <2>1, RedirectsAreCounted
  <2> QED
    BY <2>2 DEF DiscoveryTaken, DiscoveryTypes, Requests, Ends
<1>2. TimersInv'
  BY DEF DiscoveryTaken, TimersInv, Timer, Discovering, DiscoveryIdle, DiscoveryOver
<1>3. ClientInv'
  BY DEF DiscoveryTaken, ClientInv, Discovering, DiscoveryIdle, DiscoveryOver
<1>4. FoundInv'
  BY DEF DiscoveryTaken, FoundInv, Nothing, DiscoveryIdle
<1>5. CutInv'
  BY DEF DiscoveryTaken, CutInv, DeadlinesAreTimeouts
<1> QED
  BY <1>1, <1>2, <1>3, <1>4, <1>5 DEF DiscoveryInv

LEMMA DiscoveryStutters ==
    ASSUME DiscoveryInv, UNCHANGED discovery
    PROVE  DiscoveryInv'
BY DEF discovery, request, timers, clients, DiscoveryInv, DiscoveryTypes, TimersInv, ClientInv, FoundInv, CutInv,
       DeadlinesAreTimeouts, Discovering, DiscoveryIdle, DiscoveryOver, Timer, Gives

\* Where a discovery goes from each of its requests.
LEMMA TurnsAfter ==
    ASSUME NEW policy, DiscoveryTypes, Discovering
    PROVE  /\ asking = "health" => After(policy) \in {"returned", "version"}
           /\ asking = "version" => After(policy) = "models"
           /\ asking = "models" => After(policy) \in {"returned", "server_info"}
           /\ asking = "server_info" => After(policy) = "returned"
           /\ asking \in Requests
           /\ After(policy) # "idle"
<1>1. asking \in Requests
  BY DEF DiscoveryTypes, Discovering, DiscoveryIdle, DiscoveryOver, Ends
<1>2. /\ asking = "health" => After(policy) \in {"returned", "version"}
      /\ asking = "version" => After(policy) = "models"
      /\ asking = "models" => After(policy) \in {"returned", "server_info"}
      /\ asking = "server_info" => After(policy) = "returned"
  BY DEF After
<1> QED
  BY <1>1, <1>2 DEF Requests

LEMMA DiscoverySteps ==
    ASSUME NEW policy, DiscoveryInv, DiscoveryNext(policy)
    PROVE  DiscoveryInv'
<1> USE DEF DiscoveryInv
<1>1. CASE Route
  <2>1. DiscoveryTypes'
    BY <1>1, RedirectsAreCounted DEF Route, discovery, request, timers, clients, DiscoveryTypes, Requests, Ends, TimersInv, Timer, Discovering, DiscoveryIdle, DiscoveryOver
  <2>2. TimersInv'
    BY <1>1, RedirectsAreCounted DEF Route, discovery, request, timers, clients, TimersInv, Timer, Discovering, DiscoveryIdle, DiscoveryOver, DiscoveryTypes, Requests, Ends
  <2>3. ClientInv'
    BY <1>1, RedirectsAreCounted DEF Route, discovery, request, timers, clients, ClientInv, Turn, Discovering, DiscoveryIdle, DiscoveryOver, DiscoveryTypes, Requests, Ends, TimersInv, Timer
  <2>4. FoundInv'
    BY <1>1, RedirectsAreCounted DEF Route, discovery, request, timers, clients, FoundInv, Gives, Nothing, DiscoveryIdle, DiscoveryTypes, Requests, Ends, TimersInv, Timer, Discovering, DiscoveryOver
  <2>5. CutInv'
    BY <1>1, RedirectsAreCounted DEF Route, discovery, request, timers, clients, CutInv, DeadlinesAreTimeouts, DiscoveryTypes, Requests, Ends, TimersInv, Timer, Discovering, DiscoveryIdle, DiscoveryOver
  <2> QED
    BY <2>1, <2>2, <2>3, <2>4, <2>5
<1>2. CASE Ask
  <2>1. DiscoveryTypes'
    <3>1. hops' = 0 /\ outcome' = "none" /\ cut' = FALSE /\ late' = FALSE /\ step' = "send"
      BY <1>2 DEF Ask
    <3>2. (hops \in 0..MaxRedirects)'
      BY <3>1, RedirectsAreCounted
    <3> QED
      BY <1>2, <3>1, <3>2 DEF Ask, DiscoveryTypes
  <2>2. TimersInv'
    <3>1. waiting = {} /\ firing = {}
      BY <1>2 DEF Ask, TimersInv
    <3>2. /\ waiting' = {<<asking, client'>>} /\ firing' = {} /\ asking' = asking /\ closed' = closed
          /\ step' = "send" /\ client' = IF client \in closed THEN client + 1 ELSE client
      BY <1>2, <3>1 DEF Ask
    <3>3. client' \notin closed'
      BY <3>2 DEF ClientInv
    <3>4. Discovering'
      BY <1>2, <3>2 DEF Ask, Discovering, DiscoveryIdle, DiscoveryOver
    <3> QED
      BY <3>2, <3>3, <3>4 DEF TimersInv, Timer
  <2>3. ClientInv'
    BY <1>2, RedirectsAreCounted DEF Ask, discovery, request, timers, clients, ClientInv, Turn, Discovering, DiscoveryIdle, DiscoveryOver, DiscoveryTypes, Requests, Ends, TimersInv, Timer
  <2>4. FoundInv'
    BY <1>2, RedirectsAreCounted DEF Ask, discovery, request, timers, clients, FoundInv, Gives, Nothing, DiscoveryIdle, DiscoveryTypes, Requests, Ends, TimersInv, Timer
  <2>5. CutInv'
    <3>1. waiting = {} /\ firing = {} /\ closed \subseteq 1..client /\ client \in 1..4
      BY <1>2 DEF Ask, TimersInv, ClientInv
    <3>2. /\ waiting' = {Timer'} /\ firing' = {} /\ closed' = closed /\ cut' = FALSE
          /\ step' = "send" /\ client' = IF client \in closed THEN client + 1 ELSE client
      BY <1>2, <3>1 DEF Ask, Timer
    <3>3. client' \notin closed'
      BY <3>1, <3>2
    <3> QED
      BY <3>2, <3>3 DEF CutInv, DeadlinesAreTimeouts
  <2> QED
    BY <2>1, <2>2, <2>3, <2>4, <2>5
<1>3. CASE Send
  <2>1. DiscoveryTypes'
    BY <1>3, RedirectsAreCounted DEF Send, Ended, discovery, request, timers, clients, DiscoveryTypes, Requests, Ends, TimersInv, Timer
  <2>2. TimersInv'
    BY <1>3, RedirectsAreCounted DEF Send, Ended, discovery, request, timers, clients, TimersInv, Timer, Discovering, DiscoveryIdle, DiscoveryOver, DiscoveryTypes, Requests, Ends
  <2>3. ClientInv'
    BY <1>3, RedirectsAreCounted DEF Send, Ended, discovery, request, timers, clients, ClientInv, Turn, Discovering, DiscoveryIdle, DiscoveryOver, DiscoveryTypes, Requests, Ends, TimersInv, Timer
  <2>4. FoundInv'
    BY <1>3, RedirectsAreCounted DEF Send, Ended, discovery, request, timers, clients, FoundInv, Gives, Nothing, DiscoveryIdle, DiscoveryTypes, Requests, Ends, TimersInv, Timer
  <2>5. CutInv'
    BY <1>3, RedirectsAreCounted DEF Send, Ended, discovery, request, timers, clients, CutInv, DeadlinesAreTimeouts, DiscoveryTypes, Requests, Ends, TimersInv, Timer
  <2> QED
    BY <2>1, <2>2, <2>3, <2>4, <2>5
<1>4. CASE Fails
  <2>1. DiscoveryTypes'
    BY <1>4, RedirectsAreCounted DEF Fails, Ended, Expired, discovery, request, timers, clients, DiscoveryTypes, Requests, Ends, TimersInv, Timer
  <2>2. TimersInv'
    BY <1>4, RedirectsAreCounted DEF Fails, Ended, Expired, discovery, request, timers, clients, TimersInv, Timer, Discovering, DiscoveryIdle, DiscoveryOver, DiscoveryTypes, Requests, Ends
  <2>3. ClientInv'
    BY <1>4, RedirectsAreCounted DEF Fails, Ended, Expired, discovery, request, timers, clients, ClientInv, Turn, Discovering, DiscoveryIdle, DiscoveryOver, DiscoveryTypes, Requests, Ends, TimersInv, Timer
  <2>4. FoundInv'
    BY <1>4, RedirectsAreCounted DEF Fails, Ended, Expired, discovery, request, timers, clients, FoundInv, Gives, Nothing, DiscoveryIdle, DiscoveryTypes, Requests, Ends, TimersInv, Timer
  <2>5. CutInv'
    BY <1>4, RedirectsAreCounted DEF Fails, Ended, Expired, discovery, request, timers, clients, CutInv, DeadlinesAreTimeouts, DiscoveryTypes, Requests, Ends, TimersInv, Timer
  <2> QED
    BY <2>1, <2>2, <2>3, <2>4, <2>5
<1>5. CASE Overdue
  <2>1. DiscoveryTypes'
    BY <1>5, RedirectsAreCounted DEF Overdue, Ended, discovery, request, timers, clients, DiscoveryTypes, Requests, Ends, TimersInv, Timer
  <2>2. TimersInv'
    BY <1>5, RedirectsAreCounted DEF Overdue, Ended, discovery, request, timers, clients, TimersInv, Timer, Discovering, DiscoveryIdle, DiscoveryOver, DiscoveryTypes, Requests, Ends
  <2>3. ClientInv'
    BY <1>5, RedirectsAreCounted DEF Overdue, Ended, discovery, request, timers, clients, ClientInv, Turn, Discovering, DiscoveryIdle, DiscoveryOver, DiscoveryTypes, Requests, Ends, TimersInv, Timer
  <2>4. FoundInv'
    BY <1>5, RedirectsAreCounted DEF Overdue, Ended, discovery, request, timers, clients, FoundInv, Gives, Nothing, DiscoveryIdle, DiscoveryTypes, Requests, Ends, TimersInv, Timer
  <2>5. CutInv'
    BY <1>5, RedirectsAreCounted DEF Overdue, Ended, discovery, request, timers, clients, CutInv, DeadlinesAreTimeouts, DiscoveryTypes, Requests, Ends, TimersInv, Timer
  <2> QED
    BY <2>1, <2>2, <2>3, <2>4, <2>5
<1>6. CASE Redirected
  <2>1. DiscoveryTypes'
    BY <1>6, RedirectsAreCounted DEF Redirected, Ended, discovery, request, timers, clients, DiscoveryTypes, Requests, Ends, TimersInv, Timer
  <2>2. TimersInv'
    BY <1>6, RedirectsAreCounted DEF Redirected, Ended, discovery, request, timers, clients, TimersInv, Timer, Discovering, DiscoveryIdle, DiscoveryOver, DiscoveryTypes, Requests, Ends
  <2>3. ClientInv'
    BY <1>6, RedirectsAreCounted DEF Redirected, Ended, discovery, request, timers, clients, ClientInv, Turn, Discovering, DiscoveryIdle, DiscoveryOver, DiscoveryTypes, Requests, Ends, TimersInv, Timer
  <2>4. FoundInv'
    BY <1>6, RedirectsAreCounted DEF Redirected, Ended, discovery, request, timers, clients, FoundInv, Gives, Nothing, DiscoveryIdle, DiscoveryTypes, Requests, Ends, TimersInv, Timer
  <2>5. CutInv'
    BY <1>6, RedirectsAreCounted DEF Redirected, Ended, discovery, request, timers, clients, CutInv, DeadlinesAreTimeouts, DiscoveryTypes, Requests, Ends, TimersInv, Timer
  <2> QED
    BY <2>1, <2>2, <2>3, <2>4, <2>5
<1>7. CASE Responds
  <2>1. DiscoveryTypes'
    BY <1>7, RedirectsAreCounted DEF Responds, Ended, discovery, request, timers, clients, DiscoveryTypes, Requests, Ends, TimersInv, Timer
  <2>2. TimersInv'
    BY <1>7, RedirectsAreCounted DEF Responds, Ended, discovery, request, timers, clients, TimersInv, Timer, Discovering, DiscoveryIdle, DiscoveryOver, DiscoveryTypes, Requests, Ends
  <2>3. ClientInv'
    BY <1>7, RedirectsAreCounted DEF Responds, Ended, discovery, request, timers, clients, ClientInv, Turn, Discovering, DiscoveryIdle, DiscoveryOver, DiscoveryTypes, Requests, Ends, TimersInv, Timer
  <2>4. FoundInv'
    BY <1>7, RedirectsAreCounted DEF Responds, Ended, discovery, request, timers, clients, FoundInv, Gives, Nothing, DiscoveryIdle, DiscoveryTypes, Requests, Ends, TimersInv, Timer
  <2>5. CutInv'
    BY <1>7, RedirectsAreCounted DEF Responds, Ended, discovery, request, timers, clients, CutInv, DeadlinesAreTimeouts, DiscoveryTypes, Requests, Ends, TimersInv, Timer
  <2> QED
    BY <2>1, <2>2, <2>3, <2>4, <2>5
<1>8. CASE Cancel
  <2>1. DiscoveryTypes'
    BY <1>8, RedirectsAreCounted DEF Cancel, discovery, request, timers, clients, DiscoveryTypes, Requests, Ends, TimersInv, Timer
  <2>2. TimersInv'
    BY <1>8, RedirectsAreCounted DEF Cancel, discovery, request, timers, clients, TimersInv, Timer, Discovering, DiscoveryIdle, DiscoveryOver, DiscoveryTypes, Requests, Ends
  <2>3. ClientInv'
    BY <1>8, RedirectsAreCounted DEF Cancel, discovery, request, timers, clients, ClientInv, Turn, Discovering, DiscoveryIdle, DiscoveryOver, DiscoveryTypes, Requests, Ends, TimersInv, Timer
  <2>4. FoundInv'
    BY <1>8, RedirectsAreCounted DEF Cancel, discovery, request, timers, clients, FoundInv, Gives, Nothing, DiscoveryIdle, DiscoveryTypes, Requests, Ends, TimersInv, Timer
  <2>5. CutInv'
    BY <1>8, RedirectsAreCounted DEF Cancel, discovery, request, timers, clients, CutInv, DeadlinesAreTimeouts, DiscoveryTypes, Requests, Ends, TimersInv, Timer
  <2> QED
    BY <2>1, <2>2, <2>3, <2>4, <2>5
<1>9. CASE Join(policy)
  <2>1. DiscoveryTypes'
    BY <1>9, TurnsAfter, RedirectsAreCounted DEF Join, Settle, Raises, Critical, discovery, request, timers, clients, DiscoveryTypes, Requests, Ends, TimersInv, Timer, Discovering, DiscoveryIdle, DiscoveryOver
  <2>2. TimersInv'
    BY <1>9, TurnsAfter, RedirectsAreCounted DEF Join, Settle, Raises, Critical, discovery, request, timers, clients, TimersInv, Timer, Discovering, DiscoveryIdle, DiscoveryOver, DiscoveryTypes, Requests, Ends
  <2>3. ClientInv'
    BY <1>9, TurnsAfter, RedirectsAreCounted DEF Join, Settle, Raises, Critical, discovery, request, timers, clients, ClientInv, Turn, Discovering, DiscoveryIdle, DiscoveryOver, DiscoveryTypes, Requests, Ends, TimersInv, Timer
  <2>4. FoundInv'
    <3>1. /\ step' = "idle" /\ server' = server
          /\ found' = IF outcome # "ok" THEN found
                      ELSE [found EXCEPT !.healthy = @ \/ asking = "health",
                                         !.models = IF asking = "models" THEN server.served ELSE @,
                                         !.server_info = @ \/ asking = "server_info"]
          /\ step = "join" /\ Discovering
      BY <1>9 DEF Join, Settle, TimersInv
    <3>2. outcome = "ok" => /\ asking = "health" => server.healthy
                            /\ asking = "server_info" => server.info
      BY <3>1 DEF FoundInv, Gives
    <3>3. server.served \subseteq Models
      BY ServiceDiscoveryAssumption DEF DiscoveryTypes, NoServer
    <3>4. asking' # "idle"
      BY <1>9, <3>1, TurnsAfter DEF Join, Settle, DiscoveryTypes
    <3> QED
      BY <3>1, <3>2, <3>3, <3>4 DEF FoundInv, DiscoveryIdle
  <2>5. CutInv'
    BY <1>9, TurnsAfter, RedirectsAreCounted DEF Join, Settle, Raises, Critical, discovery, request, timers, clients, CutInv, DeadlinesAreTimeouts, DiscoveryTypes, Requests, Ends, TimersInv, Timer, Discovering, DiscoveryIdle, DiscoveryOver
  <2> QED
    BY <2>1, <2>2, <2>3, <2>4, <2>5
<1>10. CASE Passes
  <2>1. DiscoveryTypes'
    BY <1>10, RedirectsAreCounted DEF Passes, discovery, request, timers, clients, DiscoveryTypes, Requests, Ends, TimersInv, Timer
  <2>2. TimersInv'
    BY <1>10, RedirectsAreCounted DEF Passes, discovery, request, timers, clients, TimersInv, Timer, Discovering, DiscoveryIdle, DiscoveryOver, DiscoveryTypes, Requests, Ends
  <2>3. ClientInv'
    BY <1>10, RedirectsAreCounted DEF Passes, discovery, request, timers, clients, ClientInv, Turn, Discovering, DiscoveryIdle, DiscoveryOver, DiscoveryTypes, Requests, Ends, TimersInv, Timer
  <2>4. FoundInv'
    BY <1>10, RedirectsAreCounted DEF Passes, discovery, request, timers, clients, FoundInv, Gives, Nothing, DiscoveryIdle, DiscoveryTypes, Requests, Ends, TimersInv, Timer
  <2>5. CutInv'
    BY <1>10, RedirectsAreCounted DEF Passes, discovery, request, timers, clients, CutInv, DeadlinesAreTimeouts, DiscoveryTypes, Requests, Ends, TimersInv, Timer
  <2> QED
    BY <2>1, <2>2, <2>3, <2>4, <2>5
<1>11. CASE \E timer \in waiting \cup firing : Expire(timer)
  <2>1. DiscoveryTypes'
    BY <1>11, RedirectsAreCounted DEF Expire, discovery, request, timers, clients, DiscoveryTypes, Requests, Ends, TimersInv, Timer
  <2>2. TimersInv'
    BY <1>11, RedirectsAreCounted DEF Expire, discovery, request, timers, clients, TimersInv, Timer, Discovering, DiscoveryIdle, DiscoveryOver, DiscoveryTypes, Requests, Ends
  <2>3. ClientInv'
    BY <1>11, RedirectsAreCounted DEF Expire, discovery, request, timers, clients, ClientInv, Turn, Discovering, DiscoveryIdle, DiscoveryOver, DiscoveryTypes, Requests, Ends, TimersInv, Timer
  <2>4. FoundInv'
    BY <1>11, RedirectsAreCounted DEF Expire, discovery, request, timers, clients, FoundInv, Gives, Nothing, DiscoveryIdle, DiscoveryTypes, Requests, Ends, TimersInv, Timer
  <2>5. CutInv'
    BY <1>11, RedirectsAreCounted DEF Expire, discovery, request, timers, clients, CutInv, DeadlinesAreTimeouts, DiscoveryTypes, Requests, Ends, TimersInv, Timer
  <2> QED
    BY <2>1, <2>2, <2>3, <2>4, <2>5
<1>12. CASE \E timer \in waiting \cup firing : Close(timer)
  <2>1. DiscoveryTypes'
    BY <1>12, RedirectsAreCounted DEF Close, discovery, request, timers, clients, DiscoveryTypes, Requests, Ends, TimersInv, Timer
  <2>2. TimersInv'
    BY <1>12, RedirectsAreCounted DEF Close, discovery, request, timers, clients, TimersInv, Timer, Discovering, DiscoveryIdle, DiscoveryOver, DiscoveryTypes, Requests, Ends
  <2>3. ClientInv'
    <3>1. /\ closed' = closed \cup {client} /\ client' = client /\ asking' = asking /\ step' = step
          /\ step # "idle" /\ Discovering
      BY <1>12 DEF Close, request, TimersInv, Timer
    <3> QED
      BY <3>1 DEF ClientInv, Turn, Discovering, DiscoveryIdle, DiscoveryOver
  <2>4. FoundInv'
    BY <1>12, RedirectsAreCounted DEF Close, discovery, request, timers, clients, FoundInv, Gives, Nothing, DiscoveryIdle, DiscoveryTypes, Requests, Ends, TimersInv, Timer
  <2>5. CutInv'
    BY <1>12, RedirectsAreCounted DEF Close, discovery, request, timers, clients, CutInv, DeadlinesAreTimeouts, DiscoveryTypes, Requests, Ends, TimersInv, Timer
  <2> QED
    BY <2>1, <2>2, <2>3, <2>4, <2>5
<1> QED
  BY <1>1, <1>2, <1>3, <1>4, <1>5, <1>6, <1>7, <1>8, <1>9, <1>10, <1>11, <1>12 DEF DiscoveryNext

-----------------------------------------------------------------------------
(* The probe.                                                                *)

LEMMA ProbeStarts ==
    ASSUME ProbeInit
    PROVE  ProbeInv
<1>1. remaining \in 0..CommandTimeout /\ output \in 0..(MaxOutput + 1)
  BY HostProbeAssumption DEF ProbeInit
<1> QED
  BY <1>1 DEF ProbeInit, ProbeInv, ProbeTypeOK, Collecting, ProbeOver, Members

LEMMA ProbeIsTaken ==
    ASSUME ProbeTaken
    PROVE  ProbeInv'
<1>1. (remaining \in 0..CommandTimeout /\ output \in 0..(MaxOutput + 1))'
  BY HostProbeAssumption DEF ProbeTaken
<1> QED
  BY <1>1 DEF ProbeTaken, ProbeInv, ProbeTypeOK, Collecting, ProbeOver, Members

LEMMA ProbeStutters ==
    ASSUME ProbeInv, UNCHANGED probe
    PROVE  ProbeInv'
BY DEF probe, groupVars, processes, ProbeInv, ProbeTypeOK, Collecting, ProbeOver, Members

\* A process that forks, exits, redirects its output or leaves the group adds
\* nobody to a group that is empty.
LEMMA ProcessesAct ==
    ASSUME ProbeInv, Processes, UNCHANGED <<remaining, output>>
    PROVE  ProbeInv'
<1>1. PICK p \in Procs : \/ \E q \in Procs : Fork(p, q)
                         \/ Redirect(p) \/ Escape(p) \/ ProcessExits(p)
  BY DEF Processes
<1>2. ASSUME NEW q \in Procs, Fork(p, q)
      PROVE  ProbeInv'
  BY <1>2 DEF Fork, ProbeInv, ProbeTypeOK, Collecting, ProbeOver, Members
<1>3. CASE Redirect(p)
  BY <1>3 DEF Redirect, ProbeInv, ProbeTypeOK, Collecting, ProbeOver, Members
<1>4. CASE Escape(p)
  BY <1>4 DEF Escape, ProbeInv, ProbeTypeOK, Collecting, ProbeOver, Members
<1>5. CASE ProcessExits(p)
  BY <1>5 DEF ProcessExits, Stop, ProbeInv, ProbeTypeOK, Collecting, ProbeOver, Members
<1> QED
  BY <1>1, <1>2, <1>3, <1>4, <1>5

LEMMA ProbeSteps ==
    ASSUME ProbeInv, ProbeNext
    PROVE  ProbeInv'
<1> USE DEF ProbeInv, ProbeTypeOK, Collecting, ProbeOver, Members
<1>1. CASE StartProbe
  <2>1. Leader \in Procs
    BY ProcessGroupAssumption
  <2>2. (remaining \in 0..CommandTimeout /\ output \in 0..(MaxOutput + 1))'
    BY <1>1, HostProbeAssumption DEF StartProbe
  <2> QED
    BY <1>1, <2>1, <2>2 DEF StartProbe, ProbeIdle
<1>2. CASE Tick
  BY <1>2, HostProbeAssumption DEF Tick, groupVars, processes
<1>3. CASE ReadAll \/ Completed
  BY <1>3 DEF ReadAll, Completed, processes
<1>4. ASSUME NEW why \in {"timeout", "excess", "interrupt"}, GiveUp(why)
      PROVE  ProbeInv'
  BY <1>4 DEF GiveUp, Stop
<1>5. CASE KillRest
  BY <1>5 DEF KillRest, Stop
<1>6. CASE Reap
  BY <1>6 DEF Reap, processes
<1>7. CASE Read
  <2>1. (output \in 0..(MaxOutput + 1))'
    BY <1>7, HostProbeAssumption DEF Read
  <2> QED
    BY <1>7, <2>1 DEF Read, groupVars, processes
<1>8. CASE GiveUpHalfway
  BY <1>8 DEF GiveUpHalfway, processes
<1>9. CASE Processes /\ UNCHANGED <<remaining, output>>
  BY <1>9, ProcessesAct
<1> QED
  BY <1>1, <1>2, <1>3, <1>4, <1>5, <1>6, <1>7, <1>8, <1>9 DEF ProbeNext, ProbeStep

-----------------------------------------------------------------------------
(* The suite's own steps.                                                    *)

\* A child's row is added, and replaced in place.
LEMMA ChildStarted ==
    ASSUME SuiteTypes
    PROVE  /\ Append(rows, "running") \in Seq({"running", "ok", "failed"})
           /\ Len(Append(rows, "running")) = Len(rows) + 1
           /\ Append(rows, "running") # <<>>
<1>1. rows \in Seq({"running", "ok", "failed"}) /\ Len(rows) \in Nat
  BY DEF SuiteTypes
<1>2. Append(rows, "running") \in Seq({"running", "ok", "failed"}) /\ Len(Append(rows, "running")) = Len(rows) + 1
  BY <1>1, AppendProperties
<1> QED
  BY <1>2, <1>1, AppendProperties

LEMMA ChildRecorded ==
    ASSUME SuiteTypes, NEW end \in {"running", "ok", "failed"}
    PROVE  /\ [rows EXCEPT ![Len(rows)] = end] \in Seq({"running", "ok", "failed"})
           /\ Len([rows EXCEPT ![Len(rows)] = end]) = Len(rows)
<1> DEFINE n == Len(rows)
<1>1. rows \in [1..n -> {"running", "ok", "failed"}] /\ n \in Nat
  BY DEF SuiteTypes
<1> HIDE DEF n
<1>2. [rows EXCEPT ![n] = end] \in [1..n -> {"running", "ok", "failed"}]
  BY <1>1
<1>3. [rows EXCEPT ![n] = end] \in Seq({"running", "ok", "failed"})
  BY <1>1, <1>2
<1> QED
  BY <1>1, <1>2, <1>3 DEF n

\* _merge_linked_children: the rows of the store that are linked to the suite are its
\* children's, and no outcome that was returned is without one.
LEMMA MergedChildren ==
    ASSUME SuiteTypes, RowsInv
    PROVE  /\ DOMAIN Children = 1..Len(rows) /\ DOMAIN rows = 1..Len(rows)
           /\ \A i \in DOMAIN rows : Children[i] = rows[i]
<1> DEFINE n == Len(rows)
           k == Len(returned)
<1>1. n \in Nat /\ k \in Nat /\ k <= n
  BY DEF SuiteTypes, RowsInv
<1>2. DOMAIN rows = 1..n /\ DOMAIN returned = 1..k
  BY DEF SuiteTypes, RowsInv
<1> HIDE DEF n, k
<1>3. 0 \notin 1..n /\ 1..k \subseteq 1..n /\ 1..n \subseteq Nat
  BY <1>1
<1>4. \A id \in DOMAIN Earlier : id \notin Nat /\ Earlier[id].parent # 0
  BY SuiteAssumption
<1>5. /\ DOMAIN StoredRuns = DOMAIN Earlier \cup {0} \cup 1..n
      /\ StoredRuns[0] = [parent |-> NoParent, status |-> status]
      /\ \A id \in 1..n : StoredRuns[id] = [parent |-> 0, status |-> rows[id]]
      /\ \A id \in DOMAIN Earlier : StoredRuns[id] = Earlier[id]
  BY <1>2, <1>3, <1>4 DEF StoredRuns
<1>6. StoredRuns[0].parent # 0
  BY <1>5, SuiteAssumption
<1>7. Linked = 1..n
  <2>1. ASSUME NEW id \in DOMAIN StoredRuns, StoredRuns[id].parent = 0
        PROVE  id \in 1..n
    BY <1>4, <1>5, <1>6, <2>1
  <2>2. ASSUME NEW id \in 1..n
        PROVE  id \in DOMAIN StoredRuns /\ StoredRuns[id].parent = 0
    <3>1. id \in DOMAIN StoredRuns /\ StoredRuns[id] = [parent |-> 0, status |-> rows[id]]
      BY <1>5, <2>2
    <3> QED
      BY <3>1
  <2> QED
    BY <2>1, <2>2 DEF Linked
<1>8. /\ DOMAIN Children = 1..n
      /\ \A i \in 1..n : Children[i] = rows[i]
  <2>1. DOMAIN returned \cup Linked = 1..n
    BY <1>2, <1>3, <1>7
  <2>2. Children = [id \in 1..n |-> IF id \in Linked THEN StoredRuns[id].status ELSE returned[id]]
    BY <2>1 DEF Children
  <2>3. ASSUME NEW i \in 1..n
        PROVE  StoredRuns[i].status = rows[i]
    <3>1. StoredRuns[i] = [parent |-> 0, status |-> rows[i]]
      BY <1>5
    <3> QED
      BY <3>1
  <2> HIDE DEF StoredRuns
  <2> QED
    BY <1>7, <2>2, <2>3
<1> QED
  BY <1>2, <1>8 DEF n

LEMMA SuiteSteps ==
    ASSUME SuiteInv, Step
    PROVE  SuiteInv'
<1> USE DEF SuiteInv
<1>1. CASE Begin
  <2>1. SuiteTypes'
    BY <1>1 DEF Begin, children, suite, history, SuiteTypes, Roles, NotCaptured, InTry, InFinally, Smooth, Early, Resolving, Working
  <2>2. RowsInv'
    BY <1>1 DEF Begin, children, suite, history, SuiteTypes, RowsInv, Planned, OkSuiteMeansAllRan, CountsMatchRows, InTry, InFinally, Smooth, Early, Resolving, Working
  <2>3. TargetInv'
    BY <1>1 DEF Begin, children, suite, history, SuiteTypes, RowsInv, TargetInv, RunsOnlyOnVerifiedTarget, NotCaptured, InTry, InFinally, Smooth, Early, Resolving, Working
  <2>4. ClaimsInv'
    BY <1>1 DEF Begin, children, suite, history, SuiteTypes, RowsInv, TargetInv, ClaimsInv, HostKnown, EvidenceComplete, EvidenceKept, InTry, InFinally, Smooth, Early, Resolving, Working
  <2> QED
    BY <2>1, <2>2, <2>3, <2>4
<1>2. CASE SystemBefore
  <2>1. SuiteTypes'
    <3>1. claimed' \subseteq Roles
      BY <1>2 DEF SystemBefore, SuiteTypes, Roles
    <3>2. /\ exc' \in {"none", "error", "interrupt"}
          /\ pc' \in {"preflight", "inspect", "quality", "server_after"}
      BY <1>2 DEF SystemBefore, Raise, SuiteTypes
    <3>3. UNCHANGED <<target, plan, child_failure, captured, host, resolved, rows, status, history>>
      BY <1>2 DEF SystemBefore, children, suite
    <3> QED
      BY <3>1, <3>2, <3>3 DEF SuiteTypes, history, Early, Resolving, Working
  <2>2. RowsInv'
    BY <1>2 DEF SystemBefore, Raise, children, suite, history, SuiteTypes, RowsInv, Planned, OkSuiteMeansAllRan, CountsMatchRows, InTry, InFinally, Smooth, Early, Resolving, Working
  <2>3. TargetInv'
    BY <1>2 DEF SystemBefore, Raise, children, suite, history, SuiteTypes, RowsInv, TargetInv, RunsOnlyOnVerifiedTarget, NotCaptured, InTry, InFinally, Smooth, Early, Resolving, Working
  <2>4. ClaimsInv'
    BY <1>2 DEF SystemBefore, Raise, children, suite, history, SuiteTypes, RowsInv, TargetInv, ClaimsInv, HostKnown, EvidenceComplete, EvidenceKept, InTry, InFinally, Smooth, Early, Resolving, Working
  <2> QED
    BY <2>1, <2>2, <2>3, <2>4
<1>3. CASE Validate
  <2>1. SuiteTypes'
    BY <1>3 DEF Validate, Raise, children, suite, history, SuiteTypes, Roles, NotCaptured, InTry, InFinally, Smooth, Early, Resolving, Working
  <2>2. RowsInv'
    BY <1>3 DEF Validate, Raise, children, suite, history, SuiteTypes, RowsInv, Planned, OkSuiteMeansAllRan, CountsMatchRows, InTry, InFinally, Smooth, Early, Resolving, Working
  <2>3. TargetInv'
    BY <1>3 DEF Validate, Raise, children, suite, history, SuiteTypes, RowsInv, TargetInv, RunsOnlyOnVerifiedTarget, NotCaptured, InTry, InFinally, Smooth, Early, Resolving, Working
  <2>4. ClaimsInv'
    BY <1>3 DEF Validate, Raise, children, suite, history, SuiteTypes, RowsInv, TargetInv, ClaimsInv, HostKnown, EvidenceComplete, EvidenceKept, InTry, InFinally, Smooth, Early, Resolving, Working
  <2> QED
    BY <2>1, <2>2, <2>3, <2>4
<1>4. CASE MetricsBefore
  <2>1. SuiteTypes'
    BY <1>4 DEF MetricsBefore, children, suite, history, SuiteTypes, Roles, NotCaptured, InTry, InFinally, Smooth, Early, Resolving, Working
  <2>2. RowsInv'
    BY <1>4 DEF MetricsBefore, children, suite, history, SuiteTypes, RowsInv, Planned, OkSuiteMeansAllRan, CountsMatchRows, InTry, InFinally, Smooth, Early, Resolving, Working
  <2>3. TargetInv'
    BY <1>4 DEF MetricsBefore, children, suite, history, SuiteTypes, RowsInv, TargetInv, RunsOnlyOnVerifiedTarget, NotCaptured, InTry, InFinally, Smooth, Early, Resolving, Working
  <2>4. ClaimsInv'
    BY <1>4 DEF MetricsBefore, children, suite, history, SuiteTypes, RowsInv, TargetInv, ClaimsInv, HostKnown, EvidenceComplete, EvidenceKept, InTry, InFinally, Smooth, Early, Resolving, Working
  <2> QED
    BY <2>1, <2>2, <2>3, <2>4
<1>5. CASE Preflight
  <2>1. SuiteTypes'
    <3>1. claimed' \subseteq Roles
      BY <1>5 DEF Preflight, SuiteTypes, Roles
    <3>2. /\ exc' \in {"none", "error", "interrupt"}
          /\ pc' \in {"preflight", "inspect", "quality", "server_after"}
      BY <1>5 DEF Preflight, Raise, SuiteTypes
    <3>3. UNCHANGED <<target, plan, child_failure, captured, host, resolved, rows, status, history>>
      BY <1>5 DEF Preflight, children, suite
    <3> QED
      BY <3>1, <3>2, <3>3 DEF SuiteTypes, history, Early, Resolving, Working
  <2>2. RowsInv'
    BY <1>5 DEF Preflight, Raise, children, suite, history, SuiteTypes, RowsInv, Planned, OkSuiteMeansAllRan, CountsMatchRows, InTry, InFinally, Smooth, Early, Resolving, Working
  <2>3. TargetInv'
    BY <1>5 DEF Preflight, Raise, children, suite, history, SuiteTypes, RowsInv, TargetInv, RunsOnlyOnVerifiedTarget, NotCaptured, InTry, InFinally, Smooth, Early, Resolving, Working
  <2>4. ClaimsInv'
    BY <1>5 DEF Preflight, Raise, children, suite, history, SuiteTypes, RowsInv, TargetInv, ClaimsInv, HostKnown, EvidenceComplete, EvidenceKept, InTry, InFinally, Smooth, Early, Resolving, Working
  <2> QED
    BY <2>1, <2>2, <2>3, <2>4
<1>6. CASE Quality
  <2>1. SuiteTypes'
    <3>1. rows' \in Seq({"running", "ok", "failed"})
      BY <1>6, ChildStarted DEF Quality, StartChild, SuiteTypes
    <3>2. /\ exc' \in {"none", "error", "interrupt"}
          /\ child_failure' \in BOOLEAN
          /\ pc' \in {"load", "child", "server_after"}
      BY <1>6 DEF Quality, StartChild, StepFails, SuiteTypes
    <3>3. UNCHANGED <<target, plan, captured, host, resolved, claimed, status, history>>
      BY <1>6 DEF Quality, suite
    <3> QED
      BY <3>1, <3>2, <3>3 DEF SuiteTypes, history, Early, Resolving, Working
  <2>2. RowsInv'
    <3>1. rows = <<>> /\ Len(rows) = 0 /\ Len(returned) <= 0 /\ Len(returned') = Len(returned)
      BY <1>6 DEF Quality, RowsInv, SuiteTypes
    <3>2. rows' = Append(rows, "running") => Len(rows') = 1 /\ rows' # <<>>
      BY <3>1, ChildStarted
    <3>3. returned' = returned /\ returned \in Seq({"running", "ok", "failed"}) /\ Len(returned) \in Nat
      BY <1>6 DEF Quality, RowsInv
    <3> QED
      BY <1>6, <3>1, <3>2, <3>3 DEF Quality, StartChild, StepFails, suite, SuiteTypes, RowsInv, Planned, OkSuiteMeansAllRan, CountsMatchRows, InTry, InFinally, Smooth, Early, Resolving, Working
  <2>3. TargetInv'
    BY <1>6 DEF Quality, StartChild, StepFails, children, suite, history, SuiteTypes, RowsInv, TargetInv, RunsOnlyOnVerifiedTarget, NotCaptured, InTry, InFinally, Smooth, Early, Resolving, Working
  <2>4. ClaimsInv'
    BY <1>6 DEF Quality, StartChild, StepFails, children, suite, history, SuiteTypes, RowsInv, TargetInv, ClaimsInv, HostKnown, EvidenceComplete, EvidenceKept, InTry, InFinally, Smooth, Early, Resolving, Working
  <2> QED
    BY <2>1, <2>2, <2>3, <2>4
<1>7. CASE Load
  <2>1. SuiteTypes'
    <3>1. rows' \in Seq({"running", "ok", "failed"})
      BY <1>7, ChildStarted DEF Load, StartChild, SuiteTypes
    <3>2. /\ exc' \in {"none", "error", "interrupt"}
          /\ child_failure' \in BOOLEAN
          /\ pc' \in {"load", "child", "server_after"}
      BY <1>7 DEF Load, StartChild, StepFails, SuiteTypes
    <3>3. UNCHANGED <<target, plan, captured, host, resolved, claimed, status, history>>
      BY <1>7 DEF Load, suite
    <3> QED
      BY <3>1, <3>2, <3>3 DEF SuiteTypes, history, Early, Resolving, Working
  <2>2. RowsInv'
    <3> DEFINE n == Len(rows)
    <3>1. /\ n \in Nat /\ n <= Planned /\ plan.trials \in Nat /\ plan.quality \in BOOLEAN
          /\ plan.quality => rows # <<>>
          /\ (rows # <<>> => n # 0) /\ Smooth /\ pc = "load"
      BY <1>7 DEF Load, SuiteTypes, RowsInv, InTry
    <3>2. /\ QualityRows = IF plan.quality THEN 1 ELSE 0
          /\ Planned = QualityRows + plan.trials
      BY <3>1 DEF QualityRows, Planned
    <3>3. Planned' = Planned /\ QualityRows \in Nat
      BY <1>7, <3>2 DEF Load, Planned
    <3>4. CASE /\ n - QualityRows < plan.trials
               /\ rows' = Append(rows, "running")
               /\ pc' = "child" /\ UNCHANGED <<exc, child_failure, returned>>
      <4>1. Len(rows') = n + 1 /\ rows' # <<>>
        BY <3>4, ChildStarted DEF SuiteTypes
      <4> HIDE DEF n
      <4>2. n + 1 <= Planned
        BY <3>1, <3>2, <3>3, <3>4
      <4>3. Len(returned') <= Len(rows') /\ returned' \in Seq({"running", "ok", "failed"})
        BY <3>1, <3>4, <4>1 DEF RowsInv, n
      <4>4. UNCHANGED <<counts, status>>
        BY <1>7 DEF Load, suite
      <4> QED
        BY <3>1, <3>3, <3>4, <4>1, <4>2, <4>3, <4>4
        DEF RowsInv, OkSuiteMeansAllRan, CountsMatchRows, Smooth, InTry, InFinally, Early, Resolving
    <3>5. CASE StepFails /\ UNCHANGED <<rows, returned>>
      BY <1>7, <3>1, <3>3, <3>5
      DEF Load, StepFails, suite, RowsInv, OkSuiteMeansAllRan, CountsMatchRows, Smooth, InTry, InFinally, Early, Resolving
    <3>6. CASE /\ n - QualityRows = plan.trials /\ returned' = rows
               /\ pc' = "server_after" /\ UNCHANGED <<exc, child_failure, rows>>
      <4> HIDE DEF n
      <4>1. n = Planned
        BY <3>1, <3>2, <3>3, <3>6
      <4>2. /\ Len(rows') = Planned' /\ Len(returned') <= Len(rows')
            /\ returned' \in Seq({"running", "ok", "failed"})
        BY <3>1, <3>3, <3>6, <4>1 DEF n, SuiteTypes
      <4>3. UNCHANGED <<counts, status>>
        BY <1>7 DEF Load, suite
      <4> QED
        BY <3>1, <3>3, <3>6, <4>1, <4>2, <4>3
        DEF RowsInv, OkSuiteMeansAllRan, CountsMatchRows, Smooth, InTry, InFinally, Early, Resolving
    <3> QED
      BY <1>7, <3>4, <3>5, <3>6 DEF Load, StartChild
  <2>3. TargetInv'
    BY <1>7 DEF Load, StartChild, StepFails, children, suite, history, SuiteTypes, RowsInv, TargetInv, RunsOnlyOnVerifiedTarget, NotCaptured, InTry, InFinally, Smooth, Early, Resolving, Working
  <2>4. ClaimsInv'
    BY <1>7 DEF Load, StartChild, StepFails, children, suite, history, SuiteTypes, RowsInv, TargetInv, ClaimsInv, HostKnown, EvidenceComplete, EvidenceKept, InTry, InFinally, Smooth, Early, Resolving, Working
  <2> QED
    BY <2>1, <2>2, <2>3, <2>4
<1>8. CASE ChildEnds
  <2>1. SuiteTypes'
    <3>1. rows' \in Seq({"running", "ok", "failed"})
      <4>1. PICK end \in {"running", "ok", "failed"} : rows' = [rows EXCEPT ![Len(rows)] = end]
        BY <1>8 DEF ChildEnds
      <4> QED
        BY <4>1, ChildRecorded DEF SuiteTypes
    <3>2. /\ exc' \in {"none", "error", "interrupt"}
          /\ child_failure' \in BOOLEAN
          /\ pc' \in {"load", "child", "server_after"}
      BY <1>8 DEF ChildEnds, StepFails, SuiteTypes
    <3>3. UNCHANGED <<target, plan, captured, host, resolved, claimed, status, history>>
      BY <1>8 DEF ChildEnds, suite
    <3> QED
      BY <3>1, <3>2, <3>3 DEF SuiteTypes, history, Early, Resolving, Working
  <2>2. RowsInv'
    <3>1. Len(rows') = Len(rows) /\ rows' # <<>> /\ Len(rows) \in Nat /\ Len(rows) # 0
      <4>1. PICK end \in {"running", "ok", "failed"} : rows' = [rows EXCEPT ![Len(rows)] = end]
        BY <1>8 DEF ChildEnds
      <4>2. rows # <<>> /\ Len(rows) \in Nat /\ Len(rows) # 0
        BY <1>8 DEF ChildEnds, RowsInv, SuiteTypes
      <4>3. Len(rows') = Len(rows)
        BY <4>1, ChildRecorded
      <4> QED
        BY <4>2, <4>3
    <3>2. returned' \in Seq({"running", "ok", "failed"}) /\ Len(returned') <= Len(rows')
      <4>1. CASE returned' = returned
        BY <3>1, <4>1 DEF RowsInv
      <4>2. CASE returned' = <<"ok">>
        BY <3>1, <4>2
      <4> QED
        BY <1>8, <4>1, <4>2 DEF ChildEnds
    <3> QED
      BY <1>8, <3>1, <3>2 DEF ChildEnds, StepFails, suite, SuiteTypes, RowsInv, Planned, OkSuiteMeansAllRan, CountsMatchRows, InTry, InFinally, Smooth, Early, Resolving, Working
  <2>3. TargetInv'
    BY <1>8 DEF ChildEnds, StepFails, children, suite, history, SuiteTypes, RowsInv, TargetInv, RunsOnlyOnVerifiedTarget, NotCaptured, InTry, InFinally, Smooth, Early, Resolving, Working
  <2>4. ClaimsInv'
    BY <1>8 DEF ChildEnds, StepFails, children, suite, history, SuiteTypes, RowsInv, TargetInv, ClaimsInv, HostKnown, EvidenceComplete, EvidenceKept, InTry, InFinally, Smooth, Early, Resolving, Working
  <2> QED
    BY <2>1, <2>2, <2>3, <2>4
<1>9. CASE ChildInterrupted
  <2>1. SuiteTypes'
    <3>1. rows' \in Seq({"running", "ok", "failed"})
      <4>1. PICK end \in {"running", "ok", "failed"} : rows' = [rows EXCEPT ![Len(rows)] = end]
        BY <1>9 DEF ChildInterrupted
      <4> QED
        BY <4>1, ChildRecorded DEF SuiteTypes
    <3>2. /\ exc' \in {"none", "error", "interrupt"}
          /\ child_failure' \in BOOLEAN
          /\ pc' \in {"load", "child", "server_after"}
      BY <1>9 DEF ChildInterrupted, Raise, SuiteTypes
    <3>3. UNCHANGED <<target, plan, captured, host, resolved, claimed, status, history>>
      BY <1>9 DEF ChildInterrupted, suite
    <3> QED
      BY <3>1, <3>2, <3>3 DEF SuiteTypes, history, Early, Resolving, Working
  <2>2. RowsInv'
    BY <1>9 DEF ChildInterrupted, Raise, children, suite, history, SuiteTypes, RowsInv, Planned, OkSuiteMeansAllRan, CountsMatchRows, InTry, InFinally, Smooth, Early, Resolving, Working
  <2>3. TargetInv'
    BY <1>9 DEF ChildInterrupted, Raise, children, suite, history, SuiteTypes, RowsInv, TargetInv, RunsOnlyOnVerifiedTarget, NotCaptured, InTry, InFinally, Smooth, Early, Resolving, Working
  <2>4. ClaimsInv'
    BY <1>9 DEF ChildInterrupted, Raise, children, suite, history, SuiteTypes, RowsInv, TargetInv, ClaimsInv, HostKnown, EvidenceComplete, EvidenceKept, InTry, InFinally, Smooth, Early, Resolving, Working
  <2> QED
    BY <2>1, <2>2, <2>3, <2>4
<1>10. CASE ServerAfter
  <2>1. SuiteTypes'
    BY <1>10 DEF ServerAfter, children, suite, history, SuiteTypes, Roles, NotCaptured, InTry, InFinally, Smooth, Early, Resolving, Working
  <2>2. RowsInv'
    BY <1>10 DEF ServerAfter, children, suite, history, SuiteTypes, RowsInv, Planned, OkSuiteMeansAllRan, CountsMatchRows, InTry, InFinally, Smooth, Early, Resolving, Working
  <2>3. TargetInv'
    BY <1>10 DEF ServerAfter, children, suite, history, SuiteTypes, RowsInv, TargetInv, RunsOnlyOnVerifiedTarget, NotCaptured, InTry, InFinally, Smooth, Early, Resolving, Working
  <2>4. ClaimsInv'
    BY <1>10 DEF ServerAfter, children, suite, history, SuiteTypes, RowsInv, TargetInv, ClaimsInv, HostKnown, EvidenceComplete, EvidenceKept, InTry, InFinally, Smooth, Early, Resolving, Working
  <2> QED
    BY <2>1, <2>2, <2>3, <2>4
<1>11. CASE MetricsAfter
  <2>1. SuiteTypes'
    BY <1>11 DEF MetricsAfter, children, suite, history, SuiteTypes, Roles, NotCaptured, InTry, InFinally, Smooth, Early, Resolving, Working
  <2>2. RowsInv'
    BY <1>11 DEF MetricsAfter, children, suite, history, SuiteTypes, RowsInv, Planned, OkSuiteMeansAllRan, CountsMatchRows, InTry, InFinally, Smooth, Early, Resolving, Working
  <2>3. TargetInv'
    BY <1>11 DEF MetricsAfter, children, suite, history, SuiteTypes, RowsInv, TargetInv, RunsOnlyOnVerifiedTarget, NotCaptured, InTry, InFinally, Smooth, Early, Resolving, Working
  <2>4. ClaimsInv'
    BY <1>11 DEF MetricsAfter, children, suite, history, SuiteTypes, RowsInv, TargetInv, ClaimsInv, HostKnown, EvidenceComplete, EvidenceKept, InTry, InFinally, Smooth, Early, Resolving, Working
  <2> QED
    BY <2>1, <2>2, <2>3, <2>4
<1>12. CASE SystemAfter
  <2>1. SuiteTypes'
    BY <1>12 DEF SystemAfter, children, suite, history, SuiteTypes, Roles, NotCaptured, InTry, InFinally, Smooth, Early, Resolving, Working
  <2>2. RowsInv'
    BY <1>12 DEF SystemAfter, children, suite, history, SuiteTypes, RowsInv, Planned, OkSuiteMeansAllRan, CountsMatchRows, InTry, InFinally, Smooth, Early, Resolving, Working
  <2>3. TargetInv'
    BY <1>12 DEF SystemAfter, children, suite, history, SuiteTypes, RowsInv, TargetInv, RunsOnlyOnVerifiedTarget, NotCaptured, InTry, InFinally, Smooth, Early, Resolving, Working
  <2>4. ClaimsInv'
    BY <1>12 DEF SystemAfter, children, suite, history, SuiteTypes, RowsInv, TargetInv, ClaimsInv, HostKnown, EvidenceComplete, EvidenceKept, InTry, InFinally, Smooth, Early, Resolving, Working
  <2> QED
    BY <2>1, <2>2, <2>3, <2>4
<1>13. CASE Complete
  <2>1. SuiteTypes'
    BY <1>13 DEF Complete, children, suite, history, SuiteTypes, Roles, NotCaptured, InTry, InFinally, Smooth, Early, Resolving, Working
  <2>2. RowsInv'
    <3> DEFINE Bad == {i \in DOMAIN rows : rows[i] # "ok"}
               n == Len(rows)
    <3>0. DOMAIN Children = 1..n /\ Unsuccessful = Bad
      BY MergedChildren DEF Unsuccessful
    <3>1. /\ counts' = [children |-> n, failed |-> Cardinality(Bad), recorded |-> TRUE]
          /\ status' = IF ~child_failure /\ Cardinality(Bad) = 0 THEN "ok" ELSE "failed"
          /\ pc' = "done" /\ UNCHANGED <<target, plan, exc, claimed, rows, returned, child_failure, verified>>
      <4>1. Cardinality(DOMAIN Children) = n
        <5>1. n \in Nat
          BY DEF SuiteTypes
        <5> HIDE DEF n
        <5>2. Cardinality(1..n) = n
          BY <5>1, FS_Interval
        <5> QED
          BY <3>0, <5>2
      <4> QED
        BY <1>13, <3>0, <4>1 DEF Complete, children, history
    <3>2. IsFiniteSet(Bad) /\ Cardinality(Bad) \in 0..n
      <4>1. DOMAIN rows = 1..n /\ n \in Nat
        BY DEF SuiteTypes
      <4> HIDE DEF n
      <4>2. IsFiniteSet(1..n) /\ Cardinality(1..n) = n
        BY <4>1, FS_Interval
      <4>3. Bad \subseteq 1..n
        BY <4>1
      <4> HIDE DEF Bad
      <4>4. IsFiniteSet(Bad) /\ Cardinality(Bad) <= n
        BY <4>2, <4>3, FS_Subset
      <4> QED
        BY <4>1, <4>4, FS_CardinalityType
    <3>3. n <= Planned /\ Planned' = Planned /\ n \in Nat /\ Planned \in Nat
      BY <3>1 DEF RowsInv, Planned, SuiteTypes
    <3>4. (counts \in [children : 0..Planned, failed : 0..Planned, recorded : BOOLEAN])'
      <4> HIDE DEF Bad, n
      <4>1. n \in 0..Planned' /\ Cardinality(Bad) \in 0..Planned'
        BY <3>2, <3>3
      <4> QED
        BY <3>1, <4>1
    <3>5. CountsMatchRows'
      BY <3>1 DEF CountsMatchRows
    <3>6. OkSuiteMeansAllRan'
      <4>1. SUFFICES ASSUME status' = "ok"
                     PROVE  /\ rows = [i \in 1..Planned |-> "ok"]
                            /\ {"system_before", "preflight"} \subseteq claimed
                            /\ target # NoTarget => verified
        BY <3>1, <3>3 DEF OkSuiteMeansAllRan
      <4>2. ~child_failure /\ Cardinality(Bad) = 0
        BY <3>1, <4>1
      <4>3. Bad = {}
        BY <3>2, <4>2, FS_EmptySet
      <4>4. Smooth /\ pc = "merge"
        BY <1>13, <4>2 DEF Complete, RowsInv, Smooth
      <4>5. n = Planned
        BY <4>4 DEF RowsInv
      <4>6. rows = [i \in 1..Planned |-> "ok"]
        <5>1. rows = [i \in 1..n |-> rows[i]]
          BY DEF SuiteTypes
        <5>2. \A i \in 1..n : rows[i] = "ok"
          BY <4>3, <5>1
        <5> QED
          BY <4>5, <5>1, <5>2
      <4> QED
        BY <4>4, <4>6 DEF ClaimsInv, TargetInv
    <3> HIDE DEF Bad, n
    <3> QED
      BY <3>1, <3>3, <3>4, <3>5, <3>6 DEF RowsInv, Smooth, InTry, InFinally, Early, Resolving
  <2>3. TargetInv'
    BY <1>13 DEF Complete, children, suite, history, SuiteTypes, RowsInv, TargetInv, RunsOnlyOnVerifiedTarget, NotCaptured, InTry, InFinally, Smooth, Early, Resolving, Working
  <2>4. ClaimsInv'
    BY <1>13 DEF Complete, children, suite, history, SuiteTypes, RowsInv, TargetInv, ClaimsInv, HostKnown, EvidenceComplete, EvidenceKept, InTry, InFinally, Smooth, Early, Resolving, Working
  <2> QED
    BY <2>1, <2>2, <2>3, <2>4
<1>14. CASE Exit
  <2>1. SuiteTypes'
    BY <1>14 DEF Exit, children, suite, history, SuiteTypes, Roles, NotCaptured, InTry, InFinally, Smooth, Early, Resolving, Working
  <2>2. RowsInv'
    BY <1>14 DEF Exit, children, suite, history, SuiteTypes, RowsInv, Planned, OkSuiteMeansAllRan, CountsMatchRows, InTry, InFinally, Smooth, Early, Resolving, Working
  <2>3. TargetInv'
    BY <1>14 DEF Exit, children, suite, history, SuiteTypes, RowsInv, TargetInv, RunsOnlyOnVerifiedTarget, NotCaptured, InTry, InFinally, Smooth, Early, Resolving, Working
  <2>4. ClaimsInv'
    BY <1>14 DEF Exit, children, suite, history, SuiteTypes, RowsInv, TargetInv, ClaimsInv, HostKnown, EvidenceComplete, EvidenceKept, InTry, InFinally, Smooth, Early, Resolving, Working
  <2> QED
    BY <2>1, <2>2, <2>3, <2>4
<1> QED
  BY <1>1, <1>2, <1>3, <1>4, <1>5, <1>6, <1>7, <1>8, <1>9, <1>10, <1>11, <1>12, <1>13, <1>14 DEF Step

-----------------------------------------------------------------------------
(* Its steps together with those of the probe and of the discovery.          *)

LEMMA SuiteStutters ==
    ASSUME SuiteInv, UNCHANGED suiteVars
    PROVE  SuiteInv'
<1> USE DEF suiteVars, children, suite, history, SuiteInv, InTry, InFinally, Smooth
<1>1. SuiteTypes'
  BY DEF SuiteTypes
<1>2. RowsInv'
  BY DEF RowsInv, Planned, OkSuiteMeansAllRan, CountsMatchRows
<1>3. TargetInv'
  BY DEF TargetInv, RunsOnlyOnVerifiedTarget
<1>4. ClaimsInv'
  BY DEF ClaimsInv, HostKnown, EvidenceComplete, EvidenceKept
<1> QED
  BY <1>1, <1>2, <1>3, <1>4

LEMMA CaptureKeeps ==
    ASSUME SuiteInv, CaptureHost
    PROVE  SuiteInv'
<1> USE DEF SuiteInv
<1>1. /\ pc = "inspect" /\ pc' = "discover"
      /\ UNCHANGED <<target, plan, exc, host, resolved, claimed, rows, returned, child_failure,
                     status, counts, broken>>
      /\ seen_host' = captured'.host
  BY DEF CaptureHost, children, suite
<1>2. PICK answer \in HostAnswers :
        captured' = Captured(target, answer) /\ verified' = RightHost(target, answer)
  BY DEF CaptureHost
<1>3. target # NoTarget /\ target \in Specs /\ rows = <<>>
  BY <1>1 DEF TargetInv, RowsInv, SuiteTypes, Early
<1>4. SuiteTypes'
  <2>1. captured' \in [host : BOOLEAN, raises : BOOLEAN, fatal : BOOLEAN, ready : BOOLEAN]
    BY <1>2 DEF Captured, HostIsFatal
  <2>2. verified' \in BOOLEAN
    BY <1>2 DEF RightHost
  <2> QED
    BY <1>1, <2>1, <2>2 DEF SuiteTypes, Early
<1>5. RowsInv'
  BY <1>1 DEF SuiteTypes, RowsInv, Planned, OkSuiteMeansAllRan, CountsMatchRows, Smooth, InTry, InFinally,
              Early, Resolving
<1>6. TargetInv'
  <2>1. (captured.ready /\ ~captured.fatal /\ ~captured.raises)' => verified'
    BY <1>2, <1>3, ReadyHostIsRight
  <2> QED
    BY <1>1, <1>3, <2>1 DEF TargetInv, RunsOnlyOnVerifiedTarget, InFinally, Resolving, Working
<1>7. ClaimsInv'
  BY <1>1 DEF RowsInv, ClaimsInv, HostKnown, EvidenceComplete, EvidenceKept, InTry, InFinally, Early, Resolving, Working
<1> QED
  BY <1>4, <1>5, <1>6, <1>7

LEMMA InspectionKeeps ==
    ASSUME SuiteInv, DiscoveryInv, InspectTarget
    PROVE  SuiteInv'
<1> DEFINE inspection == Inspect(target, captured, asking, found, TRUE)
<1> USE DEF SuiteInv
<1>1. /\ pc = "discover" /\ captured' = NotCaptured
      /\ host' = inspection.host /\ seen_host' = seen_host
      /\ verified' = (verified /\ Asks /\ RightService(target, server))
      /\ UNCHANGED <<target, plan, rows, returned, child_failure, status, counts, broken>>
  BY DEF InspectTarget, children, suite
<1>2. \/ /\ claimed' = claimed \cup {"target_discovery", "server_before"}
         /\ resolved' = inspection.resolved
         /\ IF resolved' THEN pc' = "validate" /\ exc' = exc ELSE exc' = "error" /\ pc' = "server_after"
      \/ /\ exc' \in {"error", "interrupt"} /\ resolved' = FALSE /\ pc' = "server_after"
         /\ \E role \in SUBSET {"target_discovery"} : claimed' = claimed \cup role
  BY DEF InspectTarget, Raise, Disturbances
<1>3. target # NoTarget /\ target \in Specs /\ rows = <<>>
  BY <1>1 DEF TargetInv, RowsInv, SuiteTypes, Early
<1>4. pc' = "validate" => resolved' /\ verified'
  <2>1. SUFFICES ASSUME pc' = "validate"
                 PROVE  resolved' /\ verified'
    OBVIOUS
  <2>2. inspection.resolved /\ resolved'
    BY <1>2, <2>1
  <2>3. /\ captured.ready /\ ~captured.fatal /\ ~captured.raises
        /\ RightService(target, server)
    BY <1>3, <2>2, ResolvedServiceIsRight
  <2>4. verified /\ Asks
    BY <1>1, <2>3 DEF TargetInv, Asks
  <2> QED
    BY <1>1, <2>2, <2>3, <2>4
<1>5. /\ host' = captured.host /\ captured.host \in BOOLEAN /\ seen_host' = host'
      /\ inspection.resolved \in BOOLEAN
  BY <1>1 DEF Inspect, SuiteTypes, ClaimsInv
<1>6. claimed' \subseteq {"system_before", "target_discovery", "server_before"} /\ "system_before" \in claimed'
  BY <1>1, <1>2 DEF ClaimsInv, InTry, Early
<1>7. pc' \in {"validate", "server_after"} /\ (pc' = "validate" => exc' = exc)
      /\ (pc' = "server_after" => exc' \in {"error", "interrupt"})
  BY <1>2
<1> HIDE DEF inspection
<1>8. SuiteTypes'
  <2>1. verified' \in BOOLEAN
    BY <1>1 DEF RightService
  <2>2. claimed' \subseteq Roles
    BY <1>6 DEF Roles
  <2>3. resolved' \in BOOLEAN /\ captured' \in [host : BOOLEAN, raises : BOOLEAN, fatal : BOOLEAN, ready : BOOLEAN]
    BY <1>1, <1>2, <1>5 DEF NotCaptured
  <2>4. exc' \in {"none", "error", "interrupt"}
    BY <1>7 DEF SuiteTypes
  <2> QED
    BY <1>1, <1>5, <1>7, <2>1, <2>2, <2>3, <2>4 DEF SuiteTypes, Resolving
<1>9. RowsInv'
  BY <1>1, <1>3, <1>7 DEF SuiteTypes, RowsInv, Planned, OkSuiteMeansAllRan, CountsMatchRows, Smooth, InTry,
                          InFinally, Early, Resolving
<1>10. TargetInv'
  BY <1>1, <1>3, <1>4, <1>7 DEF TargetInv, RunsOnlyOnVerifiedTarget, InFinally, Smooth, Resolving, Working
<1>11. ClaimsInv'
  BY <1>1, <1>3, <1>4, <1>5, <1>6, <1>7
  DEF RowsInv, ClaimsInv, HostKnown, EvidenceComplete, EvidenceKept, InTry, InFinally, Smooth, Early, Resolving, Working
<1> QED
  BY <1>8, <1>9, <1>10, <1>11

LEMMA DisturbanceKeeps ==
    ASSUME SuiteInv, NEW kind \in {"error", "interrupt"}, Disturbed(kind),
           kind = "interrupt" \/ pc \notin {"inspect", "discover"}
    PROVE  SuiteInv'
<1> USE DEF SuiteInv
<1>1. /\ exc' = kind /\ captured' = NotCaptured
      /\ UNCHANGED <<target, plan, host, resolved, claimed, rows, returned, child_failure, status, counts,
                     seen_host, verified>>
  BY DEF Disturbed, children, suite
<1>2. \/ InTry /\ pc' = "server_after" /\ broken' = broken
      \/ InFinally /\ pc' = "exit" /\ broken' = TRUE
      \/ pc = "merge" /\ pc' = "exit" /\ broken' = broken
  BY DEF Disturbed
<1>3. SuiteTypes'
  <2>1. pc' \in {"server_after", "exit"} /\ broken' \in BOOLEAN /\ exc' \in {"none", "error", "interrupt"}
    BY <1>1, <1>2 DEF SuiteTypes
  <2>2. captured' \in [host : BOOLEAN, raises : BOOLEAN, fatal : BOOLEAN, ready : BOOLEAN]
    BY <1>1 DEF NotCaptured
  <2> QED
    BY <1>1, <2>1, <2>2 DEF SuiteTypes
<1>4. RowsInv'
  BY <1>1, <1>2 DEF SuiteTypes, RowsInv, Planned, OkSuiteMeansAllRan, CountsMatchRows, Smooth, InTry, InFinally,
                    Early, Resolving
<1>5. TargetInv'
  BY <1>1, <1>2 DEF TargetInv, RunsOnlyOnVerifiedTarget, InFinally, Smooth, Resolving, Working
<1>6. ClaimsInv'
  BY <1>1, <1>2 DEF RowsInv, ClaimsInv, HostKnown, EvidenceComplete, EvidenceKept, InTry, InFinally, Smooth, Early, Resolving,
                    Working
<1> QED
  BY <1>3, <1>4, <1>5, <1>6

LEMMA CrashKeeps ==
    ASSUME SuiteInv, Crash
    PROVE  SuiteInv'
<1> USE DEF SuiteInv
<1>1. /\ pc \notin {"begin", "done"} /\ pc' = "done"
      /\ UNCHANGED <<target, plan, exc, captured, host, resolved, claimed, rows, returned, child_failure,
                     status, counts, seen_host, verified, broken>>
  BY DEF Crash, children, suite, history
<1>2. SuiteTypes'
  BY <1>1 DEF SuiteTypes
<1>3. RowsInv'
  BY <1>1 DEF RowsInv, Planned, OkSuiteMeansAllRan, CountsMatchRows, Smooth, InTry, InFinally, Early, Resolving
<1>4. TargetInv'
  BY <1>1 DEF TargetInv, RunsOnlyOnVerifiedTarget, InFinally, Resolving, Working
<1>5. ClaimsInv'
  BY <1>1 DEF RowsInv, ClaimsInv, HostKnown, EvidenceComplete, EvidenceKept, InTry, InFinally, Early, Resolving, Working
<1> QED
  BY <1>2, <1>3, <1>4, <1>5

LEMMA SuiteStarts ==
    ASSUME Init
    PROVE  IInv
<1>1. /\ pc = "begin" /\ exc = "none" /\ child_failure = FALSE /\ captured = NotCaptured /\ host = FALSE
      /\ resolved = FALSE /\ claimed = {} /\ rows = <<>> /\ returned = <<>> /\ status = "absent"
      /\ counts = NoCounts /\ seen_host = FALSE /\ verified = FALSE /\ broken = FALSE
      /\ \E config \in Configs : target = config[1] /\ plan = config[2]
      /\ ProbeInit /\ DiscoveryInit
  BY DEF Init
<1>2. /\ target \in Specs \cup {NoTarget} /\ plan \in [quality : BOOLEAN, trials : Nat]
      /\ <<target, plan>> \in Configs
  <2>1. PICK config \in Configs : target = config[1] /\ plan = config[2]
    BY <1>1
  <2>2. config \in (Specs \cup {NoTarget}) \X [quality : BOOLEAN, trials : Nat]
    BY SuiteAssumption
  <2>3. config = <<config[1], config[2]>>
    BY <2>2
  <2> QED
    BY <2>1, <2>2, <2>3
<1>3. rows \in Seq({"running", "ok", "failed"}) /\ Len(rows) = 0
  BY <1>1, EmptySeq
<1>4. SuiteTypes
  BY <1>1, <1>2, <1>3 DEF SuiteTypes, NotCaptured, Early
<1>5. RowsInv
  <2>1. /\ Planned \in Nat /\ Len(returned) <= Len(rows) /\ Len(rows) <= Planned
        /\ returned \in Seq({"running", "ok", "failed"})
    BY <1>1, <1>2, <1>3 DEF Planned
  <2>2. counts \in [children : 0..Planned, failed : 0..Planned, recorded : BOOLEAN] /\ ~counts.recorded
    BY <1>1, <2>1 DEF NoCounts
  <2> QED
    BY <1>1, <2>1, <2>2 DEF RowsInv, OkSuiteMeansAllRan, CountsMatchRows, Smooth, InFinally
<1>6. TargetInv
  BY <1>1 DEF TargetInv, RunsOnlyOnVerifiedTarget, InFinally, Resolving, Working
<1>7. ClaimsInv
  BY <1>1 DEF ClaimsInv, HostKnown, EvidenceComplete, EvidenceKept, InTry, InFinally, Early, Resolving, Working
<1> QED
  BY <1>1, <1>4, <1>5, <1>6, <1>7, ProbeStarts, DiscoveryStarts DEF IInv, SuiteInv

LEMMA InvariantHolds ==
    ASSUME IInv, [Next]_vars
    PROVE  IInv'
<1> USE DEF IInv
<1>1. CASE Step /\ UNCHANGED <<probe, discovery>>
  BY <1>1, SuiteSteps, ProbeStutters, DiscoveryStutters
<1>2. CASE ProbeHost
  BY <1>2, SuiteStutters, ProbeSteps, DiscoveryStutters DEF ProbeHost
<1>3. CASE CaptureHost
  <2>1. ProbeTaken /\ UNCHANGED discovery
    BY <1>3 DEF CaptureHost
  <2> QED
    BY <1>3, <2>1, CaptureKeeps, ProbeIsTaken, DiscoveryStutters
<1>4. CASE DiscoverService
  <2>1. DiscoveryNext(target.server_info) /\ UNCHANGED suiteVars /\ UNCHANGED probe
    BY <1>4 DEF DiscoverService
  <2>2. DiscoveryInv'
    BY <2>1, DiscoverySteps
  <2> QED
    BY <2>1, <2>2, SuiteStutters, ProbeStutters
<1>5. CASE InspectTarget
  <2>1. DiscoveryTaken /\ UNCHANGED probe
    BY <1>5 DEF InspectTarget
  <2> QED
    BY <1>5, <2>1, InspectionKeeps, ProbeStutters, DiscoveryIsTaken
<1>6. CASE Interrupt
  BY <1>6, DisturbanceKeeps, ProbeIsTaken, DiscoveryIsTaken DEF Interrupt
<1>7. CASE ArtifactFails
  BY <1>7, DisturbanceKeeps, ProbeStutters, DiscoveryStutters DEF ArtifactFails
<1>8. CASE Crash
  <2>1. ProbeTaken /\ DiscoveryTaken
    BY <1>8 DEF Crash
  <2> QED
    BY <1>8, <2>1, CrashKeeps, ProbeIsTaken, DiscoveryIsTaken
<1>9. CASE UNCHANGED vars
  BY <1>9, SuiteStutters, ProbeStutters, DiscoveryStutters DEF vars
<1> QED
  BY <1>1, <1>2, <1>3, <1>4, <1>5, <1>6, <1>7, <1>8, <1>9 DEF Next

\* The inductive invariant, from which the other theorems follow.
THEOREM InvariantAlways == Spec => []IInv
<1> QED
  BY SuiteStarts, InvariantHolds, PTL DEF Spec

-----------------------------------------------------------------------------
(* The theorems.                                                             *)

LEMMA FourRequests == Cardinality(Requests) = 4
<1>1. IsFiniteSet({"health"}) /\ Cardinality({"health"}) = 1
  BY FS_Singleton
<1>2. IsFiniteSet({"health", "version"}) /\ Cardinality({"health", "version"}) = 2
  <2>1. {"health", "version"} = {"health"} \cup {"version"} /\ "version" \notin {"health"}
    OBVIOUS
  <2> QED
    BY <1>1, <2>1, FS_AddElement
<1>3. IsFiniteSet({"health", "version", "models"}) /\ Cardinality({"health", "version", "models"}) = 3
  <2>1. /\ {"health", "version", "models"} = {"health", "version"} \cup {"models"}
        /\ "models" \notin {"health", "version"}
    OBVIOUS
  <2> QED
    BY <1>2, <2>1, FS_AddElement
<1>4. /\ Requests = {"health", "version", "models"} \cup {"server_info"}
      /\ "server_info" \notin {"health", "version", "models"}
  BY DEF Requests
<1> QED
  BY <1>3, <1>4, FS_AddElement

\* The state of the suite, of its probe and of its discovery keeps its types, for
\* any suites, machines, servers and limits: rows and counts never exceed the plan,
\* and no discovery uses more clients than it makes requests.
THEOREM SuiteTypeCorrect == Spec => []TypeOK
<1>1. IInv => TypeOK
  <2> SUFFICES ASSUME IInv PROVE TypeOK
    OBVIOUS
  <2> USE DEF IInv, SuiteInv, DiscoveryInv
  <2>1. DiscoveryTypeOK
    <3>1. Discovering => asking \in Requests
      BY DEF DiscoveryTypes, Discovering, DiscoveryIdle, DiscoveryOver, Ends
    <3>2. client \in 1..Cardinality(Requests) /\ closed \subseteq 1..client
      BY FourRequests DEF ClientInv
    <3>3. waiting \cup firing \subseteq Requests \X (1..client)
      <4>1. waiting \cup firing # {} => Timer \in Requests \X (1..client)
        BY <3>1 DEF TimersInv, ClientInv, Timer
      <4> QED
        BY <4>1 DEF TimersInv
    <3> QED
      BY <3>1, <3>2, <3>3 DEF DiscoveryTypeOK, DiscoveryTypes, FoundInv
  <2>2. ProbeTypeOK
    BY DEF ProbeInv
  <2>3. InTry \/ InFinally \/ pc \in {"begin", "merge", "exit", "done"}
    BY DEF SuiteTypes, InTry, InFinally, Early, Resolving, Working
  <2> QED
    BY <2>1, <2>2, <2>3 DEF TypeOK, SuiteTypes, RowsInv
<1> QED
  BY <1>1, InvariantAlways, PTL

\* suite.py, execute: a suite recorded as ok has carried out every step it enables
\* to the end, on a target that was verified.
THEOREM OkSuitesRanEverything == Spec => []OkSuiteMeansAllRan
<1>1. IInv => OkSuiteMeansAllRan
  BY DEF IInv, SuiteInv, RowsInv
<1> QED
  BY <1>1, InvariantAlways, PTL

\* _merge_linked_children: whatever the steps returned and whatever else the store
\* holds, the counts a suite records are those of the rows under it.
THEOREM CountsAlwaysMatchRows == Spec => []CountsMatchRows
<1>1. IInv => CountsMatchRows
  BY DEF IInv, SuiteInv, RowsInv
<1> QED
  BY <1>1, InvariantAlways, PTL

\* The finally-block of execute: the evidence taken before has its counterpart taken
\* after, however the suite ends, unless the block itself is cut short or Ctrl-C
\* comes while the service is asked.
THEOREM EvidenceIsKept == Spec => []EvidenceKept
<1>1. IInv => EvidenceKept
  BY DEF IInv, SuiteInv, ClaimsInv
<1> QED
  BY <1>1, InvariantAlways, PTL

\* TargetResolver.inspect: a benchmark is only started on the
\* host that was pinned and the service that was asked for.
THEOREM BenchmarksRunOnTheirTarget == Spec => []RunsOnlyOnVerifiedTarget
<1>1. IInv => RunsOnlyOnVerifiedTarget
  BY DEF IInv, SuiteInv, TargetInv
<1> QED
  BY <1>1, InvariantAlways, PTL

\* _get_bounded_response: a request whose client is closed under it is late itself and
\* ends as a timeout or with the RuntimeError of a closed client, and no timer of an
\* earlier request is left to close it.
THEOREM DeadlinesCutAsTimeouts == Spec => []DeadlinesAreTimeouts
<1>1. IInv => DeadlinesAreTimeouts
  BY DEF IInv, DiscoveryInv, CutInv
<1> QED
  BY <1>1, InvariantAlways, PTL

\* ssh.py, _terminate_process_group: what ProbeEnds says of a probe that was given up
\* is always so, not only in the end: none of its group is left when the call is over,
\* whatever forked while the group was being ended.
THEOREM GivenUpProbeIsGone ==
    Spec => [](ProbeOver /\ reason \in {"timeout", "excess", "interrupt"} => Members = {})
<1>1. IInv => (ProbeOver /\ reason \in {"timeout", "excess", "interrupt"} => Members = {})
  BY DEF IInv, ProbeInv
<1> QED
  BY <1>1, InvariantAlways, PTL
=============================================================================
