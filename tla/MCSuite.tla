------------------------------- MODULE MCSuite -------------------------------
(***************************************************************************)
(* A suite with a fixed endpoint or a target of any kind, and one of three *)
(* plans.  Two machines of one make and one name, of which one is looked   *)
(* at with and without its identifiers and after a new installation, and a *)
(* Mac; ssh with one helper.                                               *)
(***************************************************************************)
EXTENDS Suite

CONSTANTS EarlierSuite, EarlierChild

\* A suite that ran before, with a child that failed.
MCEarlier ==
    [id \in {EarlierSuite, EarlierChild} |->
        [parent |-> IF id = EarlierSuite THEN NoParent ELSE EarlierSuite, status |-> "failed"]]

Spark == [system |-> "Linux", machine_ids |-> <<"i1">>, uuids |-> <<"u1">>, hostname |-> "dgx",
          hardware |-> "spark", machine |-> "one"]
OtherSpark == [Spark EXCEPT !.machine_ids = <<"i2">>, !.uuids = <<"u2">>, !.machine = "two"]
Unreadable(facts) == [facts EXCEPT !.uuids = <<None>>]
Anonymous(facts) == [facts EXCEPT !.machine_ids = <<"placeholder", None>>, !.uuids = <<None>>]

MCSightings ==
    {Spark, Unreadable(Spark), Anonymous(Spark), [Spark EXCEPT !.machine_ids = <<None, "i3">>],
     [Spark EXCEPT !.machine_ids = <<>>], OtherSpark, Anonymous(OtherSpark),
     [Spark EXCEPT !.system = "Darwin", !.machine_ids = <<"p">>, !.uuids = <<>>, !.machine = "mac"]}

\* The hardware, the installation, its old pin, the name, and the Mac.
MCPins ==
    {HardwareIdentity(Spark), <<"machine_identifier", "Linux", "i1">>, <<"machine_id", "Linux", "i1">>,
     CurrentHostIdentity(Anonymous(Spark)).fingerprint, <<"machine_identifier", "Darwin", "p">>}

\* The selection and the server information are varied without a pin.
MCTargets ==
    {NoTarget} \cup
    {spec \in Specs :
        /\ Pinned(spec) \/ spec.metrics => spec.selection = "explicit" /\ spec.server_info = "optional"
        /\ spec.server_info # "off" \/ spec.selection = "explicit"
        /\ Pinned(spec) => ~spec.metrics}

\* A server as it should be, one without server information, one that serves too
\* many, one that serves another model, one that serves none, and one that fails.
MCServers ==
    {[healthy |-> TRUE, served |-> {Wanted}, info |-> info] : info \in BOOLEAN}
    \cup [healthy : {TRUE}, served : {Models, {"other"}, {}}, info : {TRUE}]
    \cup {[healthy |-> FALSE, served |-> {Wanted}, info |-> TRUE]}

AllSteps == [quality |-> TRUE, trials |-> 2]
MCConfigs ==
    (MCTargets \X {AllSteps})
    \cup ({NoTarget} \X {[quality |-> TRUE, trials |-> 0], [quality |-> FALSE, trials |-> 2]})
=============================================================================
