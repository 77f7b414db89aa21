-------------------------- MODULE HttpRequestProofs --------------------------
(***************************************************************************)
(* What HttpRequest promises for every trial, resolver, number of requests *)
(* and deadline: where requests go, that nothing is cut early, that an ok  *)
(* result was read to its end, and what the metrics of a run say.          *)
(***************************************************************************)
EXTENDS HttpRequest, SequenceTheorems, WellFoundedInduction, TLAPS

-----------------------------------------------------------------------------
(* Routes                                                                    *)

\* A set of naturals has a least element.
LEMMA LeastExists ==
    ASSUME NEW S, S \subseteq Nat, S # {}
    PROVE  \E i \in S : \A j \in S : i <= j
<1>1. PICK i \in S : \A j \in S : <<j, i>> \notin OpToRel(<, Nat)
    BY NatLessThanWellFounded, WFMin, Zenon
<1>2. \A j \in S : ~(j < i)
    BY <1>1, Zenon DEF OpToRel
<1> QED
    BY <1>2

\* The address a route prefers is one of the answers that are addresses.
LEMMA PreferredIsUsable ==
    ASSUME NEW found \in Seq(Addresses), Usable(found) # {}
    PROVE  \E i \in Usable(found) : Preferred(found) = found[i]
<1> DEFINE v4 == {i \in Usable(found) : Normalized(found[i]).family = 4}
           best == IF v4 # {} THEN v4 ELSE Usable(found)
<1>1. best \subseteq Usable(found) /\ best # {}
    OBVIOUS
<1>2. Usable(found) \subseteq Nat
    BY DEF Usable
<1>3. \E i \in best : \A j \in best : i <= j
    BY <1>1, <1>2, LeastExists
<1>4. Preferred(found) = found[CHOOSE i \in best : \A j \in best : i <= j]
    BY DEF Preferred
<1> HIDE DEF best
<1> QED
    BY <1>1, <1>3, <1>4

\* What a route that may be used guarantees about a URL: it leads to the URL's
\* host itself when that is an explicit loopback, and else to a fixed address
\* that is not this machine's.
Leads(r, u) ==
    /\ r.raises = "no"
    /\ r.pinned \/ ExplicitLoopback(u.host)
    /\ r.connect # NoAddress \/ ExplicitLoopback(u.host)
    /\ ~ClientLocal(r.connect)

\* The fields of the two kinds of routes
LEMMA DirectFields == \A o : Direct(o).connect = NoAddress
    BY DEF Direct
LEMMA PinnedFields ==
    ASSUME NEW r, NEW o, NEW c,
           r = [raises |-> "no", origin |-> o, pinned |-> TRUE, connect |-> c]
    PROVE  r.pinned /\ r.connect = c
    OBVIOUS

\* A look-up that must succeed gives such a route or raises, whatever the
\* resolver answers (resolve_request_route with require_resolution).
LEMMA ResolvedRouteLeads ==
    ASSUME NEW u, NEW a, a.addresses \in Seq(Addresses), NEW reject \in BOOLEAN,
           ResolveRoute(u, a, TRUE, reject).raises = "no"
    PROVE  Leads(ResolveRoute(u, a, TRUE, reject), u)
<1> DEFINE found == a.addresses
<1> SUFFICES ASSUME NEW r, r = ResolveRoute(u, a, TRUE, reject), r.raises = "no"
             PROVE  Leads(r, u)
    BY Zenon
<1>1. Raise("config").raises # "no" /\ Raise("resolution").raises # "no"
    BY DEF Raise
<1>2. CASE ExplicitLoopback(u.host)
    <2>1. r = Raise("config") \/ r = Direct(HttpOrigin(u))
        <3>1. CASE HttpOrigin(u).raises # "no" \/ ExplicitWildcard(u.host)
            BY <3>1 DEF ResolveRoute
        <3>2. CASE ~(HttpOrigin(u).raises # "no" \/ ExplicitWildcard(u.host))
            <4>1. CASE reject
                BY <3>2, <4>1, <1>2 DEF ResolveRoute
            <4>2. CASE ~reject
                BY <3>2, <4>2, <1>2 DEF ResolveRoute
            <4> QED
                BY <4>1, <4>2
        <3> QED
            BY <3>1, <3>2
    <2>2. r = Direct(HttpOrigin(u))
        BY <1>1, <2>1
    <2>3. ~ClientLocal(NoAddress)
        BY DEF ClientLocal, Normalized, NoAddress, Address
    <2>4. r.connect = NoAddress
        BY <2>2, DirectFields, Zenon
    <2> QED
        BY <2>3, <2>4, <1>2 DEF Leads
<1>3. CASE ~ExplicitLoopback(u.host)
    <2> DEFINE route_ == [raises |-> "no", origin |-> HttpOrigin(u), pinned |-> TRUE,
                          connect |-> Preferred(found)]
    <2>1. \/ r = Raise("config") \/ r = Raise("resolution")
          \/ /\ ~\E i \in Usable(found) : ~Acceptable(found[i], reject)
             /\ Usable(found) # {}
             /\ r = route_
        <3>1. CASE \/ HttpOrigin(u).raises # "no" \/ ExplicitWildcard(u.host)
                   \/ a.kind = "late"
            BY <3>1, <1>3 DEF ResolveRoute
        <3>2. CASE /\ ~(HttpOrigin(u).raises # "no" \/ ExplicitWildcard(u.host))
                   /\ a.kind # "late"
            <4>1. CASE a.kind = "error"
                BY <3>2, <4>1, <1>3 DEF ResolveRoute
            <4>2. CASE a.kind # "error"
                BY <3>2, <4>2, <1>3 DEF ResolveRoute
            <4> QED
                BY <4>1, <4>2
        <3> QED
            BY <3>1, <3>2
    <2>2. /\ \A i \in Usable(found) : Acceptable(found[i], reject)
          /\ Usable(found) # {}
          /\ r = route_
        BY <1>1, <2>1
    <2>3. PICK i \in Usable(found) : Preferred(found) = found[i]
        BY <2>2, PreferredIsUsable
    <2>4. ~ClientLocal(found[i]) /\ found[i] # NoAddress
        BY <2>2 DEF Acceptable, Usable, NoAddress, Address
    <2>5. r.pinned /\ r.connect = found[i]
        BY <2>2, <2>3, PinnedFields, Zenon
    <2> QED
        BY <2>4, <2>5 DEF Leads
<1> QED
    BY <1>2, <1>3

\* Closing such a client changes nothing else.
LEMMA ClosedClientFields ==
    ASSUME NEW c, NEW open, NEW r, NEW still, NEW d,
           c = [open |-> open, route |-> r, proxied |-> FALSE],
           d = [c EXCEPT !.open = still]
    PROVE  d = [open |-> still, route |-> r, proxied |-> FALSE]
    OBVIOUS

\* The client of such a route uses no proxy unless the trial was refused.
LEMMA NewClientIsDirect ==
    ASSUME NEW r, Leads(r, trial.url), ~ProxyRefused
    PROVE  NewClient(r) = [open |-> TRUE, route |-> r, proxied |-> FALSE]
<1>1. (PinnedTrustEnv(trial.url, trial.trustEnv, r.pinned, trial.environment)).trust = FALSE
    BY DEF Leads, ProxyRefused, PinnedTrustEnv
<1> QED
    BY <1>1 DEF NewClient

-----------------------------------------------------------------------------
(* The inductive invariant                                                   *)

\* Before the slot exists, and when the trial is over without one.
NoSlot == pc \in {"create", "stored"}

\* The slot's route leads to the target, and its client is made of it.
SlotInv ==
    ~NoSlot =>
        /\ ~ProxyRefused
        /\ Leads(route, trial.url)
        /\ client = [open |-> client.open, route |-> route, proxied |-> FALSE]

\* Everything on the wire went where the route leads.
WireInv ==
    /\ pc = "create" => wire = {}
    /\ wire # {} => Leads(route, trial.url)
    /\ \A w \in wire : w = <<route.connect, HttpOrigin(trial.url), FALSE>>

\* The watchdog holds at most one callback, that of the phase the request is in.
ArmedInv ==
    /\ pc \in {"sent", "answered"} => armed \subseteq {<<"header", request>>}
    /\ pc \in {"reading", "read"} => armed \subseteq {<<"body", request>>}
    /\ pc \notin {"sent", "answered", "reading", "read"} => armed = {}

\* What was closed was closed after the deadline.
CutInv ==
    /\ now \in Nat
    /\ pc \in {"idle", "over"} => client.open
    /\ ~client.open /\ ~NoSlot => Late
    /\ cut => Late

RequestInv ==
    /\ trial \in Trials
    /\ pc \in {"create", "idle", "hop", "sent", "answered", "arm", "reading", "read",
               "finish", "over", "stored"}
    /\ SlotInv /\ WireInv /\ ArmedInv /\ CutInv

-----------------------------------------------------------------------------
(* Results                                                                   *)

LEMMA FailedResultIsNotOk == \A t : (FailedResult(t)).ok = FALSE
    BY DEF FailedResult

\* What with_check_result leaves ok.
LEMMA CheckedIsComplete ==
    ASSUME NEW t, NEW v, NEW e, NEW i, NEW r,
           r = [ok |-> TRUE, check |-> "none", latency |-> now, ttft |-> t,
                visible |-> v, reasoning |-> e, itl |-> i],
           (Checked(r)).ok
    PROVE  /\ (Checked(r)).latency = now
           /\ ToSet(seen) \cap {"fragment", "text"} # {}
           /\ trial.expects => "fragment" \in ToSet(seen) /\ (Checked(r)).check = "passed"
<1> DEFINE visible == ToSet(seen) \cap {"fragment", "text"}
           fragment == "fragment" \in ToSet(seen)
<1>1. visible # {}
    BY DEF Checked
<1>2. ~(trial.expects /\ ~fragment)
    BY <1>1 DEF Checked
<1>3. Checked(r) = [r EXCEPT !.check = IF trial.expects THEN "passed" ELSE "none"]
    BY <1>1, <1>2 DEF Checked
<1> QED
    BY <1>1, <1>2, <1>3

LEMMA AcceptedIsComplete ==
    ASSUME Accepted.ok
    PROVE  /\ Accepted.latency = now /\ "garbage" \notin ToSet(seen)
           /\ ToSet(seen) \cap {"fragment", "text"} # {}
           /\ trial.expects => "fragment" \in ToSet(seen) /\ Accepted.check = "passed"
<1>1. "garbage" \notin ToSet(seen) /\ Accepted = Checked(Read)
    BY FailedResultIsNotOk DEF Accepted
<1> QED
    BY <1>1, CheckedIsComplete DEF Read

-----------------------------------------------------------------------------
(* The invariant is kept.                                                    *)

LEMMA InitEstablishes == Init => RequestInv
    BY DEF Init, RequestInv, SlotInv, NoSlot, WireInv, ArmedInv, CutInv, Late, Closed

\* A request that ends keeps it, wherever it is.
LEMMA EndKeeps ==
    ASSUME RequestInv, InFlight, CancelAll, pc' = "finish",
           UNCHANGED <<slot, request, now, cut, wire>>
    PROVE  RequestInv'
<1>1. /\ armed' = armed \ Mine /\ pc' = "finish"
      /\ UNCHANGED <<trial, route, client, request, now, cut, wire>>
    BY DEF CancelAll, slot
<1>2. armed' = {}
    BY <1>1 DEF RequestInv, ArmedInv, Mine, InFlight
<1> USE DEF RequestInv, InFlight
<1>4. SlotInv'
    BY <1>1 DEF SlotInv, NoSlot, ProxyRefused
<1>5. WireInv'
    BY <1>1 DEF WireInv
<1>6. ArmedInv'
    BY <1>1, <1>2 DEF ArmedInv
<1>7. CutInv'
    BY <1>1 DEF CutInv, NoSlot, Late
<1> QED
    BY <1>1, <1>4, <1>5, <1>6, <1>7

LEMMA FailKeeps ==
    ASSUME RequestInv, Fail, InFlight
    PROVE  RequestInv'
<1>1. CancelAll /\ pc' = "finish" /\ UNCHANGED <<slot, request, now, cut, wire>>
    BY DEF Fail, Return
<1> QED
    BY <1>1, EndKeeps

\* So does a step within a request that leaves alone what the invariant is about.
LEMMA InnerStepKeeps ==
    ASSUME RequestInv,
           \/ pc \in {"sent", "answered", "reading"} /\ pc' = pc
           \/ pc = "sent" /\ pc' = "answered"
           \/ pc = "reading" /\ pc' = "read"
           \/ pc = "answered" /\ pc' \in {"hop", "arm"} /\ armed' = {},
           UNCHANGED <<trial, route, client, request, now, cut, wire>>,
           armed' \subseteq armed
    PROVE  RequestInv'
<1> USE DEF RequestInv, NoSlot
<1>1. SlotInv'
    BY DEF SlotInv, ProxyRefused
<1>2. WireInv'
    BY DEF WireInv
<1>3. ArmedInv'
    BY DEF ArmedInv
<1>4. CutInv'
    BY DEF CutInv, Late
<1> QED
    BY <1>1, <1>2, <1>3, <1>4

\* The slot's route leads to the target or the trial stores a failure.
LEMMA CreatePoolKeeps == RequestInv /\ CreatePool => RequestInv'
<1> SUFFICES ASSUME RequestInv, CreatePool PROVE RequestInv'
    OBVIOUS
<1> USE DEF RequestInv
<1>1. /\ pc = "create" /\ wire = {} /\ armed = {}
      /\ UNCHANGED <<trial, request, now, cut, armed, wire>>
    BY DEF CreatePool, WireInv, ArmedInv, call
<1>2. CASE pc' = "stored"
    BY <1>1, <1>2 DEF SlotInv, NoSlot, WireInv, ArmedInv, CutInv, Late
<1>3. CASE pc' # "stored"
    <2>1. /\ ~ProxyRefused /\ pc' = "idle" /\ client' = NewClient(route')
          /\ route' \in TrialRoutes /\ route'.raises = "no"
        BY <1>3 DEF CreatePool
    <2>2. Leads(route', trial.url)
        <3>1. PICK a \in Answers, reject \in BOOLEAN :
                  route' = ResolveRoute(trial.url, a, TRUE, reject)
            BY <2>1, RequestAssumption DEF TrialRoutes
        <3> QED
            <4>1. a.addresses \in Seq(Addresses)
                BY RequestAssumption
            <4> QED
                BY <2>1, <3>1, <4>1, ResolvedRouteLeads, Zenon
    <2>3. client' = [open |-> TRUE, route |-> route', proxied |-> FALSE]
        BY <2>1, <2>2, NewClientIsDirect
    <2>4. SlotInv'
        BY <1>1, <2>1, <2>2, <2>3 DEF SlotInv, ProxyRefused
    <2>5. CutInv'
        BY <1>1, <2>1, <2>3 DEF CutInv, NoSlot, Late
    <2> QED
        BY <1>1, <2>1, <2>4, <2>5 DEF WireInv, ArmedInv
<1> QED
    BY <1>2, <1>3

\* A request ends its lease with an open client for the next one.
LEMMA GiveBackKeeps == RequestInv /\ GiveBack => RequestInv'
<1> SUFFICES ASSUME RequestInv, GiveBack PROVE RequestInv'
    OBVIOUS
<1> USE DEF RequestInv
<1>1. /\ pc = "finish" /\ pc' \in {"idle", "over"}
      /\ now' = 0 /\ cut' = FALSE
      /\ UNCHANGED <<trial, route, request, armed, wire>>
    BY DEF GiveBack, Fresh
<1>2. ~ProxyRefused /\ Leads(route, trial.url)
    BY <1>1 DEF SlotInv, NoSlot
<1>3. client' = [open |-> TRUE, route |-> route, proxied |-> FALSE]
    <2>1. CASE client.open /\ UNCHANGED client
        BY <1>1, <2>1 DEF SlotInv, NoSlot
    <2>2. CASE client' = NewClient(route)
        BY <1>2, <2>2, NewClientIsDirect
    <2> QED
        BY <2>1, <2>2 DEF GiveBack, Replacements
<1>4. SlotInv'
    BY <1>1, <1>2, <1>3 DEF SlotInv, ProxyRefused
<1>5. CutInv'
    BY <1>1, <1>3 DEF CutInv, NoSlot, Late
<1>6. WireInv' /\ ArmedInv'
    BY <1>1, <1>2 DEF WireInv, ArmedInv
<1> QED
    BY <1>1, <1>4, <1>5, <1>6

\* A hop sends a request to the origin it was configured for.
LEMMA HopKeeps == RequestInv /\ Hop => RequestInv'
<1> SUFFICES ASSUME RequestInv, Hop PROVE RequestInv'
    OBVIOUS
<1>1. CASE Fail
    BY <1>1, FailKeeps DEF Hop, InFlight
<1>2. CASE ~Fail
    <2> USE DEF RequestInv
    <2>1. /\ pc = "hop" /\ pc' = "sent" /\ ~Late
          /\ ValidRequestUrl(url, HttpOrigin(trial.url))
          /\ armed' = armed \cup {<<"header", request>>}
          /\ wire' = wire \cup {Sent(url)}
          /\ UNCHANGED <<trial, route, client, request, now, cut>>
        BY <1>2 DEF Hop, slot
    <2>2. Leads(route, trial.url)
          /\ client = [open |-> client.open, route |-> route, proxied |-> FALSE]
        BY <2>1 DEF SlotInv, NoSlot
    <2>3. Sent(url) = <<route.connect, HttpOrigin(trial.url), FALSE>>
        <3>1. HttpOrigin(url) = HttpOrigin(trial.url)
            BY <2>1 DEF ValidRequestUrl
        <3>2. client.route = route /\ client.proxied = FALSE
            BY <2>2
        <3> QED
            BY <3>1, <3>2 DEF Sent
    <2>4. WireInv'
        BY <2>1, <2>2, <2>3 DEF WireInv
    <2>5. SlotInv'
        BY <2>1 DEF SlotInv, NoSlot, ProxyRefused
    <2>6. ArmedInv'
        BY <2>1 DEF ArmedInv
    <2>7. CutInv'
        BY <2>1 DEF CutInv, NoSlot, Late
    <2> QED
        BY <2>1, <2>4, <2>5, <2>6, <2>7
<1> QED
    BY <1>1, <1>2

\* The body's end, and the result
LEMMA EndOfBodyKeeps == RequestInv /\ (EndOfBody \/ TakeResult) => RequestInv'
<1> SUFFICES ASSUME RequestInv, EndOfBody \/ TakeResult PROVE RequestInv'
    OBVIOUS
<1>1. InFlight /\ UNCHANGED <<slot, request, now, cut, wire>>
    BY DEF EndOfBody, TakeResult, Return, InFlight
<1>2. CASE CancelAll /\ pc' = "finish"
    BY <1>1, <1>2, EndKeeps
<1>3. CASE ~(CancelAll /\ pc' = "finish")
    <2>1. pc = "reading" /\ pc' = "read" /\ armed' = armed
        BY <1>3 DEF EndOfBody, TakeResult, Return
    <2>2. UNCHANGED <<trial, route, client>>
        BY <1>1 DEF slot
    <2> QED
        BY <1>1, <2>1, <2>2, InnerStepKeeps
<1> QED
    BY <1>2, <1>3

\* A fired callback closes something only after the deadline.
LEMMA FireKeeps == RequestInv /\ Fire => RequestInv'
<1> SUFFICES ASSUME RequestInv, Fire PROVE RequestInv'
    OBVIOUS
<1> USE DEF RequestInv
<1>1. PICK token \in armed :
          /\ token[2] = request => Late
          /\ armed' = armed \ {token}
          /\ client' = [client EXCEPT !.open = @ /\ token[1] # "header"]
          /\ cut' = (cut \/ token = <<"body", request>>)
    BY DEF Fire
<1>2. UNCHANGED <<trial, route, request, pc, now, wire>>
    BY DEF Fire
<1>3. pc \in {"sent", "answered", "reading", "read"} /\ Late
    BY <1>1 DEF ArmedInv
<1>4. client' = [open |-> client'.open, route |-> route, proxied |-> FALSE]
    <2> DEFINE still == client.open /\ token[1] # "header"
    <2>1. client' = [client EXCEPT !.open = still]
        BY <1>1
    <2>2. PICK open : client = [open |-> open, route |-> route, proxied |-> FALSE]
        BY <1>3 DEF SlotInv, NoSlot
    <2> HIDE DEF still
    <2>3. client' = [open |-> still, route |-> route, proxied |-> FALSE]
        BY <2>1, <2>2, ClosedClientFields
    <2> QED
        BY <2>3
<1>5. SlotInv'
    BY <1>2, <1>3, <1>4 DEF SlotInv, NoSlot, ProxyRefused
<1>6. ArmedInv'
    BY <1>1, <1>2 DEF ArmedInv
<1>7. CutInv'
    BY <1>2, <1>3 DEF CutInv, Late
<1>8. WireInv'
    BY <1>2, <1>3 DEF WireInv
<1> QED
    BY <1>2, <1>5, <1>6, <1>7, <1>8

\* The time of a request goes on.
LEMMA TickKeeps == RequestInv /\ Tick => RequestInv'
<1> SUFFICES ASSUME RequestInv, Tick PROVE RequestInv'
    OBVIOUS
<1> USE DEF RequestInv
<1>1. /\ InFlight /\ ~Late /\ now' = now + 1
      /\ UNCHANGED <<trial, route, client, request, pc, armed, cut, wire>>
    BY DEF Tick, slot
<1>2. SlotInv' /\ WireInv' /\ ArmedInv'
    BY <1>1 DEF SlotInv, NoSlot, ProxyRefused, WireInv, ArmedInv
<1>3. CutInv'
    BY <1>1 DEF CutInv, NoSlot, Late, InFlight
<1> QED
    BY <1>1, <1>2, <1>3

\* Redirects and the start of the body: a fresh deadline callback, or a failure.
LEMMA DispatchKeeps == RequestInv /\ Dispatch => RequestInv'
<1> SUFFICES ASSUME RequestInv, Dispatch PROVE RequestInv'
    OBVIOUS
<1>1. CASE Fail
    BY <1>1, FailKeeps DEF Dispatch, InFlight
<1>2. CASE ~Fail
    <2>1. /\ pc = "answered" /\ pc' \in {"hop", "arm"}
          /\ armed' = armed \ {<<"header", request>>}
          /\ UNCHANGED <<trial, route, client, request, now, cut, wire>>
        BY <1>2 DEF Dispatch, slot
    <2>2. armed' = {}
        BY <2>1 DEF RequestInv, ArmedInv
    <2> QED
        BY <2>1, <2>2, InnerStepKeeps
<1> QED
    BY <1>1, <1>2

LEMMA ArmBodyKeeps == RequestInv /\ ArmBody => RequestInv'
<1> SUFFICES ASSUME RequestInv, ArmBody PROVE RequestInv'
    OBVIOUS
<1>1. CASE Fail
    BY <1>1, FailKeeps DEF ArmBody, InFlight
<1>2. CASE ~Fail
    <2> USE DEF RequestInv
    <2>1. /\ pc = "arm" /\ pc' = "reading"
          /\ armed' = armed \cup {<<"body", request>>}
          /\ UNCHANGED <<trial, route, client, request, now, cut, wire>>
        BY <1>2 DEF ArmBody, slot
    <2>2. SlotInv' /\ WireInv'
        BY <2>1 DEF SlotInv, NoSlot, ProxyRefused, WireInv
    <2>3. ArmedInv'
        BY <2>1 DEF ArmedInv
    <2>4. CutInv'
        BY <2>1 DEF CutInv, NoSlot, Late
    <2> QED
        BY <2>1, <2>2, <2>3, <2>4
<1> QED
    BY <1>1, <1>2

\* What the server sends and how a wait for it ends
LEMMA ServerStepKeeps ==
    RequestInv /\ (ReceiveHeaders \/ StreamRaises \/ ReadChunk \/ ReadRaises) => RequestInv'
<1> SUFFICES ASSUME RequestInv,
                    ReceiveHeaders \/ StreamRaises \/ ReadChunk \/ ReadRaises
             PROVE  RequestInv'
    OBVIOUS
<1>1. CASE Fail
    <2>1. InFlight
        BY DEF ReceiveHeaders, StreamRaises, ReadChunk, ReadRaises, InFlight
    <2> QED
        BY <1>1, <2>1, FailKeeps
<1>2. CASE ~Fail /\ ReceiveHeaders
    <2>1. /\ pc = "sent" /\ pc' = "answered"
          /\ UNCHANGED <<trial, route, client, request, now, armed, cut, wire>>
        BY <1>2 DEF ReceiveHeaders, slot
    <2> QED
        BY <2>1, InnerStepKeeps
<1>3. CASE ~Fail /\ ReadChunk
    <2> USE DEF RequestInv
    <2>1. /\ pc = "reading" /\ pc' = pc /\ ~Late
          /\ now' \in {now, now + 1}
          /\ UNCHANGED <<trial, route, client, request, armed, cut, wire>>
        BY <1>3 DEF ReadChunk, slot
    <2>2. SlotInv' /\ WireInv' /\ ArmedInv'
        BY <2>1 DEF SlotInv, NoSlot, ProxyRefused, WireInv, ArmedInv
    <2>3. CutInv'
        BY <2>1 DEF CutInv, NoSlot
    <2> QED
        BY <2>1, <2>2, <2>3
<1> QED
    BY <1>1, <1>2, <1>3 DEF StreamRaises, ReadRaises

\* Between requests and after them
LEMMA OuterStepKeeps == RequestInv /\ (Start \/ Record \/ Reparse) => RequestInv'
<1> SUFFICES ASSUME RequestInv, Start \/ Record \/ Reparse PROVE RequestInv'
    OBVIOUS
<1> USE DEF RequestInv
<1>1. /\ \/ pc = "idle" /\ pc' = "hop"
         \/ pc \in {"over", "stored"} /\ pc' = "stored"
      /\ UNCHANGED <<trial, route, client, now, armed, cut, wire>>
    BY DEF Start, Record, Reparse, slot, call
<1>2. SlotInv'
    BY <1>1 DEF SlotInv, NoSlot, ProxyRefused
<1>3. WireInv' /\ ArmedInv'
    BY <1>1 DEF WireInv, ArmedInv
<1>4. CutInv'
    BY <1>1 DEF CutInv, NoSlot, Late
<1> QED
    BY <1>1, <1>2, <1>3, <1>4

LEMMA StutterKeeps == RequestInv /\ UNCHANGED vars => RequestInv'
<1> SUFFICES ASSUME RequestInv, UNCHANGED vars PROVE RequestInv'
    OBVIOUS
<1> USE DEF RequestInv
<1>1. UNCHANGED <<trial, route, client, request, pc, now, armed, cut, wire>>
    BY DEF vars, slot, call
<1>2. SlotInv'
    BY <1>1 DEF SlotInv, NoSlot, ProxyRefused
<1>3. WireInv' /\ ArmedInv'
    BY <1>1 DEF WireInv, ArmedInv
<1>4. CutInv'
    BY <1>1 DEF CutInv, NoSlot, Late
<1> QED
    BY <1>1, <1>2, <1>3, <1>4

LEMMA InvariantIsKept == RequestInv /\ [Next]_vars => RequestInv'
    BY CreatePoolKeeps, GiveBackKeeps, HopKeeps, EndOfBodyKeeps, FireKeeps, TickKeeps,
       DispatchKeeps, ArmBodyKeeps, ServerStepKeeps, OuterStepKeeps, StutterKeeps
       DEF Next, Worker

LEMMA InvariantAlways == Spec => []RequestInv
    BY InitEstablishes, InvariantIsKept, PTL DEF Spec

LEMMA WireFields ==
    ASSUME NEW x, NEW y, NEW w, w = <<x, y, FALSE>>
    PROVE  w[1] = x /\ w[2] = y /\ w[3] = FALSE
    OBVIOUS

-----------------------------------------------------------------------------
(* Recursive functions on intervals                                          *)

\* Induction along an interval, for a set of numbers.
LEMMA Upwards ==
    ASSUME NEW lo \in Nat, NEW n \in Nat, NEW Good, lo \in Good,
           \A m \in (lo + 1)..n : m - 1 \in Good => m \in Good
    PROVE  \A m \in lo..n : m \in Good
<1> DEFINE Bad == {m \in lo..n : m \notin Good}
<1>1. SUFFICES ASSUME Bad # {} PROVE FALSE
    OBVIOUS
<1>2. PICK m \in Bad : \A j \in Bad : m <= j
    <2>1. Bad \subseteq Nat
        OBVIOUS
    <2> HIDE DEF Bad
    <2> QED
        BY <1>1, <2>1, LeastExists
<1>3. m \in (lo + 1)..n /\ m - 1 \in lo..n /\ ~(m <= m - 1)
    BY <1>2
<1>4. m - 1 \in Good
    BY <1>2, <1>3
<1> QED
    BY <1>2, <1>3, <1>4

\* f is the function on lo..n that begins with base and makes each value by step
\* of the one before.
Recursion(f, lo, n, V, base, step) ==
    /\ f \in [lo..n -> V] /\ f[lo] = base
    /\ \A m \in (lo + 1)..n : f[m] = step[<<m, f[m - 1]>>]

LEMMA RecursionExists ==
    ASSUME NEW lo \in Nat, NEW n \in Nat, lo <= n, NEW V, NEW base \in V,
           NEW step \in [((lo + 1)..n) \X V -> V]
    PROVE  \E f : Recursion(f, lo, n, V, base, step)
<1> DEFINE Along(f, k) == /\ f \in [lo..k -> V] /\ f[lo] = base
                          /\ \A m \in (lo + 1)..k : f[m] = step[<<m, f[m - 1]>>]
           Good == {k \in lo..n : \E f : Along(f, k)}
<1>1. lo \in Good
    <2> DEFINE f == [m \in lo..lo |-> base]
    <2>1. Along(f, lo)
        OBVIOUS
    <2> HIDE DEF f, Along
    <2> QED
        BY <2>1
<1>2. ASSUME NEW k \in (lo + 1)..n, k - 1 \in Good
      PROVE  k \in Good
    <2>1. PICK f : Along(f, k - 1)
        BY <1>2
    <2>2. k \in lo..n /\ k - 1 \in lo..(k - 1) /\ k \notin lo..(k - 1)
        BY <1>2
    <2>3. step[<<k, f[k - 1]>>] \in V
        BY <2>1, <2>2
    <2> DEFINE g == [m \in lo..k |-> IF m = k THEN step[<<k, f[k - 1]>>] ELSE f[m]]
    <2>4. g \in [lo..k -> V]
        BY <2>1, <2>3
    <2>5. /\ g[k] = step[<<k, f[k - 1]>>]
          /\ \A m \in lo..(k - 1) : g[m] = f[m]
        BY <2>2
    <2>6. lo \in lo..(k - 1)
        BY <1>2
    <2> HIDE DEF g
    <2>7. g[lo] = base
        BY <2>1, <2>5, <2>6
    <2>8. ASSUME NEW m \in (lo + 1)..k PROVE g[m] = step[<<m, g[m - 1]>>]
        <3>1. m - 1 \in lo..(k - 1)
            BY <1>2
        <3>2. CASE m = k
            BY <2>5, <3>1, <3>2
        <3>3. CASE m # k
            <4>1. m \in (lo + 1)..(k - 1) /\ m \in lo..(k - 1)
                BY <3>3, <1>2
            <4> QED
                BY <2>1, <2>5, <3>1, <4>1
        <3> QED
            BY <3>2, <3>3
    <2>9. Along(g, k)
        BY <2>4, <2>7, <2>8
    <2> HIDE DEF Along
    <2> QED
        BY <2>2, <2>9
<1> HIDE DEF Along
<1>3. \A m \in lo..n : m \in Good
    <2>1. \A m \in (lo + 1)..n : m - 1 \in Good => m \in Good
        BY <1>2
    <2> HIDE DEF Good
    <2> QED
        BY <1>1, <2>1, Upwards
<1>4. PICK f : Along(f, n)
    BY <1>3
<1> QED
    BY <1>4 DEF Along, Recursion

-----------------------------------------------------------------------------
(* What is chosen of a sequence                                              *)

\* How many are chosen of each prefix, as the definition builds it up.
ChosenAlong(f, s, P) ==
    /\ f[0] = <<>>
    /\ \A m \in 1..Len(s) : f[m] = IF m \in P THEN Append(f[m - 1], s[m]) ELSE f[m - 1]

LEMMA ChosenRecursion ==
    ASSUME NEW S, NEW s \in Seq(S), NEW P
    PROVE  \E f \in [0..Len(s) -> Seq(S)] : ChosenAlong(f, s, P) /\ Chosen(s, P) = f[Len(s)]
<1> DEFINE n == Len(s)
           Built(f) == f = [m \in 0..n |->
                               IF m = 0 THEN <<>>
                               ELSE IF m \in P THEN Append(f[m - 1], s[m]) ELSE f[m - 1]]
           step == [w \in ((0 + 1)..n) \X Seq(S) |->
                       IF w[1] \in P THEN Append(w[2], s[w[1]]) ELSE w[2]]
<1>1. n \in Nat /\ 0 <= n /\ \A m \in 1..n : s[m] \in S
    OBVIOUS
<1>2. step \in [((0 + 1)..n) \X Seq(S) -> Seq(S)]
    <2>1. ASSUME NEW w \in ((0 + 1)..n) \X Seq(S)
          PROVE  (IF w[1] \in P THEN Append(w[2], s[w[1]]) ELSE w[2]) \in Seq(S)
        <3>1. s[w[1]] \in S /\ w[2] \in Seq(S)
            BY <1>1
        <3>2. Append(w[2], s[w[1]]) \in Seq(S)
            BY <3>1
        <3> QED
            BY <3>1, <3>2
    <2> QED
        BY <2>1
<1>3. PICK f \in [0..n -> Seq(S)] :
          f[0] = <<>> /\ \A m \in (0 + 1)..n : f[m] = step[<<m, f[m - 1]>>]
    <2> DEFINE base == <<>>
               V == Seq(S)
    <2>1. base \in V /\ 0 \in Nat
        OBVIOUS
    <2>2. step \in [((0 + 1)..n) \X V -> V]
        BY <1>2
    <2> HIDE DEF step, n, base, V
    <2>3. \E f : Recursion(f, 0, n, V, base, step)
        BY <1>1, <2>1, <2>2, RecursionExists
    <2> QED
        BY <2>3 DEF base, V, Recursion
<1>4. ASSUME NEW m \in 1..n
      PROVE  f[m] = IF m \in P THEN Append(f[m - 1], s[m]) ELSE f[m - 1]
    <2>1. f[m - 1] \in Seq(S) /\ m \in (0 + 1)..n
        BY <1>1, <1>3
    <2>2. <<m, f[m - 1]>> \in ((0 + 1)..n) \X Seq(S)
        BY <2>1
    <2>3. f[m] = step[<<m, f[m - 1]>>]
        BY <1>3, <2>1
    <2> QED
        BY <2>2, <2>3
<1>5. Built(f)
    <2>1. \A m \in 0..n : m # 0 => m \in 1..n
        BY <1>1
    <2>2. f = [m \in 0..n |-> f[m]]
        BY <1>3
    <2> QED
        BY <1>3, <1>4, <2>1, <2>2
<1> DEFINE c == CHOOSE g : Built(g)
<1>6. Built(c)
    BY <1>5
<1>7. Chosen(s, P) = c[n]
    BY DEF Chosen
<1> HIDE DEF c, step
<1>8. /\ c[0] = <<>>
      /\ \A m \in 1..n : c[m] = IF m \in P THEN Append(c[m - 1], s[m]) ELSE c[m - 1]
    <2>1. /\ 0 \in 0..n
          /\ \A m \in 1..n : m \in 0..n /\ m # 0
        BY <1>1
    <2> QED
        BY <1>6, <2>1
<1>9. c \in [0..n -> Seq(S)]
    <2> DEFINE Good == {m \in 0..n : c[m] \in Seq(S)}
    <2>1. 0 \in Good
        <3>1. <<>> \in Seq(S) /\ 0 \in 0..n
            BY <1>1
        <3> QED
            BY <1>8, <3>1
    <2>2. ASSUME NEW m \in (0 + 1)..n, m - 1 \in Good PROVE m \in Good
        <3>1. c[m - 1] \in Seq(S) /\ s[m] \in S /\ m \in 0..n /\ m \in 1..n
            BY <1>1, <2>2
        <3>2. Append(c[m - 1], s[m]) \in Seq(S)
            BY <3>1
        <3>3. c[m] \in Seq(S)
            BY <1>8, <3>1, <3>2
        <3> QED
            BY <3>1, <3>3
    <2>3. \A m \in 0..n : m \in Good
        <3> HIDE DEF Good
        <3> QED
            BY <1>1, <2>1, <2>2, Upwards
    <2>4. c = [m \in 0..n |-> c[m]]
        BY <1>6
    <2> QED
        BY <2>3, <2>4
<1> QED
    BY <1>7, <1>8, <1>9 DEF ChosenAlong

\* What is chosen is of the sequence.
LEMMA ChosenAreOfIt ==
    ASSUME NEW S, NEW s \in Seq(S), NEW P
    PROVE  /\ Chosen(s, P) \in Seq(S)
           /\ \A k \in 1..Len(Chosen(s, P)) : \E i \in 1..Len(s) : i \in P /\ Chosen(s, P)[k] = s[i]
<1> DEFINE n == Len(s)
<1>1. n \in Nat
    OBVIOUS
<1>2. PICK f \in [0..n -> Seq(S)] : ChosenAlong(f, s, P) /\ Chosen(s, P) = f[n]
    BY ChosenRecursion
<1> DEFINE Of(t) == \A k \in 1..Len(t) : \E i \in 1..n : i \in P /\ t[k] = s[i]
           Good == {m \in 0..n : Of(f[m])}
<1>3. 0 \in Good
    <2>1. f[0] = <<>>
        BY <1>2 DEF ChosenAlong
    <2> QED
        BY <1>1, <2>1
<1>4. ASSUME NEW m \in (0 + 1)..n, m - 1 \in Good PROVE m \in Good
    <2> DEFINE t == f[m - 1]
    <2>1. t \in Seq(S) /\ m \in 0..n /\ m \in 1..n /\ Of(t) /\ s[m] \in S
        BY <1>1, <1>2, <1>4
    <2>2. f[m] = IF m \in P THEN Append(t, s[m]) ELSE t
        BY <1>2, <2>1 DEF ChosenAlong
    <2> HIDE DEF t
    <2>3. CASE m \in P
        <3> DEFINE u == Append(t, s[m])
        <3>1. u \in Seq(S) /\ Len(u) = Len(t) + 1 /\ u[Len(t) + 1] = s[m] /\ Len(t) \in Nat
              /\ \A k \in 1..Len(t) : u[k] = t[k]
            BY <2>1
        <3> HIDE DEF u
        <3>2. ASSUME NEW k \in 1..Len(u) PROVE \E i \in 1..n : i \in P /\ u[k] = s[i]
            <4>1. CASE k = Len(t) + 1
                BY <2>1, <2>3, <3>1, <4>1
            <4>2. CASE k # Len(t) + 1
                <5>1. k \in 1..Len(t)
                    BY <3>1, <4>2
                <5>2. u[k] = t[k]
                    BY <3>1, <5>1
                <5> QED
                    BY <2>1, <5>1, <5>2
            <4> QED
                BY <4>1, <4>2
        <3> QED
            BY <2>1, <2>2, <2>3, <3>2 DEF u
    <2>4. CASE m \notin P
        BY <2>1, <2>2, <2>4
    <2> QED
        BY <2>3, <2>4
<1>5. Of(f[n])
    <2>1. \A m \in 0..n : m \in Good
        <3> HIDE DEF Good, n
        <3> QED
            BY <1>1, <1>3, <1>4, Upwards
    <2> QED
        BY <1>1, <2>1
<1> QED
    BY <1>1, <1>2, <1>5

\* What is to be chosen is chosen.
LEMMA AllAreChosen ==
    ASSUME NEW S, NEW s \in Seq(S), NEW P, NEW i \in 1..Len(s), i \in P
    PROVE  \E k \in 1..Len(Chosen(s, P)) : Chosen(s, P)[k] = s[i]
<1> DEFINE n == Len(s)
<1>1. n \in Nat /\ i \in Nat /\ i \in 0..n
    OBVIOUS
<1>2. PICK f \in [0..n -> Seq(S)] : ChosenAlong(f, s, P) /\ Chosen(s, P) = f[n]
    BY ChosenRecursion
<1> DEFINE Has(t) == \E k \in 1..Len(t) : t[k] = s[i]
           Good == {m \in 0..n : Has(f[m])}
<1>3. i \in Good
    <2>1. f[i - 1] \in Seq(S) /\ s[i] \in S /\ f[i] = Append(f[i - 1], s[i])
        <3>1. i - 1 \in 0..n /\ s[i] \in S
            BY <1>1
        <3> QED
            BY <1>2, <3>1 DEF ChosenAlong
    <2> DEFINE t == f[i - 1]
    <2> HIDE DEF t
    <2>2. Append(t, s[i])[Len(t) + 1] = s[i] /\ Len(Append(t, s[i])) = Len(t) + 1 /\ Len(t) \in Nat
        BY <2>1 DEF t
    <2>3. Has(Append(t, s[i]))
        BY <2>2
    <2> QED
        BY <1>1, <2>1, <2>3 DEF t
<1>4. ASSUME NEW m \in (i + 1)..n, m - 1 \in Good PROVE m \in Good
    <2> DEFINE t == f[m - 1]
    <2>1. t \in Seq(S) /\ m \in 0..n /\ m \in 1..n /\ Has(t) /\ s[m] \in S
        BY <1>1, <1>2, <1>4
    <2>2. f[m] = IF m \in P THEN Append(t, s[m]) ELSE t
        BY <1>2, <2>1 DEF ChosenAlong
    <2> HIDE DEF t
    <2>3. Len(Append(t, s[m])) = Len(t) + 1 /\ Len(t) \in Nat
          /\ \A k \in 1..Len(t) : Append(t, s[m])[k] = t[k]
        BY <2>1
    <2>4. Has(Append(t, s[m]))
        BY <2>1, <2>3
    <2> QED
        BY <2>1, <2>2, <2>4
<1>5. Has(f[n])
    <2>1. \A m \in i..n : m \in Good
        <3> HIDE DEF Good, n
        <3> QED
            BY <1>1, <1>3, <1>4, Upwards
    <2> QED
        BY <1>1, <2>1
<1> QED
    BY <1>2, <1>5

\* Nothing is chosen from an empty sequence.
LEMMA NothingChosen ==
    ASSUME NEW S, NEW s \in Seq(S), Len(s) = 0, NEW P
    PROVE  Len(Chosen(s, P)) = 0
<1>1. PICK f \in [0..Len(s) -> Seq(S)] : ChosenAlong(f, s, P) /\ Chosen(s, P) = f[Len(s)]
    BY ChosenRecursion
<1>2. f[0] = <<>>
    BY <1>1 DEF ChosenAlong
<1> QED
    BY <1>1, <1>2

\* One more element is chosen or not.
LEMMA ChosenOfMore ==
    ASSUME NEW S, NEW s \in Seq(S), NEW e \in S, NEW P, NEW Q,
           \A m \in 1..Len(s) : m \in P <=> m \in Q
    PROVE  Chosen(Append(s, e), Q) =
               IF Len(s) + 1 \in Q THEN Append(Chosen(s, P), e) ELSE Chosen(s, P)
<1> DEFINE n == Len(s)
           t == Append(s, e)
<1>1. n \in Nat /\ t \in Seq(S) /\ Len(t) = n + 1 /\ t[n + 1] = e /\ \A m \in 1..n : t[m] = s[m]
    OBVIOUS
<1>2. PICK f \in [0..n -> Seq(S)] : ChosenAlong(f, s, P) /\ Chosen(s, P) = f[n]
    BY ChosenRecursion
<1> HIDE DEF t
<1>3. PICK g \in [0..Len(t) -> Seq(S)] : ChosenAlong(g, t, Q) /\ Chosen(t, Q) = g[Len(t)]
    BY <1>1, ChosenRecursion
<1> HIDE DEF n
<1> DEFINE Good == {m \in 0..n : f[m] = g[m]}
<1>4. 0 \in Good
    BY <1>1, <1>2, <1>3 DEF ChosenAlong
<1>5. ASSUME NEW m \in (0 + 1)..n, m - 1 \in Good PROVE m \in Good
    <2>1. m \in 1..n /\ m \in 0..n /\ m \in 1..(n + 1) /\ f[m - 1] = g[m - 1] /\ t[m] = s[m]
        BY <1>1, <1>5
    <2>2. f[m] = IF m \in P THEN Append(f[m - 1], s[m]) ELSE f[m - 1]
        BY <1>2, <2>1 DEF ChosenAlong, n
    <2>3. g[m] = IF m \in Q THEN Append(g[m - 1], t[m]) ELSE g[m - 1]
        BY <1>1, <1>3, <2>1 DEF ChosenAlong
    <2>4. m \in P <=> m \in Q
        BY <2>1 DEF n
    <2>5. f[m] = g[m]
        BY <2>1, <2>2, <2>3, <2>4
    <2> QED
        BY <2>1, <2>5
<1>6. f[n] = g[n]
    <2>1. \A m \in 0..n : m \in Good
        <3> HIDE DEF Good
        <3> QED
            BY <1>1, <1>4, <1>5, Upwards
    <2> QED
        BY <1>1, <2>1
<1>7. g[n + 1] = IF n + 1 \in Q THEN Append(g[n], t[n + 1]) ELSE g[n]
    <2>1. n + 1 \in 1..Len(t) /\ (n + 1) - 1 = n
        BY <1>1
    <2> QED
        BY <1>3, <2>1 DEF ChosenAlong
<1> QED
    BY <1>1, <1>2, <1>3, <1>6, <1>7 DEF n, t

\* A sequence is parted by a condition.
LEMMA ChosenParts ==
    ASSUME NEW S, NEW s \in Seq(S), NEW P, NEW Q, \A m \in 1..Len(s) : m \in P <=> m \notin Q
    PROVE  Len(Chosen(s, P)) + Len(Chosen(s, Q)) = Len(s)
<1> DEFINE n == Len(s)
<1>1. n \in Nat
    OBVIOUS
<1>2. PICK f \in [0..n -> Seq(S)] : ChosenAlong(f, s, P) /\ Chosen(s, P) = f[n]
    BY ChosenRecursion
<1>3. PICK g \in [0..n -> Seq(S)] : ChosenAlong(g, s, Q) /\ Chosen(s, Q) = g[n]
    BY ChosenRecursion
<1> DEFINE Good == {m \in 0..n : Len(f[m]) + Len(g[m]) = m}
<1>4. 0 \in Good
    <2>1. f[0] = <<>> /\ g[0] = <<>>
        BY <1>2, <1>3 DEF ChosenAlong
    <2> QED
        BY <1>1, <2>1
<1>5. ASSUME NEW m \in (0 + 1)..n, m - 1 \in Good PROVE m \in Good
    <2> DEFINE t == f[m - 1]
               u == g[m - 1]
    <2>1. /\ t \in Seq(S) /\ u \in Seq(S) /\ m \in 0..n /\ m \in 1..n /\ s[m] \in S
          /\ Len(t) + Len(u) = m - 1
        BY <1>1, <1>2, <1>3, <1>5
    <2>2. f[m] = IF m \in P THEN Append(t, s[m]) ELSE t
        BY <1>2, <2>1 DEF ChosenAlong
    <2>3. g[m] = IF m \in Q THEN Append(u, s[m]) ELSE u
        BY <1>3, <2>1 DEF ChosenAlong
    <2> HIDE DEF t, u
    <2>4. /\ Len(Append(t, s[m])) = Len(t) + 1 /\ Len(Append(u, s[m])) = Len(u) + 1
          /\ Len(t) \in Nat /\ Len(u) \in Nat
        BY <2>1
    <2>5. m \in P <=> m \notin Q
        BY <2>1
    <2>6. Len(f[m]) + Len(g[m]) = m
        <3>1. CASE m \in P
            <4>1. f[m] = Append(t, s[m]) /\ g[m] = u
                BY <2>2, <2>3, <2>5, <3>1
            <4> QED
                BY <2>1, <2>4, <4>1
        <3>2. CASE m \notin P
            <4>1. f[m] = t /\ g[m] = Append(u, s[m])
                BY <2>2, <2>3, <2>5, <3>2
            <4> QED
                BY <2>1, <2>4, <4>1
        <3> QED
            BY <3>1, <3>2
    <2> QED
        BY <2>1, <2>6
<1>6. Len(f[n]) + Len(g[n]) = n
    <2>1. \A m \in 0..n : m \in Good
        <3> HIDE DEF Good, n
        <3> QED
            BY <1>1, <1>4, <1>5, Upwards
    <2>2. n \in 0..n
        BY <1>1
    <2> HIDE DEF n
    <2> QED
        BY <2>1, <2>2
<1> QED
    BY <1>2, <1>3, <1>6

-----------------------------------------------------------------------------
(* Sums and averages                                                         *)

LEMMA TotalRecursion ==
    ASSUME NEW s \in Seq(Int)
    PROVE  \E f \in [0..Len(s) -> Int] :
               f[0] = 0 /\ (\A m \in 1..Len(s) : f[m] = f[m - 1] + s[m]) /\ Total(s) = f[Len(s)]
<1> DEFINE n == Len(s)
           Summed(f) == f = [m \in 0..n |-> IF m = 0 THEN 0 ELSE f[m - 1] + s[m]]
           step == [w \in ((0 + 1)..n) \X Int |-> w[2] + s[w[1]]]
<1>1. n \in Nat /\ 0 <= n /\ \A m \in 1..n : s[m] \in Int
    OBVIOUS
<1>2. step \in [((0 + 1)..n) \X Int -> Int]
    <2>1. \A w \in ((0 + 1)..n) \X Int : w[2] + s[w[1]] \in Int
        BY <1>1
    <2> QED
        BY <2>1
<1>3. PICK f : Recursion(f, 0, n, Int, 0, step)
    <2>1. 0 \in Int /\ 0 \in Nat
        OBVIOUS
    <2> HIDE DEF step, n
    <2> QED
        BY <1>1, <1>2, <2>1, RecursionExists
<1>4. /\ f \in [0..n -> Int] /\ f[0] = 0
      /\ \A m \in (0 + 1)..n : f[m] = step[<<m, f[m - 1]>>]
    BY <1>3 DEF Recursion
<1>5. ASSUME NEW m \in 1..n PROVE f[m] = f[m - 1] + s[m]
    <2>1. f[m - 1] \in Int /\ m \in (0 + 1)..n
        BY <1>1, <1>4
    <2>2. <<m, f[m - 1]>> \in ((0 + 1)..n) \X Int
        BY <2>1
    <2>3. f[m] = step[<<m, f[m - 1]>>]
        BY <1>4, <2>1
    <2> QED
        BY <2>2, <2>3
<1>6. Summed(f)
    <2>1. \A m \in 0..n : m # 0 => m \in 1..n
        BY <1>1
    <2>2. f = [m \in 0..n |-> f[m]]
        BY <1>4
    <2> QED
        BY <1>4, <1>5, <2>1, <2>2
<1> DEFINE c == CHOOSE g : Summed(g)
<1>7. Summed(c)
    BY <1>6
<1>8. Total(s) = c[n]
    BY DEF Total
<1> HIDE DEF c, step
<1>9. c[0] = 0 /\ \A m \in 1..n : c[m] = c[m - 1] + s[m]
    <2>1. 0 \in 0..n /\ \A m \in 1..n : m \in 0..n /\ m # 0
        BY <1>1
    <2> QED
        BY <1>7, <2>1
<1>10. c \in [0..n -> Int]
    <2> DEFINE Good == {m \in 0..n : c[m] \in Int}
    <2>1. 0 \in Good
        BY <1>1, <1>9
    <2>2. ASSUME NEW m \in (0 + 1)..n, m - 1 \in Good PROVE m \in Good
        <3>1. c[m - 1] \in Int /\ s[m] \in Int /\ m \in 0..n /\ m \in 1..n
            BY <1>1, <2>2
        <3> QED
            BY <1>9, <3>1
    <2>3. \A m \in 0..n : m \in Good
        <3> HIDE DEF Good
        <3> QED
            BY <1>1, <2>1, <2>2, Upwards
    <2>4. c = [m \in 0..n |-> c[m]]
        BY <1>7
    <2> QED
        BY <2>3, <2>4
<1> QED
    BY <1>8, <1>9, <1>10

\* A sum lies between as many times the least and the greatest.
LEMMA TotalIsBetween ==
    ASSUME NEW s \in Seq(Int), NEW low \in Int, NEW high \in Int,
           \A i \in 1..Len(s) : low <= s[i] /\ s[i] <= high
    PROVE  Total(s) \in Int /\ Len(s) * low <= Total(s) /\ Total(s) <= Len(s) * high
<1> DEFINE n == Len(s)
<1>1. n \in Nat /\ \A m \in 1..n : s[m] \in Int
    OBVIOUS
<1>2. PICK f \in [0..n -> Int] :
          f[0] = 0 /\ (\A m \in 1..n : f[m] = f[m - 1] + s[m]) /\ Total(s) = f[n]
    BY TotalRecursion
<1> DEFINE Good == {m \in 0..n : m * low <= f[m] /\ f[m] <= m * high}
<1>3. 0 \in Good
    BY <1>1, <1>2
<1>4. ASSUME NEW m \in (0 + 1)..n, m - 1 \in Good PROVE m \in Good
    <2>1. /\ m \in 0..n /\ m \in 1..n /\ m \in Nat /\ s[m] \in Int /\ f[m - 1] \in Int
          /\ (m - 1) * low <= f[m - 1] /\ f[m - 1] <= (m - 1) * high
          /\ low <= s[m] /\ s[m] <= high
        <3>1. m \in 0..n /\ m \in 1..n /\ m \in Nat /\ m - 1 \in 0..n
            BY <1>1
        <3>2. s[m] \in Int /\ f[m - 1] \in Int /\ low <= s[m] /\ s[m] <= high
            BY <1>1, <1>2, <3>1
        <3>3. (m - 1) * low <= f[m - 1] /\ f[m - 1] <= (m - 1) * high
            BY <1>4
        <3> QED
            BY <3>1, <3>2, <3>3
    <2>2. f[m] = f[m - 1] + s[m]
        BY <1>2, <2>1
    <2>3. m * low = (m - 1) * low + low /\ m * high = (m - 1) * high + high
        BY <2>1
    <2>4. (m - 1) * low \in Int /\ (m - 1) * high \in Int /\ m * low \in Int /\ m * high \in Int
        BY <2>1
    <2>5. m * low <= f[m] /\ f[m] <= m * high
        <3> DEFINE a == (m - 1) * low
                   b == (m - 1) * high
        <3> HIDE DEF a, b
        <3>1. m * low = a + low /\ m * high = b + high /\ a <= f[m - 1] /\ f[m - 1] <= b
              /\ a \in Int /\ b \in Int
            BY <2>1, <2>3, <2>4 DEF a, b
        <3> QED
            BY <2>1, <2>2, <3>1
    <2> QED
        BY <2>1, <2>5
<1>5. n * low <= f[n] /\ f[n] <= n * high /\ f[n] \in Int
    <2>1. \A m \in 0..n : m \in Good
        <3> HIDE DEF Good, n
        <3> QED
            BY <1>1, <1>3, <1>4, Upwards
    <2>2. n \in 0..n
        BY <1>1
    <2> HIDE DEF n
    <2> QED
        BY <1>2, <2>1, <2>2
<1> QED
    BY <1>2, <1>5

\* Products of numbers that are not negative
LEMMA ProductIsNat == \A x, y \in Nat : x * y \in Nat
    OBVIOUS

\* A whole quotient lies between bounds of the quotient.
LEMMA QuotientIsBetween ==
    ASSUME NEW a \in Int, NEW n \in Nat \ {0}, NEW low \in Int, NEW high \in Int,
           n * low <= a, a <= n * high
    PROVE  a \div n \in Int /\ low <= a \div n /\ a \div n <= high
<1> DEFINE q == a \div n
           r == a % n
<1>1. q \in Int /\ r \in 0..(n - 1) /\ a = n * q + r
    OBVIOUS
<1> HIDE DEF q, r
<1>2. q <= high
    <2> SUFFICES ASSUME ~(q <= high) PROVE FALSE
        OBVIOUS
    <2>1. q - high - 1 \in Nat
        BY <1>1
    <2>2. n * (q - high - 1) \in Nat
        BY <2>1, ProductIsNat
    <2>3. n * (q - high - 1) = n * q - n * high - n
        BY <1>1
    <2>4. n * q \in Int /\ n * high \in Int
        BY <1>1
    <2> QED
        BY <1>1, <2>2, <2>3, <2>4
<1>3. low <= q
    <2> SUFFICES ASSUME ~(low <= q) PROVE FALSE
        OBVIOUS
    <2>1. low - q - 1 \in Nat
        BY <1>1
    <2>2. n * (low - q - 1) \in Nat
        BY <2>1, ProductIsNat
    <2>3. n * (low - q - 1) = n * low - n * q - n
        BY <1>1
    <2>4. n * q \in Int /\ n * low \in Int
        BY <1>1
    <2> QED
        BY <1>1, <2>2, <2>3, <2>4
<1> QED
    BY <1>1, <1>2, <1>3 DEF q

\* The average of values lies between the least and the greatest.
LEMMA AverageIsBetween ==
    ASSUME NEW s \in Seq(Int), s # <<>>, NEW low \in Int, NEW high \in Int,
           \A i \in 1..Len(s) : low <= s[i] /\ s[i] <= high
    PROVE  /\ (100 * Total(s)) \div Len(s) \in Int
           /\ 100 * low <= (100 * Total(s)) \div Len(s)
           /\ (100 * Total(s)) \div Len(s) <= 100 * high
<1> DEFINE n == Len(s)
           t == Total(s)
<1>1. n \in Nat \ {0}
    BY EmptySeq
<1>2. t \in Int /\ n * low <= t /\ t <= n * high
    BY TotalIsBetween
<1> HIDE DEF n, t
<1>3. /\ n * (100 * low) = 100 * (n * low) /\ n * (100 * high) = 100 * (n * high)
      /\ n * low \in Int /\ n * high \in Int
    BY <1>1
<1>4. n * (100 * low) <= 100 * t /\ 100 * t <= n * (100 * high)
    BY <1>2, <1>3
<1> DEFINE a == 100 * t
           from == 100 * low
           to == 100 * high
<1>5. a \in Int /\ from \in Int /\ to \in Int /\ n * from <= a /\ a <= n * to
    BY <1>2, <1>4
<1> HIDE DEF a, from, to
<1>6. a \div n \in Int /\ from <= a \div n /\ a \div n <= to
    BY <1>1, <1>5, QuotientIsBetween
<1> QED
    BY <1>6 DEF n, t, a, from, to

-----------------------------------------------------------------------------
(* Sorting                                                                   *)

Values(s) == {s[i] : i \in 1..Len(s)}
Rising(s) == \A i, j \in 1..Len(s) : i <= j => s[i] <= s[j]

\* t is s with v inserted at p.
HasInserted(t, S, s, p, v) ==
    /\ t \in Seq(S) /\ Len(t) = Len(s) + 1
    /\ \A k \in 1..(Len(s) + 1) :
           t[k] = IF k < p THEN s[k] ELSE IF k = p THEN v ELSE s[k - 1]

LEMMA InsertAtElements ==
    ASSUME NEW S, NEW s \in Seq(S), NEW p \in 1..(Len(s) + 1), NEW v \in S
    PROVE  HasInserted(InsertAt(s, p, v), S, s, p, v)
<1> DEFINE n == Len(s)
           front == SubSeq(s, 1, p - 1)
           back == SubSeq(s, p, n)
           left == front \o <<v>>
<1>1. n \in Nat /\ p \in Int /\ p - 1 \in Int /\ 1 \in Int /\ n \in Int /\ \A i \in 1..n : s[i] \in S
    OBVIOUS
<1>2. (\A i \in 1..(p - 1) : s[i] \in S) /\ (\A i \in p..n : s[i] \in S)
    BY <1>1
<1>3. /\ front \in Seq(S) /\ Len(front) = p - 1
      /\ \A i \in 1..(p - 1) : front[i] = s[i]
    <2>1. /\ front \in Seq(S) /\ Len(front) = IF 1 <= p - 1 THEN (p - 1) - 1 + 1 ELSE 0
          /\ \A i \in 1..((p - 1) - 1 + 1) : front[i] = s[1 + i - 1]
        BY <1>1, <1>2, SubSeqProperties
    <2> HIDE DEF front, n
    <2>2. \A i \in 1..(p - 1) : i \in 1..((p - 1) - 1 + 1) /\ 1 + i - 1 = i
        BY <1>1
    <2>3. Len(front) = p - 1
        BY <1>1, <2>1 DEF n
    <2>4. \A i \in 1..(p - 1) : front[i] = s[i]
        BY <2>1, <2>2
    <2> QED
        BY <2>1, <2>3, <2>4
<1>4. /\ back \in Seq(S) /\ Len(back) = n - p + 1
      /\ \A i \in 1..(n - p + 1) : back[i] = s[p + i - 1]
    <2>1. /\ back \in Seq(S) /\ Len(back) = IF p <= n THEN n - p + 1 ELSE 0
          /\ \A i \in 1..(n - p + 1) : back[i] = s[p + i - 1]
        BY <1>1, <1>2, SubSeqProperties
    <2> HIDE DEF back, n
    <2>2. Len(back) = n - p + 1
        BY <1>1, <2>1 DEF n
    <2> QED
        BY <2>1, <2>2
<1> HIDE DEF front, back
<1>5. <<v>> \in Seq(S) /\ Len(<<v>>) = 1 /\ <<v>>[1] = v
    OBVIOUS
<1> DEFINE one == <<v>>
<1> HIDE DEF one
<1>6. /\ left \in Seq(S) /\ Len(left) = p
      /\ \A i \in 1..(p - 1) : left[i] = s[i]
      /\ left[p] = v
    <2>1. /\ left \in Seq(S) /\ Len(left) = Len(front) + Len(one)
          /\ \A i \in 1..(Len(front) + Len(one)) :
                 left[i] = IF i <= Len(front) THEN front[i] ELSE one[i - Len(front)]
        BY <1>3, <1>5, ConcatProperties DEF one
    <2> HIDE DEF left
    <2>2. \A i \in 1..p : left[i] = IF i <= p - 1 THEN front[i] ELSE one[i - (p - 1)]
        BY <1>1, <1>3, <1>5, <2>1 DEF one
    <2>3. Len(left) = p
        BY <1>1, <1>3, <1>5, <2>1 DEF one
    <2>4. \A i \in 1..(p - 1) : left[i] = s[i]
        <3> TAKE i \in 1..(p - 1)
        <3>1. i \in 1..p /\ i <= p - 1
            BY <1>1
        <3> QED
            BY <1>3, <2>2, <3>1
    <2>5. left[p] = v
        <3>1. p \in 1..p /\ ~(p <= p - 1) /\ p - (p - 1) = 1
            BY <1>1
        <3> QED
            BY <1>5, <2>2, <3>1 DEF one
    <2> QED
        BY <2>1, <2>3, <2>4, <2>5
<1> DEFINE t == left \o back
<1>7. InsertAt(s, p, v) = t
    BY DEF InsertAt, front, back
<1> HIDE DEF left
<1>8. /\ t \in Seq(S) /\ Len(t) = p + (n - p + 1)
      /\ \A k \in 1..(p + (n - p + 1)) : t[k] = IF k <= p THEN left[k] ELSE back[k - p]
    <2>1. /\ t \in Seq(S) /\ Len(t) = Len(left) + Len(back)
          /\ \A k \in 1..(Len(left) + Len(back)) :
                 t[k] = IF k <= Len(left) THEN left[k] ELSE back[k - Len(left)]
        BY <1>4, <1>6, ConcatProperties
    <2> HIDE DEF t
    <2> QED
        BY <1>4, <1>6, <2>1
<1> HIDE DEF t
<1>9. ASSUME NEW k \in 1..(n + 1)
      PROVE  t[k] = IF k < p THEN s[k] ELSE IF k = p THEN v ELSE s[k - 1]
    <2>1. k \in 1..(p + (n - p + 1))
        BY <1>1
    <2> HIDE DEF n
    <2>2. CASE k < p
        <3>1. k \in 1..(p - 1) /\ k <= p
            BY <1>1, <2>2
        <3> QED
            BY <1>6, <1>8, <2>1, <2>2, <3>1
    <2>3. CASE k = p
        BY <1>1, <1>6, <1>8, <2>1, <2>3
    <2>4. CASE k > p
        <3>1. k - p \in 1..(n - p + 1) /\ ~(k <= p) /\ p + (k - p) - 1 = k - 1 /\ ~(k < p) /\ k # p
            BY <1>1, <2>4
        <3>2. t[k] = back[k - p]
            BY <1>8, <2>1, <3>1
        <3>3. back[k - p] = s[p + (k - p) - 1]
            BY <1>4, <3>1
        <3> QED
            BY <3>1, <3>2, <3>3
    <2> QED
        BY <1>1, <2>2, <2>3, <2>4
<1>10. Len(t) = n + 1
    BY <1>1, <1>8
<1> QED
    BY <1>7, <1>8, <1>9, <1>10 DEF HasInserted

\* Where a value is inserted: behind none that is greater, and in a rising
\* sequence before every one that is.
LEMMA InsertedPlace ==
    ASSUME NEW s \in Seq(Int), NEW v \in Int
    PROVE  \E p \in 1..(Len(s) + 1) :
               /\ Inserted(s, v) = InsertAt(s, p, v)
               /\ \A i \in 1..Len(s) : i < p => s[i] <= v
               /\ p \in 1..Len(s) => v < s[p]
<1> DEFINE greater == {i \in DOMAIN s : v < s[i]}
<1>1. Len(s) \in Nat /\ DOMAIN s = 1..Len(s) /\ \A i \in 1..Len(s) : s[i] \in Int
    OBVIOUS
<1>2. CASE greater = {}
    <2>1. Inserted(s, v) = InsertAt(s, Len(s) + 1, v)
        BY <1>2 DEF Inserted
    <2>2. \A i \in 1..Len(s) : s[i] <= v
        BY <1>1, <1>2
    <2>3. Len(s) + 1 \in 1..(Len(s) + 1) /\ Len(s) + 1 \notin 1..Len(s)
        BY <1>1
    <2> QED
        BY <2>1, <2>2, <2>3
<1>3. CASE greater # {}
    <2>1. greater \subseteq Nat
        BY <1>1
    <2>2. Inserted(s, v) = InsertAt(s, Min(greater), v)
        BY <1>3 DEF Inserted
    <2>3. \A i \in 1..Len(s) : i \in greater <=> v < s[i]
        BY <1>1
    <2>4. greater \subseteq 1..Len(s)
        BY <1>1
    <2> DEFINE p == Min(greater)
    <2> HIDE DEF greater
    <2>5. p \in greater /\ \A j \in greater : p <= j
        <3>1. \E i \in greater : \A j \in greater : i <= j
            BY <1>3, <2>1, LeastExists
        <3> QED
            BY <3>1 DEF Min
    <2> HIDE DEF p
    <2>6. p \in 1..(Len(s) + 1) /\ v < s[p]
        BY <1>1, <2>3, <2>4, <2>5
    <2>7. \A i \in 1..Len(s) : i < p => s[i] <= v
        <3> SUFFICES ASSUME NEW i \in 1..Len(s), i < p PROVE s[i] <= v
            OBVIOUS
        <3>1. p \in Nat /\ i \in Nat
            BY <2>1, <2>5
        <3>2. i \notin greater
            BY <2>5, <3>1
        <3> QED
            BY <1>1, <2>3, <3>2
    <2> QED
        BY <2>2, <2>6, <2>7 DEF p
<1> QED
    BY <1>2, <1>3

\* Inserting a value adds it and leaves a rising sequence rising.
LEMMA InsertedKeepsOrder ==
    ASSUME NEW s \in Seq(Int), NEW v \in Int
    PROVE  /\ Inserted(s, v) \in Seq(Int)
           /\ Len(Inserted(s, v)) = Len(s) + 1
           /\ Values(Inserted(s, v)) = Values(s) \cup {v}
           /\ Rising(s) => Rising(Inserted(s, v))
<1> DEFINE n == Len(s)
           t == Inserted(s, v)
<1>1. n \in Nat /\ \A i \in 1..n : s[i] \in Int
    OBVIOUS
<1>2. PICK p \in 1..(n + 1) :
          /\ t = InsertAt(s, p, v)
          /\ \A i \in 1..n : i < p => s[i] <= v
          /\ p \in 1..n => v < s[p]
    BY InsertedPlace
<1>3. /\ t \in Seq(Int) /\ Len(t) = n + 1
      /\ \A k \in 1..(n + 1) : t[k] = IF k < p THEN s[k] ELSE IF k = p THEN v ELSE s[k - 1]
    <2>1. p \in 1..(Len(s) + 1) /\ t = InsertAt(s, p, v)
        BY <1>2
    <2> HIDE DEF t
    <2>2. HasInserted(InsertAt(s, p, v), Int, s, p, v)
        BY <2>1, InsertAtElements
    <2> QED
        BY <2>1, <2>2 DEF HasInserted
<1> HIDE DEF t, n
<1>4. Values(t) = Values(s) \cup {v}
    <2>1. ASSUME NEW k \in 1..(n + 1) PROVE t[k] \in Values(s) \cup {v}
        <3>1. CASE k < p
            <4>1. k \in 1..n /\ t[k] = s[k]
                BY <1>1, <1>2, <1>3, <3>1
            <4> QED
                BY <4>1 DEF Values, n
        <3>2. CASE k = p
            BY <1>1, <1>3, <3>2
        <3>3. CASE k > p
            <4>1. k - 1 \in 1..n /\ t[k] = s[k - 1]
                BY <1>1, <1>2, <1>3, <3>3
            <4> QED
                BY <4>1 DEF Values, n
        <3> QED
            BY <1>1, <1>2, <3>1, <3>2, <3>3
    <2>2. ASSUME NEW i \in 1..n PROVE s[i] \in Values(t)
        <3>1. CASE i < p
            <4>1. i \in 1..(n + 1) /\ t[i] = s[i]
                BY <1>1, <1>3, <3>1
            <4> QED
                BY <1>3, <4>1 DEF Values
        <3>2. CASE ~(i < p)
            <4>1. i + 1 \in 1..(n + 1) /\ ~(i + 1 < p) /\ i + 1 # p /\ (i + 1) - 1 = i
                BY <1>1, <1>2, <3>2
            <4>2. t[i + 1] = s[i]
                BY <1>3, <4>1
            <4> QED
                BY <1>3, <4>1, <4>2 DEF Values
        <3> QED
            BY <3>1, <3>2
    <2>3. v \in Values(t)
        <3>1. t[p] = v
            BY <1>1, <1>2, <1>3
        <3> QED
            BY <1>2, <1>3, <3>1 DEF Values
    <2> QED
        BY <1>3, <2>1, <2>2, <2>3 DEF Values, n
<1>5. ASSUME Rising(s) PROVE Rising(t)
    <2>1. ASSUME NEW i \in 1..(n + 1), NEW j \in 1..(n + 1), i <= j
          PROVE  t[i] <= t[j]
        <3>1. \A k \in 1..n, m \in 1..n : k <= m => s[k] <= s[m]
            BY <1>5 DEF Rising, n
        <3>2. ASSUME NEW k \in 1..n, ~(k < p) PROVE v < s[k]
            <4>1. p \in 1..n /\ p <= k
                BY <1>1, <1>2, <3>2
            <4> QED
                BY <1>1, <1>2, <3>1, <4>1
        <3>3. CASE i < p
            <4>1. i \in 1..n /\ t[i] = s[i] /\ s[i] <= v
                BY <1>1, <1>2, <1>3, <3>3
            <4>2. CASE j < p
                <5>1. j \in 1..n /\ t[j] = s[j]
                    BY <1>1, <1>2, <1>3, <4>2
                <5> QED
                    BY <2>1, <3>1, <4>1, <5>1
            <4>3. CASE j = p
                BY <1>1, <1>3, <4>1, <4>3
            <4>4. CASE j > p
                <5>1. j - 1 \in 1..n /\ ~(j - 1 < p) /\ t[j] = s[j - 1]
                    BY <1>1, <1>2, <1>3, <4>4
                <5>2. v < s[j - 1]
                    BY <3>2, <5>1
                <5> QED
                    BY <1>1, <4>1, <5>1, <5>2
            <4> QED
                BY <1>1, <1>2, <4>2, <4>3, <4>4
        <3>4. CASE i = p
            <4>1. t[i] = v
                BY <1>1, <1>3, <3>4
            <4>2. CASE j = p
                BY <1>1, <1>3, <4>1, <4>2
            <4>3. CASE j > p
                <5>1. j - 1 \in 1..n /\ ~(j - 1 < p) /\ t[j] = s[j - 1]
                    BY <1>1, <1>2, <1>3, <4>3
                <5>2. v < s[j - 1]
                    BY <3>2, <5>1
                <5> QED
                    BY <1>1, <4>1, <5>1, <5>2
            <4> QED
                BY <1>1, <1>2, <2>1, <3>4, <4>2, <4>3
        <3>5. CASE i > p
            <4>1. i - 1 \in 1..n /\ t[i] = s[i - 1] /\ j - 1 \in 1..n /\ t[j] = s[j - 1]
                BY <1>1, <1>2, <1>3, <2>1, <3>5
            <4>2. i - 1 <= j - 1
                BY <1>1, <2>1
            <4> QED
                BY <3>1, <4>1, <4>2
        <3> QED
            BY <1>1, <1>2, <3>3, <3>4, <3>5
    <2> QED
        BY <1>3, <2>1 DEF Rising
<1> QED
    BY <1>3, <1>4, <1>5 DEF n, t

LEMMA AscendingRecursion ==
    ASSUME NEW s \in Seq(Int)
    PROVE  \E f \in [0..Len(s) -> Seq(Int)] :
               /\ f[0] = <<>> /\ (\A m \in 1..Len(s) : f[m] = Inserted(f[m - 1], s[m]))
               /\ Ascending(s) = f[Len(s)]
<1> DEFINE n == Len(s)
           none == <<>>
           V == Seq(Int)
           Sorted(f) == f = [m \in 0..n |-> IF m = 0 THEN none ELSE Inserted(f[m - 1], s[m])]
           step == [w \in ((0 + 1)..n) \X V |-> Inserted(w[2], s[w[1]])]
<1>1. n \in Nat /\ 0 <= n /\ \A m \in 1..n : s[m] \in Int
    OBVIOUS
<1>2. none \in V /\ 0 \in Nat
    OBVIOUS
<1>3. \A t \in V, v \in Int : Inserted(t, v) \in V
    BY InsertedKeepsOrder
<1> HIDE DEF n, V
<1>4. step \in [((0 + 1)..n) \X V -> V]
    <2>1. ASSUME NEW w \in ((0 + 1)..n) \X V PROVE Inserted(w[2], s[w[1]]) \in V
        <3>1. s[w[1]] \in Int /\ w[2] \in V
            BY <1>1
        <3> QED
            BY <1>3, <3>1
    <2> QED
        BY <2>1
<1>5. PICK f : Recursion(f, 0, n, V, none, step)
    <2> HIDE DEF step, none
    <2> QED
        BY <1>1, <1>2, <1>4, RecursionExists
<1>6. /\ f \in [0..n -> V] /\ f[0] = none
      /\ \A m \in (0 + 1)..n : f[m] = step[<<m, f[m - 1]>>]
    BY <1>5 DEF Recursion
<1> HIDE DEF none
<1>7. ASSUME NEW m \in 1..n PROVE f[m] = Inserted(f[m - 1], s[m])
    <2>1. f[m - 1] \in V /\ m \in (0 + 1)..n
        BY <1>1, <1>6
    <2>2. <<m, f[m - 1]>> \in ((0 + 1)..n) \X V
        BY <2>1
    <2>3. f[m] = step[<<m, f[m - 1]>>]
        BY <1>6, <2>1
    <2> QED
        BY <2>2, <2>3
<1>8. Sorted(f)
    <2>1. \A m \in 0..n : m # 0 => m \in 1..n
        BY <1>1
    <2>2. f = [m \in 0..n |-> f[m]]
        BY <1>6
    <2> QED
        BY <1>6, <1>7, <2>1, <2>2
<1> DEFINE c == CHOOSE g : Sorted(g)
<1>9. Sorted(c)
    BY <1>8
<1>10. Ascending(s) = c[n]
    BY DEF Ascending, n, none
<1> HIDE DEF c, step
<1>11. c[0] = none /\ \A m \in 1..n : c[m] = Inserted(c[m - 1], s[m])
    <2>1. 0 \in 0..n /\ \A m \in 1..n : m \in 0..n /\ m # 0
        BY <1>1
    <2> QED
        BY <1>9, <2>1
<1>12. c \in [0..n -> V]
    <2> DEFINE Good == {m \in 0..n : c[m] \in V}
    <2>1. 0 \in Good
        BY <1>1, <1>2, <1>11
    <2>2. ASSUME NEW m \in (0 + 1)..n, m - 1 \in Good PROVE m \in Good
        <3>1. c[m - 1] \in V /\ s[m] \in Int /\ m \in 0..n /\ m \in 1..n
            BY <1>1, <2>2
        <3>2. Inserted(c[m - 1], s[m]) \in V
            BY <1>3, <3>1
        <3> QED
            BY <1>11, <3>1, <3>2
    <2>3. \A m \in 0..n : m \in Good
        <3> HIDE DEF Good
        <3> QED
            BY <1>1, <2>1, <2>2, Upwards
    <2>4. c = [m \in 0..n |-> c[m]]
        BY <1>9
    <2> QED
        BY <2>3, <2>4
<1> QED
    BY <1>10, <1>11, <1>12 DEF n, V, none

\* Sorting makes of a sequence a rising one with the same values.
LEMMA AscendingIsSorted ==
    ASSUME NEW s \in Seq(Int)
    PROVE  /\ Ascending(s) \in Seq(Int) /\ Len(Ascending(s)) = Len(s)
           /\ Values(Ascending(s)) = Values(s) /\ Rising(Ascending(s))
<1> DEFINE n == Len(s)
<1>1. n \in Nat /\ \A m \in 1..n : s[m] \in Int
    OBVIOUS
<1>2. PICK f \in [0..n -> Seq(Int)] :
          /\ f[0] = <<>> /\ (\A m \in 1..n : f[m] = Inserted(f[m - 1], s[m]))
          /\ Ascending(s) = f[n]
    BY AscendingRecursion
<1> HIDE DEF n
<1> DEFINE Of(t, m) == /\ t \in Seq(Int) /\ Len(t) = m /\ Rising(t)
                       /\ Values(t) = {s[i] : i \in 1..m}
           Good == {m \in 0..n : Of(f[m], m)}
<1>3. 0 \in Good
    <2>1. <<>> \in Seq(Int) /\ Len(<<>>) = 0 /\ 0 \in 0..n
        BY <1>1
    <2>2. Rising(<<>>) /\ Values(<<>>) = {s[i] : i \in 1..0}
        BY <2>1 DEF Rising, Values
    <2> QED
        BY <1>2, <2>1, <2>2
<1>4. ASSUME NEW m \in (0 + 1)..n, m - 1 \in Good PROVE m \in Good
    <2> DEFINE t == f[m - 1]
    <2>1. /\ m \in 0..n /\ m \in 1..n /\ m \in Nat /\ m - 1 \in 0..n /\ s[m] \in Int
          /\ Of(t, m - 1)
        BY <1>1, <1>4
    <2>2. f[m] = Inserted(t, s[m])
        BY <1>2, <2>1
    <2> HIDE DEF t
    <2>3. /\ f[m] \in Seq(Int) /\ Len(f[m]) = Len(t) + 1 /\ Rising(f[m])
          /\ Values(f[m]) = Values(t) \cup {s[m]}
        BY <2>1, <2>2, InsertedKeepsOrder
    <2>4. {s[i] : i \in 1..m} = {s[i] : i \in 1..(m - 1)} \cup {s[m]}
        <3>1. 1..m = (1..(m - 1)) \cup {m}
            BY <2>1
        <3> QED
            BY <3>1
    <2> QED
        BY <2>1, <2>3, <2>4
<1>5. Of(f[n], n)
    <2>1. \A m \in 0..n : m \in Good
        <3> HIDE DEF Good
        <3> QED
            BY <1>1, <1>3, <1>4, Upwards
    <2>2. n \in 0..n
        BY <1>1
    <2> QED
        BY <2>1, <2>2
<1> QED
    BY <1>2, <1>5 DEF Values, n

-----------------------------------------------------------------------------
(* Percentiles and distributions                                             *)

\* A mixture of two values lies between them, and nearer to the greater one the
\* more of it there is.
LEMMA MixtureIsBetween ==
    ASSUME NEW a \in Int, NEW b \in Int, a <= b, NEW w \in 0..100
    PROVE  /\ a * (100 - w) + b * w \in Int
           /\ 100 * a <= a * (100 - w) + b * w /\ a * (100 - w) + b * w <= 100 * b
<1> DEFINE d == b - a
<1>1. d \in Nat /\ w \in Nat /\ 100 - w \in Nat /\ b = a + d
    OBVIOUS
<1> HIDE DEF d
<1>2. d * w \in Nat /\ d * (100 - w) \in Nat
    BY <1>1, ProductIsNat
<1>3. b * w = a * w + d * w /\ a * (100 - w) = 100 * a - a * w
    BY <1>1
<1>4. a * w \in Int /\ d * (100 - w) = 100 * d - d * w
    BY <1>1
<1> DEFINE x == a * w
           y == d * w
           z == d * (100 - w)
           u == b * w
           v == a * (100 - w)
<1>5. /\ y \in Nat /\ z \in Nat /\ x \in Int
      /\ u = x + y /\ v = 100 * a - x /\ z = 100 * d - y
    BY <1>2, <1>3, <1>4
<1> HIDE DEF x, y, z, u, v
<1>6. v + u \in Int /\ 100 * a <= v + u /\ v + u <= 100 * b
    BY <1>1, <1>5
<1> QED
    BY <1>6 DEF u, v

LEMMA MixturesRise ==
    ASSUME NEW a \in Int, NEW b \in Int, a <= b, NEW w \in 0..100, NEW x \in 0..100, w <= x
    PROVE  a * (100 - w) + b * w <= a * (100 - x) + b * x
<1> DEFINE d == b - a
           e == x - w
<1>1. d \in Nat /\ e \in Nat /\ b = a + d /\ x = w + e /\ w \in Int
    OBVIOUS
<1> HIDE DEF d, e
<1>2. d * e \in Nat
    BY <1>1, ProductIsNat
<1>3. /\ b * x = a * w + a * e + d * w + d * e /\ b * w = a * w + d * w
      /\ a * (100 - w) = 100 * a - a * w /\ a * (100 - x) = 100 * a - a * w - a * e
    BY <1>1
<1>4. a * w \in Int /\ a * e \in Int /\ d * w \in Int
    BY <1>1
<1> DEFINE aw == a * w
           ae == a * e
           dw == d * w
           de == d * e
<1>5. /\ aw \in Int /\ ae \in Int /\ dw \in Int /\ de \in Nat
      /\ b * x = aw + ae + dw + de /\ b * w = aw + dw
      /\ a * (100 - w) = 100 * a - aw /\ a * (100 - x) = 100 * a - aw - ae
    BY <1>2, <1>3, <1>4
<1> HIDE DEF aw, ae, dw, de
<1> QED
    BY <1>5

\* Between which two values of a sequence a percentile is, and how near to each.
Interpolates(s, p, lower, upper, w) ==
    /\ lower \in 0..(Len(s) - 1) /\ upper \in lower..(Len(s) - 1) /\ w \in 0..99
    /\ p * (Len(s) - 1) = 100 * lower + w
    /\ lower < Len(s) - 1 => upper = lower + 1
    /\ Percentile(s, p) = s[lower + 1] * (100 - w) + s[upper + 1] * w

LEMMA PercentileInterpolates ==
    ASSUME NEW s \in Seq(Int), s # <<>>, NEW p \in 0..100
    PROVE  \E lower, upper, w : Interpolates(s, p, lower, upper, w)
<1> DEFINE n == Len(s)
           rank == p * (n - 1)
           lower == rank \div 100
           w == rank % 100
           upper == IF lower + 1 < n THEN lower + 1 ELSE n - 1
<1>1. n \in Nat \ {0}
    BY EmptySeq
<1>2. rank \in Nat /\ rank <= 100 * (n - 1)
    <2> DEFINE m == n - 1
               d == 100 - p
    <2>1. m \in Nat /\ d \in Nat /\ p \in Nat /\ p = 100 - d
        BY <1>1
    <2> HIDE DEF m, d, n
    <2>2. p * m \in Nat /\ d * m \in Nat
        BY <2>1, ProductIsNat
    <2>3. p * m = 100 * m - d * m
        BY <2>1
    <2>4. p * m <= 100 * m
        <3> DEFINE x == p * m
                   y == d * m
        <3>1. x \in Nat /\ y \in Nat /\ x = 100 * m - y
            BY <2>2, <2>3
        <3> HIDE DEF x, y
        <3>2. x <= 100 * m
            BY <2>1, <3>1
        <3> QED
            BY <3>2 DEF x
    <2> QED
        BY <2>2, <2>4 DEF m
<1>3. Percentile(s, p) = s[lower + 1] * (100 - w) + s[upper + 1] * w
    BY DEF Percentile
<1>4. rank = p * (Len(s) - 1)
    OBVIOUS
<1> HIDE DEF rank, n
<1>5. lower \in Nat /\ w \in 0..99 /\ rank = 100 * lower + w
    BY <1>2
<1> HIDE DEF lower, w
<1>6. lower \in 0..(n - 1)
    BY <1>1, <1>2, <1>5
<1>7. upper \in lower..(n - 1) /\ (lower < n - 1 => upper = lower + 1)
    BY <1>1, <1>6
<1> HIDE DEF upper
<1>8. Interpolates(s, p, lower, upper, w)
    BY <1>3, <1>4, <1>5, <1>6, <1>7 DEF Interpolates, n
<1> QED
    BY <1>8

\* The values a percentile lies between
LEMMA InterpolationIsBetween ==
    ASSUME NEW s \in Seq(Int), s # <<>>, Rising(s), NEW p, NEW lower, NEW upper, NEW w,
           Interpolates(s, p, lower, upper, w)
    PROVE  /\ s[lower + 1] \in Int /\ s[upper + 1] \in Int /\ s[lower + 1] <= s[upper + 1]
           /\ Percentile(s, p) \in Int
           /\ 100 * s[lower + 1] <= Percentile(s, p) /\ Percentile(s, p) <= 100 * s[upper + 1]
<1> DEFINE n == Len(s)
<1>1. n \in Nat \ {0}
    BY EmptySeq
<1>2. /\ lower + 1 \in 1..n /\ upper + 1 \in 1..n /\ lower + 1 <= upper + 1 /\ w \in 0..100
      /\ Percentile(s, p) = s[lower + 1] * (100 - w) + s[upper + 1] * w
    <2>1. /\ lower \in 0..(n - 1) /\ upper \in lower..(n - 1) /\ w \in 0..99
          /\ Percentile(s, p) = s[lower + 1] * (100 - w) + s[upper + 1] * w
        BY DEF Interpolates
    <2> HIDE DEF n
    <2> QED
        BY <1>1, <2>1
<1>3. s[lower + 1] \in Int /\ s[upper + 1] \in Int
    BY <1>2
<1>4. s[lower + 1] <= s[upper + 1]
    BY <1>2 DEF Rising
<1> DEFINE a == s[lower + 1]
           b == s[upper + 1]
<1> HIDE DEF a, b
<1>5. a \in Int /\ b \in Int /\ a <= b /\ Percentile(s, p) = a * (100 - w) + b * w
    BY <1>2, <1>3, <1>4 DEF a, b
<1>6. /\ a * (100 - w) + b * w \in Int
      /\ 100 * a <= a * (100 - w) + b * w /\ a * (100 - w) + b * w <= 100 * b
    BY <1>2, <1>5, MixtureIsBetween
<1> QED
    BY <1>5, <1>6 DEF a, b

\* A greater percentile is no smaller.
LEMMA PercentilesRise ==
    ASSUME NEW s \in Seq(Int), s # <<>>, Rising(s), NEW p \in 0..100, NEW q \in 0..100, p <= q
    PROVE  Percentile(s, p) <= Percentile(s, q)
<1> DEFINE n == Len(s)
<1>1. n \in Nat \ {0}
    BY EmptySeq
<1>2. PICK lower, upper, w : Interpolates(s, p, lower, upper, w)
    BY PercentileInterpolates
<1>3. PICK lower_, upper_, w_ : Interpolates(s, q, lower_, upper_, w_)
    BY PercentileInterpolates
<1>4. /\ lower \in 0..(n - 1) /\ upper \in lower..(n - 1) /\ w \in 0..99
      /\ p * (n - 1) = 100 * lower + w /\ (lower < n - 1 => upper = lower + 1)
      /\ Percentile(s, p) = s[lower + 1] * (100 - w) + s[upper + 1] * w
    BY <1>2 DEF Interpolates
<1>5. /\ lower_ \in 0..(n - 1) /\ upper_ \in lower_..(n - 1) /\ w_ \in 0..99
      /\ q * (n - 1) = 100 * lower_ + w_ /\ (lower_ < n - 1 => upper_ = lower_ + 1)
      /\ Percentile(s, q) = s[lower_ + 1] * (100 - w_) + s[upper_ + 1] * w_
    BY <1>3 DEF Interpolates
<1>6. /\ s[lower + 1] \in Int /\ s[upper + 1] \in Int /\ s[lower + 1] <= s[upper + 1]
      /\ Percentile(s, p) \in Int /\ Percentile(s, p) <= 100 * s[upper + 1]
    BY <1>2, InterpolationIsBetween
<1>7. s[lower_ + 1] \in Int /\ Percentile(s, q) \in Int /\ 100 * s[lower_ + 1] <= Percentile(s, q)
    BY <1>3, InterpolationIsBetween
<1>8. \A i, j \in 1..n : i <= j => s[i] <= s[j]
    BY DEF Rising
<1> HIDE DEF n
<1>9. p * (n - 1) <= q * (n - 1)
    <2> DEFINE m == n - 1
               d == q - p
    <2>1. m \in Nat /\ d \in Nat /\ q = p + d /\ p \in Nat
        BY <1>1
    <2> HIDE DEF m, d
    <2>2. d * m \in Nat /\ p * m \in Nat /\ q * m = p * m + d * m
        BY <2>1, ProductIsNat
    <2>3. p * m <= q * m
        BY <2>2
    <2> QED
        BY <2>3 DEF m
<1>10. 100 * lower + w <= 100 * lower_ + w_
    BY <1>4, <1>5, <1>9
<1>11. CASE lower = lower_
    <2>1. upper = upper_ /\ w <= w_
        BY <1>1, <1>4, <1>5, <1>10, <1>11
    <2> DEFINE a == s[lower + 1]
               b == s[upper + 1]
    <2> HIDE DEF a, b
    <2>2. /\ a \in Int /\ b \in Int /\ a <= b /\ w \in 0..100 /\ w_ \in 0..100 /\ w <= w_
          /\ Percentile(s, p) = a * (100 - w) + b * w /\ Percentile(s, q) = a * (100 - w_) + b * w_
        <3>1. a \in Int /\ b \in Int /\ a <= b
            BY <1>6 DEF a, b
        <3>2. w \in 0..100 /\ w_ \in 0..100 /\ w <= w_
            <4>1. w \in 0..99
                BY <1>4
            <4>2. w_ \in 0..99
                BY <1>5
            <4> QED
                BY <2>1, <4>1, <4>2
        <3>3. Percentile(s, p) = a * (100 - w) + b * w
            BY <1>4 DEF a, b
        <3>4. s[lower_ + 1] = a /\ s[upper_ + 1] = b
            BY <1>11, <2>1 DEF a, b
        <3>5. Percentile(s, q) = a * (100 - w_) + b * w_
            BY <1>5, <3>4
        <3> QED
            BY <3>1, <3>2, <3>3, <3>5
    <2>3. a * (100 - w) + b * w <= a * (100 - w_) + b * w_
        BY <2>2, MixturesRise
    <2> QED
        BY <2>2, <2>3
<1>12. CASE lower # lower_
    <2>1. lower + 1 <= lower_ /\ lower < n - 1
        <3>1. lower \in 0..(n - 1) /\ lower_ \in 0..(n - 1) /\ w \in 0..99 /\ w_ \in 0..99
            BY <1>4, <1>5
        <3> QED
            BY <1>1, <1>10, <1>12, <3>1
    <2>2. upper + 1 \in 1..n /\ lower_ + 1 \in 1..n /\ upper + 1 <= lower_ + 1
        BY <1>1, <1>4, <1>5, <2>1
    <2>3. s[upper + 1] <= s[lower_ + 1]
        BY <1>8, <2>2
    <2> DEFINE b == s[upper + 1]
               a == s[lower_ + 1]
    <2> HIDE DEF a, b
    <2>4. /\ a \in Int /\ b \in Int /\ b <= a
          /\ Percentile(s, p) <= 100 * b /\ 100 * a <= Percentile(s, q)
        BY <1>6, <1>7, <2>3 DEF a, b
    <2> QED
        BY <1>6, <1>7, <2>4
<1> QED
    BY <1>11, <1>12

\* A distribution of values is ordered and between the least of them and the
\* greatest.
LEMMA DistributionIsOrdered ==
    ASSUME NEW s \in Seq(Int)
    PROVE  /\ Ordered(Distribution(s)) /\ Distribution(s).count = Len(s)
           /\ Len(s) > 0 =>
                  \E low, high \in Values(s) :
                      /\ Distribution(s).min = 100 * low /\ Distribution(s).max = 100 * high
                      /\ \A v \in Values(s) : low <= v /\ v <= high
<1>1. CASE s = <<>>
    <2>1. Distribution(s) = [count |-> 0] /\ Len(s) = 0
        BY <1>1 DEF Distribution
    <2>2. Distribution(s).count = 0
        BY <2>1
    <2> QED
        BY <2>1, <2>2 DEF Ordered
<1>2. CASE s # <<>>
    <2> DEFINE t == Ascending(s)
               n == Len(s)
               d == Distribution(s)
    <2>1. n \in Nat \ {0}
        BY <1>2, EmptySeq
    <2>2. t \in Seq(Int) /\ Len(t) = n /\ Values(t) = Values(s) /\ Rising(t)
        BY AscendingIsSorted
    <2>3. d = [count |-> Len(t), min |-> 100 * t[1], max |-> 100 * Last(t),
               avg |-> (100 * Total(t)) \div Len(t),
               percentile |-> [p \in Percentiles |-> Percentile(t, p)]]
        BY <1>2 DEF Distribution
    <2> HIDE DEF t, d
    <2>4. /\ d.count = Len(t) /\ d.min = 100 * t[1] /\ d.max = 100 * Last(t)
          /\ d.avg = (100 * Total(t)) \div Len(t)
          /\ \A p \in Percentiles : d.percentile[p] = Percentile(t, p)
        BY <2>3
    <2>5. t # <<>> /\ Last(t) = t[n]
        <3>1. Len(t) # 0
            BY <2>1, <2>2
        <3> QED
            BY <2>2, <3>1 DEF Last
    <2> DEFINE low == t[1]
               high == t[n]
    <2>6. /\ 1 \in 1..n /\ n \in 1..n /\ low \in Int /\ high \in Int
          /\ \A i \in 1..n : t[i] \in Int /\ low <= t[i] /\ t[i] <= high
        <3>1. 1 \in 1..n /\ n \in 1..n /\ \A i \in 1..n : t[i] \in Int
            BY <2>1, <2>2
        <3>2. \A i \in 1..n : 1 <= i /\ i <= n
            BY <2>1
        <3> HIDE DEF n
        <3> QED
            BY <2>2, <3>1, <3>2 DEF Rising
    <2>7. low \in Values(s) /\ high \in Values(s) /\ \A v \in Values(s) : low <= v /\ v <= high
        BY <2>2, <2>6 DEF Values
    <2> HIDE DEF low, high, n
    <2>8. 100 * low <= d.avg /\ d.avg <= 100 * high
        <3>1. \A i \in 1..Len(t) : low <= t[i] /\ t[i] <= high
            BY <2>2, <2>6
        <3>2. /\ 100 * low <= (100 * Total(t)) \div Len(t)
              /\ (100 * Total(t)) \div Len(t) <= 100 * high
            BY <2>2, <2>5, <2>6, <3>1, AverageIsBetween
        <3> QED
            BY <2>4, <3>2
    <2>9. ASSUME NEW p \in Percentiles
          PROVE  /\ Percentile(t, p) \in Int
                 /\ 100 * low <= Percentile(t, p) /\ Percentile(t, p) <= 100 * high
        <3>1. p \in 0..100
            BY DEF Percentiles
        <3>2. PICK lower, upper, w : Interpolates(t, p, lower, upper, w)
            BY <2>2, <2>5, <3>1, PercentileInterpolates
        <3>3. lower + 1 \in 1..n /\ upper + 1 \in 1..n
            <4>1. lower \in 0..(n - 1) /\ upper \in lower..(n - 1)
                BY <2>2, <3>2 DEF Interpolates
            <4> QED
                BY <2>1, <4>1 DEF n
        <3>4. /\ Percentile(t, p) \in Int
              /\ 100 * t[lower + 1] <= Percentile(t, p) /\ Percentile(t, p) <= 100 * t[upper + 1]
            BY <2>2, <2>5, <3>2, InterpolationIsBetween
        <3> DEFINE a == t[lower + 1]
                   b == t[upper + 1]
        <3> HIDE DEF a, b
        <3>5. /\ a \in Int /\ b \in Int /\ low <= a /\ b <= high
              /\ 100 * a <= Percentile(t, p) /\ Percentile(t, p) <= 100 * b
            BY <2>6, <3>3, <3>4 DEF a, b
        <3> QED
            BY <2>6, <3>4, <3>5
    <2>10. \A p, q \in Percentiles : p <= q => Percentile(t, p) <= Percentile(t, q)
        <3> SUFFICES ASSUME NEW p \in Percentiles, NEW q \in Percentiles, p <= q
                     PROVE  Percentile(t, p) <= Percentile(t, q)
            OBVIOUS
        <3>1. p \in 0..100 /\ q \in 0..100
            BY DEF Percentiles
        <3> QED
            BY <2>2, <2>5, <3>1, PercentilesRise
    <2>11. d.min = 100 * low /\ d.max = 100 * high /\ d.count = n
        BY <2>2, <2>4, <2>5 DEF low, high
    <2>12. Ordered(d)
        BY <2>4, <2>8, <2>9, <2>10, <2>11 DEF Ordered
    <2> QED
        BY <2>7, <2>11, <2>12 DEF d, n
<1> QED
    BY <1>1, <1>2

-----------------------------------------------------------------------------
(* What is summarized                                                        *)

\* What every result of a request has, whether it failed or not.
Sound(r) ==
    /\ r.ok \in BOOLEAN
    /\ r.latency \in Int /\ r.ttft \in Int /\ r.visible \in Int /\ r.reasoning \in Int
    /\ r.itl \in Seq(Int)
    /\ r.ok => r.ttft <= Deadline /\ r.ttft <= r.latency
    /\ r.visible # Absent => r.ttft # Absent /\ r.ttft <= r.visible

SoundResults(rs) == rs \in Seq(Values(rs)) /\ \A r \in Values(rs) : Sound(r)

LEMMA MoreResults ==
    ASSUME NEW rs, SoundResults(rs), NEW r, Sound(r)
    PROVE  SoundResults(Append(rs, r)) /\ Len(Append(rs, r)) = Len(rs) + 1
<1> DEFINE S == Values(rs) \cup {r}
           t == Append(rs, r)
<1>1. rs \in Seq(Values(rs)) /\ Values(rs) \subseteq S /\ r \in S
    BY DEF SoundResults
<1>2. \A x \in S : Sound(x)
    BY DEF SoundResults
<1> HIDE DEF S
<1>3. rs \in Seq(S)
    BY <1>1, SeqMonotonic
<1>4. t \in Seq(S) /\ Len(t) = Len(rs) + 1
    BY <1>1, <1>3
<1> HIDE DEF t
<1>5. Values(t) \subseteq S
    BY <1>4 DEF Values
<1>6. t \in Seq(Values(t))
    <2>1. t \in [1..Len(t) -> S] /\ Len(t) \in Nat
        BY <1>4
    <2>2. t \in [1..Len(t) -> Values(t)]
        BY <2>1 DEF Values
    <2> QED
        BY <2>1, <2>2
<1> QED
    BY <1>2, <1>4, <1>5, <1>6 DEF SoundResults, t

\* s has the values of one field of the results, which are in T.
IsField(s, rs, f, T) ==
    /\ s \in Seq(T) /\ Len(s) = Len(rs)
    /\ Values(s) = {r[f] : r \in Values(rs)}

LEMMA FieldIsSequence ==
    ASSUME NEW S, NEW rs \in Seq(S), NEW f, NEW T, \A r \in S : r[f] \in T
    PROVE  IsField(Field(rs, f), rs, f, T)
<1>1. Len(rs) \in Nat /\ \A i \in 1..Len(rs) : rs[i] \in S
    OBVIOUS
<1>2. Field(rs, f) = [i \in 1..Len(rs) |-> rs[i][f]]
    BY DEF Field
<1>3. Field(rs, f) \in [1..Len(rs) -> T]
    BY <1>1, <1>2
<1>4. Field(rs, f) \in Seq(T) /\ Len(Field(rs, f)) = Len(rs)
    BY <1>1, <1>3
<1> QED
    BY <1>1, <1>2, <1>4 DEF Values, IsField

LEMMA PresentValues ==
    ASSUME NEW s \in Seq(Int)
    PROVE  Present(s) \in Seq(Int) /\ Values(Present(s)) = {v \in Values(s) : v # Absent}
<1> DEFINE P == {i \in DOMAIN s : s[i] # Absent}
           t == Chosen(s, P)
<1>1. Present(s) = t /\ DOMAIN s = 1..Len(s)
    BY DEF Present
<1>2. \A i \in 1..Len(s) : i \in P <=> s[i] # Absent
    BY <1>1
<1> HIDE DEF P
<1>3. /\ t \in Seq(Int)
      /\ \A k \in 1..Len(t) : \E i \in 1..Len(s) : i \in P /\ t[k] = s[i]
    BY ChosenAreOfIt
<1>4. \A i \in 1..Len(s) : i \in P => \E k \in 1..Len(t) : t[k] = s[i]
    BY AllAreChosen
<1> HIDE DEF t
<1>5. ASSUME NEW v \in Values(t) PROVE v \in Values(s) /\ v # Absent
    <2>1. PICK k \in 1..Len(t) : v = t[k]
        BY DEF Values
    <2>2. PICK i \in 1..Len(s) : i \in P /\ t[k] = s[i]
        BY <1>3
    <2> QED
        BY <1>2, <2>1, <2>2 DEF Values
<1>6. ASSUME NEW v \in Values(s), v # Absent PROVE v \in Values(t)
    <2>1. PICK i \in 1..Len(s) : v = s[i]
        BY DEF Values
    <2>2. PICK k \in 1..Len(t) : t[k] = s[i]
        BY <1>2, <1>4, <1>6, <2>1
    <2> QED
        BY <2>1, <2>2 DEF Values
<1> QED
    BY <1>1, <1>3, <1>5, <1>6

LEMMA FlattenIsSequence ==
    ASSUME NEW S, NEW ss \in Seq(Seq(S))
    PROVE  FlattenSeq(ss) \in Seq(S)
<1> DEFINE n == Len(ss)
           V == Seq(S)
           Joined(f) == f = [i \in 1..n |-> IF i = 1 THEN ss[i] ELSE f[i - 1] \o ss[i]]
           step == [w \in ((1 + 1)..n) \X V |-> w[2] \o ss[w[1]]]
<1>1. n \in Nat /\ \A i \in 1..n : ss[i] \in V
    OBVIOUS
<1>2. \A s, t \in V : s \o t \in V
    OBVIOUS
<1>3. CASE n = 0
    <2>1. ss = <<>>
        BY <1>3, EmptySeq
    <2>2. FlattenSeq(ss) = ss
        BY <1>3 DEF FlattenSeq
    <2>3. <<>> \in Seq(S)
        OBVIOUS
    <2>4. FlattenSeq(ss) = <<>>
        BY <2>1, <2>2
    <2> QED
        BY <2>3, <2>4, Zenon
<1>4. CASE n # 0
    <2> DEFINE c == CHOOSE g : Joined(g)
    <2>1. FlattenSeq(ss) = c[n]
        BY <1>4 DEF FlattenSeq
    <2> HIDE DEF n, V
    <2>2. 1 \in 1..n /\ 1 <= n /\ 1 \in Nat
        BY <1>1, <1>4
    <2>3. step \in [((1 + 1)..n) \X V -> V]
        <3>1. ASSUME NEW w \in ((1 + 1)..n) \X V PROVE w[2] \o ss[w[1]] \in V
            <4>1. w[1] \in 1..n /\ w[2] \in V
                BY <1>1
            <4> QED
                BY <1>1, <1>2, <4>1
        <3> QED
            BY <3>1
    <2> DEFINE first == ss[1]
    <2>4. first \in V
        BY <1>1, <2>2
    <2>5. PICK f : Recursion(f, 1, n, V, first, step)
        <3> HIDE DEF step, first
        <3> QED
            BY <1>1, <2>2, <2>3, <2>4, RecursionExists
    <2>6. /\ f \in [1..n -> V] /\ f[1] = ss[1]
          /\ \A m \in (1 + 1)..n : f[m] = step[<<m, f[m - 1]>>]
        BY <2>5 DEF Recursion
    <2>7. ASSUME NEW m \in 1..n, m # 1 PROVE f[m] = f[m - 1] \o ss[m]
        <3>1. f[m - 1] \in V /\ m \in (1 + 1)..n
            BY <1>1, <2>6, <2>7
        <3>2. <<m, f[m - 1]>> \in ((1 + 1)..n) \X V
            BY <3>1
        <3>3. f[m] = step[<<m, f[m - 1]>>]
            BY <2>6, <3>1
        <3> QED
            BY <3>2, <3>3
    <2>8. Joined(f)
        <3>1. f = [m \in 1..n |-> f[m]]
            BY <2>6
        <3> QED
            BY <2>6, <2>7, <3>1
    <2>9. Joined(c)
        BY <2>8
    <2> HIDE DEF c, step
    <2>10. c[1] = ss[1] /\ \A m \in 1..n : m # 1 => c[m] = c[m - 1] \o ss[m]
        BY <2>2, <2>9
    <2> DEFINE Good == {m \in 1..n : c[m] \in V}
    <2>11. 1 \in Good
        BY <1>1, <2>2, <2>10
    <2>12. ASSUME NEW m \in (1 + 1)..n, m - 1 \in Good PROVE m \in Good
        <3>1. c[m - 1] \in V /\ m \in 1..n /\ m # 1 /\ ss[m] \in V
            BY <1>1, <2>12
        <3> QED
            BY <1>2, <2>10, <3>1
    <2>13. \A m \in 1..n : m \in Good
        <3> HIDE DEF Good
        <3> QED
            BY <1>1, <2>2, <2>11, <2>12, Upwards
    <2>14. n \in 1..n
        BY <1>1, <1>4
    <2> QED
        BY <2>1, <2>13, <2>14 DEF V
<1> QED
    BY <1>3, <1>4

\* What a summary of sound results says of them.
Describes(m, rs) ==
    /\ \A d \in Distributions : Ordered(m[d])
    /\ m.request_count = Len(rs)
    /\ m.success_count + m.failed_latency.count = m.request_count
    /\ m.ttft.count > 0 => m.ttft.max <= 100 * Deadline /\ m.ttft.max <= m.latency.max
    /\ m.visible_ttft.count > 0 => m.ttft.min <= m.visible_ttft.min

LEMMA SummaryDescribes ==
    ASSUME NEW rs, SoundResults(rs)
    PROVE  Describes(Summarize(rs), rs)
<1> DEFINE S == Values(rs)
           ok == Successes(rs)
           no == Failures(rs)
           m == Summarize(rs)
           ttft == Field(ok, "ttft")
           visible == Field(ok, "visible")
           reasoning == Field(ok, "reasoning")
           latency == Field(ok, "latency")
<1>1. rs \in Seq(S) /\ \A r \in S : Sound(r)
    BY DEF SoundResults
<1>2. Len(rs) \in Nat /\ DOMAIN rs = 1..Len(rs) /\ \A i \in 1..Len(rs) : rs[i].ok \in BOOLEAN
    BY <1>1 DEF Sound
<1>3. /\ ok \in Seq(S)
      /\ \A r \in Values(ok) : r \in S /\ r.ok
    <2> DEFINE P == {i \in DOMAIN rs : rs[i].ok}
    <2>1. ok = Chosen(rs, P) /\ \A i \in P : rs[i].ok
        BY DEF Successes
    <2> HIDE DEF S, P, ok
    <2>2. /\ ok \in Seq(S)
          /\ \A k \in 1..Len(ok) : \E i \in 1..Len(rs) : i \in P /\ ok[k] = rs[i]
        BY <1>1, <2>1, ChosenAreOfIt
    <2>3. ASSUME NEW r \in Values(ok) PROVE r \in S /\ r.ok
        <3>1. PICK k \in 1..Len(ok) : r = ok[k]
            BY DEF Values
        <3>2. PICK i \in 1..Len(rs) : i \in P /\ ok[k] = rs[i]
            BY <2>2
        <3> QED
            BY <2>1, <2>2, <3>1, <3>2
    <2> QED
        BY <2>2, <2>3
<1>4. no \in Seq(S)
    <2> HIDE DEF S
    <2> QED
        BY <1>1, ChosenAreOfIt DEF Failures
<1>5. Len(ok) + Len(no) = Len(rs)
    <2> DEFINE P == {i \in DOMAIN rs : rs[i].ok}
               Q == {i \in DOMAIN rs : ~rs[i].ok}
    <2>1. \A i \in 1..Len(rs) : i \in P <=> i \notin Q
        BY <1>2
    <2>2. ok = Chosen(rs, P) /\ no = Chosen(rs, Q)
        BY DEF Successes, Failures
    <2> HIDE DEF P, Q, S, ok, no
    <2> QED
        BY <1>1, <2>1, <2>2, ChosenParts
<1> HIDE DEF ok, no, m
<1>6. /\ latency \in Seq(Int) /\ Values(latency) = {r["latency"] : r \in Values(ok)}
      /\ Field(rs, "latency") \in Seq(Int)
      /\ Field(no, "latency") \in Seq(Int) /\ Len(Field(no, "latency")) = Len(no)
    <2>1. \A r \in S : r["latency"] \in Int
        BY <1>1 DEF Sound
    <2> HIDE DEF S
    <2> QED
        <3>1. IsField(Field(ok, "latency"), ok, "latency", Int)
            BY <1>3, <2>1, FieldIsSequence
        <3>2. IsField(Field(rs, "latency"), rs, "latency", Int)
            BY <1>1, <2>1, FieldIsSequence
        <3>3. IsField(Field(no, "latency"), no, "latency", Int)
            BY <1>4, <2>1, FieldIsSequence
        <3> QED
            BY <3>1, <3>2, <3>3 DEF IsField
<1>7. ttft \in Seq(Int) /\ Values(ttft) = {r["ttft"] : r \in Values(ok)}
    <2>1. \A r \in S : r["ttft"] \in Int
        BY <1>1 DEF Sound
    <2> HIDE DEF S
    <2> QED
        <3>1. IsField(Field(ok, "ttft"), ok, "ttft", Int)
            BY <1>3, <2>1, FieldIsSequence
        <3> QED
            BY <3>1 DEF IsField
<1>8. visible \in Seq(Int) /\ Values(visible) = {r["visible"] : r \in Values(ok)}
    <2>1. \A r \in S : r["visible"] \in Int
        BY <1>1 DEF Sound
    <2> HIDE DEF S
    <2> QED
        <3>1. IsField(Field(ok, "visible"), ok, "visible", Int)
            BY <1>3, <2>1, FieldIsSequence
        <3> QED
            BY <3>1 DEF IsField
<1>9. reasoning \in Seq(Int)
    <2>1. \A r \in S : r["reasoning"] \in Int
        BY <1>1 DEF Sound
    <2> HIDE DEF S
    <2> QED
        <3>1. IsField(Field(ok, "reasoning"), ok, "reasoning", Int)
            BY <1>3, <2>1, FieldIsSequence
        <3> QED
            BY <3>1 DEF IsField
<1>10. Field(ok, "itl") \in Seq(Seq(Int))
    <2>1. \A r \in S : r["itl"] \in Seq(Int)
        BY <1>1 DEF Sound
    <2> HIDE DEF S
    <2> QED
        <3>1. IsField(Field(ok, "itl"), ok, "itl", Seq(Int))
            BY <1>3, <2>1, FieldIsSequence
        <3> QED
            BY <3>1 DEF IsField
<1>11. FlattenSeq(Field(ok, "itl")) \in Seq(Int)
    BY <1>10, FlattenIsSequence
<1>12. Present(reasoning) \in Seq(Int)
    BY <1>9, PresentValues
<1>13. /\ Present(ttft) \in Seq(Int)
       /\ Values(Present(ttft)) = {v \in Values(ttft) : v # Absent}
    BY <1>7, PresentValues
<1>14. /\ Present(visible) \in Seq(Int)
       /\ Values(Present(visible)) = {v \in Values(visible) : v # Absent}
    BY <1>8, PresentValues
<1> HIDE DEF latency, ttft, visible, reasoning
<1>15. /\ m.request_count = Len(rs) /\ m.success_count = Len(ok)
       /\ m.latency = Distribution(latency)
       /\ m.observed_latency = Distribution(Field(rs, "latency"))
       /\ m.failed_latency = Distribution(Field(no, "latency"))
       /\ m.ttft = Distribution(Present(ttft))
       /\ m.visible_ttft = Distribution(Present(visible))
       /\ m.reasoning_ttft = Distribution(Present(reasoning))
       /\ m.itl = Distribution(FlattenSeq(Field(ok, "itl")))
    BY DEF m, Summarize, ok, no, latency, ttft, visible, reasoning
<1>16. \A d \in Distributions : Ordered(m[d])
    <2>1. /\ Ordered(m.latency) /\ Ordered(m.observed_latency) /\ Ordered(m.failed_latency)
          /\ Ordered(m.ttft) /\ Ordered(m.visible_ttft) /\ Ordered(m.reasoning_ttft)
          /\ Ordered(m.itl)
        BY <1>6, <1>11, <1>12, <1>13, <1>14, <1>15, DistributionIsOrdered
    <2> QED
        BY <2>1, Zenon DEF Distributions
<1>17. m.success_count + m.failed_latency.count = m.request_count
    <2>1. Distribution(Field(no, "latency")).count = Len(Field(no, "latency"))
        BY <1>6, DistributionIsOrdered
    <2> QED
        BY <1>5, <1>6, <1>15, <2>1
<1>18. m.ttft.count > 0 => m.ttft.max <= 100 * Deadline /\ m.ttft.max <= m.latency.max
    <2> DEFINE t == Present(ttft)
    <2> SUFFICES ASSUME Distribution(t).count > 0
                 PROVE  /\ Distribution(t).max <= 100 * Deadline
                        /\ Distribution(t).max <= Distribution(latency).max
        BY <1>15
    <2>1. t \in Seq(Int) /\ \A x \in Values(t) : x \in Values(ttft)
        BY <1>13
    <2> HIDE DEF t
    <2>2. Len(t) > 0
        BY <2>1, DistributionIsOrdered
    <2>3. PICK high \in Values(t) : Distribution(t).max = 100 * high
        BY <2>1, <2>2, DistributionIsOrdered
    <2>4. PICK r \in Values(ok) : high = r["ttft"]
        BY <1>7, <2>1, <2>3
    <2>5. /\ high \in Int /\ high <= Deadline /\ high <= r["latency"]
          /\ r["latency"] \in Int /\ r["latency"] \in Values(latency)
        BY <1>1, <1>3, <1>6, <2>4 DEF Sound
    <2>6. Len(latency) > 0
        <3>1. PICK i \in 1..Len(latency) : r["latency"] = latency[i]
            BY <2>5 DEF Values
        <3>2. Len(latency) \in Nat
            BY <1>6
        <3> QED
            BY <3>1, <3>2
    <2>7. PICK most \in Values(latency) : /\ Distribution(latency).max = 100 * most
                                          /\ \A x \in Values(latency) : x <= most
        BY <1>6, <2>6, DistributionIsOrdered
    <2>8. most \in Int
        <3>1. PICK i \in 1..Len(latency) : most = latency[i]
            BY DEF Values
        <3> QED
            BY <1>6, <3>1
    <2>9. r["latency"] <= most
        BY <2>5, <2>7
    <2> QED
        BY <2>3, <2>5, <2>7, <2>8, <2>9, RequestAssumption
<1>19. m.visible_ttft.count > 0 => m.ttft.min <= m.visible_ttft.min
    <2> DEFINE v == Present(visible)
               t == Present(ttft)
    <2> SUFFICES ASSUME Distribution(v).count > 0
                 PROVE  Distribution(t).min <= Distribution(v).min
        BY <1>15
    <2>1. v \in Seq(Int) /\ t \in Seq(Int)
        BY <1>13, <1>14
    <2>2. \A x \in Values(v) : x \in Values(visible) /\ x # Absent
        BY <1>14
    <2>3. \A x \in Values(ttft) : x # Absent => x \in Values(t)
        BY <1>13
    <2> HIDE DEF v, t
    <2>4. Len(v) > 0
        BY <2>1, DistributionIsOrdered
    <2>5. PICK low \in Values(v) : Distribution(v).min = 100 * low
        BY <2>1, <2>4, DistributionIsOrdered
    <2>6. PICK r \in Values(ok) : low = r["visible"]
        BY <1>8, <2>2, <2>5
    <2>7. Sound(r) /\ r["visible"] # Absent
        BY <1>1, <1>3, <2>2, <2>5, <2>6
    <2>8. r["ttft"] \in Int /\ low \in Int /\ r["ttft"] <= low /\ r["ttft"] # Absent
        BY <2>6, <2>7 DEF Sound
    <2>9. r["ttft"] \in Values(t)
        BY <1>7, <2>3, <2>8
    <2>10. Len(t) > 0
        <3>1. PICK i \in 1..Len(t) : r["ttft"] = t[i]
            BY <2>9 DEF Values
        <3>2. Len(t) \in Nat
            BY <2>1
        <3> QED
            BY <3>1, <3>2
    <2>11. PICK least \in Values(t) : /\ Distribution(t).min = 100 * least
                                      /\ \A x \in Values(t) : least <= x
        BY <2>1, <2>10, DistributionIsOrdered
    <2>12. least \in Int /\ least <= r["ttft"]
        BY <2>1, <2>9, <2>11 DEF Values
    <2> QED
        BY <2>5, <2>8, <2>11, <2>12
<1> QED
    BY <1>15, <1>16, <1>17, <1>18, <1>19 DEF Describes, m

-----------------------------------------------------------------------------
(* What a request has read and when, and the results there are               *)

OutputPlaces(s) == {i \in DOMAIN s : s[i] \in Output}

\* The times are those of the chunks with output, in order and not in the future.
TimesInv ==
    /\ trial.sends \subseteq Events
    /\ seen \in Seq(Events)
    /\ times \in Seq(Nat) /\ Len(times) = Len(Chosen(seen, OutputPlaces(seen)))
    /\ Rising(times) /\ \A i \in 1..Len(times) : times[i] <= now
    /\ pc = "finish" => Sound(result)

\* A body is read in order: nothing before it begins, every output in time when the
\* deadline has been looked at for the last time, and no error of an Ollama stream.
BodyInv ==
    /\ pc \notin {"reading", "read", "finish"} => seen = <<>>
    /\ pc = "read" => ended /\ \A i \in DOMAIN times : times[i] <= Deadline
    /\ pc \in {"reading", "read"} /\ Streaming /\ trial.protocol = "ollama" =>
           "error" \notin ToSet(seen)
    /\ OkResultIsComplete

\* The warmup and each measured request before this one have left their result.
ResultsInv ==
    /\ request \in 0..Requests /\ SoundResults(results)
    /\ pc = "create" => request = 0 /\ results = <<>> /\ metrics = NoMetrics
    /\ pc = "idle" => /\ request < Requests
                      /\ Len(results) = IF request = 0 THEN 0 ELSE request - 1
    /\ InFlight \/ pc = "finish" =>
           request > 0 /\ Len(results) = IF request = 1 THEN 0 ELSE request - 2
    /\ pc = "over" => Len(results) = Requests - 1

\* Metrics are there of a run that has stored them, and are those of its results.
StoredInv ==
    metrics # NoMetrics =>
        /\ pc = "stored" /\ Len(results) = Requests - 1
        /\ \A f \in DOMAIN Summarize(results) : metrics[f] = Summarize(results)[f]

MetricsInv == RequestInv /\ TimesInv /\ BodyInv /\ ResultsInv /\ StoredInv

\* The chunk a time of the reader's belongs to is one with output.
LEMMA FirstTimeIsOne ==
    ASSUME TimesInv, NEW kinds, FirstTime(kinds) # Absent
    PROVE  \E i \in 1..Len(times) :
               /\ FirstTime(kinds) = times[i] /\ Chosen(seen, OutputPlaces(seen))[i] \in kinds
               /\ Streaming
<1> DEFINE output == Chosen(seen, OutputPlaces(seen))
           at == {i \in 1..Len(output) : output[i] \in kinds}
           first == CHOOSE i \in at : \A j \in at : i <= j
<1>1. FirstTime(kinds) = IF Streaming /\ at # {} THEN times[first] ELSE Absent
    BY DEF FirstTime, OutputPlaces
<1>2. Streaming /\ at # {} /\ FirstTime(kinds) = times[first]
    BY <1>1
<1>3. Len(output) = Len(times) /\ Len(times) \in Nat
    BY DEF TimesInv
<1>4. at \subseteq Nat
    BY <1>3
<1>5. \E i \in at : \A j \in at : i <= j
    BY <1>2, <1>4, LeastExists
<1>6. first \in at
    BY <1>5
<1> HIDE DEF first, output
<1> QED
    BY <1>2, <1>3, <1>6 DEF output

LEMMA FirstTimeIsInt ==
    ASSUME TimesInv, NEW kinds
    PROVE  FirstTime(kinds) \in Int
<1>1. CASE FirstTime(kinds) = Absent
    BY <1>1 DEF Absent
<1>2. CASE FirstTime(kinds) # Absent
    <2>1. PICK i \in 1..Len(times) : FirstTime(kinds) = times[i]
        BY <1>2, FirstTimeIsOne
    <2> QED
        BY <2>1 DEF TimesInv
<1> QED
    BY <1>1, <1>2

\* The first visible output is not before the first output.
LEMMA VisibleIsOutput ==
    ASSUME TimesInv, NEW kinds, kinds \subseteq Output, FirstTime(kinds) # Absent
    PROVE  FirstTime(Output) # Absent /\ FirstTime(Output) <= FirstTime(kinds)
<1> DEFINE output == Chosen(seen, OutputPlaces(seen))
           at == {i \in 1..Len(output) : output[i] \in Output}
           first == CHOOSE i \in at : \A j \in at : i <= j
<1>1. PICK i \in 1..Len(times) :
          FirstTime(kinds) = times[i] /\ output[i] \in kinds /\ Streaming
    BY FirstTimeIsOne
<1>2. Len(output) = Len(times) /\ Len(times) \in Nat /\ \A j \in 1..Len(times) : times[j] \in Nat
    BY DEF TimesInv
<1>3. i \in at /\ at \subseteq Nat
    BY <1>1, <1>2
<1>4. \E k \in at : \A j \in at : k <= j
    BY <1>3, LeastExists
<1>5. first \in at /\ \A j \in at : first <= j
    BY <1>4
<1>6. FirstTime(Output) = times[first]
    <2>1. FirstTime(Output) = IF Streaming /\ at # {} THEN times[first] ELSE Absent
        BY DEF FirstTime, OutputPlaces
    <2> QED
        BY <1>1, <1>3, <2>1
<1> HIDE DEF first, output
<1>7. first \in 1..Len(times) /\ first <= i
    BY <1>2, <1>3, <1>5
<1>8. times[first] <= times[i] /\ times[first] \in Nat
    BY <1>1, <1>2, <1>7 DEF TimesInv, Rising
<1> QED
    BY <1>1, <1>6, <1>8 DEF Absent

LEMMA FailedResultIsSound == \A t \in Int : Sound(FailedResult(t))
    BY DEF Sound, FailedResult, Absent

\* with_check_result changes no time.
LEMMA CheckedKeepsTimes ==
    ASSUME NEW t, NEW l, NEW v, NEW e, NEW i, NEW r,
           r = [ok |-> TRUE, check |-> "none", latency |-> l, ttft |-> t,
                visible |-> v, reasoning |-> e, itl |-> i]
    PROVE  /\ (Checked(r)).ok \in BOOLEAN /\ (Checked(r)).latency = l
           /\ (Checked(r)).ttft = t /\ (Checked(r)).visible = v
           /\ (Checked(r)).reasoning = e /\ (Checked(r)).itl = i
<1> DEFINE wanted == trial.expects
           empty == ToSet(seen) \cap {"fragment", "text"} = {}
           missing == wanted /\ "fragment" \notin ToSet(seen)
           c == Checked(r)
<1>1. CASE empty
    <2>1. c = [r EXCEPT !.ok = FALSE, !.check = IF wanted THEN "failed" ELSE "none"]
        BY <1>1 DEF Checked
    <2> QED
        BY <2>1
<1>2. CASE ~empty /\ missing
    <2>1. c = [r EXCEPT !.ok = FALSE, !.check = "failed"]
        BY <1>2 DEF Checked
    <2> QED
        BY <2>1
<1>3. CASE ~empty /\ ~missing
    <2>1. c = [r EXCEPT !.check = IF wanted THEN "passed" ELSE "none"]
        BY <1>3 DEF Checked
    <2> QED
        BY <2>1
<1> QED
    BY <1>1, <1>2, <1>3

LEMMA AcceptedIsSound ==
    ASSUME TimesInv, now \in Nat, \A i \in DOMAIN times : times[i] <= Deadline
    PROVE  Sound(Accepted)
<1> DEFINE visible == {"fragment", "text", "blank"}
           itl == Read.itl
<1>1. CASE reply.status = 500 \/ "garbage" \in ToSet(seen)
    BY <1>1, FailedResultIsSound DEF Accepted
<1>2. CASE ~(reply.status = 500 \/ "garbage" \in ToSet(seen))
    <2>1. Accepted = Checked(Read)
        BY <1>2 DEF Accepted
    <2>2. Read = [ok |-> TRUE, check |-> "none", latency |-> now, ttft |-> FirstTime(Output),
                  visible |-> FirstTime(visible), reasoning |-> FirstTime({"reasoning"}),
                  itl |-> itl]
        BY DEF Read
    <2>3. itl \in Seq(Int)
        <3>1. itl = IF Streaming /\ times # <<>>
                    THEN [i \in 1..(Len(times) - 1) |-> times[i + 1] - times[i]] ELSE <<>>
            BY DEF Read
        <3>2. CASE Streaming /\ times # <<>>
            <4>1. times \in Seq(Nat) /\ Len(times) \in Nat /\ Len(times) # 0
                BY <3>2, EmptySeq DEF TimesInv
            <4>2. \A i \in 1..(Len(times) - 1) : times[i + 1] - times[i] \in Int
                BY <4>1
            <4>3. itl \in [1..(Len(times) - 1) -> Int] /\ Len(times) - 1 \in Nat
                BY <3>1, <3>2, <4>1, <4>2
            <4> HIDE DEF itl
            <4> QED
                BY <4>3
        <3>3. CASE ~(Streaming /\ times # <<>>)
            BY <3>1, <3>3
        <3> QED
            BY <3>2, <3>3
    <2> HIDE DEF itl
    <2>4. visible \subseteq Output
        BY DEF Output
    <2>5. /\ FirstTime(Output) \in Int /\ FirstTime(visible) \in Int
          /\ FirstTime({"reasoning"}) \in Int
          /\ FirstTime(visible) # Absent =>
                 FirstTime(Output) # Absent /\ FirstTime(Output) <= FirstTime(visible)
        BY <2>4, FirstTimeIsInt, VisibleIsOutput
    <2> HIDE DEF visible
    <2>7. FirstTime(Output) <= Deadline /\ FirstTime(Output) <= now
        <3>1. CASE FirstTime(Output) = Absent
            BY <3>1, RequestAssumption DEF Absent
        <3>2. CASE FirstTime(Output) # Absent
            <4>1. PICK i \in 1..Len(times) : FirstTime(Output) = times[i]
                BY <3>2, FirstTimeIsOne
            <4>2. times[i] <= now /\ i \in DOMAIN times
                BY DEF TimesInv
            <4> QED
                BY <4>1, <4>2
        <3> QED
            BY <3>1, <3>2
    <2>6. /\ Accepted.ok \in BOOLEAN /\ Accepted.latency = now
          /\ Accepted.ttft = FirstTime(Output) /\ Accepted.visible = FirstTime(visible)
          /\ Accepted.reasoning = FirstTime({"reasoning"}) /\ Accepted.itl = itl
        BY <2>1, <2>2, CheckedKeepsTimes
    <2> QED
        BY <2>3, <2>5, <2>6, <2>7 DEF Sound
<1> QED
    BY <1>1, <1>2

-----------------------------------------------------------------------------
(* What was read, the results and the metrics stay right.                    *)

LEMMA InitHasNoMetrics == Init => MetricsInv
<1> SUFFICES ASSUME Init PROVE MetricsInv
    OBVIOUS
<1>1. seen = <<>> /\ times = <<>> /\ results = <<>> /\ request = 0 /\ pc = "create"
      /\ metrics = NoMetrics /\ trial.sends \subseteq Events
    BY DEF Init
<1>2. /\ seen \in Seq(Events) /\ times \in Seq(Nat) /\ results \in Seq(Values(results))
      /\ Values(results) = {} /\ Len(times) = 0 /\ Len(seen) = 0
    BY <1>1 DEF Values
<1>3. Len(Chosen(seen, OutputPlaces(seen))) = 0
    BY <1>2, NothingChosen
<1>4. TimesInv
    BY <1>1, <1>2, <1>3 DEF TimesInv, Rising
<1>5. ResultsInv
    BY <1>1, <1>2, RequestAssumption DEF ResultsInv, SoundResults, InFlight
<1> QED
    BY <1>1, <1>4, <1>5, InitEstablishes DEF MetricsInv, StoredInv, BodyInv, OkResultIsComplete

\* A step within a request that reads nothing, the one that ends it included
LEMMA InnerStepCounts ==
    ASSUME MetricsInv, InFlight,
           UNCHANGED <<trial, request, now, seen, times, results, metrics>>,
           InFlight' \/ (pc' = "finish" /\ Sound(result'))
    PROVE  TimesInv' /\ ResultsInv' /\ StoredInv'
<1> USE DEF MetricsInv
<1>1. TimesInv'
    BY DEF TimesInv, InFlight, OutputPlaces
<1>2. ResultsInv'
    BY DEF ResultsInv, InFlight
<1>3. StoredInv'
    BY DEF StoredInv, InFlight
<1> QED
    BY <1>1, <1>2, <1>3

LEMMA FailCounts ==
    ASSUME MetricsInv, InFlight, Fail
    PROVE  TimesInv' /\ ResultsInv' /\ StoredInv'
<1>1. /\ UNCHANGED <<trial, request, now, seen, times, results, metrics>>
      /\ pc' = "finish" /\ result' = FailedResult(now)
    BY DEF Fail, Return, slot, run
<1>2. Sound(result')
    BY <1>1, FailedResultIsSound DEF MetricsInv, RequestInv, CutInv
<1> QED
    BY <1>1, <1>2, InnerStepCounts

LEMMA UnrelatedStepCounts ==
    ASSUME MetricsInv,
           UNCHANGED <<trial, request, pc, now, seen, times, result, results, metrics>>
    PROVE  TimesInv' /\ ResultsInv' /\ StoredInv'
<1> USE DEF MetricsInv
<1>1. TimesInv'
    BY DEF TimesInv, OutputPlaces
<1>2. ResultsInv'
    BY DEF ResultsInv, InFlight
<1>3. StoredInv'
    BY DEF StoredInv
<1> QED
    BY <1>1, <1>2, <1>3

LEMMA CreatePoolCounts == MetricsInv /\ CreatePool => TimesInv' /\ ResultsInv' /\ StoredInv'
<1> SUFFICES ASSUME MetricsInv, CreatePool PROVE TimesInv' /\ ResultsInv' /\ StoredInv'
    OBVIOUS
<1> USE DEF MetricsInv
<1>1. /\ pc = "create" /\ pc' \in {"stored", "idle"}
      /\ UNCHANGED <<trial, request, now, seen, times, result, results, metrics>>
    BY DEF CreatePool, call, run
<1>2. TimesInv'
    BY <1>1 DEF TimesInv, OutputPlaces
<1>3. ResultsInv'
    BY <1>1, RequestAssumption DEF ResultsInv, InFlight
<1>4. StoredInv'
    BY <1>1 DEF StoredInv, ResultsInv
<1> QED
    BY <1>2, <1>3, <1>4

\* The next request begins with nothing read, and the last one is counted.
LEMMA GiveBackCounts == MetricsInv /\ GiveBack => TimesInv' /\ ResultsInv' /\ StoredInv'
<1> SUFFICES ASSUME MetricsInv, GiveBack PROVE TimesInv' /\ ResultsInv' /\ StoredInv'
    OBVIOUS
<1> USE DEF MetricsInv
<1>1. /\ pc = "finish" /\ pc' = (IF request = Requests THEN "over" ELSE "idle")
      /\ now' = 0 /\ seen' = <<>> /\ times' = <<>>
      /\ UNCHANGED <<trial, request, metrics>>
      /\ IF request = 1 THEN UNCHANGED results ELSE results' = Append(results, result)
    BY DEF GiveBack, Fresh
<1>2. TimesInv'
    <2>1. /\ seen' \in Seq(Events) /\ times' \in Seq(Nat) /\ Len(times') = 0 /\ Len(seen') = 0
        BY <1>1
    <2>2. Len(Chosen(seen', OutputPlaces(seen'))) = 0
        BY <2>1, NothingChosen
    <2> QED
        BY <1>1, <2>1, <2>2 DEF TimesInv, Rising, OutputPlaces
<1>3. request \in 1..Requests /\ Len(results) = IF request = 1 THEN 0 ELSE request - 2
    BY <1>1 DEF ResultsInv
<1>4. SoundResults(results') /\ Len(results') = request - 1
    <2>1. CASE request = 1
        BY <1>1, <1>3, <2>1 DEF ResultsInv
    <2>2. CASE request # 1
        <3>1. Sound(result) /\ SoundResults(results)
            BY <1>1 DEF TimesInv, ResultsInv
        <3>2. /\ SoundResults(Append(results, result))
              /\ Len(Append(results, result)) = Len(results) + 1
            BY <3>1, MoreResults
        <3>3. results' = Append(results, result)
            BY <1>1, <2>2
        <3>4. SoundResults(results)' /\ Len(results') = Len(results) + 1
            BY <3>2, <3>3 DEF SoundResults, Values
        <3> QED
            BY <1>3, <2>2, <3>4
    <2> QED
        BY <2>1, <2>2
<1>5. ResultsInv'
    BY <1>1, <1>3, <1>4, RequestAssumption DEF ResultsInv, InFlight
<1>6. StoredInv'
    BY <1>1 DEF StoredInv
<1> QED
    BY <1>2, <1>5, <1>6

LEMMA StartCounts == MetricsInv /\ Start => TimesInv' /\ ResultsInv' /\ StoredInv'
<1> SUFFICES ASSUME MetricsInv, Start PROVE TimesInv' /\ ResultsInv' /\ StoredInv'
    OBVIOUS
<1> USE DEF MetricsInv
<1>1. /\ pc = "idle" /\ pc' = "hop" /\ request' = request + 1
      /\ UNCHANGED <<trial, now, seen, times, result, results, metrics>>
    BY DEF Start, slot, call, run
<1>2. TimesInv'
    BY <1>1 DEF TimesInv, OutputPlaces
<1>3. ResultsInv'
    BY <1>1, RequestAssumption DEF ResultsInv, InFlight
<1>4. StoredInv'
    BY <1>1 DEF StoredInv
<1> QED
    BY <1>2, <1>3, <1>4

\* A chunk with output is remembered with its time, which is not before another's.
LEMMA ReadChunkCounts == MetricsInv /\ ReadChunk => TimesInv' /\ ResultsInv' /\ StoredInv'
<1> SUFFICES ASSUME MetricsInv, ReadChunk PROVE TimesInv' /\ ResultsInv' /\ StoredInv'
    OBVIOUS
<1>1. CASE Fail
    BY <1>1, FailCounts DEF ReadChunk, InFlight
<1>2. CASE ~Fail
    <2> USE DEF MetricsInv
    <2>1. PICK event \in trial.sends :
              /\ seen' = Append(seen, event)
              /\ times' = IF event \in Output THEN Append(times, now') ELSE times
              /\ now' \in {now, now + 1}
              /\ UNCHANGED <<trial, request, pc, result, results, metrics>>
        BY <1>2 DEF ReadChunk, slot, run
    <2>2. pc = "reading" /\ event \in Events /\ now \in Nat /\ now' \in Nat /\ now <= now'
        BY <2>1 DEF ReadChunk, TimesInv, RequestInv, CutInv
    <2> DEFINE P == OutputPlaces(seen)
               Q == OutputPlaces(Append(seen, event))
    <2>3. /\ seen \in Seq(Events) /\ times \in Seq(Nat) /\ Len(times) = Len(Chosen(seen, P))
          /\ Rising(times) /\ \A i \in 1..Len(times) : times[i] <= now
        BY DEF TimesInv
    <2>4. /\ \A m \in 1..Len(seen) : m \in P <=> m \in Q
          /\ Len(seen) + 1 \in Q <=> event \in Output
        BY <2>2, <2>3 DEF OutputPlaces
    <2> HIDE DEF P, Q
    <2>5. Chosen(Append(seen, event), Q) =
              IF event \in Output THEN Append(Chosen(seen, P), event) ELSE Chosen(seen, P)
        <3>1. Chosen(Append(seen, event), Q) =
                  IF Len(seen) + 1 \in Q THEN Append(Chosen(seen, P), event) ELSE Chosen(seen, P)
            BY <2>2, <2>3, <2>4, ChosenOfMore
        <3> QED
            BY <2>4, <3>1
    <2>6. Chosen(seen, P) \in Seq(Events)
        BY <2>3, ChosenAreOfIt
    <2>7. seen' \in Seq(Events) /\ times' \in Seq(Nat)
        BY <2>1, <2>2, <2>3
    <2>8. Len(times') = Len(Chosen(Append(seen, event), Q))
        <3> DEFINE chosen == Chosen(seen, P)
        <3> HIDE DEF chosen
        <3>1. Len(Append(chosen, event)) = Len(chosen) + 1
            BY <2>2, <2>6 DEF chosen
        <3>2. Len(Append(times, now')) = Len(times) + 1
            BY <2>2, <2>3
        <3> QED
            BY <2>1, <2>3, <2>5, <3>1, <3>2 DEF chosen
    <2>9. Rising(times') /\ \A i \in 1..Len(times') : times'[i] <= now'
        <3>1. CASE event \in Output
            <4>1. /\ times' = Append(times, now') /\ Len(times') = Len(times) + 1 /\ Len(times) \in Nat
                  /\ \A i \in 1..Len(times) : times'[i] = times[i]
                  /\ times'[Len(times) + 1] = now'
                BY <2>1, <2>2, <2>3, <3>1
            <4>2. \A i \in 1..Len(times') : i \in 1..Len(times) \/ i = Len(times) + 1
                BY <4>1
            <4>3. \A i \in 1..Len(times') : times'[i] <= now'
                BY <2>2, <2>3, <4>1, <4>2
            <4>4. ASSUME NEW i \in 1..Len(times'), NEW j \in 1..Len(times'), i <= j
                  PROVE  times'[i] <= times'[j]
                <5>1. CASE j = Len(times) + 1
                    BY <4>1, <4>3, <5>1
                <5>2. CASE j # Len(times) + 1
                    <6>1. i \in 1..Len(times) /\ j \in 1..Len(times)
                        BY <4>1, <4>4, <5>2
                    <6> QED
                        BY <2>3, <4>1, <4>4, <6>1 DEF Rising
                <5> QED
                    BY <5>1, <5>2
            <4> QED
                BY <4>3, <4>4 DEF Rising
        <3>2. CASE event \notin Output
            <4>1. times' = times /\ \A i \in 1..Len(times) : times[i] \in Nat /\ times[i] <= now
                BY <2>1, <2>3, <3>2
            <4>2. \A i \in 1..Len(times) : times[i] <= now'
                BY <2>2, <4>1
            <4> QED
                BY <2>3, <4>1, <4>2 DEF Rising
        <3> QED
            BY <3>1, <3>2
    <2>10. TimesInv'
        <3>1. OutputPlaces(seen)' = Q
            BY <2>1 DEF OutputPlaces, Q
        <3>2. Chosen(seen, OutputPlaces(seen))' = Chosen(Append(seen, event), Q)
            BY <2>1, <3>1
        <3> QED
            BY <2>1, <2>2, <2>7, <2>8, <2>9, <3>2 DEF TimesInv
    <2>11. ResultsInv' /\ StoredInv'
        BY <2>1, <2>2 DEF ResultsInv, StoredInv, InFlight
    <2> QED
        BY <2>10, <2>11
<1> QED
    BY <1>1, <1>2

LEMMA TickCounts == MetricsInv /\ Tick => TimesInv' /\ ResultsInv' /\ StoredInv'
<1> SUFFICES ASSUME MetricsInv, Tick PROVE TimesInv' /\ ResultsInv' /\ StoredInv'
    OBVIOUS
<1> USE DEF MetricsInv
<1>1. /\ InFlight /\ now' = now + 1 /\ now \in Nat
      /\ UNCHANGED <<trial, request, pc, seen, times, result, results, metrics>>
    BY DEF Tick, slot, run, RequestInv, CutInv
<1>2. TimesInv'
    <2>1. \A i \in 1..Len(times) : times[i] \in Nat /\ times[i] <= now
        BY DEF TimesInv
    <2>2. \A i \in 1..Len(times) : times[i] <= now + 1
        BY <1>1, <2>1
    <2> QED
        BY <1>1, <2>2 DEF TimesInv, OutputPlaces
<1>3. ResultsInv' /\ StoredInv'
    BY <1>1 DEF ResultsInv, StoredInv, InFlight
<1> QED
    BY <1>2, <1>3

\* The run's metrics, also when they are computed again, are those of its results.
LEMMA StoringCounts ==
    MetricsInv /\ (Record \/ Reparse) => TimesInv' /\ ResultsInv' /\ StoredInv'
<1> SUFFICES ASSUME MetricsInv, Record \/ Reparse PROVE TimesInv' /\ ResultsInv' /\ StoredInv'
    OBVIOUS
<1> USE DEF MetricsInv
<1>1. /\ pc' = "stored" /\ pc \in {"over", "stored"} /\ Len(results) = Requests - 1
      /\ UNCHANGED <<trial, request, now, seen, times, result, results>>
      /\ metrics' = Recorded \/ metrics' = Summarize(results)
    BY DEF Record, Reparse, slot, call, ResultsInv, StoredInv
<1>2. \A f \in DOMAIN Summarize(results) : metrics'[f] = Summarize(results)[f]
    <2>1. CASE metrics' = Recorded
        <3> DEFINE summary == Summarize(results)
        <3> HIDE DEF summary
        <3>1. metrics' = [f \in DOMAIN summary \cup {"warmup_error_count"} |->
                             IF f \in DOMAIN summary THEN summary[f]
                             ELSE IF warmup THEN 0 ELSE 1]
            BY <2>1 DEF Recorded, summary
        <3>2. \A f \in DOMAIN summary : metrics'[f] = summary[f]
            BY <3>1
        <3> QED
            BY <3>2 DEF summary
    <2>2. CASE metrics' = Summarize(results)
        BY <2>2
    <2> QED
        BY <1>1, <2>1, <2>2
<1>3. TimesInv'
    BY <1>1 DEF TimesInv, OutputPlaces
<1>4. ResultsInv'
    BY <1>1 DEF ResultsInv, InFlight
<1>5. StoredInv'
    BY <1>1, <1>2 DEF StoredInv
<1> QED
    BY <1>3, <1>4, <1>5

\* What is there when the deadline has been looked at for the last time stays so.
LEMMA BodyKeeps == MetricsInv /\ [Next]_vars => BodyInv'
<1> SUFFICES ASSUME MetricsInv, [Next]_vars PROVE BodyInv'
    OBVIOUS
<1> USE DEF MetricsInv
<1>1. CASE InFlight /\ Fail
    <2>1. pc' = "finish" /\ ~result'.ok
        BY <1>1, FailedResultIsNotOk DEF Fail, Return
    <2> QED
        BY <2>1 DEF BodyInv, OkResultIsComplete
<1>2. CASE /\ InFlight /\ ~Fail
           /\ Hop \/ Dispatch \/ ArmBody \/ ReceiveHeaders \/ StreamRaises \/ ReadRaises
    <2>1. seen = <<>> /\ seen' = <<>> /\ pc' \in {"sent", "hop", "arm", "reading", "answered"}
        BY <1>2 DEF Hop, Dispatch, ArmBody, ReceiveHeaders, StreamRaises, ReadRaises, BodyInv
    <2>2. "error" \notin ToSet(seen')
        BY <2>1 DEF ToSet
    <2> QED
        BY <2>1, <2>2 DEF BodyInv, OkResultIsComplete
<1>3. CASE ReadChunk /\ ~Fail
    <2>1. PICK event \in trial.sends : seen' = Append(seen, event) /\ ~ReaderRaises(event)
        BY <1>3 DEF ReadChunk
    <2>2. pc = "reading" /\ UNCHANGED <<trial, pc, reply, result>>
        BY <1>3 DEF ReadChunk, slot
    <2>3. ASSUME "error" \in ToSet(seen') PROVE "error" \in ToSet(seen) \/ event = "error"
        <3>1. seen \in Seq(Events) /\ event \in Events
            BY DEF TimesInv
        <3>2. PICK i \in 1..(Len(seen) + 1) : seen'[i] = "error"
            BY <2>1, <2>3, <3>1 DEF ToSet
        <3>3. CASE i = Len(seen) + 1
            BY <2>1, <3>1, <3>2, <3>3
        <3>4. CASE i # Len(seen) + 1
            <4>1. i \in DOMAIN seen /\ seen[i] = "error"
                BY <2>1, <3>1, <3>2, <3>4
            <4> QED
                BY <4>1 DEF ToSet
        <3> QED
            BY <3>3, <3>4
    <2>4. Streaming' = Streaming
        BY <2>2 DEF Streaming
    <2> QED
        BY <2>1, <2>2, <2>3, <2>4 DEF BodyInv, OkResultIsComplete, ReaderRaises
<1>4. CASE EndOfBody
    <2>1. CASE Late
        <3>1. pc' = "finish" /\ ~result'.ok
            BY <1>4, <2>1, FailedResultIsNotOk DEF EndOfBody
        <3> QED
            BY <3>1 DEF BodyInv, OkResultIsComplete
    <2>2. CASE ~Late
        <3>1. pc = "reading" /\ pc' = "read" /\ UNCHANGED <<trial, reply, seen, times>>
            BY <1>4, <2>2 DEF EndOfBody, slot
        <3>2. ended' = TRUE
            BY <1>4, <2>2 DEF EndOfBody, RequestInv, CutInv
        <3>3. \A i \in DOMAIN times : times[i] <= Deadline
            <4>1. now \in Nat /\ now <= Deadline
                BY <2>2, RequestAssumption DEF Late, RequestInv, CutInv
            <4>2. times \in Seq(Nat) /\ \A i \in 1..Len(times) : times[i] <= now
                BY DEF TimesInv
            <4> QED
                BY <4>1, <4>2, RequestAssumption
        <3>4. Streaming' = Streaming
            BY <3>1 DEF Streaming
        <3> QED
            BY <3>1, <3>2, <3>3, <3>4 DEF BodyInv, OkResultIsComplete
    <2> QED
        BY <2>1, <2>2
<1>5. CASE TakeResult
    <2>1. /\ pc = "read" /\ pc' = "finish" /\ result' = Accepted
          /\ UNCHANGED <<trial, reply, ended, seen, times>>
        BY <1>5 DEF TakeResult, Return, slot
    <2>2. Streaming' = Streaming
        BY <2>1 DEF Streaming
    <2>3. OkResultIsComplete'
        BY <2>1, <2>2, AcceptedIsComplete DEF OkResultIsComplete, BodyInv
    <2> QED
        BY <2>1, <2>3 DEF BodyInv
<1>6. CASE Tick \/ Fire \/ UNCHANGED vars
    <2>1. UNCHANGED <<trial, pc, reply, ended, seen, times, result>>
        BY <1>6 DEF Tick, Fire, vars, slot, call
    <2>2. Streaming' = Streaming
        BY <2>1 DEF Streaming
    <2> QED
        BY <2>1, <2>2 DEF BodyInv, OkResultIsComplete
<1>7. CASE CreatePool \/ GiveBack \/ Start \/ Record \/ Reparse
    <2>1. pc' \in {"stored", "idle", "over", "hop"} /\ seen' = <<>>
        BY <1>7 DEF CreatePool, GiveBack, Fresh, Start, Record, Reparse, call, BodyInv
    <2> QED
        BY <2>1 DEF BodyInv, OkResultIsComplete
<1>8. Hop \/ Dispatch \/ ArmBody \/ ReceiveHeaders \/ StreamRaises \/ ReadRaises \/ ReadChunk
          => InFlight
    BY DEF Hop, Dispatch, ArmBody, ReceiveHeaders, StreamRaises, ReadRaises, ReadChunk, InFlight
<1> QED
    BY <1>1, <1>2, <1>3, <1>4, <1>5, <1>6, <1>7, <1>8 DEF Next, Worker

LEMMA MetricsAlways == Spec => []MetricsInv
<1>1. MetricsInv /\ [Next]_vars => MetricsInv'
    <2> SUFFICES ASSUME MetricsInv, [Next]_vars PROVE MetricsInv'
        OBVIOUS
    <2>1. RequestInv' /\ BodyInv'
        BY InvariantIsKept, BodyKeeps DEF MetricsInv
    <2>2. CASE /\ InFlight /\ ~Fail
               /\ Hop \/ Dispatch \/ ArmBody \/ ReceiveHeaders \/ StreamRaises \/ ReadRaises
        <3>1. /\ UNCHANGED <<trial, request, now, seen, times, results, metrics>>
              /\ pc' \in {"sent", "hop", "arm", "reading", "answered"}
            BY <2>2 DEF Hop, Dispatch, ArmBody, ReceiveHeaders, StreamRaises, ReadRaises,
                        slot, run
        <3> QED
            BY <2>1, <2>2, <3>1, InnerStepCounts DEF InFlight, MetricsInv
    <2>3. CASE InFlight /\ Fail
        BY <2>1, <2>3, FailCounts DEF MetricsInv
    <2>4. CASE EndOfBody \/ TakeResult
        <3>1. /\ UNCHANGED <<trial, request, now, seen, times, results, metrics>>
              /\ InFlight
              /\ \/ pc' = "read"
                 \/ pc' = "finish" /\ result' = FailedResult(now)
                 \/ pc = "read" /\ pc' = "finish" /\ result' = Accepted
            BY <2>4 DEF EndOfBody, TakeResult, Return, slot, run, InFlight
        <3>2. CASE pc' = "read"
            BY <2>1, <3>1, <3>2, InnerStepCounts DEF InFlight, MetricsInv
        <3>3. CASE pc' # "read"
            <4>1. Sound(result')
                BY <3>1, <3>3, FailedResultIsSound, AcceptedIsSound
                   DEF MetricsInv, RequestInv, CutInv, BodyInv
            <4> QED
                BY <2>1, <3>1, <3>3, <4>1, InnerStepCounts DEF MetricsInv
        <3> QED
            BY <3>2, <3>3
    <2>5. CASE Fire \/ UNCHANGED vars
        <3>1. UNCHANGED <<trial, request, pc, now, seen, times, result, results, metrics>>
            BY <2>5 DEF Fire, vars, slot, call, run
        <3> QED
            BY <2>1, <3>1, UnrelatedStepCounts DEF MetricsInv
    <2>6. CASE CreatePool \/ GiveBack \/ Start \/ ReadChunk \/ Tick \/ Record \/ Reparse
        BY <2>1, <2>6, CreatePoolCounts, GiveBackCounts, StartCounts, ReadChunkCounts,
           TickCounts, StoringCounts DEF MetricsInv
    <2>7. Hop \/ Dispatch \/ ArmBody \/ ReceiveHeaders \/ StreamRaises \/ ReadRaises => InFlight
        BY DEF Hop, Dispatch, ArmBody, ReceiveHeaders, StreamRaises, ReadRaises, InFlight
    <2> QED
        BY <2>2, <2>3, <2>4, <2>5, <2>6, <2>7 DEF Next, Worker
<1> QED
    BY <1>1, InitHasNoMetrics, PTL DEF Spec

-----------------------------------------------------------------------------
(* The theorems                                                              *)

\* A result that counts as ok was read to the server's own end, with every output in
\* time, and holds what it must, however late its latency is read: because no body
\* is at its end before the deadline has been looked at once more (transport.py).
THEOREM OkResultsAreComplete == Spec => []OkResultIsComplete
<1>1. MetricsInv => OkResultIsComplete
    BY DEF MetricsInv, BodyInv
<1> QED
    BY <1>1, MetricsAlways, PTL

\* Every request of a trial goes to its origin at one address that is not this
\* machine's unless the URL says so, and none through a proxy, whatever the
\* resolver answers and the server redirects to (http_safety.py, transport.py).
THEOREM RequestsStayPut == Spec => []RequestsStayOnTarget
<1>1. RequestInv => RequestsStayOnTarget
    <2> SUFFICES ASSUME WireInv PROVE RequestsStayOnTarget
        BY DEF RequestInv
    <2>1. \A w \in wire : /\ w[1] = route.connect /\ w[2] = HttpOrigin(trial.url)
                          /\ w[3] = FALSE
        <3> TAKE w \in wire
        <3>1. w = <<route.connect, HttpOrigin(trial.url), FALSE>>
            BY DEF WireInv
        <3> QED
            BY <3>1, WireFields
    <2>2. wire # {} => /\ ~ClientLocal(route.connect)
                       /\ route.connect # NoAddress \/ ExplicitLoopback(trial.url.host)
        BY DEF WireInv, Leads
    <2> QED
        BY <2>1, <2>2, Zenon DEF RequestsStayOnTarget
<1> QED
    BY <1>1, InvariantAlways, PTL

\* Nothing is closed under a request that has time left, because at most one
\* callback is armed, the current phase's, and every way out of it cancels it.
THEOREM NothingIsCutEarly == Spec => []NoEarlyCut
<1>1. RequestInv => NoEarlyCut
    BY DEF RequestInv, CutInv, NoEarlyCut, NoSlot
<1> QED
    BY <1>1, InvariantAlways, PTL

\* The metrics a run stores, and those computed again from its responses, are
\* ordered as distributions are, count every measured request once and have the first
\* outputs of successful requests in time and in order: because each result that is
\* kept has its first output by the deadline and by its end and a first visible output
\* not before it, and a distribution of any values is ordered (metrics.py).
THEOREM MetricsAreOfResults == Spec => []MetricsDescribeResults
<1>1. MetricsInv => MetricsDescribeResults
    <2> SUFFICES ASSUME MetricsInv, metrics # NoMetrics PROVE MetricsDescribeResults
        BY DEF MetricsDescribeResults
    <2> DEFINE m == Summarize(results)
    <2>1. /\ \A f \in DOMAIN m : metrics[f] = m[f]
          /\ Len(results) = Requests - 1 /\ SoundResults(results)
        BY DEF MetricsInv, StoredInv, ResultsInv
    <2>2. Describes(m, results)
        BY <2>1, SummaryDescribes
    <2>3. Distributions \cup {"request_count", "success_count"} \subseteq DOMAIN m
        BY DEF Summarize, Distributions
    <2> HIDE DEF m
    <2>4. /\ \A d \in Distributions : metrics[d] = m[d]
          /\ metrics.request_count = m.request_count /\ metrics.success_count = m.success_count
        BY <2>1, <2>3
    <2>5. {"latency", "failed_latency", "ttft", "visible_ttft"} \subseteq Distributions
        BY DEF Distributions
    <2> QED
        BY <2>1, <2>2, <2>4, <2>5 DEF Describes, MetricsDescribeResults
<1> QED
    BY <1>1, MetricsAlways, PTL
=============================================================================
