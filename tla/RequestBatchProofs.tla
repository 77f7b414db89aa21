------------------------- MODULE RequestBatchProofs -------------------------
(***************************************************************************)
(* RequestBatch keeps its safety properties for any concurrency, any       *)
(* number of warmup and measured requests, and every combination of        *)
(* faults.                                                                 *)
(***************************************************************************)
EXTENDS RequestBatch, SequenceTheorems, FiniteSetTheorems, TLAPS

Idle == ToSet(available)
Busy == {w \in Workers : pc[w] # "idle"}

\* The futures of both batches.
OutcomeInv ==
    /\ outcome = [b \in DOMAIN Batches |-> outcome[b]]
    /\ main = "closed" => Drained
    /\ status # "none" => main = "closed"

\* A worker has a client from its lease to the end of it.  Idle and leased clients
\* are distinct clients of the pool, and a client of the pool that is neither is
\* closed.
ClientsInv ==
    /\ \A w \in Workers : held[w] # NoClient <=> pc[w] \in {"barrier", "request", "release"}
    /\ IsInjective(available) /\ IsInjective(owned)
    /\ \A v, w \in Workers : held[v] = held[w] /\ held[v] # NoClient => v = w
    /\ \A w \in Workers : held[w] \notin Idle
    /\ Idle \subseteq ToSet(owned)
    /\ \A w \in Workers : held[w] # NoClient => held[w] \in ToSet(owned)
    /\ \A c \in ToSet(owned) : c \in closed \/ c \in Idle \/ \E w \in Workers : held[w] = c

\* Each request of the batch is taken by one worker, and its future is open until
\* that worker is done with it; those of the next batch are untouched.
TasksInv ==
    /\ \A w \in Busy : task[w] \in 1..taken /\ outcome[batch][task[w]] = "none"
    /\ \A v, w \in Busy : task[v] = task[w] => v = w
    /\ \A i \in 1..Count : i > taken => outcome[batch][i] = "none"
    /\ batch = "warmup" => \A i \in 1..Batches.measured : outcome.measured[i] = "none"

\* No request has failed, in a future or on the way to it.
NoFailure ==
    /\ \A b \in DOMAIN Batches : \A i \in 1..Batches[b] : outcome[b][i] # "failed"
    /\ \A w \in Workers : pc[w] = "release" => answer[w] # "failed"

\* A client is closed, and another one opened for it, only by a failure.
FreshInv ==
    /\ opened \in Nat /\ opened >= Concurrency
    /\ NoFailure => opened = Concurrency /\ (main # "closed" => closed = {})

\* The first wave of the warmup is still gathering at the barrier ...
WaveGathers ==
    /\ \A w \in Workers : pc[w] \in {"idle", "lease", "barrier"}
    /\ taken = Cardinality(Busy)
    /\ \A i \in 1..Batches.warmup : outcome.warmup[i] = "none"

\* ... or has passed it, holding every client there was.
WavePassed ==
    opened = Concurrency =>
        \A c \in 1..Concurrency : c \in warm \/ \E w \in Workers : pc[w] = "request" /\ held[w] = c

WarmInv ==
    /\ batch = "warmup" => WaveGathers \/ WavePassed
    /\ batch = "measured" /\ opened = Concurrency =>
          \/ 1..Concurrency \subseteq warm
          \/ \E i \in 1..Batches.warmup : outcome.warmup[i] # "ok"

BatchInv ==
    /\ TypeOK
    /\ OutcomeInv
    /\ ClientsInv
    /\ TasksInv
    /\ FreshInv
    /\ WarmInv
    /\ OkRunWasWarm

\* The future of a request is resolved once.
OutcomesAreFinal ==
    [][\A b \in DOMAIN Batches : \A i \in 1..Batches[b] :
          outcome[b][i] # "none" => outcome'[b][i] = outcome[b][i]]_vars

-----------------------------------------------------------------------------
(* The idle clients as a sequence and as a set.                              *)

\* A client that is put back is added to the idle ones.
LEMMA PutBack ==
    ASSUME NEW S, NEW s \in Seq(S), NEW x \in S
    PROVE  /\ Append(s, x) \in Seq(S)
           /\ ToSet(Append(s, x)) = ToSet(s) \cup {x}
           /\ IsInjective(s) /\ x \notin ToSet(s) => IsInjective(Append(s, x))
<1>1. /\ Append(s, x) \in Seq(S)
      /\ Len(Append(s, x)) = Len(s) + 1
      /\ \A i \in 1..Len(s) : Append(s, x)[i] = s[i]
      /\ Append(s, x)[Len(s) + 1] = x
  BY AppendProperties
<1>2. Len(s) \in Nat /\ DOMAIN s = 1..Len(s) /\ DOMAIN Append(s, x) = 1..(Len(s) + 1)
  BY <1>1, LenProperties
<1>3. ToSet(Append(s, x)) = ToSet(s) \cup {x}
  <2>1. ASSUME NEW y \in ToSet(Append(s, x)) PROVE y \in ToSet(s) \cup {x}
    <3>1. PICK i \in 1..(Len(s) + 1) : Append(s, x)[i] = y
      BY <1>2 DEF ToSet
    <3>2. CASE i = Len(s) + 1
      BY <1>1, <3>1, <3>2
    <3>3. CASE i \in 1..Len(s)
      BY <1>1, <1>2, <3>1, <3>3 DEF ToSet
    <3> QED
      BY <1>2, <3>2, <3>3
  <2>2. ASSUME NEW y \in ToSet(s) PROVE y \in ToSet(Append(s, x))
    <3>1. PICK i \in 1..Len(s) : s[i] = y
      BY <1>2 DEF ToSet
    <3>2. i \in 1..(Len(s) + 1)
      BY <1>2
    <3> QED
      BY <1>1, <1>2, <3>1, <3>2 DEF ToSet
  <2>3. x \in ToSet(Append(s, x))
    BY <1>1, <1>2 DEF ToSet
  <2> QED
    BY <2>1, <2>2, <2>3
<1>4. ASSUME IsInjective(s), x \notin ToSet(s) PROVE IsInjective(Append(s, x))
  <2>1. \A i \in 1..Len(s) : s[i] # x
    BY <1>2, <1>4 DEF ToSet
  <2>2. \A i, j \in 1..Len(s) : s[i] = s[j] => i = j
    BY <1>2, <1>4 DEF IsInjective
  <2>3. \A i \in 1..(Len(s) + 1) : i \in 1..Len(s) \/ i = Len(s) + 1
    BY <1>2
  <2>4. \A i, j \in 1..(Len(s) + 1) : Append(s, x)[i] = Append(s, x)[j] => i = j
    BY <1>1, <2>1, <2>2, <2>3
  <2> QED
    BY <1>2, <2>4 DEF IsInjective
<1> QED
  BY <1>1, <1>3, <1>4

\* The client that is leased is no longer an idle one.
LEMMA TakeLast ==
    ASSUME NEW S, NEW s \in Seq(S), s # <<>>, IsInjective(s)
    PROVE  /\ Last(s) \in ToSet(s) /\ Last(s) \in S
           /\ Front(s) \in Seq(S)
           /\ ToSet(Front(s)) = ToSet(s) \ {Last(s)}
           /\ IsInjective(Front(s))
<1>1. Len(s) \in Nat \ {0} /\ DOMAIN s = 1..Len(s)
  BY EmptySeq, LenProperties
<1>2. \A i \in 1..Len(s) : s[i] \in S
  BY ElementOfSeq
<1>3. /\ Front(s) \in Seq(S)
      /\ Len(Front(s)) = Len(s) - 1
      /\ \A i \in 1..(Len(s) - 1) : Front(s)[i] = s[i]
  <2>1. \A i \in 1..(Len(s) - 1) : s[i] \in S
    BY <1>1, <1>2
  <2>2. 1 \in Int /\ Len(s) - 1 \in Int
    BY <1>1
  <2>3. /\ SubSeq(s, 1, Len(s) - 1) \in Seq(S)
        /\ Len(SubSeq(s, 1, Len(s) - 1))
              = IF 1 <= Len(s) - 1 THEN (Len(s) - 1) - 1 + 1 ELSE 0
        /\ \A i \in 1..((Len(s) - 1) - 1 + 1) : SubSeq(s, 1, Len(s) - 1)[i] = s[1 + i - 1]
    BY <2>1, <2>2, SubSeqProperties, Z3
  <2> QED
    BY <1>1, <2>3 DEF Front
<1>4. DOMAIN Front(s) = 1..(Len(s) - 1)
  BY <1>3, LenProperties
<1>5. /\ Last(s) = s[Len(s)]
      /\ \A i, j \in 1..Len(s) : s[i] = s[j] => i = j
  BY <1>1 DEF Last, IsInjective
<1>6. IsInjective(Front(s))
  BY <1>1, <1>3, <1>4, <1>5 DEF IsInjective
<1>7. ToSet(Front(s)) = ToSet(s) \ {Last(s)}
  <2> DEFINE n == Len(s)
  <2>1. n \in Nat /\ n > 0
    BY <1>1
  <2>2. ToSet(Front(s)) = {s[i] : i \in 1..(n - 1)}
    BY <1>3, <1>4 DEF ToSet
  <2>3. ToSet(s) = {s[i] : i \in 1..n}
    BY <1>1 DEF ToSet
  <2>4. Last(s) = s[n] /\ \A i, j \in 1..n : s[i] = s[j] => i = j
    BY <1>5
  <2> HIDE DEF n
  <2>5. /\ \A i \in 1..(n - 1) : i \in 1..n /\ i # n
        /\ \A i \in 1..n : i \in 1..(n - 1) \/ i = n
        /\ n \in 1..n
    BY <2>1
  <2> QED
    BY <2>2, <2>3, <2>4, <2>5
<1> QED
  BY <1>1, <1>2, <1>3, <1>5, <1>6, <1>7 DEF ToSet

\* A sequence without duplicates has as many elements as places.
LEMMA CountOfSeq ==
    ASSUME NEW S, NEW s \in Seq(S), IsInjective(s)
    PROVE  IsFiniteSet(ToSet(s)) /\ Cardinality(ToSet(s)) = Len(s)
<1>1. Len(s) \in Nat /\ DOMAIN s = 1..Len(s) /\ s \in [1..Len(s) -> S]
  BY LenProperties
<1>2. s \in Bijection(1..Len(s), ToSet(s))
  BY <1>1 DEF Bijection, Injection, Surjection, IsInjective, ToSet
<1>3. IsFiniteSet(1..Len(s)) /\ Cardinality(1..Len(s)) = Len(s)
  BY <1>1, FS_Interval
<1> QED
  BY <1>2, <1>3, FS_Bijection DEF ExistsBijection

-----------------------------------------------------------------------------
(* The constants.                                                            *)

LEMMA BatchesType ==
    /\ DOMAIN Batches = {"warmup", "measured"}
    /\ \A b \in DOMAIN Batches : Batches[b] \in Nat /\ Batches[b] >= Concurrency
    /\ Batches.warmup \in Nat /\ Batches.warmup >= 1
    /\ Batches.measured \in Nat
    /\ Batches["warmup"] = Batches.warmup /\ Batches["measured"] = Batches.measured
BY BatchAssumption DEF Batches

LEMMA WorkersAreFinite == IsFiniteSet(Workers) /\ Cardinality(Workers) = Concurrency
BY BatchAssumption, FS_Interval DEF Workers

LEMMA OwnedSet == ASSUME TypeOK PROVE ToSet(owned) = {owned[s] : s \in Workers}
BY DEF TypeOK, ToSet

-----------------------------------------------------------------------------
LEMMA BatchInitInv == Init => BatchInv
<1> SUFFICES ASSUME Init PROVE BatchInv
  OBVIOUS
<1>1. owned \in [Workers -> 1..opened] /\ ToSet(owned) = Workers /\ IsInjective(owned)
  BY BatchAssumption DEF Init, Workers, ToSet, IsInjective
<1>2. available \in Seq(1..opened)
  BY <1>1, BatchAssumption, SeqDef DEF Init, Workers
<1>3. Count \in Nat
  BY BatchesType DEF Init, Count
<1>4. TypeOK
  <2>1. \A b \in DOMAIN Batches : outcome[b] \in [1..Batches[b] -> {"none", "ok", "failed"}]
    BY DEF Init
  <2>2. held \in [Workers -> 0..opened]
    BY BatchAssumption DEF Init, NoClient
  <2>3. batch \in DOMAIN Batches /\ submitted \in 0..Count /\ taken \in 0..submitted
    BY <1>3, BatchesType DEF Init
  <2> QED
    BY <1>1, <1>2, <2>1, <2>2, <2>3 DEF Init, TypeOK
<1>5. Busy = {} /\ Cardinality(Busy) = 0
  BY FS_EmptySet DEF Init, Busy
<1>6. ClientsInv
  BY <1>1, BatchAssumption DEF Init, ClientsInv, Idle, NoClient, Workers
<1>7. TasksInv /\ OutcomeInv
  BY <1>5, BatchesType DEF Init, TasksInv, OutcomeInv, Count
<1>8. WarmInv
  BY <1>5, BatchesType DEF Init, WarmInv, WaveGathers
<1> QED
  BY <1>4, <1>6, <1>7, <1>8, BatchAssumption DEF Init, BatchInv, FreshInv, OkRunWasWarm

-----------------------------------------------------------------------------
(* The main thread.                                                          *)

\* Submitting and interrupting move no client and no request.
LEMMA SubmitKeeps ==
    ASSUME BatchInv, Submit \/ AllSubmitted \/ Interrupt PROVE BatchInv'
<1> USE DEF BatchInv
<1>1. /\ main \in {"submit", "collect"} /\ main' \in {"submit", "collect", "raising"}
      /\ submitted' = submitted \/ (submitted' = submitted + 1 /\ submitted < Count)
      /\ UNCHANGED <<batch, taken, pc, task, held, answer, outcome, owned, available, opened,
                     closed, warm, measured, status>>
  BY DEF Submit, AllSubmitted, Interrupt, thread, pool
<1>2. Count \in Nat /\ Count' = Count
  BY <1>1, BatchesType DEF TypeOK, Count
<1>3. TypeOK'
  <2>1. submitted' \in 0..Count' /\ taken' \in 0..submitted'
    BY <1>1, <1>2 DEF TypeOK
  <2> QED
    BY <1>1, <2>1 DEF TypeOK
<1> QED
  BY <1>1, <1>2, <1>3 DEF OutcomeInv, ClientsInv, TasksInv, FreshInv, NoFailure, WarmInv,
     WaveGathers, WavePassed, OkRunWasWarm, Idle, Busy

\* When the warmup is drained its first wave has passed, and warmed every client;
\* or its requests have no outcome.
LEMMA NextBatchKeeps == ASSUME BatchInv, NextBatch PROVE BatchInv'
<1> USE DEF BatchInv
<1>1. /\ main = "collect" /\ batch = "warmup" /\ batch' = "measured" /\ main' = "submit"
      /\ submitted' = 0 /\ taken' = 0
      /\ \A w \in Workers : pc[w] = "idle"
      /\ UNCHANGED <<pc, task, held, answer, outcome, owned, available, opened, closed, warm,
                     measured, status>>
  BY DEF NextBatch, Drained, thread, pool
<1>2. Count' = Batches.measured /\ Count' \in Nat /\ Busy' = {}
  BY <1>1, BatchesType DEF Count, Busy
<1>3. TypeOK'
  <2>1. batch' \in DOMAIN Batches /\ submitted' \in 0..Count' /\ taken' \in 0..submitted'
    BY <1>1, <1>2, BatchesType
  <2> QED
    BY <1>1, <2>1 DEF TypeOK
<1>4. TasksInv'
  BY <1>1, <1>2, BatchesType DEF TasksInv
<1>5. WarmInv'
  <2>1. CASE WaveGathers
    <3>1. 1 \in 1..Batches.warmup /\ outcome.warmup[1] # "ok"
      BY <2>1, BatchesType DEF WaveGathers
    <3> QED
      BY <1>1, <3>1 DEF WarmInv
  <2>2. CASE WavePassed
    BY <1>1, <2>2 DEF WavePassed, WarmInv
  <2> QED
    BY <1>1, <2>1, <2>2 DEF WarmInv
<1> QED
  BY <1>1, <1>3, <1>4, <1>5 DEF OutcomeInv, ClientsInv, FreshInv, NoFailure, OkRunWasWarm, Idle

\* The trial ends; it is ok only if no request failed, and then the clients are the
\* first ones and all of them are warm.
LEMMA CloseKeeps == ASSUME BatchInv, Finish \/ AbandonTrial PROVE BatchInv'
<1> USE DEF BatchInv
<1>1. /\ Drained /\ main' = "closed"
      /\ closed' = closed \cup ToSet(owned)
      /\ UNCHANGED <<batch, submitted, taken, pc, task, held, answer, outcome, owned, available,
                     opened, warm, measured>>
      /\ main \in {"collect", "raising"}
  BY DEF Finish, AbandonTrial, ClosePool, thread
<1>2. \/ status' = RunStatus /\ batch = "measured"
      \/ status' = status /\ status = "none"
  BY <1>1 DEF Finish, AbandonTrial, OutcomeInv, TypeOK
<1>3. TypeOK'
  <2>1. ToSet(owned) \subseteq 1..opened
    BY OwnedSet DEF TypeOK
  <2> QED
    BY <1>1, <1>2, <2>1 DEF TypeOK, RunStatus, Count
<1>4. Drained' /\ Busy' = Busy /\ Idle' = Idle /\ Count' = Count
  BY <1>1 DEF Drained, Busy, Idle, Count
<1>5. OkRunWasWarm'
  <2> SUFFICES ASSUME status' = "ok" PROVE measured \subseteq warm
    BY <1>1 DEF OkRunWasWarm
  <2>1. /\ batch = "measured"
        /\ \A b \in DOMAIN Batches : \A i \in 1..Batches[b] : outcome[b][i] = "ok"
    BY <1>2 DEF RunStatus
  <2>2. NoFailure
    BY <1>1, <2>1 DEF NoFailure, Drained
  <2>3. opened = Concurrency
    BY <2>2 DEF FreshInv
  <2>4. \A i \in 1..Batches.warmup : outcome.warmup[i] = "ok"
    BY <2>1, BatchesType
  <2>5. 1..Concurrency \subseteq warm
    BY <2>1, <2>3, <2>4 DEF WarmInv
  <2> QED
    BY <2>3, <2>5 DEF TypeOK
<1>6. OutcomeInv' /\ ClientsInv' /\ TasksInv'
  BY <1>1, <1>4 DEF OutcomeInv, ClientsInv, TasksInv
<1>7. FreshInv' /\ WarmInv'
  BY <1>1, <1>4 DEF FreshInv, NoFailure, WarmInv, WaveGathers, WavePassed
<1> QED
  BY <1>3, <1>5, <1>6, <1>7

-----------------------------------------------------------------------------
(* The workers.                                                              *)

\* While a worker is busy the trial is not over and has no status.
LEMMA BusyMeansOpen ==
    ASSUME BatchInv, NEW w \in Workers, pc[w] # "idle"
    PROVE  main # "closed" /\ status = "none"
BY DEF BatchInv, OutcomeInv, Drained

LEMMA BusyIsFinite ==
    IsFiniteSet(Busy) /\ Cardinality(Busy) \in Nat /\ Cardinality(Busy) <= Concurrency
<1>1. Busy \in SUBSET Workers
  BY DEF Busy
<1> QED
  BY <1>1, WorkersAreFinite, FS_Subset, FS_CardinalityType

\* A worker takes the next request that was submitted, and no other takes it.
LEMMA TakeKeeps == ASSUME BatchInv, NEW w \in Workers, Take(w) PROVE BatchInv'
<1> USE DEF BatchInv
<1>1. /\ pc[w] = "idle" /\ taken < submitted
      /\ taken' = taken + 1
      /\ task' = [task EXCEPT ![w] = taken + 1]
      /\ pc' = [pc EXCEPT ![w] = "lease"]
      /\ UNCHANGED <<batch, main, submitted, held, answer, outcome, owned, available, opened,
                     closed, warm, measured, status>>
  BY DEF Take, pool
<1>2. Count \in Nat /\ Count' = Count /\ taken \in Nat /\ submitted \in Nat
      /\ taken + 1 <= Count /\ main # "closed"
  BY <1>1, BatchesType DEF TypeOK, Count, OutcomeInv, Drained
<1>3. TypeOK'
  <2>1. submitted' \in 0..Count' /\ taken' \in 0..submitted'
    BY <1>1, <1>2 DEF TypeOK
  <2>2. pc' \in [Workers -> {"idle", "lease", "barrier", "request", "release"}]
        /\ task' \in [Workers -> Nat]
    BY <1>1, <1>2 DEF TypeOK
  <2> QED
    BY <1>1, <2>1, <2>2 DEF TypeOK
<1>4. Busy' = Busy \cup {w} /\ w \notin Busy
  BY <1>1 DEF Busy, TypeOK
<1>5. ClientsInv'
  BY <1>1 DEF ClientsInv, Idle, TypeOK
<1>6. TasksInv'
  <2>1. task'[w] = taken + 1 /\ \A v \in Busy : task'[v] = task[v] /\ task[v] \in 1..taken
    BY <1>1, <1>4 DEF TypeOK, Busy, TasksInv
  <2>2. outcome[batch][taken + 1] = "none"
    BY <1>2 DEF TasksInv
  <2> QED
    BY <1>1, <1>2, <1>4, <2>1, <2>2 DEF TasksInv
<1>7. FreshInv'
  BY <1>1 DEF FreshInv, NoFailure, TypeOK
<1>8. WarmInv'
  <2>1. ASSUME batch = "warmup", WaveGathers PROVE WaveGathers'
    <3>1. Cardinality(Busy') = Cardinality(Busy) + 1
      BY <1>4, BusyIsFinite, FS_AddElement
    <3> QED
      BY <1>1, <2>1, <3>1 DEF WaveGathers, TypeOK
  <2>2. ASSUME WavePassed PROVE WavePassed'
    BY <1>1, <2>2 DEF WavePassed, TypeOK
  <2> QED
    BY <1>1, <2>1, <2>2 DEF WarmInv
<1> QED
  BY <1>1, <1>2, <1>3, <1>5, <1>6, <1>7, <1>8 DEF OutcomeInv, OkRunWasWarm

\* A client that was idle is leased to one worker.
LEMMA LeaseClients ==
    ASSUME TypeOK, ClientsInv, NEW w \in Workers, Lease(w)
    PROVE  /\ held' \in [Workers -> 0..opened] /\ available' \in Seq(1..opened)
           /\ held'[w] \in 1..opened
           /\ pc' \in [Workers -> {"idle", "lease", "barrier", "request", "release"}]
           /\ ClientsInv'
<1> DEFINE c == Last(available)
<1>1. /\ c \in Idle /\ c \in 1..opened
      /\ available' \in Seq(1..opened)
      /\ Idle' = Idle \ {c}
      /\ IsInjective(available')
  BY TakeLast DEF TypeOK, ClientsInv, Lease, Idle
<1>2. /\ pc[w] = "lease" /\ pc'[w] \in {"barrier", "request"}
      /\ pc' \in [Workers -> {"idle", "lease", "barrier", "request", "release"}]
      /\ \A v \in Workers \ {w} : pc'[v] = pc[v]
  BY DEF Lease, TypeOK
<1>3. /\ held' \in [Workers -> 0..opened] /\ held'[w] = c /\ held[w] = NoClient
      /\ \A v \in Workers \ {w} : held'[v] = held[v]
      /\ UNCHANGED <<owned, opened, closed>>
  <2>1. c \in 0..opened
    BY <1>1
  <2>2. held[w] = NoClient
    BY <1>2 DEF ClientsInv
  <2> QED
    BY <2>1, <2>2 DEF Lease, TypeOK
<1> HIDE DEF c
<1>4. c # NoClient
  BY <1>1 DEF TypeOK, NoClient
<1>5. \A v \in Workers : held[v] # c
  BY <1>1 DEF ClientsInv
<1>6. \A x \in ToSet(owned) :
          x \in closed \/ x \in Idle' \/ \E v \in Workers : held'[v] = x
  <2>1. ASSUME NEW x \in ToSet(owned), x # c
        PROVE  x \in closed \/ x \in Idle' \/ \E v \in Workers : held'[v] = x
    <3>1. CASE \E v \in Workers : held[v] = x
      <4>1. PICK v \in Workers : held[v] = x
        BY <3>1
      <4>2. CASE v # w
        BY <1>3, <4>1, <4>2
      <4>3. CASE v = w /\ x = NoClient
        <5>1. x \in 1..opened
          BY <2>1, OwnedSet DEF TypeOK
        <5> QED
          BY <4>3, <5>1 DEF NoClient
      <4> QED
        BY <1>3, <4>1, <4>2, <4>3
    <3> QED
      BY <1>1, <2>1, <3>1 DEF ClientsInv
  <2> QED
    BY <1>3, <2>1
<1>7. \A u, v \in Workers : held'[u] = held'[v] /\ held'[u] # NoClient => u = v
  BY <1>3, <1>5 DEF ClientsInv
<1>8. \A v \in Workers : held'[v] \notin Idle' /\ (held'[v] # NoClient => held'[v] \in ToSet(owned))
  BY <1>1, <1>3 DEF ClientsInv
<1>9. \A v \in Workers : held'[v] # NoClient <=> pc'[v] \in {"barrier", "request", "release"}
  BY <1>2, <1>3, <1>4 DEF ClientsInv
<1>10. ClientsInv'
  BY <1>1, <1>3, <1>6, <1>7, <1>8, <1>9 DEF ClientsInv
<1> QED
  BY <1>1, <1>2, <1>3, <1>10

\* The first wave stops at the barrier, unless there is just one worker.
LEMMA LeaseKeeps == ASSUME BatchInv, NEW w \in Workers, Lease(w) PROVE BatchInv'
<1> USE DEF BatchInv
<1>1. /\ held' \in [Workers -> 0..opened] /\ available' \in Seq(1..opened)
      /\ held'[w] \in 1..opened
      /\ pc' \in [Workers -> {"idle", "lease", "barrier", "request", "release"}]
      /\ ClientsInv'
  BY LeaseClients
<1>2. /\ pc[w] = "lease"
      /\ pc'[w] = IF FirstWave(task[w]) THEN "barrier" ELSE "request"
      /\ \A v \in Workers \ {w} : pc'[v] = pc[v] /\ held'[v] = held[v]
      /\ UNCHANGED <<batch, main, submitted, taken, task, answer, outcome, owned, opened, closed,
                     warm, measured, status>>
  BY DEF Lease, TypeOK
<1>3. TypeOK' /\ Count' = Count
  BY <1>1, <1>2 DEF TypeOK, Count
<1>4. Busy' = Busy /\ w \in Busy
  BY <1>2 DEF Busy
<1>5. TasksInv' /\ FreshInv'
  BY <1>2, <1>3, <1>4 DEF TasksInv, FreshInv, NoFailure
<1>6. WarmInv'
  <2>1. ASSUME batch = "warmup", WaveGathers, Concurrency > 1 PROVE WaveGathers'
    <3>1. task[w] \in Nat /\ task[w] <= Concurrency
      BY <1>4, <2>1, BusyIsFinite, BatchAssumption DEF WaveGathers, TasksInv
    <3> QED
      BY <1>2, <1>4, <2>1, <3>1 DEF WaveGathers, FirstWave
  <2>2. ASSUME ~(Concurrency > 1) PROVE WavePassed'
    <3>1. Concurrency = 1 /\ pc'[w] = "request"
      BY <1>2, <2>2, BatchAssumption DEF FirstWave
    <3> QED
      BY <1>1, <1>2, <3>1 DEF WavePassed
  <2>3. ASSUME WavePassed PROVE WavePassed'
    BY <1>2, <2>3 DEF WavePassed
  <2> QED
    BY <1>2, <2>1, <2>2, <2>3 DEF WarmInv
<1>7. OutcomeInv' /\ OkRunWasWarm'
  BY <1>2, BusyMeansOpen DEF OutcomeInv, OkRunWasWarm
<1> QED
  BY <1>1, <1>3, <1>5, <1>6, <1>7

\* The wave that passes the barrier holds a client in every worker: every client
\* there was at the start.
LEMMA PassBarrierKeeps == ASSUME BatchInv, PassBarrier PROVE BatchInv'
<1> USE DEF BatchInv
<1>1. /\ \A w \in Workers : pc[w] = "barrier"
      /\ pc' = [w \in Workers |-> "request"]
      /\ UNCHANGED <<batch, main, submitted, taken, task, held, answer, outcome, owned, available,
                     opened, closed, warm, measured, status>>
  BY DEF PassBarrier, pool
<1>2. TypeOK' /\ Count' = Count
  BY <1>1 DEF TypeOK, Count
<1>3. Busy' = Busy /\ Idle' = Idle
  BY <1>1 DEF Busy, Idle
<1>4. ClientsInv' /\ TasksInv' /\ FreshInv'
  BY <1>1, <1>2, <1>3 DEF ClientsInv, TasksInv, FreshInv, NoFailure
<1>5. WavePassed'
  <2> SUFFICES ASSUME opened = Concurrency
               PROVE  \A c \in 1..Concurrency : \E w \in Workers : held[w] = c
    BY <1>1 DEF WavePassed
  <2>1. \A w \in Workers : held[w] \in 0..opened /\ held[w] # NoClient
    BY <1>1 DEF TypeOK, ClientsInv
  <2>2. \A w \in Workers : held[w] \in Workers
    BY <2>1, BatchAssumption DEF NoClient, Workers
  <2>3. held \in Injection(Workers, Workers)
    BY <2>1, <2>2 DEF TypeOK, ClientsInv, Injection, IsInjective
  <2>4. held \in Surjection(Workers, Workers)
    BY <2>3, WorkersAreFinite, FS_Injection
  <2> QED
    BY <2>4 DEF Surjection, Workers
<1>6. WarmInv'
  BY <1>1, <1>5 DEF WarmInv
<1>7. 1 \in Workers
  BY BatchAssumption DEF Workers
<1>8. OutcomeInv' /\ OkRunWasWarm'
  BY <1>1, <1>7, BusyMeansOpen DEF OutcomeInv, OkRunWasWarm
<1> QED
  BY <1>2, <1>4, <1>6, <1>8

\* A request that succeeds closes no client; a warmup request warms the one it
\* goes through.
LEMMA RequestKeeps == ASSUME BatchInv, NEW w \in Workers, Request(w) PROVE BatchInv'
<1> USE DEF BatchInv
<1>1. PICK result \in {"ok", "failed"} :
         /\ answer' = [answer EXCEPT ![w] = result]
         /\ closed' = closed \/ (result = "failed" /\ closed' = closed \cup {held[w]})
  BY DEF Request
<1>2. /\ pc[w] = "request" /\ pc' = [pc EXCEPT ![w] = "release"]
      /\ warm' = IF batch = "warmup" THEN warm \cup {held[w]} ELSE warm
      /\ measured' = IF batch = "measured" THEN measured \cup {held[w]} ELSE measured
      /\ UNCHANGED <<batch, main, submitted, taken, task, held, outcome, owned, available, opened,
                     status>>
  BY DEF Request
<1>3. held[w] \in 1..opened
  BY <1>2 DEF TypeOK, ClientsInv, NoClient
<1>4. /\ pc'[w] = "release" /\ answer'[w] = result
      /\ \A v \in Workers \ {w} : pc'[v] = pc[v] /\ answer'[v] = answer[v]
  BY <1>1, <1>2 DEF TypeOK
<1>5. TypeOK' /\ Count' = Count
  <2>1. /\ pc' \in [Workers -> {"idle", "lease", "barrier", "request", "release"}]
        /\ answer' \in [Workers -> {"none", "ok", "failed"}]
        /\ closed' \subseteq 1..opened /\ warm' \subseteq 1..opened /\ measured' \subseteq 1..opened
    BY <1>1, <1>2, <1>3 DEF TypeOK
  <2> QED
    BY <1>2, <2>1 DEF TypeOK, Count
<1>6. Busy' = Busy /\ Idle' = Idle
  BY <1>2, <1>4 DEF Busy, Idle
<1>7. ClientsInv'
  BY <1>1, <1>2, <1>4, <1>6 DEF ClientsInv
<1>8. TasksInv'
  BY <1>2, <1>5, <1>6 DEF TasksInv
<1>9. FreshInv'
  <2> SUFFICES ASSUME NoFailure'
               PROVE  opened' = Concurrency /\ (main' # "closed" => closed' = {})
    BY <1>2 DEF FreshInv
  <2>1. result # "failed"
    BY <1>4 DEF NoFailure
  <2>2. NoFailure
    BY <1>2, <1>4 DEF NoFailure
  <2> QED
    BY <1>1, <1>2, <2>1, <2>2 DEF FreshInv
<1>10. WarmInv'
  <2>1. ASSUME batch = "warmup" PROVE WavePassed'
    <3>1. WavePassed
      BY <1>2, <2>1 DEF WarmInv, WaveGathers
    <3> QED
      BY <1>2, <1>4, <2>1, <3>1 DEF WavePassed
  <2> QED
    BY <1>2, <2>1 DEF WarmInv
<1>11. OutcomeInv' /\ OkRunWasWarm'
  BY <1>2, BusyMeansOpen DEF OutcomeInv, OkRunWasWarm
<1> QED
  BY <1>5, <1>7, <1>8, <1>9, <1>10, <1>11

-----------------------------------------------------------------------------
(* The end of a lease.                                                       *)

\* The future that is resolved was open, and the others stay what they are.
LEMMA DoneResolves ==
    ASSUME BatchInv, NEW w \in Workers, pc[w] = "release",
           NEW result \in {"none", "ok", "failed"}, Done(w, result)
    PROVE  /\ w \in Busy /\ batch \in DOMAIN Batches /\ task[w] \in 1..Batches[batch]
           /\ outcome[batch][task[w]] = "none"
           /\ outcome' = [b \in DOMAIN Batches |-> outcome'[b]]
           /\ \A b \in DOMAIN Batches \ {batch} : outcome'[b] = outcome[b]
           /\ outcome'[batch] = [outcome[batch] EXCEPT ![task[w]] = result]
           /\ outcome'[batch] \in [1..Batches[batch] -> {"none", "ok", "failed"}]
           /\ outcome'[batch][task[w]] = result
           /\ \A i \in 1..Batches[batch] : i # task[w] => outcome'[batch][i] = outcome[batch][i]
<1> USE DEF BatchInv
<1>1. w \in Busy /\ task[w] \in 1..taken /\ outcome[batch][task[w]] = "none"
  BY DEF Busy, TasksInv
<1>2. batch \in DOMAIN Batches /\ task[w] \in 1..Batches[batch]
  BY <1>1, BatchesType DEF TypeOK, Count
<1>3. outcome[batch] \in [1..Batches[batch] -> {"none", "ok", "failed"}]
  BY <1>2 DEF TypeOK
<1>4. outcome' = [outcome EXCEPT ![batch] = [outcome[batch] EXCEPT ![task[w]] = result]]
  BY DEF Done
<1>5. outcome' = [b \in DOMAIN Batches |->
                    IF b = batch THEN [outcome[batch] EXCEPT ![task[w]] = result] ELSE outcome[b]]
  BY <1>2, <1>4 DEF OutcomeInv
<1>6. outcome'[batch] = [outcome[batch] EXCEPT ![task[w]] = result]
  BY <1>2, <1>5
<1> QED
  BY <1>1, <1>2, <1>3, <1>5, <1>6

\* What the end of a lease does to everything but the clients: the worker is idle,
\* and a failure of its request stays on record.
LEMMA DoneKeeps ==
    ASSUME BatchInv, NEW w \in Workers, pc[w] = "release",
           NEW result \in {"none", "ok", "failed"}, Done(w, result),
           answer[w] = "failed" => result = "failed",
           NEW o \in Nat, o = opened', opened <= o,
           closed' = closed,
           result # "failed" /\ opened' # opened => closed # {},
           available' \in Seq(1..o), owned' \in [Workers -> 1..o],
           ClientsInv'
    PROVE  BatchInv'
<1> USE DEF BatchInv
<1>1. /\ pc' = [pc EXCEPT ![w] = "idle"] /\ held' = [held EXCEPT ![w] = NoClient]
      /\ UNCHANGED <<batch, main, submitted, taken, task, answer, warm, measured, status>>
  BY DEF Done
<1>2. /\ w \in Busy /\ batch \in DOMAIN Batches /\ task[w] \in 1..Batches[batch]
      /\ outcome[batch][task[w]] = "none"
      /\ outcome' = [b \in DOMAIN Batches |-> outcome'[b]]
      /\ \A b \in DOMAIN Batches \ {batch} : outcome'[b] = outcome[b]
      /\ outcome'[batch] \in [1..Batches[batch] -> {"none", "ok", "failed"}]
      /\ outcome'[batch][task[w]] = result
      /\ \A i \in 1..Batches[batch] : i # task[w] => outcome'[batch][i] = outcome[batch][i]
  BY DoneResolves
<1>3. main # "closed" /\ status = "none"
  BY BusyMeansOpen
<1>4. pc'[w] = "idle" /\ \A v \in Workers \ {w} : pc'[v] = pc[v]
  BY <1>1 DEF TypeOK
<1>5. Busy' = Busy \ {w} /\ Count' = Count
  BY <1>1, <1>4 DEF Busy, Count
<1>6. TypeOK'
  <2>1. \A n \in 0..opened : n \in 0..o
    BY DEF FreshInv
  <2>3. 1..opened \subseteq 1..o
    BY DEF FreshInv
  <2>4. held' \in [Workers -> 0..o]
    BY <1>1, <2>1 DEF TypeOK, NoClient
  <2>5. /\ pc' \in [Workers -> {"idle", "lease", "barrier", "request", "release"}]
        /\ \A b \in DOMAIN Batches : outcome'[b] \in [1..Batches[b] -> {"none", "ok", "failed"}]
    BY <1>1, <1>2 DEF TypeOK
  <2> QED
    BY <1>1, <1>5, <2>3, <2>4, <2>5 DEF TypeOK
<1>7. TasksInv'
  <2>1. \A v \in Busy' : outcome'[batch][task[v]] = "none"
    <3>1. ASSUME NEW v \in Busy' PROVE outcome'[batch][task[v]] = "none"
      <4>1. v \in Busy /\ v # w /\ task[v] # task[w] /\ outcome[batch][task[v]] = "none"
        BY <1>2, <1>5, <3>1 DEF TasksInv
      <4>2. task[v] \in 1..Batches[batch]
        BY <1>2, <4>1, BatchesType DEF TasksInv, TypeOK, Count
      <4> QED
        BY <1>2, <4>1, <4>2
    <3> QED
      BY <3>1
  <2>2. \A i \in 1..Count : i > taken => outcome'[batch][i] = "none"
    <3>1. Count = Batches[batch] /\ task[w] \in 1..taken /\ taken \in Nat
      BY <1>2, BatchesType DEF TasksInv, TypeOK, Count
    <3> QED
      BY <1>2, <3>1 DEF TasksInv
  <2>3. batch = "warmup" => \A i \in 1..Batches.measured : outcome'.measured[i] = "none"
    <3>1. batch = "warmup" => outcome'["measured"] = outcome["measured"]
      BY <1>2, BatchesType
    <3> QED
      BY <3>1 DEF TasksInv
  <2> QED
    BY <1>1, <1>5, <2>1, <2>2, <2>3 DEF TasksInv
<1>8. FreshInv'
  <2> SUFFICES ASSUME NoFailure' PROVE opened' = Concurrency /\ closed' = {}
    BY BatchAssumption DEF FreshInv
  <2>1. result # "failed"
    BY <1>2 DEF NoFailure
  <2>2. NoFailure
    <3>1. ASSUME NEW b \in DOMAIN Batches, NEW i \in 1..Batches[b] PROVE outcome[b][i] # "failed"
      <4>1. outcome'[b][i] # "failed"
        BY DEF NoFailure
      <4> QED
        BY <1>2, <4>1
    <3>2. \A v \in Workers : pc[v] = "release" => answer[v] # "failed"
      BY <1>1, <1>4, <2>1 DEF NoFailure
    <3> QED
      BY <3>1, <3>2 DEF NoFailure
  <2> QED
    BY <1>3, <2>1, <2>2 DEF FreshInv
<1>9. WarmInv'
  <2>1. opened' = Concurrency => opened = Concurrency
    BY BatchAssumption DEF FreshInv
  <2>2. ASSUME batch = "warmup" PROVE WavePassed'
    <3>1. WavePassed
      BY <2>2 DEF WarmInv, WaveGathers
    <3> QED
      BY <1>1, <1>4, <2>1, <3>1 DEF WavePassed, TypeOK
  <2>3. ASSUME batch = "measured", \E i \in 1..Batches.warmup : outcome.warmup[i] # "ok"
        PROVE  \E i \in 1..Batches.warmup : outcome'.warmup[i] # "ok"
    <3>1. outcome'["warmup"] = outcome["warmup"]
      BY <1>2, <2>3, BatchesType
    <3> QED
      BY <2>3, <3>1
  <2> QED
    BY <1>1, <2>1, <2>2, <2>3 DEF WarmInv
<1>10. OutcomeInv' /\ OkRunWasWarm'
  BY <1>1, <1>2, <1>3 DEF OutcomeInv, OkRunWasWarm
<1> QED
  BY <1>6, <1>7, <1>8, <1>9, <1>10

\* The client that is put back was the worker's own: it is idle once.
LEMMA GiveBackKeeps == ASSUME BatchInv, NEW w \in Workers, GiveBack(w) PROVE BatchInv'
<1> USE DEF BatchInv
<1> DEFINE c == held[w]
<1>1. /\ pc[w] = "release" /\ Done(w, answer[w]) /\ pc' = [pc EXCEPT ![w] = "idle"]
      /\ held' = [held EXCEPT ![w] = NoClient]
      /\ available' = Append(available, c)
      /\ UNCHANGED <<owned, opened, closed>>
  BY DEF GiveBack, Done
<1>2. c \in 1..opened /\ c # NoClient /\ c \notin Idle /\ c \in ToSet(owned)
  <2>1. c # NoClient /\ c \notin Idle /\ c \in ToSet(owned)
    BY <1>1 DEF ClientsInv
  <2>2. c \in 1..opened
    BY <2>1, OwnedSet DEF TypeOK
  <2> QED
    BY <2>1, <2>2
<1>3. /\ available' \in Seq(1..opened) /\ Idle' = Idle \cup {c} /\ IsInjective(available')
  <2> DEFINE S == 1..opened
  <2>1. available \in Seq(S) /\ IsInjective(available) /\ c \notin ToSet(available) /\ c \in S
    BY <1>2 DEF TypeOK, ClientsInv, Idle
  <2> HIDE DEF S, c
  <2>2. /\ Append(available, c) \in Seq(S)
        /\ ToSet(Append(available, c)) = ToSet(available) \cup {c}
        /\ IsInjective(Append(available, c))
    BY <2>1, PutBack
  <2> QED
    BY <1>1, <2>2 DEF Idle, S
<1>4. /\ held'[w] = NoClient /\ pc'[w] = "idle"
      /\ \A v \in Workers \ {w} : held'[v] = held[v] /\ pc'[v] = pc[v] /\ held[v] # c
  BY <1>1, <1>2 DEF TypeOK, ClientsInv
<1> HIDE DEF c
<1>5. NoClient \notin Idle'
  <2>1. \A x \in ToSet(owned) : x # NoClient
    BY OwnedSet DEF TypeOK, NoClient
  <2> QED
    BY <1>2, <1>3, <2>1 DEF ClientsInv
<1>6. ClientsInv'
  <2>1. \A x \in ToSet(owned) : x \in closed \/ x \in Idle' \/ \E v \in Workers : held'[v] = x
    <3>1. ASSUME NEW x \in ToSet(owned), x # c
          PROVE  x \in closed \/ x \in Idle' \/ \E v \in Workers : held'[v] = x
      BY <1>3, <1>4, <3>1 DEF ClientsInv, c
    <3> QED
      BY <1>3, <3>1
  <2>2. \A v \in Workers : held'[v] \notin Idle'
    BY <1>3, <1>4, <1>5 DEF ClientsInv
  <2>3. \A u, v \in Workers : held'[u] = held'[v] /\ held'[u] # NoClient => u = v
    BY <1>4 DEF ClientsInv
  <2>4. \A v \in Workers : held'[v] # NoClient <=> pc'[v] \in {"barrier", "request", "release"}
    BY <1>4 DEF ClientsInv
  <2>5. /\ Idle' \subseteq ToSet(owned)
        /\ \A v \in Workers : held'[v] # NoClient => held'[v] \in ToSet(owned)
    BY <1>2, <1>3, <1>4 DEF ClientsInv
  <2> QED
    BY <1>1, <1>3, <2>1, <2>2, <2>3, <2>4, <2>5 DEF ClientsInv
<1>7. answer[w] \in {"none", "ok", "failed"} /\ opened \in Nat
  BY DEF TypeOK, FreshInv
<1>8. owned' \in [Workers -> 1..opened]
  BY <1>1 DEF TypeOK
<1> QED
  BY <1>1, <1>3, <1>6, <1>7, <1>8, DoneKeeps

\* The closed client leaves the pool with its slot's lease, and the fresh one,
\* numbered after all the others, is idle in its place.
LEMMA ReplaceKeeps == ASSUME BatchInv, NEW w \in Workers, Replace(w) PROVE BatchInv'
<1> USE DEF BatchInv
<1> DEFINE c == held[w]
           n == opened + 1
           slot == CHOOSE s \in Workers : owned[s] = c
<1>1. /\ pc[w] = "release" /\ Done(w, answer[w]) /\ pc' = [pc EXCEPT ![w] = "idle"]
      /\ held' = [held EXCEPT ![w] = NoClient]
      /\ opened' = n
      /\ owned' = [owned EXCEPT ![slot] = n]
      /\ available' = Append(available, n)
      /\ closed' = closed /\ c \in closed
  BY DEF Replace, Done
<1>2. /\ n \in Nat /\ opened \in Nat /\ n \in 1..n /\ 1..opened \subseteq 1..n
      /\ n \notin 1..opened /\ n # NoClient
  BY DEF FreshInv, NoClient
<1>3. ToSet(owned) = {owned[s] : s \in Workers} /\ ToSet(owned) \subseteq 1..opened
  BY OwnedSet DEF TypeOK
<1>4. c \in ToSet(owned) /\ c # NoClient /\ slot \in Workers /\ owned[slot] = c
  BY <1>1, <1>3 DEF ClientsInv
<1> HIDE DEF c, n, slot
<1>5. /\ owned' \in [Workers -> 1..n] /\ owned'[slot] = n
      /\ \A s \in Workers \ {slot} : owned'[s] = owned[s] /\ owned[s] # c
  BY <1>1, <1>2, <1>4 DEF TypeOK, ClientsInv, IsInjective
<1>6. ToSet(owned') = (ToSet(owned) \ {c}) \cup {n} /\ IsInjective(owned')
  <2>1. ToSet(owned') = {owned'[s] : s \in Workers}
    BY <1>5 DEF ToSet
  <2>2. \A s \in Workers : owned[s] \in 1..opened
    BY DEF TypeOK
  <2>3. DOMAIN owned = Workers /\ DOMAIN owned' = Workers
    BY <1>5 DEF TypeOK
  <2>4. \A s, t \in Workers : owned[s] = owned[t] => s = t
    BY <2>3 DEF ClientsInv, IsInjective
  <2>5. IsInjective(owned')
    BY <1>2, <1>5, <2>2, <2>3, <2>4 DEF IsInjective
  <2> QED
    BY <1>3, <1>4, <1>5, <2>1, <2>5
<1>7. /\ available' \in Seq(1..n) /\ Idle' = Idle \cup {n} /\ IsInjective(available')
  <2>1. available \in Seq(1..n)
    BY <1>2, SeqMonotonic DEF TypeOK
  <2>2. n \notin Idle
    BY <1>2, <1>3 DEF ClientsInv
  <2> QED
    BY <1>1, <1>2, <2>1, <2>2, PutBack DEF ClientsInv, Idle
<1>8. /\ held'[w] = NoClient /\ pc'[w] = "idle"
      /\ \A v \in Workers \ {w} : held'[v] = held[v] /\ pc'[v] = pc[v] /\ held[v] # c
      /\ c \notin Idle
  BY <1>1, <1>4 DEF TypeOK, ClientsInv, c
<1>9. NoClient \notin Idle' /\ \A v \in Workers : held[v] # n
  BY <1>2, <1>3, <1>7 DEF ClientsInv, NoClient
<1>10. ClientsInv'
  <2>1. \A x \in ToSet(owned') : x \in closed \/ x \in Idle' \/ \E v \in Workers : held'[v] = x
    <3>1. ASSUME NEW x \in ToSet(owned), x # c
          PROVE  x \in closed \/ x \in Idle' \/ \E v \in Workers : held'[v] = x
      BY <1>7, <1>8, <3>1 DEF ClientsInv, c
    <3> QED
      BY <1>6, <1>7, <3>1
  <2>2. \A v \in Workers : held'[v] \notin Idle'
    BY <1>7, <1>8, <1>9 DEF ClientsInv
  <2>3. \A u, v \in Workers : held'[u] = held'[v] /\ held'[u] # NoClient => u = v
    BY <1>8 DEF ClientsInv
  <2>4. \A v \in Workers : held'[v] # NoClient <=> pc'[v] \in {"barrier", "request", "release"}
    BY <1>8 DEF ClientsInv
  <2>5. /\ Idle' \subseteq ToSet(owned')
        /\ \A v \in Workers : held'[v] # NoClient => held'[v] \in ToSet(owned')
    BY <1>6, <1>7, <1>8 DEF ClientsInv
  <2> QED
    BY <1>1, <1>6, <1>7, <2>1, <2>2, <2>3, <2>4, <2>5 DEF ClientsInv
<1>11. answer[w] \in {"none", "ok", "failed"} /\ opened <= n /\ closed # {}
  BY <1>1, <1>2 DEF TypeOK, n
<1> QED
  BY <1>1, <1>2, <1>5, <1>7, <1>10, <1>11, DoneKeeps

\* The client that could not be replaced stays in the pool, closed.
LEMMA ReplacementFailsKeeps ==
    ASSUME BatchInv, NEW w \in Workers, ReplacementFails(w) PROVE BatchInv'
<1> USE DEF BatchInv
<1>1. /\ pc[w] = "release" /\ Done(w, "failed") /\ pc' = [pc EXCEPT ![w] = "idle"]
      /\ held' = [held EXCEPT ![w] = NoClient]
      /\ held[w] \in closed
      /\ UNCHANGED <<owned, available, opened, closed>>
  BY DEF ReplacementFails, Done, pool
<1>2. /\ held'[w] = NoClient /\ pc'[w] = "idle" /\ Idle' = Idle
      /\ \A v \in Workers \ {w} : held'[v] = held[v] /\ pc'[v] = pc[v]
  BY <1>1 DEF TypeOK, Idle
<1>3. NoClient \notin Idle
  BY OwnedSet DEF ClientsInv, TypeOK, NoClient
<1>4. ClientsInv'
  <2>1. \A x \in ToSet(owned) : x \in closed \/ x \in Idle \/ \E v \in Workers : held'[v] = x
    BY <1>1, <1>2 DEF ClientsInv
  <2> QED
    BY <1>1, <1>2, <1>3, <2>1 DEF ClientsInv
<1>5. /\ opened \in Nat /\ opened' = opened
      /\ available' \in Seq(1..opened) /\ owned' \in [Workers -> 1..opened]
  BY <1>1 DEF TypeOK, FreshInv
<1> QED
  BY <1>1, <1>4, <1>5, DoneKeeps

-----------------------------------------------------------------------------
LEMMA BatchNextInv == BatchInv /\ [Next]_vars => BatchInv'
<1> SUFFICES ASSUME BatchInv, [Next]_vars PROVE BatchInv'
  OBVIOUS
<1>1. CASE Main \/ Interrupt
  BY <1>1, SubmitKeeps, NextBatchKeeps, CloseKeeps DEF Main
<1>2. CASE PassBarrier
  BY <1>2, PassBarrierKeeps
<1>3. ASSUME NEW w \in Workers, Worker(w) PROVE BatchInv'
  BY <1>3, TakeKeeps, LeaseKeeps, RequestKeeps, GiveBackKeeps, ReplaceKeeps,
     ReplacementFailsKeeps DEF Worker
<1>4. CASE UNCHANGED vars
  <2>1. /\ UNCHANGED <<batch, main, submitted, taken, pc, task, held, answer, outcome>>
        /\ UNCHANGED <<owned, available, opened, closed, warm, measured, status>>
    BY <1>4 DEF vars, pool, thread
  <2>2. Busy' = Busy /\ Idle' = Idle /\ Count' = Count /\ Drained' = Drained
    BY <2>1 DEF Busy, Idle, Count, Drained
  <2>3. TypeOK' /\ OutcomeInv' /\ ClientsInv' /\ TasksInv'
    BY <2>1, <2>2 DEF BatchInv, TypeOK, OutcomeInv, ClientsInv, TasksInv
  <2>4. FreshInv' /\ WarmInv' /\ OkRunWasWarm'
    BY <2>1, <2>2 DEF BatchInv, FreshInv, NoFailure, WarmInv, WaveGathers, WavePassed, OkRunWasWarm
  <2> QED
    BY <2>3, <2>4 DEF BatchInv
<1> QED
  BY <1>1, <1>2, <1>3, <1>4 DEF Next

LEMMA BatchInductive == Spec => []BatchInv
BY BatchInitInv, BatchNextInv, PTL DEF Spec

-----------------------------------------------------------------------------
\* The variables keep their types.
THEOREM BatchTypeCorrect == Spec => []TypeOK
<1>1. BatchInv => TypeOK
  BY DEF BatchInv
<1> QED
  BY <1>1, BatchInductive, PTL

\* Distinct workers lease distinct clients, none of them idle.
LEMMA LeasedAreCounted ==
    ASSUME TypeOK, ClientsInv
    PROVE  LET L == {held[w] : w \in Leased} IN
           /\ IsFiniteSet(Leased) /\ Cardinality(Leased) \in Nat
           /\ IsFiniteSet(L) /\ Cardinality(L) = Cardinality(Leased)
           /\ L \cap Idle = {}
<1> DEFINE L == {held[w] : w \in Leased}
           h == [w \in Leased |-> held[w]]
<1>1. Leased \in SUBSET Workers
  BY DEF Leased
<1>2. IsFiniteSet(Leased) /\ Cardinality(Leased) \in Nat
  BY <1>1, WorkersAreFinite, FS_Subset, FS_CardinalityType
<1>3. h \in Bijection(Leased, L)
  BY <1>1 DEF Bijection, Injection, Surjection, IsInjective, ClientsInv, Leased
<1>4. IsFiniteSet(L) /\ Cardinality(L) = Cardinality(Leased)
  BY <1>2, <1>3, FS_Bijection DEF ExistsBijection
<1>5. L \cap Idle = {}
  BY <1>1 DEF ClientsInv
<1> QED
  BY <1>2, <1>4, <1>5

\* HttpClientPool: a client the pool owns is leased to one worker or idle, once; no
\* client serves two workers, and none that is open is lost.
THEOREM ClientsServeOnce == Spec => []EachClientOnce
<1>1. ASSUME BatchInv PROVE EachClientOnce
  <2> DEFINE L == {held[w] : w \in Leased}
  <2>1. TypeOK /\ ClientsInv
    BY <1>1 DEF BatchInv
  <2>2. IsFiniteSet(Idle) /\ Cardinality(Idle) = Len(available) /\ Len(available) \in Nat
    BY <2>1, CountOfSeq, LenProperties DEF TypeOK, ClientsInv, Idle
  <2>3. /\ IsFiniteSet(Leased) /\ Cardinality(Leased) \in Nat
        /\ IsFiniteSet(L) /\ Cardinality(L) = Cardinality(Leased)
        /\ L \cap Idle = {}
    BY <2>1, LeasedAreCounted
  <2>4. Kept = Idle \cup L
    BY DEF Kept, Idle
  <2>5. L \subseteq ToSet(owned) /\ Idle \subseteq ToSet(owned)
    BY <2>1 DEF ClientsInv, Leased
  <2>6. Lost \subseteq closed
    <3>1. ASSUME NEW c \in ToSet(owned), c \notin closed PROVE c \in Kept
      <4>1. c # NoClient
        BY <2>1, OwnedSet DEF TypeOK, NoClient
      <4> QED
        BY <2>1, <3>1, <4>1 DEF ClientsInv, Kept, Idle, Leased
    <3> QED
      BY <3>1 DEF Lost
  <2> HIDE DEF L
  <2>7. Cardinality(Idle \cup L) = Cardinality(Idle) + Cardinality(L) - Cardinality(Idle \cap L)
    BY <2>2, <2>3, FS_Union
  <2>8. Cardinality(Idle \cap L) = 0
    BY <2>3, FS_EmptySet
  <2>9. Len(available) + Cardinality(Leased) = Cardinality(Kept)
    BY <2>2, <2>3, <2>4, <2>7, <2>8
  <2> QED
    BY <2>4, <2>5, <2>6, <2>9 DEF EachClientOnce
<1> QED
  BY <1>1, BatchInductive, PTL

\* An ok run measured no connection that its warmup had not gone through.
THEOREM OkRunsAreWarm == Spec => []OkRunWasWarm
<1>1. BatchInv => OkRunWasWarm
  BY DEF BatchInv
<1> QED
  BY <1>1, BatchInductive, PTL

\* run_requests: one request, one outcome; no retry, replacement or later batch
\* changes the result of a request that has one.
THEOREM OutcomesStayFinal == Spec => OutcomesAreFinal
<1> DEFINE Kept1 == \A b \in DOMAIN Batches : \A i \in 1..Batches[b] :
                        outcome[b][i] # "none" => outcome'[b][i] = outcome[b][i]
<1>1. ASSUME BatchInv, [Next]_vars PROVE [Kept1]_vars
  <2>1. CASE UNCHANGED outcome
    BY <2>1
  <2>2. ASSUME NEW w \in Workers, pc[w] = "release",
               NEW result \in {"none", "ok", "failed"}, Done(w, result)
        PROVE  Kept1
    <3>1. /\ outcome[batch][task[w]] = "none"
          /\ \A b \in DOMAIN Batches \ {batch} : outcome'[b] = outcome[b]
          /\ \A i \in 1..Batches[batch] : i # task[w] => outcome'[batch][i] = outcome[batch][i]
      BY <1>1, <2>2, DoneResolves
    <3> QED
      BY <3>1
  <2>3. ASSUME NEW w \in Workers, GiveBack(w) \/ Replace(w) \/ ReplacementFails(w) PROVE Kept1
    <3>1. answer[w] \in {"none", "ok", "failed"}
      BY <1>1 DEF BatchInv, TypeOK
    <3> QED
      BY <2>2, <2>3, <3>1 DEF GiveBack, Replace, ReplacementFails
  <2>4. ASSUME NEW w \in Workers, Take(w) \/ Lease(w) \/ Request(w) PROVE UNCHANGED outcome
    BY <2>4 DEF Take, Lease, Request
  <2>5. Main \/ Interrupt \/ PassBarrier => UNCHANGED outcome
    BY DEF Main, Submit, AllSubmitted, NextBatch, Finish, AbandonTrial, Interrupt, PassBarrier
  <2> QED
    BY <1>1, <2>1, <2>3, <2>4, <2>5 DEF Next, Worker, vars
<1> QED
  BY <1>1, BatchInductive, PTL DEF Spec, OutcomesAreFinal

=============================================================================
