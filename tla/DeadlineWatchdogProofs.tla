----------------------- MODULE DeadlineWatchdogProofs -----------------------
(***************************************************************************)
(* DeadlineWatchdog holds its safety properties for any number of request  *)
(* threads, deadlines and timeouts.                                        *)
(***************************************************************************)
EXTENDS DeadlineWatchdog, TLAPS

\* Tokens are given out in order and never again.
TokensGivenOut ==
    /\ callbacks \subseteq 1..next_token
    /\ running \subseteq 1..next_token
    /\ \A e \in deadlines : e[2] <= next_token
    /\ \A c \in Callers : token[c] <= next_token

\* A pending callback has its entry in the heap, at the deadline its thread armed.
PendingInHeap ==
    /\ \A t \in callbacks : \E e \in deadlines : e[2] = t
    /\ \A e \in deadlines, c \in Callers :
          cpc[c] # "out" /\ token[c] = e[2] => due[c] = e[1]

\* A callback is running just while the watchdog is at it, for a thread whose
\* deadline has passed; and only such a callback is waited for.
RunningIsDue ==
    /\ wpc \in {"call", "called"} <=> running # {}
    /\ \A t \in running : \E c \in Callers : token[c] = t /\ cpc[c] # "out" /\ due[c] <= now
    /\ \A c \in Callers : cpc[c] = "waiting" => token[c] \in running

WatchdogInv ==
    /\ WatchdogTypeOK
    /\ TokensGivenOut
    /\ PendingInHeap
    /\ RunningIsDue
    /\ CallbacksAreOwned
    /\ NeverOversleeps

-----------------------------------------------------------------------------
\* A time is a natural number.
LEMMA LaterIsTime == ASSUME WatchdogTypeOK, NEW d \in Timeouts PROVE now + d \in Nat
BY WatchdogAssumption DEF WatchdogTypeOK

\* What is left at the top of the heap once it is pruned is a pending deadline,
\* and no pending one is earlier.
LEMMA HeadIsEarliest ==
    ASSUME deadlines \subseteq Nat \X Nat, NEW e, IsHead(e, Pruned)
    PROVE  /\ e \in deadlines
           /\ e[1] \in Nat /\ e[2] \in Nat
           /\ e[2] \in callbacks
           /\ \A f \in deadlines : f[2] \in callbacks => e[1] <= f[1]
<1>1. e \in deadlines /\ e \in Nat \X Nat
  BY DEF IsHead, Pruned
<1>2. ASSUME NEW f \in deadlines, f[2] \in callbacks
      PROVE  f \in Pruned /\ Before(e, f)
  BY <1>2 DEF IsHead, Pruned, Before
<1>3. PICK f \in deadlines : f[2] \in callbacks /\ Before(f, e)
  BY DEF IsHead, Pruned
<1>4. e[2] = f[2]
  BY <1>1, <1>2, <1>3 DEF Before
<1>5. \A g \in deadlines : g[2] \in callbacks => e[1] <= g[1]
  BY <1>1, <1>2 DEF Before
<1> QED
  BY <1>1, <1>3, <1>4, <1>5

\* Everything pending survives the pruning.
LEMMA PruningKeepsPending ==
    ASSUME deadlines \subseteq Nat \X Nat
    PROVE  /\ Pruned \subseteq deadlines
           /\ \A e \in deadlines : e[2] \in callbacks => e \in Pruned
BY DEF Pruned, Before

\* A notification wakes the watchdog or a cancelling thread and does nothing else;
\* with no thread waiting it wakes a sleeping watchdog.
LEMMA NotifyWakes ==
    ASSUME WatchdogTypeOK, NEW STATE callers, Notify(callers),
           callers \in [Callers -> {"out", "armed", "cancel", "waiting"}]
    PROVE  /\ cpc' \in [Callers -> {"out", "armed", "cancel", "waiting"}]
           /\ \A c \in Callers : \/ cpc'[c] = callers[c]
                                 \/ callers[c] = "waiting" /\ cpc'[c] = "cancel"
           /\ wpc' = wpc \/ (Asleep /\ wpc' = "check")
           /\ (\A c \in Callers : callers[c] # "waiting") => ~(wpc' \in {"wait", "timed"})
<1>1. CASE Asleep /\ wpc' = "check" /\ cpc' = callers
  BY <1>1 DEF Asleep
<1>2. CASE \E c \in Callers : callers[c] = "waiting" /\ cpc' = [callers EXCEPT ![c] = "cancel"]
                              /\ UNCHANGED wpc
  BY <1>2
<1>3. CASE ~Asleep /\ cpc' = callers /\ UNCHANGED wpc
  BY <1>3 DEF Asleep
<1> QED
  BY <1>1, <1>2, <1>3 DEF Notify

-----------------------------------------------------------------------------
LEMMA WatchdogInitInv == WatchdogInit => WatchdogInv
BY DEF WatchdogInit, WatchdogInv, WatchdogTypeOK, TokensGivenOut, PendingInHeap,
       RunningIsDue, CallbacksAreOwned, NeverOversleeps

-----------------------------------------------------------------------------
(* One lemma for each step.                                                  *)

\* A new token is newer than everything in the heap, and the watchdog that could
\* sleep past its deadline is woken.
LEMMA ArmKeeps ==
    ASSUME WatchdogInv, NEW c \in Callers, NEW d \in Timeouts,
           cpc[c] = "out", Schedule(c, now + d)
    PROVE  WatchdogInv'
<1> USE DEF WatchdogInv
<1> DEFINE t == next_token + 1
           armed == [cpc EXCEPT ![c] = "armed"]
<1>0. now + d \in Nat /\ t \in Nat
  BY LaterIsTime DEF WatchdogTypeOK
<1>1. /\ next_token' = t
      /\ token' = [token EXCEPT ![c] = t]
      /\ due' = [due EXCEPT ![c] = now + d]
      /\ callbacks' = callbacks \cup {t}
      /\ deadlines' = deadlines \cup {<<now + d, t>>}
      /\ UNCHANGED <<now, running, fired, until>>
  BY DEF Schedule
<1>2. armed \in [Callers -> {"out", "armed", "cancel", "waiting"}]
  BY DEF WatchdogTypeOK
<1>3. /\ cpc' \in [Callers -> {"out", "armed", "cancel", "waiting"}]
      /\ cpc'[c] = "armed"
      /\ \A b \in Callers \ {c} : \/ cpc'[b] = cpc[b]
                                  \/ cpc[b] = "waiting" /\ cpc'[b] = "cancel"
      /\ wpc' = wpc \/ (wpc \in {"unstarted", "wait", "timed"} /\ wpc' = "check")
      /\ ~(wpc' \in {"wait", "timed", "unstarted"})
  <2>1. CASE wpc = "unstarted" /\ wpc' = "check" /\ cpc' = armed
    BY <1>2, <2>1 DEF WatchdogTypeOK
  <2>2. CASE wpc # "unstarted" /\ Notify(armed)
    <3>1. (\A b \in Callers : armed[b] # "waiting") \/ ~(wpc \in {"wait", "timed"})
      BY DEF RunningIsDue, WatchdogTypeOK
    <3>2. /\ cpc' \in [Callers -> {"out", "armed", "cancel", "waiting"}]
          /\ \A b \in Callers : \/ cpc'[b] = armed[b]
                                \/ armed[b] = "waiting" /\ cpc'[b] = "cancel"
          /\ wpc' = wpc \/ (Asleep /\ wpc' = "check")
          /\ (\A b \in Callers : armed[b] # "waiting") => ~(wpc' \in {"wait", "timed"})
      BY <1>2, <2>2, NotifyWakes
    <3> QED
      BY <2>2, <3>1, <3>2 DEF Asleep, WatchdogTypeOK
  <2> QED
    BY <2>1, <2>2 DEF Schedule
<1> HIDE DEF t, armed
<1>4. WatchdogTypeOK'
  <2>1. <<now + d, t>> \in Nat \X Nat
    BY <1>0
  <2>2. deadlines' \subseteq Nat \X Nat /\ callbacks' \subseteq Nat
    BY <1>0, <1>1, <2>1 DEF WatchdogTypeOK
  <2>3. token' \in [Callers -> Nat] /\ due' \in [Callers -> Nat]
    BY <1>0, <1>1 DEF WatchdogTypeOK
  <2> QED
    BY <1>0, <1>1, <1>3, <2>2, <2>3 DEF WatchdogTypeOK
<1>5. TokensGivenOut'
  BY <1>0, <1>1 DEF WatchdogTypeOK, TokensGivenOut, t
<1>6. PendingInHeap'
  <2>1. ASSUME NEW u \in callbacks'
        PROVE  \E e \in deadlines' : e[2] = u
    <3>1. CASE u = t
      <4>1. <<now + d, t>> \in deadlines' /\ <<now + d, t>>[2] = t
        BY <1>1
      <4> QED
        BY <3>1, <4>1
    <3>2. CASE u \in callbacks
      BY <1>1, <3>2 DEF PendingInHeap
    <3> QED
      BY <1>1, <3>1, <3>2
  <2>2. ASSUME NEW e \in deadlines', NEW b \in Callers, cpc'[b] # "out", token'[b] = e[2]
        PROVE  due'[b] = e[1]
    <3>1. CASE e = <<now + d, t>>
      BY <1>0, <1>1, <2>2, <3>1 DEF WatchdogTypeOK, TokensGivenOut, t
    <3>2. CASE e \in deadlines /\ e # <<now + d, t>>
      <4>1. b # c
        BY <1>0, <1>1, <2>2, <3>2 DEF WatchdogTypeOK, TokensGivenOut, t
      <4> QED
        BY <1>1, <1>3, <2>2, <3>2, <4>1 DEF WatchdogTypeOK, PendingInHeap
    <3> QED
      BY <1>1, <3>1, <3>2
  <2> QED
    BY <2>1, <2>2 DEF PendingInHeap
<1>7. RunningIsDue'
  <2>1. ASSUME NEW u \in running
        PROVE  \E b \in Callers : token'[b] = u /\ cpc'[b] # "out" /\ due'[b] <= now
    <3>1. PICK b \in Callers : token[b] = u /\ cpc[b] # "out" /\ due[b] <= now
      BY DEF RunningIsDue
    <3> QED
      BY <1>1, <1>3, <3>1 DEF WatchdogTypeOK
  <2>2. \A b \in Callers : cpc'[b] = "waiting" => token'[b] \in running
    BY <1>1, <1>3 DEF RunningIsDue, WatchdogTypeOK
  <2> QED
    BY <1>1, <1>3, <2>1, <2>2 DEF RunningIsDue
<1>8. CallbacksAreOwned'
  <2>1. ASSUME NEW u \in callbacks \cup running
        PROVE  \E b \in Callers : token'[b] = u /\ cpc'[b] # "out"
    <3>1. PICK b \in Callers : token[b] = u /\ cpc[b] # "out"
      BY DEF CallbacksAreOwned
    <3> QED
      BY <1>1, <1>3, <3>1 DEF WatchdogTypeOK
  <2>2. token'[c] = t /\ cpc'[c] # "out"
    BY <1>1, <1>3 DEF WatchdogTypeOK
  <2> QED
    BY <1>1, <2>1, <2>2 DEF CallbacksAreOwned
<1>9. NeverOversleeps'
  BY <1>3 DEF NeverOversleeps
<1> QED
  BY <1>4, <1>5, <1>6, <1>7, <1>8, <1>9

\* A thread that returns from cancel owns no callback any more.
LEMMA CancelKeeps ==
    ASSUME WatchdogInv, NEW c \in Callers, Cancel(c)
    PROVE  WatchdogInv'
<1> USE DEF WatchdogInv
<1>0. /\ cpc[c] \in {"armed", "cancel"}
      /\ UNCHANGED <<now, deadlines, running, next_token, fired, until, token, due>>
  BY DEF Cancel
<1>1. CASE /\ token[c] \notin running
           /\ callbacks' = callbacks \ {token[c]}
           /\ Notify([cpc EXCEPT ![c] = "out"])
  <2> DEFINE gone == [cpc EXCEPT ![c] = "out"]
  <2>1. gone \in [Callers -> {"out", "armed", "cancel", "waiting"}]
    BY DEF WatchdogTypeOK
  <2>2. /\ cpc' \in [Callers -> {"out", "armed", "cancel", "waiting"}]
        /\ \A b \in Callers : \/ cpc'[b] = gone[b]
                              \/ gone[b] = "waiting" /\ cpc'[b] = "cancel"
        /\ wpc' = wpc \/ (Asleep /\ wpc' = "check")
    BY <1>1, <2>1, NotifyWakes
  <2>3. /\ cpc'[c] = "out"
        /\ \A b \in Callers \ {c} : \/ cpc'[b] = cpc[b]
                                    \/ cpc[b] = "waiting" /\ cpc'[b] = "cancel"
    BY <2>2 DEF WatchdogTypeOK
  <2> HIDE DEF gone
  <2>4. WatchdogTypeOK' /\ TokensGivenOut' /\ PendingInHeap'
    BY <1>0, <1>1, <2>2, <2>3 DEF WatchdogTypeOK, TokensGivenOut, PendingInHeap
  <2>5. RunningIsDue'
    BY <1>0, <1>1, <2>2, <2>3 DEF WatchdogTypeOK, RunningIsDue, Asleep
  <2>6. CallbacksAreOwned'
    BY <1>0, <1>1, <2>3 DEF CallbacksAreOwned
  <2>7. NeverOversleeps'
    BY <1>0, <1>1, <2>2 DEF WatchdogTypeOK, NeverOversleeps, Asleep
  <2> QED
    BY <2>4, <2>5, <2>6, <2>7
<1>2. CASE /\ token[c] \in running
           /\ cpc' = [cpc EXCEPT ![c] = "waiting"]
           /\ UNCHANGED <<callbacks, wpc>>
  BY <1>0, <1>2 DEF WatchdogTypeOK, TokensGivenOut, PendingInHeap, RunningIsDue,
                    CallbacksAreOwned, NeverOversleeps
<1> QED
  BY <1>1, <1>2 DEF Cancel

\* The watchdog sleeps only if nothing is pending, or until the earliest deadline;
\* and it takes a callback only at its deadline.
LEMMA LookKeeps == ASSUME WatchdogInv, Look PROVE WatchdogInv'
<1> USE DEF WatchdogInv
<1>0. /\ wpc = "check"
      /\ UNCHANGED <<now, next_token, fired, cpc, token, due>>
  BY DEF Look
<1>1. /\ Pruned \subseteq deadlines
      /\ \A e \in deadlines : e[2] \in callbacks => e \in Pruned
  BY PruningKeepsPending DEF WatchdogTypeOK
<1>2. CASE /\ Pruned = {} /\ deadlines' = {} /\ wpc' = "wait"
           /\ UNCHANGED <<callbacks, running, until>>
  <2>1. callbacks = {}
    BY <1>1, <1>2 DEF PendingInHeap
  <2> QED
    BY <1>0, <1>2, <2>1 DEF WatchdogTypeOK, TokensGivenOut, PendingInHeap, RunningIsDue,
                            CallbacksAreOwned, NeverOversleeps
<1>3. ASSUME NEW e \in Pruned, IsHead(e, Pruned), e[1] > now, deadlines' = Pruned,
             wpc' = "timed", until' = e[1], UNCHANGED <<callbacks, running>>
      PROVE  WatchdogInv'
  <2>1. /\ e[1] \in Nat
        /\ \A f \in deadlines : f[2] \in callbacks => e[1] <= f[1]
    BY <1>3, HeadIsEarliest DEF WatchdogTypeOK
  <2>2. WatchdogTypeOK'
    BY <1>0, <1>1, <1>3, <2>1 DEF WatchdogTypeOK
  <2>3. PendingInHeap' /\ TokensGivenOut'
    BY <1>0, <1>1, <1>3 DEF PendingInHeap, TokensGivenOut
  <2>4. RunningIsDue' /\ CallbacksAreOwned'
    BY <1>0, <1>3 DEF RunningIsDue, CallbacksAreOwned
  <2>5. NeverOversleeps'
    BY <1>1, <1>3, <2>1 DEF NeverOversleeps
  <2> QED
    BY <2>2, <2>3, <2>4, <2>5
<1>4. ASSUME NEW e \in Pruned, IsHead(e, Pruned), e[1] <= now, deadlines' = Pruned \ {e},
             callbacks' = callbacks \ {e[2]}, running' = running \cup {e[2]},
             wpc' = "call", UNCHANGED until
      PROVE  WatchdogInv'
  <2>1. e \in deadlines /\ e[1] \in Nat /\ e[2] \in Nat /\ e[2] \in callbacks
    BY <1>4, HeadIsEarliest DEF WatchdogTypeOK
  <2>2. WatchdogTypeOK'
    BY <1>0, <1>1, <1>4, <2>1 DEF WatchdogTypeOK
  <2>3. TokensGivenOut'
    BY <1>0, <1>1, <1>4, <2>1 DEF TokensGivenOut, WatchdogTypeOK
  <2>4. PendingInHeap'
    BY <1>0, <1>1, <1>4 DEF PendingInHeap
  <2>5. PICK c \in Callers : token[c] = e[2] /\ cpc[c] # "out"
    BY <2>1 DEF CallbacksAreOwned
  <2>6. due[c] <= now
    BY <1>4, <2>1, <2>5 DEF PendingInHeap
  <2>7. RunningIsDue'
    BY <1>0, <1>4, <2>5, <2>6 DEF RunningIsDue
  <2>8. CallbacksAreOwned' /\ NeverOversleeps'
    BY <1>0, <1>4, <2>5 DEF CallbacksAreOwned, NeverOversleeps
  <2> QED
    BY <2>2, <2>3, <2>4, <2>7, <2>8
<1> QED
  BY <1>2, <1>3, <1>4 DEF Look

\* The steps that take nothing out of the heap and give nothing back to it.
LEMMA OtherStepsKeep ==
    ASSUME WatchdogInv, TimedOut \/ Call \/ Called \/ Tick
    PROVE  WatchdogInv'
<1> USE DEF WatchdogInv
<1>1. CASE TimedOut
  BY <1>1 DEF TimedOut, WatchdogTypeOK, TokensGivenOut, PendingInHeap, RunningIsDue,
              CallbacksAreOwned, NeverOversleeps
<1>2. CASE Call
  <2>1. WatchdogTypeOK'
    BY <1>2 DEF Call, WatchdogTypeOK
  <2> QED
    BY <1>2, <2>1 DEF Call, TokensGivenOut, PendingInHeap, RunningIsDue,
                      CallbacksAreOwned, NeverOversleeps
<1>3. CASE Called
  <2>1. /\ WatchdogTypeOK'
        /\ \A c \in Callers : cpc'[c] # "waiting" /\ (cpc'[c] = "out" <=> cpc[c] = "out")
    BY <1>3 DEF Called, WatchdogTypeOK
  <2> QED
    BY <1>3, <2>1 DEF Called, TokensGivenOut, PendingInHeap, RunningIsDue,
                      CallbacksAreOwned, NeverOversleeps
<1>4. CASE Tick
  <2>1. WatchdogTypeOK' /\ now < now'
    BY <1>4 DEF Tick, WatchdogTypeOK
  <2>2. RunningIsDue'
    <3>1. ASSUME NEW t \in running
          PROVE  \E c \in Callers : token[c] = t /\ cpc[c] # "out" /\ due[c] <= now'
      <4>1. PICK c \in Callers : token[c] = t /\ cpc[c] # "out" /\ due[c] <= now
        BY DEF RunningIsDue
      <4> QED
        BY <2>1, <4>1 DEF WatchdogTypeOK
    <3> QED
      BY <1>4, <3>1 DEF Tick, RunningIsDue
  <2> QED
    BY <1>4, <2>1, <2>2 DEF Tick, TokensGivenOut, PendingInHeap, CallbacksAreOwned,
                            NeverOversleeps
<1> QED
  BY <1>1, <1>2, <1>3, <1>4

LEMMA WatchdogNextInv == WatchdogInv /\ [WatchdogNext]_watchdogVars => WatchdogInv'
<1> SUFFICES ASSUME WatchdogInv, [WatchdogNext]_watchdogVars
             PROVE  WatchdogInv'
  OBVIOUS
<1>1. ASSUME NEW c \in Callers, Arm(c) PROVE WatchdogInv'
  BY <1>1, ArmKeeps DEF Arm
<1>2. ASSUME NEW c \in Callers, Cancel(c) PROVE WatchdogInv'
  BY <1>2, CancelKeeps
<1>3. CASE Watchdog \/ Tick
  BY <1>3, LookKeeps, OtherStepsKeep DEF Watchdog
<1>4. CASE UNCHANGED watchdogVars
  BY <1>4 DEF watchdogVars, WatchdogInv, WatchdogTypeOK, TokensGivenOut, PendingInHeap,
              RunningIsDue, CallbacksAreOwned, NeverOversleeps
<1> QED
  BY <1>1, <1>2, <1>3, <1>4 DEF WatchdogNext

LEMMA WatchdogInductive == WatchdogSpec => []WatchdogInv
BY WatchdogInitInv, WatchdogNextInv, PTL DEF WatchdogSpec

-----------------------------------------------------------------------------
\* The variables keep their types.
THEOREM WatchdogTypeCorrect == WatchdogSpec => []WatchdogTypeOK
<1>1. WatchdogInv => WatchdogTypeOK
  BY DEF WatchdogInv
<1> QED
  BY <1>1, WatchdogInductive, PTL

\* No deadline callback is pending or running for a request thread that has
\* returned from _DeadlineWatchdog.cancel, however many threads share the watchdog.
THEOREM CallbacksAlwaysOwned == WatchdogSpec => []CallbacksAreOwned
<1>1. WatchdogInv => CallbacksAreOwned
  BY DEF WatchdogInv
<1> QED
  BY <1>1, WatchdogInductive, PTL

\* _DeadlineWatchdog._run never sleeps past the earliest pending deadline.
THEOREM WatchdogNeverOversleeps == WatchdogSpec => []NeverOversleeps
<1>1. WatchdogInv => NeverOversleeps
  BY DEF WatchdogInv
<1> QED
  BY <1>1, WatchdogInductive, PTL

\* The one notify() of schedule never goes to a thread waiting in cancel while the
\* watchdog sleeps: cancel only waits while the watchdog is at work.
THEOREM WakeupsReachTheWatchdog == WatchdogSpec => []NoStolenWakeup
<1>1. WatchdogInv => NoStolenWakeup
  BY DEF WatchdogInv, WatchdogTypeOK, RunningIsDue, NoStolenWakeup, Asleep
<1> QED
  BY <1>1, WatchdogInductive, PTL

\* A callback has its effect only for a request that is still there and whose
\* deadline has passed.
THEOREM CallbacksFireWhenDue == WatchdogSpec => FiredWhenDue
<1> DEFINE DueStep == \A t \in fired' \ fired :
                          \E c \in Callers : token[c] = t /\ cpc[c] # "out" /\ due[c] <= now
<1>1. ASSUME WatchdogInv, [WatchdogNext]_watchdogVars
      PROVE  [DueStep]_watchdogVars
  <2>1. CASE Call
    BY <1>1, <2>1 DEF Call, WatchdogInv, RunningIsDue
  <2>2. CASE UNCHANGED fired
    BY <2>2
  <2> QED
    BY <1>1, <2>1, <2>2 DEF WatchdogNext, Watchdog, Look, TimedOut, Called, Arm, Schedule,
                            Cancel, Tick, watchdogVars
<1> QED
  BY <1>1, WatchdogInductive, PTL DEF WatchdogSpec, FiredWhenDue

=============================================================================
