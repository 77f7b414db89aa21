-------------------------- MODULE DeadlineWatchdog --------------------------
(***************************************************************************)
(* benchmarks/http_load/transport.py, _DeadlineWatchdog: one daemon thread *)
(* that interrupts every request of the process at its deadline.           *)
(*                                                                         *)
(* Request threads (Callers) arm a deadline before they block on the       *)
(* network and cancel it when they are done; cancel waits for a callback   *)
(* that is already running, so that a callback cannot touch a client the   *)
(* thread has given back.  Everything is guarded by one Condition, on      *)
(* which both the watchdog and cancelling threads wait: a block that holds *)
(* it is one step, and wait() ends the step.                               *)
(*                                                                         *)
(* A deadline is a time of the clock `now`; a callback is known by the     *)
(* token schedule returned for it.                                         *)
(***************************************************************************)
EXTENDS Naturals

CONSTANTS
    Callers,     \* request threads
    Timeouts,    \* timeouts a request can have, in ticks
    MaxTokens,   \* bound: deadlines armed altogether
    MaxTime      \* bound: the last tick of the clock

ASSUME WatchdogAssumption ==
    /\ Timeouts \subseteq Nat
    /\ MaxTokens \in Nat
    /\ MaxTime \in Nat

VARIABLES
    now,         \* time.perf_counter()
    deadlines,   \* the heap of <<deadline, token>>; cancelled entries linger
    callbacks,   \* tokens whose callback is still to be called
    running,     \* tokens whose callback is being called
    next_token,  \* the last token given out
    fired,       \* history: tokens whose callback has had its effect
    wpc,         \* the watchdog thread: where it is
    until,       \* and the time its timed wait ends at
    cpc,         \* each caller: where it is
    token,       \* the token it holds
    due          \* and the deadline it armed

watchdogVars == <<now, deadlines, callbacks, running, next_token, fired, wpc, until,
                  cpc, token, due>>

\* heapq orders the pairs by deadline, then by token.
Before(e, f) == e[1] < f[1] \/ (e[1] = f[1] /\ e[2] <= f[2])

IsHead(e, heap) == e \in heap /\ \A f \in heap : Before(e, f)

\* The heap after the cancelled entries at its top were popped.
Pruned == {e \in deadlines : \E f \in deadlines : f[2] \in callbacks /\ Before(f, e)}

Asleep == wpc \in {"wait", "timed"}

-----------------------------------------------------------------------------
(* Condition.notify() wakes one waiter, notify_all() all of them; notifying *)
(* nobody has no effect.  A woken thread looks again at what it waited for.  *)

\* notify(), with `callers` the callers' states after the notifying step.
Notify(callers) ==
    LET waiting == {c \in Callers : callers[c] = "waiting"} IN
    \/ Asleep /\ wpc' = "check" /\ cpc' = callers
    \/ \E c \in waiting : cpc' = [callers EXCEPT ![c] = "cancel"] /\ UNCHANGED wpc
    \/ ~Asleep /\ waiting = {} /\ cpc' = callers /\ UNCHANGED wpc

\* Mutant: schedule forgets to notify.
Schedule_Silent(c, d) ==
    /\ next_token' = next_token + 1
    /\ token' = [token EXCEPT ![c] = next_token']
    /\ due' = [due EXCEPT ![c] = d]
    /\ callbacks' = callbacks \cup {next_token'}
    /\ deadlines' = deadlines \cup {<<d, next_token'>>}
    /\ cpc' = [cpc EXCEPT ![c] = "armed"]
    /\ wpc' = IF wpc = "unstarted" THEN "check" ELSE wpc
    /\ UNCHANGED <<now, running, fired, until>>

\* schedule(): a fresh token, its callback and its heap entry; the first call
\* starts the thread, which waits for the lock like any other.
Schedule(c, d) ==
    /\ next_token' = next_token + 1
    /\ token' = [token EXCEPT ![c] = next_token']
    /\ due' = [due EXCEPT ![c] = d]
    /\ callbacks' = callbacks \cup {next_token'}
    /\ deadlines' = deadlines \cup {<<d, next_token'>>}
    /\ \/ /\ wpc = "unstarted"
          /\ wpc' = "check"
          /\ cpc' = [cpc EXCEPT ![c] = "armed"]
       \/ /\ wpc # "unstarted"
          /\ Notify([cpc EXCEPT ![c] = "armed"])
    /\ UNCHANGED <<now, running, fired, until>>

\* Mutant: cancel does not wait for a callback that is running.
Cancel_NoWait(c) ==
    /\ cpc[c] \in {"armed", "cancel"}
    /\ callbacks' = callbacks \ {token[c]}
    /\ Notify([cpc EXCEPT ![c] = "out"])
    /\ UNCHANGED <<now, deadlines, running, next_token, fired, until, token, due>>

\* cancel(): a pending callback is withdrawn; a running one is waited for; and
\* either way, or when the callback is already over, the condition is notified.
Cancel(c) ==
    /\ cpc[c] \in {"armed", "cancel"}
    /\ \/ /\ token[c] \notin running
          /\ callbacks' = callbacks \ {token[c]}
          /\ Notify([cpc EXCEPT ![c] = "out"])
       \/ /\ token[c] \in running
          /\ cpc' = [cpc EXCEPT ![c] = "waiting"]
          /\ UNCHANGED <<callbacks, wpc>>
    /\ UNCHANGED <<now, deadlines, running, next_token, fired, until, token, due>>
\* Mutant: the entry at the top of the heap is taken before its time has come.
Look_Eager ==
    /\ wpc = "check"
    /\ \/ /\ Pruned = {}
          /\ deadlines' = {}
          /\ wpc' = "wait"
          /\ UNCHANGED <<callbacks, running>>
       \/ \E e \in Pruned :
             /\ IsHead(e, Pruned)
             /\ deadlines' = Pruned \ {e}
             /\ callbacks' = callbacks \ {e[2]}
             /\ running' = running \cup {e[2]}
             /\ wpc' = "call"
    /\ UNCHANGED <<now, next_token, fired, until, cpc, token, due>>

\* _run, holding the condition: the cancelled entries at the top of the heap are
\* dropped, and the watchdog waits for a deadline, waits for the first one to
\* come, or takes its callback.
Look ==
    /\ wpc = "check"
    /\ \/ /\ Pruned = {}
          /\ deadlines' = {}
          /\ wpc' = "wait"
          /\ UNCHANGED <<callbacks, running, until>>
       \/ \E e \in Pruned :
             /\ IsHead(e, Pruned)
             /\ e[1] > now
             /\ deadlines' = Pruned
             /\ wpc' = "timed"
             /\ until' = e[1]
             /\ UNCHANGED <<callbacks, running>>
       \/ \E e \in Pruned :
             /\ IsHead(e, Pruned)
             /\ e[1] <= now
             /\ deadlines' = Pruned \ {e}
             /\ callbacks' = callbacks \ {e[2]}
             /\ running' = running \cup {e[2]}
             /\ wpc' = "call"
             /\ UNCHANGED until
    /\ UNCHANGED <<now, next_token, fired, cpc, token, due>>

\* The timed wait is over.
TimedOut ==
    /\ wpc = "timed" /\ now >= until
    /\ wpc' = "check"
    /\ UNCHANGED <<now, deadlines, callbacks, running, next_token, fired, until, cpc, token, due>>

\* The callback closes its client or response, outside the lock.  What it raises
\* is suppressed.
Call ==
    /\ wpc = "call"
    /\ fired' = fired \cup running
    /\ wpc' = "called"
    /\ UNCHANGED <<now, deadlines, callbacks, running, next_token, until, cpc, token, due>>

\* Mutant: nobody is told that the callback is over.
Called_Forgets ==
    /\ wpc = "called"
    /\ running' = {}
    /\ wpc' = "check"
    /\ UNCHANGED <<now, deadlines, callbacks, next_token, fired, until, cpc, token, due>>

\* The callback is over: every cancelling thread looks again.
Called ==
    /\ wpc = "called"
    /\ running' = {}
    /\ cpc' = [c \in Callers |-> IF cpc[c] = "waiting" THEN "cancel" ELSE cpc[c]]
    /\ wpc' = "check"
    /\ UNCHANGED <<now, deadlines, callbacks, next_token, fired, until, token, due>>

Watchdog == Look \/ TimedOut \/ Call \/ Called

\* A request thread arms its deadline: before the headers, and again for the body.
Arm(c) ==
    /\ cpc[c] = "out"
    /\ next_token < MaxTokens
    /\ \E d \in Timeouts : Schedule(c, now + d)

Tick ==
    /\ now < MaxTime
    /\ now' = now + 1
    /\ UNCHANGED <<deadlines, callbacks, running, next_token, fired, wpc, until, cpc, token, due>>

WatchdogInit ==
    /\ now = 0
    /\ deadlines = {}
    /\ callbacks = {}
    /\ running = {}
    /\ next_token = 0
    /\ fired = {}
    /\ wpc = "unstarted"
    /\ until = 0
    /\ cpc = [c \in Callers |-> "out"]
    /\ token = [c \in Callers |-> 0]
    /\ due = [c \in Callers |-> 0]

WatchdogNext ==
    \/ Watchdog
    \/ \E c \in Callers : Arm(c) \/ Cancel(c)
    \/ Tick

WatchdogSpec == WatchdogInit /\ [][WatchdogNext]_watchdogVars

\* Threads run: the watchdog whenever it can, a thread that has begun to cancel
\* until it is through, and the clock.  A request need not end by itself.
WatchdogFairSpec ==
    /\ WatchdogSpec
    /\ WF_watchdogVars(Watchdog)
    /\ \A c \in Callers : WF_watchdogVars(cpc[c] = "cancel" /\ Cancel(c))
    /\ WF_watchdogVars(Tick)

-----------------------------------------------------------------------------
WatchdogTypeOK ==
    /\ now \in Nat
    /\ deadlines \subseteq Nat \X Nat
    /\ callbacks \subseteq Nat
    /\ running \subseteq Nat
    /\ next_token \in Nat
    /\ fired \subseteq Nat
    /\ wpc \in {"unstarted", "check", "wait", "timed", "call", "called"}
    /\ until \in Nat
    /\ cpc \in [Callers -> {"out", "armed", "cancel", "waiting"}]
    /\ token \in [Callers -> Nat]
    /\ due \in [Callers -> Nat]

\* A callback that is pending or running belongs to a thread that has not yet
\* returned from cancel: once a thread has given its client back, no deadline of
\* its request can close it.
CallbacksAreOwned ==
    \A t \in callbacks \cup running : \E c \in Callers : token[c] = t /\ cpc[c] # "out"

\* A sleeping watchdog is woken in time: it waits without a time only when nothing
\* is pending, and otherwise no longer than until the earliest pending deadline.
NeverOversleeps ==
    /\ wpc = "wait" => callbacks = {}
    /\ wpc = "timed" => \A e \in deadlines : e[2] \in callbacks => until <= e[1]
    /\ wpc # "unstarted" \/ callbacks = {}

\* One condition serves two kinds of waiters, and notify() wakes only one of them:
\* no thread waits in cancel while the watchdog sleeps, so none takes the wake-up
\* that schedule means for the watchdog.
NoStolenWakeup == Asleep => \A c \in Callers : cpc[c] # "waiting"

\* A callback has its effect on behalf of a request that is still there, and never
\* before that request's deadline.
FiredWhenDue ==
    [][\A t \in fired' \ fired :
          \E c \in Callers : token[c] = t /\ cpc[c] # "out" /\ due[c] <= now]_watchdogVars

\* A request that is blocked past its deadline is interrupted: every due deadline
\* is called, or cancelled by a request that ended by itself.
DueIsInterrupted ==
    \A c \in Callers :
        cpc[c] = "armed" /\ due[c] <= now ~> cpc[c] # "armed" \/ token[c] \in fired

\* A thread that cancels is never left waiting.
CancelReturns == \A c \in Callers : cpc[c] \in {"cancel", "waiting"} ~> cpc[c] = "out"
=============================================================================
