----------------------------- MODULE Leadership -----------------------------
(***************************************************************************)
(* Leader election of the applier's replicas (internal/leadership): the    *)
(* Lease on the API server, client-go's elector, the tracking lock, the    *)
(* freshness gate that every SSA and DELETE passes, the write context that *)
(* the gate caps, and the hand-over of a deliberate exit.                  *)
(*                                                                         *)
(* A replica is one process: its identity is a new UUID and its Runnable   *)
(* is single-use.  Time is a global clock that advances between any two    *)
(* steps, so every process may be paused anywhere and for any time, which  *)
(* includes crashes and freezes.  Lease writes may be lost, answered late, *)
(* or executed after their client gave up.                                 *)
(***************************************************************************)
EXTENDS Integers

CONSTANTS
    Replicas,        \* processes of one partition
    NoHolder,        \* the empty HolderIdentity
    LeaseDuration, RenewDeadline, RetryPeriod,
    HandOverDuration,   \* handOverLeaseDurationSeconds
    WriteTimeout,    \* applyTimeout and deleteTimeout
    Transit,         \* how long a request that was sent may take to be accepted
    MaxTime,         \* bound on the clock
    MaxLeaseVersion  \* bound on the number of Lease writes

ASSUME LeadershipAssumption ==
    /\ NoHolder \notin Replicas
    /\ LeaseDuration \in Nat /\ RenewDeadline \in Nat /\ RetryPeriod \in Nat
    /\ HandOverDuration \in Nat /\ WriteTimeout \in Nat /\ Transit \in Nat
    /\ MaxTime \in Nat /\ MaxLeaseVersion \in Nat
    /\ 0 < RetryPeriod /\ RetryPeriod <= LeaseDuration
    /\ Transit <= RetryPeriod

VARIABLES
    now,       \* the clock; 0 stands for "never"
    lease,     \* the Lease; version 0 means that it does not exist
    elector,   \* client-go's elector, and Start after it has returned
    seen,      \* the Lease as last read or written, and when (at = 0: never)
    call,      \* the Lease write in progress
    ok,        \* trackingLock.lastSuccess
    loop,      \* the controllers: "none", "scheduled", "running", "drained"
    stop,      \* has the controllers' run context been canceled?
    cause,     \* why the exit is deliberate: "none", "shutdown", "failure"
    write      \* the SSA or DELETE in progress

runVars == <<loop, stop, cause, write>>
vars == <<now, lease, elector, seen, call, ok, runVars>>

NoCall ==
    [stage |-> "none", issued |-> 0, version |-> 0, holder |-> NoHolder,
     awaited |-> FALSE]

\* A write has asked for its window, then has a context that ends at its
\* deadline, then is sent.  lag is the time between the first two, which only
\* the properties read.
NoWrite ==
    [stage |-> "idle", asked |-> 0, window |-> 0, deadline |-> 0, lag |-> 0, sent |-> 0]

Later(a, b) == IF a >= b THEN a ELSE b
Earlier(a, b) == IF a <= b THEN a ELSE b

\* The context of the controllers: canceled by the gate or by a sibling's
\* exit, by the elector's return, or by the process's shutdown.
Canceled(r) ==
    stop[r] \/ elector[r] \notin {"acquire", "renew"} \/ cause[r] = "shutdown"

-----------------------------------------------------------------------------
(***************************************************************************)
(* The elector (client-go) and the API server                              *)
(***************************************************************************)

Observation(old) ==
    IF old.at # 0 /\ old.version = lease.version THEN old
    ELSE [version |-> lease.version, holder |-> lease.holder,
          duration |-> lease.duration, at |-> now]

\* An attempt reads the Lease; the time of the observation is kept while the
\* record does not change.
Observe(r) ==
    /\ elector[r] \in {"acquire", "renew"}
    /\ ~call[r].awaited
    /\ seen' = [seen EXCEPT ![r] = Observation(seen[r])]
    /\ UNCHANGED <<now, lease, elector, call, ok, runVars>>

Expired(view) == view.at + view.duration <= now

MayTake(r) ==
    /\ seen[r].at # 0
    /\ seen[r].holder \in {NoHolder, r} \/ Expired(seen[r])

LeaseWrite(r, holder) ==
    [stage |-> "sent", issued |-> now, version |-> seen[r].version,
     holder |-> holder, awaited |-> TRUE]

\* It creates, takes or renews the Lease with the version it read.  A leader
\* whose record is still valid does so without reading again, and one that
\* reads again finds the same version or is refused.
Acquire(r) ==
    /\ elector[r] \in {"acquire", "renew"}
    /\ cause[r] # "shutdown" /\ loop[r] # "drained"
    /\ ~call[r].awaited
    /\ lease.version < MaxLeaseVersion
    /\ MayTake(r)
    /\ call' = [call EXCEPT ![r] = LeaseWrite(r, r)]
    /\ UNCHANGED <<now, lease, elector, seen, ok, runVars>>

DurationFor(holder) == IF holder = NoHolder THEN HandOverDuration ELSE LeaseDuration

Written(c) ==
    [version |-> c.version + 1, holder |-> c.holder, duration |-> DurationFor(c.holder),
     transitions |-> IF c.holder \in {NoHolder, lease.holder}
                     THEN lease.transitions ELSE lease.transitions + 1]

Running(r) == loop[r] \in {"scheduled", "running"}

\* The API server executes a Lease write if its version is still current.
Commit(r) ==
    LET c == call[r] IN
    /\ c.stage = "sent"
    /\ c.version = lease.version
    /\ lease' = Written(c)
    /\ call' = [call EXCEPT ![r] = IF c.awaited THEN [c EXCEPT !.stage = "committed"]
                                   ELSE NoCall]
    /\ UNCHANGED <<now, elector, seen, ok, runVars>>

\* It refuses one whose version is not, and the client learns of it; or the
\* client gives up, and the write may still be executed.
CallFails(r) ==
    LET c == call[r] IN
    /\ c.awaited
    /\ c.stage = "sent" \/ c.stage = "committed"
    /\ call' = [call EXCEPT ![r] =
                  IF c.stage = "sent" /\ c.version = lease.version
                  THEN [c EXCEPT !.awaited = FALSE] ELSE NoCall]
    /\ UNCHANGED <<now, lease, elector, seen, ok, runVars>>

\* Mutant: the time of the answer is recorded.
SuccessAtAnswer(r) == Later(ok[r], now)

\* trackingLock.markSuccess: the time of the request, never moved back.
Success(r) == Later(ok[r], call[r].issued)

\* trackingLock.Create or Update returns.  The first success is the
\* acquisition, after which client-go starts OnStartedLeading.  When a replica
\* saw its own record does not matter: it may always renew it.
CallSucceeds(r) ==
    LET c == call[r] IN
    /\ c.awaited
    /\ c.stage = "committed"
    /\ call' = [call EXCEPT ![r] = NoCall]
    /\ ok' = [ok EXCEPT ![r] = Success(r)]
    /\ seen' = [seen EXCEPT ![r] =
                  [version |-> c.version + 1, holder |-> c.holder,
                   duration |-> DurationFor(c.holder), at |-> Success(r)]]
    /\ \/ /\ elector[r] = "acquire"
          /\ elector' = [elector EXCEPT ![r] = "renew"]
          /\ loop' = [loop EXCEPT ![r] = "scheduled"]
       \/ /\ elector[r] # "acquire"
          /\ UNCHANGED <<elector, loop>>
    /\ UNCHANGED <<now, lease, stop, cause, write>>

\* elector.Run returns: its context was canceled, by shutdown or because a
\* controller has stopped, or the renewals failed for RenewDeadline.
RunReturns(r) ==
    /\ ~call[r].awaited
    /\ \/ elector[r] \in {"acquire", "renew"} /\ cause[r] = "shutdown"
       \/ elector[r] = "renew" /\ stop[r]
       \/ elector[r] = "renew" /\ now - ok[r] >= RenewDeadline
    /\ elector' = [elector EXCEPT ![r] = "returned"]
    /\ UNCHANGED <<now, lease, seen, call, ok, runVars>>

-----------------------------------------------------------------------------
(***************************************************************************)
(* The controllers and the freshness gate                                  *)
(***************************************************************************)

\* Mutant: the whole Lease duration counts as fresh.
FullDuration == LeaseDuration + 1

\* staleGate.bound
Bound == LeaseDuration - RetryPeriod

CanWrite(r) == now - ok[r] <= Bound

\* OnStartedLeading runs on a goroutine of its own, at any time later.
StartControllers(r) ==
    /\ loop[r] = "scheduled"
    /\ loop' = [loop EXCEPT ![r] = "running"]
    /\ UNCHANGED <<now, lease, elector, seen, call, ok, stop, cause, write>>

\* A reconciler is about to write: the context is alive and the gate is open.
CheckGate(r) ==
    /\ loop[r] = "running"
    /\ write[r].stage = "idle"
    /\ ~Canceled(r)
    /\ CanWrite(r)
    /\ write' = [write EXCEPT ![r] = [NoWrite EXCEPT !.stage = "checked"]]
    /\ UNCHANGED <<now, lease, elector, seen, call, ok, loop, stop, cause>>

\* A reconciler or the watcher finds the gate stale.
GoStale(r) ==
    /\ loop[r] = "running"
    /\ ~stop[r]
    /\ ~CanWrite(r)
    /\ stop' = [stop EXCEPT ![r] = TRUE]
    /\ UNCHANGED <<now, lease, elector, seen, call, ok, loop, cause, write>>

\* Mutant: the write context is not capped.
UncappedWindow(r) == WriteTimeout

\* WriteContext takes the timeout, or what is left of the write window if that
\* is less, and nothing if it has passed.
Window(r) == Earlier(WriteTimeout, Bound - (now - ok[r]))

\* gate.Remaining() reads the clock and answers with a duration.
AskRemaining(r) ==
    /\ write[r].stage = "checked"
    /\ write' = [write EXCEPT ![r] = [NoWrite EXCEPT !.stage = "asked", !.asked = now,
                                                    !.window = Window(r)]]
    /\ UNCHANGED <<now, lease, elector, seen, call, ok, loop, stop, cause>>

\* Mutant: the duration is taken for a time.
WindowAsDeadline(r) == write[r].window

\* context.WithTimeout reads the clock again.
Deadline(r) == now + write[r].window

MakeContext(r) ==
    /\ write[r].stage = "asked"
    /\ write' = [write EXCEPT ![r] = [NoWrite EXCEPT !.stage = "ready",
                                                    !.deadline = Deadline(r),
                                                    !.lag = now - write[r].asked]]
    /\ UNCHANGED <<now, lease, elector, seen, call, ok, loop, stop, cause>>

\* The request is sent unless its context has ended.
Send(r) ==
    /\ write[r].stage = "ready"
    /\ now < write[r].deadline
    /\ ~Canceled(r)
    /\ write' = [write EXCEPT ![r] = [NoWrite EXCEPT !.stage = "sent", !.sent = now,
                                                    !.lag = write[r].lag]]
    /\ UNCHANGED <<now, lease, elector, seen, call, ok, loop, stop, cause>>

\* The API server accepts the request, at most Transit after it was sent.
AcceptWrite(r) ==
    /\ write[r].stage = "sent"
    /\ now <= write[r].sent + Transit
    /\ write' = [write EXCEPT ![r] = [NoWrite EXCEPT !.stage = "accepted",
                                                    !.lag = write[r].lag]]
    /\ UNCHANGED <<now, lease, elector, seen, call, ok, loop, stop, cause>>

\* The client returns, with the answer, an error, or because its context
\* ended; a request it gave up is not accepted later.
EndWrite(r) ==
    /\ write[r].stage \in {"ready", "sent", "accepted"}
    /\ write' = [write EXCEPT ![r] = NoWrite]
    /\ UNCHANGED <<now, lease, elector, seen, call, ok, loop, stop, cause>>

\* Mutant: runControllers does not wait for the reconcilers.
DrainAtOnce(r) ==
    /\ loop[r] \in {"scheduled", "running"}
    /\ Canceled(r)
    /\ loop' = [loop EXCEPT ![r] = "drained"]
    /\ stop' = [stop EXCEPT ![r] = TRUE]
    /\ UNCHANGED <<now, lease, elector, seen, call, ok, write, cause>>

\* A runnable returns with an error: its siblings and the election are stopped.
Fail(r) ==
    /\ loop[r] = "running"
    /\ cause[r] = "none"
    /\ cause' = [cause EXCEPT ![r] = "failure"]
    /\ stop' = [stop EXCEPT ![r] = TRUE]
    /\ UNCHANGED <<now, lease, elector, seen, call, ok, loop, write>>

\* runControllers returns when every runnable has, once their context ended.
Drain(r) ==
    /\ loop[r] = "running"
    /\ write[r].stage = "idle"
    /\ Canceled(r)
    /\ loop' = [loop EXCEPT ![r] = "drained"]
    /\ stop' = [stop EXCEPT ![r] = TRUE]
    /\ UNCHANGED <<now, lease, elector, seen, call, ok, cause, write>>

-----------------------------------------------------------------------------
(***************************************************************************)
(* Shutdown and hand-over                                                  *)
(***************************************************************************)

\* The process is told to stop.
Shutdown(r) ==
    /\ cause[r] = "none"
    /\ elector[r] \in {"acquire", "renew", "returned"}
    /\ cause' = [cause EXCEPT ![r] = "shutdown"]
    /\ UNCHANGED <<now, lease, elector, seen, call, ok, loop, stop, write>>

\* Mutant: Start does not wait for runControllers to return.
ReadBeforeDrain(r) ==
    /\ elector[r] = "returned"
    /\ loop[r] # "none"
    /\ cause[r] # "none"
    /\ elector' = [elector EXCEPT ![r] = "handover"]
    /\ seen' = [seen EXCEPT ![r] = Observation(seen[r])]
    /\ UNCHANGED <<now, lease, call, ok, runVars>>

\* releaseLease reads the Lease, after the controllers have drained, unless
\* leadership was just lost.
ReadToHandOver(r) ==
    /\ elector[r] = "returned"
    /\ loop[r] = "drained"
    /\ cause[r] # "none"
    /\ \/ /\ elector' = [elector EXCEPT ![r] = "handover"]
          /\ seen' = [seen EXCEPT ![r] = Observation(seen[r])]
       \/ /\ elector' = [elector EXCEPT ![r] = "exited"]
          /\ UNCHANGED seen
    /\ UNCHANGED <<now, lease, call, ok, runVars>>

\* It writes an expired record without a holder, if it is the holder.
HandOver(r) ==
    /\ elector[r] = "handover"
    /\ elector' = [elector EXCEPT ![r] = "exited"]
    /\ \/ /\ seen[r].holder = r
          /\ lease.version < MaxLeaseVersion
          /\ call' = [call EXCEPT ![r] = LeaseWrite(r, NoHolder)]
       \/ seen[r].holder # r /\ UNCHANGED call
    /\ UNCHANGED <<now, lease, seen, ok, runVars>>

Tick ==
    /\ now < MaxTime
    /\ now' = now + 1
    /\ UNCHANGED <<lease, elector, seen, call, ok, runVars>>

-----------------------------------------------------------------------------
Init ==
    /\ now = 1
    /\ lease = [version |-> 0, holder |-> NoHolder, duration |-> 0, transitions |-> 0]
    /\ elector = [r \in Replicas |-> "acquire"]
    /\ seen = [r \in Replicas |-> [version |-> 0, holder |-> NoHolder, duration |-> 0, at |-> 0]]
    /\ call = [r \in Replicas |-> NoCall]
    /\ ok = [r \in Replicas |-> 0]
    /\ loop = [r \in Replicas |-> "none"]
    /\ stop = [r \in Replicas |-> FALSE]
    /\ cause = [r \in Replicas |-> "none"]
    /\ write = [r \in Replicas |-> NoWrite]

Step(r) ==
    \/ Observe(r) \/ Acquire(r) \/ Commit(r) \/ CallFails(r) \/ CallSucceeds(r)
    \/ RunReturns(r) \/ StartControllers(r) \/ CheckGate(r) \/ GoStale(r)
    \/ AskRemaining(r) \/ MakeContext(r) \/ Send(r) \/ AcceptWrite(r) \/ EndWrite(r)
    \/ Fail(r) \/ Drain(r) \/ Shutdown(r) \/ ReadToHandOver(r) \/ HandOver(r)

Next == Tick \/ \E r \in Replicas : Step(r)

Spec == Init /\ [][Next]_vars

-----------------------------------------------------------------------------
(***************************************************************************)
(* Properties                                                              *)
(***************************************************************************)

LeaseCalls ==
    [stage : {"none", "sent", "committed"}, issued : Nat, version : Nat,
     holder : Replicas \cup {NoHolder}, awaited : BOOLEAN]

Writes ==
    [stage : {"idle", "checked", "asked", "ready", "sent", "accepted"},
     asked : Nat, window : Int, deadline : Nat, lag : Nat, sent : Nat]

\* Times never run below zero, deadlines of write contexts included, and every
\* replica is at a known stage of its election, its controllers and its write.
LeadershipTypeOK ==
    /\ now \in Nat
    /\ lease \in [version : Nat, holder : Replicas \cup {NoHolder},
                  duration : Nat, transitions : Nat]
    /\ elector \in [Replicas -> {"acquire", "renew", "returned", "handover", "exited"}]
    /\ seen \in [Replicas -> [version : Nat, holder : Replicas \cup {NoHolder},
                              duration : Nat, at : Nat]]
    /\ call \in [Replicas -> LeaseCalls]
    /\ ok \in [Replicas -> Nat]
    /\ loop \in [Replicas -> {"none", "scheduled", "running", "drained"}]
    /\ stop \in [Replicas -> BOOLEAN]
    /\ cause \in [Replicas -> {"none", "shutdown", "failure"}]
    /\ write \in [Replicas -> Writes]

\* A request on its way that the API server may still accept.
InTransit(r) == write[r].stage = "sent" /\ now <= write[r].sent + Transit

\* A request that the API server may still accept belongs to the holder of the
\* Lease (leadergate.go, WriteContext: "a process paused between the gate check
\* and the request resumes to an expired write context").  The code does not
\* keep this: a pause between the two clock reads moves the deadline with it.
OnlyHolderWrites == \A r \in Replicas : InTransit(r) => lease.holder = r

\* The margin of the gate covers the pause inside WriteContext and the transit.
Prompt(r) == write[r].lag + Transit <= RetryPeriod

\* What WriteContext does give: a request that the API server may still accept
\* belongs to the holder of the Lease wherever its process was paused, before
\* and after WriteContext for any time, and inside it for no more than the
\* gate's margin leaves.
PromptWritesAreHolders ==
    \A r \in Replicas : InTransit(r) /\ Prompt(r) => lease.holder = r

\* While the gate of a running leader is open nobody else has the Lease
\* (staleGate: "no standby could have acquired the Lease").
FreshMeansHeld ==
    \A r \in Replicas : Running(r) /\ CanWrite(r) => lease.holder = r

\* A Lease changes hands only when the controllers of its holder have
\* drained, or do not run yet, or can see by their own clock that it expired.
HandsOverSafely ==
    [][\A r \in Replicas :
          lease.holder = r /\ lease'.holder # r /\ Running(r)
              => now >= ok[r] + LeaseDuration]_vars

\* Replicas that elect a leader this way are one active writer, as far as their
\* prompt writes go.
Writer == INSTANCE ActiveWriter WITH
    holder <- lease.holder, term <- lease.transitions,
    open <- {r \in Replicas : write[r].stage = "accepted" /\ Prompt(r)}

WriterSpec == Writer!WriterSpec

=============================================================================
