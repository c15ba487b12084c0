-------------------------- MODULE LeadershipProofs --------------------------
(***************************************************************************)
(* Replicas that elect a leader as Leadership does are one active writer   *)
(* as far as their prompt writes go, for any number of replicas and any    *)
(* durations with 0 < RetryPeriod <= LeaseDuration and Transit <=          *)
(* RetryPeriod.  A prompt write is one whose process was not paused inside *)
(* WriteContext for longer than RetryPeriod - Transit.                     *)
(***************************************************************************)
EXTENDS Leadership, TLAPS

\* Nothing recorded lies in the future, or at the time that means "never".
Times ==
    /\ 1 <= now
    /\ \A r \in Replicas :
        /\ ok[r] <= now
        /\ seen[r].at <= now
        /\ call[r].issued <= now
        /\ call[r].stage # "none" => 1 <= call[r].issued

\* Versions only grow, and a committed write has advanced them.
Versions ==
    \A r \in Replicas :
        /\ seen[r].version <= lease.version
        /\ call[r].stage = "sent" => call[r].version <= lease.version
        /\ call[r].stage = "committed" => call[r].version + 1 <= lease.version

\* A view of the current version shows the current record.
Views ==
    /\ lease.holder # NoHolder => lease.duration = LeaseDuration
    /\ \A r \in Replicas :
        /\ seen[r].at = 0 => seen[r].holder = NoHolder
        /\ seen[r].at # 0 /\ seen[r].version = lease.version
              => seen[r].holder = lease.holder /\ seen[r].duration = lease.duration
        /\ call[r].stage = "committed" /\ call[r].version + 1 = lease.version
              => /\ lease.holder = call[r].holder
                 /\ lease.duration = DurationFor(call[r].holder)

\* A replica writes itself or, once its controllers have drained, nobody.
Calls ==
    \A r \in Replicas :
        /\ call[r].stage # "none" => call[r].holder \in {r, NoHolder}
        /\ call[r].stage # "none" /\ call[r].holder = NoHolder => loop[r] = "drained"
        /\ call[r].stage = "sent" /\ call[r].version = lease.version
              /\ call[r].holder = NoHolder => lease.holder = r
        /\ elector[r] \in {"handover", "exited"} => loop[r] = "drained"
        /\ elector[r] = "acquire" => ok[r] = 0 /\ loop[r] = "none"

\* q has not issued a Lease write, known to it or not, after the time t.
NoneAfter(q, t) ==
    /\ ok[q] <= t
    /\ call[q].stage = "committed" => call[q].issued <= t

\* A standby has seen the record of the holder after the holder wrote it.
Waits ==
    \A s, q \in Replicas :
        s # q /\ lease.holder = q /\ seen[s].at # 0 /\ seen[s].version = lease.version
            => NoneAfter(q, seen[s].at)

\* A takeover that can succeed is issued when the holder's writes are old.
Claims ==
    \A s, q \in Replicas :
        s # q /\ lease.holder = q /\ call[s].stage = "sent"
              /\ call[s].version = lease.version
            => NoneAfter(q, now - LeaseDuration)

\* So are the writes of every replica that runs and is not the holder.
Losers ==
    \A q \in Replicas : lease.holder # q =>
        /\ Running(q) => ok[q] <= now - LeaseDuration
        /\ call[q].stage = "committed" /\ call[q].holder = q
              => call[q].issued <= now - LeaseDuration

\* Only running controllers write, inside the window of a successful renewal
\* or past it by no more than the pause inside WriteContext.
Windows ==
    \A r \in Replicas :
        /\ write[r].stage # "idle" => loop[r] = "running"
        /\ write[r].stage = "asked" => /\ write[r].asked <= now
                                       /\ 0 <= write[r].asked + write[r].window
                                       /\ write[r].asked + write[r].window <= ok[r] + Bound
        /\ write[r].stage = "ready" => write[r].deadline <= ok[r] + Bound + write[r].lag
        /\ write[r].stage = "sent" => write[r].sent < ok[r] + Bound + write[r].lag

LeaseInv ==
    /\ LeadershipTypeOK /\ Times /\ Versions /\ Views /\ Calls
    /\ Waits /\ Claims /\ Losers /\ Windows

\* The numbers among the state's parts.
LEMMA Numbers ==
    ASSUME LeadershipTypeOK
    PROVE  /\ now \in Nat /\ lease.version \in Nat
           /\ \A q \in Replicas :
                /\ seen[q].version \in Nat /\ seen[q].at \in Nat /\ ok[q] \in Nat
                /\ call[q].version \in Nat /\ call[q].issued \in Nat
BY DEF LeadershipTypeOK, LeaseCalls

\* And those of a write.
LEMMA WriteNumbers ==
    ASSUME LeadershipTypeOK, NEW r \in Replicas
    PROVE  /\ write[r].asked \in Nat /\ write[r].window \in Int
           /\ write[r].deadline \in Nat /\ write[r].lag \in Nat /\ write[r].sent \in Nat
BY DEF LeadershipTypeOK, Writes

-----------------------------------------------------------------------------
(***************************************************************************)
(* Steps that leave the clock, the Lease and the elector alone             *)
(***************************************************************************)

electorVars == <<now, lease, elector, seen, call, ok>>

\* They cannot disturb what relates the Lease to its readers and writers.
LEMMA LocalStep ==
    ASSUME LeaseInv, UNCHANGED electorVars
    PROVE  Times' /\ Versions' /\ Views' /\ Waits' /\ Claims'
<1> USE DEF LeaseInv, electorVars
<1>1. Times'
    BY DEF Times
<1>2. Versions'
    BY DEF Versions
<1>3. Views'
    BY DEF Views, DurationFor
<1>4. Waits'
    BY DEF Waits, NoneAfter
<1>5. Claims'
    BY DEF Claims, NoneAfter
<1> QED BY <1>1, <1>2, <1>3, <1>4, <1>5

\* The steps of the controllers and of the gate (StartControllers to Shutdown)
\* keep the invariant: a write enters the window it is capped to, and only
\* drained controllers leave it.
ControllerStep(r) ==
    \/ StartControllers(r) \/ CheckGate(r) \/ GoStale(r) \/ AskRemaining(r)
    \/ MakeContext(r) \/ Send(r) \/ AcceptWrite(r) \/ EndWrite(r)
    \/ Fail(r) \/ Drain(r) \/ Shutdown(r)

\* The record of a write that has not begun has its type.
LEMMA NoWriteTyped == NoWrite \in Writes
BY DEF NoWrite, Writes

\* A step of a write leaves its record typed and inside its window.
LEMMA WriteStepKeeps ==
    ASSUME LeaseInv, NEW r \in Replicas,
           UNCHANGED electorVars, UNCHANGED <<loop, stop, cause>>,
           write' \in [Replicas -> Writes],
           \A q \in Replicas \ {r} : write'[q] = write[q],
           write'[r].stage # "idle" => loop[r] = "running",
           write'[r].stage = "asked"
               => /\ write'[r].asked <= now /\ 0 <= write'[r].asked + write'[r].window
                  /\ write'[r].asked + write'[r].window <= ok[r] + Bound,
           write'[r].stage = "ready" => write'[r].deadline <= ok[r] + Bound + write'[r].lag,
           write'[r].stage = "sent" => write'[r].sent < ok[r] + Bound + write'[r].lag
    PROVE  LeadershipTypeOK' /\ Calls' /\ Losers' /\ Windows'
<1>1. LeadershipTypeOK'
    BY DEF LeaseInv, LeadershipTypeOK, electorVars
<1>2. Calls' /\ Losers'
    BY DEF LeaseInv, Calls, Losers, Running, electorVars
<1>3. Windows'
    BY DEF LeaseInv, Windows, electorVars, Bound
<1> QED BY <1>1, <1>2, <1>3

\* The steps of the controllers and their writes leave Lease and election alone.
LEMMA ControllerStepKeeps ==
    ASSUME LeaseInv, NEW r \in Replicas, ControllerStep(r)
    PROVE  LeaseInv'
<1>1. UNCHANGED electorVars
    BY DEF ControllerStep, electorVars, StartControllers, CheckGate, GoStale,
       AskRemaining, MakeContext, Send, AcceptWrite, EndWrite, Fail, Drain, Shutdown
<1>2. Times' /\ Versions' /\ Views' /\ Waits' /\ Claims'
    BY <1>1, LocalStep
<1>3. LeadershipTypeOK /\ now \in Nat /\ ok[r] \in Nat /\ Bound \in Nat
    BY LeadershipAssumption, Numbers DEF LeaseInv, Bound
<1>4. LeadershipTypeOK' /\ Calls' /\ Losers' /\ Windows'
  <2>1. CASE StartControllers(r)
      BY <2>1 DEF LeaseInv, LeadershipTypeOK, StartControllers, Calls, Losers, Running,
         Windows
  <2>2. CASE GoStale(r)
      BY <2>2 DEF LeaseInv, LeadershipTypeOK, GoStale, Calls, Losers, Running, Windows
  <2>3. CASE Fail(r)
      BY <2>3 DEF LeaseInv, LeadershipTypeOK, Fail, Calls, Losers, Running, Windows
  <2>4. CASE Drain(r)
      BY <2>4 DEF LeaseInv, LeadershipTypeOK, Drain, Calls, Losers, Running, Windows
  <2>5. CASE Shutdown(r)
      BY <2>5 DEF LeaseInv, LeadershipTypeOK, Shutdown, Calls, Losers, Running, Windows
  <2>6. CASE CheckGate(r)
    <3>1. /\ write' \in [Replicas -> Writes]
          /\ \A q \in Replicas \ {r} : write'[q] = write[q]
          /\ write'[r].stage = "checked"
          /\ loop[r] = "running" /\ UNCHANGED <<loop, stop, cause>>
        BY <1>3, <2>6 DEF CheckGate, NoWrite, LeaseInv, LeadershipTypeOK, Writes, Windows
    <3> QED BY <1>1, <1>3, <3>1, WriteStepKeeps
  <2>7. CASE AskRemaining(r)
    <3>1. /\ Window(r) \in Int /\ 0 <= now + Window(r)
          /\ now + Window(r) <= ok[r] + Bound
        BY <1>3, LeadershipAssumption DEF Window, Earlier
    <3>2. /\ write' \in [Replicas -> Writes]
          /\ \A q \in Replicas \ {r} : write'[q] = write[q]
          /\ write'[r].stage = "asked" /\ write'[r].asked = now /\ write'[r].window = Window(r)
          /\ loop[r] = "running" /\ UNCHANGED <<loop, stop, cause>>
        BY Zenon, <1>3, <2>7, <3>1 DEF AskRemaining, NoWrite, LeaseInv, LeadershipTypeOK,
           Writes, Windows
    <3> QED BY <1>1, <1>3, <3>1, <3>2, WriteStepKeeps
  <2>8. CASE MakeContext(r)
    <3>1. now - write[r].asked \in Nat /\ Deadline(r) \in Nat
          /\ Deadline(r) <= ok[r] + Bound + (now - write[r].asked)
        BY <1>3, <2>8, WriteNumbers DEF MakeContext, Deadline, LeaseInv, Windows
    <3>2. PICK l \in Nat : l = now - write[r].asked
        BY <3>1
    <3> DEFINE w == [NoWrite EXCEPT !.stage = "ready", !.deadline = Deadline(r), !.lag = l]
    <3>3. w \in Writes /\ w.stage = "ready" /\ w.deadline = Deadline(r) /\ w.lag = l
        BY Zenon, <1>3, <3>1, <3>2, NoWriteTyped DEF Writes
    <3>4. /\ write' = [write EXCEPT ![r] = w]
          /\ loop[r] = "running" /\ UNCHANGED <<loop, stop, cause>>
        BY <2>8, <3>2 DEF MakeContext, LeaseInv, Windows
    <3> HIDE DEF w
    <3>5. /\ write' \in [Replicas -> Writes] /\ write'[r] = w
          /\ \A q \in Replicas \ {r} : write'[q] = write[q]
        BY <1>3, <3>3, <3>4 DEF LeadershipTypeOK
    <3> QED BY <1>1, <1>3, <3>1, <3>2, <3>3, <3>4, <3>5, WriteStepKeeps
  <2>9. CASE Send(r)
    <3>1. write[r].lag \in Nat /\ now < ok[r] + Bound + write[r].lag
        BY <1>3, <2>9, WriteNumbers DEF Send, LeaseInv, Windows
    <3>2. PICK l \in Nat : l = write[r].lag
        BY <3>1
    <3> DEFINE w == [NoWrite EXCEPT !.stage = "sent", !.sent = now, !.lag = l]
    <3>3. w \in Writes /\ w.stage = "sent" /\ w.sent = now /\ w.lag = l
        BY Zenon, <1>3, <3>1, <3>2, NoWriteTyped DEF Writes
    <3>4. /\ write' = [write EXCEPT ![r] = w]
          /\ loop[r] = "running" /\ UNCHANGED <<loop, stop, cause>>
        BY <2>9, <3>2 DEF Send, LeaseInv, Windows
    <3> HIDE DEF w
    <3>5. /\ write' \in [Replicas -> Writes] /\ write'[r] = w
          /\ \A q \in Replicas \ {r} : write'[q] = write[q]
        BY <1>3, <3>3, <3>4 DEF LeadershipTypeOK
    <3> QED BY <1>1, <1>3, <3>1, <3>2, <3>3, <3>4, <3>5, WriteStepKeeps
  <2>10. CASE AcceptWrite(r)
    <3>1. write[r].lag \in Nat
        BY <1>3, WriteNumbers
    <3>2. PICK l \in Nat : l = write[r].lag
        BY <3>1
    <3> DEFINE w == [NoWrite EXCEPT !.stage = "accepted", !.lag = l]
    <3>3. w \in Writes /\ w.stage = "accepted"
        BY Zenon, <1>3, <3>1, <3>2, NoWriteTyped DEF Writes
    <3>4. /\ write' = [write EXCEPT ![r] = w]
          /\ loop[r] = "running" /\ UNCHANGED <<loop, stop, cause>>
        BY <2>10, <3>2 DEF AcceptWrite, LeaseInv, Windows
    <3> HIDE DEF w
    <3>5. /\ write' \in [Replicas -> Writes] /\ write'[r] = w
          /\ \A q \in Replicas \ {r} : write'[q] = write[q]
        BY <1>3, <3>3, <3>4 DEF LeadershipTypeOK
    <3> QED BY <1>1, <1>3, <3>1, <3>2, <3>3, <3>4, <3>5, WriteStepKeeps
  <2>11. CASE EndWrite(r)
    <3>1. /\ write' \in [Replicas -> Writes]
          /\ \A q \in Replicas \ {r} : write'[q] = write[q]
          /\ write'[r].stage = "idle" /\ UNCHANGED <<loop, stop, cause>>
        BY <2>11 DEF EndWrite, NoWrite, LeaseInv, LeadershipTypeOK, Writes
    <3> QED BY <1>1, <3>1, WriteStepKeeps
  <2> QED BY <2>1, <2>2, <2>3, <2>4, <2>5, <2>6, <2>7, <2>8, <2>9, <2>10, <2>11
      DEF ControllerStep
<1> QED BY <1>2, <1>4 DEF LeaseInv

-----------------------------------------------------------------------------
(***************************************************************************)
(* Steps of the elector and of the API server                              *)
(***************************************************************************)

\* A new view is taken now, later than anything the holder has done.
LEMMA ObserveKeeps ==
    ASSUME LeaseInv, NEW r \in Replicas, Observe(r)
    PROVE  LeaseInv'
<1> USE LeadershipAssumption DEF LeaseInv, Observe, Observation, runVars,
        LeadershipTypeOK, LeaseCalls
<1>1. LeadershipTypeOK'
    OBVIOUS
<1>2. Times' /\ Versions'
    BY DEF Times, Versions
<1>3. Views'
    BY DEF Times, Views, DurationFor
<1>4. Waits'
    BY DEF Waits, NoneAfter, Times
<1>5. Calls' /\ Claims' /\ Losers' /\ Windows'
    BY DEF Calls, Claims, NoneAfter, Losers, Running, Windows
<1> QED BY <1>1, <1>2, <1>3, <1>4, <1>5

\* A takeover is issued on a view that has expired.
LEMMA AcquireKeeps ==
    ASSUME LeaseInv, NEW r \in Replicas, Acquire(r)
    PROVE  LeaseInv'
<1> USE LeadershipAssumption DEF LeaseInv, Acquire, LeaseWrite, runVars,
        LeadershipTypeOK, LeaseCalls
<1>1. LeadershipTypeOK'
    OBVIOUS
<1>2. Times' /\ Versions' /\ Views'
    BY DEF Times, Versions, Views, DurationFor
<1>3. Calls' /\ Waits' /\ Losers' /\ Windows'
    BY DEF Calls, Waits, NoneAfter, Losers, Running, Windows
<1>4. Claims'
  <2> SUFFICES ASSUME NEW s \in Replicas, NEW q \in Replicas,
                      s # q, lease.holder = q,
                      call'[s].stage = "sent", call'[s].version = lease.version
               PROVE  NoneAfter(q, now - LeaseDuration)'
      BY DEF Claims
  <2>1. CASE s = r
    <3>1. seen[s].at # 0 /\ seen[s].version = lease.version
        BY <2>1 DEF MayTake
    <3>2. seen[s].holder = q /\ seen[s].duration = LeaseDuration
        BY <3>1 DEF Views
    <3>3. seen[s].at + LeaseDuration <= now
        BY <2>1, <3>2 DEF MayTake, Expired
    <3>4. NoneAfter(q, seen[s].at)
        BY <3>1 DEF Waits
    <3> QED BY <2>1, <3>3, <3>4 DEF NoneAfter
  <2>2. CASE s # r
      BY <2>2 DEF Claims, NoneAfter
  <2> QED BY <2>1, <2>2
<1> QED BY <1>1, <1>2, <1>3, <1>4

\* A write that takes the Lease from a replica finds its writes old; one that
\* gives the Lease up finds its controllers drained.
LEMMA CommitKeeps ==
    ASSUME LeaseInv, NEW r \in Replicas, Commit(r)
    PROVE  LeaseInv'
<1> DEFINE c == call[r]
<1> DEFINE d == call'[r]
<1> USE LeadershipAssumption DEF LeaseInv
<1>1. /\ c \in LeaseCalls /\ c.stage = "sent" /\ c.version = lease.version
      /\ lease' = Written(c)
      /\ UNCHANGED <<now, elector, seen, ok, runVars>>
    BY DEF Commit, LeadershipTypeOK
<1>2. /\ \A q \in Replicas \ {r} : call'[q] = call[q]
      /\ call' \in [Replicas -> LeaseCalls]
      /\ d.stage \in {"committed", "none"}
      /\ d.stage = "committed" => /\ d.version = c.version
                                  /\ d.holder = c.holder
      /\ d.issued <= c.issued
      /\ d.stage # "none" => d.issued = c.issued
  <2>1. CASE c.awaited
    <3> DEFINE e == [c EXCEPT !.stage = "committed"]
    <3>1. e \in LeaseCalls /\ e.stage = "committed" /\ e.version = c.version
          /\ e.holder = c.holder /\ e.issued = c.issued
        BY <1>1 DEF LeaseCalls
    <3>2. call' = [call EXCEPT ![r] = e]
        BY <2>1 DEF Commit
    <3> HIDE DEF e
    <3> QED BY <3>1, <3>2 DEF LeadershipTypeOK, LeaseCalls
  <2>2. CASE ~c.awaited
    <3>1. call' = [call EXCEPT ![r] = NoCall]
        BY <2>2 DEF Commit
    <3> QED BY <1>1, <3>1 DEF LeadershipTypeOK, LeaseCalls, NoCall
  <2> QED BY <2>1, <2>2
<1>3. /\ lease'.version = lease.version + 1
      /\ lease'.holder = c.holder
      /\ lease'.duration = DurationFor(c.holder)
      /\ lease'.transitions \in Nat
    BY <1>1 DEF Written, LeadershipTypeOK
<1> HIDE DEF c, d
<1>4. LeadershipTypeOK'
    BY <1>1, <1>2 DEF LeadershipTypeOK, Written, DurationFor, LeaseCalls, runVars
<1>5. Times'
  <2>1. \A q \in Replicas :
            /\ call'[q].issued \in Nat /\ call'[q].issued <= call[q].issued
            /\ call'[q].stage # "none" => /\ call[q].stage # "none"
                                          /\ call'[q].issued = call[q].issued
      BY <1>1, <1>2, Numbers DEF LeaseCalls, c, d
  <2>2. now' = now /\ ok' = ok /\ seen' = seen
      BY <1>1
  <2> QED BY <2>1, <2>2, Numbers DEF Times
<1>6. Versions'
    BY <1>1, <1>2, <1>3, Numbers DEF Versions, c, d
<1>7. Views'
    BY <1>1, <1>2, <1>3, Numbers DEF Views, Versions, DurationFor, d
<1>8. Calls'
    BY <1>1, <1>2, <1>3, Numbers DEF Calls, Versions, runVars, c, d
<1>9. Waits' /\ Claims'
  <2>1. \A s \in Replicas : seen'[s].version # lease'.version
      BY <1>1, <1>3, Numbers DEF Versions
  <2>2. \A s \in Replicas : call'[s].stage = "sent" => call'[s].version # lease'.version
      BY <1>2, <1>3, Numbers DEF Versions, d
  <2> QED BY <2>1, <2>2 DEF Waits, Claims
<1>10. Losers'
  <2> SUFFICES ASSUME NEW q \in Replicas, lease'.holder # q
               PROVE  /\ Running(q)' => ok'[q] <= now' - LeaseDuration
                      /\ call'[q].stage = "committed" /\ call'[q].holder = q
                            => call'[q].issued <= now' - LeaseDuration
      BY DEF Losers
  <2>1. Running(q)' <=> Running(q)
      BY <1>1 DEF Running, runVars
  <2>2. CASE q = r
    <3>1. c.holder = NoHolder
        BY <1>1, <1>3, <2>2 DEF Calls, c
    <3>2. ~Running(q)
        BY <1>1, <2>2, <3>1 DEF Calls, c, Running
    <3> QED BY <1>2, <2>1, <2>2, <3>1, <3>2 DEF d
  <2>3. CASE q # r /\ lease.holder = q
      BY <1>1, <1>2, <2>1, <2>3 DEF Claims, NoneAfter, c
  <2>4. CASE q # r /\ lease.holder # q
      BY <1>1, <1>2, <2>1, <2>4 DEF Losers
  <2> QED BY <2>2, <2>3, <2>4
<1>11. Windows'
    BY <1>1 DEF Windows, Bound, runVars
<1> QED BY <1>4, <1>5, <1>6, <1>7, <1>8, <1>9, <1>10, <1>11

\* A Lease write that fails for its client, refused or given up.
LEMMA CallFailsKeeps ==
    ASSUME LeaseInv, NEW r \in Replicas, CallFails(r)
    PROVE  LeaseInv'
<1> DEFINE c == call[r]
<1> DEFINE d == call'[r]
<1> USE LeadershipAssumption DEF LeaseInv
<1>1. /\ c \in LeaseCalls /\ c.stage # "none"
      /\ UNCHANGED <<now, lease, elector, seen, ok, runVars>>
    BY DEF CallFails, LeadershipTypeOK
<1>2. /\ \A q \in Replicas \ {r} : call'[q] = call[q]
      /\ call' \in [Replicas -> LeaseCalls]
      /\ d.stage \in {"sent", "none"}
      /\ d.stage = "sent" => /\ c.stage = "sent"
                             /\ d.version = c.version
                             /\ d.holder = c.holder
      /\ d.issued <= c.issued
      /\ d.stage # "none" => d.issued = c.issued
  <2>1. CASE c.stage = "sent" /\ c.version = lease.version
    <3> DEFINE e == [c EXCEPT !.awaited = FALSE]
    <3>1. e \in LeaseCalls /\ e.stage = c.stage /\ e.version = c.version
          /\ e.holder = c.holder /\ e.issued = c.issued
        BY Zenon, <1>1 DEF LeaseCalls
    <3>2. call' = [call EXCEPT ![r] = e]
        BY <2>1 DEF CallFails
    <3> HIDE DEF e
    <3> QED BY <2>1, <3>1, <3>2 DEF LeadershipTypeOK, LeaseCalls
  <2>2. CASE ~(c.stage = "sent" /\ c.version = lease.version)
    <3>1. call' = [call EXCEPT ![r] = NoCall]
        BY Zenon, <2>2 DEF CallFails
    <3> QED BY <1>1, <3>1 DEF LeadershipTypeOK, LeaseCalls, NoCall
  <2> QED BY <2>1, <2>2
<1> HIDE DEF c, d
<1>3. LeadershipTypeOK'
    BY <1>1, <1>2 DEF LeadershipTypeOK, runVars
<1>4. Times'
  <2>1. \A q \in Replicas :
            /\ call'[q].issued \in Nat /\ call'[q].issued <= call[q].issued
            /\ call'[q].stage # "none" => /\ call[q].stage # "none"
                                          /\ call'[q].issued = call[q].issued
      BY <1>1, <1>2, Numbers, SMTT(20) DEF LeaseCalls, c, d
  <2>2. now' = now /\ ok' = ok /\ seen' = seen
      BY <1>1
  <2> QED BY <2>1, <2>2, Numbers DEF Times
<1>5. Versions'
    BY <1>1, <1>2 DEF Versions, c, d
<1>6. Views'
    BY <1>1, <1>2 DEF Views, DurationFor, d
<1>7. Calls'
    BY <1>1, <1>2 DEF Calls, runVars, c, d
<1>8. Waits'
    BY <1>1, <1>2 DEF Waits, NoneAfter, d
<1>9. Claims'
    BY <1>1, <1>2 DEF Claims, NoneAfter, c, d
<1>10. Losers' /\ Windows'
    BY <1>1, <1>2 DEF Losers, Running, Windows, runVars, d
<1> QED BY <1>3, <1>4, <1>5, <1>6, <1>7, <1>8, <1>9, <1>10

\* The time of the request is recorded: a replica that learns of its write
\* after another one has taken over learns of an old write.
LEMMA CallSucceedsKeeps ==
    ASSUME LeaseInv, NEW r \in Replicas, CallSucceeds(r)
    PROVE  LeaseInv'
<1> DEFINE c == call[r]
<1> DEFINE t == Success(r)
<1> USE LeadershipAssumption DEF LeaseInv
<1>1. c \in LeaseCalls /\ c.stage = "committed" /\ UNCHANGED <<now, lease, stop, cause, write>>
    BY DEF CallSucceeds, LeadershipTypeOK
<1>2. \A q \in Replicas \ {r} :
        /\ elector'[q] = elector[q] /\ loop'[q] = loop[q]
        /\ ok'[q] = ok[q] /\ seen'[q] = seen[q] /\ call'[q] = call[q]
    BY DEF CallSucceeds, LeadershipTypeOK
<1>3. ok'[r] = t /\ call'[r].stage = "none" /\ call'[r].issued = 0
    BY DEF CallSucceeds, LeadershipTypeOK, NoCall
<1>4. /\ seen'[r].version = c.version + 1 /\ seen'[r].holder = c.holder
      /\ seen'[r].duration = DurationFor(c.holder) /\ seen'[r].at = t
    BY DEF CallSucceeds, LeadershipTypeOK
<1>5. \/ elector[r] = "acquire" /\ elector'[r] = "renew" /\ loop'[r] = "scheduled"
      \/ elector[r] # "acquire" /\ elector'[r] = elector[r] /\ loop'[r] = loop[r]
    BY DEF CallSucceeds, LeadershipTypeOK
<1>6. t \in Nat /\ 1 <= t /\ ok[r] <= t /\ t <= now /\ t \in {ok[r], c.issued}
    BY <1>1, Numbers DEF Success, Later, Times
<1>7. LeadershipTypeOK'
  <2>1. NoCall \in LeaseCalls
      BY DEF NoCall, LeaseCalls
  <2>2. DurationFor(c.holder) \in Nat
      BY DEF DurationFor
  <2>3. seen' \in [Replicas -> [version : Nat, holder : Replicas \cup {NoHolder},
                                duration : Nat, at : Nat]]
      BY <1>1, <1>6, <2>2 DEF CallSucceeds, LeadershipTypeOK, LeaseCalls
  <2>4. /\ elector' \in [Replicas -> {"acquire", "renew", "returned", "handover", "exited"}]
        /\ loop' \in [Replicas -> {"none", "scheduled", "running", "drained"}]
      BY DEF CallSucceeds, LeadershipTypeOK
  <2>5. call' \in [Replicas -> LeaseCalls] /\ ok' \in [Replicas -> Nat]
      BY <1>6, <2>1 DEF CallSucceeds, LeadershipTypeOK
  <2> QED BY <1>1, <2>3, <2>4, <2>5 DEF LeadershipTypeOK
<1> HIDE DEF c, t
<1>8. Times'
    BY <1>1, <1>2, <1>3, <1>4, <1>6, Numbers DEF Times
<1>9. Versions'
    BY <1>1, <1>2, <1>3, <1>4 DEF Versions, c
<1>10. Views'
  <2>1. seen'[r].at # 0
      BY <1>4, <1>6
  <2>2. seen'[r].version = lease.version
          => seen'[r].holder = lease.holder /\ seen'[r].duration = lease.duration
      BY <1>1, <1>4 DEF Views, c
  <2> QED BY <1>1, <1>2, <1>3, <2>1, <2>2, SMTT(20) DEF Views, DurationFor
<1>11. Calls'
  <2>1. elector'[r] # "acquire" /\ (elector'[r] \in {"handover", "exited"} => loop'[r] = "drained")
      BY <1>5 DEF Calls
  <2> QED BY <1>1, <1>2, <1>3, <2>1, SMTT(20) DEF Calls
<1>12. Waits'
  <2> SUFFICES ASSUME NEW s \in Replicas, NEW q \in Replicas, s # q, lease.holder = q,
                      seen'[s].at # 0, seen'[s].version = lease.version
               PROVE  NoneAfter(q, seen[s].at)' /\ s # r
      BY <1>1 DEF Waits, NoneAfter
  <2>1. s # r
    <3> SUFFICES ASSUME s = r PROVE FALSE
        OBVIOUS
    <3>1. lease.holder = c.holder
        BY <1>1, <1>4 DEF Views, c
    <3> QED BY <1>1, <3>1 DEF Calls, c
  <2>2. NoneAfter(q, seen[s].at)
      BY <1>2, <2>1 DEF Waits
  <2>3. CASE q = r
      BY <1>1, <1>2, <1>3, <1>6, <2>1, <2>2, <2>3 DEF NoneAfter, c
  <2>4. CASE q # r
      BY <1>2, <2>1, <2>2, <2>4 DEF NoneAfter
  <2> QED BY <2>1, <2>3, <2>4
<1>13. Claims'
  <2> SUFFICES ASSUME NEW s \in Replicas, NEW q \in Replicas, s # q, lease.holder = q,
                      call'[s].stage = "sent", call'[s].version = lease.version
               PROVE  NoneAfter(q, now - LeaseDuration)'
      BY <1>1 DEF Claims
  <2>1. NoneAfter(q, now - LeaseDuration)
      BY <1>2, <1>3 DEF Claims
  <2>2. CASE q = r
      BY <1>1, <1>3, <1>6, <2>1, <2>2 DEF NoneAfter, c
  <2>3. CASE q # r
      BY <1>1, <1>2, <2>1, <2>3 DEF NoneAfter
  <2> QED BY <2>2, <2>3
<1>14. Losers'
  <2>1. \A q \in Replicas \ {r} : Running(q)' <=> Running(q)
      BY <1>2 DEF Running
  <2>2. ASSUME lease.holder # r, Running(r)'
        PROVE  ok'[r] <= now - LeaseDuration
    <3>1. c.holder = r
        BY <1>1, <1>5, <2>2 DEF Calls, Running, c
    <3>2. c.issued <= now - LeaseDuration
        BY <1>1, <2>2, <3>1 DEF Losers, c
    <3>3. CASE elector[r] = "acquire"
      <4>1. ok[r] = 0
          BY <3>3 DEF Calls
      <4> QED BY <1>3, <1>6, <3>2, <4>1
    <3>4. CASE elector[r] # "acquire"
      <4>1. ok[r] <= now - LeaseDuration
          BY <1>5, <2>2, <3>4 DEF Losers, Running
      <4> QED BY <1>3, <1>6, <3>2, <4>1
    <3> QED BY <3>3, <3>4
  <2>3. ASSUME NEW q \in Replicas \ {r}, lease.holder # q
        PROVE  /\ Running(q)' => ok'[q] <= now - LeaseDuration
               /\ call'[q].stage = "committed" /\ call'[q].holder = q
                     => call'[q].issued <= now - LeaseDuration
      BY <1>2, <2>1, <2>3 DEF Losers
  <2> QED BY <1>1, <1>3, <2>2, <2>3 DEF Losers
<1>15. Windows'
  <2>1. Bound \in Int
      BY DEF Bound
  <2>2. write[r].stage # "idle" => loop'[r] = loop[r]
      BY <1>5 DEF Windows, Calls
  <2> QED BY <1>1, <1>2, <1>3, <1>6, <2>1, <2>2, Numbers, WriteNumbers DEF Windows
<1> QED BY <1>7, <1>8, <1>9, <1>10, <1>11, <1>12, <1>13, <1>14, <1>15

\* The elector returns.
LEMMA RunReturnsKeeps ==
    ASSUME LeaseInv, NEW r \in Replicas, RunReturns(r)
    PROVE  LeaseInv'
<1> USE LeadershipAssumption DEF LeaseInv, RunReturns, runVars
<1>1. LeadershipTypeOK'
    BY DEF LeadershipTypeOK
<1>2. Times' /\ Versions' /\ Views' /\ Waits' /\ Claims'
    BY DEF Times, Versions, Views, Waits, Claims, NoneAfter, DurationFor
<1>3. Calls' /\ Losers' /\ Windows'
    BY DEF Calls, Losers, Running, Windows, LeadershipTypeOK
<1> QED BY <1>1, <1>2, <1>3

\* releaseLease reads the Lease, or is skipped.
LEMMA ReadToHandOverKeeps ==
    ASSUME LeaseInv, NEW r \in Replicas, ReadToHandOver(r)
    PROVE  LeaseInv'
<1> USE LeadershipAssumption DEF LeaseInv
<1>1. /\ UNCHANGED <<now, lease, call, ok, runVars>>
      /\ loop[r] = "drained"
      /\ elector'[r] \in {"handover", "exited"}
      /\ \A q \in Replicas \ {r} : elector'[q] = elector[q] /\ seen'[q] = seen[q]
      /\ \/ seen'[r] = seen[r]
         \/ /\ seen'[r].version = lease.version /\ seen'[r].holder = lease.holder
            /\ seen'[r].duration = lease.duration /\ seen'[r].at = now
    BY DEF ReadToHandOver, Observation, LeadershipTypeOK
<1>2. LeadershipTypeOK'
  <2>1. seen' \in [Replicas -> [version : Nat, holder : Replicas \cup {NoHolder},
                                duration : Nat, at : Nat]]
      BY DEF ReadToHandOver, Observation, LeadershipTypeOK
  <2>2. elector' \in [Replicas -> {"acquire", "renew", "returned", "handover", "exited"}]
      BY Zenon DEF ReadToHandOver, LeadershipTypeOK
  <2> QED BY <1>1, <2>1, <2>2 DEF LeadershipTypeOK, runVars
<1>3. Times'
  <2>1. \A q \in Replicas : seen[q].at <= now
      BY Zenon DEF Times
  <2>2. now <= now
      BY Numbers
  <2>3. \A q \in Replicas : seen'[q].at <= now
      BY Zenon, <1>1, <2>1, <2>2
  <2> QED BY Zenon, <1>1, <2>3 DEF Times
<1>4. Versions'
  <2>1. \A q \in Replicas : seen[q].version <= lease.version
      BY Zenon DEF Versions
  <2>2. lease.version <= lease.version
      BY Numbers
  <2>3. \A q \in Replicas : seen'[q].version <= lease.version
      BY Zenon, <1>1, <2>1, <2>2
  <2> QED BY Zenon, <1>1, <2>3 DEF Versions
<1>5. Views'
    BY <1>1, SMTT(20) DEF Times, Views, DurationFor
<1>6. Waits'
    BY <1>1, SMTT(20) DEF Waits, NoneAfter, Times
<1>7. Calls' /\ Claims'
    BY <1>1 DEF Calls, Claims, NoneAfter, runVars
<1>8. Losers' /\ Windows'
    BY <1>1 DEF Losers, Running, Windows, runVars
<1> QED BY <1>2, <1>3, <1>4, <1>5, <1>6, <1>7, <1>8

\* releaseLease writes the record without a holder.
LEMMA HandOverKeeps ==
    ASSUME LeaseInv, NEW r \in Replicas, HandOver(r)
    PROVE  LeaseInv'
<1> USE LeadershipAssumption DEF LeaseInv
<1>1. /\ UNCHANGED <<now, lease, seen, ok, runVars>>
      /\ loop[r] = "drained"
      /\ elector'[r] = "exited"
      /\ \A q \in Replicas \ {r} : elector'[q] = elector[q] /\ call'[q] = call[q]
      /\ \/ call'[r] = call[r]
         \/ /\ seen[r].holder = r
            /\ call'[r].stage = "sent" /\ call'[r].issued = now
            /\ call'[r].version = seen[r].version /\ call'[r].holder = NoHolder
    BY DEF HandOver, LeaseWrite, LeadershipTypeOK, Calls
<1>2. LeadershipTypeOK'
  <2>1. LeaseWrite(r, NoHolder) \in LeaseCalls
      BY DEF LeaseWrite, LeaseCalls, LeadershipTypeOK
  <2>2. call' \in [Replicas -> LeaseCalls]
      BY <2>1 DEF HandOver, LeadershipTypeOK
  <2>3. elector' \in [Replicas -> {"acquire", "renew", "returned", "handover", "exited"}]
      BY DEF HandOver, LeadershipTypeOK
  <2> QED BY <1>1, <2>2, <2>3 DEF LeadershipTypeOK, runVars
<1>3. Times'
    BY <1>1, Numbers DEF Times
<1>4. Versions'
    BY <1>1 DEF Versions
<1>5. Views'
    BY <1>1 DEF Views, DurationFor
<1>6. seen[r].holder = r => seen[r].at # 0
    BY DEF Views
<1>7. Calls'
    BY <1>1, <1>6, SMTT(20) DEF Calls, Views, runVars
<1>8. Claims'
  <2> SUFFICES ASSUME NEW s \in Replicas, NEW q \in Replicas, s # q, lease.holder = q,
                      call'[s].stage = "sent", call'[s].version = lease.version
               PROVE  NoneAfter(q, now - LeaseDuration)'
      BY <1>1 DEF Claims
  <2>1. call'[s] = call[s]
      BY <1>1, <1>6 DEF Views
  <2>2. NoneAfter(q, now - LeaseDuration)
      BY Zenon, <2>1 DEF Claims
  <2> QED BY <1>1, <2>2 DEF NoneAfter
<1>9. Waits'
    BY Zenon, <1>1 DEF Waits, NoneAfter
<1>10. Losers'
    BY Zenon, <1>1 DEF Losers, Running, runVars
<1>11. Windows'
    BY Zenon, <1>1 DEF Windows, runVars
<1> QED BY <1>2, <1>3, <1>4, <1>5, <1>7, <1>8, <1>9, <1>10, <1>11

\* Time passes: what was fresh or in transit may end, nothing begins.
LEMMA TickKeeps ==
    ASSUME LeaseInv, Tick
    PROVE  LeaseInv'
<1> USE LeadershipAssumption DEF LeaseInv, Tick, runVars, LeadershipTypeOK, LeaseCalls
<1>1. LeadershipTypeOK'
    OBVIOUS
<1>2. Times'
    BY DEF Times
<1>3. Versions' /\ Views' /\ Calls'
    BY DEF Versions, Views, Calls, DurationFor
<1>4. Waits' /\ Claims'
    BY DEF Waits, Claims, NoneAfter
<1>5. Losers'
    BY DEF Losers, Running
<1>6. Windows'
    BY WriteNumbers DEF Windows, Bound
<1> QED BY <1>1, <1>2, <1>3, <1>4, <1>5, <1>6

-----------------------------------------------------------------------------
(***************************************************************************)
(* The theorems                                                            *)
(***************************************************************************)

\* Every step of a replica keeps the invariant.
LEMMA StepKeeps ==
    ASSUME LeaseInv, [Next]_vars
    PROVE  LeaseInv'
<1>1. CASE Tick
    BY <1>1, TickKeeps
<1>2. CASE \E r \in Replicas : Step(r)
  <2> PICK r \in Replicas : Step(r)
      BY <1>2
  <2> QED BY ObserveKeeps, AcquireKeeps, CommitKeeps, CallFailsKeeps, CallSucceedsKeeps,
             RunReturnsKeeps, ControllerStepKeeps, ReadToHandOverKeeps, HandOverKeeps
          DEF Step, ControllerStep
<1>3. CASE UNCHANGED vars
  <2>1. UNCHANGED electorVars /\ UNCHANGED runVars
      BY <1>3 DEF vars, electorVars
  <2>2. Times' /\ Versions' /\ Views' /\ Waits' /\ Claims'
      BY <2>1, LocalStep
  <2>3. LeadershipTypeOK' /\ Calls' /\ Losers' /\ Windows'
      BY <2>1 DEF LeaseInv, electorVars, runVars, LeadershipTypeOK, Calls, Losers,
                  Running, Windows
  <2> QED BY <2>2, <2>3 DEF LeaseInv
<1> QED BY <1>1, <1>2, <1>3 DEF Next

\* Initially no replica has observed, written or begun anything.
LEMMA InitSound ==
    ASSUME Init
    PROVE  LeaseInv
<1> USE LeadershipAssumption DEF Init, NoCall, NoWrite
<1>1. LeadershipTypeOK
    BY DEF LeadershipTypeOK, LeaseCalls, Writes
<1>2. Times /\ Versions
    BY DEF Times, Versions
<1>4. Views /\ Calls
    BY DEF Views, Calls
<1>3. Waits /\ Claims /\ Losers /\ Windows
    BY DEF Waits, Claims, Losers, Running, Windows
<1> QED BY <1>1, <1>2, <1>3, <1>4 DEF LeaseInv

\* Whatever the replicas do and however they are paused, the holder's own
\* knowledge of its Lease is never newer than what a standby waits for.
THEOREM LeaseInvariant == Spec => []LeaseInv
<1>1. Init => LeaseInv
    BY InitSound
<1>2. LeaseInv /\ [Next]_vars => LeaseInv'
    BY StepKeeps
<1> QED BY <1>1, <1>2, PTL DEF Spec

\* An open gate means that the Lease is held (staleGate.CanWrite).
LEMMA OpenGateIsHolder ==
    ASSUME LeaseInv
    PROVE  FreshMeansHeld
<1> SUFFICES ASSUME NEW r \in Replicas, Running(r), CanWrite(r), lease.holder # r
             PROVE  FALSE
    BY DEF FreshMeansHeld
<1>1. ok[r] <= now - LeaseDuration
    BY DEF LeaseInv, Losers
<1>2. now - ok[r] <= LeaseDuration - RetryPeriod
    BY DEF CanWrite, Bound
<1> QED BY <1>1, <1>2, Numbers, LeadershipAssumption DEF LeaseInv

\* A request on its way is the holder's: it was sent inside the window or past
\* it by its lag, and RetryPeriod covers lag and transit (WriteContext).
LEMMA RequestIsHolders ==
    ASSUME LeaseInv
    PROVE  PromptWritesAreHolders
<1> SUFFICES ASSUME NEW r \in Replicas, write[r].stage = "sent",
                    now <= write[r].sent + Transit,
                    write[r].lag + Transit <= RetryPeriod, lease.holder # r
             PROVE  FALSE
    BY DEF PromptWritesAreHolders, InTransit, Prompt
<1>1. write[r].sent < ok[r] + (LeaseDuration - RetryPeriod) + write[r].lag /\ Running(r)
    BY DEF LeaseInv, Windows, Bound, Running
<1>2. ok[r] <= now - LeaseDuration
    BY <1>1 DEF LeaseInv, Losers
<1> QED BY <1>1, <1>2, Numbers, WriteNumbers, LeadershipAssumption DEF LeaseInv

\* The types of the state of leader election.
THEOREM LeadershipTypes == Spec => []LeadershipTypeOK
<1>1. LeaseInv => LeadershipTypeOK
    BY DEF LeaseInv
<1> QED BY <1>1, LeaseInvariant, PTL

\* While the gate of a running leader is open it holds the Lease.
THEOREM GateIsSound == Spec => []FreshMeansHeld
<1>1. LeaseInv => FreshMeansHeld
    BY OpenGateIsHolder
<1> QED BY <1>1, LeaseInvariant, PTL

\* Every SSA or DELETE that the API server may still accept is the holder's,
\* unless its process was paused between the two clock reads of WriteContext
\* for longer than RetryPeriod - Transit.
THEOREM WritesAreTheHolders == Spec => []PromptWritesAreHolders
<1>1. LeaseInv => PromptWritesAreHolders
    BY Zenon, RequestIsHolders
<1> QED BY <1>1, LeaseInvariant, PTL

\* Only the API server's execution of a Lease write changes the Lease.
LEMMA OnlyCommitChangesLease ==
    ASSUME [Next]_vars, ~UNCHANGED lease
    PROVE  \E q \in Replicas : Commit(q)
BY Zenon DEF Next, vars, Tick, Step, Observe, Acquire, CallFails, CallSucceeds, RunReturns,
       StartControllers, CheckGate, GoStale, AskRemaining, MakeContext, Send, AcceptWrite,
       EndWrite, Fail, Drain, Shutdown, ReadToHandOver, HandOver

\* The Lease is taken from a replica whose controllers run only when it has
\* expired by that replica's own clock, and is given up only after the drain.
THEOREM HandOverIsSafe == Spec => HandsOverSafely
<1>1. ASSUME LeaseInv, [Next]_vars, NEW r \in Replicas,
             lease.holder = r, lease'.holder # r, Running(r)
      PROVE  now >= ok[r] + LeaseDuration
  <2> PICK q \in Replicas : Commit(q)
      BY <1>1, OnlyCommitChangesLease
  <2>1. /\ call[q].stage = "sent" /\ call[q].version = lease.version
        /\ lease'.holder = call[q].holder
      BY DEF Commit, Written
  <2>2. q # r
      BY <1>1, <2>1 DEF LeaseInv, Calls, Running
  <2>3. ok[r] <= now - LeaseDuration
      BY <1>1, <2>1, <2>2 DEF LeaseInv, Claims, NoneAfter
  <2> QED BY <1>1, <2>3, Numbers, LeadershipAssumption DEF LeaseInv
<1>2. LeaseInv /\ [Next]_vars
        => [\A r \in Replicas : lease.holder = r /\ lease'.holder # r /\ Running(r)
                => now >= ok[r] + LeaseDuration]_vars
    BY <1>1
<1> QED BY <1>2, LeaseInvariant, PTL DEF Spec, HandsOverSafely

-----------------------------------------------------------------------------
(***************************************************************************)
(* Leadership implements ActiveWriter                                      *)
(***************************************************************************)

\* Replicas whose accepted prompt write has not returned, as the mapping has it.
Accepted == {r \in Replicas : write[r].stage = "accepted" /\ Prompt(r)}

\* A Lease write is a grant, a withdrawal or a renewal, which is no step.
LEMMA CommitIsGrant ==
    ASSUME LeaseInv, NEW r \in Replicas, Commit(r)
    PROVE  [Writer!WriterNext]_(Writer!writerVars)
<1>1. /\ lease' = Written(call[r]) /\ call[r].holder \in {r, NoHolder}
      /\ UNCHANGED write
    BY DEF Commit, LeaseInv, Calls, runVars
<1>2. lease'.holder = call[r].holder
      /\ lease'.transitions = IF call[r].holder \in {NoHolder, lease.holder}
                              THEN lease.transitions ELSE lease.transitions + 1
    BY <1>1 DEF Written
<1>3. Accepted' = Accepted
    BY <1>1 DEF Accepted, Prompt
<1>4. CASE call[r].holder = NoHolder
    BY <1>2, <1>3, <1>4 DEF Writer!WriterNext, Writer!Withdraw, Accepted
<1>5. CASE call[r].holder = r /\ lease.holder # r
    BY <1>2, <1>3, <1>5, LeadershipAssumption DEF Writer!WriterNext, Writer!Grant, Accepted
<1>6. CASE call[r].holder = r /\ lease.holder = r
    BY <1>2, <1>3, <1>6 DEF Writer!writerVars, Accepted
<1> QED BY <1>1, <1>4, <1>5, <1>6

\* The API server accepts prompt writes of the holder only; the others are not
\* writes of the abstract writer.
LEMMA AcceptIsWrite ==
    ASSUME LeaseInv, NEW r \in Replicas, AcceptWrite(r)
    PROVE  [Writer!WriterNext]_(Writer!writerVars)
<1>1. /\ write'[r].stage = "accepted" /\ write'[r].lag = write[r].lag
      /\ write[r].stage = "sent" /\ UNCHANGED lease
      /\ \A q \in Replicas \ {r} : write'[q] = write[q]
    BY DEF AcceptWrite, NoWrite, LeaseInv, LeadershipTypeOK
<1>2. CASE Prompt(r)
  <2>1. lease.holder = r
      BY <1>2, RequestIsHolders DEF AcceptWrite, PromptWritesAreHolders, InTransit
  <2>2. Accepted' = Accepted \cup {r}
      BY <1>1, <1>2 DEF Accepted, Prompt
  <2>3. Writer!Write(r)
      BY <1>1, <2>1, <2>2 DEF Writer!Write, Accepted
  <2> QED BY <2>3 DEF Writer!WriterNext
<1>3. CASE ~Prompt(r)
  <2>1. Accepted' = Accepted
      BY <1>1, <1>3 DEF Accepted, Prompt
  <2> QED BY <1>1, <2>1 DEF Writer!writerVars, Accepted
<1> QED BY <1>2, <1>3

\* The end of a write is the return of the abstract writer, or no step of it.
LEMMA EndIsReturn ==
    ASSUME LeaseInv, NEW r \in Replicas, EndWrite(r)
    PROVE  Writer!WriterNext
<1>1. Accepted' = Accepted \ {r}
  <2>1. write'[r].stage = "idle" /\ \A q \in Replicas \ {r} : write'[q] = write[q]
      BY DEF EndWrite, NoWrite, LeaseInv, LeadershipTypeOK
  <2> QED BY <2>1 DEF Accepted, Prompt
<1>2. Writer!Return(r)
    BY <1>1 DEF Writer!Return, EndWrite, Accepted
<1> QED BY <1>2 DEF Writer!WriterNext

\* Every other step leaves the Lease and the accepted writes alone.
LEMMA OtherStepsStutter ==
    ASSUME LeaseInv, [Next]_vars,
           \A r \in Replicas : ~Commit(r) /\ ~AcceptWrite(r) /\ ~EndWrite(r)
    PROVE  UNCHANGED Writer!writerVars
<1>1. UNCHANGED lease
    BY OnlyCommitChangesLease
<1>2. Accepted' = Accepted
  <2>1. CASE UNCHANGED write
      BY <2>1 DEF Accepted, Prompt
  <2>2. CASE ~UNCHANGED write
    <3>1. PICK r \in Replicas : CheckGate(r) \/ AskRemaining(r) \/ MakeContext(r) \/ Send(r)
        BY <2>2 DEF Next, vars, runVars, Tick, Step, Observe, Acquire, CallFails,
           CallSucceeds, RunReturns, StartControllers, GoStale, Fail, Drain, Shutdown,
           ReadToHandOver, HandOver
    <3>2. write[r].stage # "accepted" /\ write'[r].stage # "accepted"
      <4>1. CASE CheckGate(r)
          BY <4>1 DEF CheckGate, NoWrite, LeaseInv, LeadershipTypeOK
      <4>2. CASE AskRemaining(r)
          BY <4>2 DEF AskRemaining, NoWrite, LeaseInv, LeadershipTypeOK
      <4>3. CASE MakeContext(r)
          BY <4>3 DEF MakeContext, NoWrite, LeaseInv, LeadershipTypeOK
      <4>4. CASE Send(r)
          BY <4>4 DEF Send, NoWrite, LeaseInv, LeadershipTypeOK
      <4> QED BY <3>1, <4>1, <4>2, <4>3, <4>4
    <3>3. \A q \in Replicas \ {r} : write'[q] = write[q]
        BY <3>1 DEF CheckGate, AskRemaining, MakeContext, Send, LeaseInv, LeadershipTypeOK
    <3> QED BY <3>2, <3>3 DEF Accepted, Prompt
  <2> QED BY <2>1, <2>2
<1> QED BY <1>1, <1>2 DEF Writer!writerVars, Accepted

\* Leader election with the gate, the capped write context and the hand-over
\* implements one active writer: every prompt write the API server accepts is
\* a write of the replica that is active at that moment.
THEOREM ElectsOneWriter == Spec => WriterSpec
<1>1. Init => Writer!WriterInit
    BY SMTT(20) DEF Init, NoWrite, Writer!WriterInit
<1>2. LeaseInv /\ [Next]_vars => [Writer!WriterNext]_(Writer!writerVars)
    BY CommitIsGrant, AcceptIsWrite, EndIsReturn, OtherStepsStutter
<1> QED BY <1>1, <1>2, LeaseInvariant, PTL DEF Spec, WriterSpec, Writer!WriterSpec
=============================================================================
