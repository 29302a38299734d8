------------------------------ MODULE McpBridge ------------------------------
(***************************************************************************)
(* The MCP bridge (cermet-cli/src/mcp_bridge/server.rs and mod.rs) on top  *)
(* of the daemon of BrokerMailbox: a dispatch loop that hands every        *)
(* tools/call to a worker thread, a shared session cache with single-      *)
(* flight refresh, a registry of background runs with a pool of their own, *)
(* one response sink, and a shutdown that walks bounded phases.            *)
(*                                                                         *)
(* A call is its own worker thread and a run its own run thread.  Every    *)
(* wire call is one connection; the client's deadline may pass at any      *)
(* point after the frame was written, and the daemon then works on for no  *)
(* reader.  The catalog, artifact and list tools are reads that touch no   *)
(* state here and are left out, as is the text of the answers.  A timeout  *)
(* of a shutdown phase may fire at any time, so a phase is never waited    *)
(* out.                                                                    *)
(***************************************************************************)
EXTENDS BrokerMailbox, FiniteSetsExt

CONSTANTS
    Calls,      \* tools/call messages the client sends
    Tools,      \* which tools they may name
    WorkerCap,  \* tool workers admitted at once
    RunCap,     \* background runs admitted at once
    MapCap,     \* run records kept before settled ones are evicted
    WriteCap    \* lines the writer's queue holds

ASSUME BridgeAssumption ==
    /\ Calls \cap Runs = {} /\ NoThread \notin Calls \cup Runs
    /\ Tools \subseteq {"execute", "status", "verb"}
    /\ WorkerCap \in Nat \ {0} /\ RunCap \in Nat \ {0}
    /\ MapCap \in Nat \ {0} /\ WriteCap \in Nat \ {0}

VARIABLES
    sess,      \* SessionState.session
    refresh,   \* the thread whose Hello is in flight (refreshing), or NoThread
    attempts,  \* completed refresh attempts
    pc,        \* thread -> where it is
    call,      \* thread -> the wire call it is making and its result
    rid,       \* thread -> the request its call or run names
    runs,      \* the supervisor's map: request -> run
    rec,       \* run -> state of its record
    phase,     \* ShutdownPhase of the tool pool
    runPhase,  \* ShutdownPhase of the run pool
    sink,      \* "active", "failed" or "closed"
    queue      \* calls whose response the writer has yet to write

cache == <<sess, refresh, attempts>>
registry == <<runs, rec>>
output == <<sink, queue>>
bridge == <<cache, pc, call, rid, registry, phase, runPhase, output>>
vars == <<daemon, mishaps, bridge>>

Threads == Calls \cup Runs
Settled == {"final", "retryable", "ambiguous"}
AnyRid == CHOOSE r \in Requests : TRUE
WireCall(op, back, res) ==
    [op |-> op, back |-> back, sid |-> NoSid, stale |-> NoSid,
     again |-> FALSE, seen |-> 0, conn |-> NoConn, res |-> res]
NoCall == WireCall("none", "none", "none")

(* The state of the record the supervisor keeps for a request. *)
RecordOf(q) == IF runs[q] = NoRun THEN "none" ELSE rec[runs[q]]

(* The calls and runs that hold a slot of their pool. *)
InFlight == {c \in Calls : pc[c] \notin {"unsent", "refused", "ended"}}
RunsInFlight == {r \in Runs : pc[r] \notin {"unsent", "ended"}}

Go(t, place) == pc' = [pc EXCEPT ![t] = place]
Begin(t, op, back) == call' = [call EXCEPT ![t] = WireCall(op, back, "none")]
Return(t, res) ==
    /\ call' = [call EXCEPT ![t] = WireCall("none", "none", res)]
    /\ pc' = [pc EXCEPT ![t] = call[t].back]

-----------------------------------------------------------------------------
(* SessionCache::session_for.  The refused id is discarded; a cached one   *)
(* is used; otherwise this thread leads the refresh or waits for it.       *)
Usable(t) == sess # NoSid /\ sess # call[t].stale

TakeSession(t) ==
    /\ pc[t] = "session"
    /\ \/ /\ Usable(t)
          /\ IF call[t].op = "ensure" THEN Return(t, "session")
             ELSE Go(t, "send") /\ call' = [call EXCEPT ![t].sid = sess]
          /\ UNCHANGED <<sess, refresh>>
       \/ /\ ~Usable(t) /\ refresh # NoThread
          /\ sess' = NoSid /\ UNCHANGED refresh
          /\ Go(t, "await") /\ call' = [call EXCEPT ![t].seen = attempts]
       \/ /\ ~Usable(t) /\ refresh = NoThread
          /\ sess' = NoSid /\ refresh' = t
          /\ Go(t, "hello") /\ UNCHANGED call
    /\ UNCHANGED <<daemon, mishaps, attempts, rid, registry, phase,
                   runPhase, output>>

(* A waiter wakes when the attempt it saw is over: a published session or  *)
(* a newer attempt sends it round again, neither is that attempt's error.  *)
WakeWaiter(t) ==
    /\ pc[t] = "await" /\ (refresh = NoThread \/ attempts # call[t].seen)
    /\ IF sess # NoSid \/ refresh # NoThread
       THEN Go(t, "session") /\ UNCHANGED call ELSE Return(t, "transport")
    /\ UNCHANGED <<daemon, mishaps, cache, rid, registry, phase,
                   runPhase, output>>

WaiterTimesOut(t) ==
    /\ pc[t] = "await" /\ Mishap
    /\ Return(t, "transport")
    /\ UNCHANGED <<daemon, cache, rid, registry, phase, runPhase, output>>

(* The leader publishes under the lock; RefreshDone clears `refreshing'    *)
(* and counts the attempt in a second critical section.                    *)
Publish(t) ==
    /\ pc[t] = "publish"
    /\ sess' = IF call[t].res = "session" THEN call[t].sid ELSE sess
    /\ Go(t, "release")
    /\ UNCHANGED <<daemon, mishaps, refresh, attempts, call, rid,
                   registry, phase, runPhase, output>>

Release(t) ==
    /\ pc[t] = "release"
    /\ refresh' = NoThread /\ attempts' = attempts + 1
    /\ \/ call[t].res = "session" /\ call[t].op # "ensure"
          /\ Go(t, "send") /\ call' = [call EXCEPT ![t].res = "none"]
       \/ call[t].res = "session" /\ call[t].op = "ensure" /\ Return(t, "session")
       \/ call[t].res # "session" /\ Return(t, call[t].res)
    /\ UNCHANGED <<daemon, mishaps, sess, rid, registry, phase,
                   runPhase, output>>

-----------------------------------------------------------------------------
(* call_with_session_clamped and hello: connect, write one frame, read one *)
(* reply.  SESSION_EXPIRED is answered by one re-mint and one replay.      *)
Connect(t) ==
    /\ pc[t] \in {"hello", "send"}
    /\ \E c \in Conns :
        /\ Dial(c, IF pc[t] = "hello" THEN "hello" ELSE call[t].op, rid[t],
                call[t].sid, t, IF t \in Runs THEN t ELSE NoRun)
        /\ call' = [call EXCEPT ![t].conn = c]
        /\ Go(t, IF pc[t] = "hello" THEN "helloReply" ELSE "reply")
    /\ UNCHANGED <<up, build, mailbox, busy, open, minted, grant, claimedBy, effects,
                   mishaps, cache, rid, registry, phase, runPhase, output>>

ConnectFails(t) ==
    /\ ~up /\ pc[t] \in {"hello", "send"}
    /\ \/ pc[t] = "hello" /\ Go(t, "publish") /\ call' = [call EXCEPT ![t].res = "connect"]
       \/ pc[t] = "send" /\ Return(t, "connect")
    /\ UNCHANGED <<daemon, mishaps, cache, rid, registry, phase,
                   runPhase, output>>

ReadReply(t) ==
    /\ pc[t] \in {"helloReply", "reply"}
    /\ LET c == call[t].conn
           reply == IF conn[c].st = "closed" THEN "transport" ELSE conn[c].reply
       IN /\ conn[c].st \in {"answered", "closed"}
          /\ conn' = [conn EXCEPT ![c] = Idle]
          /\ \/ /\ pc[t] = "helloReply" /\ Go(t, "publish")
                /\ call' = [call EXCEPT ![t].res = reply, ![t].conn = NoConn,
                                        ![t].sid = conn[c].sid]
             \/ /\ pc[t] = "reply" /\ reply = "expired" /\ ~call[t].again
                /\ Go(t, "session")
                /\ call' = [call EXCEPT ![t].stale = call[t].sid, ![t].again = TRUE,
                                        ![t].conn = NoConn]
             \/ /\ pc[t] = "reply" /\ (reply # "expired" \/ call[t].again)
                /\ Return(t, IF reply = "expired" THEN "refused" ELSE reply)
    /\ UNCHANGED <<up, build, mailbox, busy, open, minted, grant, claimedBy, effects,
                   mishaps, cache, rid, registry, phase, runPhase, output>>

(* The deadline passes.  The frame was written: the daemon may yet act. *)
ReadTimesOut(t) ==
    /\ pc[t] \in {"helloReply", "reply"} /\ Mishap
    /\ conn' = [conn EXCEPT ![call[t].conn].owner = NoThread]
    /\ \/ /\ pc[t] = "helloReply" /\ Go(t, "publish")
          /\ call' = [call EXCEPT ![t].res = "transport", ![t].conn = NoConn]
       \/ pc[t] = "reply" /\ Return(t, "transport")
    /\ UNCHANGED <<up, build, mailbox, busy, open, minted, grant, claimedBy, effects,
                   cache, rid, registry, phase, runPhase, output>>

-----------------------------------------------------------------------------
(* SharedWriter::write_response, on a worker or, for a busy refusal, on    *)
(* the dispatch thread: admission is atomic with the sink's state, and a   *)
(* line for a sink that is not active is dropped.                          *)
Writing == {"respond", "refused"}

WriteResponse(c) ==
    /\ pc[c] \in Writing
    /\ \/ sink = "active" /\ Len(queue) < WriteCap /\ queue' = Append(queue, c)
       \/ sink # "active" /\ UNCHANGED queue
    /\ Go(c, "ended")
    /\ UNCHANGED <<daemon, mishaps, cache, call, rid, registry, phase,
                   runPhase, sink>>

(* A full queue without progress for the stall bound fails the sink. *)
StallOut(c) ==
    /\ pc[c] \in Writing /\ sink = "active" /\ Len(queue) = WriteCap
    /\ sink' = "failed" /\ Go(c, "ended")
    /\ UNCHANGED <<daemon, mishaps, cache, call, rid, registry, phase,
                   runPhase, queue>>

(* The writer task: one whole line at a time, dead at the first error. *)
WriteLine ==
    /\ queue # <<>> /\ sink \in {"active", "closed"}
    /\ queue' = Tail(queue)
    /\ \/ UNCHANGED <<sink, mishaps>>
       \/ sink' = "failed" /\ Mishap
    /\ UNCHANGED <<daemon, cache, pc, call, rid, registry, phase,
                   runPhase>>

-----------------------------------------------------------------------------
(* dispatch_loop: a line goes to a worker of its own, or is answered busy  *)
(* when the pool is full.  A verb tool requests before it executes.        *)
Entry(k) == CASE k = "execute" -> <<"session", "ensure", "ensured">>
              [] k = "status" -> <<"waitStatus", "none", "none">>
              [] k = "verb" -> <<"session", "request", "requested">>

Names(k, r) ==
    IF k = "verb" THEN grant[r] = "none" /\ \A c \in Calls : pc[c] # "unsent" => rid[c] # r
                  ELSE grant[r] # "none"

Dispatching == \A d \in Calls : pc[d] # "refused"

Dispatch(c) ==
    /\ pc[c] = "unsent" /\ Dispatching /\ phase \in {"running", "draining"} /\ sink # "failed"
    /\ \E k \in Tools, r \in Requests :
        /\ Names(k, r)
        /\ rid' = [rid EXCEPT ![c] = r]
        /\ IF Cardinality(InFlight) < WorkerCap
           THEN Go(c, Entry(k)[1]) /\ Begin(c, Entry(k)[2], Entry(k)[3])
           ELSE Go(c, "refused") /\ UNCHANGED call
    /\ UNCHANGED <<daemon, mishaps, cache, registry, phase, runPhase, sink, queue>>

(* tool_verb_call, past its request. *)
Requested(c) ==
    /\ pc[c] = "requested"
    /\ IF call[c].res = "ready"
       THEN Go(c, "session") /\ Begin(c, "ensure", "verbEnsured")
       ELSE Go(c, "respond") /\ UNCHANGED call
    /\ UNCHANGED <<daemon, mishaps, cache, rid, registry, phase, runPhase,
                   sink, queue>>

(* tool_execute_async: a plain execute first reads the status for the      *)
(* effect handle, and goes on whatever that read answers; a verb tool has  *)
(* the handle from its request.                                            *)
Ensured(c) ==
    /\ pc[c] \in {"ensured", "verbEnsured"}
    /\ \/ call[c].res # "session" /\ Go(c, "respond") /\ UNCHANGED call
       \/ /\ call[c].res = "session" /\ pc[c] = "ensured"
          /\ Go(c, "session") /\ Begin(c, "status", "execGate")
       \/ /\ call[c].res = "session" /\ pc[c] = "verbEnsured"
          /\ Go(c, "execGate") /\ UNCHANGED call
    /\ UNCHANGED <<daemon, mishaps, cache, rid, registry, phase, runPhase, output>>

(* An ambiguous record is reconciled before a start. *)
IsAmbiguous(q) == RecordOf(q) = "ambiguous"

ExecGate(c) ==
    /\ pc[c] = "execGate"
    /\ IF IsAmbiguous(rid[c])
       THEN Go(c, "session") /\ Begin(c, "status", "reconciled")
       ELSE Go(c, "start") /\ UNCHANGED call
    /\ UNCHANGED <<daemon, mishaps, cache, rid, registry, phase, runPhase,
                   output>>

(* reconcile_ambiguous: only a durable "ready" clears the settled record. *)
Terminal == {"done", "denied", "abandoned"}

Reconciled(c) ==
    /\ pc[c] = "reconciled"
    /\ \/ /\ call[c].res = "ready" /\ Go(c, "start")
          /\ runs' = IF RecordOf(rid[c]) \in Settled
                     THEN [runs EXCEPT ![rid[c]] = NoRun] ELSE runs
       \/ call[c].res # "ready" /\ UNCHANGED runs /\ Go(c, "respond")
    /\ UNCHANGED <<daemon, mishaps, cache, call, rid, rec, phase,
                   runPhase, sink, queue>>

(* RunSupervisor::start under the map's lock: dedup onto any record that   *)
(* is not retryable; otherwise make room and spawn, or refuse busy.        *)
Kept == {r \in Requests : runs[r] # NoRun}
KeptSettled == {q \in Kept : RecordOf(q) \in Settled}

(* evict_settled_if_full: settled records in hash order until there is     *)
(* room, or until none is left.                                            *)
Evicted ==
    kSubset(Min({Cardinality(KeptSettled),
                 Max({0, Cardinality(Kept) + 1 - MapCap})}), KeptSettled)

Start(c) ==
    /\ pc[c] = "start"
    /\ \/ /\ RecordOf(rid[c]) \notin {"none", "retryable"}
          /\ Go(c, "waitRun")
          /\ UNCHANGED <<runs, rec, rid>>
       \/ /\ RecordOf(rid[c]) \in {"none", "retryable"}
          /\ \E e \in Evicted :
              LET left == [r \in Requests |-> IF r \in e THEN NoRun ELSE runs[r]]
              IN \/ /\ Cardinality(RunsInFlight) < RunCap
                    /\ \E r \in Runs :
                        /\ pc[r] = "unsent" /\ \A q \in Runs : pc[q] = "unsent" => r <= q
                        /\ runs' = [left EXCEPT ![rid[c]] = r]
                        /\ rec' = [rec EXCEPT ![r] = "running"]
                        /\ rid' = [rid EXCEPT ![r] = rid[c]]
                        /\ pc' = [pc EXCEPT ![r] = "gate", ![c] = "waitRun"]
                 \/ /\ Cardinality(RunsInFlight) >= RunCap
                    /\ runs' = left /\ Go(c, "respond")
                    /\ UNCHANGED <<rec, rid>>
    /\ UNCHANGED <<daemon, mishaps, cache, call, phase, runPhase, sink, queue>>

(* wait_terminal, then render_run_done; the wait may end first, with the   *)
(* handle of a run that goes on.                                           *)
WaitRun(c) ==
    /\ pc[c] = "waitRun" /\ Go(c, "respond")
    /\ UNCHANGED <<daemon, mishaps, cache, call, rid, registry, phase,
                   runPhase, output>>

(* tool_status_async: the record is only a signal to wait on; the answer   *)
(* is the daemon's, unless the budget ran out while the run was known to   *)
(* be running.                                                             *)
WaitStatus(c) ==
    /\ pc[c] = "waitStatus"
    /\ IF RecordOf(rid[c]) = "running"
       THEN Go(c, "respond") /\ UNCHANGED call
       ELSE Go(c, "session") /\ Begin(c, "status", "statusGot")
    /\ UNCHANGED <<daemon, mishaps, cache, rid, registry, phase, runPhase,
                   output>>

(* A phase that is not terminal and a read that failed after the connect   *)
(* are polled again while the budget lasts.                                *)
StatusGot(c) ==
    /\ pc[c] = "statusGot"
    /\ \/ Go(c, "respond") /\ UNCHANGED <<call, mishaps>>
       \/ /\ call[c].res \in {"ready", "running", "transport"} /\ Mishap
          /\ Go(c, "session") /\ Begin(c, "status", "statusGot")
    /\ UNCHANGED <<daemon, cache, rid, registry, phase, runPhase, output>>

-----------------------------------------------------------------------------
(* The run thread: may_start, the gated Execute, then complete.            *)
MayStart(p) == p = "running"

RunGate(r) ==
    /\ pc[r] = "gate"
    /\ \/ /\ MayStart(runPhase)
          /\ Go(r, "session") /\ Begin(r, "execute", "settle") /\ UNCHANGED rec
       \/ /\ ~MayStart(runPhase) /\ rec' = [rec EXCEPT ![r] = "retryable"]
          /\ Go(r, "ended") /\ UNCHANGED call
    /\ UNCHANGED <<daemon, mishaps, cache, rid, runs, phase, runPhase, output>>

(* Defect: a lost reply is taken for a call that never left. *)
ClassifyRun_LostIsUnsent(res) == IF res \in {"connect", "transport"} THEN "retryable" ELSE "final"

(* classify_run: retryable is what provably left the grant unclaimed. *)
ClassifyRun(res) ==
    CASE res = "connect" -> "retryable"
      [] res = "transport" -> "ambiguous"
      [] OTHER -> "final"

Complete(r) ==
    /\ pc[r] = "settle"
    /\ rec' = [rec EXCEPT ![r] = ClassifyRun(call[r].res)]
    /\ Go(r, "ended")
    /\ UNCHANGED <<daemon, mishaps, cache, call, rid, runs, phase,
                   runPhase, output>>

(* Defect: the unwind leaves the refresh flag up. *)
Panic_KeepsFlag(t) ==
    /\ pc[t] \in {"hello", "helloReply"} /\ Mishap
    /\ conn' = IF call[t].conn = NoConn THEN conn ELSE [conn EXCEPT ![call[t].conn].owner = NoThread]
    /\ Go(t, IF t \in Calls THEN "respond" ELSE "ended")
    /\ call' = [call EXCEPT ![t] = NoCall]
    /\ UNCHANGED <<up, build, mailbox, busy, open, minted, grant, claimedBy, effects,
                   cache, rid, registry, phase, runPhase, output>>

(* A panic inside hello(): RefreshDone still ends the attempt, a worker's  *)
(* caller still gets an error, and a run's record is never completed.      *)
Panic(t) ==
    /\ pc[t] \in {"hello", "helloReply"} /\ Mishap
    /\ refresh' = NoThread /\ attempts' = attempts + 1
    /\ conn' = IF call[t].conn = NoConn THEN conn ELSE [conn EXCEPT ![call[t].conn].owner = NoThread]
    /\ Go(t, IF t \in Calls THEN "respond" ELSE "ended")
    /\ call' = [call EXCEPT ![t] = NoCall]
    /\ UNCHANGED <<up, build, mailbox, busy, open, minted, grant, claimedBy, effects,
                   sess, rid, registry, phase, runPhase, output>>

-----------------------------------------------------------------------------
(* Shutdown.  The input ends (EOF, hangup or a read error) or the sink     *)
(* fails; the backlog window closes; the tool pool drains and refuses      *)
(* claims, then the run pool, then the sink is closed and flushed.  Every  *)
(* wait is bounded, so each step may come at any time.  Killing and        *)
(* Joining answer every question as RefusingClaims does here.              *)
InputEnds ==
    /\ phase = "running" /\ phase' = "draining" /\ Mishap
    /\ UNCHANGED <<runPhase, sink>>

StopDispatch ==
    /\ phase = "draining" \/ (phase = "running" /\ sink = "failed")
    /\ Dispatching
    /\ phase' = "drain" /\ UNCHANGED <<mishaps, runPhase, sink>>

DrainTools ==
    /\ phase = "drain" /\ phase' = "refusing"
    /\ UNCHANGED <<mishaps, runPhase, sink>>

DrainRuns ==
    /\ phase = "refusing" /\ runPhase = "running"
    /\ runPhase' = "refusing" /\ UNCHANGED <<mishaps, phase, sink>>

Flush ==
    /\ phase = "refusing" /\ runPhase = "refusing"
    /\ phase' = "flushing"
    /\ sink' = IF sink = "active" THEN "closed" ELSE sink
    /\ UNCHANGED <<mishaps, runPhase>>

ShutdownStep ==
    /\ InputEnds \/ StopDispatch \/ DrainTools \/ DrainRuns \/ Flush
    /\ UNCHANGED <<daemon, cache, pc, call, rid, registry, queue>>

(* serve returns and the process ends with every thread in it. *)
Exit ==
    /\ phase = "flushing" /\ phase' = "stopped"
    /\ pc' = [t \in Threads |-> "ended"]
    /\ conn' = [c \in Conns |-> [conn[c] EXCEPT !.owner = NoThread]]
    /\ UNCHANGED <<up, build, mailbox, busy, open, minted, grant, claimedBy, effects,
                   mishaps, cache, call, rid, registry, runPhase, output>>

-----------------------------------------------------------------------------
Init ==
    /\ DaemonInit
    /\ sess = NoSid /\ refresh = NoThread /\ attempts = 0
    /\ pc = [t \in Threads |-> "unsent"]
    /\ call = [t \in Threads |-> NoCall]
    /\ rid = [t \in Threads |-> AnyRid]
    /\ runs = [r \in Requests |-> NoRun]
    /\ rec = [r \in Runs |-> "none"] 
    /\ phase = "running" /\ runPhase = "running"
    /\ sink = "active" /\ queue = <<>>

CallStep(c) ==
    \/ Requested(c) \/ Ensured(c) \/ ExecGate(c) \/ Reconciled(c) \/ Start(c) \/ WaitRun(c)
    \/ WaitStatus(c) \/ StatusGot(c) \/ WriteResponse(c) \/ StallOut(c)
RunStep(r) == RunGate(r) \/ Complete(r)
WireStep(t) ==
    \/ TakeSession(t) \/ WakeWaiter(t) \/ Publish(t) \/ Release(t)
    \/ Connect(t) \/ ConnectFails(t) \/ ReadReply(t)
DaemonStep == \E c \in Conns : (ServeStep(c) \/ ActorStep(c)) /\ UNCHANGED bridge
Outage == (Crash \/ Restart \/ OtherSweep) /\ UNCHANGED bridge

Next ==
    \/ \E c \in Calls : Dispatch(c) \/ CallStep(c)
    \/ \E r \in Runs : RunStep(r)
    \/ \E t \in Threads : WireStep(t) \/ WaiterTimesOut(t) \/ ReadTimesOut(t) \/ Panic(t)
    \/ WriteLine \/ ShutdownStep \/ Exit
    \/ DaemonStep \/ Outage

(* Threads and the daemon's own threads are scheduled; the writer is not   *)
(* assumed to make progress (the client may stop reading), nor is a        *)
(* crashed daemon assumed to come back.                                    *)
Fairness ==
    /\ \A c \in Calls : WF_vars(CallStep(c))
    /\ \A r \in Runs : WF_vars(RunStep(r))
    /\ \A t \in Threads : WF_vars(WireStep(t))
    /\ \A c \in Conns : WF_vars(ServeStep(c) /\ UNCHANGED bridge)
    /\ WF_vars((\E c \in Conns : ActorStep(c)) /\ UNCHANGED bridge)

Spec == Init /\ [][Next]_vars /\ Fairness

-----------------------------------------------------------------------------
Places == {"unsent", "refused", "ended", "respond", "session", "await", "hello", "helloReply",
           "publish", "release", "send", "reply", "requested", "ensured", "verbEnsured",
           "execGate", "reconciled", "start", "waitRun", "waitStatus", "statusGot", "gate",
           "settle"}

TypeOK ==
    /\ DaemonTypeOK(Threads)
    /\ sess \in Sids \cup {NoSid} /\ refresh \in Threads \cup {NoThread}
    /\ attempts \in Nat
    /\ pc \in [Threads -> Places]
    /\ call \in [Threads -> [op : {"none", "ensure", "status", "request", "execute"},
                             back : Places \cup {"none"}, sid : Sids \cup {NoSid},
                             stale : Sids \cup {NoSid}, again : BOOLEAN, seen : Nat,
                             conn : Conns \cup {NoConn},
                             res : Replies \cup {"transport", "connect"}]]
    /\ rid \in [Threads -> Requests]
    /\ runs \in [Requests -> Runs \cup {NoRun}]
    /\ rec \in [Runs -> {"none", "running"} \cup Settled]
    /\ phase \in {"running", "draining", "drain", "refusing", "flushing", "stopped"}
    /\ runPhase \in {"running", "refusing"}
    /\ sink \in {"active", "failed", "closed"} /\ queue \in Seq(Calls)

(* Retryable means what classify_run says: a run recorded retryable has    *)
(* not claimed its grant, and no frame of its own is left in the daemon    *)
(* that still could, whatever timeouts, re-mints and crashes it met.       *)
RetryableIsUnclaimed ==
    \A r \in Runs : rec[r] = "retryable" =>
        /\ claimedBy[rid[r]] # r
        /\ \A c \in Conns : ~(Live(c) /\ conn[c].op = "execute" /\ conn[c].run = r)

(* However many runs, replays and abandoned frames carry one request, the  *)
(* provider is called at most once for it, and always from inside the one  *)
(* turn that claimed it: a frame that waited in the mailbox past the sweep *)
(* of its session never gets there.                                        *)
OneEffectPerRequest ==
    /\ [](\A q \in Requests : effects[q] <= 1 /\ (effects[q] = 1 => grant[q] # "ready"))
    /\ [][\A c \in Conns : busy' = c /\ busy # c => conn[c].sid \in open]_vars

(* A tool call that was dispatched is answered or dropped with the sink:   *)
(* no call waits for ever on a Hello, a run or a stalled client, with or   *)
(* without a panic, a timeout or the daemon going away.                    *)
CallsEnd == []<>(\A c \in Calls : pc[c] \in {"unsent", "ended"})
=============================================================================
