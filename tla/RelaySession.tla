---------------------------- MODULE RelaySession ----------------------------
(***************************************************************************)
(* Relay sessions: the TTL-bounded continuation of one relay grant, driven *)
(* hop by hop by a native client through the loopback listener.            *)
(*                                                                         *)
(* The broker thread decides a hop (relay_hop_start), applies its status   *)
(* (relay_hop_head) and closes it (relay_hop_complete), each call atomic.  *)
(* Between them the hop runs on a worker thread: hops of one session       *)
(* overlap, and the task that applies the head races the task that closes  *)
(* the hop.  A hop is its own id; the deployment a create makes is named   *)
(* by the hop that made it.                                                *)
(*                                                                         *)
(* A request is the shape it matches, whether its query and body binds     *)
(* agree with what the approval froze, the captured value its path names   *)
(* and the size of its body.                                               *)
(***************************************************************************)
EXTENDS Integers, FiniteSets

CONSTANTS
    Handles,   \* 142 random bits each: never minted twice
    Hops,      \* the requests of the native clients
    NoHop, NoHandle,
    Shapes,    \* the enumerated (method, path) rules of the predicate
    Effect,    \* the one shape marked `once`
    Budgeted,  \* the shapes with declared caps
    Polls,     \* the shapes whose wildcard segments bind the capture
    MaxUses, MaxBytes,  \* the caps of a budgeted shape
    Sizes,     \* body sizes on a budgeted shape
    TTL,       \* relay_ttl_secs
    MaxLive,   \* MAX_LIVE_RELAY_SESSIONS
    MaxTime,   \* bound: the clock stops here; a session opens if it can lapse before
    MaxMishaps \* bound: faults, crashes, revocations and hang-ups

ASSUME RelayAssumption ==
    /\ NoHop \notin Hops /\ NoHandle \notin Handles
    /\ Effect \in Shapes
    /\ Budgeted \subseteq Shapes \ {Effect} /\ Polls \subseteq Shapes \ {Effect}
    /\ MaxUses \in Nat \ {0} /\ MaxBytes \in Nat \ {0} /\ Sizes \subseteq Nat \ {0}
    /\ TTL \in Nat /\ MaxLive \in Nat \ {0} /\ MaxTime \in Nat /\ MaxMishaps \in Nat

VARIABLES
    live,       \* the handles in Broker.relay_sessions
    expires, effectUsed, captured, uses, bytes,  \* the fields of a session
    stale,      \* handles whose frozen authority is no longer in force
    locked,     \* the owner's lockdown latch
    stage, of, request, status, head,    \* each hop, its session and its answer
    now, mishaps,
    everOpened, receipts,  \* relay_session_opened and relay_session_closed rows
    rows,       \* terminal rows of each hop
    landed,     \* the provider: hops whose effect happened
    contradicts, \* the provider: effect answers that disagree with the approval
    retired     \* history: handles that met a revocation

sessions == <<live, expires, effectUsed, captured, uses, bytes>>
hops == <<stage, of, request, status, head>>
world == <<stale, locked, now, mishaps>>
audit == <<everOpened, receipts, rows>>
provider == <<landed, contradicts>>
vars == <<sessions, hops, world, audit, provider, retired>>

AnyRequest == [shape : Shapes \cup {"malformed", "unlisted"}, binds : BOOLEAN,
               names : Hops \cup {NoHop}, size : Sizes \cup {0}]

(* Without the differences that no check of the request's shape reads. *)
Requests ==
    {r \in AnyRequest :
        /\ r.shape \notin Shapes => ~r.binds
        /\ r.shape \notin Polls => r.names = NoHop
        /\ r.shape \notin Budgeted <=> r.size = 0}

Mishap == mishaps < MaxMishaps /\ mishaps' = mishaps + 1

Lapsed(h) == now > expires[h]

Close(h, n) == receipts' = [receipts EXCEPT ![h] = @ + n]

-----------------------------------------------------------------------------
(* open_relay_session: sweep, refuse at the cap, record, then insert. *)

Open(h) ==
    LET swept == {s \in live : Lapsed(s)} IN
    /\ h \notin everOpened /\ now + TTL < MaxTime
    /\ Cardinality(live \ swept) < MaxLive
    /\ live' = (live \ swept) \cup {h}
    /\ expires' = [expires EXCEPT ![h] = now + TTL]
    /\ everOpened' = everOpened \cup {h}
    /\ receipts' = [s \in Handles |-> receipts[s] + IF s \in swept THEN 1 ELSE 0]
    /\ UNCHANGED <<effectUsed, captured, uses, bytes, hops, world, rows, provider, retired>>

(* sweep_relay_sessions on the housekeeping tick; a failed receipt is      *)
(* dropped with the session it was for.                                    *)
Sweep ==
    \E lost \in BOOLEAN :
        LET swept == {s \in live : Lapsed(s)} IN
        /\ swept # {}
        /\ live' = live \ swept
        /\ receipts' = [s \in Handles |->
                         receipts[s] + IF s \in swept /\ ~lost THEN 1 ELSE 0]
        /\ IF lost THEN Mishap ELSE UNCHANGED mishaps
        /\ UNCHANGED <<expires, effectUsed, captured, uses, bytes, hops, stale, locked, now,
                       everOpened, rows, provider, retired>>

-----------------------------------------------------------------------------
(* RelaySession::authorize, in its order. *)

WouldExceed(h, r) ==
    /\ r.shape \in Budgeted
    /\ \/ uses[h][r.shape] + 1 > MaxUses
       \/ bytes[h][r.shape] + r.size > MaxBytes

PathBound_AnyCapture(h, r) == r.shape \in Polls => captured[h] # NoHop

PathBound(h, r) == r.shape \in Polls => captured[h] # NoHop /\ r.names = captured[h]

Authorize(h, r) ==
    CASE Lapsed(h) -> "expired"
      [] r.shape = "malformed" -> "malformed"
      [] r.shape \notin Shapes -> "no_matching_shape"
      [] r.shape = Effect /\ effectUsed[h] -> "effect_already_used"
      [] ~r.binds \/ ~PathBound(h, r) -> "bind_mismatch"
      [] WouldExceed(h, r) -> "cap_exceeded"
      [] OTHER -> "forward"

(* The budget is charged by the decision, before anything is sent. *)
Charge(h, r) ==
    IF r.shape \in Budgeted
    THEN /\ uses' = [uses EXCEPT ![h][r.shape] = @ + 1]
         /\ bytes' = [bytes EXCEPT ![h][r.shape] = @ + r.size]
    ELSE UNCHANGED <<uses, bytes>>

Admit(x, h, r, s) ==
    /\ stage[x] = "new"
    /\ stage' = [stage EXCEPT ![x] = s]
    /\ of' = [of EXCEPT ![x] = h]
    /\ request' = [request EXCEPT ![x] = r]

Turn(x) ==
    /\ stage[x] = "new"
    /\ stage' = [stage EXCEPT ![x] = "refused"]
    /\ UNCHANGED <<of, request>>

(* A refusal is audited, and every class authorize returns ends the        *)
(* session: a burn or a lapsed TTL, with its receipt.  An audit fault      *)
(* drops the session without one.                                          *)
RefuseHop(x, h, r) ==
    /\ h \in live /\ Authorize(h, r) # "forward"
    /\ Turn(x)
    /\ live' = live \ {h}
    /\ \/ Close(h, 1) /\ UNCHANGED mishaps
       \/ Mishap /\ UNCHANGED receipts
    /\ UNCHANGED <<expires, effectUsed, captured, uses, bytes, status, head, stale, locked,
                   now, everOpened, rows, provider, retired>>

(* Lockdown and the live sentence authority outrank an open session. *)
Revoked(h) == locked \/ h \in stale

RevokeHop(x, h, r) ==
    /\ h \in live /\ Authorize(h, r) = "forward" /\ Revoked(h)
    /\ Turn(x)
    /\ Charge(h, r)
    /\ live' = live \ {h}
    /\ retired' = retired \cup {h}
    /\ \/ Close(h, 1) /\ UNCHANGED mishaps
       \/ Mishap /\ UNCHANGED receipts
    /\ UNCHANGED <<expires, effectUsed, captured, status, head, stale, locked, now,
                   everOpened, rows, provider>>

(* The effect is spent before the hop runs; the session goes back in the   *)
(* map while the hop is in flight.                                         *)
ForwardHop_SpendsLater(x, h, r) ==
    /\ h \in live /\ Authorize(h, r) = "forward" /\ ~Revoked(h)
    /\ Admit(x, h, r, "authorized")
    /\ Charge(h, r)
    /\ UNCHANGED <<live, expires, effectUsed, captured, status, head, world, audit,
                   provider, retired>>

ForwardHop(x, h, r) ==
    /\ h \in live /\ Authorize(h, r) = "forward" /\ ~Revoked(h)
    /\ Admit(x, h, r, "authorized")
    /\ Charge(h, r)
    /\ effectUsed' = [effectUsed EXCEPT ![h] = @ \/ r.shape = Effect]
    /\ UNCHANGED <<live, expires, captured, status, head, world, audit, provider, retired>>

(* The credential cannot be opened or the request prepared: the hop fails  *)
(* with its row and the session returns, its effect spent.                 *)
PrepareFails(x, h, r) ==
    /\ h \in live /\ Authorize(h, r) = "forward" /\ ~Revoked(h)
    /\ Admit(x, h, r, "unsent")
    /\ Charge(h, r)
    /\ Mishap
    /\ effectUsed' = [effectUsed EXCEPT ![h] = @ \/ r.shape = Effect]
    /\ rows' = [rows EXCEPT ![x] = @ + 1]
    /\ UNCHANGED <<live, expires, captured, status, head, stale, locked, now, everOpened,
                   receipts, provider, retired>>

(* all_secrets or the audit log faults with the session out of the map. *)
DecideFaults(x, h, r) ==
    /\ h \in live /\ Authorize(h, r) = "forward" /\ ~Revoked(h)
    /\ Turn(x)
    /\ Charge(h, r)
    /\ Mishap
    /\ live' = live \ {h}
    /\ UNCHANGED <<expires, effectUsed, captured, status, head, stale, locked, now, audit,
                   provider, retired>>

-----------------------------------------------------------------------------
(* RelayHopJob::run on a worker thread.  The provider answers, and a 4xx   *)
(* to the effect means that it did not happen.                             *)

Send(x) ==
    /\ stage[x] = "authorized"
    /\ stage' = [stage EXCEPT ![x] = "sent"]
    /\ \E s \in {"2xx", "4xx", "5xx", "silent"} :
        /\ status' = [status EXCEPT ![x] = s]
        /\ IF request[x].shape = Effect
           THEN /\ landed' \in {landed, landed \cup {x}}
                /\ s = "2xx" => x \in landed'
                /\ s = "4xx" => x \notin landed'
                /\ contradicts' \in {contradicts, contradicts \cup {x}}
                /\ s # "2xx" => x \notin contradicts'
           ELSE UNCHANGED provider
    /\ UNCHANGED <<sessions, of, request, head, world, audit, retired>>

Answered(x) == stage[x] \in {"sent", "stalled", "done", "unrecorded"} /\ status[x] # "silent"

(* observe_status: a definite 4xx on the effect hop releases the effect. *)
ObserveStatus(x) ==
    IF of[x] \in live /\ request[x].shape = Effect /\ status[x] = "4xx"
    THEN [effectUsed EXCEPT ![of[x]] = FALSE]
    ELSE effectUsed

(* relay_hop_head, before the client sees the status. *)
HopHead(x) ==
    /\ Answered(x) /\ head[x] = "pending"
    /\ effectUsed' = ObserveStatus(x)
    /\ head' = [head EXCEPT ![x] = "seen"]
    /\ UNCHANGED <<live, expires, captured, uses, bytes, stage, of, request, status, world,
                   audit, provider, retired>>

(* The body outruns the queue of four chunks: the worker waits in          *)
(* blocking_send, which looks at no deadline, until the client reads on or *)
(* goes away.                                                              *)
Stall(x) ==
    /\ stage[x] = "sent" /\ status[x] # "silent" /\ head[x] # "dropped"
    /\ stage' = [stage EXCEPT ![x] = "stalled"]
    /\ UNCHANGED <<sessions, of, request, status, head, world, audit, provider, retired>>

(* The client, which has the head, reads on or hangs up. *)
Drain(x) ==
    /\ stage[x] = "stalled" /\ head[x] = "seen"
    /\ stage' = [stage EXCEPT ![x] = "sent"]
    /\ UNCHANGED <<sessions, of, request, status, head, world, audit, provider, retired>>

(* The client hangs up before it has the head: the task that would apply   *)
(* it is dropped, and with it the queue a worker may be waiting on.        *)
HangUp(x) ==
    /\ stage[x] \in {"authorized", "sent", "stalled", "done", "unrecorded"}
    /\ head[x] = "pending"
    /\ Mishap
    /\ head' = [head EXCEPT ![x] = "dropped"]
    /\ stage' = [stage EXCEPT ![x] = IF @ = "stalled" THEN "sent" ELSE @]
    /\ UNCHANGED <<sessions, of, request, status, stale, locked, now, audit, provider, retired>>

(* It hangs up while relay_hop_start is being answered: the listener drops *)
(* the authorized job with the connection, unsent and without a row.       *)
DropJob(x) ==
    /\ stage[x] = "authorized" /\ head[x] = "pending"
    /\ Mishap
    /\ stage' = [stage EXCEPT ![x] = "dropped"]
    /\ UNCHANGED <<sessions, of, request, status, head, stale, locked, now, audit, provider,
                   retired>>

(* relay_hop_complete: observe_body, the hop's row, then the burn of an    *)
(* outcome that contradicts the approval.  The body may be truncated or    *)
(* name nothing, and then neither assertion nor capture runs.  The log may *)
(* refuse the hop's row, or the burn's rows when the session is gone.      *)
Observed(x) == /\ of[x] \in live
               /\ request[x].shape = Effect
               /\ status[x] = "2xx"

Capture(h, x) == IF captured[h] = NoHop THEN [captured EXCEPT ![h] = x] ELSE captured

HopComplete_AfterHead(x) ==
    /\ stage[x] = "sent" /\ head[x] = "seen"
    /\ \E readable \in BOOLEAN, recorded \in BOOLEAN, said \in BOOLEAN :
        LET mismatch == Observed(x) /\ readable /\ x \in contradicts
            captures == Observed(x) /\ readable /\ x \notin contradicts
            burns    == mismatch /\ recorded
            faulted  == ~recorded \/ (burns /\ ~said) IN
        /\ captured' = IF captures THEN Capture(of[x], x) ELSE captured
        /\ IF recorded
           THEN /\ rows' = [rows EXCEPT ![x] = @ + 1]
                /\ stage' = [stage EXCEPT ![x] = "done"]
           ELSE /\ stage' = [stage EXCEPT ![x] = "unrecorded"]
                /\ UNCHANGED rows
        /\ IF faulted THEN Mishap ELSE UNCHANGED mishaps
        /\ live' = IF burns THEN live \ {of[x]} ELSE live
        /\ retired' = IF burns THEN retired \cup {of[x]} ELSE retired
        /\ IF burns /\ said THEN Close(of[x], 1) ELSE UNCHANGED receipts
    /\ UNCHANGED <<expires, effectUsed, uses, bytes, of, request, status, head, stale, locked,
                   now, everOpened, provider>>

HopComplete(x) ==
    /\ stage[x] = "sent"
    /\ \E readable \in BOOLEAN, recorded \in BOOLEAN, said \in BOOLEAN :
        LET mismatch == Observed(x) /\ readable /\ x \in contradicts
            captures == Observed(x) /\ readable /\ x \notin contradicts
            burns    == mismatch /\ recorded
            faulted  == ~recorded \/ (burns /\ ~said) IN
        /\ captured' = IF captures THEN Capture(of[x], x) ELSE captured
        /\ IF recorded
           THEN /\ rows' = [rows EXCEPT ![x] = @ + 1]
                /\ stage' = [stage EXCEPT ![x] = "done"]
           ELSE /\ stage' = [stage EXCEPT ![x] = "unrecorded"]
                /\ UNCHANGED rows
        /\ IF faulted THEN Mishap ELSE UNCHANGED mishaps
        /\ live' = IF burns THEN live \ {of[x]} ELSE live
        /\ retired' = IF burns THEN retired \cup {of[x]} ELSE retired
        /\ IF burns /\ said THEN Close(of[x], 1) ELSE UNCHANGED receipts
    /\ UNCHANGED <<expires, effectUsed, uses, bytes, of, request, status, head, stale, locked,
                   now, everOpened, provider>>

-----------------------------------------------------------------------------
(* The owner, the authority, the clock and the process. *)

DenyAll ==
    /\ ~locked /\ Mishap
    /\ locked' = TRUE
    /\ UNCHANGED <<sessions, hops, stale, now, audit, provider, retired>>

LiftLockdown ==
    /\ locked
    /\ locked' = FALSE
    /\ UNCHANGED <<sessions, hops, stale, now, mishaps, audit, provider, retired>>

CommitAuthority ==
    /\ live \ stale # {} /\ Mishap
    /\ stale' = stale \cup live
    /\ UNCHANGED <<sessions, hops, locked, now, audit, provider, retired>>

(* Sessions are memory only; a worker's hop dies with the process, after   *)
(* it was sent or before.                                                  *)
Crash ==
    /\ live # {} \/ \E x \in Hops : stage[x] \in {"authorized", "sent", "stalled"}
    /\ Mishap
    /\ live' = {}
    /\ stage' = [x \in Hops |->
                  IF stage[x] \in {"authorized", "sent", "stalled"} THEN "killed" ELSE stage[x]]
    /\ UNCHANGED <<expires, effectUsed, captured, uses, bytes, of, request, status, head,
                   stale, locked, now, audit, provider, retired>>

Tick ==
    /\ now < MaxTime
    /\ now' = now + 1
    /\ UNCHANGED <<sessions, hops, stale, locked, mishaps, audit, provider, retired>>

-----------------------------------------------------------------------------

NoRequest == [shape |-> "unlisted", binds |-> FALSE, names |-> NoHop, size |-> 0]

Init ==
    /\ live = {}
    /\ expires = [h \in Handles |-> 0]
    /\ effectUsed = [h \in Handles |-> FALSE]
    /\ captured = [h \in Handles |-> NoHop]
    /\ uses = [h \in Handles |-> [s \in Shapes |-> 0]]
    /\ bytes = [h \in Handles |-> [s \in Shapes |-> 0]]
    /\ stale = {} /\ locked = FALSE
    /\ stage = [x \in Hops |-> "new"]
    /\ of = [x \in Hops |-> NoHandle]
    /\ request = [x \in Hops |-> NoRequest]
    /\ status = [x \in Hops |-> "silent"]
    /\ head = [x \in Hops |-> "pending"]
    /\ now = 0 /\ mishaps = 0
    /\ everOpened = {} /\ receipts = [h \in Handles |-> 0]
    /\ rows = [x \in Hops |-> 0]
    /\ landed = {} /\ contradicts = {} /\ retired = {}

Decide(x, h, r) ==
    \/ RefuseHop(x, h, r) \/ RevokeHop(x, h, r) \/ ForwardHop(x, h, r)
    \/ PrepareFails(x, h, r) \/ DecideFaults(x, h, r)

HopWork(x) == Send(x) \/ HopComplete(x)

Next ==
    \/ \E h \in Handles : Open(h)
    \/ \E x \in Hops, h \in Handles, r \in Requests : Decide(x, h, r)
    \/ \E x \in Hops : HopWork(x) \/ HopHead(x) \/ HangUp(x) \/ DropJob(x) \/ Stall(x) \/ Drain(x)
    \/ Sweep \/ DenyAll \/ LiftLockdown \/ CommitAuthority \/ Crash \/ Tick

Spec == Init /\ [][Next]_vars

(* A worker's closer task runs and the housekeeping tick sweeps.  A worker *)
(* meets its deadline and its cap in next_chunk, after every chunk it got  *)
(* rid of, so that a client reading in fits and starts stalls it finitely  *)
(* often: the work is strongly fair.  Nothing makes a client read on:      *)
(* Drain is not fair.                                                      *)
FairSpec ==
    /\ Spec /\ WF_vars(Tick) /\ WF_vars(Sweep)
    /\ \A x \in Hops : SF_vars(HopWork(x)) /\ WF_vars(HopHead(x))

-----------------------------------------------------------------------------
(* Properties. *)

TypeOK ==
    /\ live \in SUBSET Handles /\ expires \in [Handles -> Nat]
    /\ effectUsed \in [Handles -> BOOLEAN] /\ captured \in [Handles -> Hops \cup {NoHop}]
    /\ uses \in [Handles -> [Shapes -> Nat]] /\ bytes \in [Handles -> [Shapes -> Nat]]
    /\ stale \in SUBSET Handles /\ locked \in BOOLEAN
    /\ stage \in [Hops -> {"new", "refused", "unsent", "authorized", "sent", "stalled",
                           "done", "unrecorded", "killed", "dropped"}]
    /\ of \in [Hops -> Handles \cup {NoHandle}] /\ request \in [Hops -> AnyRequest]
    /\ status \in [Hops -> {"2xx", "4xx", "5xx", "silent"}]
    /\ head \in [Hops -> {"pending", "seen", "dropped"}]
    /\ now \in Nat /\ mishaps \in Nat
    /\ everOpened \in SUBSET Handles /\ receipts \in [Handles -> Nat]
    /\ rows \in [Hops -> Nat]
    /\ landed \in SUBSET Hops /\ contradicts \in SUBSET Hops /\ retired \in SUBSET Handles

(* templates.rs:313 "`once` ... may pass at most once per grant": note_forward *)
(* runs before the hop and only a 4xx releases the effect, so however the  *)
(* hops of a session overlap the provider performs at most one effect.     *)
OneEffectPerSession ==
    \A x, y \in landed : of[x] = of[y] => x = y

(* relay_hop_head runs before the status is written back: a client that    *)
(* saw the 4xx of its create never finds the effect still spent by it.     *)
RefusedEffectIsReleased ==
    \A h \in live :
        effectUsed[h] =>
            \E x \in Hops :
                /\ of[x] = h /\ request[x].shape = Effect
                /\ stage[x] \notin {"new", "refused"}
                /\ ~(head[x] = "seen" /\ status[x] = "4xx")

(* One approval is one effect however a session's hops overlap: the        *)
(* provider performs at most one, and a client that has read the 4xx of    *)
(* its create never finds the effect still spent by it (note_forward,      *)
(* relay_hop_head).                                                        *)
EffectSpentOnce == OneEffectPerSession /\ RefusedEffectIsReleased

(* A session is closed with at most one receipt, and none while it is      *)
(* live: no path both closes a session and puts it back.                   *)
OneReceipt ==
    \A h \in Handles :
        receipts[h] <= (IF h \in live \/ h \notin everOpened THEN 0 ELSE 1)

(* path_bind_mismatch against a write-once capture: every poll that was    *)
(* credentialed named the deployment this session's own effect made.       *)
PollsReadOwnEffect ==
    \A x \in Hops :
        stage[x] \notin {"new", "refused"} /\ request[x].shape \in Polls =>
            /\ request[x].names \in landed
            /\ of[request[x].names] = of[x]
            /\ request[x].names \notin contradicts

(* Every hop that started is closed, head or no head: its row lands even   *)
(* when the client hung up, unless the log refused it or the process died  *)
(* under it.  The one hop that stays between its request and its row is    *)
(* that of a client which holds its connection open and never reads again  *)
(* (run_hop, blocking_send, relay_hop_complete).                           *)
HopsAreClosed ==
    \A x \in Hops :
        []<>(stage[x] \notin {"sent", "stalled"}) \/ <>[](stage[x] = "stalled")

=============================================================================
