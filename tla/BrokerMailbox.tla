---------------------------- MODULE BrokerMailbox ----------------------------
(***************************************************************************)
(* The daemon's side of agent.sock: the accept loop and its admission      *)
(* slots, one handler thread per connection, and the broker actor, one     *)
(* thread that takes commands from a bounded mailbox                       *)
(* (cermet-daemon/src/serve/connection.rs, cermet-broker-actor/src/lib.rs, *)
(* the session table of cermet-core/src/broker/lifecycle.rs).              *)
(*                                                                         *)
(* A connection carries one frame.  Its handler first asks the actor       *)
(* whether the session the frame names is open (the preflight) and then    *)
(* sends the command itself: two turns of the mailbox, between which       *)
(* anything may happen.  The actor runs a provider call inside its turn,   *)
(* so every other command waits behind it.  A client that gave up leaves   *)
(* its connection to run to the end without a reader.                      *)
(*                                                                         *)
(* A grant is what this path tells apart: not minted, ready, running,      *)
(* done, denied or abandoned; GrantExecution models its inside.  Replies   *)
(* are tags.  A Hello is answered only by a daemon of the bridge's own     *)
(* build, and such a daemon always advertises async_execute_v1.            *)
(***************************************************************************)
EXTENDS Naturals, Sequences, FiniteSets

CONSTANTS
    Requests,    \* request ids
    Conns,       \* connections that may exist at once, a range 1..n
    Sids,        \* session ids the daemon may mint, a range 1..n
    Runs,        \* background runs of the bridge, a range 1..n
    NoThread, NoSid, NoConn, NoRun,
    MaxConns,    \* admission slots of the accept loop
    MailboxCap,  \* capacity of the actor's channel
    MaxMishaps   \* bound: crashes, sweeps, timeouts, panics, other builds, the input's end

ASSUME MailboxAssumption ==
    /\ Requests # {}
    /\ NoSid \notin Sids /\ NoConn \notin Conns /\ NoRun \notin Runs
    /\ MaxConns \in Nat \ {0} /\ MailboxCap \in Nat \ {0} /\ MaxMishaps \in Nat

VARIABLES
    up,         \* the daemon is serving
    build,      \* "same" as the bridge's, or "other"
    conn,       \* connection -> its frame, its stage and its reply
    mailbox,    \* the actor's channel, as connections whose command it holds
    busy,       \* the connection whose provider call the actor is inside
    open,       \* sessions whose row is open
    minted,     \* sessions ever minted
    grant,      \* request -> state of its grant
    claimedBy,  \* ghost: request -> the run whose Execute claimed it
    effects,    \* ghost: request -> provider calls made for it
    mishaps

daemon == <<up, build, conn, mailbox, busy, open, minted, grant, claimedBy, effects>>

Stages == {"free", "served", "preflight", "passed", "acting", "opened", "sweeping",
           "executing", "answered", "closed"}
Phases == {"none", "denied", "ready", "running", "done", "abandoned"}
Replies == Phases \cup {"skewed", "expired", "session", "refused", "receipt"}
Idle == [st |-> "free", op |-> "none", rid |-> CHOOSE r \in Requests : TRUE,
         sid |-> NoSid, owner |-> NoThread, run |-> NoRun, reply |-> "none"]

Mishap == mishaps < MaxMishaps /\ mishaps' = mishaps + 1
Calm == mishaps' = mishaps

(* The connections a slot is held for: accepted and not yet torn down. *)
Active == {c \in Conns : conn[c].st \in
              {"served", "preflight", "passed", "acting", "opened", "sweeping", "executing"}}

(* Commands a connection still has in the daemon, or on their way there. *)
Live(c) == conn[c].st \notin {"free", "answered", "closed"}

-----------------------------------------------------------------------------
(* A client's connect and write, and accept_loop's answer to it: the       *)
(* lowest free connection takes the frame, and one past the admission cap  *)
(* is dropped unread.                                                      *)
Dial(c, op, rid, sid, owner, run) ==
    /\ up /\ conn[c].st = "free"
    /\ \A d \in Conns : d < c => conn[d].st # "free"
    /\ conn' = [conn EXCEPT ![c] =
                  [st |-> IF Cardinality(Active) < MaxConns THEN "served" ELSE "closed",
                   op |-> op, rid |-> rid, sid |-> sid, owner |-> owner, run |-> run,
                   reply |-> "none"]]

(* BrokerHandle::dispatch awaits room in the channel.  A Hello that names  *)
(* another build is refused before anything is minted and so is not sent.  *)
Post(c) ==
    /\ conn[c].st \in {"served", "passed", "opened"}
    /\ ~(conn[c].op = "hello" /\ build # "same")
    /\ Len(mailbox) < MailboxCap
    /\ mailbox' = Append(mailbox, c)
    /\ conn' = [conn EXCEPT ![c].st =
                  CASE conn[c].st = "opened" -> "sweeping"
                    [] conn[c].st = "served" /\ conn[c].op # "hello" -> "preflight"
                    [] OTHER -> "acting"]
    /\ UNCHANGED <<up, build, busy, open, minted, grant, claimedBy, effects>>
    /\ Calm

Answer(c, reply) ==
    conn' = [conn EXCEPT ![c] = [@ EXCEPT !.st = "answered", !.reply = reply]]

RefuseBuild(c) ==
    /\ conn[c].st = "served" /\ conn[c].op = "hello" /\ build # "same"
    /\ Answer(c, "skewed")
    /\ UNCHANGED <<up, build, mailbox, busy, open, minted, grant, claimedBy, effects>>
    /\ Calm

-----------------------------------------------------------------------------
(* The actor's turn on the head of the mailbox. *)
Turn(c) == up /\ busy = NoConn /\ mailbox # <<>> /\ c = Head(mailbox)

(* session_open: the preflight, for the quality of the error only. *)
SessionOpen(c) ==
    /\ Turn(c) /\ conn[c].st = "preflight"
    /\ mailbox' = Tail(mailbox)
    /\ IF conn[c].sid \in open THEN conn' = [conn EXCEPT ![c].st = "passed"]
                               ELSE Answer(c, "expired")
    /\ UNCHANGED <<up, build, busy, open, minted, grant, claimedBy, effects>>
    /\ Calm

(* open_session: a fresh row for the id the handler minted. *)
OpenSession(c) ==
    /\ Turn(c) /\ conn[c].st = "acting" /\ conn[c].op = "hello"
    /\ mailbox' = Tail(mailbox)
    /\ \E s \in Sids \ minted :
        /\ \A q \in Sids \ minted : s <= q
        /\ minted' = minted \cup {s} /\ open' = open \cup {s}
        /\ conn' = [conn EXCEPT ![c] = [@ EXCEPT !.st = "opened", !.sid = s]]
    /\ UNCHANGED <<up, build, busy, grant, claimedBy, effects>>
    /\ Calm

(* sweep_idle_sessions, a turn of its own behind the open: every session   *)
(* past its idle window is closed, never the one the Hello just minted.    *)
SweepIdleSessions(c) ==
    /\ Turn(c) /\ conn[c].st = "sweeping"
    /\ mailbox' = Tail(mailbox)
    /\ Answer(c, "session")
    /\ \E idle \in SUBSET (open \ {conn[c].sid}) :
        /\ open' = open \ idle
        /\ IF idle = {} THEN Calm ELSE Mishap
    /\ UNCHANGED <<up, build, busy, minted, grant, claimedBy, effects>>

(* The Hello of another conversation sweeps sessions of this one. *)
OtherSweep ==
    /\ up /\ busy = NoConn /\ Mishap
    /\ \E idle \in (SUBSET open) \ {{}} : open' = open \ idle
    /\ UNCHANGED <<up, build, conn, mailbox, busy, minted, grant, claimedBy, effects>>

(* request_status_for_principal: the durable phase of the caller's request. *)
Status(c) ==
    /\ Turn(c) /\ conn[c].st = "acting" /\ conn[c].op = "status"
    /\ mailbox' = Tail(mailbox)
    /\ Answer(c, IF grant[conn[c].rid] = "none" THEN "refused" ELSE grant[conn[c].rid])
    /\ UNCHANGED <<up, build, busy, open, minted, grant, claimedBy, effects>>
    /\ Calm

(* request_capability_for_principal_open: the supplied session is checked  *)
(* again in the same turn as the mint.                                     *)
RequestCapability(c) ==
    /\ Turn(c) /\ conn[c].st = "acting" /\ conn[c].op = "request"
    /\ mailbox' = Tail(mailbox)
    /\ IF conn[c].sid \notin open
       THEN Answer(c, "expired") /\ UNCHANGED grant
       ELSE \E d \in {"ready", "denied"} :
              grant' = [grant EXCEPT ![conn[c].rid] = d] /\ Answer(c, d)
    /\ UNCHANGED <<up, build, busy, open, minted, claimedBy, effects>>
    /\ Calm

(* Defect: the preflight is taken for the session gate. *)
MayClaim_TrustsPreflight(c) == grant[conn[c].rid] = "ready"

(* May the Execute of connection c claim its grant in this turn? *)
MayClaim(c) == conn[c].sid \in open /\ grant[conn[c].rid] = "ready"

(* execute_request_for_principal_attributed: the session gate, then the    *)
(* single-use claim, then the provider call inside the same turn.          *)
Execute(c) ==
    /\ Turn(c) /\ conn[c].st = "acting" /\ conn[c].op = "execute"
    /\ mailbox' = Tail(mailbox)
    /\ \/ /\ MayClaim(c)
          /\ grant' = [grant EXCEPT ![conn[c].rid] = "running"]
          /\ claimedBy' = [claimedBy EXCEPT ![conn[c].rid] = conn[c].run]
          /\ conn' = [conn EXCEPT ![c].st = "executing"]
          /\ busy' = c
       \/ /\ ~MayClaim(c)
          /\ Answer(c, IF conn[c].sid \notin open THEN "expired" ELSE "refused")
          /\ UNCHANGED <<grant, claimedBy, busy>>
    /\ UNCHANGED <<up, build, open, minted, effects>>
    /\ Calm

(* The provider has answered, or the attempt ended before it was invoked;  *)
(* either way the terminal row is written and the receipt goes back.       *)
FinishExecute(c) ==
    /\ up /\ busy = c
    /\ \E invoked \in {0, 1} :
        effects' = [effects EXCEPT ![conn[c].rid] = @ + invoked]
    /\ grant' = [grant EXCEPT ![conn[c].rid] = "done"]
    /\ busy' = NoConn
    /\ Answer(c, "receipt")
    /\ UNCHANGED <<up, build, mailbox, open, minted, claimedBy>>
    /\ Calm

(* A reply nobody waits for, and a connection dropped with no reader.      *)
Discard(c) ==
    /\ conn[c].st \in {"answered", "closed"} /\ conn[c].owner = NoThread
    /\ conn' = [conn EXCEPT ![c] = Idle]
    /\ UNCHANGED <<up, build, mailbox, busy, open, minted, grant, claimedBy, effects>>
    /\ Calm

(* The process dies: connections drop, queued commands are lost, and a     *)
(* provider call in flight may or may not have reached the provider.       *)
Crash ==
    /\ up /\ Mishap
    /\ up' = FALSE
    /\ conn' = [c \in Conns |-> IF conn[c].st \in {"free", "answered"} THEN conn[c]
                                ELSE [conn[c] EXCEPT !.st = "closed"]]
    /\ mailbox' = <<>> /\ busy' = NoConn
    /\ \E invoked \in IF busy = NoConn THEN {0} ELSE {0, 1} :
        effects' = [r \in Requests |->
                      effects[r] + IF busy # NoConn /\ conn[busy].rid = r THEN invoked ELSE 0]
    /\ UNCHANGED <<build, open, minted, grant, claimedBy>>

(* The boot passes settle the leases the crash orphaned.  Session rows     *)
(* survive; the binary may be another build's.                             *)
Restart ==
    /\ ~up /\ up' = TRUE
    /\ \/ build' = "same" /\ Calm
       \/ build = "same" /\ build' = "other" /\ Mishap
    /\ grant' = [r \in Requests |-> IF grant[r] = "running" THEN "abandoned" ELSE grant[r]]
    /\ UNCHANGED <<conn, mailbox, busy, open, minted, claimedBy, effects>>

ServeStep(c) == Post(c) \/ RefuseBuild(c) \/ Discard(c)
ActorStep(c) ==
    SessionOpen(c) \/ OpenSession(c) \/ SweepIdleSessions(c) \/ Status(c) \/ RequestCapability(c)
        \/ Execute(c) \/ FinishExecute(c)

DaemonInit ==
    /\ up = TRUE /\ build = "same"
    /\ conn = [c \in Conns |-> Idle]
    /\ mailbox = <<>> /\ busy = NoConn
    /\ open = {} /\ minted = {}
    /\ grant \in [Requests -> {"none", "ready"}]
    /\ claimedBy = [r \in Requests |-> NoRun]
    /\ effects = [r \in Requests |-> 0]
    /\ mishaps \in 0..MaxMishaps

DaemonTypeOK(Threads) ==
    /\ up \in BOOLEAN /\ build \in {"same", "other"}
    /\ conn \in [Conns -> [st : Stages, op : {"none", "hello", "status", "request", "execute"},
                           rid : Requests, sid : Sids \cup {NoSid},
                           owner : Threads \cup {NoThread}, run : Runs \cup {NoRun},
                           reply : Replies]]
    /\ mailbox \in Seq(Conns) /\ busy \in Conns \cup {NoConn}
    /\ open \subseteq minted /\ minted \subseteq Sids
    /\ grant \in [Requests -> Phases]
    /\ claimedBy \in [Requests -> Runs \cup {NoRun}]
    /\ effects \in [Requests -> Nat] /\ mishaps \in 0..MaxMishaps
=============================================================================
