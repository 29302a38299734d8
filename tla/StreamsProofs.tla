--------------------------- MODULE StreamsProofs ---------------------------
(***************************************************************************)
(* Proofs about the two streams an agent reaches the daemon by.  The       *)
(* inductive invariant of McpBridge over BrokerMailbox, and what it        *)
(* implies: one effect per request and a truthful `retryable', for every   *)
(* number of calls, runs, connections, timeouts, re-mints, sweeps, panics, *)
(* crashes and restarts.  And that of the git plane (Git): a fetch is      *)
(* served what the upstream held, and while at most two installs of the    *)
(* hook overlap a ref of the mirror lands only when the upstream took it.  *)
(***************************************************************************)
EXTENDS Streams, TLAPS

(* The places of a wire call, and those at which its frame is not out. *)
Before == {"session", "await", "hello", "helloReply", "publish", "release", "send"}
Wire == Before \cup {"reply"}

(* A call asks for a session, a status or a grant and never executes; a    *)
(* run only executes, once.  Without a frame out a thread holds no         *)
(* connection.                                                             *)
Wired(t) ==
    /\ t \in Calls /\ pc[t] \in Wire =>
         /\ call[t].op \in {"ensure", "status", "request"}
         /\ call[t].back \in {"requested", "ensured", "verbEnsured", "execGate",
                              "reconciled", "statusGot"}
    /\ t \in Runs =>
         /\ pc[t] \in Wire \cup {"unsent", "gate", "settle", "ended"}
         /\ pc[t] \in Wire => call[t].op = "execute" /\ call[t].back = "settle"
    /\ pc[t] \in {"send", "reply"} => call[t].op # "ensure"
    /\ pc[t] \in Before \ {"helloReply"} => call[t].conn = NoConn
WireOK == \A t \in Threads : Wired(t)

(* A thread that waits for a reply waits on the connection of its own      *)
(* frame, which nobody else takes, answers into or frees.                  *)
Owns(t) ==
    pc[t] \in {"helloReply", "reply"} =>
        /\ call[t].conn \in Conns /\ conn[call[t].conn].st # "free"
        /\ conn[call[t].conn].owner = t /\ conn[call[t].conn].rid = rid[t]
        /\ conn[call[t].conn].op = IF pc[t] = "reply" THEN call[t].op ELSE "hello"
        /\ conn[call[t].conn].run = IF t \in Runs THEN t ELSE NoRun
OwnOK == \A t \in Threads : Owns(t)

(* A run has at most one Execute in the daemon and a request at most one   *)
(* mint, the abandoned ones included.                                      *)
FrameOK ==
    /\ \A c \in Conns :
         /\ conn[c].st = "free" => conn[c].op = "none"
         /\ conn[c].st # "answered" => conn[c].reply = "none"
    /\ \A c \in Conns : conn[c].op = "execute" => conn[c].run \in Runs
    /\ \A c, d \in Conns :
         /\ conn[c].op = "execute" /\ conn[d].op = "execute" /\ conn[c].run = conn[d].run => c = d
         /\ conn[c].op = "request" /\ conn[d].op = "request" /\ conn[c].rid = conn[d].rid => c = d

(* The provider acted at most once, and on a request whose grant was       *)
(* claimed; the actor is inside the claim it made.                         *)
EffectOK ==
    /\ \A q \in Requests :
         effects[q] \in {0, 1} /\ (effects[q] = 1 => grant[q] \in {"running", "done", "abandoned"})
    /\ busy # NoConn =>
         /\ up /\ conn[busy].st = "executing"
         /\ grant[conn[busy].rid] = "running" /\ effects[conn[busy].rid] = 0

(* The frame still has its turn before it, or had one that did nothing. *)
Unspent(c) ==
    conn[c].st \in {"served", "preflight", "passed", "acting"} \/ conn[c].reply = "expired"

(* A grant is minted by one request of one call, so a mint never resets a  *)
(* grant that was claimed.                                                 *)
Asking(t) == pc[t] \in Before /\ call[t].op = "request"
Minting(t) == pc[t] \in Wire /\ call[t].op = "request"
MintOK ==
    /\ \A c \in Conns :
         conn[c].op = "request" =>
             /\ \E t \in Calls : pc[t] # "unsent" /\ rid[t] = conn[c].rid
             /\ Unspent(c) => grant[conn[c].rid] = "none"
    /\ \A t \in Calls :
         Asking(t) =>
             /\ grant[rid[t]] = "none"
             /\ \A c \in Conns : conn[c].op = "request" => conn[c].rid # rid[t]
    /\ \A t, u \in Calls : Minting(t) /\ Minting(u) /\ rid[t] = rid[u] => t = u

(* No Execute of the run is in the daemon and none claimed anything. *)
Untried(r) ==
    /\ \A c \in Conns : conn[c].op = "execute" => conn[c].run # r
    /\ \A q \in Requests : claimedBy[q] # r

(* A run that has not sent its frame, or was told that its session had     *)
(* expired or that no daemon answered, has claimed nothing.                *)
Fresh(r) ==
    \/ pc[r] \in {"unsent", "gate"} \cup Before
    \/ pc[r] = "settle" /\ call[r].res = "connect"
    \/ rec[r] = "retryable"
RunOK ==
    /\ \A r \in Runs :
         /\ Fresh(r) => Untried(r)
         /\ rec[r] = "retryable" => pc[r] = "ended"
    /\ \A c \in Conns :
         conn[c].op = "execute" /\ Unspent(c) => \A q \in Requests : claimedBy[q] # conn[c].run

BridgeInv == TypeOK /\ WireOK /\ OwnOK /\ FrameOK /\ EffectOK /\ MintOK /\ RunOK


(* The type invariant in parts. *)
WireCalls == [op : {"none", "ensure", "status", "request", "execute"},
              back : Places \cup {"none"}, sid : Sids \cup {NoSid},
              stale : Sids \cup {NoSid}, again : BOOLEAN, seen : Nat,
              conn : Conns \cup {NoConn}, res : Replies \cup {"transport", "connect"}]
Frames == [st : Stages, op : {"none", "hello", "status", "request", "execute"},
           rid : Requests, sid : Sids \cup {NoSid},
           owner : Threads \cup {NoThread}, run : Runs \cup {NoRun}, reply : Replies]
ThreadType == pc \in [Threads -> Places] /\ rid \in [Threads -> Requests]
CallType == call \in [Threads -> WireCalls]
ConnType == conn \in [Conns -> Frames]
StoreType ==
    /\ rec \in [Runs -> {"none", "running"} \cup Settled]
    /\ grant \in [Requests -> Phases] /\ claimedBy \in [Requests -> Runs \cup {NoRun}]
    /\ effects \in [Requests -> Nat] /\ busy \in Conns \cup {NoConn}
RestType ==
    /\ up \in BOOLEAN /\ build \in {"same", "other"}
    /\ mailbox \in Seq(Conns)
    /\ open \subseteq minted /\ minted \subseteq Sids
    /\ mishaps \in 0..MaxMishaps
    /\ sess \in Sids \cup {NoSid} /\ refresh \in Threads \cup {NoThread}
    /\ attempts \in Nat
    /\ runs \in [Requests -> Runs \cup {NoRun}]
    /\ phase \in {"running", "draining", "drain", "refusing", "flushing", "stopped"}
    /\ runPhase \in {"running", "refusing"}
    /\ sink \in {"active", "failed", "closed"} /\ queue \in Seq(Calls)
Typing == ThreadType /\ CallType /\ ConnType /\ StoreType

(* The parts of the type invariant that the lemmas below take one at a     *)
(* time.                                                                   *)
LEMMA TypingFacts == TypeOK <=> Typing /\ RestType
BY DEF TypeOK, DaemonTypeOK, Typing, ThreadType, CallType, ConnType, StoreType, RestType,
   WireCalls, Frames

(* The updates the actions make to a wire call and to a frame. *)
LEMMA CallRecords ==
    ASSUME NEW k \in WireCalls, NEW s \in Sids \cup {NoSid}, NEW c \in Conns \cup {NoConn},
           NEW n \in Nat, NEW x \in Replies \cup {"transport", "connect"}
    PROVE  /\ [k EXCEPT !.sid = s] \in WireCalls
           /\ [k EXCEPT !.seen = n] \in WireCalls
           /\ [k EXCEPT !.res = x] \in WireCalls
           /\ [k EXCEPT !.conn = c] \in WireCalls
           /\ [k EXCEPT !.res = x, !.conn = c] \in WireCalls
           /\ [k EXCEPT !.res = x, !.conn = c, !.sid = s] \in WireCalls
<1>1. [k EXCEPT !.sid = s] \in WireCalls /\ [k EXCEPT !.seen = n] \in WireCalls
  BY DEF WireCalls
<1>2. [k EXCEPT !.res = x] \in WireCalls /\ [k EXCEPT !.conn = c] \in WireCalls
  BY DEF WireCalls
<1>3. [k EXCEPT !.res = x, !.conn = c] \in WireCalls
  BY DEF WireCalls
<1>4. [k EXCEPT !.res = x, !.conn = c, !.sid = s] \in WireCalls
  BY DEF WireCalls
<1>5. QED
  BY <1>1, <1>2, <1>3, <1>4

(* The replay of a call whose session expired keeps the type of a wire     *)
(* call.                                                                   *)
LEMMA AgainRecord ==
    ASSUME NEW k \in WireCalls, NEW s \in Sids \cup {NoSid}, NEW b \in BOOLEAN,
           NEW c \in Conns \cup {NoConn}
    PROVE  [k EXCEPT !.stale = s, !.again = b, !.conn = c] \in WireCalls
BY DEF WireCalls

(* An update of one wire call keeps the type of the calls. *)
LEMMA CallSet ==
    ASSUME CallType, NEW t \in Threads, NEW k \in WireCalls, call' = [call EXCEPT ![t] = k]
    PROVE  CallType'
BY DEF CallType

(* A fresh wire call has its type. *)
LEMMA WireCallType ==
    ASSUME MailboxAssumption, NEW op \in {"none", "ensure", "status", "request", "execute"},
           NEW back \in Places \cup {"none"}, NEW x \in Replies \cup {"transport", "connect"}
    PROVE  WireCall(op, back, x) \in WireCalls
BY DEF WireCall, WireCalls

(* Beginning a wire call keeps the type of the calls. *)
LEMMA BeginType ==
    ASSUME MailboxAssumption, CallType, NEW t \in Threads,
           NEW op \in {"none", "ensure", "status", "request", "execute"},
           NEW back \in Places \cup {"none"}, Begin(t, op, back)
    PROVE  CallType'
<1>1. WireCall(op, back, "none") \in WireCalls
  BY WireCallType DEF Replies, Phases
<1>2. QED
  BY <1>1, CallSet DEF Begin

(* Returning from a wire call keeps the type of the calls. *)
LEMMA ReturnType ==
    ASSUME MailboxAssumption, CallType, NEW t \in Threads,
           NEW x \in Replies \cup {"transport", "connect"}, Return(t, x)
    PROVE  CallType'
<1>1. WireCall("none", "none", x) \in WireCalls
  BY WireCallType
<1>2. QED
  BY <1>1, CallSet DEF Return

(* An update of one frame keeps the type of the connections. *)
LEMMA FrameSet ==
    ASSUME ConnType, NEW c \in Conns, NEW f \in Frames, conn' = [conn EXCEPT ![c] = f]
    PROVE  ConnType'
BY DEF ConnType

(* A frame that moves to another stage is a frame. *)
LEMMA StageRecord ==
    ASSUME NEW f \in Frames, NEW s \in Stages PROVE [f EXCEPT !.st = s] \in Frames
BY DEF Frames

(* Moving one frame to another stage keeps the type of the connections. *)
LEMMA StageSet ==
    ASSUME ConnType, NEW c \in Conns, NEW s \in Stages,
           conn' = [conn EXCEPT ![c] = [conn[c] EXCEPT !.st = s]]
    PROVE  ConnType'
<1>1. conn[c] \in Frames
  BY DEF ConnType
<1>2. [conn[c] EXCEPT !.st = s] \in Frames
  BY <1>1, StageRecord
<1>3. QED
  BY <1>2, FrameSet

(* Abandoning one connection keeps the type of the connections. *)
LEMMA OwnerSet ==
    ASSUME ConnType, NEW c \in Conns,
           conn' = [conn EXCEPT ![c] = [conn[c] EXCEPT !.owner = NoThread]]
    PROVE  ConnType'
<1>1. conn[c] \in Frames
  BY DEF ConnType
<1>2. [conn[c] EXCEPT !.owner = NoThread] \in Frames
  BY <1>1 DEF Frames
<1>3. QED
  BY <1>2, FrameSet

(* Answering one frame keeps the type of the connections. *)
LEMMA AnswerSet ==
    ASSUME ConnType, NEW c \in Conns, NEW x \in Replies,
           conn' = [conn EXCEPT ![c] = [conn[c] EXCEPT !.st = "answered", !.reply = x]]
    PROVE  ConnType'
<1>1. conn[c] \in Frames
  BY DEF ConnType
<1>2. [conn[c] EXCEPT !.st = "answered", !.reply = x] \in Frames
  BY <1>1 DEF Frames, Stages
<1>3. QED
  BY <1>2, FrameSet

(* Opening a session for one frame keeps the type of the connections. *)
LEMMA OpenedSet ==
    ASSUME ConnType, NEW c \in Conns, NEW s \in Sids,
           conn' = [conn EXCEPT ![c] = [conn[c] EXCEPT !.st = "opened", !.sid = s]]
    PROVE  ConnType'
<1>1. conn[c] \in Frames
  BY DEF ConnType
<1>2. [conn[c] EXCEPT !.st = "opened", !.sid = s] \in Frames
  BY <1>1 DEF Frames, Stages
<1>3. QED
  BY <1>2, FrameSet

(* An idle connection is a frame. *)
LEMMA IdleFrame == ASSUME MailboxAssumption PROVE Idle \in Frames
BY DEF Idle, Frames, MailboxAssumption, Stages, Replies, Phases

(* The registry of runs keeps its type when one entry is set. *)
LEMMA MapSet ==
    ASSUME NEW f \in [Requests -> Runs \cup {NoRun}], NEW q \in Requests,
           NEW r \in Runs \cup {NoRun}
    PROVE  [f EXCEPT ![q] = r] \in [Requests -> Runs \cup {NoRun}]
OBVIOUS

(* The reply queue keeps its type when a reply is added. *)
LEMMA QueueSet == ASSUME NEW s \in Seq(Calls), NEW c \in Calls PROVE Append(s, c) \in Seq(Calls)
OBVIOUS

(* The three ways a line is dispatched, and the busy refusal. *)
LEMMA DispatchFacts ==
    ASSUME BridgeAssumption, NEW c \in Calls, Dispatch(c)
    PROVE  \E r \in Requests :
             /\ pc[c] = "unsent" /\ rid' = [rid EXCEPT ![c] = r]
             /\ \/ Go(c, "session") /\ Begin(c, "ensure", "ensured")
                \/ Go(c, "waitStatus") /\ Begin(c, "none", "none")
                \/ /\ Go(c, "session") /\ Begin(c, "request", "requested")
                   /\ grant[r] = "none"
                   /\ \A d \in Calls : pc[d] # "unsent" => rid[d] # r
                \/ Go(c, "refused") /\ UNCHANGED call
<1>1. PICK k \in Tools, r \in Requests :
        /\ Names(k, r) /\ rid' = [rid EXCEPT ![c] = r]
        /\ IF Cardinality(InFlight) < WorkerCap
           THEN Go(c, Entry(k)[1]) /\ Begin(c, Entry(k)[2], Entry(k)[3])
           ELSE Go(c, "refused") /\ UNCHANGED call
  BY DEF Dispatch
<1>2. pc[c] = "unsent"
  BY DEF Dispatch
<1>3. k \in {"execute", "status", "verb"}
  BY BridgeAssumption DEF BridgeAssumption
<1>4. CASE k = "execute"
  <2>1. Entry(k)[1] = "session" /\ Entry(k)[2] = "ensure" /\ Entry(k)[3] = "ensured"
    BY <1>4 DEF Entry
  <2>2. QED
    BY <1>1, <1>2, <2>1 DEF Go, Begin
<1>5. CASE k = "status"
  <2>1. Entry(k)[1] = "waitStatus" /\ Entry(k)[2] = "none" /\ Entry(k)[3] = "none"
    BY <1>5 DEF Entry
  <2>2. QED
    BY <1>1, <1>2, <2>1 DEF Go, Begin
<1>6. CASE k = "verb"
  <2>1. Entry(k)[1] = "session" /\ Entry(k)[2] = "request" /\ Entry(k)[3] = "requested"
    BY <1>6 DEF Entry
  <2>2. grant[r] = "none" /\ \A d \in Calls : pc[d] # "unsent" => rid[d] # r
    BY <1>1, <1>6 DEF Names
  <2>3. QED
    BY <1>1, <1>2, <2>1, <2>2 DEF Go, Begin
<1>7. QED
  BY <1>3, <1>4, <1>5, <1>6

(* What the actor's turns that look at a session or a grant can do. *)
Keeps == UNCHANGED <<up, busy, grant, claimedBy, effects>>
Passes(n) ==
    /\ conn[n].st = "preflight" /\ conn' = [conn EXCEPT ![n].st = "passed"]
    /\ Keeps
Refuses(n, x) ==
    /\ conn[n].st \in {"preflight", "acting"} /\ x # "none"
    /\ conn' = [conn EXCEPT ![n] = [@ EXCEPT !.st = "answered", !.reply = x]]
    /\ Keeps
Mints(n, d) ==
    /\ busy = NoConn /\ conn[n].st = "acting" /\ conn[n].op = "request"
    /\ conn' = [conn EXCEPT ![n] = [@ EXCEPT !.st = "answered", !.reply = d]]
    /\ grant' = [grant EXCEPT ![conn[n].rid] = d]
    /\ UNCHANGED <<up, busy, claimedBy, effects>>
Claims(n) ==
    /\ up /\ busy = NoConn /\ conn[n].st = "acting" /\ conn[n].op = "execute"
    /\ conn[n].sid \in open /\ grant[conn[n].rid] = "ready"
    /\ conn' = [conn EXCEPT ![n].st = "executing"]
    /\ grant' = [grant EXCEPT ![conn[n].rid] = "running"]
    /\ claimedBy' = [claimedBy EXCEPT ![conn[n].rid] = conn[n].run]
    /\ busy' = n
    /\ UNCHANGED <<up, effects>>

(* A turn of the broker thread refuses its frame, mints for it, lets it    *)
(* pass or claims its grant.                                               *)
LEMMA TurnFacts ==
    ASSUME NEW n \in Conns, SessionOpen(n) \/ RequestCapability(n) \/ Execute(n)
    PROVE  \/ Passes(n) \/ Claims(n)
           \/ \E x \in {"expired", "refused"} : Refuses(n, x)
           \/ \E d \in {"ready", "denied"} : Mints(n, d)
<1>1. CASE SessionOpen(n)
  <2>1. CASE conn[n].sid \in open
    BY <1>1, <2>1 DEF SessionOpen, Passes, Keeps
  <2>2. CASE conn[n].sid \notin open
    <3>1. Refuses(n, "expired")
      BY <1>1, <2>2 DEF SessionOpen, Answer, Refuses, Keeps
    <3>2. QED
      BY <3>1
  <2>3. QED
    BY <2>1, <2>2
<1>2. CASE RequestCapability(n)
  <2>1. CASE conn[n].sid \in open
    <3>1. PICK d \in {"ready", "denied"} :
            grant' = [grant EXCEPT ![conn[n].rid] = d] /\ Answer(n, d)
      BY <1>2, <2>1 DEF RequestCapability
    <3>2. Mints(n, d)
      BY <1>2, <3>1 DEF RequestCapability, Turn, Answer, Mints
    <3>3. QED
      BY <3>2
  <2>2. CASE conn[n].sid \notin open
    <3>1. Refuses(n, "expired")
      BY <1>2, <2>2 DEF RequestCapability, Answer, Refuses, Keeps
    <3>2. QED
      BY <3>1
  <2>3. QED
    BY <2>1, <2>2
<1>3. CASE Execute(n)
  <2>1. CASE MayClaim(n)
    BY <1>3, <2>1 DEF Execute, Turn, MayClaim, Claims
  <2>2. CASE ~MayClaim(n) /\ conn[n].sid \in open
    <3>1. Refuses(n, "refused")
      BY <1>3, <2>2 DEF Execute, Answer, Refuses, Keeps
    <3>2. QED
      BY <3>1
  <2>3. CASE conn[n].sid \notin open
    <3>1. Refuses(n, "expired")
      BY <1>3, <2>3 DEF Execute, MayClaim, Answer, Refuses, Keeps
    <3>2. QED
      BY <3>1
  <2>4. QED
    BY <2>1, <2>2, <2>3 DEF MayClaim
<1>4. QED
  BY <1>1, <1>2, <1>3

(* Steps that start no mint and give no frame a new turn. *)
LEMMA MintKept ==
    ASSUME MintOK, grant' = grant,
           \A c \in Conns : /\ conn'[c].op = conn[c].op /\ conn'[c].rid = conn[c].rid
                            /\ Unspent(c)' => Unspent(c),
           \A t \in Calls : /\ rid'[t] = rid[t] /\ (pc[t] # "unsent" => pc'[t] # "unsent")
                            /\ Asking(t)' => Asking(t)
                            /\ Minting(t)' => Minting(t)
    PROVE  MintOK'
BY DEF MintOK

(* Steps that send no Execute and claim nothing. *)
LEMMA RunKept ==
    ASSUME RunOK, claimedBy' = claimedBy,
           \A c \in Conns : /\ conn'[c].op = conn[c].op /\ conn'[c].run = conn[c].run
                            /\ Unspent(c)' => Unspent(c),
           \A r \in Runs : /\ Fresh(r)' => Fresh(r)
                           /\ (rec[r] = "retryable" => pc[r] = "ended")'
    PROVE  RunOK'
BY DEF RunOK, Untried

(* A reply frees the thread's own connection and ends its wire call, or,   *)
(* once, sends it round again for a session.                               *)
Reads(t) ==
    /\ call[t].conn \in Conns
    /\ conn[call[t].conn].st \in {"answered", "closed"}
    /\ \A c \in Conns : c # call[t].conn => conn'[c] = conn[c]
    /\ conn'[call[t].conn].op = "none" /\ conn'[call[t].conn].reply = "none"
    /\ conn'[call[t].conn].st = "free"
    /\ UNCHANGED <<up, busy, grant, claimedBy, effects, rid, rec>>
    /\ \A u \in Threads \ {t} : pc'[u] = pc[u] /\ call'[u] = call[u]
    /\ \/ pc[t] = "helloReply" /\ pc'[t] = "publish" /\ call'[t].op = call[t].op
       \/ /\ pc[t] = "reply" /\ conn[call[t].conn].reply = "expired"
          /\ pc'[t] = "session" /\ call'[t].op = call[t].op
       \/ /\ pc[t] = "reply" /\ pc'[t] = call[t].back
          /\ call'[t].op = "none" /\ call'[t].res # "connect"

(* What a thread may do with the reply it reads. *)
LEMMA ReadFacts ==
    ASSUME MailboxAssumption, BridgeAssumption, BridgeInv, NEW t \in Threads, ReadReply(t)
    PROVE  Reads(t)
<1> USE DEF Reads
<1>0. Typing
  BY TypingFacts, SMTT(60) DEF BridgeInv
<1> USE DEF ThreadType, CallType, ConnType, StoreType, WireCalls, Frames
<1>1. call[t].conn \in Conns /\ pc[t] \in {"helloReply", "reply"}
  BY DEF BridgeInv, OwnOK, Owns, ReadReply
<1>2. /\ conn[call[t].conn].st \in {"answered", "closed"}
      /\ conn' = [conn EXCEPT ![call[t].conn] = Idle]
      /\ UNCHANGED <<up, busy, grant, claimedBy, effects, rid, rec>>
  BY DEF ReadReply, registry
<1>3. /\ \A c \in Conns : c # call[t].conn => conn'[c] = conn[c]
      /\ conn'[call[t].conn].op = "none" /\ conn'[call[t].conn].reply = "none"
      /\ conn'[call[t].conn].st = "free"
  BY <1>0, <1>1, <1>2 DEF Typing, Idle
<1>4. \A u \in Threads \ {t} : pc'[u] = pc[u] /\ call'[u] = call[u]
  BY <1>0 DEF Typing, ReadReply, Go, Return
<1>5. CASE pc[t] = "helloReply"
  <2>1. pc'[t] = "publish" /\ call'[t].op = call[t].op
    BY <1>0, <1>5 DEF Typing, ReadReply, Go
  <2>2. QED
    BY <1>1, <1>2, <1>3, <1>4, <1>5, <2>1
<1>6. CASE pc[t] = "reply"
  <2> DEFINE c == call[t].conn
             reply == IF conn[c].st = "closed" THEN "transport" ELSE conn[c].reply
  <2>1. reply # "connect"
    BY <1>0, <1>1, SMTT(60) DEF Typing, Replies, Phases
  <2>2. CASE reply = "expired" /\ ~call[t].again
    <3>1. conn[c].reply = "expired"
      BY <2>2
    <3>2. pc'[t] = "session" /\ call'[t].op = call[t].op
      BY <1>0, <1>6, <2>2 DEF Typing, ReadReply, Go
    <3>3. QED
      BY <1>1, <1>2, <1>3, <1>4, <1>6, <3>1, <3>2
  <2>3. CASE reply # "expired" \/ call[t].again
    <3>1. Return(t, IF reply = "expired" THEN "refused" ELSE reply)
      BY <1>6, <2>3 DEF ReadReply
    <3>2. pc'[t] = call[t].back /\ call'[t].op = "none" /\ call'[t].res # "connect"
      BY <1>0, <2>1, <3>1 DEF Typing, Return, WireCall
    <3>3. QED
      BY <1>1, <1>2, <1>3, <1>4, <1>6, <3>2
  <2>4. QED
    BY <2>2, <2>3
<1>7. QED
  BY <1>1, <1>5, <1>6

(* Threads only go to their places. *)
LEMMA ThreadTypePreserved ==
    ASSUME MailboxAssumption, BridgeAssumption, BridgeInv, [Next]_vars
    PROVE  ThreadType'
<1>0. ThreadType
  BY TypingFacts DEF BridgeInv, Typing
<1> USE <1>0 DEF BridgeAssumption, MailboxAssumption, BridgeInv, ThreadType, daemon,
   cache, registry, output, bridge, Threads, WireCall, NoCall, Go, Before, Wire, WireOK,
   Wired, OwnOK, Owns, Places
<1>1. CASE WriteLine \/ ShutdownStep
  BY <1>1 DEF WriteLine, ShutdownStep
<1>2. CASE (Crash \/ Restart \/ OtherSweep) /\ UNCHANGED bridge
  BY <1>2
<1>3. ASSUME NEW n \in Conns, Post(n) \/ RefuseBuild(n) \/ Discard(n) \/ OpenSession(n) \/
             SweepIdleSessions(n) \/ Status(n) \/ Passes(n) \/ Claims(n) \/
             FinishExecute(n), UNCHANGED bridge PROVE ThreadType'
  BY <1>3
<1>4. ASSUME NEW t \in Threads, TakeSession(t) PROVE ThreadType'
  BY <1>4 DEF TakeSession, Usable, Return
<1>5. ASSUME NEW t \in Threads, WakeWaiter(t) PROVE ThreadType'
  BY <1>5 DEF WakeWaiter, Return
<1>6. ASSUME NEW t \in Threads, WaiterTimesOut(t) PROVE ThreadType'
  BY <1>6 DEF WaiterTimesOut, Return
<1>7. ASSUME NEW t \in Threads, Publish(t) PROVE ThreadType'
  BY <1>7 DEF Publish
<1>8. ASSUME NEW t \in Threads, Release(t) PROVE ThreadType'
  BY <1>8 DEF Release, Return
<1>9. ASSUME NEW t \in Threads, Connect(t) PROVE ThreadType'
  BY <1>9 DEF Connect, Dial
<1>10. ASSUME NEW t \in Threads, ConnectFails(t) PROVE ThreadType'
  BY <1>10, SMTT(60) DEF ConnectFails, Return
<1>11. ASSUME NEW t \in Threads, ReadReply(t) PROVE ThreadType'
  BY <1>11, SMTT(60) DEF ReadReply, Return, Idle
<1>12. ASSUME NEW t \in Threads, ReadTimesOut(t) PROVE ThreadType'
  BY <1>12 DEF ReadTimesOut, Return
<1>13. ASSUME NEW t \in Threads, Panic(t) PROVE ThreadType'
  BY <1>13 DEF Panic
<1>14. ASSUME NEW c \in Calls, Dispatch(c) PROVE ThreadType'
  BY <1>14, DispatchFacts
<1>15. ASSUME NEW c \in Calls, Requested(c) PROVE ThreadType'
  BY <1>15 DEF Requested, Begin
<1>16. ASSUME NEW c \in Calls, Ensured(c) PROVE ThreadType'
  BY <1>16 DEF Ensured, Begin
<1>17. ASSUME NEW c \in Calls, ExecGate(c) PROVE ThreadType'
  BY <1>17 DEF ExecGate, Begin
<1>18. ASSUME NEW c \in Calls, Reconciled(c) PROVE ThreadType'
  BY <1>18 DEF Reconciled
<1>19. ASSUME NEW c \in Calls, Start(c) PROVE ThreadType'
  BY <1>19 DEF Start
<1>20. ASSUME NEW c \in Calls, WaitRun(c) PROVE ThreadType'
  BY <1>20 DEF WaitRun
<1>21. ASSUME NEW c \in Calls, WaitStatus(c) PROVE ThreadType'
  BY <1>21 DEF WaitStatus, Begin
<1>22. ASSUME NEW c \in Calls, StatusGot(c) PROVE ThreadType'
  BY <1>22 DEF StatusGot, Begin
<1>23. ASSUME NEW c \in Calls, WriteResponse(c) PROVE ThreadType'
  BY <1>23 DEF WriteResponse, Writing
<1>24. ASSUME NEW c \in Calls, StallOut(c) PROVE ThreadType'
  BY <1>24 DEF StallOut, Writing
<1>25. ASSUME NEW r \in Runs, RunGate(r) PROVE ThreadType'
  BY <1>25 DEF RunGate, Begin
<1>26. ASSUME NEW r \in Runs, Complete(r) PROVE ThreadType'
  BY <1>26 DEF Complete, ClassifyRun
<1>27. CASE Exit
  BY <1>27 DEF Exit
<1>28. ASSUME NEW n \in Conns, NEW x \in {"expired", "refused"}, Refuses(n, x), UNCHANGED
              bridge PROVE ThreadType'
  BY <1>28
<1>29. ASSUME NEW n \in Conns, NEW d \in {"ready", "denied"}, Mints(n, d), UNCHANGED
              bridge PROVE ThreadType'
  BY <1>29
<1>30. CASE UNCHANGED vars
  BY <1>30 DEF vars
<1> HIDE DEF BridgeInv, ThreadType, WireOK, Wired, OwnOK, Owns, Places
<1>31. QED
  BY <1>1, <1>2, <1>3, <1>4, <1>5, <1>6, <1>7, <1>8, <1>9, <1>10, <1>11, <1>12, <1>13,
     <1>14, <1>15, <1>16, <1>17, <1>18, <1>19, <1>20, <1>21, <1>22, <1>23, <1>24, <1>25,
     <1>26, <1>27, <1>28, <1>29, <1>30, TurnFacts DEF Next, CallStep, RunStep, WireStep,
     DaemonStep, ServeStep, ActorStep, Outage

(* A wire call keeps its shape, whatever it meets. *)
LEMMA CallTypePreserved ==
    ASSUME MailboxAssumption, BridgeAssumption, BridgeInv, [Next]_vars
    PROVE  CallType'
<1>0. ThreadType /\ CallType /\ ConnType
  BY TypingFacts DEF BridgeInv, Typing
<1> USE <1>0 DEF BridgeAssumption, MailboxAssumption, BridgeInv, ThreadType, CallType,
   ConnType, daemon, cache, registry, output, bridge, Threads, WireCall, NoCall, Go,
   Before, Wire, WireOK, Wired, Places
<1>1. ASSUME NEW t \in Threads, Publish(t) PROVE CallType'
  BY <1>1 DEF Publish
<1>2. ASSUME NEW c \in Calls, Reconciled(c) \/ Start(c) \/ WaitRun(c) \/ WriteResponse(c)
             \/ StallOut(c) PROVE CallType'
  BY <1>2 DEF Reconciled, Start, WaitRun, WriteResponse, StallOut
<1>3. ASSUME NEW r \in Runs, Complete(r) PROVE CallType'
  BY <1>3 DEF Complete, ClassifyRun
<1>4. CASE WriteLine \/ ShutdownStep \/ Exit
  BY <1>4 DEF WriteLine, ShutdownStep, Exit
<1>5. CASE (Crash \/ Restart \/ OtherSweep) /\ UNCHANGED bridge
  BY <1>5
<1>6. ASSUME NEW n \in Conns, Post(n) \/ RefuseBuild(n) \/ Discard(n) \/ OpenSession(n) \/
             SweepIdleSessions(n) \/ Status(n) \/ Passes(n) \/ Claims(n) \/
             FinishExecute(n), UNCHANGED bridge PROVE CallType'
  BY <1>6
<1>7. ASSUME NEW t \in Threads, TakeSession(t) PROVE CallType'
  <2>1. CASE Usable(t) /\ call[t].op = "ensure"
    BY <1>7, <2>1, ReturnType DEF TakeSession, Replies
  <2>2. CASE Usable(t) /\ call[t].op # "ensure"
    <3>0. sess \in Sids \cup {NoSid}
      BY TypingFacts DEF RestType
    <3>1. call' = [call EXCEPT ![t] = [call[t] EXCEPT !.sid = sess]]
      BY <1>7, <2>2 DEF TakeSession
    <3>2. [call[t] EXCEPT !.sid = sess] \in WireCalls
      BY <3>0, CallRecords, Zenon DEF Replies, Phases
    <3>3. QED
      BY <3>1, <3>2, CallSet
  <2>3. CASE ~Usable(t) /\ refresh # NoThread
    <3>0. attempts \in Nat
      BY TypingFacts DEF RestType
    <3>1. call' = [call EXCEPT ![t] = [call[t] EXCEPT !.seen = attempts]]
      BY <1>7, <2>3 DEF TakeSession
    <3>2. [call[t] EXCEPT !.seen = attempts] \in WireCalls
      BY <3>0, CallRecords, Zenon DEF Replies, Phases
    <3>3. QED
      BY <3>1, <3>2, CallSet
  <2>4. CASE ~Usable(t) /\ refresh = NoThread
    BY <1>7, <2>4 DEF TakeSession
  <2>5. QED
    BY <1>7, <2>1, <2>2, <2>3, <2>4 DEF TakeSession
<1>8. ASSUME NEW t \in Threads, WakeWaiter(t) PROVE CallType'
  BY <1>8, ReturnType DEF WakeWaiter
<1>9. ASSUME NEW t \in Threads, WaiterTimesOut(t) PROVE CallType'
  BY <1>9, ReturnType DEF WaiterTimesOut
<1>10. ASSUME NEW t \in Threads, Release(t) PROVE CallType'
  <2>1. CASE call[t].res = "session" /\ call[t].op # "ensure"
    <3>1. call' = [call EXCEPT ![t] = [call[t] EXCEPT !.res = "none"]]
      BY <1>10, <2>1 DEF Release
    <3>2. [call[t] EXCEPT !.res = "none"] \in WireCalls
      BY CallRecords, Zenon DEF Replies, Phases
    <3>3. QED
      BY <3>1, <3>2, CallSet
  <2>2. CASE call[t].res = "session" /\ call[t].op = "ensure"
    BY <1>10, <2>2, ReturnType DEF Release, Replies, Phases
  <2>3. CASE call[t].res # "session"
    <3>1. Return(t, call[t].res) /\ call[t].res \in Replies \cup {"transport", "connect"}
      BY <1>10, <2>3 DEF Release, WireCalls
    <3>2. QED
      BY <3>1, ReturnType
  <2>4. QED
    BY <1>10, <2>1, <2>2, <2>3 DEF Release
<1>11. ASSUME NEW t \in Threads, Connect(t) PROVE CallType'
  <2>1. PICK c \in Conns : call' = [call EXCEPT ![t] = [call[t] EXCEPT !.conn = c]]
    BY <1>11 DEF Connect
  <2>2. [call[t] EXCEPT !.conn = c] \in WireCalls
    BY CallRecords, Zenon DEF Replies
  <2>3. QED
    BY <2>1, <2>2, CallSet
<1>12. ASSUME NEW t \in Threads, ConnectFails(t) PROVE CallType'
  <2>1. CASE pc[t] = "hello"
    <3>1. call' = [call EXCEPT ![t] = [call[t] EXCEPT !.res = "connect"]]
      BY <1>12, <2>1 DEF ConnectFails
    <3>2. [call[t] EXCEPT !.res = "connect"] \in WireCalls
      BY CallRecords, ZenonT(60) DEF Replies, Phases
    <3>3. QED
      BY <3>1, <3>2, CallSet
  <2>2. CASE pc[t] = "send"
    BY <1>12, <2>2, ReturnType, SMTT(60) DEF ConnectFails, Replies, Phases
  <2>3. QED
    BY <1>12, <2>1, <2>2 DEF ConnectFails
<1>13. ASSUME NEW t \in Threads, ReadReply(t) PROVE CallType'
  <2> DEFINE c == call[t].conn
             reply == IF conn[c].st = "closed" THEN "transport" ELSE conn[c].reply
  <2>1. c \in Conns /\ conn[c].sid \in Sids \cup {NoSid} /\ call[t].sid \in Sids \cup {NoSid}
    BY <1>13 DEF ReadReply, OwnOK, Owns, Frames, WireCalls
  <2>2. reply \in Replies \cup {"transport", "connect"}
    BY <2>1 DEF Frames
  <2>3. CASE pc[t] = "helloReply"
    <3>1. call' = [call EXCEPT ![t] =
                     [call[t] EXCEPT !.res = reply, !.conn = NoConn, !.sid = conn[c].sid]]
      BY <1>13, <2>3, ZenonT(60) DEF ReadReply
    <3>2. [call[t] EXCEPT !.res = reply, !.conn = NoConn, !.sid = conn[c].sid] \in WireCalls
      BY <2>1, <2>2, CallRecords, ZenonT(60)
    <3>3. QED
      BY <3>1, <3>2, CallSet
  <2>4. CASE pc[t] = "reply" /\ reply = "expired" /\ ~call[t].again
    <3>1. call' = [call EXCEPT ![t] =
                     [call[t] EXCEPT !.stale = call[t].sid, !.again = TRUE, !.conn = NoConn]]
      BY <1>13, <2>4, ZenonT(60) DEF ReadReply
    <3>2. [call[t] EXCEPT !.stale = call[t].sid, !.again = TRUE, !.conn = NoConn] \in WireCalls
      BY <2>1, AgainRecord, Zenon
    <3>3. QED
      BY <3>1, <3>2, CallSet
  <2>5. CASE pc[t] = "reply" /\ (reply # "expired" \/ call[t].again)
    <3>1. Return(t, IF reply = "expired" THEN "refused" ELSE reply)
      BY <1>13, <2>5 DEF ReadReply
    <3>2. (IF reply = "expired" THEN "refused" ELSE reply) \in Replies \cup {"transport", "connect"}
      BY <2>2 DEF Replies
    <3>3. QED
      BY <3>1, <3>2, ReturnType, SMTT(60)
  <2>6. QED
    BY <1>13, <2>3, <2>4, <2>5, SMTT(60) DEF ReadReply
<1>14. ASSUME NEW t \in Threads, ReadTimesOut(t) PROVE CallType'
  <2>1. CASE pc[t] = "helloReply"
    <3>1. call' = [call EXCEPT ![t] = [call[t] EXCEPT !.res = "transport", !.conn = NoConn]]
      BY <1>14, <2>1 DEF ReadTimesOut
    <3>2. [call[t] EXCEPT !.res = "transport", !.conn = NoConn] \in WireCalls
      BY CallRecords, Zenon DEF Replies, Phases
    <3>3. QED
      BY <3>1, <3>2, CallSet
  <2>2. CASE pc[t] = "reply"
    BY <1>14, <2>2, ReturnType DEF ReadTimesOut, Replies, Phases
  <2>3. QED
    BY <1>14, <2>1, <2>2 DEF ReadTimesOut
<1>15. ASSUME NEW t \in Threads, Panic(t) PROVE CallType'
  <2>1. NoCall \in WireCalls
    BY WireCallType, Zenon DEF NoCall, Replies, Phases
  <2>2. QED
    BY <1>15, <2>1, CallSet DEF Panic
<1>16. ASSUME NEW c \in Calls, Dispatch(c) PROVE CallType'
  BY <1>16, BeginType, DispatchFacts
<1>17. ASSUME NEW c \in Calls, Requested(c) PROVE CallType'
  BY <1>17, BeginType DEF Requested
<1>18. ASSUME NEW c \in Calls, Ensured(c) PROVE CallType'
  BY <1>18, BeginType DEF Ensured
<1>19. ASSUME NEW c \in Calls, ExecGate(c) PROVE CallType'
  BY <1>19, BeginType DEF ExecGate
<1>20. ASSUME NEW c \in Calls, WaitStatus(c) PROVE CallType'
  BY <1>20, BeginType DEF WaitStatus
<1>21. ASSUME NEW c \in Calls, StatusGot(c) PROVE CallType'
  BY <1>21, BeginType DEF StatusGot
<1>22. ASSUME NEW r \in Runs, RunGate(r) PROVE CallType'
  BY <1>22, BeginType DEF RunGate
<1>23. ASSUME NEW n \in Conns, NEW x \in {"expired", "refused"}, Refuses(n, x), UNCHANGED
              bridge PROVE CallType'
  BY <1>23
<1>24. ASSUME NEW n \in Conns, NEW d \in {"ready", "denied"}, Mints(n, d), UNCHANGED
              bridge PROVE CallType'
  BY <1>24
<1>25. CASE UNCHANGED vars
  BY <1>25 DEF vars
<1> HIDE DEF BridgeInv, ThreadType, CallType, ConnType, WireOK, Wired, Places
<1>26. QED
  BY <1>1, <1>2, <1>3, <1>4, <1>5, <1>6, <1>7, <1>8, <1>9, <1>10, <1>11, <1>12, <1>13,
     <1>14, <1>15, <1>16, <1>17, <1>18, <1>19, <1>20, <1>21, <1>22, <1>23, <1>24, <1>25,
     TurnFacts DEF Next, CallStep, RunStep, WireStep, DaemonStep, ServeStep, ActorStep,
     Outage

(* Connections carry well-formed frames. *)
LEMMA ConnTypePreserved ==
    ASSUME MailboxAssumption, BridgeAssumption, BridgeInv, [Next]_vars
    PROVE  ConnType'
<1>0. ThreadType /\ CallType /\ ConnType /\ StoreType
  BY TypingFacts DEF BridgeInv, Typing
<1> USE <1>0 DEF BridgeAssumption, MailboxAssumption, BridgeInv, ThreadType, CallType,
   ConnType, StoreType, daemon, cache, registry, output, bridge, Threads, WireCall,
   NoCall, Go, Before, Wire, WireOK, Wired, OwnOK, Owns
<1>1. ASSUME NEW t \in Threads, TakeSession(t) \/ WakeWaiter(t) \/ WaiterTimesOut(t) \/
             Publish(t) \/ Release(t) \/ ConnectFails(t) PROVE ConnType'
  BY <1>1 DEF TakeSession, WakeWaiter, WaiterTimesOut, Publish, Release, ConnectFails
<1>2. ASSUME NEW c \in Calls, Dispatch(c) \/ Requested(c) \/ Ensured(c) \/ ExecGate(c) \/
             Reconciled(c) \/ Start(c) \/ WaitRun(c) \/ WaitStatus(c) \/ StatusGot(c) \/
             WriteResponse(c) \/ StallOut(c) PROVE ConnType'
  BY <1>2 DEF Dispatch, Requested, Ensured, ExecGate, Reconciled, Start, WaitRun,
     WaitStatus, StatusGot, WriteResponse, StallOut
<1>3. ASSUME NEW r \in Runs, RunGate(r) \/ Complete(r) PROVE ConnType'
  BY <1>3 DEF RunGate, Complete
<1>4. CASE WriteLine \/ ShutdownStep
  BY <1>4 DEF WriteLine, ShutdownStep
<1>5. CASE (Restart \/ OtherSweep) /\ UNCHANGED bridge
  BY <1>5 DEF Restart, OtherSweep
<1>6. ASSUME NEW t \in Threads, Connect(t) PROVE ConnType'
  <2>1. PICK c \in Conns :
          Dial(c, IF pc[t] = "hello" THEN "hello" ELSE call[t].op, rid[t],
               call[t].sid, t, IF t \in Runs THEN t ELSE NoRun)
    BY <1>6, SMTT(60) DEF Connect
  <2>2. PICK s \in {"served", "closed"}, o \in {"none", "hello", "status", "request", "execute"},
             r \in Runs \cup {NoRun} :
          conn' = [conn EXCEPT ![c] =
                     [st |-> s, op |-> o, rid |-> rid[t], sid |-> call[t].sid,
                      owner |-> t, run |-> r, reply |-> "none"]]
    BY <1>6, <2>1, ZenonT(60) DEF Connect, Dial, WireCalls
  <2>3. [st |-> s, op |-> o, rid |-> rid[t], sid |-> call[t].sid,
         owner |-> t, run |-> r, reply |-> "none"] \in Frames
    BY DEF Frames, Stages, Replies, Phases, WireCalls
  <2>4. QED
    BY <2>2, <2>3, FrameSet
<1>7. ASSUME NEW t \in Threads, ReadReply(t) PROVE ConnType'
  <2>1. call[t].conn \in Conns /\ conn' = [conn EXCEPT ![call[t].conn] = Idle]
    BY <1>7 DEF ReadReply
  <2>2. QED
    BY <2>1, IdleFrame, FrameSet, SMTT(60)
<1>8. ASSUME NEW t \in Threads, ReadTimesOut(t) PROVE ConnType'
  <2>1. PICK c \in Conns : conn' = [conn EXCEPT ![c] = [conn[c] EXCEPT !.owner = NoThread]]
    BY <1>8 DEF ReadTimesOut
  <2>2. QED
    BY <2>1, OwnerSet
<1>9. ASSUME NEW t \in Threads, Panic(t) PROVE ConnType'
  <2>1. CASE call[t].conn = NoConn
    BY <1>9, <2>1 DEF Panic
  <2>2. CASE call[t].conn \in Conns
    <3>1. conn' = [conn EXCEPT ![call[t].conn] =
                     [conn[call[t].conn] EXCEPT !.owner = NoThread]]
      BY <1>9, <2>2 DEF Panic
    <3>2. PICK c \in Conns : conn' = [conn EXCEPT ![c] = [conn[c] EXCEPT !.owner = NoThread]]
      BY <2>2, <3>1
    <3>3. QED
      BY <3>2, OwnerSet
  <2>3. QED
    BY <2>1, <2>2 DEF WireCalls
<1>10. CASE Exit
  <2>0. \A c \in Conns : conn[c] \in Frames
    OBVIOUS
  <2>1. conn' = [c \in Conns |-> [conn[c] EXCEPT !.owner = NoThread]]
    BY <1>10 DEF Exit
  <2>2. \A c \in Conns : [conn[c] EXCEPT !.owner = NoThread] \in Frames
    BY <2>0, SMTT(60) DEF Frames, Stages
  <2>3. QED
    BY <2>1, <2>2
<1>11. ASSUME NEW n \in Conns, Post(n), UNCHANGED bridge PROVE ConnType'
  <2>1. PICK s \in {"sweeping", "preflight", "acting"} :
          conn' = [conn EXCEPT ![n] = [conn[n] EXCEPT !.st = s]]
    BY <1>11 DEF Post
  <2>2. QED
    BY <2>1, StageSet DEF Stages
<1>12. ASSUME NEW n \in Conns, RefuseBuild(n), UNCHANGED bridge PROVE ConnType'
  <2>1. conn' = [conn EXCEPT ![n] = [conn[n] EXCEPT !.st = "answered", !.reply = "skewed"]]
    BY <1>12 DEF RefuseBuild, Answer
  <2>2. QED
    BY <2>1, AnswerSet, Zenon DEF Replies, Phases
<1>13. ASSUME NEW n \in Conns, Discard(n), UNCHANGED bridge PROVE ConnType'
  BY <1>13, IdleFrame, FrameSet DEF Discard
<1>14. ASSUME NEW n \in Conns, OpenSession(n), UNCHANGED bridge PROVE ConnType'
  <2>1. PICK s \in Sids : conn' = [conn EXCEPT ![n] = [conn[n] EXCEPT !.st = "opened", !.sid = s]]
    BY <1>14 DEF OpenSession
  <2>2. QED
    BY <2>1, OpenedSet, Zenon
<1>15. ASSUME NEW n \in Conns, SweepIdleSessions(n), UNCHANGED bridge PROVE ConnType'
  <2>1. conn' = [conn EXCEPT ![n] = [conn[n] EXCEPT !.st = "answered", !.reply = "session"]]
    BY <1>15 DEF SweepIdleSessions, Answer
  <2>2. QED
    BY <2>1, AnswerSet, Zenon DEF Replies, Phases
<1>16. ASSUME NEW n \in Conns, Status(n), UNCHANGED bridge PROVE ConnType'
  <2> DEFINE x == IF grant[conn[n].rid] = "none" THEN "refused" ELSE grant[conn[n].rid]
  <2>1. conn' = [conn EXCEPT ![n] = [conn[n] EXCEPT !.st = "answered", !.reply = x]]
    BY <1>16 DEF Status, Answer
  <2>2. x \in Replies
    BY DEF Frames, Replies
  <2> HIDE DEF x
  <2>3. QED
    BY <2>1, <2>2, AnswerSet, Zenon
<1>17. ASSUME NEW n \in Conns, Passes(n), UNCHANGED bridge PROVE ConnType'
  <2>1. conn' = [conn EXCEPT ![n] = [conn[n] EXCEPT !.st = "passed"]]
    BY <1>17 DEF Passes
  <2>2. QED
    BY <2>1, StageSet, Zenon DEF Stages
<1>18. ASSUME NEW n \in Conns, NEW x \in {"expired", "refused"}, Refuses(n, x), UNCHANGED
              bridge PROVE ConnType'
  <2>1. conn' = [conn EXCEPT ![n] = [conn[n] EXCEPT !.st = "answered", !.reply = x]]
    BY <1>18 DEF Refuses
  <2>2. QED
    BY <2>1, AnswerSet, Zenon DEF Replies, Phases
<1>19. ASSUME NEW n \in Conns, NEW d \in {"ready", "denied"}, Mints(n, d), UNCHANGED
              bridge PROVE ConnType'
  <2>1. conn' = [conn EXCEPT ![n] = [conn[n] EXCEPT !.st = "answered", !.reply = d]]
    BY <1>19 DEF Mints
  <2>2. QED
    BY <2>1, AnswerSet, Zenon DEF Replies, Phases
<1>20. ASSUME NEW n \in Conns, Claims(n), UNCHANGED bridge PROVE ConnType'
  <2>1. conn' = [conn EXCEPT ![n] = [conn[n] EXCEPT !.st = "executing"]]
    BY <1>20 DEF Claims
  <2>2. QED
    BY <2>1, StageSet, Zenon DEF Stages
<1>21. ASSUME NEW n \in Conns, FinishExecute(n), UNCHANGED bridge PROVE ConnType'
  <2>1. conn' = [conn EXCEPT ![n] = [conn[n] EXCEPT !.st = "answered", !.reply = "receipt"]]
    BY <1>21 DEF FinishExecute, Answer
  <2>2. QED
    BY <2>1, AnswerSet, Zenon DEF Replies, Phases
<1>22. CASE Crash /\ UNCHANGED bridge
  <2>0. \A c \in Conns : conn[c] \in Frames
    OBVIOUS
  <2>1. conn' = [c \in Conns |-> IF conn[c].st \in {"free", "answered"} THEN conn[c]
                                ELSE [conn[c] EXCEPT !.st = "closed"]]
    BY <1>22 DEF Crash
  <2>2. \A c \in Conns : [conn[c] EXCEPT !.st = "closed"] \in Frames
    BY <2>0, StageRecord DEF Stages
  <2>3. QED
    BY <2>1, <2>2
<1>23. CASE UNCHANGED vars
  BY <1>23 DEF vars
<1> HIDE DEF BridgeInv, ThreadType, CallType, ConnType, StoreType, WireOK, Wired, OwnOK,
   Owns
<1>24. QED
  BY <1>1, <1>2, <1>3, <1>4, <1>5, <1>6, <1>7, <1>8, <1>9, <1>10, <1>11, <1>12, <1>13,
     <1>14, <1>15, <1>16, <1>17, <1>18, <1>19, <1>20, <1>21, <1>22, <1>23, TurnFacts DEF
     Next, CallStep, RunStep, WireStep, DaemonStep, ServeStep, ActorStep, Outage

(* The mailbox, the session table, the run map and the counters keep their types. *)
LEMMA RestTypePreserved ==
    ASSUME MailboxAssumption, BridgeAssumption, BridgeInv, [Next]_vars
    PROVE  RestType'
<1>0. RestType /\ ThreadType /\ CallType
  BY TypingFacts, SMTT(60) DEF BridgeInv, Typing
<1> USE <1>0 DEF BridgeAssumption, MailboxAssumption, BridgeInv, RestType, ThreadType,
   CallType, daemon, cache, registry, output, bridge, Threads, WireCall, NoCall, Go,
   Before, Wire, Mishap, Calm
<1>1. ASSUME NEW t \in Threads, WakeWaiter(t) \/ Connect(t) \/ ConnectFails(t) \/
             ReadReply(t) PROVE RestType'
  BY <1>1 DEF WakeWaiter, Connect, Dial, ConnectFails, ReadReply
<1>2. ASSUME NEW c \in Calls, Requested(c) \/ Ensured(c) \/ ExecGate(c) \/ WaitRun(c) \/
             WaitStatus(c) PROVE RestType'
  BY <1>2 DEF Requested, Ensured, ExecGate, WaitRun, WaitStatus
<1>3. ASSUME NEW r \in Runs, RunGate(r) \/ Complete(r) PROVE RestType'
  BY <1>3 DEF RunGate, Complete
<1>4. ASSUME NEW t \in Threads, TakeSession(t) PROVE RestType'
  BY <1>4 DEF TakeSession, Usable, Return
<1>5. ASSUME NEW t \in Threads, WaiterTimesOut(t) PROVE RestType'
  BY <1>5 DEF WaiterTimesOut, Return
<1>6. ASSUME NEW t \in Threads, Publish(t) PROVE RestType'
  BY <1>6 DEF Publish, WireCalls
<1>7. ASSUME NEW t \in Threads, Release(t) PROVE RestType'
  BY <1>7, SMTT(60) DEF Release, Return
<1>8. ASSUME NEW t \in Threads, ReadTimesOut(t) PROVE RestType'
  BY <1>8, SMTT(60) DEF ReadTimesOut, Return
<1>9. ASSUME NEW t \in Threads, Panic(t) PROVE RestType'
  <2>1. mishaps < MaxMishaps /\ mishaps' = mishaps + 1 /\ attempts' = attempts + 1
    BY <1>9 DEF Panic
  <2>2. mishaps' \in 0..MaxMishaps /\ attempts' \in Nat
    BY <2>1
  <2>3. UNCHANGED <<up, build, mailbox, open, minted, sess, runs, phase, runPhase, sink, queue>>
    BY <1>9 DEF Panic
  <2>4. refresh' = NoThread
    BY <1>9 DEF Panic
  <2>5. QED
    BY <2>2, <2>3, <2>4
<1>10. ASSUME NEW c \in Calls, Dispatch(c) PROVE RestType'
  BY <1>10 DEF Dispatch, Begin, Names
<1>11. ASSUME NEW c \in Calls, Reconciled(c) PROVE RestType'
  <2>1. runs' \in [Requests -> Runs \cup {NoRun}]
    <3>1. runs' = runs \/ runs' = [runs EXCEPT ![rid[c]] = NoRun]
      BY <1>11 DEF Reconciled
    <3>2. [runs EXCEPT ![rid[c]] = NoRun] \in [Requests -> Runs \cup {NoRun}]
      BY MapSet
    <3>3. runs \in [Requests -> Runs \cup {NoRun}]
      OBVIOUS
    <3>4. QED
      BY ONLY <3>1, <3>2, <3>3, Zenon
  <2>2. UNCHANGED <<daemon, mishaps, cache, phase, runPhase, sink, queue>>
    BY <1>11 DEF Reconciled
  <2>3. QED
    BY <2>1, <2>2
<1>12. ASSUME NEW c \in Calls, Start(c) PROVE RestType'
  <2>1. runs' \in [Requests -> Runs \cup {NoRun}]
    <3>1. CASE UNCHANGED runs
      BY <3>1
    <3>2. CASE RecordOf(rid[c]) \in {"none", "retryable"}
      <4>1. PICK e \in Evicted :
              LET left == [r \in Requests |-> IF r \in e THEN NoRun ELSE runs[r]]
              IN  runs' = left \/ \E r \in Runs : runs' = [left EXCEPT ![rid[c]] = r]
        BY <1>12, <3>2 DEF Start
      <4> DEFINE left == [r \in Requests |-> IF r \in e THEN NoRun ELSE runs[r]]
      <4>2. left \in [Requests -> Runs \cup {NoRun}]
        OBVIOUS
      <4>3. runs' = left \/ \E r \in Runs : runs' = [left EXCEPT ![rid[c]] = r]
        BY <4>1
      <4> HIDE DEF left
      <4>4. \A r \in Runs : [left EXCEPT ![rid[c]] = r] \in [Requests -> Runs \cup {NoRun}]
        BY <4>2, MapSet
      <4>5. QED
        BY ONLY <4>2, <4>3, <4>4, Zenon
    <3>3. QED
      BY <1>12, <3>1, <3>2 DEF Start
  <2>2. UNCHANGED <<daemon, mishaps, cache, phase, runPhase, sink, queue>>
    BY <1>12 DEF Start
  <2>3. QED
    BY <2>1, <2>2
<1>13. ASSUME NEW c \in Calls, StatusGot(c) PROVE RestType'
  BY <1>13 DEF StatusGot, Begin
<1>14. ASSUME NEW c \in Calls, WriteResponse(c) PROVE RestType'
  <2>1. queue' \in Seq(Calls)
    <3>1. queue' = queue \/ queue' = Append(queue, c)
      BY <1>14 DEF WriteResponse
    <3>2. Append(queue, c) \in Seq(Calls)
      BY QueueSet
    <3>3. queue \in Seq(Calls)
      OBVIOUS
    <3>4. QED
      BY ONLY <3>1, <3>2, <3>3, Zenon
  <2>2. UNCHANGED <<daemon, mishaps, cache, runs, phase, runPhase, sink>>
    BY <1>14 DEF WriteResponse
  <2>3. QED
    BY <2>1, <2>2
<1>15. ASSUME NEW c \in Calls, StallOut(c) PROVE RestType'
  BY <1>15 DEF StallOut, Writing
<1>16. CASE WriteLine
  BY <1>16 DEF WriteLine
<1>17. CASE ShutdownStep
  BY <1>17 DEF ShutdownStep, InputEnds, StopDispatch, DrainTools, DrainRuns, Flush
<1>18. CASE Exit
  BY <1>18 DEF Exit
<1>19. ASSUME NEW n \in Conns, Post(n), UNCHANGED bridge PROVE RestType'
  BY <1>19, SMTT(60) DEF Post
<1>20. ASSUME NEW n \in Conns, RefuseBuild(n), UNCHANGED bridge PROVE RestType'
  BY <1>20 DEF RefuseBuild, Answer
<1>21. ASSUME NEW n \in Conns, Discard(n), UNCHANGED bridge PROVE RestType'
  BY <1>21 DEF Discard, Idle
<1>22. ASSUME NEW n \in Conns, OpenSession(n), UNCHANGED bridge PROVE RestType'
  BY <1>22, SMTT(60) DEF OpenSession, Turn
<1>23. ASSUME NEW n \in Conns, SweepIdleSessions(n), UNCHANGED bridge PROVE RestType'
  BY <1>23, SMTT(60) DEF SweepIdleSessions, Turn, Answer
<1>24. ASSUME NEW n \in Conns, Status(n), UNCHANGED bridge PROVE RestType'
  BY <1>24, SMTT(60) DEF Status, Turn, Answer
<1>25. ASSUME NEW n \in Conns, FinishExecute(n), UNCHANGED bridge PROVE RestType'
  BY <1>25 DEF FinishExecute, Answer
<1>26. CASE Crash /\ UNCHANGED bridge
  <2>1. mailbox' = <<>> /\ mishaps' \in 0..MaxMishaps
    BY <1>26, SMTT(60) DEF Crash
  <2>2. up' \in BOOLEAN
    BY <1>26 DEF Crash
  <2>3. UNCHANGED <<build, open, minted, bridge>>
    BY <1>26 DEF Crash
  <2>4. mailbox' \in Seq(Conns)
    BY <2>1
  <2>5. QED
    BY <2>1, <2>2, <2>3, <2>4
<1>27. CASE Restart /\ UNCHANGED bridge
  BY <1>27 DEF Restart
<1>28. CASE OtherSweep /\ UNCHANGED bridge
  BY <1>28 DEF OtherSweep
<1>29. ASSUME NEW n \in Conns, SessionOpen(n), UNCHANGED bridge PROVE RestType'
  BY <1>29, SMTT(60) DEF SessionOpen, Turn
<1>30. ASSUME NEW n \in Conns, RequestCapability(n), UNCHANGED bridge PROVE RestType'
  BY <1>30 DEF RequestCapability, Turn
<1>31. ASSUME NEW n \in Conns, Execute(n), UNCHANGED bridge PROVE RestType'
  BY <1>31, SMTT(60) DEF Execute, Turn
<1>32. CASE UNCHANGED vars
  BY <1>32 DEF vars
<1> HIDE DEF BridgeInv, RestType, ThreadType, CallType, Mishap, Calm
<1>33. QED
  BY <1>1, <1>2, <1>3, <1>4, <1>5, <1>6, <1>7, <1>8, <1>9, <1>10, <1>11, <1>12, <1>13,
     <1>14, <1>15, <1>16, <1>17, <1>18, <1>19, <1>20, <1>21, <1>22, <1>23, <1>24, <1>25,
     <1>26, <1>27, <1>28, <1>29, <1>30, <1>31, <1>32 DEF Next, CallStep, RunStep,
     WireStep, DaemonStep, ServeStep, ActorStep, Outage

(* The stores keep their types. *)
LEMMA StoreTypePreserved ==
    ASSUME MailboxAssumption, BridgeAssumption, BridgeInv, [Next]_vars
    PROVE  StoreType'
<1>0. StoreType /\ ConnType
  BY TypingFacts DEF BridgeInv, Typing
<1> USE <1>0 DEF BridgeAssumption, MailboxAssumption, BridgeInv, StoreType, ConnType,
   daemon, cache, registry, output, bridge, Threads, WireCall, NoCall, Go, Before, Wire,
   Settled, Phases, EffectOK, Frames
<1>1. ASSUME NEW t \in Threads, TakeSession(t) \/ WakeWaiter(t) \/ WaiterTimesOut(t) \/
             Publish(t) \/ Release(t) \/ Connect(t) \/ ConnectFails(t) \/ ReadReply(t) \/
             ReadTimesOut(t) \/ Panic(t) PROVE StoreType'
  BY <1>1 DEF TakeSession, WakeWaiter, WaiterTimesOut, Publish, Release, Connect, Dial,
     ConnectFails, ReadReply, ReadTimesOut, Panic
<1>2. ASSUME NEW c \in Calls, Dispatch(c) \/ Requested(c) \/ Ensured(c) \/ ExecGate(c) \/
             Reconciled(c) \/ WaitRun(c) \/ WaitStatus(c) \/ StatusGot(c) \/
             WriteResponse(c) \/ StallOut(c) PROVE StoreType'
  BY <1>2 DEF Dispatch, Requested, Ensured, ExecGate, Reconciled, WaitRun, WaitStatus,
     StatusGot, WriteResponse, StallOut
<1>3. CASE WriteLine \/ ShutdownStep \/ Exit
  BY <1>3 DEF WriteLine, ShutdownStep, Exit
<1>4. CASE OtherSweep /\ UNCHANGED bridge
  BY <1>4 DEF OtherSweep
<1>5. ASSUME NEW n \in Conns, Post(n) \/ RefuseBuild(n) \/ Discard(n) \/ OpenSession(n) \/
             SweepIdleSessions(n) \/ Status(n) \/ Passes(n), UNCHANGED bridge PROVE
             StoreType'
  BY <1>5, ZenonT(60) DEF Post, RefuseBuild, Discard, OpenSession, SweepIdleSessions,
     Status, Passes, Keeps
<1>6. ASSUME NEW c \in Calls, Start(c) PROVE StoreType'
  BY <1>6 DEF Start
<1>7. ASSUME NEW r \in Runs, RunGate(r) PROVE StoreType'
  BY <1>7 DEF RunGate, Begin
<1>8. ASSUME NEW r \in Runs, Complete(r) PROVE StoreType'
  BY <1>8 DEF Complete, ClassifyRun
<1>9. ASSUME NEW n \in Conns, NEW x \in {"expired", "refused"}, Refuses(n, x), UNCHANGED
             bridge PROVE StoreType'
  BY <1>9 DEF Refuses, Keeps
<1>10. ASSUME NEW n \in Conns, NEW d \in {"ready", "denied"}, Mints(n, d), UNCHANGED
              bridge PROVE StoreType'
  BY <1>10 DEF Mints
<1>11. ASSUME NEW n \in Conns, Claims(n), UNCHANGED bridge PROVE StoreType'
  BY <1>11 DEF Claims
<1>12. ASSUME NEW n \in Conns, FinishExecute(n), UNCHANGED bridge PROVE StoreType'
  BY <1>12 DEF FinishExecute, Answer
<1>13. CASE Crash /\ UNCHANGED bridge
  BY <1>13 DEF Crash
<1>14. CASE Restart /\ UNCHANGED bridge
  BY <1>14 DEF Restart
<1>15. CASE UNCHANGED vars
  BY <1>15 DEF vars
<1> HIDE DEF BridgeInv, StoreType, ConnType, Settled, Phases, EffectOK, Frames
<1>16. QED
  BY <1>1, <1>2, <1>3, <1>4, <1>5, <1>6, <1>7, <1>8, <1>9, <1>10, <1>11, <1>12, <1>13,
     <1>14, <1>15, TurnFacts DEF Next, CallStep, RunStep, WireStep, DaemonStep,
     ServeStep, ActorStep, Outage

(* Threads keep to their own commands, and hold a connection only with a frame out. *)
LEMMA WirePreserved ==
    ASSUME MailboxAssumption, BridgeAssumption, BridgeInv, [Next]_vars
    PROVE  WireOK'
<1>0. ThreadType /\ CallType
  BY TypingFacts DEF BridgeInv, Typing
<1> USE <1>0 DEF BridgeAssumption, MailboxAssumption, BridgeInv, ThreadType, CallType,
   daemon, cache, registry, output, bridge, Threads, WireCall, NoCall, Go, Before, Wire,
   WireOK, Wired, OwnOK, Owns
<1>1. CASE WriteLine \/ ShutdownStep
  BY <1>1 DEF WriteLine, ShutdownStep
<1>2. CASE (Crash \/ Restart \/ OtherSweep) /\ UNCHANGED bridge
  BY <1>2
<1>3. ASSUME NEW n \in Conns, Post(n) \/ RefuseBuild(n) \/ Discard(n) \/ OpenSession(n) \/
             SweepIdleSessions(n) \/ Status(n) \/ Passes(n) \/ Claims(n) \/
             FinishExecute(n), UNCHANGED bridge PROVE WireOK'
  BY <1>3
<1>4. ASSUME NEW t \in Threads, TakeSession(t) PROVE WireOK'
  <2> SUFFICES ASSUME NEW u \in Threads PROVE Wired(u)'
    OBVIOUS
  <2>1. CASE u = t
    BY <1>4, <2>1 DEF TakeSession, Usable, Return, WireCalls
  <2>2. CASE u # t
    BY <1>4, <2>2 DEF TakeSession, Usable, Return, WireCalls
  <2>3. QED
    BY <2>1, <2>2
<1>5. ASSUME NEW t \in Threads, WakeWaiter(t) PROVE WireOK'
  <2> SUFFICES ASSUME NEW u \in Threads PROVE Wired(u)'
    OBVIOUS
  <2>1. CASE u = t /\ (sess # NoSid \/ refresh # NoThread)
    BY <1>5, <2>1 DEF WakeWaiter
  <2>2. CASE u = t /\ ~(sess # NoSid \/ refresh # NoThread)
    BY <1>5, <2>2 DEF WakeWaiter, Return
  <2>3. CASE u # t
    BY <1>5, <2>3 DEF WakeWaiter, Return
  <2>4. QED
    BY <2>1, <2>2, <2>3
<1>6. ASSUME NEW t \in Threads, WaiterTimesOut(t) PROVE WireOK'
  BY <1>6 DEF WaiterTimesOut, Return
<1>7. ASSUME NEW t \in Threads, Publish(t) PROVE WireOK'
  BY <1>7 DEF Publish
<1>8. ASSUME NEW t \in Threads, Release(t) PROVE WireOK'
  <2> SUFFICES ASSUME NEW u \in Threads PROVE Wired(u)'
    OBVIOUS
  <2>1. CASE u = t
    BY <1>8, <2>1 DEF Release, Return, WireCalls
  <2>2. CASE u # t
    BY <1>8, <2>2 DEF Release, Return, WireCalls
  <2>3. QED
    BY <2>1, <2>2
<1>9. ASSUME NEW t \in Threads, Connect(t) PROVE WireOK'
  BY <1>9 DEF Connect, Dial
<1>10. ASSUME NEW t \in Threads, ConnectFails(t) PROVE WireOK'
  <2> SUFFICES ASSUME NEW u \in Threads PROVE Wired(u)'
    OBVIOUS
  <2>1. CASE u = t
    BY <1>10, <2>1, SMTT(60) DEF ConnectFails, Return, WireCalls
  <2>2. CASE u # t
    BY <1>10, <2>2, SMTT(60) DEF ConnectFails, Return, WireCalls
  <2>3. QED
    BY <2>1, <2>2
<1>11. ASSUME NEW t \in Threads, ReadReply(t) PROVE WireOK'
  <2> SUFFICES ASSUME NEW u \in Threads PROVE Wired(u)'
    OBVIOUS
  <2>1. CASE u = t
    BY <1>11, <2>1, SMTT(60) DEF ReadReply, Return, Idle, WireCalls
  <2>2. CASE u # t
    BY <1>11, <2>2 DEF ReadReply, Return, Idle, WireCalls
  <2>3. QED
    BY <2>1, <2>2
<1>12. ASSUME NEW t \in Threads, ReadTimesOut(t) PROVE WireOK'
  <2> SUFFICES ASSUME NEW u \in Threads PROVE Wired(u)'
    OBVIOUS
  <2>1. CASE u = t
    BY <1>12, <2>1 DEF ReadTimesOut, Return, WireCalls
  <2>2. CASE u # t
    BY <1>12, <2>2 DEF ReadTimesOut, Return, WireCalls
  <2>3. QED
    BY <2>1, <2>2
<1>13. ASSUME NEW t \in Threads, Panic(t) PROVE WireOK'
  BY <1>13 DEF Panic
<1>14. ASSUME NEW c \in Calls, Dispatch(c) PROVE WireOK'
  <2> SUFFICES ASSUME NEW u \in Threads PROVE Wired(u)'
    OBVIOUS
  <2>0. UNCHANGED <<conn, grant>>
    BY <1>14 DEF Dispatch
  <2>1. CASE u = c
    BY <1>14, <2>0, <2>1, DispatchFacts DEF Begin
  <2>2. CASE u # c
    BY <1>14, <2>0, <2>2, DispatchFacts DEF Begin
  <2>3. QED
    BY <2>1, <2>2
<1>15. ASSUME NEW c \in Calls, Requested(c) PROVE WireOK'
  BY <1>15 DEF Requested, Begin
<1>16. ASSUME NEW c \in Calls, Ensured(c) PROVE WireOK'
  <2> SUFFICES ASSUME NEW u \in Threads PROVE Wired(u)'
    OBVIOUS
  <2>1. CASE u = c
    BY <1>16, <2>1 DEF Ensured, Begin
  <2>2. CASE u # c
    BY <1>16, <2>2 DEF Ensured, Begin
  <2>3. QED
    BY <2>1, <2>2
<1>17. ASSUME NEW c \in Calls, ExecGate(c) PROVE WireOK'
  BY <1>17 DEF ExecGate, Begin
<1>18. ASSUME NEW c \in Calls, Reconciled(c) PROVE WireOK'
  BY <1>18 DEF Reconciled
<1>19. ASSUME NEW c \in Calls, Start(c) PROVE WireOK'
  <2> SUFFICES ASSUME NEW u \in Threads PROVE Wired(u)'
    OBVIOUS
  <2>1. CASE u = c
    BY <1>19, <2>1 DEF Start
  <2>2. CASE u # c
    BY <1>19, <2>2 DEF Start
  <2>3. QED
    BY <2>1, <2>2
<1>20. ASSUME NEW c \in Calls, WaitRun(c) PROVE WireOK'
  BY <1>20 DEF WaitRun
<1>21. ASSUME NEW c \in Calls, WaitStatus(c) PROVE WireOK'
  BY <1>21 DEF WaitStatus, Begin
<1>22. ASSUME NEW c \in Calls, StatusGot(c) PROVE WireOK'
  <2> SUFFICES ASSUME NEW u \in Threads PROVE Wired(u)'
    OBVIOUS
  <2>1. CASE u = c
    BY <1>22, <2>1 DEF StatusGot, Begin
  <2>2. CASE u # c
    BY <1>22, <2>2 DEF StatusGot, Begin
  <2>3. QED
    BY <2>1, <2>2
<1>23. ASSUME NEW c \in Calls, WriteResponse(c) PROVE WireOK'
  BY <1>23 DEF WriteResponse, Writing
<1>24. ASSUME NEW c \in Calls, StallOut(c) PROVE WireOK'
  BY <1>24 DEF StallOut, Writing
<1>25. ASSUME NEW r \in Runs, RunGate(r) PROVE WireOK'
  <2> SUFFICES ASSUME NEW u \in Threads PROVE Wired(u)'
    OBVIOUS
  <2>1. CASE u = r
    BY <1>25, <2>1 DEF RunGate, Begin
  <2>2. CASE u # r
    BY <1>25, <2>2 DEF RunGate, Begin
  <2>3. QED
    BY <2>1, <2>2
<1>26. ASSUME NEW r \in Runs, Complete(r) PROVE WireOK'
  BY <1>26 DEF Complete, ClassifyRun
<1>27. CASE Exit
  BY <1>27 DEF Exit
<1>28. ASSUME NEW n \in Conns, NEW x \in {"expired", "refused"}, Refuses(n, x), UNCHANGED
              bridge PROVE WireOK'
  BY <1>28
<1>29. ASSUME NEW n \in Conns, NEW d \in {"ready", "denied"}, Mints(n, d), UNCHANGED
              bridge PROVE WireOK'
  BY <1>29
<1>30. CASE UNCHANGED vars
  BY <1>30 DEF vars
<1> HIDE DEF BridgeInv, ThreadType, CallType, WireOK, Wired, OwnOK, Owns
<1>31. QED
  BY <1>1, <1>2, <1>3, <1>4, <1>5, <1>6, <1>7, <1>8, <1>9, <1>10, <1>11, <1>12, <1>13,
     <1>14, <1>15, <1>16, <1>17, <1>18, <1>19, <1>20, <1>21, <1>22, <1>23, <1>24, <1>25,
     <1>26, <1>27, <1>28, <1>29, <1>30, TurnFacts DEF Next, CallStep, RunStep, WireStep,
     DaemonStep, ServeStep, ActorStep, Outage

(* No step of another thread or of the daemon takes a frame from the thread that waits. *)
LEMMA OwnPreserved ==
    ASSUME MailboxAssumption, BridgeAssumption, BridgeInv, [Next]_vars
    PROVE  OwnOK'
<1>0. ThreadType /\ CallType /\ ConnType
  BY TypingFacts DEF BridgeInv, Typing
<1> USE <1>0 DEF BridgeAssumption, MailboxAssumption, BridgeInv, ThreadType, CallType,
   ConnType, daemon, cache, registry, output, bridge, Threads, WireCall, NoCall, Go,
   Before, Wire, OwnOK, Owns, WireOK, Wired
<1>1. CASE WriteLine \/ ShutdownStep
  BY <1>1 DEF WriteLine, ShutdownStep
<1>2. CASE (Restart \/ OtherSweep) /\ UNCHANGED bridge
  BY <1>2 DEF Restart, OtherSweep
<1>3. ASSUME NEW t \in Threads, TakeSession(t) PROVE OwnOK'
  BY <1>3 DEF TakeSession, Usable, Return
<1>4. ASSUME NEW t \in Threads, WakeWaiter(t) PROVE OwnOK'
  <2> SUFFICES ASSUME NEW u \in Threads PROVE Owns(u)'
    OBVIOUS
  <2>1. CASE u = t
    BY <1>4, <2>1 DEF WakeWaiter, Return
  <2>2. CASE u # t
    BY <1>4, <2>2 DEF WakeWaiter, Return
  <2>3. QED
    BY <2>1, <2>2
<1>5. ASSUME NEW t \in Threads, WaiterTimesOut(t) PROVE OwnOK'
  BY <1>5 DEF WaiterTimesOut, Return
<1>6. ASSUME NEW t \in Threads, Publish(t) PROVE OwnOK'
  BY <1>6 DEF Publish
<1>7. ASSUME NEW t \in Threads, Release(t) PROVE OwnOK'
  BY <1>7 DEF Release, Return
<1>8. ASSUME NEW t \in Threads, Connect(t) PROVE OwnOK'
  BY <1>8 DEF Connect, Dial
<1>9. ASSUME NEW t \in Threads, ConnectFails(t) PROVE OwnOK'
  BY <1>9, SMTT(60) DEF ConnectFails, Return
<1>10. ASSUME NEW t \in Threads, ReadReply(t) PROVE OwnOK'
  <2> SUFFICES ASSUME NEW u \in Threads PROVE Owns(u)'
    OBVIOUS
  <2>1. CASE u = t
    <3>1. pc'[t] \in {"publish", "session", call[t].back}
      BY <1>10, SMTT(60) DEF ReadReply, Return
    <3>2. call[t].back \notin {"helloReply", "reply"}
      BY <1>10, SMTT(60) DEF ReadReply
    <3>3. QED
      BY <2>1, <3>1, <3>2, SMTT(60)
  <2>2. CASE u # t
    BY <1>10, <2>2 DEF ReadReply, Return, Idle
  <2>3. QED
    BY <2>1, <2>2
<1>11. ASSUME NEW t \in Threads, ReadTimesOut(t) PROVE OwnOK'
  <2> SUFFICES ASSUME NEW u \in Threads PROVE Owns(u)'
    OBVIOUS
  <2>1. CASE u = t
    BY <1>11, <2>1 DEF ReadTimesOut, Return
  <2>2. CASE u # t
    BY <1>11, <2>2, SMTT(60) DEF ReadTimesOut, Return
  <2>3. QED
    BY <2>1, <2>2
<1>12. ASSUME NEW t \in Threads, Panic(t) PROVE OwnOK'
  BY <1>12 DEF Panic
<1>13. ASSUME NEW c \in Calls, Dispatch(c) PROVE OwnOK'
  <2>1. UNCHANGED <<daemon, mishaps, rec>>
    BY <1>13 DEF Dispatch
  <2>2. QED
    BY <1>13, <2>1, DispatchFacts DEF Begin
<1>14. ASSUME NEW c \in Calls, Requested(c) PROVE OwnOK'
  BY <1>14 DEF Requested, Begin
<1>15. ASSUME NEW c \in Calls, Ensured(c) PROVE OwnOK'
  BY <1>15 DEF Ensured, Begin
<1>16. ASSUME NEW c \in Calls, ExecGate(c) PROVE OwnOK'
  BY <1>16 DEF ExecGate, Begin
<1>17. ASSUME NEW c \in Calls, Reconciled(c) PROVE OwnOK'
  BY <1>17 DEF Reconciled
<1>18. ASSUME NEW c \in Calls, Start(c) PROVE OwnOK'
  BY <1>18 DEF Start
<1>19. ASSUME NEW c \in Calls, WaitRun(c) PROVE OwnOK'
  BY <1>19 DEF WaitRun
<1>20. ASSUME NEW c \in Calls, WaitStatus(c) PROVE OwnOK'
  BY <1>20 DEF WaitStatus, Begin
<1>21. ASSUME NEW c \in Calls, StatusGot(c) PROVE OwnOK'
  <2> SUFFICES ASSUME NEW u \in Threads PROVE Owns(u)'
    OBVIOUS
  <2>1. CASE u = c
    BY <1>21, <2>1 DEF StatusGot, Begin
  <2>2. CASE u # c
    BY <1>21, <2>2 DEF StatusGot, Begin
  <2>3. QED
    BY <2>1, <2>2
<1>22. ASSUME NEW c \in Calls, WriteResponse(c) PROVE OwnOK'
  BY <1>22 DEF WriteResponse, Writing
<1>23. ASSUME NEW c \in Calls, StallOut(c) PROVE OwnOK'
  BY <1>23 DEF StallOut, Writing
<1>24. ASSUME NEW r \in Runs, RunGate(r) PROVE OwnOK'
  BY <1>24 DEF RunGate, Begin
<1>25. ASSUME NEW r \in Runs, Complete(r) PROVE OwnOK'
  BY <1>25 DEF Complete, ClassifyRun
<1>26. CASE Exit
  BY <1>26 DEF Exit
<1>27. ASSUME NEW n \in Conns, Post(n), UNCHANGED bridge PROVE OwnOK'
  BY <1>27 DEF Post
<1>28. ASSUME NEW n \in Conns, RefuseBuild(n), UNCHANGED bridge PROVE OwnOK'
  BY <1>28 DEF RefuseBuild, Answer
<1>29. ASSUME NEW n \in Conns, Discard(n), UNCHANGED bridge PROVE OwnOK'
  BY <1>29 DEF Discard, Idle
<1>30. ASSUME NEW n \in Conns, OpenSession(n), UNCHANGED bridge PROVE OwnOK'
  BY <1>30 DEF OpenSession, Turn
<1>31. ASSUME NEW n \in Conns, SweepIdleSessions(n), UNCHANGED bridge PROVE OwnOK'
  BY <1>31 DEF SweepIdleSessions, Turn, Answer
<1>32. ASSUME NEW n \in Conns, Status(n), UNCHANGED bridge PROVE OwnOK'
  BY <1>32 DEF Status, Turn, Answer
<1>33. ASSUME NEW n \in Conns, Passes(n), UNCHANGED bridge PROVE OwnOK'
  BY <1>33 DEF Passes, Keeps
<1>34. ASSUME NEW n \in Conns, NEW x \in {"expired", "refused"}, Refuses(n, x), UNCHANGED
              bridge PROVE OwnOK'
  BY <1>34 DEF Refuses, Keeps
<1>35. ASSUME NEW n \in Conns, NEW d \in {"ready", "denied"}, Mints(n, d), UNCHANGED
              bridge PROVE OwnOK'
  BY <1>35 DEF Mints
<1>36. ASSUME NEW n \in Conns, Claims(n), UNCHANGED bridge PROVE OwnOK'
  BY <1>36 DEF Claims
<1>37. ASSUME NEW n \in Conns, FinishExecute(n), UNCHANGED bridge PROVE OwnOK'
  BY <1>37 DEF FinishExecute, Answer
<1>38. CASE Crash /\ UNCHANGED bridge
  BY <1>38 DEF Crash
<1>39. CASE UNCHANGED vars
  BY <1>39 DEF vars
<1> HIDE DEF BridgeInv, ThreadType, CallType, ConnType, OwnOK, Owns, WireOK, Wired
<1>40. QED
  BY <1>1, <1>2, <1>3, <1>4, <1>5, <1>6, <1>7, <1>8, <1>9, <1>10, <1>11, <1>12, <1>13,
     <1>14, <1>15, <1>16, <1>17, <1>18, <1>19, <1>20, <1>21, <1>22, <1>23, <1>24, <1>25,
     <1>26, <1>27, <1>28, <1>29, <1>30, <1>31, <1>32, <1>33, <1>34, <1>35, <1>36, <1>37,
     <1>38, <1>39, TurnFacts DEF Next, CallStep, RunStep, WireStep, DaemonStep,
     ServeStep, ActorStep, Outage

(* Timeouts, panics and replays leave no second Execute of a run, no second mint. *)
LEMMA FramePreserved ==
    ASSUME MailboxAssumption, BridgeAssumption, BridgeInv, [Next]_vars
    PROVE  FrameOK'
<1>0. ThreadType /\ CallType /\ ConnType
  BY TypingFacts DEF BridgeInv, Typing
<1> USE <1>0 DEF BridgeAssumption, MailboxAssumption, BridgeInv, ThreadType, CallType,
   ConnType, daemon, cache, registry, output, bridge, Threads, WireCall, NoCall, Go,
   Before, Wire, FrameOK, OwnOK, Owns, WireOK, Wired, MintOK, Asking, Minting, RunOK,
   Fresh, Untried
<1>1. ASSUME NEW t \in Threads, TakeSession(t) \/ WakeWaiter(t) \/ WaiterTimesOut(t) \/
             Publish(t) \/ Release(t) \/ ConnectFails(t) PROVE FrameOK'
  BY <1>1, SMTT(60) DEF TakeSession, WakeWaiter, WaiterTimesOut, Publish, Release,
     ConnectFails
<1>2. ASSUME NEW c \in Calls, Dispatch(c) \/ Requested(c) \/ Ensured(c) \/ ExecGate(c) \/
             Reconciled(c) \/ Start(c) \/ WaitRun(c) \/ WaitStatus(c) \/ StatusGot(c) \/
             WriteResponse(c) \/ StallOut(c) PROVE FrameOK'
  BY <1>2 DEF Dispatch, Requested, Ensured, ExecGate, Reconciled, Start, WaitRun,
     WaitStatus, StatusGot, WriteResponse, StallOut
<1>3. ASSUME NEW r \in Runs, RunGate(r) \/ Complete(r) PROVE FrameOK'
  BY <1>3 DEF RunGate, Complete
<1>4. CASE WriteLine \/ ShutdownStep
  BY <1>4 DEF WriteLine, ShutdownStep
<1>5. CASE (Restart \/ OtherSweep) /\ UNCHANGED bridge
  BY <1>5 DEF Restart, OtherSweep
<1>6. ASSUME NEW t \in Threads, Connect(t) PROVE FrameOK'
  BY <1>6 DEF Connect, Dial
<1>7. ASSUME NEW t \in Threads, ReadReply(t) PROVE FrameOK'
  <2>1. Reads(t)
    BY <1>7, ReadFacts
  <2>2. \A c \in Conns : \/ conn'[c] = conn[c]
                         \/ /\ conn'[c].op = "none" /\ conn'[c].st = "free"
                            /\ conn'[c].reply = "none"
    BY <2>1, SMTT(60) DEF Reads
  <2>3. QED
    BY <2>2
<1>8. ASSUME NEW t \in Threads, ReadTimesOut(t) PROVE FrameOK'
  BY <1>8, SMTT(60) DEF ReadTimesOut, Return
<1>9. ASSUME NEW t \in Threads, Panic(t) PROVE FrameOK'
  BY <1>9 DEF Panic
<1>10. CASE Exit
  <2>1. \A c \in Conns : /\ conn'[c].st = conn[c].st /\ conn'[c].op = conn[c].op
                         /\ conn'[c].rid = conn[c].rid /\ conn'[c].run = conn[c].run
                         /\ conn'[c].reply = conn[c].reply
    BY <1>10 DEF Exit, Frames
  <2>2. UNCHANGED <<up, busy, grant, claimedBy, effects, rec>>
    BY <1>10 DEF Exit, Frames
  <2>3. \A t \in Threads : pc'[t] = "ended"
    BY <1>10 DEF Exit, Frames
  <2>4. QED
    BY <2>1, <2>2, <2>3
<1>11. ASSUME NEW n \in Conns, Post(n), UNCHANGED bridge PROVE FrameOK'
  BY <1>11 DEF Post
<1>12. ASSUME NEW n \in Conns, RefuseBuild(n), UNCHANGED bridge PROVE FrameOK'
  BY <1>12 DEF RefuseBuild, Answer
<1>13. ASSUME NEW n \in Conns, Discard(n), UNCHANGED bridge PROVE FrameOK'
  BY <1>13 DEF Discard, Idle
<1>14. ASSUME NEW n \in Conns, OpenSession(n), UNCHANGED bridge PROVE FrameOK'
  BY <1>14 DEF OpenSession, Turn
<1>15. ASSUME NEW n \in Conns, SweepIdleSessions(n), UNCHANGED bridge PROVE FrameOK'
  BY <1>15, SMTT(60) DEF SweepIdleSessions, Turn, Answer
<1>16. ASSUME NEW n \in Conns, Status(n), UNCHANGED bridge PROVE FrameOK'
  BY <1>16 DEF Status, Turn, Answer
<1>17. ASSUME NEW n \in Conns, Passes(n), UNCHANGED bridge PROVE FrameOK'
  BY <1>17 DEF Passes, Keeps
<1>18. ASSUME NEW n \in Conns, NEW x \in {"expired", "refused"}, Refuses(n, x), UNCHANGED
              bridge PROVE FrameOK'
  BY <1>18 DEF Refuses, Keeps
<1>19. ASSUME NEW n \in Conns, NEW d \in {"ready", "denied"}, Mints(n, d), UNCHANGED
              bridge PROVE FrameOK'
  BY <1>19 DEF Mints
<1>20. ASSUME NEW n \in Conns, Claims(n), UNCHANGED bridge PROVE FrameOK'
  BY <1>20 DEF Claims
<1>21. ASSUME NEW n \in Conns, FinishExecute(n), UNCHANGED bridge PROVE FrameOK'
  BY <1>21 DEF FinishExecute, Answer
<1>22. CASE Crash /\ UNCHANGED bridge
  BY <1>22 DEF Crash
<1>23. CASE UNCHANGED vars
  BY <1>23 DEF vars
<1> HIDE DEF BridgeInv, ThreadType, CallType, ConnType, FrameOK, OwnOK, Owns, WireOK,
   Wired, MintOK, Asking, Minting, RunOK, Fresh, Untried
<1>24. QED
  BY <1>1, <1>2, <1>3, <1>4, <1>5, <1>6, <1>7, <1>8, <1>9, <1>10, <1>11, <1>12, <1>13,
     SMTT(60),
     <1>14, <1>15, <1>16, <1>17, <1>18, <1>19, <1>20, <1>21, <1>22, <1>23, TurnFacts DEF
     Next, CallStep, RunStep, WireStep, DaemonStep, ServeStep, ActorStep, Outage

(* The provider is called only inside the turn that claimed, and once. *)
LEMMA EffectPreserved ==
    ASSUME MailboxAssumption, BridgeAssumption, BridgeInv, [Next]_vars
    PROVE  EffectOK'
<1>0. ThreadType /\ ConnType /\ StoreType
  BY TypingFacts DEF BridgeInv, Typing
<1> USE <1>0 DEF BridgeAssumption, MailboxAssumption, BridgeInv, ThreadType, ConnType,
   StoreType, daemon, cache, registry, output, bridge, Threads, WireCall, NoCall, Go,
   Before, Wire, EffectOK, OwnOK, Owns, MintOK, Unspent
<1>1. ASSUME NEW t \in Threads, TakeSession(t) \/ WakeWaiter(t) \/ WaiterTimesOut(t) \/
             Publish(t) \/ Release(t) \/ ConnectFails(t) PROVE EffectOK'
  BY <1>1 DEF TakeSession, WakeWaiter, WaiterTimesOut, Publish, Release, ConnectFails
<1>2. ASSUME NEW c \in Calls, Dispatch(c) \/ Requested(c) \/ Ensured(c) \/ ExecGate(c) \/
             Reconciled(c) \/ Start(c) \/ WaitRun(c) \/ WaitStatus(c) \/ StatusGot(c) \/
             WriteResponse(c) \/ StallOut(c) PROVE EffectOK'
  BY <1>2 DEF Dispatch, Requested, Ensured, ExecGate, Reconciled, Start, WaitRun,
     WaitStatus, StatusGot, WriteResponse, StallOut
<1>3. ASSUME NEW r \in Runs, RunGate(r) \/ Complete(r) PROVE EffectOK'
  BY <1>3 DEF RunGate, Complete
<1>4. CASE WriteLine \/ ShutdownStep
  BY <1>4 DEF WriteLine, ShutdownStep
<1>5. CASE OtherSweep /\ UNCHANGED bridge
  BY <1>5 DEF OtherSweep
<1>6. ASSUME NEW t \in Threads, Connect(t) PROVE EffectOK'
  BY <1>6, SMTT(60) DEF Connect, Dial
<1>7. ASSUME NEW t \in Threads, ReadReply(t) PROVE EffectOK'
  BY <1>7 DEF ReadReply, Return, Idle
<1>8. ASSUME NEW t \in Threads, ReadTimesOut(t) PROVE EffectOK'
  BY <1>8 DEF ReadTimesOut, Return
<1>9. ASSUME NEW t \in Threads, Panic(t) PROVE EffectOK'
  BY <1>9 DEF Panic
<1>10. CASE Exit
  BY <1>10 DEF Exit
<1>11. ASSUME NEW n \in Conns, Post(n), UNCHANGED bridge PROVE EffectOK'
  BY <1>11 DEF Post
<1>12. ASSUME NEW n \in Conns, RefuseBuild(n), UNCHANGED bridge PROVE EffectOK'
  BY <1>12 DEF RefuseBuild, Answer
<1>13. ASSUME NEW n \in Conns, Discard(n), UNCHANGED bridge PROVE EffectOK'
  BY <1>13 DEF Discard, Idle
<1>14. ASSUME NEW n \in Conns, OpenSession(n), UNCHANGED bridge PROVE EffectOK'
  BY <1>14 DEF OpenSession, Turn
<1>15. ASSUME NEW n \in Conns, SweepIdleSessions(n), UNCHANGED bridge PROVE EffectOK'
  BY <1>15 DEF SweepIdleSessions, Turn, Answer
<1>16. ASSUME NEW n \in Conns, Status(n), UNCHANGED bridge PROVE EffectOK'
  BY <1>16 DEF Status, Turn, Answer
<1>17. ASSUME NEW n \in Conns, Passes(n), UNCHANGED bridge PROVE EffectOK'
  BY <1>17 DEF Passes, Keeps
<1>18. ASSUME NEW n \in Conns, NEW x \in {"expired", "refused"}, Refuses(n, x), UNCHANGED
              bridge PROVE EffectOK'
  BY <1>18 DEF Refuses, Keeps
<1>19. ASSUME NEW n \in Conns, NEW d \in {"ready", "denied"}, Mints(n, d), UNCHANGED
              bridge PROVE EffectOK'
  BY <1>19 DEF Mints
<1>20. ASSUME NEW n \in Conns, Claims(n), UNCHANGED bridge PROVE EffectOK'
  BY <1>20 DEF Claims, Frames
<1>21. ASSUME NEW n \in Conns, FinishExecute(n), UNCHANGED bridge PROVE EffectOK'
  BY <1>21 DEF FinishExecute, Answer
<1>22. CASE Crash /\ UNCHANGED bridge
  BY <1>22, SMTT(60) DEF Crash
<1>23. CASE Restart /\ UNCHANGED bridge
  BY <1>23 DEF Restart
<1>24. CASE UNCHANGED vars
  BY <1>24 DEF vars
<1> HIDE DEF BridgeInv, ThreadType, ConnType, StoreType, EffectOK, OwnOK, Owns, MintOK,
   Unspent
<1>25. QED
  BY <1>1, <1>2, <1>3, <1>4, <1>5, <1>6, <1>7, <1>8, <1>9, <1>10, <1>11, <1>12, <1>13,
     <1>14, <1>15, <1>16, <1>17, <1>18, <1>19, <1>20, <1>21, <1>22, <1>23, <1>24,
     TurnFacts DEF Next, CallStep, RunStep, WireStep, DaemonStep, ServeStep, ActorStep,
     Outage

(* A mint never reaches a grant that was claimed. *)
LEMMA MintPreserved ==
    ASSUME MailboxAssumption, BridgeAssumption, BridgeInv, [Next]_vars
    PROVE  MintOK'
<1>0. ThreadType /\ CallType /\ ConnType /\ StoreType
  BY TypingFacts DEF BridgeInv, Typing
<1> USE <1>0 DEF BridgeAssumption, MailboxAssumption, BridgeInv, ThreadType, CallType,
   ConnType, StoreType, daemon, cache, registry, output, bridge, Threads, WireCall,
   NoCall, Go, Before, Wire, MintOK, Asking, Minting, Unspent, WireOK, Wired, OwnOK,
   Owns, FrameOK, EffectOK
<1>1. CASE OtherSweep /\ UNCHANGED bridge
  BY <1>1 DEF OtherSweep
<1>2. ASSUME NEW t \in Threads, TakeSession(t) PROVE MintOK'
  <2>1. \A d \in Conns : /\ conn'[d].op = conn[d].op /\ conn'[d].rid = conn[d].rid
                         /\ Unspent(d)' => Unspent(d)
    BY <1>2 DEF TakeSession, Usable, Return, WireCalls
  <2>2. \A u \in Calls : /\ rid'[u] = rid[u] /\ (pc[u] # "unsent" => pc'[u] # "unsent")
                         /\ Asking(u)' => Asking(u)
                         /\ Minting(u)' => Minting(u)
    BY <1>2, SMTT(60) DEF TakeSession, Usable, Return, WireCalls
  <2>3. grant' = grant
    BY <1>2 DEF TakeSession, Usable, Return, WireCalls
  <2>4. QED
    BY <2>1, <2>2, <2>3, MintKept
<1>3. ASSUME NEW t \in Threads, WakeWaiter(t) PROVE MintOK'
  BY <1>3, SMTT(60) DEF WakeWaiter, Return
<1>4. ASSUME NEW t \in Threads, WaiterTimesOut(t) PROVE MintOK'
  <2>1. \A d \in Conns : /\ conn'[d].op = conn[d].op /\ conn'[d].rid = conn[d].rid
                         /\ Unspent(d)' => Unspent(d)
    BY <1>4 DEF WaiterTimesOut, Return
  <2>2. \A u \in Calls : /\ rid'[u] = rid[u] /\ (pc[u] # "unsent" => pc'[u] # "unsent")
                         /\ Asking(u)' => Asking(u)
                         /\ Minting(u)' => Minting(u)
    BY <1>4, SMTT(60) DEF WaiterTimesOut, Return
  <2>3. grant' = grant
    BY <1>4 DEF WaiterTimesOut, Return
  <2>4. QED
    BY <2>1, <2>2, <2>3, MintKept
<1>5. ASSUME NEW t \in Threads, Publish(t) PROVE MintOK'
  BY <1>5 DEF Publish
<1>6. ASSUME NEW t \in Threads, Release(t) PROVE MintOK'
  <2>1. \A d \in Conns : /\ conn'[d].op = conn[d].op /\ conn'[d].rid = conn[d].rid
                         /\ Unspent(d)' => Unspent(d)
    BY <1>6 DEF Release, Return, WireCalls
  <2>2. \A u \in Calls : /\ rid'[u] = rid[u] /\ (pc[u] # "unsent" => pc'[u] # "unsent")
                         /\ Asking(u)' => Asking(u)
                         /\ Minting(u)' => Minting(u)
    BY <1>6, SMTT(60) DEF Release, Return, WireCalls
  <2>3. grant' = grant
    BY <1>6 DEF Release, Return, WireCalls
  <2>4. QED
    BY <2>1, <2>2, <2>3, MintKept
<1>7. ASSUME NEW t \in Threads, Connect(t) PROVE MintOK'
  BY <1>7 DEF Connect, Dial
<1>8. ASSUME NEW t \in Threads, ConnectFails(t) PROVE MintOK'
  <2>1. \A d \in Conns : /\ conn'[d].op = conn[d].op /\ conn'[d].rid = conn[d].rid
                         /\ Unspent(d)' => Unspent(d)
    BY <1>8 DEF ConnectFails, Return, WireCalls
  <2>2. \A u \in Calls : /\ rid'[u] = rid[u] /\ (pc[u] # "unsent" => pc'[u] # "unsent")
                         /\ Asking(u)' => Asking(u)
                         /\ Minting(u)' => Minting(u)
    BY <1>8, SMTT(60) DEF ConnectFails, Return, WireCalls
  <2>3. grant' = grant
    BY <1>8 DEF ConnectFails, Return, WireCalls
  <2>4. QED
    BY <2>1, <2>2, <2>3, MintKept
<1>9. ASSUME NEW t \in Threads, ReadReply(t) PROVE MintOK'
  <2>1. Reads(t)
    BY <1>9, ReadFacts
  <2>2. \A u \in Calls : u # t => (Asking(u)' <=> Asking(u)) /\ (Minting(u)' <=> Minting(u))
    BY <2>1 DEF Reads
  <2>3. t \in Calls => (Minting(t)' => Minting(t))
    BY <2>1 DEF Reads
  <2>4. t \in Calls /\ Asking(t)' => 
          /\ grant[rid[t]] = "none"
          /\ \A c \in Conns : conn'[c].op = "request" => conn'[c].rid # rid[t]
    BY <2>1 DEF Reads
  <2>5. \A u \in Calls : pc[u] # "unsent" => pc'[u] # "unsent"
    <3>1. t \in Calls => call[t].back # "unsent"
      BY <2>1 DEF Reads
    <3>2. t \in Calls => pc'[t] # "unsent"
      BY <2>1, <3>1 DEF Reads
    <3>3. QED
      BY <2>1, <3>2 DEF Reads
  <2>6. \A c \in Conns : conn'[c].op = "request" =>
          conn[c].op = "request" /\ conn'[c].rid = conn[c].rid /\ (Unspent(c)' => Unspent(c))
    BY <2>1 DEF Reads
  <2>7. UNCHANGED <<grant, rid>>
    BY <2>1 DEF Reads
  <2> HIDE DEF Asking, Minting, Unspent
  <2>8. QED
    BY <2>2, <2>3, <2>4, <2>5, <2>6, <2>7
<1>10. ASSUME NEW t \in Threads, ReadTimesOut(t) PROVE MintOK'
  <2>1. \A d \in Conns : /\ conn'[d].op = conn[d].op /\ conn'[d].rid = conn[d].rid
                         /\ Unspent(d)' => Unspent(d)
    BY <1>10 DEF ReadTimesOut, Return, WireCalls, Frames
  <2>2. \A u \in Calls : /\ rid'[u] = rid[u] /\ (pc[u] # "unsent" => pc'[u] # "unsent")
                         /\ Asking(u)' => Asking(u)
                         /\ Minting(u)' => Minting(u)
    BY <1>10, SMTT(60) DEF ReadTimesOut, Return, WireCalls, Frames
  <2>3. grant' = grant
    BY <1>10, SMTT(60) DEF ReadTimesOut, Return, WireCalls, Frames
  <2>4. QED
    BY <2>1, <2>2, <2>3, MintKept
<1>11. ASSUME NEW t \in Threads, Panic(t) PROVE MintOK'
  BY <1>11 DEF Panic
<1>12. ASSUME NEW c \in Calls, Dispatch(c) PROVE MintOK'
  <2>1. UNCHANGED <<conn, grant>>
    BY <1>12 DEF Dispatch
  <2>2. PICK r \in Requests :
          /\ pc[c] = "unsent" /\ rid' = [rid EXCEPT ![c] = r]
          /\ \/ Go(c, "session") /\ Begin(c, "ensure", "ensured")
             \/ Go(c, "waitStatus") /\ Begin(c, "none", "none")
             \/ /\ Go(c, "session") /\ Begin(c, "request", "requested")
                /\ grant[r] = "none"
                /\ \A d \in Calls : pc[d] # "unsent" => rid[d] # r
             \/ Go(c, "refused") /\ UNCHANGED call
    BY <1>12, DispatchFacts
  <2>3. \A u \in Calls \ {c} : pc'[u] = pc[u] /\ call'[u] = call[u] /\ rid'[u] = rid[u]
    BY <2>2 DEF Begin
  <2>4. pc'[c] # "unsent" /\ rid'[c] = r
    BY <2>2
  <2>5. Asking(c)' => grant[r] = "none" /\ \A d \in Calls : pc[d] # "unsent" => rid[d] # r
    BY <2>2 DEF Begin
  <2>6. Minting(c)' => Asking(c)'
    BY <2>2
  <2>7. \A u \in Calls \ {c} : (Asking(u)' <=> Asking(u)) /\ (Minting(u)' <=> Minting(u))
    BY <2>3
  <2>8. \A u \in Calls : Minting(u) => pc[u] # "unsent"
    OBVIOUS
  <2>9. \A d \in Conns : conn[d].op = "request" =>
          \E u \in Calls \ {c} : pc[u] # "unsent" /\ rid[u] = conn[d].rid
    BY <2>2
  <2>10. \A d \in Conns : Unspent(d)' <=> Unspent(d)
    BY <2>1
  <2> HIDE DEF Asking, Minting, Unspent
  <2>11. \A d \in Conns : conn'[d].op = "request" =>
           /\ \E t \in Calls : pc'[t] # "unsent" /\ rid'[t] = conn'[d].rid
           /\ Unspent(d)' => grant'[conn'[d].rid] = "none"
    <3> SUFFICES ASSUME NEW d \in Conns, conn[d].op = "request"
                 PROVE  /\ \E t \in Calls : pc'[t] # "unsent" /\ rid'[t] = conn[d].rid
                        /\ Unspent(d) => grant[conn[d].rid] = "none"
      BY <2>1, <2>10
    <3>1. \E t \in Calls : pc'[t] # "unsent" /\ rid'[t] = conn[d].rid
      BY <2>3, <2>9
    <3>2. QED
      BY <3>1
  <2>12. \A t \in Calls : Asking(t)' =>
           /\ grant'[rid'[t]] = "none"
           /\ \A d \in Conns : conn'[d].op = "request" => conn'[d].rid # rid'[t]
    BY <2>1, <2>3, <2>4, <2>5, <2>7, <2>9
  <2>13. \A t, u \in Calls : Minting(t)' /\ Minting(u)' /\ rid'[t] = rid'[u] => t = u
    BY <2>3, <2>4, <2>5, <2>6, <2>7, <2>8
  <2>14. QED
    BY <2>11, <2>12, <2>13
<1>13. ASSUME NEW c \in Calls, Requested(c) PROVE MintOK'
  <2>1. \A d \in Conns : /\ conn'[d].op = conn[d].op /\ conn'[d].rid = conn[d].rid
                         /\ Unspent(d)' => Unspent(d)
    BY <1>13 DEF Requested, Begin
  <2>2. \A u \in Calls : /\ rid'[u] = rid[u] /\ (pc[u] # "unsent" => pc'[u] # "unsent")
                         /\ Asking(u)' => Asking(u)
                         /\ Minting(u)' => Minting(u)
    BY <1>13 DEF Requested, Begin
  <2>3. grant' = grant
    BY <1>13 DEF Requested, Begin
  <2>4. QED
    BY <2>1, <2>2, <2>3, MintKept
<1>14. ASSUME NEW c \in Calls, Ensured(c) PROVE MintOK'
  BY <1>14, SMTT(60) DEF Ensured, Begin
<1>15. ASSUME NEW c \in Calls, ExecGate(c) PROVE MintOK'
  <2>1. \A d \in Conns : /\ conn'[d].op = conn[d].op /\ conn'[d].rid = conn[d].rid
                         /\ Unspent(d)' => Unspent(d)
    BY <1>15 DEF ExecGate, Begin
  <2>2. \A u \in Calls : /\ rid'[u] = rid[u] /\ (pc[u] # "unsent" => pc'[u] # "unsent")
                         /\ Asking(u)' => Asking(u)
                         /\ Minting(u)' => Minting(u)
    BY <1>15 DEF ExecGate, Begin
  <2>3. grant' = grant
    BY <1>15 DEF ExecGate, Begin
  <2>4. QED
    BY <2>1, <2>2, <2>3, MintKept
<1>16. ASSUME NEW c \in Calls, Reconciled(c) PROVE MintOK'
  BY <1>16 DEF Reconciled
<1>17. ASSUME NEW c \in Calls, Start(c) PROVE MintOK'
  <2>1. \A d \in Conns : /\ conn'[d].op = conn[d].op /\ conn'[d].rid = conn[d].rid
                         /\ Unspent(d)' => Unspent(d)
    BY <1>17 DEF Start
  <2>2. \A u \in Calls : /\ rid'[u] = rid[u] /\ (pc[u] # "unsent" => pc'[u] # "unsent")
                         /\ Asking(u)' => Asking(u)
                         /\ Minting(u)' => Minting(u)
    BY <1>17 DEF Start
  <2>3. grant' = grant
    BY <1>17 DEF Start
  <2>4. QED
    BY <2>1, <2>2, <2>3, MintKept
<1>18. ASSUME NEW c \in Calls, WaitRun(c) PROVE MintOK'
  BY <1>18 DEF WaitRun
<1>19. ASSUME NEW c \in Calls, WaitStatus(c) PROVE MintOK'
  BY <1>19 DEF WaitStatus, Begin
<1>20. ASSUME NEW c \in Calls, StatusGot(c) PROVE MintOK'
  BY <1>20 DEF StatusGot, Begin
<1>21. ASSUME NEW c \in Calls, WriteResponse(c) PROVE MintOK'
  BY <1>21 DEF WriteResponse, Writing
<1>22. ASSUME NEW c \in Calls, StallOut(c) PROVE MintOK'
  BY <1>22 DEF StallOut, Writing
<1>23. ASSUME NEW r \in Runs, RunGate(r) PROVE MintOK'
  <2>1. \A d \in Conns : /\ conn'[d].op = conn[d].op /\ conn'[d].rid = conn[d].rid
                         /\ Unspent(d)' => Unspent(d)
    BY <1>23 DEF RunGate, Begin
  <2>2. \A u \in Calls : /\ rid'[u] = rid[u] /\ (pc[u] # "unsent" => pc'[u] # "unsent")
                         /\ Asking(u)' => Asking(u)
                         /\ Minting(u)' => Minting(u)
    BY <1>23 DEF RunGate, Begin
  <2>3. grant' = grant
    BY <1>23 DEF RunGate, Begin
  <2>4. QED
    BY <2>1, <2>2, <2>3, MintKept
<1>24. ASSUME NEW r \in Runs, Complete(r) PROVE MintOK'
  BY <1>24 DEF Complete, ClassifyRun
<1>25. CASE WriteLine
  BY <1>25 DEF WriteLine
<1>26. CASE ShutdownStep
  BY <1>26 DEF ShutdownStep
<1>27. CASE Exit
  BY <1>27, SMTT(60) DEF Exit, Frames
<1>28. ASSUME NEW n \in Conns, Post(n), UNCHANGED bridge PROVE MintOK'
  BY <1>28, SMTT(60) DEF Post
<1>29. ASSUME NEW n \in Conns, RefuseBuild(n), UNCHANGED bridge PROVE MintOK'
  BY <1>29 DEF RefuseBuild, Answer
<1>30. ASSUME NEW n \in Conns, Discard(n), UNCHANGED bridge PROVE MintOK'
  BY <1>30 DEF Discard, Idle
<1>31. ASSUME NEW n \in Conns, OpenSession(n), UNCHANGED bridge PROVE MintOK'
  <2>1. \A d \in Conns : /\ conn'[d].op = conn[d].op /\ conn'[d].rid = conn[d].rid
                         /\ Unspent(d)' => Unspent(d)
    BY <1>31 DEF OpenSession, Turn
  <2>2. \A u \in Calls : /\ rid'[u] = rid[u] /\ (pc[u] # "unsent" => pc'[u] # "unsent")
                         /\ Asking(u)' => Asking(u)
                         /\ Minting(u)' => Minting(u)
    BY <1>31 DEF OpenSession, Turn
  <2>3. grant' = grant
    BY <1>31 DEF OpenSession, Turn
  <2>4. QED
    BY <2>1, <2>2, <2>3, MintKept
<1>32. ASSUME NEW n \in Conns, SweepIdleSessions(n), UNCHANGED bridge PROVE MintOK'
  <2>1. \A d \in Conns : /\ conn'[d].op = conn[d].op /\ conn'[d].rid = conn[d].rid
                         /\ Unspent(d)' => Unspent(d)
    BY <1>32 DEF SweepIdleSessions, Turn, Answer
  <2>2. \A u \in Calls : /\ rid'[u] = rid[u] /\ (pc[u] # "unsent" => pc'[u] # "unsent")
                         /\ Asking(u)' => Asking(u)
                         /\ Minting(u)' => Minting(u)
    BY <1>32 DEF SweepIdleSessions, Turn, Answer
  <2>3. grant' = grant
    BY <1>32 DEF SweepIdleSessions, Turn, Answer
  <2>4. QED
    BY <2>1, <2>2, <2>3, MintKept
<1>33. ASSUME NEW n \in Conns, Status(n), UNCHANGED bridge PROVE MintOK'
  <2>1. \A d \in Conns : /\ conn'[d].op = conn[d].op /\ conn'[d].rid = conn[d].rid
                         /\ Unspent(d)' => Unspent(d)
    BY <1>33 DEF Status, Turn, Answer
  <2>2. \A u \in Calls : /\ rid'[u] = rid[u] /\ (pc[u] # "unsent" => pc'[u] # "unsent")
                         /\ Asking(u)' => Asking(u)
                         /\ Minting(u)' => Minting(u)
    BY <1>33 DEF Status, Turn, Answer
  <2>3. grant' = grant
    BY <1>33 DEF Status, Turn, Answer
  <2>4. QED
    BY <2>1, <2>2, <2>3, MintKept
<1>34. ASSUME NEW n \in Conns, Passes(n), UNCHANGED bridge PROVE MintOK'
  BY <1>34 DEF Passes, Keeps
<1>35. ASSUME NEW n \in Conns, NEW x \in {"expired", "refused"}, Refuses(n, x), UNCHANGED
              bridge PROVE MintOK'
  BY <1>35 DEF Refuses, Keeps
<1>36. ASSUME NEW n \in Conns, NEW d \in {"ready", "denied"}, Mints(n, d), UNCHANGED
              bridge PROVE MintOK'
  BY <1>36 DEF Mints
<1>37. ASSUME NEW n \in Conns, Claims(n), UNCHANGED bridge PROVE MintOK'
  BY <1>37 DEF Claims
<1>38. ASSUME NEW n \in Conns, FinishExecute(n), UNCHANGED bridge PROVE MintOK'
  BY <1>38 DEF FinishExecute, Answer
<1>39. CASE Crash /\ UNCHANGED bridge
  BY <1>39, SMTT(60) DEF Crash
<1>40. CASE Restart /\ UNCHANGED bridge
  BY <1>40 DEF Restart
<1>41. CASE UNCHANGED vars
  BY <1>41 DEF vars
<1> HIDE DEF BridgeInv, ThreadType, CallType, ConnType, StoreType, MintOK, Asking,
   Minting, Unspent, WireOK, Wired, OwnOK, Owns, FrameOK, EffectOK
<1>42. QED
  BY <1>1, <1>2, <1>3, <1>4, <1>5, <1>6, <1>7, <1>8, <1>9, <1>10, <1>11, <1>12, <1>13,
     <1>14, <1>15, <1>16, <1>17, <1>18, <1>19, <1>20, <1>21, <1>22, <1>23, <1>24, <1>25,
     <1>26, <1>27, <1>28, <1>29, <1>30, <1>31, <1>32, <1>33, <1>34, <1>35, <1>36, <1>37,
     <1>38, <1>39, <1>40, <1>41, TurnFacts DEF Next, CallStep, RunStep, WireStep,
     DaemonStep, ServeStep, ActorStep, Outage

(* Only a frame that is out can claim for a run. *)
LEMMA RunPreserved ==
    ASSUME MailboxAssumption, BridgeAssumption, BridgeInv, [Next]_vars
    PROVE  RunOK'
<1>0. ThreadType /\ CallType /\ ConnType /\ StoreType
  BY TypingFacts DEF BridgeInv, Typing
<1> USE <1>0 DEF BridgeAssumption, MailboxAssumption, BridgeInv, ThreadType, CallType,
   ConnType, StoreType, daemon, cache, registry, output, bridge, Threads, WireCall,
   NoCall, Go, Before, Wire, RunOK, Fresh, Untried, Unspent, WireOK, Wired, OwnOK, Owns,
   FrameOK
<1>1. CASE WriteLine \/ ShutdownStep
  BY <1>1 DEF WriteLine, ShutdownStep
<1>2. CASE OtherSweep /\ UNCHANGED bridge
  BY <1>2 DEF OtherSweep
<1>3. ASSUME NEW t \in Threads, TakeSession(t) PROVE RunOK'
  BY <1>3 DEF TakeSession, Usable, Return
<1>4. ASSUME NEW t \in Threads, WakeWaiter(t) PROVE RunOK'
  BY <1>4 DEF WakeWaiter, Return
<1>5. ASSUME NEW t \in Threads, WaiterTimesOut(t) PROVE RunOK'
  BY <1>5 DEF WaiterTimesOut, Return
<1>6. ASSUME NEW t \in Threads, Publish(t) PROVE RunOK'
  BY <1>6 DEF Publish
<1>7. ASSUME NEW t \in Threads, Release(t) PROVE RunOK'
  BY <1>7 DEF Release, Return
<1>8. ASSUME NEW t \in Threads, Connect(t) PROVE RunOK'
  BY <1>8, SMTT(60) DEF Connect, Dial
<1>9. ASSUME NEW t \in Threads, ConnectFails(t) PROVE RunOK'
  <2>1. \A d \in Conns : /\ conn'[d].op = conn[d].op /\ conn'[d].run = conn[d].run
                         /\ Unspent(d)' => Unspent(d)
    BY <1>9 DEF ConnectFails, Return
  <2>2. \A r \in Runs : /\ Fresh(r)' => Fresh(r)
                        /\ (rec[r] = "retryable" => pc[r] = "ended")'
    BY <1>9 DEF ConnectFails, Return
  <2>3. claimedBy' = claimedBy
    BY <1>9 DEF ConnectFails, Return
  <2>4. QED
    BY <2>1, <2>2, <2>3, RunKept
<1>10. ASSUME NEW t \in Threads, ReadReply(t) PROVE RunOK'
  <2>1. Reads(t)
    BY <1>10, ReadFacts
  <2>2. UNCHANGED <<claimedBy, rec>>
    BY <2>1 DEF Reads
  <2>3. \A c \in Conns : conn'[c].op = "execute" => conn'[c] = conn[c]
    BY <2>1 DEF Reads
  <2>4. ASSUME NEW r \in Runs, Fresh(r)' PROVE Untried(r)' /\ (rec[r] = "retryable" => pc'[r] = "ended")
    <3>1. CASE r # t
      BY <2>1, <2>2, <2>3, <2>4, <3>1 DEF Reads
    <3>2. CASE r = t /\ pc[t] = "helloReply"
      BY <2>1, <2>2, <2>3, <2>4, <3>2 DEF Reads
    <3>3. CASE r = t /\ pc[t] = "reply"
      <4>1. conn[call[t].conn].op = "execute" /\ conn[call[t].conn].run = t
        BY <2>1, <3>3 DEF Reads
      <4>2. conn[call[t].conn].reply = "expired" /\ rec[t] # "retryable"
        BY <2>1, <2>2, <2>4, <3>3 DEF Reads
      <4>3. \A c \in Conns : conn'[c].op = "execute" => conn'[c].run # t
        BY <2>1, <2>3, <4>1 DEF Reads
      <4>4. \A q \in Requests : claimedBy[q] # t
        BY <2>1, <4>1, <4>2 DEF Reads
      <4>5. QED
        BY <2>2, <3>3, <4>2, <4>3, <4>4
    <3>4. QED
      BY <2>1, <3>1, <3>2, <3>3 DEF Reads
  <2>5. \A r \in Runs : rec'[r] = "retryable" => Fresh(r)'
    OBVIOUS
  <2>6. \A c \in Conns : conn'[c].op = "execute" /\ Unspent(c)' =>
          \A q \in Requests : claimedBy'[q] # conn'[c].run
    BY <2>2, <2>3, SMTT(60)
  <2>7. QED
    BY <2>2, <2>4, <2>5, <2>6
<1>11. ASSUME NEW t \in Threads, ReadTimesOut(t) PROVE RunOK'
  BY <1>11, SMTT(60) DEF ReadTimesOut, Return
<1>12. ASSUME NEW t \in Threads, Panic(t) PROVE RunOK'
  BY <1>12 DEF Panic
<1>13. ASSUME NEW c \in Calls, Dispatch(c) PROVE RunOK'
  <2>1. UNCHANGED <<daemon, mishaps, rec>>
    BY <1>13 DEF Dispatch
  <2>2. QED
    BY <1>13, <2>1, DispatchFacts DEF Begin
<1>14. ASSUME NEW c \in Calls, Requested(c) PROVE RunOK'
  BY <1>14 DEF Requested, Begin
<1>15. ASSUME NEW c \in Calls, Ensured(c) PROVE RunOK'
  BY <1>15 DEF Ensured, Begin
<1>16. ASSUME NEW c \in Calls, ExecGate(c) PROVE RunOK'
  BY <1>16 DEF ExecGate, Begin
<1>17. ASSUME NEW c \in Calls, Reconciled(c) PROVE RunOK'
  BY <1>17 DEF Reconciled
<1>18. ASSUME NEW c \in Calls, Start(c) PROVE RunOK'
  BY <1>18 DEF Start
<1>19. ASSUME NEW c \in Calls, WaitRun(c) PROVE RunOK'
  BY <1>19 DEF WaitRun
<1>20. ASSUME NEW c \in Calls, WaitStatus(c) PROVE RunOK'
  BY <1>20 DEF WaitStatus, Begin
<1>21. ASSUME NEW c \in Calls, StatusGot(c) PROVE RunOK'
  BY <1>21 DEF StatusGot, Begin
<1>22. ASSUME NEW c \in Calls, WriteResponse(c) PROVE RunOK'
  BY <1>22 DEF WriteResponse, Writing
<1>23. ASSUME NEW c \in Calls, StallOut(c) PROVE RunOK'
  BY <1>23 DEF StallOut, Writing
<1>24. ASSUME NEW r \in Runs, RunGate(r) PROVE RunOK'
  BY <1>24 DEF RunGate, Begin
<1>25. ASSUME NEW r \in Runs, Complete(r) PROVE RunOK'
  BY <1>25 DEF Complete, ClassifyRun
<1>26. CASE Exit
  <2>1. \A c \in Conns : /\ conn'[c].st = conn[c].st /\ conn'[c].op = conn[c].op
                         /\ conn'[c].rid = conn[c].rid /\ conn'[c].run = conn[c].run
                         /\ conn'[c].reply = conn[c].reply
    BY <1>26 DEF Exit, Frames
  <2>2. UNCHANGED <<up, busy, grant, claimedBy, effects, rec>>
    BY <1>26 DEF Exit, Frames
  <2>3. \A t \in Threads : pc'[t] = "ended"
    BY <1>26 DEF Exit, Frames
  <2>4. QED
    BY <2>1, <2>2, <2>3, SMTT(60)
<1>27. ASSUME NEW n \in Conns, Post(n), UNCHANGED bridge PROVE RunOK'
  BY <1>27, SMTT(60) DEF Post
<1>28. ASSUME NEW n \in Conns, RefuseBuild(n), UNCHANGED bridge PROVE RunOK'
  BY <1>28 DEF RefuseBuild, Answer
<1>29. ASSUME NEW n \in Conns, Discard(n), UNCHANGED bridge PROVE RunOK'
  BY <1>29 DEF Discard, Idle
<1>30. ASSUME NEW n \in Conns, OpenSession(n), UNCHANGED bridge PROVE RunOK'
  <2>1. \A d \in Conns : /\ conn'[d].op = conn[d].op /\ conn'[d].run = conn[d].run
                         /\ Unspent(d)' => Unspent(d)
    BY <1>30 DEF OpenSession, Turn
  <2>2. \A r \in Runs : /\ Fresh(r)' => Fresh(r)
                        /\ (rec[r] = "retryable" => pc[r] = "ended")'
    BY <1>30 DEF OpenSession, Turn
  <2>3. claimedBy' = claimedBy
    BY <1>30 DEF OpenSession, Turn
  <2>4. QED
    BY <2>1, <2>2, <2>3, RunKept
<1>31. ASSUME NEW n \in Conns, SweepIdleSessions(n), UNCHANGED bridge PROVE RunOK'
  <2>1. \A d \in Conns : /\ conn'[d].op = conn[d].op /\ conn'[d].run = conn[d].run
                         /\ Unspent(d)' => Unspent(d)
    BY <1>31 DEF SweepIdleSessions, Turn, Answer
  <2>2. \A r \in Runs : /\ Fresh(r)' => Fresh(r)
                        /\ (rec[r] = "retryable" => pc[r] = "ended")'
    BY <1>31 DEF SweepIdleSessions, Turn, Answer
  <2>3. claimedBy' = claimedBy
    BY <1>31 DEF SweepIdleSessions, Turn, Answer
  <2>4. QED
    BY <2>1, <2>2, <2>3, RunKept
<1>32. ASSUME NEW n \in Conns, Status(n), UNCHANGED bridge PROVE RunOK'
  <2>1. \A d \in Conns : /\ conn'[d].op = conn[d].op /\ conn'[d].run = conn[d].run
                         /\ Unspent(d)' => Unspent(d)
    BY <1>32 DEF Status, Turn, Answer
  <2>2. \A r \in Runs : /\ Fresh(r)' => Fresh(r)
                        /\ (rec[r] = "retryable" => pc[r] = "ended")'
    BY <1>32 DEF Status, Turn, Answer
  <2>3. claimedBy' = claimedBy
    BY <1>32 DEF Status, Turn, Answer
  <2>4. QED
    BY <2>1, <2>2, <2>3, RunKept
<1>33. ASSUME NEW n \in Conns, Passes(n), UNCHANGED bridge PROVE RunOK'
  BY <1>33 DEF Passes, Keeps
<1>34. ASSUME NEW n \in Conns, NEW x \in {"expired", "refused"}, Refuses(n, x), UNCHANGED
              bridge PROVE RunOK'
  BY <1>34 DEF Refuses, Keeps
<1>35. ASSUME NEW n \in Conns, NEW d \in {"ready", "denied"}, Mints(n, d), UNCHANGED
              bridge PROVE RunOK'
  BY <1>35 DEF Mints
<1>36. ASSUME NEW n \in Conns, Claims(n), UNCHANGED bridge PROVE RunOK'
  BY <1>36 DEF Claims
<1>37. ASSUME NEW n \in Conns, FinishExecute(n), UNCHANGED bridge PROVE RunOK'
  BY <1>37 DEF FinishExecute, Answer
<1>38. CASE Crash /\ UNCHANGED bridge
  BY <1>38 DEF Crash
<1>39. CASE Restart /\ UNCHANGED bridge
  BY <1>39 DEF Restart
<1>40. CASE UNCHANGED vars
  BY <1>40 DEF vars
<1> HIDE DEF BridgeInv, ThreadType, CallType, ConnType, StoreType, RunOK, Fresh,
   Untried, Unspent, WireOK, Wired, OwnOK, Owns, FrameOK
<1>41. QED
  BY <1>1, <1>2, <1>3, <1>4, <1>5, <1>6, <1>7, <1>8, <1>9, <1>10, <1>11, <1>12, <1>13,
     <1>14, <1>15, <1>16, <1>17, <1>18, <1>19, <1>20, <1>21, <1>22, <1>23, <1>24, <1>25,
     <1>26, <1>27, <1>28, <1>29, <1>30, <1>31, <1>32, <1>33, <1>34, <1>35, <1>36, <1>37,
     <1>38, <1>39, <1>40, TurnFacts DEF Next, CallStep, RunStep, WireStep, DaemonStep,
     ServeStep, ActorStep, Outage


(* The bridge and the daemon start in the invariant. *)
LEMMA BridgeInit == ASSUME MailboxAssumption, BridgeAssumption, Init PROVE BridgeInv
<1>1. TypeOK
  <2>1. Idle \in Frames /\ NoCall \in WireCalls
    BY IdleFrame, WireCallType DEF NoCall, Replies, Phases
  <2>2. ConnType
    BY <2>1 DEF Init, DaemonInit, ConnType
  <2>3. CallType
    BY <2>1 DEF Init, CallType
  <2>4. AnyRid \in Requests
    BY DEF AnyRid, MailboxAssumption
  <2>5. ThreadType
    BY <2>4 DEF Init, ThreadType, Places
  <2>6. StoreType
    BY DEF Init, DaemonInit, StoreType, Phases, Settled
  <2>7. up \in BOOLEAN
    BY DEF Init, DaemonInit
  <2>8. RestType
    BY <2>7 DEF Init, DaemonInit, RestType
  <2>9. QED
    BY <2>2, <2>3, <2>5, <2>6, <2>8, TypingFacts DEF Typing
<1>2. /\ \A t \in Threads : pc[t] = "unsent"
      /\ \A c \in Conns : conn[c] = Idle
      /\ \A q \in Requests : claimedBy[q] = NoRun /\ effects[q] = 0
      /\ \A r \in Runs : rec[r] = "none"
      /\ busy = NoConn
  BY DEF Init, DaemonInit
<1>3. WireOK /\ OwnOK
  BY <1>2 DEF WireOK, Wired, OwnOK, Owns, Before, Wire
<1>4. \A c \in Conns : conn[c].st = "free" /\ conn[c].op = "none" /\ conn[c].reply = "none"
  <2>1. Idle.st = "free" /\ Idle.op = "none" /\ Idle.reply = "none"
    BY DEF Idle
  <2>2. QED
    BY <1>2, <2>1
<1>5. FrameOK /\ EffectOK
  BY <1>2, <1>4 DEF FrameOK, EffectOK
<1>6. MintOK
  BY <1>2, <1>4 DEF MintOK, Asking, Minting, Before, Wire, Threads
<1>7. RunOK
  BY <1>2, <1>4 DEF RunOK, Fresh, Untried, MailboxAssumption
<1>8. QED
  BY <1>1, <1>3, <1>5, <1>6, <1>7 DEF BridgeInv

(* Every step of the bridge and of the daemon keeps the invariant. *)
LEMMA BridgeStep ==
    ASSUME MailboxAssumption, BridgeAssumption, BridgeInv, [Next]_vars PROVE BridgeInv'
<1>1. Typing' /\ RestType'
  BY ThreadTypePreserved, CallTypePreserved, ConnTypePreserved, StoreTypePreserved,
     RestTypePreserved DEF Typing
<1>2. TypeOK'
  BY <1>1, TypingFacts, PTL
<1>3. QED
  BY <1>2, WirePreserved, OwnPreserved, FramePreserved, EffectPreserved, MintPreserved,
     RunPreserved DEF BridgeInv

(* The actor enters a claim only in the turn that found the frame's        *)
(* session open.                                                           *)
LEMMA ClaimInTurn ==
    ASSUME MailboxAssumption, BridgeAssumption, BridgeInv, [Next]_vars
    PROVE  \A c \in Conns : busy' = c /\ busy # c => conn[c].sid \in open
<1> SUFFICES ASSUME busy' # busy, busy' \in Conns PROVE conn[busy'].sid \in open
  OBVIOUS
<1> USE DEF daemon, vars
<1>1. ASSUME NEW c \in Calls, Dispatch(c) \/ CallStep(c) PROVE FALSE
  BY <1>1 DEF Dispatch, CallStep, Requested, Ensured, ExecGate, Reconciled, Start, WaitRun,
     WaitStatus, StatusGot, WriteResponse, StallOut
<1>2. ASSUME NEW r \in Runs, RunStep(r) PROVE FALSE
  BY <1>2, SMTT(60) DEF RunStep, RunGate, Complete
<1>3. ASSUME NEW t \in Threads,
             WireStep(t) \/ WaiterTimesOut(t) \/ ReadTimesOut(t) \/ Panic(t)
      PROVE  FALSE
  BY <1>3 DEF WireStep, TakeSession, WakeWaiter, Publish, Release, Connect, ConnectFails,
     ReadReply, WaiterTimesOut, ReadTimesOut, Panic
<1>4. CASE WriteLine \/ ShutdownStep \/ Exit
  BY <1>4 DEF WriteLine, ShutdownStep, Exit
<1>5. ASSUME NEW n \in Conns, ServeStep(n) \/ ActorStep(n) PROVE conn[busy'].sid \in open
  <2>1. CASE ServeStep(n)
    BY <2>1 DEF ServeStep, Post, RefuseBuild, Discard
  <2>2. CASE OpenSession(n) \/ SweepIdleSessions(n) \/ Status(n)
    BY <2>2, ZenonT(60) DEF OpenSession, SweepIdleSessions, Status
  <2>3. CASE FinishExecute(n)
    BY <2>3, SMTT(60) DEF FinishExecute, MailboxAssumption
  <2>4. CASE SessionOpen(n) \/ RequestCapability(n) \/ Execute(n)
    BY <2>4, TurnFacts DEF Passes, Keeps, Refuses, Mints, Claims
  <2>5. QED
    BY <1>5, <2>1, <2>2, <2>3, <2>4 DEF ActorStep
<1>6. CASE Outage
  BY <1>6 DEF Outage, Crash, Restart, OtherSweep, MailboxAssumption
<1>7. CASE UNCHANGED vars
  BY <1>7
<1>8. QED
  BY <1>1, <1>2, <1>3, <1>4, <1>5, <1>6, <1>7 DEF Next, DaemonStep

-----------------------------------------------------------------------------
(* The bridge and the daemon keep the invariant, whatever the interleaving *)
(* of worker threads, run threads, handlers and the actor, and whatever    *)
(* deadlines pass, sessions are swept, threads panic and daemons die.      *)
THEOREM BridgeInvariance == ASSUME MailboxAssumption, BridgeAssumption PROVE Spec => []BridgeInv
<1>1. Init => BridgeInv
  BY BridgeInit
<1>2. BridgeInv /\ [Next]_vars => BridgeInv'
  BY BridgeStep
<1>3. QED
  BY <1>1, <1>2, PTL DEF Spec

(* A run recorded retryable, the answer classify_run reserves for what     *)
(* provably left the grant unclaimed, has claimed nothing, and no frame of *)
(* its own is left in the daemon that could: McpBridge's own property.     *)
THEOREM RetryableSound ==
    ASSUME MailboxAssumption, BridgeAssumption PROVE Spec => []RetryableIsUnclaimed
<1>1. BridgeInv => RetryableIsUnclaimed
  <2> SUFFICES ASSUME BridgeInv, NEW r \in Runs, rec[r] = "retryable"
               PROVE  /\ claimedBy[rid[r]] # r
                      /\ \A c \in Conns :
                           ~(Live(c) /\ conn[c].op = "execute" /\ conn[c].run = r)
    BY DEF RetryableIsUnclaimed
  <2>1. Untried(r)
    BY DEF BridgeInv, RunOK, Fresh
  <2>2. rid[r] \in Requests
    BY TypingFacts DEF BridgeInv, Typing, ThreadType, Threads
  <2>3. QED
    BY <2>1, <2>2 DEF Untried
<1>2. QED
  BY <1>1, BridgeInvariance, PTL

(* However many runs, replays and abandoned frames carry one request, the  *)
(* provider is called at most once for it, and only from inside the turn   *)
(* that found the session open and the grant ready.                        *)
THEOREM OneEffect ==
    ASSUME MailboxAssumption, BridgeAssumption PROVE Spec => OneEffectPerRequest
<1> DEFINE Once == \A q \in Requests : effects[q] <= 1 /\ (effects[q] = 1 => grant[q] # "ready")
           InTurn == \A c \in Conns : busy' = c /\ busy # c => conn[c].sid \in open
<1>1. BridgeInv => Once
  BY DEF BridgeInv, EffectOK
<1>2. BridgeInv /\ [Next]_vars => [InTurn]_vars
  BY ClaimInTurn
<1>3. Spec => []Once /\ [][InTurn]_vars
  BY <1>1, <1>2, BridgeInvariance, PTL DEF Spec
<1>4. QED
  BY <1>3 DEF OneEffectPerRequest

-----------------------------------------------------------------------------
(* The git plane. *)

Installing == {"install", "writing", "written", "executable", "ready"}

(* What a stream holds in each stage. *)
ShapeOf(s) ==
    /\ "stage" \in DOMAIN st[s]
    /\ st[s].stage \in Installing => "file" \in DOMAIN st[s]
    /\ s \in Pushes /\ st[s].stage \in Installing \cup {"pushing", "asking", "landing"} =>
         {"new", "old", "hooked", "carried"} \subseteq DOMAIN st[s]
    /\ s \in Fetches /\ st[s].stage \in Installing \cup {"refreshed"} =>
         {"held", "since", "named", "tip", "head"} \subseteq DOMAIN st[s]
    /\ st[s].stage \in {"pushing", "asking", "landing", "landed"} => s \in Pushes
    /\ st[s].stage \in {"refreshed", "served"} => s \in Fetches
StreamShape == DOMAIN st = Git!Streams /\ \A s \in Git!Streams : ShapeOf(s)

(* A stream past its install has a mirror. *)
MirrorInv ==
    /\ {"exists", "tip", "head"} \subseteq DOMAIN mirror
    /\ \A s \in Git!Streams :
         st[s].stage \in {"writing", "written", "executable", "ready", "pushing", "asking",
                          "landing", "refreshed"} => mirror.exists

(* What accounts for a tip in a fetch: the upstream held it since the      *)
(* refresh, or a push landed it since.                                     *)
Backed(s, tip) ==
    \/ tip \in st[s].held
    \/ \E p \in st[s].since \cap Pushes : st[p].stage = "landed" /\ st[p].new = tip
FreshInv ==
    \A s \in Fetches :
        /\ st[s].stage = "refreshed" =>
             /\ upstream \in st[s].held /\ Backed(s, mirror.tip)
             /\ st[s].named => mirror.head
        /\ st[s].stage = "served" =>
             /\ Backed(s, st[s].tip)
             /\ st[s].named /\ st[s].tip # 0 => st[s].head

(* The hook speaks for a push only once it ran, and confirms after the hop. *)
CarriedInv ==
    \A s \in Pushes :
        /\ st[s].stage \in Installing \cup {"pushing"} => ~st[s].hooked
        /\ st[s].stage \in {"landing", "landed"} /\ st[s].hooked => st[s].carried

StreamStep(s) ==
    \/ \E new \in Git!Tips : Git!ConnectPush(s, new)
    \/ Git!RefuseStream(s) \/ Git!AuthorizeFetch(s) \/ Git!StageHook(s) \/ Git!CloseStaged(s) \/ Git!ChmodStaged(s)
    \/ Git!RenameStaged(s) \/ Git!SpawnReceivePack(s) \/ Git!RunHook(s) \/ Git!AuthorizeRefUpdate(s) \/ Git!Land(s)
    \/ Git!Refresh(s) \/ Git!SpawnUploadPack(s)

(* A step of the git plane is a step of one stream, of the upstream and the*)
(* operator, or a restart.                                                 *)
LEMMA GitNextSplit ==
  [Git!Next]_(Git!gitVars) <=> (\E s \in Git!Streams : StreamStep(s)) \/ Git!Outside \/ Git!Restart \/ UNCHANGED Git!gitVars
  BY DEF Git!Next, StreamStep

(* A fetch that waits notes what the upstream comes to hold and which      *)
(* pushes land, and nothing else of it changes.                            *)
LEMMA WaitingFacts ==
  ASSUME NEW r, NEW e, "stage" \in DOMAIN r,
         r.stage = "refreshed" => {"held", "since", "named"} \subseteq DOMAIN r
  PROVE  /\ DOMAIN Git!Held(r, e) = DOMAIN r /\ Git!Held(r, e).stage = r.stage
         /\ DOMAIN Git!Since(r, e) = DOMAIN r /\ Git!Since(r, e).stage = r.stage
         /\ r.stage # "refreshed" => Git!Held(r, e) = r /\ Git!Since(r, e) = r
         /\ r.stage = "refreshed" =>
              /\ Git!Held(r, e).held = r.held \cup {e} /\ Git!Held(r, e).since = r.since
              /\ Git!Since(r, e).since = r.since \cup {e} /\ Git!Since(r, e).held = r.held
              /\ Git!Held(r, e).named = r.named /\ Git!Since(r, e).named = r.named
  BY DEF Git!Held, Git!Since

(* What a step of stream s leaves of the others. *)
Others(s) ==
    \A t \in Git!Streams \ {s} :
        /\ DOMAIN st'[t] = DOMAIN st[t] /\ st'[t].stage = st[t].stage
        /\ st[t].stage # "refreshed" => st'[t] = st[t]
        /\ st[t].stage = "refreshed" =>
             /\ st'[t].named = st[t].named
             /\ \/ /\ st'[t].held = st[t].held /\ st'[t].since = st[t].since
                   /\ upstream' = upstream /\ mirror'.tip = mirror.tip
                \/ /\ st'[t].held = st[t].held \cup {upstream'} /\ st'[t].since = st[t].since
                   /\ mirror'.tip = mirror.tip
                \/ /\ st'[t].held = st[t].held /\ st'[t].since = st[t].since \cup {s}
                   /\ st'[s].stage = "landed" /\ st'[s].new = mirror'.tip
                   /\ upstream' = upstream

(* The broker's turn for a push. *)
LEMMA AuthorizeFacts ==
  ASSUME Git!GitAssumption, StreamShape, NEW s \in Git!Streams, Git!AuthorizeRefUpdate(s)
  PROVE  /\ s \in cast /\ st[s].stage = "asking" /\ DOMAIN st' = Git!Streams
         /\ s \in Pushes /\ s \notin Fetches
         /\ UNCHANGED <<cast, mirror, hook, staging, exec, broker, rules>>
         /\ Others(s) /\ DOMAIN st'[s] = DOMAIN st[s]
         /\ st'[s].stage \in {"landing", "failed"}
         /\ st'[s].stage = "landing" => st'[s].carried
<1>1. s \in cast /\ st[s].stage = "asking" /\ UNCHANGED <<cast, mirror, hook, staging, exec, broker, rules>>
  BY DEF Git!AuthorizeRefUpdate, Git!At
<1>2. {"stage", "new", "old", "hooked", "carried"} \subseteq DOMAIN st[s] /\ s \in Pushes /\ s \notin Fetches
  BY <1>1 DEF StreamShape, ShapeOf, Git!GitAssumption
<1>3. ASSUME NEW outcome \in Git!HopOutcomes, Git!CarryToUpstream(s, outcome)
      PROVE  /\ DOMAIN st' = Git!Streams /\ Others(s) /\ DOMAIN st'[s] = DOMAIN st[s]
             /\ st'[s].stage \in {"landing", "failed"}
             /\ st'[s].stage = "landing" => st'[s].carried
  <2>1. \A t \in Git!Streams : st'[t] =
          IF t # s THEN Git!Held(st[t], upstream')
          ELSE [st[s] EXCEPT !.stage = IF outcome = "ok" THEN "landing" ELSE "failed",
                             !.carried = outcome # "failed"]
    BY <1>3 DEF Git!CarryToUpstream
  <2>2. Others(s)
    BY <1>1, <2>1, WaitingFacts DEF Others, StreamShape, ShapeOf, Git!Streams
  <2>3. QED
    BY <1>2, <1>3, <2>1, <2>2 DEF Git!CarryToUpstream, Git!HopOutcomes
<1>4. CASE Git!Move(s, "failed") /\ UNCHANGED upstream
  BY <1>1, <1>2, <1>4 DEF Git!Move, Git!Step, Others, StreamShape, ShapeOf
<1>5. QED
  BY <1>1, <1>2, <1>3, <1>4 DEF Git!AuthorizeRefUpdate

(* The ref transaction of receive-pack. *)
LEMMA LandFacts ==
  ASSUME Git!GitAssumption, StreamShape, MirrorInv, NEW s \in Git!Streams, Git!Land(s)
  PROVE  /\ s \in cast /\ st[s].stage = "landing" /\ DOMAIN st' = Git!Streams
         /\ s \in Pushes /\ s \notin Fetches
         /\ UNCHANGED <<cast, upstream, hook, staging, exec, broker, rules>>
         /\ DOMAIN mirror' = DOMAIN mirror
         /\ mirror'.exists = mirror.exists /\ mirror'.head = mirror.head
         /\ Others(s) /\ DOMAIN st'[s] = DOMAIN st[s]
         /\ st'[s].stage \in {"landed", "failed"} /\ st'[s].carried = st[s].carried
         /\ st'[s].hooked = st[s].hooked
<1>1. s \in cast /\ st[s].stage = "landing" /\ UNCHANGED <<cast, upstream, hook, staging, exec, broker, rules>>
  BY DEF Git!Land, Git!At
<1>2. {"stage", "new", "old", "hooked", "carried"} \subseteq DOMAIN st[s] /\ s \in Pushes /\ s \notin Fetches
  BY <1>1 DEF StreamShape, ShapeOf, Git!GitAssumption
<1>3. CASE /\ mirror' = [mirror EXCEPT !.tip = st[s].new]
           /\ st' = [t \in Git!Streams |->
                      IF t = s THEN [st[s] EXCEPT !.stage = "landed"] ELSE Git!Since(st[t], s)]
  <2>1. mirror'.tip = st[s].new /\ DOMAIN mirror' = DOMAIN mirror
        /\ mirror'.exists = mirror.exists /\ mirror'.head = mirror.head
    BY <1>3 DEF MirrorInv
  <2>2. Others(s)
    BY <1>1, <1>3, <2>1, WaitingFacts DEF Others, StreamShape, ShapeOf, Git!Streams
  <2>3. QED
    BY <1>1, <1>2, <1>3, <2>1, <2>2
<1>4. CASE Git!Move(s, "failed") /\ UNCHANGED mirror
  BY <1>1, <1>2, <1>4 DEF Git!Move, Git!Step, Others, StreamShape, ShapeOf
<1>5. QED
  BY <1>1, <1>2, <1>3, <1>4 DEF Git!Land

(* Somebody else's change of the upstream, or of the rules. *)
LEMMA OutsideFacts ==
  ASSUME StreamShape, Git!Outside
  PROVE  /\ DOMAIN st' = Git!Streams /\ UNCHANGED <<cast, mirror, hook, staging, exec, broker>>
         /\ \A t \in Git!Streams :
              /\ DOMAIN st'[t] = DOMAIN st[t] /\ st'[t].stage = st[t].stage
              /\ st[t].stage # "refreshed" => st'[t] = st[t]
              /\ st[t].stage = "refreshed" =>
                   /\ st'[t].since = st[t].since /\ st'[t].named = st[t].named
                   /\ \/ st'[t].held = st[t].held /\ upstream' = upstream
                      \/ st'[t].held = st[t].held \cup {upstream'}
<1>1. CASE st' = [s \in Git!Streams |-> Git!Held(st[s], upstream')]
  BY <1>1, WaitingFacts DEF Git!Outside, StreamShape, ShapeOf, Git!Streams
<1>2. CASE UNCHANGED <<upstream, st>>
  BY <1>2 DEF Git!Outside, StreamShape, ShapeOf
<1>3. QED
  BY <1>1, <1>2 DEF Git!Outside

(* The refresh of a fetch: the mirror's branch becomes the upstream's. *)
LEMMA RefreshFacts ==
  ASSUME StreamShape, MirrorInv, NEW s \in Git!Streams, Git!Refresh(s)
  PROVE  /\ s \in cast /\ s \in Fetches /\ st[s].stage = "ready" /\ DOMAIN st' = Git!Streams
         /\ UNCHANGED <<cast, upstream, hook, staging, exec>>
         /\ \A t \in Git!Streams \ {s} : st'[t] = st[t]
         /\ DOMAIN mirror' = DOMAIN mirror /\ mirror'.exists = mirror.exists
         /\ mirror.head => mirror'.head
         /\ mirror'.tip \in {mirror.tip, upstream}
         /\ \/ st'[s] = [stage |-> "refused"]
            \/ /\ DOMAIN st'[s] = DOMAIN st[s] /\ st'[s].stage = "refreshed"
               /\ st'[s].held = {upstream} /\ mirror'.tip = upstream
               /\ st'[s].named => mirror'.head
<1>1. /\ s \in cast /\ s \in Fetches /\ st[s].stage = "ready" /\ DOMAIN st' = Git!Streams
      /\ UNCHANGED <<cast, upstream, hook, staging, exec>>
      /\ \A t \in Git!Streams \ {s} : st'[t] = st[t]
  BY DEF Git!Refresh, Git!At, Git!Step, StreamShape
<1>2. {"stage", "held", "since", "named", "tip", "head"} \subseteq DOMAIN st[s]
  BY <1>1 DEF StreamShape, ShapeOf, Installing
<1>3. PICK named \in BOOLEAN :
        /\ named => upstream # 0
        /\ \/ /\ mirror' = Git!AlignHead([mirror EXCEPT !.tip = upstream], named)
              /\ Git!Step(s, [st[s] EXCEPT !.stage = "refreshed", !.held = {upstream}, !.named = named])
           \/ /\ mirror' \in {mirror, Git!AlignHead([mirror EXCEPT !.tip = upstream], named)}
              /\ Git!Step(s, [stage |-> "refused"])
  BY Zenon DEF Git!Refresh
<1>4. LET m == Git!AlignHead([mirror EXCEPT !.tip = upstream], named) IN
        /\ DOMAIN m = DOMAIN mirror /\ m.tip = upstream /\ m.exists = mirror.exists
        /\ mirror.head => m.head
        /\ named => m.head
  BY <1>3 DEF Git!AlignHead, MirrorInv
<1>5. CASE /\ mirror' = Git!AlignHead([mirror EXCEPT !.tip = upstream], named)
           /\ Git!Step(s, [st[s] EXCEPT !.stage = "refreshed", !.held = {upstream}, !.named = named])
  <2>1. st'[s] = [st[s] EXCEPT !.stage = "refreshed", !.held = {upstream}, !.named = named]
    BY <1>5 DEF Git!Step, StreamShape, ShapeOf
  <2>2. /\ DOMAIN st'[s] = DOMAIN st[s] /\ st'[s].stage = "refreshed"
        /\ st'[s].held = {upstream} /\ st'[s].named = named
    BY <1>2, <2>1
  <2>3. QED
    BY <1>1, <1>4, <1>5, <2>2
<1>6. CASE /\ mirror' \in {mirror, Git!AlignHead([mirror EXCEPT !.tip = upstream], named)}
           /\ Git!Step(s, [stage |-> "refused"])
  BY <1>1, <1>4, <1>6 DEF Git!Step, StreamShape, ShapeOf
<1>7. QED
  BY <1>3, <1>5, <1>6

(* git runs the hook that is in place, or ignores it. *)
LEMMA HookFacts ==
  ASSUME Git!GitAssumption, StreamShape, NEW s \in Git!Streams, Git!RunHook(s)
  PROVE  /\ s \in cast /\ st[s].stage = "pushing" /\ DOMAIN st' = Git!Streams
         /\ s \in Pushes /\ s \notin Fetches
         /\ UNCHANGED <<cast, upstream, mirror, hook, staging, exec, broker, rules>>
         /\ \A t \in Git!Streams \ {s} : st'[t] = st[t]
         /\ DOMAIN st'[s] = DOMAIN st[s]
         /\ st'[s].stage \in {"landing", "failed", "asking"}
         /\ st'[s].stage = "landing" => st'[s].hooked = st[s].hooked
<1>1. /\ s \in cast /\ st[s].stage = "pushing"
      /\ UNCHANGED <<cast, upstream, mirror, hook, staging, exec, broker, rules>>
  BY DEF Git!RunHook, Git!At
<1>2. {"stage", "new", "old", "hooked", "carried"} \subseteq DOMAIN st[s] /\ s \in Pushes /\ s \notin Fetches
  BY <1>1 DEF StreamShape, ShapeOf, Git!GitAssumption
<1>3. \/ st' = [st EXCEPT ![s] = [st[s] EXCEPT !.stage = "landing"]]
      \/ st' = [st EXCEPT ![s] = [st[s] EXCEPT !.stage = "failed"]]
      \/ st' = [st EXCEPT ![s] = [st[s] EXCEPT !.stage = "asking", !.hooked = TRUE]]
  BY DEF Git!RunHook, Git!Move, Git!Step
<1>4. QED
  BY <1>1, <1>2, <1>3 DEF StreamShape

(* Every step keeps the fields a stage needs. *)
LEMMA StreamShapeStep ==
  ASSUME Git!GitAssumption, StreamShape, MirrorInv, [Git!Next]_(Git!gitVars)
  PROVE  StreamShape'
<1>1. ASSUME NEW s \in Git!Streams, StreamStep(s)
      PROVE  StreamShape'
  <2>1. CASE \E new \in Git!Tips : Git!ConnectPush(s, new)
    BY <1>1, <2>1 DEF Git!ConnectPush, Git!Step, Git!At, StreamShape, Installing,
       Git!GitAssumption, ShapeOf
  <2>2. CASE Git!RefuseStream(s)
    BY <1>1, <2>2 DEF Git!RefuseStream, Git!Step, Git!At, StreamShape, Installing,
       Git!GitAssumption, ShapeOf
  <2>3. CASE Git!AuthorizeFetch(s)
    BY <1>1, <2>3 DEF Git!AuthorizeFetch, Git!Step, Git!At, StreamShape, Installing,
       Git!GitAssumption, ShapeOf
  <2>4. CASE Git!StageHook(s)
    BY <1>1, <2>4 DEF Git!StageHook, Git!Step, Git!At, Git!EnsureMirror, Git!NoMirror,
       StreamShape, Installing, Git!GitAssumption, ShapeOf
  <2>5. CASE Git!CloseStaged(s)
    BY <1>1, <2>5 DEF Git!CloseStaged, Git!Move, Git!Step, Git!At, StreamShape, Installing,
       Git!GitAssumption, ShapeOf
  <2>6. CASE Git!ChmodStaged(s)
    BY <1>1, <2>6 DEF Git!ChmodStaged, Git!InstallFails, Git!Move, Git!Step, Git!At,
       StreamShape, Installing, Git!GitAssumption, ShapeOf
  <2>7. CASE Git!RenameStaged(s)
    BY <1>1, <2>7 DEF Git!RenameStaged, Git!InstallFails, Git!Move, Git!Step, Git!At,
       StreamShape, Installing, Git!GitAssumption, ShapeOf
  <2>8. CASE Git!SpawnReceivePack(s)
    BY <1>1, <2>8 DEF Git!SpawnReceivePack, Git!Step, Git!At, StreamShape, Installing,
       Git!GitAssumption, ShapeOf
  <2>9. CASE Git!RunHook(s)
    BY <1>1, <2>9, HookFacts DEF StreamShape, Installing, Git!GitAssumption, ShapeOf
  <2>10. CASE Git!AuthorizeRefUpdate(s)
    <3>1. DOMAIN st' = Git!Streams /\ \A t \in Git!Streams \ {s} : DOMAIN st'[t] = DOMAIN st[t] /\ st'[t].stage = st[t].stage
      BY <1>1, <2>10, AuthorizeFacts DEF Others
    <3>2. ASSUME NEW t \in Git!Streams \ {s} PROVE ShapeOf(t)'
      BY <3>1, <3>2 DEF StreamShape, ShapeOf
    <3>3. ShapeOf(s)'
      BY <1>1, <2>10, AuthorizeFacts DEF StreamShape, ShapeOf, Installing
    <3>4. QED
      BY <3>1, <3>2, <3>3 DEF StreamShape
  <2>11. CASE Git!Land(s)
    <3>1. DOMAIN st' = Git!Streams /\ \A t \in Git!Streams \ {s} : DOMAIN st'[t] = DOMAIN st[t] /\ st'[t].stage = st[t].stage
      BY <1>1, <2>11, LandFacts DEF Others
    <3>2. ASSUME NEW t \in Git!Streams \ {s} PROVE ShapeOf(t)'
      BY <3>1, <3>2 DEF StreamShape, ShapeOf
    <3>3. ShapeOf(s)'
      BY <1>1, <2>11, LandFacts DEF StreamShape, ShapeOf, Installing
    <3>4. QED
      BY <3>1, <3>2, <3>3 DEF StreamShape
  <2>12. CASE Git!Refresh(s)
    <3>1. DOMAIN st' = Git!Streams /\ \A t \in Git!Streams \ {s} : DOMAIN st'[t] = DOMAIN st[t] /\ st'[t].stage = st[t].stage
      BY <1>1, <2>12, RefreshFacts DEF StreamShape
    <3>2. ASSUME NEW t \in Git!Streams \ {s} PROVE ShapeOf(t)'
      BY <3>1, <3>2 DEF StreamShape, ShapeOf
    <3>3. ShapeOf(s)'
      BY <1>1, <2>12, RefreshFacts DEF StreamShape, ShapeOf, Installing
    <3>4. QED
      BY <3>1, <3>2, <3>3 DEF StreamShape
  <2>13. CASE Git!SpawnUploadPack(s)
    BY <1>1, <2>13 DEF Git!SpawnUploadPack, Git!Step, Git!At, StreamShape, Installing,
       Git!GitAssumption, ShapeOf
  <2>14. QED
    BY <1>1, <2>1, <2>2, <2>3, <2>4, <2>5, <2>6, <2>7, <2>8, <2>9, <2>10, <2>11, <2>12,
       <2>13 DEF StreamStep
<1>2. CASE Git!Outside
  BY <1>2, OutsideFacts DEF StreamShape, Installing, Git!GitAssumption, ShapeOf
<1>3. CASE Git!Restart
  BY <1>3 DEF Git!Restart, Git!NoMirror, StreamShape, Installing, Git!GitAssumption, ShapeOf
<1>4. CASE UNCHANGED Git!gitVars
  BY <1>4 DEF Git!gitVars, StreamShape, Installing, Git!GitAssumption, ShapeOf
<1>5. QED
  BY <1>1, <1>2, <1>3, <1>4, GitNextSplit

(* Every step keeps the mirror under the streams that use it. *)
LEMMA MirrorStep ==
  ASSUME Git!GitAssumption, StreamShape, MirrorInv, [Git!Next]_(Git!gitVars)
  PROVE  MirrorInv'
<1>1. ASSUME NEW s \in Git!Streams, StreamStep(s)
      PROVE  MirrorInv'
  <2>1. CASE \E new \in Git!Tips : Git!ConnectPush(s, new)
    BY <1>1, <2>1 DEF Git!ConnectPush, Git!Step, Git!At, StreamShape, ShapeOf, MirrorInv,
       Installing, Git!Streams
  <2>2. CASE Git!RefuseStream(s)
    BY <1>1, <2>2 DEF Git!RefuseStream, Git!Step, Git!At, StreamShape, ShapeOf, MirrorInv,
       Installing, Git!Streams
  <2>3. CASE Git!AuthorizeFetch(s)
    BY <1>1, <2>3 DEF Git!AuthorizeFetch, Git!Step, Git!At, StreamShape, ShapeOf, MirrorInv,
       Installing, Git!Streams
  <2>4. CASE Git!StageHook(s)
    BY <1>1, <2>4 DEF Git!StageHook, Git!Step, Git!At, Git!EnsureMirror, Git!NoMirror,
       StreamShape, ShapeOf, MirrorInv, Installing, Git!Streams
  <2>5. CASE Git!CloseStaged(s)
    BY <1>1, <2>5 DEF Git!CloseStaged, Git!Move, Git!Step, Git!At, StreamShape, ShapeOf,
       MirrorInv, Installing, Git!Streams
  <2>6. CASE Git!ChmodStaged(s)
    BY <1>1, <2>6 DEF Git!ChmodStaged, Git!InstallFails, Git!Move, Git!Step, Git!At,
       StreamShape, ShapeOf, MirrorInv, Installing, Git!Streams
  <2>7. CASE Git!RenameStaged(s)
    BY <1>1, <2>7 DEF Git!RenameStaged, Git!InstallFails, Git!Move, Git!Step, Git!At,
       StreamShape, ShapeOf, MirrorInv, Installing, Git!Streams
  <2>8. CASE Git!SpawnReceivePack(s)
    BY <1>1, <2>8 DEF Git!SpawnReceivePack, Git!Step, Git!At, StreamShape, ShapeOf,
       MirrorInv, Installing, Git!Streams
  <2>9. CASE Git!RunHook(s)
    BY <1>1, <2>9, HookFacts DEF StreamShape, ShapeOf, MirrorInv, Installing, Git!Streams
  <2>10. CASE Git!AuthorizeRefUpdate(s)
    BY <1>1, <2>10, AuthorizeFacts DEF Others, StreamShape, ShapeOf, MirrorInv, Installing,
       Git!Streams
  <2>11. CASE Git!Land(s)
    BY <1>1, <2>11, LandFacts DEF Others, StreamShape, ShapeOf, MirrorInv, Installing,
       Git!Streams
  <2>12. CASE Git!Refresh(s)
    BY <1>1, <2>12, RefreshFacts DEF StreamShape, ShapeOf, MirrorInv, Installing,
       Git!Streams
  <2>13. CASE Git!SpawnUploadPack(s)
    BY <1>1, <2>13 DEF Git!SpawnUploadPack, Git!Step, Git!At, StreamShape, ShapeOf,
       MirrorInv, Installing, Git!Streams
  <2>14. QED
    BY <1>1, <2>1, <2>2, <2>3, <2>4, <2>5, <2>6, <2>7, <2>8, <2>9, <2>10, <2>11, <2>12,
       <2>13 DEF StreamStep
<1>2. CASE Git!Outside
  BY <1>2, OutsideFacts DEF StreamShape, ShapeOf, MirrorInv, Installing, Git!Streams
<1>3. CASE Git!Restart
  BY <1>3 DEF Git!Restart, Git!NoMirror, StreamShape, ShapeOf, MirrorInv, Installing,
     Git!Streams
<1>4. CASE UNCHANGED Git!gitVars
  BY <1>4 DEF Git!gitVars, StreamShape, ShapeOf, MirrorInv, Installing, Git!Streams
<1>5. QED
  BY <1>1, <1>2, <1>3, <1>4, GitNextSplit

(* Every step keeps a fetch fresh: the tip it will be served is one it saw. *)
LEMMA FreshStep ==
  ASSUME Git!GitAssumption, StreamShape, MirrorInv, FreshInv, [Git!Next]_(Git!gitVars)
  PROVE  FreshInv'
<1>1. ASSUME NEW s \in Git!Streams, StreamStep(s)
      PROVE  FreshInv'
  <2>1. CASE \E new \in Git!Tips : Git!ConnectPush(s, new)
    BY <1>1, <2>1 DEF Git!ConnectPush, Git!Step, Git!At, StreamShape, ShapeOf, MirrorInv,
       FreshInv, Backed, Installing, Git!Streams
  <2>2. CASE Git!RefuseStream(s)
    BY <1>1, <2>2 DEF Git!RefuseStream, Git!Step, Git!At, StreamShape, ShapeOf, MirrorInv,
       FreshInv, Backed, Installing, Git!Streams
  <2>3. CASE Git!AuthorizeFetch(s)
    BY <1>1, <2>3 DEF Git!AuthorizeFetch, Git!Step, Git!At, StreamShape, ShapeOf, MirrorInv,
       FreshInv, Backed, Installing, Git!Streams
  <2>4. CASE Git!StageHook(s)
    BY <1>1, <2>4 DEF Git!StageHook, Git!Step, Git!At, Git!EnsureMirror, Git!NoMirror,
       StreamShape, ShapeOf, MirrorInv, FreshInv, Backed, Installing, Git!Streams
  <2>5. CASE Git!CloseStaged(s)
    BY <1>1, <2>5 DEF Git!CloseStaged, Git!Move, Git!Step, Git!At, StreamShape, ShapeOf,
       MirrorInv, FreshInv, Backed, Installing, Git!Streams
  <2>6. CASE Git!ChmodStaged(s)
    BY <1>1, <2>6 DEF Git!ChmodStaged, Git!InstallFails, Git!Move, Git!Step, Git!At,
       StreamShape, ShapeOf, MirrorInv, FreshInv, Backed, Installing, Git!Streams
  <2>7. CASE Git!RenameStaged(s)
    BY <1>1, <2>7 DEF Git!RenameStaged, Git!InstallFails, Git!Move, Git!Step, Git!At,
       StreamShape, ShapeOf, MirrorInv, FreshInv, Backed, Installing, Git!Streams
  <2>8. CASE Git!SpawnReceivePack(s)
    BY <1>1, <2>8 DEF Git!SpawnReceivePack, Git!Step, Git!At, StreamShape, ShapeOf,
       MirrorInv, FreshInv, Backed, Installing, Git!Streams
  <2>9. CASE Git!RunHook(s)
    BY <1>1, <2>9, HookFacts DEF StreamShape, ShapeOf, MirrorInv, FreshInv, Backed, Installing, Git!Streams
  <2>10. CASE Git!AuthorizeRefUpdate(s)
    BY <1>1, <2>10, AuthorizeFacts DEF Others, StreamShape, ShapeOf, MirrorInv, FreshInv, Backed,
       Installing, Git!Streams
  <2>11. CASE Git!Land(s)
    BY <1>1, <2>11, LandFacts DEF Others, StreamShape, ShapeOf, MirrorInv, FreshInv, Backed,
       Installing, Git!Streams
  <2>12. CASE Git!Refresh(s)
    BY <1>1, <2>12, RefreshFacts DEF StreamShape, ShapeOf, MirrorInv, FreshInv, Backed, Installing,
       Git!Streams
  <2>13. CASE Git!SpawnUploadPack(s)
    BY <1>1, <2>13 DEF Git!SpawnUploadPack, Git!Step, Git!At, StreamShape, ShapeOf,
       MirrorInv, FreshInv, Backed, Installing, Git!Streams
  <2>14. QED
    BY <1>1, <2>1, <2>2, <2>3, <2>4, <2>5, <2>6, <2>7, <2>8, <2>9, <2>10, <2>11, <2>12,
       <2>13 DEF StreamStep
<1>2. CASE Git!Outside
  BY <1>2, OutsideFacts DEF StreamShape, ShapeOf, MirrorInv, FreshInv, Backed, Installing,
     Git!Streams
<1>3. CASE Git!Restart
  BY <1>3 DEF Git!Restart, Git!NoMirror, StreamShape, ShapeOf, MirrorInv, FreshInv, Backed,
     Installing, Git!Streams
<1>4. CASE UNCHANGED Git!gitVars
  BY <1>4 DEF Git!gitVars, StreamShape, ShapeOf, MirrorInv, FreshInv, Backed, Installing,
     Git!Streams
<1>5. QED
  BY <1>1, <1>2, <1>3, <1>4, GitNextSplit

(* A push lands only by the hook's confirmation, which follows the hop. *)
LEMMA CarriedStep ==
  ASSUME Git!GitAssumption, StreamShape, MirrorInv, CarriedInv, [Git!Next]_(Git!gitVars)
  PROVE  CarriedInv'
<1>1. ASSUME NEW s \in Git!Streams, StreamStep(s)
      PROVE  CarriedInv'
  <2>1. CASE \E new \in Git!Tips : Git!ConnectPush(s, new)
    BY <1>1, <2>1 DEF Git!ConnectPush, Git!Step, Git!At, StreamShape, ShapeOf, CarriedInv,
       Installing, Git!Streams
  <2>2. CASE Git!RefuseStream(s)
    BY <1>1, <2>2 DEF Git!RefuseStream, Git!Step, Git!At, StreamShape, ShapeOf, CarriedInv,
       Installing, Git!Streams
  <2>3. CASE Git!AuthorizeFetch(s)
    BY <1>1, <2>3 DEF Git!AuthorizeFetch, Git!Step, Git!At, StreamShape, ShapeOf,
       Git!GitAssumption, CarriedInv, Installing, Git!Streams
  <2>4. CASE Git!StageHook(s)
    BY <1>1, <2>4 DEF Git!StageHook, Git!Step, Git!At, Git!EnsureMirror, Git!NoMirror,
       StreamShape, ShapeOf, CarriedInv, Installing, Git!Streams
  <2>5. CASE Git!CloseStaged(s)
    BY <1>1, <2>5 DEF Git!CloseStaged, Git!Move, Git!Step, Git!At, StreamShape, ShapeOf,
       CarriedInv, Installing, Git!Streams
  <2>6. CASE Git!ChmodStaged(s)
    BY <1>1, <2>6 DEF Git!ChmodStaged, Git!InstallFails, Git!Move, Git!Step, Git!At,
       StreamShape, ShapeOf, CarriedInv, Installing, Git!Streams
  <2>7. CASE Git!RenameStaged(s)
    BY <1>1, <2>7 DEF Git!RenameStaged, Git!InstallFails, Git!Move, Git!Step, Git!At,
       StreamShape, ShapeOf, CarriedInv, Installing, Git!Streams
  <2>8. CASE Git!SpawnReceivePack(s)
    BY <1>1, <2>8 DEF Git!SpawnReceivePack, Git!Step, Git!At, StreamShape, ShapeOf,
       CarriedInv, Installing, Git!Streams
  <2>9. CASE Git!RunHook(s)
    BY <1>1, <2>9, HookFacts DEF StreamShape, ShapeOf, CarriedInv, Installing, Git!Streams
  <2>10. CASE Git!AuthorizeRefUpdate(s)
    BY <1>1, <2>10, AuthorizeFacts DEF Others, StreamShape, ShapeOf, CarriedInv, Installing,
       Git!Streams
  <2>11. CASE Git!Land(s)
    BY <1>1, <2>11, LandFacts DEF Others, StreamShape, ShapeOf, CarriedInv, Installing,
       Git!Streams
  <2>12. CASE Git!Refresh(s)
    BY <1>1, <2>12, RefreshFacts DEF StreamShape, ShapeOf, CarriedInv, Installing,
       Git!Streams
  <2>13. CASE Git!SpawnUploadPack(s)
    BY <1>1, <2>13 DEF Git!SpawnUploadPack, Git!Step, Git!At, StreamShape, ShapeOf,
       CarriedInv, Installing, Git!Streams
  <2>14. QED
    BY <1>1, <2>1, <2>2, <2>3, <2>4, <2>5, <2>6, <2>7, <2>8, <2>9, <2>10, <2>11, <2>12,
       <2>13 DEF StreamStep
<1>2. CASE Git!Outside
  BY <1>2, OutsideFacts DEF StreamShape, ShapeOf, CarriedInv, Installing, Git!Streams
<1>3. CASE Git!Restart
  BY <1>3 DEF Git!Restart, Git!NoMirror, StreamShape, ShapeOf, CarriedInv, Installing,
     Git!Streams
<1>4. CASE UNCHANGED Git!gitVars
  BY <1>4 DEF Git!gitVars, StreamShape, ShapeOf, CarriedInv, Installing, Git!Streams
<1>5. QED
  BY <1>1, <1>2, <1>3, <1>4, GitNextSplit

(* The composition implements the git plane: the bridge leaves it alone. *)
LEMMA ImplementsGit == PartSpec => Git!Spec
<1>1. PartInit => Git!Init
  BY DEF PartInit
<1>2. [PartNext]_<<part, vars, gitState>> => [Git!Next]_(Git!gitVars)
  BY DEF PartNext, CallsPart, GitPart, gitState, Git!gitVars
<1>3. QED
  BY <1>1, <1>2, PTL DEF PartSpec, Git!Spec

(* At the start no stream is connected. *)
LEMMA GitStart ==
  ASSUME Git!Init
  PROVE  /\ DOMAIN st = Git!Streams
         /\ \A s \in Git!Streams : "stage" \in DOMAIN st[s] /\ st[s].stage = "absent"
         /\ {"exists", "tip", "head"} \subseteq DOMAIN mirror
<1>1. st = [s \in Git!Streams |-> [stage |-> "absent"]]
  BY DEF Git!Init
<1>2. {"exists", "tip", "head"} \subseteq DOMAIN mirror
  BY DEF Git!Init, Git!NoMirror
<1>3. QED
  BY <1>1, <1>2

(* The git plane starts so, and stays so whoever connects. *)
GitInv == StreamShape /\ MirrorInv /\ FreshInv /\ CarriedInv
LEMMA GitInvariance == Git!Spec => []GitInv
<1>1. Git!Init => GitInv
  BY GitStart DEF GitInv, StreamShape, ShapeOf, Installing, MirrorInv, FreshInv, CarriedInv, Git!Streams
<1>2. GitInv /\ [Git!Next]_(Git!gitVars) => GitInv'
  BY StreamsAssumption, StreamShapeStep, MirrorStep, FreshStep, CarriedStep DEF GitInv
<1>3. QED
  BY <1>1, <1>2, PTL DEF Git!Spec

(* A fetch is served a tip the upstream held at its refresh or after it,   *)
(* or one that a push landed in the mirror after it, and on a HEAD that    *)
(* resolves where the upstream's HEAD named the branch; however many       *)
(* streams share the mirror and whatever a failed refresh left behind      *)
(* (authorize_fetch, refresh_from_upstream, align_mirror_head).            *)
THEOREM FetchFresh == PartSpec => []Git!ServedIsFresh
<1>1. GitInv => Git!ServedIsFresh
  BY DEF GitInv, FreshInv, Backed, Git!ServedIsFresh
<1>2. QED
  BY <1>1, ImplementsGit, GitInvariance, PTL

(* The mirror follows the upstream for any commits, streams, installs and  *)
(* restarts: a push whose update hook ran lands only when the upstream     *)
(* took it, and a fetch is fresh (the update hook, carry_to_upstream,      *)
(* refresh_from_upstream).                                                 *)
THEOREM MirrorSound == PartSpec => []MirrorHolds
<1>1. GitInv => Git!ConfirmedWasCarried
  BY DEF GitInv, CarriedInv, Git!ConfirmedWasCarried
<1>2. QED
  BY <1>1, FetchFresh, GitInvariance, ImplementsGit, PTL DEF MirrorHolds
=============================================================================
