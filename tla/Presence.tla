------------------------------- MODULE Presence -------------------------------
(***************************************************************************)
(* The human-presence gate every ceremony asks before it commits           *)
(* (cermet-ctl-client/src/pam_presence.rs and presence.rs): on Linux a     *)
(* password conversation with a PAM stack, on macOS a dialog of the        *)
(* operating system awaited with a timeout.                                *)
(*                                                                         *)
(* The PAM stack is arbitrary: it may ask in any batches, ignore a failed  *)
(* conversation, and accept without a prompt.  A person may or may not be  *)
(* at the terminal, and may answer a dialog after its call gave up.        *)
(***************************************************************************)
EXTENDS Naturals, Sequences

CONSTANTS
    MaxCalls,      \* confirm() calls one command makes
    MaxBatch,      \* messages of one conversation call
    MaxConvs       \* conversation calls of one authentication

GateAssumption == MaxCalls \in Nat /\ MaxBatch \in Nat /\ MaxConvs \in Nat

VARIABLES
    host,          \* what this host offers: mechanism, service file, terminal
    calls,         \* confirm() calls begun
    pc,
    batch,         \* messages of the conversation still to answer
    convs,         \* conversation calls so far
    filled,        \* answers held in the response array
    prompts,       \* ConvState.echo_off_prompts
    echo,          \* the terminal echoes what is typed
    handle,        \* the PAM handle: none, open, ended
    reply,         \* what the dialog of each call sent on its channel
    outcome,
    typed          \* echo-off lines a person completed in this call (auxiliary)

gateVars == <<host, calls, pc, batch, convs, filled, prompts, echo, handle, reply, outcome, typed>>

conversation == <<batch, convs, filled, prompts, echo, typed>>

ServiceFiles == [file : BOOLEAN, root : BOOLEAN, writable : BOOLEAN, readable : BOOLEAN,
                 opens : BOOLEAN]

Styles == {"echo_off", "echo_on", "info"}

Batches == UNION {[1..n -> Styles] : n \in 1..MaxBatch}

Outcomes == {"Confirmed", "Denied", "Unavailable"}

GateTypeOK ==
    /\ host \in [mechanism : {"pam", "device_owner"}, service : ServiceFiles,
                 stdin : BOOLEAN, terminal : BOOLEAN, usable : BOOLEAN]
    /\ calls \in 0..MaxCalls
    /\ pc \in {"idle", "service", "prepare", "start", "auth", "conv", "read", "account", "wait"}
    /\ batch \in Batches \cup {<<>>} /\ convs \in 0..MaxConvs
    /\ filled \in 0..MaxBatch
    /\ prompts \in 0..(MaxBatch * MaxConvs) /\ typed \in 0..(MaxBatch * MaxConvs)
    /\ echo \in BOOLEAN /\ handle \in {"none", "open", "ended"}
    /\ reply \in [1..MaxCalls -> Outcomes \cup {"none", "shown"}]
    /\ outcome \in Outcomes \cup {"none"}

Init ==
    /\ host \in [mechanism : {"pam", "device_owner"}, service : ServiceFiles,
                 stdin : BOOLEAN, terminal : BOOLEAN, usable : BOOLEAN]
    /\ calls = 0 /\ pc = "idle" /\ batch = <<>> /\ convs = 0 /\ filled = 0 /\ prompts = 0
    /\ echo = TRUE /\ handle = "none" /\ reply = [c \in 1..MaxCalls |-> "none"]
    /\ outcome = "none" /\ typed = 0
-----------------------------------------------------------------------------
(* One call *)

Finish(result) == pc' = "idle" /\ outcome' = result

Confirm ==
    /\ pc = "idle" /\ calls < MaxCalls
    /\ calls' = calls + 1 /\ outcome' = "none" /\ handle' = "none" /\ typed' = 0
    /\ pc' = IF host.mechanism = "pam" THEN "service" ELSE "prepare"
    /\ UNCHANGED <<host, batch, convs, filled, prompts, echo, reply>>

\* The dedicated stack is a regular file only root writes and this client reads.
EvaluateServiceMeta(m) == m.file /\ m.root /\ ~m.writable /\ m.readable

\* lstat and its verdict, then an open that proves the stack can be read at all.
ServiceFileOk ==
    /\ pc = "service"
    /\ IF EvaluateServiceMeta(host.service) /\ host.service.opens
       THEN pc' = "prepare" /\ UNCHANGED outcome
       ELSE Finish("Unavailable")
    /\ UNCHANGED <<host, calls, conversation, handle, reply>>

\* The terminal, the invoking user's name and libpam; then a fresh prompt counter.
PreparePam ==
    /\ pc = "prepare" /\ host.mechanism = "pam"
    /\ IF host.stdin /\ host.usable
       THEN pc' = "start" /\ prompts' = 0 /\ convs' = 0 /\ UNCHANGED outcome
       ELSE Finish("Unavailable") /\ UNCHANGED <<prompts, convs>>
    /\ UNCHANGED <<host, calls, batch, filled, echo, typed, handle, reply>>

\* pam_start: a failure may still have made a handle, which is ended.
PamStart ==
    /\ pc = "start"
    /\ \/ pc' = "auth" /\ handle' = "open" /\ UNCHANGED outcome
       \/ Finish("Unavailable") /\ handle' \in {"none", "ended"}
    /\ UNCHANGED <<host, calls, conversation, reply>>
-----------------------------------------------------------------------------
(* The conversation callback, which the stack calls when it likes          *)

\* pam_conv_cb; without its response array it fails at once.
Converse ==
    /\ pc = "auth" /\ convs < MaxConvs
    /\ convs' = convs + 1
    /\ \/ batch' \in Batches /\ pc' = "conv"
       \/ UNCHANGED <<batch, pc>>
    /\ UNCHANGED <<host, calls, filled, prompts, echo, typed, handle, reply, outcome>>

\* A message that wants no answer is shown; a prompt opens /dev/tty.
Message ==
    /\ pc = "conv" /\ batch # <<>>
    /\ IF Head(batch) = "info"
       THEN batch' = Tail(batch) /\ UNCHANGED <<pc, echo>>
       ELSE pc' = "read" /\ echo' = (Head(batch) = "echo_on" \/ ~host.terminal)
                         /\ UNCHANGED batch
    /\ UNCHANGED <<host, calls, convs, filled, prompts, typed, handle, reply, outcome>>

\* The error path of the conversation: every answer already stored is wiped and
\* freed, and the stack is told PAM_CONV_ERR.
FreeResponses == filled' = 0 /\ batch' = <<>> /\ pc' = "auth"

\* Defect: the challenge is counted when it is shown, not when it is answered.
ReadFails_Counted ==
    /\ FreeResponses
    /\ prompts' = prompts + 1
    /\ UNCHANGED typed

\* A read error, an end of file before Enter, or a line too long.
ReadFails ==
    /\ FreeResponses
    /\ UNCHANGED <<prompts, typed>>

\* A complete line; the counter moves only once the answer is stored.
LineStored ==
    /\ host.terminal
    /\ filled' = filled + 1 /\ batch' = Tail(batch) /\ pc' = "conv"
    /\ IF Head(batch) = "echo_off"
       THEN prompts' = prompts + 1 /\ typed' = typed + 1
       ELSE UNCHANGED <<prompts, typed>>

FillPromptResponse ==
    /\ pc = "read"
    /\ ReadFails \/ LineStored
    /\ echo' = TRUE
    /\ UNCHANGED <<host, calls, convs, handle, reply, outcome>>

\* The array is PAM's to free.
Answered ==
    /\ pc = "conv" /\ batch = <<>>
    /\ filled' = 0 /\ pc' = "auth"
    /\ UNCHANGED <<host, calls, batch, convs, prompts, echo, typed, handle, reply, outcome>>
-----------------------------------------------------------------------------
(* The verdict *)

Decide(auth, acct, userOk) ==
    IF auth /\ acct /\ prompts >= 1 /\ userOk THEN "Confirmed" ELSE "Denied"

\* pam_end on every path after pam_start.
Verdict(auth, acct, userOk) == Finish(Decide(auth, acct, userOk)) /\ handle' = "ended"

\* pam_authenticate returns; only a success is followed by account management.
Authenticated ==
    /\ pc = "auth"
    /\ \/ pc' = "account" /\ UNCHANGED <<handle, outcome>>
       \/ Verdict(FALSE, FALSE, FALSE)
    /\ UNCHANGED <<host, calls, conversation, reply>>

\* pam_acct_mgmt, and the name the stack authenticated.
AccountManaged ==
    /\ pc = "account"
    /\ \E acct, userOk \in BOOLEAN : Verdict(TRUE, acct, userOk)
    /\ UNCHANGED <<host, calls, conversation, reply>>
-----------------------------------------------------------------------------
(* The dialog of the operating system *)

\* evaluate: the dialog is shown with a channel of this call's own.
Evaluate ==
    /\ pc = "prepare" /\ host.mechanism = "device_owner"
    /\ IF host.usable
       THEN pc' = "wait" /\ reply' = [reply EXCEPT ![calls] = "shown"] /\ UNCHANGED outcome
       ELSE Finish("Unavailable") /\ UNCHANGED reply
    /\ UNCHANGED <<host, calls, conversation, handle>>

Interpret(success, error) == IF success /\ ~error THEN "Confirmed" ELSE "Denied"

\* The person answers, perhaps long after the call stopped waiting.
Answer(c) ==
    /\ reply[c] = "shown"
    /\ \E success, error \in BOOLEAN : reply' = [reply EXCEPT ![c] = Interpret(success, error)]
    /\ UNCHANGED <<host, calls, pc, conversation, handle, outcome>>

\* recv_timeout: this call's answer, or none within a minute.
Receive ==
    /\ pc = "wait"
    /\ \/ reply[calls] # "shown" /\ Finish(reply[calls])
       \/ reply[calls] = "shown" /\ Finish("Unavailable")
    /\ UNCHANGED <<host, calls, conversation, handle, reply>>
-----------------------------------------------------------------------------
PamStep ==
    \/ ServiceFileOk \/ PreparePam \/ PamStart \/ Converse \/ Message \/ FillPromptResponse
    \/ Answered \/ Authenticated \/ AccountManaged

Next ==
    \/ Confirm \/ PamStep \/ Evaluate \/ Receive
    \/ \E c \in 1..MaxCalls : Answer(c)

GateSpec == Init /\ [][Next]_gateVars
-----------------------------------------------------------------------------
Returned == pc = "idle" /\ calls > 0

(* A confirmation is a person's, given in this very call: on Linux someone *)
(* completed an echo-off prompt at the terminal, whatever the stack        *)
(* answers on its own; on macOS the dialog of this call was accepted, not  *)
(* that of an earlier one.                                                 *)
ConfirmedByAPerson ==
    Returned /\ outcome = "Confirmed" =>
        IF host.mechanism = "pam" THEN typed > 0 ELSE reply[calls] = "Confirmed"

(* A host without the mechanism never reads as a person's refusal, and a   *)
(* call that returned left nothing behind: the terminal echoes, the handle *)
(* is closed, and no answer is kept in memory.                             *)
AbsentIsNotDenied ==
    Returned /\ outcome = "Denied" =>
        IF host.mechanism = "pam" THEN handle = "ended" ELSE reply[calls] = "Denied"

NothingLeft == Returned => echo /\ handle # "open" /\ filled = 0
=============================================================================
