---------------------------- MODULE MoneyProvider ----------------------------
(***************************************************************************)
(* The compiled knowledge the broker has of the money verbs: what each     *)
(* evidence profile reads and freezes, which preconditions are re-checked  *)
(* at execution, and which answers prove or refute the effect.             *)
(*                                                                         *)
(* A verb touches one provider object, abstracted to what the profiles     *)
(* tell apart:                                                             *)
(*   status   where the object is in its life                              *)
(*   amount   its total;  left  what is still capturable, refundable,      *)
(*            payable or due                                               *)
(*   owner    the customer it belongs to; holder the customer the payment  *)
(*            method (or destination) belongs to                           *)
(*   inert    no latent effect hangs on it (the "safe shape")              *)
(*   teams    the team ids the provider lists under the supplied slug      *)
(***************************************************************************)
EXTENDS Integers, FiniteSets

MoneyVerbs == {"create", "confirm", "capture", "cancel", "invoice", "refund", "payout"}

\* What the agent supplies (beside the object's own identifier) and what the
\* provider resolves; account, mode and currency, which every profile resolves,
\* are left out.
CreateProfile  == [inputs |-> {"amount"}, outputs |-> {}]
ConfirmProfile == [inputs |-> {}, outputs |-> {"amount", "status", "owner"}]
CaptureProfile == [inputs |-> {"amount"}, outputs |-> {"status", "owner", "total", "left"}]
CancelProfile  == [inputs |-> {}, outputs |-> {"amount", "status", "owner"}]
InvoiceProfile == [inputs |-> {}, outputs |-> {"amount", "status", "owner"}]
RefundProfile  == [inputs |-> {"amount"}, outputs |-> {}]
PayoutProfile  == [inputs |-> {"amount"}, outputs |-> {}]

\* The canonicalization profile rewrites a field the agent supplies.
TeamProfile == [inputs |-> {"team"}, outputs |-> {}]

Profile(v) ==
    CASE v = "create"  -> CreateProfile
      [] v = "confirm" -> ConfirmProfile
      [] v = "capture" -> CaptureProfile
      [] v = "cancel"  -> CancelProfile
      [] v = "invoice" -> InvoiceProfile
      [] v = "refund"  -> RefundProfile
      [] v = "payout"  -> PayoutProfile
      [] OTHER -> TeamProfile

Inputs(v) == Profile(v).inputs
Outputs(v) == Profile(v).outputs

\* A template may name a profile only when the two field sets are disjoint, a
\* canonicalized field is one the agent supplies, and a money template declares
\* one amount.
CanonicalizationFits(v) == v = "deploy" => "team" \in Inputs(v)
EvidenceFits(v) == Inputs(v) \cap Outputs(v) = {}
MoneyFits(v) == v \in MoneyVerbs => "amount" \in Inputs(v) \cup Outputs(v)

ProfileFits(v) == CanonicalizationFits(v) /\ EvidenceFits(v) /\ MoneyFits(v)

-----------------------------------------------------------------------------
(* Request evidence *)

\* A cancellation of a capturable intent releases what is capturable.
Observed(v, w, f) ==
    CASE f = "status" -> w.status
      [] f = "owner"  -> w.owner
      [] f = "total"  -> w.amount
      [] f = "left"   -> w.left
      [] f = "amount" -> IF \/ v = "invoice"
                            \/ v = "cancel" /\ w.status = "capturable"
                         THEN w.left ELSE w.amount

CreateEvidence(w)  == w.holder = w.owner
ConfirmEvidence(w) == w.inert /\ w.status = "confirmable" /\ w.amount > 0 /\ w.holder = w.owner
CaptureEvidence(w, amount) == w.inert /\ w.status = "capturable" /\ w.left >= amount
CancelEvidence(w) ==
    w.inert /\ w.status \in {"confirmable", "capturable"} /\ Observed("cancel", w, "amount") > 0
InvoiceEvidence(w) == w.inert /\ w.status = "open" /\ w.left > 0 /\ w.holder = w.owner
RefundEvidence(w, amount) == w.status = "paid" /\ w.left >= amount
PayoutEvidence(w, amount) == w.status = "enabled" /\ w.left >= amount /\ w.holder = w.owner

Resolvable(v, w, amount) ==
    CASE v = "create"  -> CreateEvidence(w)
      [] v = "confirm" -> ConfirmEvidence(w)
      [] v = "capture" -> CaptureEvidence(w, amount)
      [] v = "cancel"  -> CancelEvidence(w)
      [] v = "invoice" -> InvoiceEvidence(w)
      [] v = "refund"  -> RefundEvidence(w, amount)
      [] v = "payout"  -> PayoutEvidence(w, amount)

Frozen(v, w, amount) ==
    [f \in Inputs(v) \cup Outputs(v) |->
        IF f \in Inputs(v) THEN amount ELSE Observed(v, w, f)]

\* A slug names a team only when the listing agrees on exactly one id.
Canonical(w) == IF Cardinality(w.teams) = 1 THEN w.teams ELSE {}

-----------------------------------------------------------------------------
(* Preconditions: the object still is what the grant froze. *)

\* The compiled set a money action must name in full.
Preconditions(v) == Outputs(v)

PreconditionsHold(v, w, frozen) ==
    /\ Resolvable(v, w, frozen.amount)
    /\ \A f \in Preconditions(v) : frozen[f] = Observed(v, w, f)

-----------------------------------------------------------------------------
(* The provider: what it accepts, what it does, what it answers. *)

Accepts(v, w, frozen) ==
    CASE v = "confirm" -> w.status = "confirmable"
      [] v = "cancel"  -> w.status \in {"confirmable", "capturable"}
      [] v = "invoice" -> w.status = "open"
      [] v = "create"  -> TRUE
      [] v = "deploy"  -> TRUE
      [] OTHER -> w.left >= frozen.amount /\ w.status \in {"capturable", "paid", "enabled"}

After(v, w, frozen) ==
    CASE v = "confirm" -> [w EXCEPT !.status = "settled", !.left = 0]
      [] v = "cancel"  -> [w EXCEPT !.status = "canceled", !.left = 0]
      [] v = "invoice" -> [w EXCEPT !.status = "paid", !.left = 0]
      [] v = "capture" -> [w EXCEPT !.left = @ - frozen.amount,
                                    !.status = IF w.left = frozen.amount THEN "settled" ELSE @]
      [] v \in {"refund", "payout"} -> [w EXCEPT !.left = @ - frozen.amount]
      [] OTHER -> w

\* The answer to a processed request: the object as it now is, and how much moved.
Body(v, w, frozen) ==
    LET a == After(v, w, frozen) IN
    [status |-> a.status, left |-> a.left, amount |-> a.amount, owner |-> a.owner,
     moved |-> IF v = "deploy" THEN 0
               ELSE IF v \in {"confirm", "cancel", "invoice"} THEN Observed(v, w, "amount")
               ELSE frozen.amount]

-----------------------------------------------------------------------------
(* The compiled success contract: an exact response to an exact request. *)

\* The literal and field equalities of the three verbs whose object is new.
MovedExactly(frozen, body) == body.moved = frozen.amount

\* What a verb on an existing object additionally asserts of it afterwards.  An intent
\* that is confirmed is "settled" in the status its capture method calls for
\* (requires_capture, succeeded, or processing).  A 200 with any other status, or with a
\* refund neither pending nor succeeded, is not a body of this model: it fails the
\* assertion as an answer that proves nothing does, and is one (Invoke, "unclear").
OutcomeMatches(v, frozen, body) ==
    CASE v = "confirm" -> body.status = "settled" /\ body.amount = frozen.amount
      [] v = "capture" -> /\ body.left = frozen.left - frozen.amount
                          /\ body.amount = frozen.total
                          /\ (body.status = "settled") = (body.left = 0)
      [] v = "cancel"  -> body.status = "canceled"
      [] v = "invoice" -> body.status = "paid"

Proves(v, frozen, body) ==
    CASE v \in {"create", "refund", "payout"} -> MovedExactly(frozen, body)
      [] v \in {"confirm", "capture", "cancel", "invoice"} ->
            OutcomeMatches(v, frozen, body) /\ body.owner = frozen.owner
      [] OTHER -> TRUE

=============================================================================
