--------------------------- MODULE RefundTracking ---------------------------
(***************************************************************************)
(* The refunds of one online payment                                       *)
(* (backend/app/services/paymentRefundService.js).                         *)
(*                                                                         *)
(* The gateway reports each refund in several webhooks (refund.created,    *)
(* refund.processed, refund.failed), in any order, and repeats each one    *)
(* until it is acknowledged.  A handler stores the refund's status, sums   *)
(* up the stored refunds, writes the total, and moves a fully refunded     *)
(* payment and its orders to REFUNDED.  `call[w]' is an activation: pc is  *)
(* its next database call, seen and was are the processed refunds and the  *)
(* payment's status as it read them, changed is what its upsert returned.  *)
(*                                                                         *)
(* Amounts are kept as the set of refunds they add up: FullSets are the    *)
(* sets that reach the amount paid, OverSets those that exceed it.         *)
(***************************************************************************)
EXTENDS Integers

CONSTANTS
  Refunds,      \* refund ids of the payment
  FullSets,     \* sets of refunds that add up to the amount paid, or more
  OverSets,     \* sets of refunds that add up to more than the amount paid
  Signals,      \* refund webhooks
  Workers,      \* slots for concurrent activations
  MaxCrash      \* bound: activations that die or whose database call fails

\* Amounts are positive, the payment's too: more refunds add up to more money.
ASSUME FullAssumption ==
  /\ {} \notin FullSets
  /\ OverSets \subseteq FullSets /\ FullSets \subseteq SUBSET Refunds
  /\ \A S \in FullSets, T \in SUBSET Refunds : S \subseteq T => T \in FullSets
  /\ \A S \in OverSets, T \in SUBSET Refunds : S \subseteq T => T \in OverSets
ASSUME RefundSignals ==
  Signals \subseteq [refund : Refunds, status : {"PENDING", "FAILED", "PROCESSED"},
                     name : STRING]
ASSUME CrashBound == MaxCrash \in Nat

VARIABLES
  pstatus,    \* Payment.status, from PENDING on
  stored,     \* the status of each entry of Payment.refunds
  total,      \* Payment.refundedAmount, refundState: the refunds they count
  keys,       \* Payment.reconciliationKeys
  alerted,    \* the refunds whose failureAlertedAt is set
  effects,    \* how often applyFullRefundEffects wrote the orders
  event,      \* PaymentWebhookEvent.status
  call,       \* the activations
  early,      \* history: a full refund was seen before the capture
  crashes

payVars == <<pstatus, stored, total, keys, alerted, effects>>
vars == <<payVars, event, call, early, crashes>>

\* RANK, with the absent entry below all others.
Rank == [none |-> -1, PENDING |-> 0, FAILED |-> 1, PROCESSED |-> 2]
Known == {"PENDING", "FAILED", "PROCESSED"}
Processed == {r \in Refunds : stored[r] = "PROCESSED"}

Pcs == {"idle", "move", "insert", "read", "total", "exceeds", "claim", "effects",
        "alert", "flag", "complete"}
NoSignal == [refund |-> "none", status |-> "none", name |-> "none"]
Idle == [pc |-> "idle", sig |-> NoSignal, seen |-> {}, was |-> "PENDING",
         changed |-> FALSE]

At(w, pc)   == call[w].pc = pc
Goto(w, pc) == call' = [call EXCEPT ![w].pc = pc]
\* What was read is not used after this step.
Forget(w, pc) ==
  call' = [call EXCEPT ![w].pc = pc, ![w].seen = {}, ![w].was = "PENDING"]
Finish(w)   == call' = [call EXCEPT ![w] = Idle]

Init ==
  /\ pstatus = "PENDING" /\ total = {} /\ keys = {} /\ alerted = {} /\ effects = 0
  /\ stored = [r \in Refunds |-> "none"]
  /\ event = [s \in Signals |-> "new"]
  /\ call = [w \in Workers |-> Idle]
  /\ early = FALSE /\ crashes = 0

-----------------------------------------------------------------------------
\* The payment is captured; a refund's webhook may overtake the capture's.
Capture ==
  /\ pstatus = "PENDING" /\ pstatus' = "CAPTURED"
  /\ UNCHANGED <<stored, total, keys, alerted, effects, event, call, early, crashes>>

\* claimWebhookEvent: a new or failed event, or one whose worker is gone.
Deliver(w, s) ==
  /\ At(w, "idle")
  /\ \/ event[s] \in {"new", "FAILED"}
     \/ event[s] = "PROCESSING" /\ \A v \in Workers : call[v].sig # s
  /\ event' = [event EXCEPT ![s] = "PROCESSING"]
  /\ call' = [call EXCEPT ![w] = [Idle EXCEPT !.pc = "move", !.sig = s]]
  /\ UNCHANGED <<payVars, early, crashes>>

-----------------------------------------------------------------------------
(* upsertRefund: move a known refund forward, or else insert an unknown one. *)

Upserted(w, pc, changed) ==
  call' = [call EXCEPT ![w].pc = pc, ![w].changed = changed]

Move(w) ==
  LET s == call[w].sig IN
  /\ At(w, "move")
  /\ IF stored[s.refund] \in Known /\ Rank[stored[s.refund]] < Rank[s.status]
       THEN stored' = [stored EXCEPT ![s.refund] = s.status] /\ Upserted(w, "read", TRUE)
       ELSE UNCHANGED stored /\ Goto(w, "insert")
  /\ UNCHANGED <<pstatus, total, keys, alerted, effects, event, early, crashes>>

Insert(w) ==
  LET s == call[w].sig IN
  /\ At(w, "insert")
  /\ IF stored[s.refund] = "none"
       THEN stored' = [stored EXCEPT ![s.refund] = s.status] /\ Upserted(w, "read", TRUE)
       ELSE UNCHANGED stored /\ Upserted(w, "read", FALSE)
  /\ UNCHANGED <<pstatus, total, keys, alerted, effects, event, early, crashes>>

-----------------------------------------------------------------------------
(* processRefundEvent after the upsert. *)

Read(w) ==
  /\ At(w, "read")
  /\ call' = [call EXCEPT ![w].pc = "total", ![w].seen = Processed, ![w].was = pstatus]
  /\ UNCHANGED <<payVars, event, early, crashes>>

Total(w) ==
  /\ At(w, "total")
  /\ total' = call[w].seen
  /\ Goto(w, "exceeds")
  /\ UNCHANGED <<pstatus, stored, keys, alerted, effects, event, early, crashes>>

\* A failure stored by this activation is told to a person.
AfterEffects(w) ==
  IF call[w].sig.status = "FAILED" /\ call[w].changed THEN "alert" ELSE "complete"

\* Faulty variant: only an activation that changed the refund looks at the total.
ExceedsIfChanged(w) ==
  LET full == call[w].seen \in FullSets IN
  /\ At(w, "exceeds")
  /\ keys' = IF call[w].seen \in OverSets /\ call[w].changed
               THEN keys \cup {<<"EXCEEDS", call[w].sig.refund>>} ELSE keys
  /\ Forget(w, IF full /\ call[w].was = "CAPTURED" /\ call[w].changed
                THEN "claim" ELSE AfterEffects(w))
  /\ early' = (early \/ (full /\ call[w].was = "PENDING"))
  /\ UNCHANGED <<pstatus, stored, total, alerted, effects, event, crashes>>

Exceeds(w) ==
  LET full == call[w].seen \in FullSets IN
  /\ At(w, "exceeds")
  /\ keys' = IF call[w].seen \in OverSets
               THEN keys \cup {<<"EXCEEDS", call[w].sig.refund>>} ELSE keys
  /\ Forget(w, IF full /\ call[w].was = "CAPTURED" THEN "claim" ELSE AfterEffects(w))
  /\ early' = (early \/ (full /\ call[w].was = "PENDING"))
  /\ UNCHANGED <<pstatus, stored, total, alerted, effects, event, crashes>>

\* Faulty variant: the status read before is trusted.
ClaimTrusting(w) ==
  /\ At(w, "claim")
  /\ pstatus' = "REFUNDED" /\ Goto(w, "effects")
  /\ UNCHANGED <<stored, total, keys, alerted, effects, event, early, crashes>>

\* claimStatusTransition: one worker moves the payment to REFUNDED ...
Claim(w) ==
  /\ At(w, "claim")
  /\ IF pstatus = "CAPTURED"
       THEN pstatus' = "REFUNDED" /\ Goto(w, "effects")
       ELSE UNCHANGED pstatus /\ Goto(w, AfterEffects(w))
  /\ UNCHANGED <<stored, total, keys, alerted, effects, event, early, crashes>>

\* ... and applyFullRefundEffects takes its orders along.
Effects(w) ==
  /\ At(w, "effects")
  /\ effects' = effects + 1
  /\ Goto(w, AfterEffects(w))
  /\ UNCHANGED <<pstatus, stored, total, keys, alerted, event, early, crashes>>

\* Faulty variant: the mark is looked at after it was set.
AlertMarked(w) ==
  LET r == call[w].sig.refund IN
  /\ At(w, "alert")
  /\ alerted' = alerted \cup {r}
  /\ Goto(w, IF r \in alerted' THEN "complete" ELSE "flag")
  /\ UNCHANGED <<pstatus, stored, total, keys, effects, event, early, crashes>>

Alert(w) ==
  LET r == call[w].sig.refund IN
  /\ At(w, "alert")
  /\ alerted' = alerted \cup {r}
  /\ Goto(w, IF r \in alerted THEN "complete" ELSE "flag")
  /\ UNCHANGED <<pstatus, stored, total, keys, effects, event, early, crashes>>

\* Faulty variant: the flag is kept by event and not by refund.
FlagPerEvent(w) ==
  /\ At(w, "flag")
  /\ keys' = keys \cup {<<"FAILED", call[w].sig>>}
  /\ Goto(w, "complete")
  /\ UNCHANGED <<pstatus, stored, total, alerted, effects, event, early, crashes>>

Flag(w) ==
  /\ At(w, "flag")
  /\ keys' = keys \cup {<<"FAILED", call[w].sig.refund>>}
  /\ Goto(w, "complete")
  /\ UNCHANGED <<pstatus, stored, total, alerted, effects, event, early, crashes>>

\* completeWebhookEvent.
Complete(w) ==
  /\ At(w, "complete")
  /\ event' = [event EXCEPT ![call[w].sig] = "PROCESSED"]
  /\ Finish(w)
  /\ UNCHANGED <<payVars, early, crashes>>

\* The process dies, or a call fails and failWebhookEvent says so.
Crash(w) ==
  /\ ~At(w, "idle") /\ crashes < MaxCrash
  /\ crashes' = crashes + 1
  /\ event' \in {event, [event EXCEPT ![call[w].sig] = "FAILED"]}
  /\ Finish(w)
  /\ UNCHANGED <<payVars, early>>

-----------------------------------------------------------------------------
Continue(w) ==
  \/ Move(w) \/ Insert(w) \/ Read(w) \/ Total(w) \/ Exceeds(w)
  \/ Claim(w) \/ Effects(w) \/ Alert(w) \/ Flag(w) \/ Complete(w)

Next ==
  \/ Capture
  \/ \E w \in Workers :
       \/ Continue(w) \/ Crash(w)
       \/ \E s \in Signals : Deliver(w, s)

Spec == Init /\ [][Next]_vars

(***************************************************************************)
(* Fairness, as for the capture: a running activation continues, and the   *)
(* gateway repeats an unacknowledged event until a worker takes it.        *)
(***************************************************************************)
Fairness ==
  /\ \A w \in Workers : WF_vars(Continue(w))
  /\ \A s \in Signals : SF_vars(\E w \in Workers : Deliver(w, s))

FairSpec == Spec /\ Fairness

-----------------------------------------------------------------------------
(* Properties. *)

\* Type correctness of the payment, its refunds, events and activations.
TypeOK ==
  /\ pstatus \in {"PENDING", "CAPTURED", "REFUNDED"}
  /\ stored \in [Refunds -> Known \cup {"none"}]
  /\ total \subseteq Refunds /\ alerted \subseteq Refunds
  /\ keys \subseteq {"EXCEEDS", "FAILED"} \X Refunds /\ effects \in Nat
  /\ event \in [Signals -> {"new", "PROCESSING", "FAILED", "PROCESSED"}]
  /\ call \in [Workers -> [pc : Pcs, sig : Signals \cup {NoSignal}, seen : SUBSET Refunds,
                           was : {"PENDING", "CAPTURED", "REFUNDED"}, changed : BOOLEAN]]
  /\ early \in BOOLEAN /\ crashes \in 0 .. MaxCrash

\* "Refund status only moves forward: pending -> processed, or pending -> failed
\* (a failed refund may later succeed).  processed is final."
RefundMovesForward ==
  [][\A r \in Refunds : Rank[stored[r]] <= Rank[stored'[r]]]_stored

\* Whatever is overwritten by whom, the recorded total never counts money that
\* has not gone back.
TotalIsPaidBack == total \subseteq Processed

\* A payment is REFUNDED only when its refunds add up to what was paid.
RefundedIsPaidBack == pstatus = "REFUNDED" => Processed \in FullSets

\* "Fully refunded: move the payment (and its orders) to REFUNDED exactly once."
EffectsAtMostOnce == effects <= 1

\* Refunds that exceed the payment are flagged by the time every webhook is
\* acknowledged, whichever handlers overlapped or died.
OverRefundFlagged ==
  (\A s \in Signals : event[s] = "PROCESSED") /\ Processed \in OverSets
    => \E r \in Refunds : <<"EXCEEDS", r>> \in keys

Promise == INSTANCE RefundPromise WITH
  status <- pstatus, refund <- stored, moved <- effects, told <- keys

\* However the webhooks of all refunds arrive, overlap, repeat and die, the handlers
\* together do what one careful book-keeper would: they act on what they read long
\* before, and it is still true when they write it (paymentRefundService.js:47-182).
PromiseKept == Promise!Spec

\* A captured payment whose refunds add up becomes REFUNDED, unless a handler
\* saw them add up before the capture: nothing looks again.
FullRefundNoticed ==
  (Processed \in FullSets /\ pstatus = "CAPTURED") ~> (pstatus = "REFUNDED" \/ early)

\* "Failed refund: money did not go back - a person must act."  The activation
\* that stores the failure flags it, unless it dies: a rerun finds no change.
FailedRefundFlagged ==
  \A r \in Refunds :
    stored[r] = "FAILED" ~> (<<"FAILED", r>> \in keys \/ crashes > 0)

\* "Every refund is stored ... and any redelivery or out-of-order event is
\* harmless": what an acknowledged webhook said is stored, or a later status.
AcknowledgedStatusStored ==
  \A s \in Signals : event[s] = "PROCESSED" => Rank[s.status] <= Rank[stored[s.refund]]
=============================================================================
