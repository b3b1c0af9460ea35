----------------------- MODULE RefundTracking_proofs -----------------------
(***************************************************************************)
(* Theorems about RefundTracking: for every set of refunds and amounts,    *)
(* every set of webhooks, any number of workers and crashes.               *)
(*                                                                         *)
(* The argument: a processed refund stays processed (RefundsOnlyGrow), so  *)
(* whatever an activation read as paid back is paid back, however old the  *)
(* reading is; and only one activation works on an event at a time, so an  *)
(* event that is not acknowledged has an activation ahead of it, running   *)
(* or to come, that reads the refunds again.                               *)
(***************************************************************************)
EXTENDS RefundTracking, TLAPS

Statuses == {"PENDING", "CAPTURED", "REFUNDED"}
Activations == [pc : Pcs, sig : Signals \cup {NoSignal}, seen : SUBSET Refunds,
                was : Statuses, changed : BOOLEAN]

\* A busy activation works on an event that is being processed, and nobody else
\* works on it.
OneWorkerPerEvent ==
  \A w \in Workers : call[w].pc # "idle" =>
    /\ call[w].sig \in Signals /\ event[call[w].sig] = "PROCESSING"
    /\ \A v \in Workers : call[v].pc # "idle" /\ call[v].sig = call[w].sig => v = w

\* An idle slot holds nothing.
IdleIsEmpty == \A w \in Workers : call[w].pc = "idle" => call[w].sig = NoSignal

TypeInv == TypeOK /\ OneWorkerPerEvent /\ IdleIsEmpty

\* What was read or recorded as processed is processed.
SeenIsPaidBack ==
  /\ total \subseteq Processed
  /\ \A w \in Workers : call[w].seen \subseteq Processed

\* A claim, and a REFUNDED payment, have refunds that add up.
ClaimsArePaidBack ==
  /\ pstatus = "REFUNDED" => Processed \in FullSets
  /\ \A w \in Workers : At(w, "claim") => Processed \in FullSets

\* The effects belong to the one activation that moved the payment.
OneRefunder ==
  /\ effects <= 1
  /\ pstatus # "REFUNDED" => effects = 0
  /\ \A w \in Workers : At(w, "effects") =>
       /\ pstatus = "REFUNDED" /\ effects = 0
       /\ \A v \in Workers : At(v, "effects") => v = w

\* An excess nobody has flagged has an event left whose activation, running or
\* to come, has read it or is yet to read.
Ahead(w) ==
  \/ call[w].pc \in {"move", "insert", "read"}
  \/ call[w].pc \in {"total", "exceeds"} /\ call[w].seen \in OverSets
Unfinished(s) ==
  /\ event[s] # "PROCESSED"
  /\ \A w \in Workers : call[w].pc # "idle" /\ call[w].sig = s => Ahead(w)
Flagged == \E r \in Refunds : <<"EXCEEDS", r>> \in keys
ExcessIsNoticed == Processed \in OverSets => Flagged \/ \E s \in Signals : Unfinished(s)

\* An activation that stored a failure, and one that tells of it, has a refund that did
\* fail, whatever became of it since.
FailureIsStored ==
  \A w \in Workers :
    /\ call[w].changed /\ call[w].sig.status = "FAILED"
         => stored[call[w].sig.refund] \in {"FAILED", "PROCESSED"}
    /\ call[w].pc \in {"alert", "flag"} => call[w].changed /\ call[w].sig.status = "FAILED"

RefundInv ==
  TypeInv /\ SeenIsPaidBack /\ ClaimsArePaidBack /\ OneRefunder /\ ExcessIsNoticed
    /\ FailureIsStored

\* A step inside an activation, and any step of it.
Inside(w) == \/ Move(w) \/ Insert(w) \/ Read(w) \/ Total(w) \/ Exceeds(w)
             \/ Claim(w) \/ Effects(w) \/ Alert(w) \/ Flag(w)
Acts(w) == Continue(w) \/ Crash(w) \/ \E s \in Signals : Deliver(w, s)

-----------------------------------------------------------------------------
(* Type correctness. *)

\* The calls an activation can be at, and those that follow the effects.
LEMMA NextPcs ==
  /\ \A pc \in {"idle", "move", "insert", "read", "total", "exceeds", "claim",
               "effects", "alert", "flag", "complete"} : pc \in Pcs
  /\ \A w : AfterEffects(w) \in {"alert", "complete"}
BY DEF AfterEffects, Pcs

\* What each way to continue does to the activation's slot.
LEMMA StepType ==
  ASSUME TypeOK, NEW w \in Workers
  PROVE  /\ \A pc \in Pcs : Goto(w, pc) => call' \in [Workers -> Activations]
         /\ \A pc \in Pcs : Forget(w, pc) => call' \in [Workers -> Activations]
         /\ \A pc \in Pcs : \A b \in BOOLEAN :
              Upserted(w, pc, b) => call' \in [Workers -> Activations]
         /\ Finish(w) => call' \in [Workers -> Activations]
<1> USE DEF Statuses
<1>0. call \in [Workers -> Activations]
  BY DEF TypeOK, Activations
<1>1. \A pc \in Pcs : Goto(w, pc) => call' \in [Workers -> Activations]
  BY <1>0 DEF Goto, Activations
<1>2. \A pc \in Pcs : Forget(w, pc) => call' \in [Workers -> Activations]
  <2> SUFFICES ASSUME NEW pc \in Pcs, Forget(w, pc)
               PROVE  call' \in [Workers -> Activations]
    OBVIOUS
  <2> DEFINE new == [call[w] EXCEPT !.pc = pc, !.seen = {}, !.was = "PENDING"]
  <2>1. new \in Activations
    BY <1>0 DEF Activations
  <2>2. call' = [call EXCEPT ![w] = new]
    BY <1>0 DEF Forget, Activations
  <2> QED
    BY <1>0, <2>1, <2>2
<1>3. \A pc \in Pcs : \A b \in BOOLEAN :
        Upserted(w, pc, b) => call' \in [Workers -> Activations]
  <2> SUFFICES ASSUME NEW pc \in Pcs, NEW b \in BOOLEAN, Upserted(w, pc, b)
               PROVE  call' \in [Workers -> Activations]
    OBVIOUS
  <2> DEFINE new == [call[w] EXCEPT !.pc = pc, !.changed = b]
  <2>1. new \in Activations
    BY <1>0 DEF Activations
  <2>2. call' = [call EXCEPT ![w] = new]
    BY <1>0 DEF Upserted, Activations
  <2> QED
    BY <1>0, <2>1, <2>2
<1>4. Finish(w) => call' \in [Workers -> Activations]
  BY <1>0, NextPcs DEF Finish, Idle, Activations
<1> QED
  BY <1>1, <1>2, <1>3, <1>4

\* Every step of an activation leaves a well-typed activation in its slot, and
\* the other slots as they are.
LEMMA CallType ==
  ASSUME TypeOK, NEW w \in Workers, Acts(w)
  PROVE  /\ call' \in [Workers -> Activations]
         /\ \A v \in Workers : v # w => call'[v] = call[v]
<1> USE DEF Statuses
<1>0. call \in [Workers -> Activations]
  BY DEF TypeOK, Activations
<1>1. \A v \in Workers : v # w => call'[v] = call[v]
  BY <1>0 DEF Acts, Continue, Move, Insert, Read, Total, Exceeds, Claim, Effects, Alert,
     Flag, Complete, Crash, Deliver, Goto, Forget, Upserted, Finish
<1> SUFFICES call' \in [Workers -> Activations]
  BY <1>1
<1>2. ASSUME NEW s \in Signals, Deliver(w, s) PROVE call' \in [Workers -> Activations]
  BY <1>0, <1>2, NextPcs DEF Deliver, Idle, Activations
<1>3. CASE Read(w)
  <2> DEFINE new == [call[w] EXCEPT !.pc = "total", !.seen = Processed, !.was = pstatus]
  <2>1. new \in Activations
    BY <1>0, NextPcs DEF TypeOK, Activations, Processed
  <2>2. call' = [call EXCEPT ![w] = new]
    BY <1>0, <1>3 DEF Read, Activations
  <2> QED
    BY <1>0, <2>1, <2>2
<1>4. CASE Move(w) \/ Insert(w)
  BY <1>4, StepType, NextPcs DEF Move, Insert
<1>5. CASE Total(w) \/ Flag(w) \/ Effects(w)
  BY <1>5, StepType, NextPcs DEF Total, Flag, Effects
<1>6. CASE Exceeds(w)
  <2>1. \E pc \in Pcs : Forget(w, pc)
    BY <1>6, NextPcs DEF Exceeds
  <2> QED
    BY <2>1, StepType
<1>7. CASE Claim(w) \/ Alert(w)
  BY <1>7, StepType, NextPcs DEF Claim, Alert
<1>8. CASE Complete(w) \/ Crash(w)
  BY <1>8, StepType DEF Complete, Crash
<1> QED
  BY <1>2, <1>3, <1>4, <1>5, <1>6, <1>7, <1>8 DEF Acts, Continue

\* A step inside an activation keeps it busy with its event.
LEMMA InsideStep ==
  ASSUME TypeInv, NEW w \in Workers, Inside(w)
  PROVE  /\ event' = event
         /\ call[w].pc # "idle" /\ call'[w].pc # "idle"
         /\ call'[w].sig = call[w].sig
<1>1. call \in [Workers -> Activations] /\ call[w] \in Activations
  BY DEF TypeInv, TypeOK, Activations, Statuses
<1> USE <1>1 DEF Activations, At, Goto, Forget, Upserted
<1>2. CASE Move(w) \/ Insert(w) \/ Read(w)
  BY <1>2 DEF Move, Insert, Read
<1>3. CASE Total(w) \/ Effects(w) \/ Alert(w) \/ Flag(w)
  BY <1>3, NextPcs DEF Total, Effects, Alert, Flag
<1>4. CASE Exceeds(w) \/ Claim(w)
  BY <1>4, NextPcs DEF Exceeds, Claim
<1> QED
  BY <1>2, <1>3, <1>4 DEF Inside

\* Every step keeps the types.
LEMMA TypeStep == TypeInv /\ [Next]_vars => TypeOK'
<1> SUFFICES ASSUME TypeInv, [Next]_vars PROVE TypeOK'
  OBVIOUS
<1> USE CrashBound, RefundSignals DEF TypeInv, payVars, Activations, Statuses
<1>1. CASE UNCHANGED vars
  BY <1>1 DEF vars, TypeOK
<1>2. CASE Capture
  BY <1>2 DEF Capture, TypeOK
<1>3. ASSUME NEW w \in Workers, Acts(w) PROVE TypeOK'
  <2>1. call' \in [Workers -> [pc : Pcs, sig : Signals \cup {NoSignal},
          seen : SUBSET Refunds, was : {"PENDING", "CAPTURED", "REFUNDED"},
          changed : BOOLEAN]]
    BY <1>3, CallType
  <2>2. call[w].pc # "idle" => call[w].sig \in Signals /\ call[w].sig.refund \in Refunds
    BY DEF OneWorkerPerEvent
  <2>3. CASE Move(w) \/ Insert(w)
    BY <2>1, <2>2, <2>3 DEF Move, Insert, At, TypeOK, Known
  <2>4. CASE Read(w) \/ Total(w)
    BY <2>1, <2>4 DEF Read, Total, TypeOK
  <2>5. CASE Exceeds(w) \/ Flag(w)
    <3>1. keys' \subseteq {"EXCEEDS", "FAILED"} \X Refunds
      BY <2>2, <2>5 DEF Exceeds, Flag, At, TypeOK
    <3>2. early' \in BOOLEAN
      <4>1. early' = early \/ \E b \in BOOLEAN : early' = (early \/ b)
        BY <2>5 DEF Exceeds, Flag
      <4> QED
        BY <4>1 DEF TypeOK
    <3> QED
      BY <2>1, <2>5, <3>1, <3>2 DEF Exceeds, Flag, TypeOK
  <2>6. CASE Claim(w) \/ Effects(w)
    BY <2>1, <2>6 DEF Claim, Effects, TypeOK
  <2>7. CASE Alert(w)
    <3>1. /\ call[w].pc = "alert" /\ alerted' = alerted \cup {call[w].sig.refund}
          /\ UNCHANGED <<pstatus, stored, total, keys, effects, event, early, crashes>>
      BY <2>7 DEF Alert, At
    <3>2. alerted' \subseteq Refunds
      BY <2>2, <3>1 DEF TypeOK
    <3> QED
      BY <2>1, <3>1, <3>2 DEF TypeOK
  <2>8. CASE Complete(w) \/ Crash(w)
    BY <2>1, <2>8 DEF Complete, Crash, TypeOK
  <2>9. CASE \E s \in Signals : Deliver(w, s)
    BY <2>1, <2>9 DEF Deliver, TypeOK
  <2> QED
    BY <1>3, <2>3, <2>4, <2>5, <2>6, <2>7, <2>8, <2>9 DEF Acts, Continue
<1> QED
  BY <1>1, <1>2, <1>3 DEF Next, Acts

\* Every step keeps each event with one worker.
LEMMA WorkerStep == TypeInv /\ [Next]_vars => OneWorkerPerEvent' /\ IdleIsEmpty'
<1> SUFFICES ASSUME TypeInv, [Next]_vars PROVE OneWorkerPerEvent' /\ IdleIsEmpty'
  OBVIOUS
<1> USE DEF TypeInv, OneWorkerPerEvent, IdleIsEmpty
<1>1. CASE UNCHANGED vars
  BY <1>1 DEF vars
<1>2. CASE Capture
  BY <1>2 DEF Capture
<1>3. ASSUME NEW w \in Workers, Acts(w) PROVE OneWorkerPerEvent' /\ IdleIsEmpty'
  <2>1. \A v \in Workers : v # w => call'[v] = call[v]
    BY <1>3, CallType
  <2>2. /\ call \in [Workers -> Activations]
        /\ event \in [Signals -> {"new", "PROCESSING", "FAILED", "PROCESSED"}]
        /\ "idle" # "move"
    BY DEF TypeOK, Activations, Statuses
  <2>3. CASE Inside(w)
    BY <2>1, <2>3, InsideStep
  <2>4. CASE Complete(w) \/ Crash(w)
    <3>1. call'[w].pc = "idle" /\ call'[w].sig = NoSignal /\ call[w].pc # "idle"
      BY <2>2, <2>4 DEF Complete, Crash, Finish, Idle, At
    <3>2. \A s \in Signals : s # call[w].sig => event'[s] = event[s]
      BY <2>2, <2>4 DEF Complete, Crash
    <3> QED
      BY <2>1, <3>1, <3>2
  <2>5. ASSUME NEW s \in Signals, Deliver(w, s) PROVE OneWorkerPerEvent' /\ IdleIsEmpty'
    <3>1. /\ call'[w].pc = "move" /\ call'[w].sig = s
          /\ event' = [event EXCEPT ![s] = "PROCESSING"]
      BY <2>2, <2>5 DEF Deliver, Idle
    <3>2. \A v \in Workers : call[v].pc # "idle" => call[v].sig # s
      BY <2>5 DEF Deliver
    <3> QED
      BY <2>1, <2>2, <3>1, <3>2
  <2> QED
    BY <1>3, <2>3, <2>4, <2>5 DEF Acts, Continue, Inside
<1> QED
  BY <1>1, <1>2, <1>3 DEF Next, Acts

-----------------------------------------------------------------------------
(* The invariant. *)

\* No step takes a refund back, so what is paid back stays paid back.
LEMMA RefundsOnlyGrow ==
  ASSUME TypeInv, [Next]_vars
  PROVE  /\ \A r \in Refunds : Rank[stored[r]] <= Rank[stored'[r]]
         /\ Processed \subseteq Processed'
<1> USE DEF TypeInv
<1>1. /\ \A x \in Known \cup {"none"} : Rank[x] \in -1 .. 2 /\ Rank[x] <= Rank[x]
      /\ \A x \in Known \cup {"none"} : Rank["PROCESSED"] <= Rank[x] => x = "PROCESSED"
      /\ \A x \in Known : Rank["none"] <= Rank[x]
  BY DEF Rank, Known
<1>2. ASSUME NEW r \in Refunds
      PROVE  stored'[r] \in Known \cup {"none"} /\ Rank[stored[r]] <= Rank[stored'[r]]
  <2>1. stored[r] \in Known \cup {"none"} /\ Rank[stored[r]] <= Rank[stored[r]]
    BY <1>1 DEF TypeOK
  <2>2. CASE stored' = stored
    BY <2>1, <2>2
  <2>3. ASSUME NEW w \in Workers, Move(w) \/ Insert(w)
        PROVE  stored'[r] \in Known \cup {"none"} /\ Rank[stored[r]] <= Rank[stored'[r]]
    <3>1. call[w].sig.status \in Known /\ call[w].sig.refund \in Refunds
      BY <2>3, RefundSignals DEF Move, Insert, At, OneWorkerPerEvent, Known
    <3>2. CASE Move(w)
      <4>1. \/ stored' = stored
            \/ /\ stored' = [stored EXCEPT ![call[w].sig.refund] = call[w].sig.status]
               /\ Rank[stored[call[w].sig.refund]] < Rank[call[w].sig.status]
        BY <3>2 DEF Move
      <4> QED
        BY <2>1, <1>1, <3>1, <4>1 DEF TypeOK
    <3>3. CASE Insert(w)
      <4>1. \/ stored' = stored
            \/ /\ stored' = [stored EXCEPT ![call[w].sig.refund] = call[w].sig.status]
               /\ stored[call[w].sig.refund] = "none"
        BY <3>3 DEF Insert
      <4> QED
        BY <2>1, <1>1, <3>1, <4>1 DEF TypeOK
    <3> QED
      BY <2>3, <3>2, <3>3
  <2> QED
    BY <2>2, <2>3 DEF Next, vars, payVars, Capture, Continue, Read, Total, Exceeds, Claim,
       Effects, Alert, Flag, Complete, Crash, Deliver
<1>3. ASSUME NEW r \in Refunds, stored[r] = "PROCESSED" PROVE stored'[r] = "PROCESSED"
  BY <1>1, <1>2, <1>3
<1> QED
  BY <1>2, <1>3 DEF Processed

\* What an activation reads, and how it comes to claim and to refund.
LEMMA OwnSlot ==
  ASSUME TypeInv, NEW w \in Workers, Acts(w)
  PROVE  /\ call'[w].seen \in {call[w].seen, Processed, {}}
         /\ call'[w].pc = "claim" => call[w].pc = "exceeds" /\ call[w].seen \in FullSets
         /\ call'[w].pc = "effects" => Claim(w) /\ pstatus = "CAPTURED"
<1>1. call \in [Workers -> Activations] /\ call[w] \in Activations
  BY DEF TypeInv, TypeOK, Activations, Statuses
<1> USE <1>1 DEF Activations, At, Goto, Forget, Upserted, Finish
<1>2. CASE Move(w) \/ Insert(w)
  BY <1>2 DEF Move, Insert
<1>3. CASE Read(w) \/ Total(w)
  BY <1>3 DEF Read, Total
<1>4. CASE Exceeds(w)
  BY <1>4, NextPcs DEF Exceeds
<1>5. CASE Claim(w)
  BY <1>5, NextPcs DEF Claim
<1>6. CASE Effects(w) \/ Alert(w) \/ Flag(w)
  BY <1>6, NextPcs DEF Effects, Alert, Flag
<1>7. CASE Complete(w) \/ Crash(w)
  BY <1>7 DEF Complete, Crash, Idle
<1>8. CASE \E s \in Signals : Deliver(w, s)
  BY <1>8 DEF Deliver, Idle
<1> QED
  BY <1>2, <1>3, <1>4, <1>5, <1>6, <1>7, <1>8 DEF Acts, Continue

\* What an activation has read is still paid back when it writes it.
LEMMA SeenStep == TypeInv /\ SeenIsPaidBack /\ [Next]_vars => SeenIsPaidBack'
<1> SUFFICES ASSUME TypeInv, SeenIsPaidBack, [Next]_vars PROVE SeenIsPaidBack'
  OBVIOUS
<1> USE DEF SeenIsPaidBack
<1>1. Processed \subseteq Processed'
  BY RefundsOnlyGrow
<1>2. CASE UNCHANGED vars \/ Capture
  BY <1>1, <1>2 DEF vars, payVars, Capture
<1>3. ASSUME NEW w \in Workers, Acts(w) PROVE SeenIsPaidBack'
  <2>1. \A v \in Workers : v # w => call'[v] = call[v]
    BY <1>3, CallType DEF TypeInv
  <2>2. call \in [Workers -> Activations] /\ call[w] \in Activations
    BY DEF TypeInv, TypeOK, Activations, Statuses
  <2>3. call'[w].seen \in {call[w].seen, Processed, {}}
    BY <1>3, OwnSlot
  <2>4. total' \in {total, call[w].seen}
    BY <1>3 DEF Acts, Continue, payVars, Move, Insert, Read, Total, Exceeds, Claim,
       Effects, Alert, Flag, Complete, Crash, Deliver
  <2> QED
    BY <1>1, <2>1, <2>3, <2>4
<1> QED
  BY <1>2, <1>3 DEF Next, Acts

\* Only an activation that read a full set of refunds claims the payment.
LEMMA ClaimStep ==
  TypeInv /\ SeenIsPaidBack /\ ClaimsArePaidBack /\ [Next]_vars => ClaimsArePaidBack'
<1> SUFFICES ASSUME TypeInv, SeenIsPaidBack, ClaimsArePaidBack, [Next]_vars
             PROVE  ClaimsArePaidBack'
  OBVIOUS
<1> USE DEF ClaimsArePaidBack, At
<1>1. Processed \in FullSets => Processed' \in FullSets
  <2>1. Processed \subseteq Processed' /\ Processed' \in SUBSET Refunds
    BY RefundsOnlyGrow DEF Processed
  <2> QED
    BY <2>1, FullAssumption
<1>2. CASE UNCHANGED vars \/ Capture
  BY <1>1, <1>2 DEF vars, payVars, Capture
<1>3. ASSUME NEW w \in Workers, Acts(w) PROVE ClaimsArePaidBack'
  <2>1. \A v \in Workers : v # w => call'[v] = call[v]
    BY <1>3, CallType DEF TypeInv
  <2>2. call \in [Workers -> Activations] /\ call[w] \in Activations
    BY DEF TypeInv, TypeOK, Activations, Statuses
  <2>3. pstatus' = "REFUNDED" => pstatus = "REFUNDED" \/ call[w].pc = "claim"
    BY <1>3 DEF Acts, Continue, payVars, Move, Insert, Read, Total, Exceeds, Claim,
       Effects, Alert, Flag, Complete, Crash, Deliver
  <2>4. call'[w].pc = "claim" => call[w].seen \in FullSets
    BY <1>3, OwnSlot
  <2>5. call[w].seen \in FullSets => Processed \in FullSets
    BY FullAssumption DEF SeenIsPaidBack, Processed
  <2> QED
    BY <1>1, <2>1, <2>3, <2>4, <2>5
<1> QED
  BY <1>2, <1>3 DEF Next, Acts

\* The payment leaves CAPTURED once, and with it goes the one activation that
\* writes the effects.
LEMMA RefunderStep == TypeInv /\ OneRefunder /\ [Next]_vars => OneRefunder'
<1> SUFFICES ASSUME TypeInv, OneRefunder, [Next]_vars PROVE OneRefunder'
  OBVIOUS
<1> USE DEF OneRefunder, At
<1>1. CASE UNCHANGED vars
  BY <1>1 DEF vars, payVars
<1>2. CASE Capture
  BY <1>2 DEF Capture
<1>3. ASSUME NEW w \in Workers, Acts(w) PROVE OneRefunder'
  <2>1. \A v \in Workers : v # w => call'[v] = call[v]
    BY <1>3, CallType DEF TypeInv
  <2>2. /\ call \in [Workers -> Activations] /\ call[w] \in Activations
        /\ effects \in Nat
    BY DEF TypeInv, TypeOK, Activations, Statuses
  <2>3. CASE Claim(w) /\ pstatus = "CAPTURED"
    <3>1. pstatus' = "REFUNDED" /\ effects' = 0
      BY <2>3 DEF Claim
    <3>2. \A v \in Workers : v # w => call'[v].pc # "effects"
      BY <2>1, <2>3
    <3> QED
      BY <3>1, <3>2
  <2>4. CASE Effects(w)
    <3>1. call'[w].pc # "effects" /\ effects' = 1 /\ pstatus' = "REFUNDED"
      <4>1. call'[w].pc # "effects"
        BY <2>2, <2>4, NextPcs DEF Effects, Goto, Activations
      <4> QED
        BY <2>4, <4>1 DEF Effects
    <3>2. \A v \in Workers : v # w => call[v].pc # "effects"
      BY <2>4 DEF Effects
    <3> QED
      BY <2>1, <3>1, <3>2
  <2>5. CASE ~(Claim(w) /\ pstatus = "CAPTURED") /\ ~Effects(w)
    <3>1. pstatus' = pstatus /\ effects' = effects
      BY <1>3, <2>5 DEF Acts, Continue, payVars, Move, Insert, Read, Total, Exceeds,
         Claim, Alert, Flag, Complete, Crash, Deliver
    <3>2. call'[w].pc # "effects"
      BY <1>3, <2>5, OwnSlot
    <3> QED
      BY <2>1, <3>1, <3>2
  <2> QED
    BY <2>3, <2>4, <2>5
<1> QED
  BY <1>1, <1>2, <1>3 DEF Next, Acts

\* Keys are never taken out.
LEMMA FlagStays == Flagged /\ [Next]_vars => Flagged'
BY DEF Flagged, Next, vars, payVars, Capture, Continue, Move, Insert, Read, Total, Exceeds,
   Claim, Effects, Alert, Flag, Complete, Crash, Deliver

\* An activation that has an excess ahead of it keeps it ahead, or flags it.
LEMMA AheadStep ==
  ASSUME TypeInv, Processed \in OverSets, NEW w \in Workers, Inside(w), Ahead(w)
  PROVE  Ahead(w)' \/ Flagged'
<1>1. /\ call \in [Workers -> Activations] /\ call[w] \in Activations
      /\ call[w].pc # "idle" => call[w].sig.refund \in Refunds
  BY RefundSignals DEF TypeInv, TypeOK, OneWorkerPerEvent, Activations, Statuses
<1> USE <1>1 DEF Ahead, At, Goto, Upserted, Activations
<1>2. CASE Move(w) \/ Insert(w)
  BY <1>2 DEF Move, Insert
<1>3. CASE Read(w) \/ Total(w)
  BY <1>3 DEF Read, Total
<1>4. CASE Exceeds(w)
  <2>1. <<"EXCEEDS", call[w].sig.refund>> \in keys' /\ call[w].sig.refund \in Refunds
    BY <1>4 DEF Exceeds
  <2> QED
    BY <2>1 DEF Flagged
<1>5. CASE Claim(w) \/ Effects(w) \/ Alert(w) \/ Flag(w)
  BY <1>5 DEF Claim, Effects, Alert, Flag
<1> QED
  BY <1>2, <1>3, <1>4, <1>5 DEF Inside

\* An excess is flagged or has an event left that will flag it: the activation
\* that completes it reads it later.
LEMMA ExcessStep ==
  TypeInv /\ ExcessIsNoticed /\ [Next]_vars => ExcessIsNoticed'
<1> SUFFICES ASSUME TypeInv, ExcessIsNoticed, [Next]_vars, Processed' \in OverSets,
                    ~Flagged'
             PROVE  \E s \in Signals : Unfinished(s)'
  BY DEF ExcessIsNoticed
<1>0. ~Flagged /\ OneWorkerPerEvent'
  BY FlagStays, WorkerStep
<1>1. CASE UNCHANGED vars \/ Capture
  BY <1>0, <1>1 DEF vars, payVars, Capture, Processed, ExcessIsNoticed, Unfinished, Ahead
<1>2. ASSUME NEW w \in Workers, Acts(w) PROVE \E s \in Signals : Unfinished(s)'
  <2>1. \A v \in Workers : v # w => call'[v] = call[v]
    BY <1>2, CallType DEF TypeInv
  <2>2. /\ call \in [Workers -> Activations] /\ call[w] \in Activations
        /\ event \in [Signals -> {"new", "PROCESSING", "FAILED", "PROCESSED"}]
    BY DEF TypeInv, TypeOK, Activations, Statuses
  <2>3. ASSUME Processed \notin OverSets PROVE \E s \in Signals : Unfinished(s)'
    <3>1. stored' # stored
      BY <2>3 DEF Processed
    <3>2. Move(w) \/ Insert(w)
      BY <1>2, <3>1 DEF Acts, Continue, payVars, Read, Total, Exceeds, Claim, Effects,
         Alert, Flag, Complete, Crash, Deliver
    <3>3. call'[w].pc = "read"
      BY <2>2, <3>1, <3>2 DEF Move, Insert, Upserted, Activations
    <3>4. /\ call'[w].sig \in Signals /\ event'[call'[w].sig] = "PROCESSING"
          /\ \A v \in Workers : call'[v].pc # "idle" /\ call'[v].sig = call'[w].sig => v = w
      BY <1>0, <3>3 DEF OneWorkerPerEvent
    <3> QED
      BY <3>3, <3>4 DEF Unfinished, Ahead
  <2>4. ASSUME Processed \in OverSets, NEW s \in Signals, Unfinished(s)
        PROVE  Unfinished(s)'
    <3>1. CASE Inside(w)
      <4>1. /\ event' = event /\ call'[w].sig = call[w].sig /\ call[w].pc # "idle"
        BY <3>1, InsideStep
      <4>2. call[w].sig = s => Ahead(w)'
        BY <2>4, <3>1, <4>1, AheadStep DEF Unfinished
      <4> QED
        BY <2>1, <2>4, <4>1, <4>2 DEF Unfinished, Ahead
    <3>2. CASE Complete(w)
      <4>1. call[w].sig # s
        BY <2>4, <3>2 DEF Complete, At, Unfinished, Ahead
      <4>2. event'[s] = event[s] /\ call'[w].pc = "idle"
        BY <2>2, <3>2, <4>1 DEF Complete, Finish, Idle
      <4> QED
        BY <2>1, <2>4, <4>2 DEF Unfinished, Ahead
    <3>3. CASE Crash(w)
      <4>1. event'[s] \in {event[s], "FAILED"} /\ call'[w].pc = "idle"
        BY <2>2, <3>3 DEF Crash, Finish, Idle
      <4> QED
        BY <2>1, <2>4, <4>1 DEF Unfinished, Ahead
    <3>4. ASSUME NEW t \in Signals, Deliver(w, t) PROVE Unfinished(s)'
      <4>1. event'[s] \in {event[s], "PROCESSING"} /\ call'[w].pc = "move"
        BY <2>2, <3>4 DEF Deliver, Idle
      <4> QED
        BY <2>1, <2>4, <4>1 DEF Unfinished, Ahead
    <3> QED
      BY <1>2, <3>1, <3>2, <3>3, <3>4 DEF Acts, Continue, Inside
  <2> QED
    BY <1>0, <2>3, <2>4 DEF ExcessIsNoticed
<1> QED
  BY <1>1, <1>2 DEF Next, Acts

\* What an activation does with a failure: it stores it before it tells of it.
LEMMA OwnFailure ==
  ASSUME TypeInv, FailureIsStored, NEW w \in Workers, Acts(w)
  PROVE  /\ call'[w].changed /\ call'[w].sig.status = "FAILED"
              => \/ stored'[call'[w].sig.refund] = "FAILED"
                 \/ /\ call[w].changed /\ call[w].sig.status = "FAILED"
                    /\ call'[w].sig.refund = call[w].sig.refund
         /\ call'[w].pc \in {"alert", "flag"}
              => call'[w].changed /\ call'[w].sig.status = "FAILED"
<1>1. /\ call \in [Workers -> Activations] /\ call[w] \in Activations
      /\ stored \in [Refunds -> Known \cup {"none"}]
      /\ call[w].pc # "idle" => call[w].sig.refund \in Refunds
  BY RefundSignals DEF TypeInv, TypeOK, OneWorkerPerEvent, Activations, Statuses
<1> USE <1>1 DEF Activations, At, Goto, Forget, Upserted, Finish
<1>2. CASE Move(w)
  BY <1>2 DEF Move
<1>3. CASE Insert(w)
  BY <1>3 DEF Insert
<1>4. CASE Read(w) \/ Total(w)
  BY <1>4 DEF Read, Total
<1>5. CASE Exceeds(w) \/ Claim(w) \/ Effects(w)
  BY <1>5 DEF Exceeds, Claim, Effects, AfterEffects
<1>6. CASE Alert(w) \/ Flag(w)
  BY <1>6 DEF Alert, Flag, FailureIsStored
<1>7. CASE Complete(w) \/ Crash(w)
  BY <1>7 DEF Complete, Crash, Idle
<1>8. CASE \E s \in Signals : Deliver(w, s)
  BY <1>8 DEF Deliver, Idle
<1> QED
  BY <1>2, <1>3, <1>4, <1>5, <1>6, <1>7, <1>8 DEF Acts, Continue

\* A failure that somebody is yet to tell of remains one.
LEMMA FailureStep == TypeInv /\ FailureIsStored /\ [Next]_vars => FailureIsStored'
<1> SUFFICES ASSUME TypeInv, FailureIsStored, [Next]_vars PROVE FailureIsStored'
  OBVIOUS
<1>1. ASSUME NEW r \in Refunds, stored[r] \in {"FAILED", "PROCESSED"}
      PROVE  stored'[r] \in {"FAILED", "PROCESSED"}
  <2>1. Rank[stored[r]] <= Rank[stored'[r]] /\ stored'[r] \in Known \cup {"none"}
    BY RefundsOnlyGrow, TypeStep DEF TypeOK
  <2> QED
    BY <1>1, <2>1 DEF Rank, Known
<1>2. ASSUME NEW w \in Workers, call[w].changed, call[w].sig.status = "FAILED"
      PROVE  call[w].sig.refund \in Refunds
  <2>1. call[w].sig \in Signals \cup {NoSignal}
    BY DEF TypeInv, TypeOK
  <2> QED
    BY <1>2, <2>1, RefundSignals DEF NoSignal
<1>3. CASE UNCHANGED vars \/ Capture
  BY <1>3 DEF vars, payVars, Capture, FailureIsStored
<1>4. ASSUME NEW w \in Workers, Acts(w) PROVE FailureIsStored'
  <2>1. \A v \in Workers : v # w => call'[v] = call[v]
    BY <1>4, CallType DEF TypeInv
  <2> QED
    BY <1>1, <1>2, <1>4, <2>1, OwnFailure DEF FailureIsStored
<1> QED
  BY <1>3, <1>4 DEF Next, Acts

\* The invariant holds at the start and after every step.
LEMMA RefundInvariant == Spec => []RefundInv
<1>1. Init => RefundInv
  <2> SUFFICES ASSUME Init PROVE RefundInv
    OBVIOUS
  <2> USE DEF Init
  <2>1. \A w \in Workers : call[w] = Idle
    OBVIOUS
  <2>2. Processed = {}
    BY DEF Processed
  <2>3. TypeOK
    <3>1. Idle \in Activations
      BY NextPcs DEF Idle, Activations, Statuses
    <3>2. call \in [Workers -> Activations]
      BY <3>1
    <3>3. event \in [Signals -> {"new", "PROCESSING", "FAILED", "PROCESSED"}]
      OBVIOUS
    <3>4. early \in BOOLEAN
      OBVIOUS
    <3>5. crashes \in 0 .. MaxCrash
      BY CrashBound
    <3>6. /\ stored \in [Refunds -> Known \cup {"none"}]
          /\ pstatus \in {"PENDING", "CAPTURED", "REFUNDED"}
          /\ keys \subseteq {"EXCEEDS", "FAILED"} \X Refunds /\ effects \in Nat
          /\ total \subseteq Refunds /\ alerted \subseteq Refunds
      BY DEF Known
    <3> QED
      BY <3>2, <3>3, <3>4, <3>5, <3>6 DEF TypeOK, Activations, Statuses
  <2>4. /\ OneWorkerPerEvent /\ IdleIsEmpty /\ SeenIsPaidBack /\ ClaimsArePaidBack
        /\ OneRefunder /\ FailureIsStored
    BY <2>1, <2>2 DEF OneWorkerPerEvent, IdleIsEmpty, SeenIsPaidBack, ClaimsArePaidBack,
       OneRefunder, FailureIsStored, Idle, At
  <2>5. ExcessIsNoticed
    BY <2>2, FullAssumption DEF ExcessIsNoticed
  <2> QED
    BY <2>3, <2>4, <2>5 DEF RefundInv, TypeInv
<1>2. RefundInv /\ [Next]_vars => RefundInv'
  BY TypeStep, WorkerStep, SeenStep, ClaimStep, RefunderStep, ExcessStep, FailureStep
     DEF RefundInv, TypeInv
<1> QED
  BY <1>1, <1>2, PTL DEF Spec

-----------------------------------------------------------------------------
(* The theorems. *)

\* Type correctness.
THEOREM RefundTypeCorrect == Spec => []TypeOK
<1>1. RefundInv => TypeOK
  BY DEF RefundInv, TypeInv
<1> QED
  BY <1>1, RefundInvariant, PTL

\* "Refund status only moves forward", in whatever order the webhooks arrive and
\* however their handlers overlap.
THEOREM RefundsMoveForward == Spec => RefundMovesForward
<1>1. RefundInv /\ [Next]_vars
        => [\A r \in Refunds : Rank[stored[r]] <= Rank[stored'[r]]]_stored
  BY RefundsOnlyGrow DEF RefundInv
<1> QED
  BY <1>1, RefundInvariant, PTL DEF Spec, RefundMovesForward

\* The recorded total, written by whichever handler came last, counts only money
\* that went back.
THEOREM TotalNeverAhead == Spec => []TotalIsPaidBack
<1>1. RefundInv => TotalIsPaidBack
  BY DEF RefundInv, SeenIsPaidBack, TotalIsPaidBack
<1> QED
  BY <1>1, RefundInvariant, PTL

\* A payment is marked REFUNDED only when its refunds add up.
THEOREM RefundedWasPaidBack == Spec => []RefundedIsPaidBack
<1>1. RefundInv => RefundedIsPaidBack
  BY DEF RefundInv, ClaimsArePaidBack, RefundedIsPaidBack
<1> QED
  BY <1>1, RefundInvariant, PTL

\* The orders are moved to REFUNDED by one handler, once.
THEOREM EffectsOnce == Spec => []EffectsAtMostOnce
<1>1. RefundInv => EffectsAtMostOnce
  BY DEF RefundInv, OneRefunder, EffectsAtMostOnce
<1> QED
  BY <1>1, RefundInvariant, PTL

\* An excess is flagged by the time the last webhook is acknowledged.
THEOREM OverRefundSeen == Spec => []OverRefundFlagged
<1>1. RefundInv => OverRefundFlagged
  BY DEF RefundInv, ExcessIsNoticed, Unfinished, Flagged, OverRefundFlagged
<1> QED
  BY <1>1, RefundInvariant, PTL

-----------------------------------------------------------------------------
(***************************************************************************)
(* The tracking implements RefundPromise: every step is a step of the      *)
(* promise or leaves the payment, its refunds and flags alone.             *)
(***************************************************************************)
\* A payment without refunds is a promised one.
LEMMA PromiseInit == Init => Promise!Init
BY DEF Init, Promise!Init

\* An upsert reports what is ahead of the refund, or nothing.
LEMMA UpsertStep ==
  ASSUME TypeInv, NEW w \in Workers, Move(w) \/ Insert(w)
  PROVE  Promise!Next \/ UNCHANGED Promise!vars
<1> DEFINE s == call[w].sig
<1>1. s.refund \in Refunds /\ s.status \in Known /\ stored[s.refund] \in Known \cup {"none"}
  BY RefundSignals DEF Move, Insert, At, TypeInv, TypeOK, OneWorkerPerEvent, Known
<1>2. UNCHANGED <<pstatus, total, effects, keys>>
  BY DEF Move, Insert
<1>3. CASE stored' = stored
  BY <1>2, <1>3 DEF Promise!vars
<1>4. CASE stored' # stored
  <2>1. stored' = [stored EXCEPT ![s.refund] = s.status]
    BY <1>4 DEF Move, Insert
  <2>2. \/ stored[s.refund] \in Known /\ Rank[stored[s.refund]] < Rank[s.status]
        \/ stored[s.refund] = "none"
    BY <1>4 DEF Move, Insert
  <2>3. s.status \in Promise!Ahead[stored[s.refund]]
    BY <1>1, <2>2 DEF Promise!Ahead, Rank, Known
  <2>4. Promise!Report(s.refund, s.status)
    BY <1>2, <2>1, <2>3 DEF Promise!Report
  <2> QED
    BY <1>1, <2>4 DEF Promise!Next, Known
<1> QED
  BY <1>3, <1>4

\* A total that was read long ago is still of refunds that are paid back.
LEMMA TotalStep ==
  ASSUME RefundInv, NEW w \in Workers, Total(w)
  PROVE  Promise!Next
<1>1. total' \subseteq Promise!PaidBack
  BY DEF RefundInv, SeenIsPaidBack, Total, Processed, Promise!PaidBack
<1>2. Promise!Record
  BY <1>1 DEF Promise!Record, Total
<1> QED
  BY <1>2 DEF Promise!Next

\* An excess that was read is still one when it is flagged.
LEMMA ExceedsStep ==
  ASSUME RefundInv, NEW w \in Workers, Exceeds(w)
  PROVE  Promise!Next \/ UNCHANGED Promise!vars
<1>1. UNCHANGED <<pstatus, stored, total, effects>>
  BY DEF Exceeds
<1>2. CASE call[w].seen \in OverSets
  <2>1. call[w].sig.refund \in Refunds
    BY RefundSignals DEF RefundInv, TypeInv, OneWorkerPerEvent, Exceeds, At
  <2>2. Processed \in OverSets
    <3>1. Processed \in SUBSET Refunds /\ call[w].seen \subseteq Processed
      BY DEF RefundInv, SeenIsPaidBack, Processed
    <3> QED
      BY <1>2, <3>1, FullAssumption
  <2>3. Promise!Tell("EXCEEDS", call[w].sig.refund)
    BY <1>1, <1>2, <2>2 DEF Exceeds, Promise!Tell, Promise!PaidBack, Processed
  <2> QED
    BY <2>1, <2>3 DEF Promise!Next
<1>3. CASE call[w].seen \notin OverSets
  BY <1>1, <1>3 DEF Exceeds, Promise!vars
<1> QED
  BY <1>2, <1>3

\* The claim refunds a payment that is paid back, or finds it claimed.
LEMMA ClaimRefunds ==
  ASSUME RefundInv, NEW w \in Workers, Claim(w)
  PROVE  Promise!Next \/ UNCHANGED Promise!vars
<1>1. UNCHANGED <<stored, total, effects, keys>>
  BY DEF Claim
<1>2. CASE pstatus = "CAPTURED"
  <2>1. Processed \in FullSets
    BY DEF RefundInv, ClaimsArePaidBack, Claim
  <2>2. Promise!Refund
    BY <1>1, <1>2, <2>1 DEF Claim, Promise!Refund, Promise!PaidBack, Processed
  <2> QED
    BY <2>2 DEF Promise!Next
<1>3. CASE pstatus # "CAPTURED"
  BY <1>1, <1>3 DEF Claim, Promise!vars
<1> QED
  BY <1>2, <1>3

\* The orders follow the payment, once.
LEMMA EffectsStep ==
  ASSUME RefundInv, NEW w \in Workers, Effects(w)
  PROVE  Promise!Next
<1>1. pstatus = "REFUNDED" /\ effects = 0
  BY DEF RefundInv, OneRefunder, Effects
<1>2. Promise!MoveOrders
  BY <1>1 DEF Effects, Promise!MoveOrders
<1> QED
  BY <1>2 DEF Promise!Next

\* A person is told of a failure that there was.
LEMMA FlagStep ==
  ASSUME RefundInv, NEW w \in Workers, Flag(w)
  PROVE  Promise!Next
<1>1. call[w].sig.refund \in Refunds
  BY RefundSignals DEF RefundInv, TypeInv, OneWorkerPerEvent, Flag, At
<1>2. stored[call[w].sig.refund] \in {"FAILED", "PROCESSED"}
  BY DEF RefundInv, FailureIsStored, Flag, At
<1>3. Promise!Tell("FAILED", call[w].sig.refund)
  BY <1>2 DEF Flag, Promise!Tell
<1> QED
  BY <1>1, <1>3 DEF Promise!Next

\* Every step of the tracking is one of these, or a stutter.
LEMMA PromiseStep ==
  ASSUME RefundInv, [Next]_vars
  PROVE  [Promise!Next]_(Promise!vars)
<1> DEFINE Kept == Promise!Next \/ UNCHANGED Promise!vars
<1> SUFFICES Kept
  OBVIOUS
<1>1. CASE UNCHANGED vars
  BY <1>1 DEF vars, payVars, Promise!vars
<1>2. CASE Capture
  <2>1. Promise!Capture
    BY <1>2 DEF Capture, Promise!Capture
  <2> QED
    BY <2>1 DEF Promise!Next
<1>3. ASSUME NEW w \in Workers, Continue(w) PROVE Kept
  <2>1. CASE Move(w) \/ Insert(w)
    BY <2>1, UpsertStep DEF RefundInv
  <2>2. CASE Total(w) \/ Effects(w) \/ Flag(w)
    BY <2>2, TotalStep, EffectsStep, FlagStep
  <2>3. CASE Exceeds(w) \/ Claim(w)
    BY <2>3, ExceedsStep, ClaimRefunds
  <2>4. CASE Read(w) \/ Alert(w) \/ Complete(w)
    BY <2>4 DEF Read, Alert, Complete, payVars, Promise!vars
  <2> QED
    BY <1>3, <2>1, <2>2, <2>3, <2>4 DEF Continue
<1>4. ASSUME NEW w \in Workers, Crash(w) \/ \E s \in Signals : Deliver(w, s) PROVE Kept
  BY <1>4 DEF Crash, Deliver, payVars, Promise!vars
<1> QED
  BY <1>1, <1>2, <1>3, <1>4 DEF Next

\* The handlers of all webhooks together keep the promise of one book-keeper.
THEOREM TrackingKeepsPromise == Spec => PromiseKept
<1>1. RefundInv /\ [Next]_vars => [Promise!Next]_(Promise!vars)
  BY PromiseStep
<1> QED
  BY <1>1, PromiseInit, RefundInvariant, PTL DEF Spec, PromiseKept, Promise!Spec
=============================================================================
