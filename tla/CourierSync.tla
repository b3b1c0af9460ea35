---------------------------- MODULE CourierSync ----------------------------
(***************************************************************************)
(* An order in the courier's lane (backend/app/services/delhivery/*.js,    *)
(* updateOrderStatus in backend/app/controller/orderController.js).        *)
(*                                                                         *)
(* A shipment is created for the order and booked at the courier, who      *)
(* gives it a waybill.  The order then follows the parcel: the courier     *)
(* pushes scans, a job polls the shipments that are live, administrators   *)
(* poll, cancel the order or only the shipment.  Scans come late, again,   *)
(* out of order or never.  The log of their events drops an exact resend,  *)
(* but not a status that is scanned again, and nothing when its insert     *)
(* fails: a scan may be handled any number of times.  `call[w]' is a       *)
(* handler: pc its next call to the database or to the courier, and what   *)
(* it remembers of its reads.                                              *)
(***************************************************************************)
EXTENDS Integers

CONSTANTS
  Docs,      \* Shipment documents, by the time of their creation
  Waybills,  \* parcels at the courier, in the order of their booking
  None,
  Workers,   \* slots for concurrent handlers
  Serves,    \* the handlers that each slot runs
  MaxFault   \* bound: handlers that die, answers and saves that are lost

Moving == {"ORDER_CREATED", "IN_TRANSIT", "OUT_FOR_DELIVERY"}
Ended  == {"DELIVERED", "CANCELLED", "FAILED"}
Open   == {"DELIVERY_SEARCH", "PICKUP_READY", "OUT_FOR_DELIVERY"}
Final  == {"DELIVERED", "CANCELLED"}

\* Faulty variant: a status is missing from the list.
LiveUntilDispatch == Moving \ {"OUT_FOR_DELIVERY"}

\* LIVE_FORWARD_STATUSES: a parcel exists at the courier and is on its way.
Live == Moving

Ops == {"create", "scan", "poll", "sync", "cancel", "stop"}

ASSUME NoneAssumption ==
  None \notin Docs \cup Waybills /\ None \notin {"PENDING"} \cup Moving \cup Ended
ASSUME NumberAssumption == Docs \subseteq Nat /\ Waybills \subseteq Nat
ASSUME ServesAssumption == Serves \in [Workers -> SUBSET Ops]
ASSUME FaultAssumption == MaxFault \in Nat

VARIABLES
  order,   \* workflowStatus, awbNumber and what its end did, see OrderType
  doc,     \* the Shipment documents: shipmentStatus (None: not created) and awbNumber
  parcel,  \* external: the status of each waybill at the courier (None: not booked)
  call,
  faults,
  astray   \* history: a fault or a race has cut the order off from a parcel

vars == <<order, doc, parcel, call, faults, astray>>

OrderType ==
  [status : Open \cup Final, awb : Waybills \cup {None},
   settled : BOOLEAN,    \* applyDeliveredSettlement
   released : BOOLEAN,   \* compensateOrderCancellation
   restocked : BOOLEAN]  \* an administrator's cancellation put the goods back

Shipments == {d \in Docs : doc[d].status # None}
Booked == {a \in Waybills : parcel[a] # None}

Idle == [pc |-> "idle", op |-> "none", doc |-> None, awb |-> None, seen |-> None, status |-> None]

Init ==
  /\ order = [status |-> "DELIVERY_SEARCH", awb |-> None,
              settled |-> FALSE, released |-> FALSE, restocked |-> FALSE]
  /\ doc = [d \in Docs |-> [status |-> None, awb |-> None]]
  /\ parcel = [a \in Waybills |-> None]
  /\ call = [w \in Workers |-> Idle]
  /\ faults = 0 /\ astray = FALSE

-----------------------------------------------------------------------------
(* Statuses. *)

Priority(s) ==
  CASE s = "PENDING" -> 10 [] s = "ORDER_CREATED" -> 20 [] s = "IN_TRANSIT" -> 70
    [] s = "OUT_FOR_DELIVERY" -> 80 [] OTHER -> 100

\* Faulty variant: a status that the shipment has already is refused.
ValidTransitionForward(current, new) ==
  current \notin Ended /\ (Priority(new) > Priority(current) \/ new \in Ended)

\* isValidForwardStatusTransition
ValidTransition(current, new) ==
  \/ current = new
  \/ current \notin Ended /\ (Priority(new) >= Priority(current) \/ new \in Ended)

\* mapShipmentToWorkflowStatus
WorkflowStatus(s) ==
  CASE s = "ORDER_CREATED" -> "DELIVERY_SEARCH" [] s = "IN_TRANSIT" -> "PICKUP_READY"
    [] s \in {"CANCELLED", "FAILED"} -> "CANCELLED" [] OTHER -> s

\* The scans of a parcel that are known at the courier by now.
Passed(a) == {s \in Moving : parcel[a] # None /\ Priority(s) < Priority(parcel[a])}
               \cup ({parcel[a]} \ {None})

-----------------------------------------------------------------------------
(* Handlers. *)

At(w, pc) == call[w].pc = pc
Free(w, op) == At(w, "idle") /\ op \in Serves[w]
Finish(w) == call' = [call EXCEPT ![w] = Idle]
Goto(w, pc) == call' = [call EXCEPT ![w].pc = pc]
Enter(w, r) == call' = [call EXCEPT ![w] = r]

Fault == faults < MaxFault /\ faults' = faults + 1

\* A write of status s to shipment d by a handler that does not follow it up.
Stray(d, s) == astray' = (astray \/ (doc[d].status \in Live /\ s \in Ended))

-----------------------------------------------------------------------------
(* createForwardOrder *)

\* An order has a shipment on its way (the waybill is put on the order if it has none),
\* one that failed and is booked again, or none.  A cancelled one ends the request.
StartCreate(w) ==
  /\ Free(w, "create")
  /\ \/ Shipments = {} /\ Enter(w, [Idle EXCEPT !.pc = "insert"])
     \/ \E d \in Shipments :
          \/ /\ doc[d].status \in Live \cup {"DELIVERED"}
             /\ order.awb = None /\ doc[d].awb # None
             /\ Enter(w, [Idle EXCEPT !.pc = "link", !.awb = doc[d].awb])
          \/ /\ doc[d].status \in {"PENDING", "FAILED"}
             /\ Enter(w, [Idle EXCEPT !.pc = "book", !.doc = d,
                                      !.seen = doc[d].status])
  /\ UNCHANGED <<order, doc, parcel, faults, astray>>

Insert(w) ==
  /\ At(w, "insert")
  /\ \E d \in Docs \ Shipments :
       /\ \A e \in Docs : e < d => e \in Shipments
       /\ doc' = [doc EXCEPT ![d].status = "PENDING"]
       /\ Enter(w, [call[w] EXCEPT !.pc = "book", !.doc = d, !.seen = "PENDING"])
  /\ UNCHANGED <<order, parcel, faults, astray>>

\* Faulty variant: an answer without a waybill passes for a booking.
BookUnchecked(w) ==
  /\ At(w, "book")
  /\ \/ \E a \in Waybills \ Booked :
          /\ parcel' = [parcel EXCEPT ![a] = "ORDER_CREATED"]
          /\ Enter(w, [call[w] EXCEPT !.pc = "booked", !.awb = a, !.seen = None])
     \/ Enter(w, [call[w] EXCEPT !.pc = "booked", !.seen = None]) /\ UNCHANGED parcel
  /\ UNCHANGED <<order, doc, faults, astray>>

\* The courier books the parcel, and its answer may be lost; or it refuses.
Book(w) ==
  /\ At(w, "book")
  /\ \/ \E a \in Waybills \ Booked :
          /\ \A b \in Waybills : b < a => b \in Booked
          /\ parcel' = [parcel EXCEPT ![a] = "ORDER_CREATED"]
          /\ \/ Enter(w, [call[w] EXCEPT !.pc = "booked", !.awb = a, !.seen = None]) /\ UNCHANGED faults
             \/ Goto(w, "refused") /\ Fault
     \/ Goto(w, "refused") /\ UNCHANGED <<parcel, faults>>
  /\ UNCHANGED <<order, doc, astray>>

Record(w) ==
  /\ At(w, "booked")
  /\ LET d == call[w].doc IN
       /\ doc' = [doc EXCEPT ![d] = [status |-> "ORDER_CREATED", awb |-> call[w].awb]]
       /\ astray' = (astray \/ (doc[d].status \in Live /\ doc[d].awb # None))
  /\ Enter(w, [Idle EXCEPT !.pc = "link", !.awb = call[w].awb])
  /\ UNCHANGED <<order, parcel, faults>>

\* The save fails, and the error's handler stores the failure with the waybill.
RecordFails(w) ==
  /\ At(w, "booked") /\ Fault
  /\ doc' = [doc EXCEPT ![call[w].doc] = [status |-> "FAILED", awb |-> call[w].awb]]
  /\ astray' = TRUE
  /\ Finish(w)
  /\ UNCHANGED <<order, parcel>>

Link(w) ==
  /\ At(w, "link")
  /\ order' = [order EXCEPT !.awb = call[w].awb]
  /\ Finish(w)
  /\ UNCHANGED <<doc, parcel, faults, astray>>

\* The catch of createForwardOrder.  Mongoose writes a status that it has changed.
Refused(w) ==
  /\ At(w, "refused")
  /\ IF call[w].seen = "FAILED"
       THEN UNCHANGED <<doc, astray>>
       ELSE /\ doc' = [doc EXCEPT ![call[w].doc].status = "FAILED"]
            /\ Stray(call[w].doc, "FAILED")
  /\ Finish(w)
  /\ UNCHANGED <<order, parcel, faults>>

-----------------------------------------------------------------------------
(* processDelhiveryWebhook and trackForwardOrder *)

\* The shipment of a scan: the one with its waybill, or else one of the order.
Found(a) ==
  IF \E d \in Docs : doc[d].awb = a THEN {d \in Docs : doc[d].awb = a} ELSE Shipments

Scan(w, a, s) ==
  /\ Free(w, "scan") /\ s \in Passed(a)
  /\ \E d \in Found(a) :
       /\ ValidTransition(doc[d].status, s)
       /\ Enter(w, [Idle EXCEPT !.pc = "save", !.doc = d, !.seen = doc[d].status, !.status = s])
  /\ UNCHANGED <<order, doc, parcel, faults, astray>>

Track(w, d) ==
  /\ doc[d].awb # None
  /\ Enter(w, [Idle EXCEPT !.pc = "fetch", !.doc = d, !.awb = doc[d].awb,
                           !.seen = doc[d].status])
  /\ UNCHANGED <<order, doc, parcel, faults, astray>>

\* reconcileStaleShipments, and an administrator's "sync".
Reconcile(w, d) == Free(w, "poll") /\ doc[d].status \in Live /\ Track(w, d)
SyncTracking(w, d) == Free(w, "sync") /\ Track(w, d)

Fetch(w) ==
  /\ At(w, "fetch")
  /\ IF ValidTransition(call[w].seen, parcel[call[w].awb])
       THEN Enter(w, [call[w] EXCEPT !.pc = "save", !.awb = None,
                                             !.status = parcel[call[w].awb]])
       ELSE Finish(w)
  /\ UNCHANGED <<order, doc, parcel, faults, astray>>

\* Faulty variant: the shipment's failure is passed on to the order.
UnknownPassedOn(w) ==
  /\ At(w, "fetch") /\ Fault
  /\ IF call[w].seen \in Live
       THEN /\ doc' = [doc EXCEPT ![call[w].doc].status = "FAILED"] /\ astray' = TRUE
            /\ Enter(w, [Idle EXCEPT !.pc = "sync", !.status = "FAILED"])
       ELSE Finish(w) /\ UNCHANGED <<doc, astray>>
  /\ UNCHANGED <<order, parcel>>

\* The courier's answer has no such waybill.
Unknown(w) ==
  /\ At(w, "fetch") /\ Fault
  /\ IF call[w].seen \in Live
       THEN doc' = [doc EXCEPT ![call[w].doc].status = "FAILED"] /\ astray' = TRUE
       ELSE UNCHANGED <<doc, astray>>
  /\ Finish(w)
  /\ UNCHANGED <<order, parcel>>

\* Both save the shipment over what was written since they read it.
Save(w) ==
  /\ At(w, "save")
  /\ doc' = IF call[w].status = call[w].seen THEN doc
            ELSE [doc EXCEPT ![call[w].doc].status = call[w].status]
  /\ Enter(w, [Idle EXCEPT !.pc = "sync", !.status = call[w].status])
  /\ UNCHANGED <<order, parcel, faults, astray>>

\* syncOrderWithShipmentStatus
Sync(w) ==
  LET new == WorkflowStatus(call[w].status) IN
  /\ At(w, "sync")
  /\ IF order.status \in Final \cup {new}
       THEN Finish(w) /\ UNCHANGED order
       ELSE /\ order' = [order EXCEPT !.status = new]
            /\ CASE new = "DELIVERED" -> Enter(w, [Idle EXCEPT !.pc = "settle"])
                 [] new = "CANCELLED" -> Enter(w, [Idle EXCEPT !.pc = "compensate"])
                 [] OTHER -> Finish(w)
  /\ UNCHANGED <<doc, parcel, faults, astray>>

Settle(w) ==
  /\ At(w, "settle")
  /\ order' = [order EXCEPT !.settled = TRUE]
  /\ Finish(w)
  /\ UNCHANGED <<doc, parcel, faults, astray>>

Compensate(w) ==
  /\ At(w, "compensate")
  /\ order' = [order EXCEPT !.released = TRUE]
  /\ Finish(w)
  /\ UNCHANGED <<doc, parcel, faults, astray>>

-----------------------------------------------------------------------------
(* Cancellation. *)

\* updateOrderStatus with "cancelled": an order with a waybill is cancelled at the
\* courier first, when its shipment is live; one that is delivered is not cancelled.
StartCancel(w) ==
  /\ Free(w, "cancel") /\ order.status # "CANCELLED"
  /\ LET c == [Idle EXCEPT !.op = "cancel", !.awb = order.awb] IN
       \/ order.awb = None /\ Enter(w, [c EXCEPT !.pc = "restock"])
       \/ /\ order.awb # None
          /\ \E d \in Shipments :
               \/ /\ doc[d].status \in Live /\ doc[d].awb # None
                  /\ Enter(w, [c EXCEPT !.pc = "ask", !.doc = d, !.awb = doc[d].awb])
               \/ /\ doc[d].status # "DELIVERED"
                  /\ doc[d].status \notin Live \/ doc[d].awb = None
                  /\ Enter(w, [c EXCEPT !.pc = "restock"])
  /\ UNCHANGED <<order, doc, parcel, faults, astray>>

\* triggerOrderCancellation: the shipment only.
StartStop(w) ==
  /\ Free(w, "stop")
  /\ \E d \in Shipments :
       /\ doc[d].status \in Live /\ doc[d].awb # None
       /\ Enter(w, [Idle EXCEPT !.op = "stop", !.pc = "ask", !.doc = d, !.awb = doc[d].awb])
  /\ UNCHANGED <<order, doc, parcel, faults, astray>>

\* The courier stops the parcel, and its answer may be lost; or it refuses, as it must
\* when the parcel has come to another end.
Ask(w) ==
  /\ At(w, "ask")
  /\ LET a == call[w].awb IN
       \/ /\ parcel[a] \in Moving \cup {"CANCELLED"}
          /\ parcel' = [parcel EXCEPT ![a] = "CANCELLED"]
          /\ \/ Goto(w, "mark") /\ UNCHANGED faults
             \/ Finish(w) /\ Fault
       \/ Finish(w) /\ UNCHANGED <<parcel, faults>>
  /\ UNCHANGED <<order, doc, astray>>

Mark(w) ==
  /\ At(w, "mark")
  /\ doc' = [doc EXCEPT ![call[w].doc].status = "CANCELLED"]
  /\ IF call[w].op = "cancel"
       THEN Enter(w, [call[w] EXCEPT !.pc = "restock", !.doc = None]) /\ UNCHANGED astray
       ELSE Finish(w) /\ Stray(call[w].doc, "CANCELLED")
  /\ UNCHANGED <<order, parcel, faults>>

Restock(w) ==
  /\ At(w, "restock")
  /\ order' = [order EXCEPT !.restocked = TRUE]
  /\ Goto(w, "cancel")
  /\ UNCHANGED <<doc, parcel, faults, astray>>

\* order.save(): whatever the status is by now.
Cancel(w) ==
  /\ At(w, "cancel")
  /\ order' = [order EXCEPT !.status = "CANCELLED"]
  /\ Finish(w)
  /\ UNCHANGED <<doc, parcel, faults, astray>>

-----------------------------------------------------------------------------
(* The courier, and deaths. *)

Onward == [s \in Moving |->
             CASE s = "ORDER_CREATED" -> "IN_TRANSIT" [] s = "IN_TRANSIT" -> "OUT_FOR_DELIVERY"
               [] s = "OUT_FOR_DELIVERY" -> "DELIVERED"]

Carry(a) ==
  /\ parcel[a] \in Moving
  /\ \E s \in {Onward[parcel[a]], "FAILED", "CANCELLED"} : parcel' = [parcel EXCEPT ![a] = s]
  /\ UNCHANGED <<order, doc, call, faults, astray>>

\* A death between what ended on the shipment and what ends on the order.
Crash(w) ==
  /\ ~At(w, "idle") /\ Fault
  /\ astray' = (astray \/ call[w].pc \in {"settle", "compensate", "restock", "cancel"}
                       \/ (At(w, "sync") /\ call[w].status \in Ended))
  /\ Finish(w)
  /\ UNCHANGED <<order, doc, parcel>>

-----------------------------------------------------------------------------
Start(w) ==
  \/ StartCreate(w) \/ StartCancel(w) \/ StartStop(w)
  \/ \E a \in Waybills, s \in Moving \cup Ended : Scan(w, a, s)
  \/ \E d \in Docs : Reconcile(w, d) \/ SyncTracking(w, d)
Continue(w) ==
  \/ Insert(w) \/ Book(w) \/ Record(w) \/ RecordFails(w) \/ Link(w) \/ Refused(w)
  \/ Fetch(w) \/ Unknown(w) \/ Save(w) \/ Sync(w) \/ Settle(w) \/ Compensate(w)
  \/ Ask(w) \/ Mark(w) \/ Restock(w) \/ Cancel(w)

Next ==
  \/ \E w \in Workers : Start(w) \/ Continue(w) \/ Crash(w)
  \/ \E a \in Waybills : Carry(a)

Spec == Init /\ [][Next]_vars

\* A handler goes on, and the job polls a live shipment again and again.
Fairness ==
  /\ \A w \in Workers : WF_vars(Continue(w))
  /\ \A d \in Docs : SF_vars(\E w \in Workers : Reconcile(w, d))

FairSpec == Spec /\ Fairness

-----------------------------------------------------------------------------
(* Properties. *)

Pcs == {"idle", "insert", "book", "booked", "link", "refused", "fetch", "save", "sync",
        "settle", "compensate", "ask", "mark", "restock", "cancel"}
Statuses == {"PENDING"} \cup Moving \cup Ended

\* Type correctness, and no handler goes to the courier or links an order without a waybill.
TypeOK ==
  /\ order \in OrderType
  /\ doc \in [Docs -> [status : Statuses \cup {None}, awb : Waybills \cup {None}]]
  /\ parcel \in [Waybills -> Moving \cup Ended \cup {None}]
  /\ call \in [Workers -> [pc : Pcs, op : {"none", "cancel", "stop"},
                           doc : Docs \cup {None}, awb : Waybills \cup {None},
                           seen : Statuses \cup {None},
                           status : Moving \cup Ended \cup {None}]]
  /\ \A w \in Workers : call[w].pc \in {"booked", "link", "fetch", "ask"} => call[w].awb # None
  /\ faults \in 0 .. MaxFault /\ astray \in BOOLEAN

\* One shipment was created for the order, and one parcel booked.
Single ==
  /\ \A d, e \in Shipments : d = e
  /\ \A a, b \in Booked : a = b

\* A cancellation that read the order before it had a waybill is about to save it.
Unlinked == \E w \in Workers : At(w, "cancel") /\ call[w].awb = None

\* An order that has a waybill is cancelled only when its parcel has stopped ("must be
\* cancelled at Delhivery first, otherwise it is still picked up and delivered after the
\* order is cancelled here", orderController.js:468), whoever cancels and whatever scans,
\* polls and cancellations interleave, unless the administrator read the order before the
\* waybill was on it, a second shipment was created or a fault hid the parcel.
CancelStopsParcel ==
  [][order.status # "CANCELLED" /\ order'.status = "CANCELLED" /\ order.awb # None
       => parcel[order.awb] \in Ended \/ Unlinked \/ ~Single \/ astray]_vars

\* The money follows the parcel: it is settled only after a delivery and given back only
\* for a parcel that will not be delivered, never both, however often and late an end is
\* reported and even for two parcels with different ends (delhiveryOrderSync.js:21,
\* "repeated scans and polling never apply side effects twice").
EndFollowsParcel ==
  /\ order.settled => \E a \in Waybills : parcel[a] = "DELIVERED"
  /\ order.released => \E a \in Waybills : parcel[a] \in {"CANCELLED", "FAILED"}
  /\ ~(order.settled /\ order.released)

Tracked(a) == \E d \in Docs : doc[d].awb = a /\ doc[d].status \in Live
Concluded ==
  \/ order.status = "DELIVERED" /\ order.settled
  \/ order.status = "CANCELLED" /\ (order.released \/ order.restocked)

\* Scans may all be lost, late or applied over newer ones: by the polling alone the order
\* of a tracked parcel comes to its end with the money settled or given back, and it is out
\* for delivery when the parcel is, also after a late scan has moved it back
\* (delhiveryReconciliationService.js:6-9, "the safety net for scans that never arrive").
OrderFollowsParcel ==
  \A a \in Waybills :
    /\ Tracked(a) /\ parcel[a] \in Ended ~> Concluded \/ astray
    /\ Tracked(a) /\ parcel[a] = "OUT_FOR_DELIVERY"
         ~> \/ order.status \in {"OUT_FOR_DELIVERY"} \cup Final
            \/ parcel[a] # "OUT_FOR_DELIVERY" \/ astray
=============================================================================
