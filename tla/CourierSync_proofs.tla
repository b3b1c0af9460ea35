------------------------ MODULE CourierSync_proofs ------------------------
(***************************************************************************)
(* Theorems about CourierSync: for every number of shipments, parcels,     *)
(* handlers and faults, whatever the slots serve.                          *)
(*                                                                         *)
(* The argument.  A parcel that has ended stays as it is (ParcelGrows), so *)
(* an end that a handler carries stays true however late it is applied     *)
(* (Backed).  The order's guarded update lets one handler alone go on to   *)
(* the money (EndInv).  As long as one shipment and one parcel exist and   *)
(* nothing hid the parcel, a shipment that is not live has a parcel that   *)
(* has ended, and the order's waybill is that shipment's (StopInv).        *)
(***************************************************************************)
EXTENDS CourierSync, TLAPS

Activations ==
  [pc : Pcs, op : {"none", "cancel", "stop"}, doc : Docs \cup {None},
   awb : Waybills \cup {None}, seen : Statuses \cup {None},
   status : Moving \cup Ended \cup {None}]

\* What a handler's slot holds at each call.
Shaped(c) ==
  /\ c.pc \in {"booked", "link", "fetch", "ask", "mark"} => c.awb # None
  /\ c.pc \in {"book", "booked", "refused", "fetch", "save", "ask", "mark"} => c.doc # None
  /\ c.pc \in {"save", "sync"} => c.status # None

\* What a handler relies on is true of the parcels p.
Backed(c, p) ==
  /\ c.awb # None => p[c.awb] # None
  /\ c.pc \in {"save", "sync"} /\ c.status \in Ended => \E a \in Waybills : p[a] = c.status
  /\ c.pc = "settle" => \E a \in Waybills : p[a] = "DELIVERED"
  /\ c.pc = "compensate" => \E a \in Waybills : p[a] \in {"CANCELLED", "FAILED"}
  /\ c.pc = "mark" => p[c.awb] \in Ended

CallInv == \A w \in Workers : Shaped(call[w]) /\ Backed(call[w], parcel)

BookedInv ==
  /\ \A d \in Docs : doc[d].awb # None => parcel[doc[d].awb] # None
  /\ order.awb # None => parcel[order.awb] # None

TypeInv == TypeOK /\ CallInv /\ BookedInv

\* One handler goes on to the money, for an order that is at its end.
Ending(w) == call[w].pc \in {"settle", "compensate"}
EndInv ==
  /\ EndFollowsParcel
  /\ order.settled \/ order.released => order.status \in Final
  /\ \A w \in Workers :
       Ending(w) => /\ order.status \in Final /\ ~order.settled /\ ~order.released
                    /\ \A v \in Workers : Ending(v) => v = w

\* The waybill a is on the shipment.
Recorded(a) == \E d \in Shipments : doc[d].awb = a

Stopped(a) == parcel[a] \in Ended

\* What a handler that links or cancels the order relies on.
Relies(w) ==
  /\ call[w].pc = "link" => Recorded(call[w].awb)
  /\ call[w].pc \in {"restock", "cancel"} /\ call[w].awb # None => Stopped(call[w].awb)

StopInv ==
  Single /\ ~astray =>
    /\ order.awb # None => Recorded(order.awb)
    /\ \A d \in Docs : doc[d].awb # None /\ doc[d].status \notin Live => Stopped(doc[d].awb)
    /\ \A w \in Workers : Relies(w)

CourierInv == TypeInv /\ EndInv /\ StopInv

-----------------------------------------------------------------------------
(* The slots and the parcels. *)

\* A parcel is booked for good and keeps its end.
Grown(p, q) ==
  \A a \in Waybills : /\ p[a] # None => q[a] # None
                      /\ p[a] \in Ended => q[a] = p[a]

LEMMA BackedGrows ==
  ASSUME NEW c \in Activations, NEW p, NEW q, Grown(p, q), Backed(c, p), Shaped(c)
  PROVE  Backed(c, q)
<1>1. c.awb # None => c.awb \in Waybills
  BY DEF Activations
<1>2. c.pc = "mark" => c.awb \in Waybills
  BY <1>1 DEF Shaped
<1>3. \A a \in Waybills : p[a] \in {"DELIVERED", "CANCELLED", "FAILED"} => q[a] = p[a]
  BY DEF Grown, Ended
<1> QED
  BY <1>1, <1>2, <1>3 DEF Backed, Grown, Ended

Good(r, p) == r \in Activations /\ Shaped(r) /\ Backed(r, p)

LEMMA IdleGood == \A p : Good(Idle, p)
BY DEF Good, Idle, Activations, Pcs, Shaped, Backed

Slots == call \in [Workers -> Activations]

LEMMA SlotsTyped == TypeOK => Slots
BY DEF TypeOK, Slots, Activations

\* A handler's slot gets the content r.
LEMMA Entered ==
  ASSUME TypeInv, NEW w \in Workers, NEW r, Enter(w, r), Good(r, parcel'),
         Grown(parcel, parcel')
  PROVE  /\ call' \in [Workers -> Activations] /\ CallInv'
         /\ call'[w] = r /\ \A v \in Workers \ {w} : call'[v] = call[v]
<1>1. Slots
  BY SlotsTyped DEF TypeInv
<1>2. call' \in [Workers -> Activations]
  BY <1>1 DEF Enter, Slots, Good
<1>3. call'[w] = r /\ \A v \in Workers \ {w} : call'[v] = call[v]
  BY <1>1 DEF Enter, Slots
<1>4. \A v \in Workers \ {w} : Shaped(call[v]) /\ Backed(call[v], parcel')
  BY <1>1, BackedGrows DEF TypeInv, CallInv, Slots
<1> QED
  BY <1>2, <1>3, <1>4 DEF CallInv, Good

LEMMA FinishEnters == ASSUME NEW w, Finish(w) PROVE Enter(w, Idle)
BY DEF Finish, Enter

LEMMA GotoEnters ==
  ASSUME Slots, NEW w \in Workers, NEW pc, Goto(w, pc)
  PROVE  Enter(w, [call[w] EXCEPT !.pc = pc])
BY DEF Goto, Enter, Slots

LEMMA Finished ==
  ASSUME TypeInv, NEW w \in Workers, Finish(w), Grown(parcel, parcel')
  PROVE  /\ call' \in [Workers -> Activations] /\ CallInv'
         /\ call'[w] = Idle /\ \A v \in Workers \ {w} : call'[v] = call[v]
BY Entered, FinishEnters, IdleGood

\* The state but for the slots.
LEMMA Typed ==
  ASSUME TypeInv, call' \in [Workers -> Activations], CallInv', order' \in OrderType,
         doc' \in [Docs -> [status : Statuses \cup {None}, awb : Waybills \cup {None}]],
         parcel' \in [Waybills -> Moving \cup Ended \cup {None}],
         faults' \in 0 .. MaxFault, astray' \in BOOLEAN
  PROVE  TypeOK'
BY DEF TypeOK, Activations, CallInv, Shaped

LEMMA Faulty == ASSUME TypeInv, Fault PROVE faults' \in 0 .. MaxFault
BY FaultAssumption DEF TypeInv, TypeOK, Fault

\* What the slots and the parcels are like whatever a step does.
LEMMA Facts ==
  ASSUME TypeInv
  PROVE  /\ Slots /\ order \in OrderType
         /\ doc \in [Docs -> [status : Statuses \cup {None}, awb : Waybills \cup {None}]]
         /\ parcel \in [Waybills -> Moving \cup Ended \cup {None}]
         /\ faults \in 0 .. MaxFault /\ astray \in BOOLEAN
         /\ Grown(parcel, parcel) /\ BookedInv
         /\ \A w \in Workers : Good(call[w], parcel)
BY SlotsTyped DEF TypeInv, TypeOK, Grown, CallInv, Good, Slots

-----------------------------------------------------------------------------
(* Types, what the handlers rely on, and the waybills, action by action. *)

\* The contents that handlers give their slots.
LEMMA LinkGood ==
  ASSUME NEW a \in Waybills, NEW p, p[a] # None
  PROVE  Good([Idle EXCEPT !.pc = "link", !.awb = a], p)
BY NoneAssumption DEF Good, Activations, Idle, Pcs, Shaped, Backed

LEMMA BookGood ==
  ASSUME NEW d \in Docs, NEW s \in Statuses, NEW p
  PROVE  Good([Idle EXCEPT !.pc = "book", !.doc = d, !.seen = s], p)
BY NoneAssumption DEF Good, Activations, Idle, Pcs, Shaped, Backed

LEMMA StartCreateTypes ==
  ASSUME TypeInv, NEW w \in Workers, StartCreate(w) PROVE TypeInv'
<1>0. parcel' = parcel /\ UNCHANGED <<order, doc, faults, astray>>
  BY DEF StartCreate
<1>1. CASE Enter(w, [Idle EXCEPT !.pc = "insert"])
  <2>1. Good([Idle EXCEPT !.pc = "insert"], parcel')
    BY DEF Good, Activations, Idle, Pcs, Shaped, Backed
  <2> QED
    BY <1>0, <1>1, <2>1, Facts, Entered, Typed DEF TypeInv, BookedInv
<1>2. ASSUME NEW d \in Shipments, doc[d].awb # None,
             Enter(w, [Idle EXCEPT !.pc = "link", !.awb = doc[d].awb])
      PROVE  TypeInv'
  <2>1. doc[d].awb \in Waybills /\ parcel[doc[d].awb] # None
    BY <1>2, Facts DEF Shipments, BookedInv
  <2>2. Good([Idle EXCEPT !.pc = "link", !.awb = doc[d].awb], parcel')
    BY <1>0, <2>1, LinkGood
  <2> QED
    BY <1>0, <1>2, <2>2, Facts, Entered, Typed DEF TypeInv, BookedInv
<1>3. ASSUME NEW d \in Shipments,
             Enter(w, [Idle EXCEPT !.pc = "book", !.doc = d, !.seen = doc[d].status])
      PROVE  TypeInv'
  <2>1. d \in Docs /\ doc[d].status \in Statuses
    BY <1>3, Facts DEF Shipments
  <2>2. Good([Idle EXCEPT !.pc = "book", !.doc = d, !.seen = doc[d].status], parcel')
    BY <2>1, BookGood
  <2> QED
    BY <1>0, <1>3, <2>2, Facts, Entered, Typed DEF TypeInv, BookedInv
<1> QED
  BY <1>1, <1>2, <1>3 DEF StartCreate

LEMMA InsertTypes ==
  ASSUME TypeInv, NEW w \in Workers, Insert(w) PROVE TypeInv'
<1>1. PICK d \in Docs :
        /\ doc' = [doc EXCEPT ![d].status = "PENDING"]
        /\ Enter(w, [call[w] EXCEPT !.pc = "book", !.doc = d, !.seen = "PENDING"])
  BY DEF Insert
<1>2. parcel' = parcel /\ UNCHANGED <<order, faults, astray>>
  BY DEF Insert
<1>3. Good(call[w], parcel) /\ call[w] \in Activations
  BY Facts DEF Slots
<1>4. Good([call[w] EXCEPT !.pc = "book", !.doc = d, !.seen = "PENDING"], parcel')
  BY <1>2, <1>3, NoneAssumption DEF Good, Activations, Pcs, Statuses, Shaped, Backed
<1>5. call' \in [Workers -> Activations] /\ CallInv'
  BY <1>1, <1>2, <1>4, Facts, Entered
<1>6. doc' \in [Docs -> [status : Statuses \cup {None}, awb : Waybills \cup {None}]]
  BY <1>1, Facts DEF Statuses
<1>7. BookedInv'
  BY <1>1, <1>2, Facts DEF BookedInv
<1> QED
  BY <1>2, <1>5, <1>6, <1>7, Facts, Typed DEF TypeInv

LEMMA BookTypes ==
  ASSUME TypeInv, NEW w \in Workers, Book(w) PROVE TypeInv' /\ Grown(parcel, parcel')
<1>0. UNCHANGED <<order, doc, astray>>
  BY DEF Book
<1>1. Good(call[w], parcel) /\ call[w] \in Activations /\ Slots /\ call[w].pc = "book"
  BY Facts DEF Slots, Book, At
<1>2. ASSUME NEW a \in Waybills, parcel[a] = None,
             parcel' = [parcel EXCEPT ![a] = "ORDER_CREATED"]
      PROVE  /\ parcel' \in [Waybills -> Moving \cup Ended \cup {None}]
             /\ Grown(parcel, parcel') /\ BookedInv' /\ parcel'[a] # None
  <2>1. /\ parcel' \in [Waybills -> Moving \cup Ended \cup {None}]
        /\ Grown(parcel, parcel') /\ parcel'[a] # None
    BY <1>2, Facts, NoneAssumption DEF Moving, Ended, Grown
  <2>2. order.awb # None => order.awb \in Waybills
    BY Facts DEF OrderType
  <2> QED
    BY <1>0, <2>1, <2>2, Facts DEF BookedInv, Grown
<1>3. ASSUME NEW a \in Waybills, parcel[a] = None,
             parcel' = [parcel EXCEPT ![a] = "ORDER_CREATED"], UNCHANGED faults,
             Enter(w, [call[w] EXCEPT !.pc = "booked", !.awb = a, !.seen = None])
      PROVE  TypeInv' /\ Grown(parcel, parcel')
  <2>1. Good([call[w] EXCEPT !.pc = "booked", !.awb = a, !.seen = None], parcel')
    BY <1>1, <1>2, <1>3, NoneAssumption DEF Good, Activations, Pcs, Shaped, Backed
  <2> QED
    BY <1>0, <1>2, <1>3, <2>1, Facts, Entered, Typed DEF TypeInv
<1>4. ASSUME Goto(w, "refused"), Grown(parcel, parcel'), BookedInv',
             parcel' \in [Waybills -> Moving \cup Ended \cup {None}],
             faults' \in 0 .. MaxFault
      PROVE  TypeInv'
  <2>1. Good(call[w], parcel')
    BY <1>1, <1>4, BackedGrows DEF Good
  <2>2. Good([call[w] EXCEPT !.pc = "refused"], parcel')
    BY <1>1, <2>1 DEF Good, Activations, Pcs, Shaped, Backed
  <2> QED
    BY <1>0, <1>1, <1>4, <2>2, GotoEnters, Facts, Entered, Typed DEF TypeInv
<1>5. ASSUME Goto(w, "refused"), UNCHANGED <<parcel, faults>>
      PROVE  TypeInv' /\ Grown(parcel, parcel')
  <2>1. BookedInv'
    BY <1>0, <1>5, Facts DEF BookedInv
  <2> QED
    BY <1>4, <1>5, <2>1, Facts
<1> QED
  BY <1>2, <1>3, <1>4, <1>5, Faulty DEF Book, Booked

LEMMA RecordTypes ==
  ASSUME TypeInv, NEW w \in Workers, Record(w) \/ RecordFails(w) PROVE TypeInv'
<1>0. UNCHANGED <<order, parcel>>
  BY DEF Record, RecordFails
<1>1. /\ Good(call[w], parcel) /\ call[w] \in Activations /\ call[w].pc = "booked"
      /\ call[w].awb \in Waybills /\ parcel[call[w].awb] # None
  BY Facts DEF Slots, Record, RecordFails, At, Good, Shaped, Backed, Activations
<1>2. ASSUME NEW s \in Statuses,
             doc' = [doc EXCEPT ![call[w].doc] = [status |-> s, awb |-> call[w].awb]]
      PROVE  /\ doc' \in [Docs -> [status : Statuses \cup {None}, awb : Waybills \cup {None}]]
             /\ BookedInv'
  BY <1>0, <1>1, <1>2, Facts DEF BookedInv
<1>3. /\ doc' \in [Docs -> [status : Statuses \cup {None}, awb : Waybills \cup {None}]]
      /\ BookedInv'
  BY <1>2 DEF Record, RecordFails, Statuses, Moving, Ended
<1>4. call' \in [Workers -> Activations] /\ CallInv'
  <2>1. CASE Enter(w, [Idle EXCEPT !.pc = "link", !.awb = call[w].awb])
    BY <1>0, <1>1, <2>1, LinkGood, Facts, Entered
  <2>2. CASE Finish(w)
    BY <1>0, <2>2, Facts, Finished
  <2> QED
    BY <2>1, <2>2 DEF Record, RecordFails
<1>5. faults' \in 0 .. MaxFault /\ astray' \in BOOLEAN
  BY Facts, Faulty DEF Record, RecordFails
<1> QED
  BY <1>0, <1>3, <1>4, <1>5, Facts, Typed DEF TypeInv

LEMMA LinkTypes ==
  ASSUME TypeInv, NEW w \in Workers, Link(w) PROVE TypeInv'
<1>0. UNCHANGED <<doc, parcel, faults, astray>> /\ Finish(w)
  BY DEF Link
<1>1. call[w].awb \in Waybills /\ parcel[call[w].awb] # None
  BY Facts DEF Slots, Link, At, Good, Shaped, Backed, Activations
<1>2. order' \in OrderType /\ order'.awb = call[w].awb
  BY <1>1, Facts DEF Link, OrderType
<1>3. BookedInv'
  BY <1>0, <1>1, <1>2, Facts DEF BookedInv
<1> QED
  BY <1>0, <1>2, <1>3, Facts, Finished, Typed DEF TypeInv

\* A shipment gets another status.
LEMMA DocSet ==
  ASSUME TypeInv, NEW d, NEW s \in Statuses, doc' = [doc EXCEPT ![d].status = s],
         parcel' = parcel, order' = order
  PROVE  /\ doc' \in [Docs -> [status : Statuses \cup {None}, awb : Waybills \cup {None}]]
         /\ BookedInv' /\ \A e \in Docs : doc'[e].awb = doc[e].awb
BY Facts DEF BookedInv

\* The handler is done, and may have set the status of a shipment.
LEMMA RefusedTypes ==
  ASSUME TypeInv, NEW w \in Workers, Refused(w) \/ Unknown(w) PROVE TypeInv'
<1>0. UNCHANGED <<order, parcel>> /\ Finish(w)
  BY DEF Refused, Unknown
<1>1. faults' \in 0 .. MaxFault /\ astray' \in BOOLEAN
  BY Facts, Faulty DEF Refused, Unknown, Stray
<1>2. doc' = doc \/ doc' = [doc EXCEPT ![call[w].doc].status = "FAILED"]
  BY DEF Refused, Unknown
<1>3. /\ doc' \in [Docs -> [status : Statuses \cup {None}, awb : Waybills \cup {None}]]
      /\ BookedInv'
  <2>1. CASE doc' = doc
    BY <1>0, <2>1, Facts DEF BookedInv
  <2>2. CASE doc' = [doc EXCEPT ![call[w].doc].status = "FAILED"]
    BY <1>0, <2>2, DocSet DEF Statuses, Ended
  <2> QED
    BY <1>2, <2>1, <2>2
<1> QED
  BY <1>0, <1>1, <1>3, Facts, Finished, Typed DEF TypeInv

\* A handler goes on and nothing else changes.
LEMMA MovedOn ==
  ASSUME TypeInv, NEW w \in Workers, NEW r, Enter(w, r), Good(r, parcel),
         UNCHANGED <<order, doc, parcel, faults, astray>>
  PROVE  TypeInv'
<1>1. call' \in [Workers -> Activations] /\ CallInv'
  BY Facts, Entered
<1>2. BookedInv'
  BY Facts DEF BookedInv
<1> QED
  BY <1>1, <1>2, Facts, Typed DEF TypeInv

\* A status in transit says nothing about the parcels; an end is that of a parcel.
LEMMA Seen ==
  ASSUME NEW pc \in {"save", "sync"}, NEW d \in Docs \cup {None}, NEW x \in Statuses \cup {None},
         pc = "save" => d # None, NEW s \in Moving \cup Ended, NEW p,
         s \in Ended => \E a \in Waybills : p[a] = s
  PROVE  Good([Idle EXCEPT !.pc = pc, !.doc = d, !.seen = x, !.status = s], p)
BY NoneAssumption DEF Good, Activations, Idle, Pcs, Shaped, Backed

LEMMA ScanTypes ==
  ASSUME TypeInv, NEW w \in Workers, NEW a \in Waybills, NEW s \in Moving \cup Ended,
         Scan(w, a, s)
  PROVE  TypeInv'
<1>1. PICK d \in Found(a) :
        Enter(w, [Idle EXCEPT !.pc = "save", !.doc = d, !.seen = doc[d].status, !.status = s])
  BY DEF Scan
<1>2. d \in Docs /\ d # None /\ doc[d].status \in Statuses \cup {None}
  BY Facts, NoneAssumption DEF Found, Shipments
<1>3. s \in Ended => parcel[a] = s
  BY DEF Scan, Passed, Moving, Ended
<1>4. Good([Idle EXCEPT !.pc = "save", !.doc = d, !.seen = doc[d].status, !.status = s], parcel)
  BY <1>2, <1>3, Seen
<1> QED
  BY <1>1, <1>4, MovedOn DEF Scan

LEMMA TrackTypes ==
  ASSUME TypeInv, NEW w \in Workers, NEW d \in Docs, Track(w, d) PROVE TypeInv'
<1>1. /\ doc[d].awb \in Waybills \ {None} /\ parcel[doc[d].awb] # None
      /\ d # None /\ doc[d].status \in Statuses \cup {None}
  BY Facts, NoneAssumption DEF Track, BookedInv
<1>2. Good([Idle EXCEPT !.pc = "fetch", !.doc = d, !.awb = doc[d].awb,
                        !.seen = doc[d].status], parcel)
  BY <1>1 DEF Good, Activations, Idle, Pcs, Shaped, Backed
<1> QED
  BY <1>2, MovedOn DEF Track

LEMMA FetchTypes ==
  ASSUME TypeInv, NEW w \in Workers, Fetch(w) PROVE TypeInv'
<1>0. UNCHANGED <<order, doc, parcel, faults, astray>>
  BY DEF Fetch
<1>1. /\ call[w] \in Activations /\ call[w].pc = "fetch" /\ call[w].doc # None
      /\ call[w].awb \in Waybills /\ parcel[call[w].awb] \in Moving \cup Ended
  BY Facts DEF Slots, Fetch, At, Good, Shaped, Backed, Activations
<1>2. Good([call[w] EXCEPT !.pc = "save", !.awb = None, !.status = parcel[call[w].awb]], parcel)
  BY <1>1, NoneAssumption DEF Good, Activations, Pcs, Shaped, Backed
<1>3. CASE Finish(w)
  BY <1>0, <1>3, FinishEnters, IdleGood, MovedOn
<1> QED
  BY <1>0, <1>2, <1>3, MovedOn DEF Fetch

LEMMA SaveTypes ==
  ASSUME TypeInv, NEW w \in Workers, Save(w) PROVE TypeInv'
<1>0. UNCHANGED <<order, parcel, faults, astray>>
      /\ Enter(w, [Idle EXCEPT !.pc = "sync", !.status = call[w].status])
  BY DEF Save
<1>1. /\ call[w].status \in Moving \cup Ended
      /\ call[w].status \in Ended => \E a \in Waybills : parcel[a] = call[w].status
  BY Facts DEF Slots, Save, At, Good, Shaped, Backed, Activations
<1>2. Good([Idle EXCEPT !.pc = "sync", !.status = call[w].status], parcel)
  BY <1>1, NoneAssumption DEF Good, Activations, Idle, Pcs, Shaped, Backed
<1>3. call' \in [Workers -> Activations] /\ CallInv'
  BY <1>0, <1>2, Facts, Entered
<1>4. /\ doc' \in [Docs -> [status : Statuses \cup {None}, awb : Waybills \cup {None}]]
      /\ BookedInv'
  <2>1. CASE doc' = doc
    BY <1>0, <2>1, Facts DEF BookedInv
  <2>2. CASE doc' = [doc EXCEPT ![call[w].doc].status = call[w].status]
    BY <1>0, <1>1, <2>2, DocSet DEF Statuses
  <2> QED
    BY <2>1, <2>2 DEF Save
<1> QED
  BY <1>0, <1>3, <1>4, Facts, Typed DEF TypeInv

\* A handler sets the order, but not its waybill.
LEMMA OrderSet ==
  ASSUME TypeInv, call' \in [Workers -> Activations], CallInv', order' \in OrderType,
         order'.awb = order.awb, UNCHANGED <<doc, parcel, faults, astray>>
  PROVE  TypeInv'
<1>1. BookedInv'
  BY Facts DEF BookedInv
<1> QED
  BY <1>1, Facts, Typed DEF TypeInv

LEMMA SyncTypes ==
  ASSUME TypeInv, NEW w \in Workers, Sync(w) PROVE TypeInv'
<1> DEFINE s == call[w].status
<1> DEFINE new == WorkflowStatus(s)
<1>0. UNCHANGED <<doc, parcel, faults, astray>>
  BY DEF Sync
<1>1. s \in Moving \cup Ended /\ (s \in Ended => \E a \in Waybills : parcel[a] = s)
  BY Facts DEF Slots, Sync, At, Good, Shaped, Backed, Activations
<1>2. /\ new \in Open \cup Final
      /\ new = "DELIVERED" => s = "DELIVERED"
      /\ new = "CANCELLED" => s \in {"CANCELLED", "FAILED"}
  BY <1>1 DEF WorkflowStatus, Moving, Ended, Open, Final
<1>3. /\ new = "DELIVERED" => Good([Idle EXCEPT !.pc = "settle"], parcel)
      /\ new = "CANCELLED" => Good([Idle EXCEPT !.pc = "compensate"], parcel)
  BY <1>1, <1>2 DEF Good, Activations, Idle, Pcs, Shaped, Backed, Ended
<1>4. order' \in OrderType /\ order'.awb = order.awb
  BY <1>2, Facts DEF Sync, OrderType
<1>5. call' \in [Workers -> Activations] /\ CallInv'
  BY <1>0, <1>3, Facts, Entered, Finished DEF Sync
<1> QED
  BY <1>0, <1>4, <1>5, OrderSet

LEMMA OrderTypes ==
  ASSUME TypeInv, NEW w \in Workers, Settle(w) \/ Compensate(w) \/ Cancel(w) PROVE TypeInv'
<1>0. UNCHANGED <<doc, parcel, faults, astray>> /\ Finish(w)
  BY DEF Settle, Compensate, Cancel
<1>1. order' \in OrderType /\ order'.awb = order.awb
  BY Facts DEF Settle, Compensate, Cancel, OrderType, Final
<1> QED
  BY <1>0, <1>1, Facts, Finished, OrderSet

LEMMA RestockTypes ==
  ASSUME TypeInv, NEW w \in Workers, Restock(w) PROVE TypeInv'
<1>0. UNCHANGED <<doc, parcel, faults, astray>> /\ Goto(w, "cancel")
  BY DEF Restock
<1>1. Good(call[w], parcel) /\ call[w].pc = "restock" /\ Slots
  BY Facts DEF Restock, At
<1>2. Good([call[w] EXCEPT !.pc = "cancel"], parcel)
  BY <1>1 DEF Good, Activations, Pcs, Shaped, Backed
<1>3. call' \in [Workers -> Activations] /\ CallInv'
  BY <1>0, <1>1, <1>2, GotoEnters, Facts, Entered
<1>4. order' \in OrderType /\ order'.awb = order.awb
  BY Facts DEF Restock, OrderType
<1> QED
  BY <1>0, <1>3, <1>4, OrderSet

LEMMA StartCancelTypes ==
  ASSUME TypeInv, NEW w \in Workers, StartCancel(w) \/ StartStop(w) PROVE TypeInv'
<1>0. UNCHANGED <<order, doc, parcel, faults, astray>>
  BY DEF StartCancel, StartStop
<1>1. ASSUME NEW op \in {"cancel", "stop"}, NEW d \in Shipments, doc[d].awb # None,
             Enter(w, [Idle EXCEPT !.op = op, !.pc = "ask", !.doc = d, !.awb = doc[d].awb])
      PROVE  TypeInv'
  <2>1. d \in Docs /\ d # None /\ doc[d].awb \in Waybills /\ parcel[doc[d].awb] # None
    BY <1>1, Facts, NoneAssumption DEF Shipments, BookedInv
  <2>2. Good([Idle EXCEPT !.op = op, !.pc = "ask", !.doc = d, !.awb = doc[d].awb], parcel)
    BY <2>1, NoneAssumption DEF Good, Activations, Idle, Pcs, Shaped, Backed
  <2> QED
    BY <1>0, <1>1, <2>2, MovedOn
<1>2. ASSUME Enter(w, [Idle EXCEPT !.op = "cancel", !.awb = order.awb, !.pc = "restock"])
      PROVE  TypeInv'
  <2>1. order.awb \in Waybills \cup {None} /\ (order.awb # None => parcel[order.awb] # None)
    BY Facts DEF OrderType, BookedInv
  <2>2. Good([Idle EXCEPT !.op = "cancel", !.awb = order.awb, !.pc = "restock"], parcel)
    BY <2>1, NoneAssumption DEF Good, Activations, Idle, Pcs, Shaped, Backed
  <2> QED
    BY <1>0, <1>2, <2>2, MovedOn
<1>3. ASSUME NEW d, NEW a
      PROVE  [[Idle EXCEPT !.op = "cancel", !.awb = order.awb] EXCEPT
                !.pc = "ask", !.doc = d, !.awb = a]
              = [Idle EXCEPT !.op = "cancel", !.pc = "ask", !.doc = d, !.awb = a]
  BY DEF Idle
<1>4. [[Idle EXCEPT !.op = "cancel", !.awb = order.awb] EXCEPT !.pc = "restock"]
        = [Idle EXCEPT !.op = "cancel", !.awb = order.awb, !.pc = "restock"]
  BY DEF Idle
<1>5. CASE StartCancel(w)
  BY <1>1, <1>2, <1>3, <1>4, <1>5 DEF StartCancel
<1>6. CASE StartStop(w)
  BY <1>1, <1>6 DEF StartStop
<1> QED
  BY <1>5, <1>6

\* The parcel a comes to the status s.
LEMMA ParcelSet ==
  ASSUME TypeInv, NEW a \in Waybills, NEW s \in Moving \cup Ended,
         parcel[a] \in Moving \cup {"CANCELLED"}, parcel[a] = "CANCELLED" => s = "CANCELLED",
         parcel' = [parcel EXCEPT ![a] = s], UNCHANGED <<order, doc>>
  PROVE  /\ parcel' \in [Waybills -> Moving \cup Ended \cup {None}]
         /\ Grown(parcel, parcel') /\ BookedInv'
<1>1. /\ parcel' \in [Waybills -> Moving \cup Ended \cup {None}]
      /\ Grown(parcel, parcel')
  BY Facts, NoneAssumption DEF Moving, Ended, Grown
<1>2. order.awb # None => order.awb \in Waybills
  BY Facts DEF OrderType
<1> QED
  BY <1>1, <1>2, Facts DEF BookedInv, Grown

LEMMA AskTypes ==
  ASSUME TypeInv, NEW w \in Workers, Ask(w) PROVE TypeInv' /\ Grown(parcel, parcel')
<1> DEFINE a == call[w].awb
<1>0. UNCHANGED <<order, doc, astray>>
  BY DEF Ask
<1>1. /\ Good(call[w], parcel) /\ call[w] \in Activations /\ Slots /\ call[w].pc = "ask"
      /\ a \in Waybills /\ call[w].doc # None
  BY Facts DEF Slots, Ask, At, Good, Shaped, Activations
<1>2. ASSUME parcel[a] \in Moving \cup {"CANCELLED"}, parcel' = [parcel EXCEPT ![a] = "CANCELLED"]
      PROVE  /\ parcel' \in [Waybills -> Moving \cup Ended \cup {None}]
             /\ Grown(parcel, parcel') /\ BookedInv' /\ parcel'[a] = "CANCELLED"
  BY <1>0, <1>1, <1>2, ParcelSet, Facts DEF Ended
<1>3. ASSUME parcel[a] \in Moving \cup {"CANCELLED"}, parcel' = [parcel EXCEPT ![a] = "CANCELLED"],
             Goto(w, "mark"), UNCHANGED faults
      PROVE  TypeInv' /\ Grown(parcel, parcel')
  <2>1. Good([call[w] EXCEPT !.pc = "mark"], parcel')
    BY <1>1, <1>2, <1>3, NoneAssumption DEF Good, Activations, Pcs, Shaped, Backed, Ended
  <2>2. call' \in [Workers -> Activations] /\ CallInv'
    BY <1>1, <1>2, <1>3, <2>1, GotoEnters, Entered
  <2> QED
    BY <1>0, <1>2, <1>3, <2>2, Facts, Typed DEF TypeInv
<1>4. ASSUME Finish(w), Grown(parcel, parcel'), BookedInv', faults' \in 0 .. MaxFault,
             parcel' \in [Waybills -> Moving \cup Ended \cup {None}]
      PROVE  TypeInv'
  BY <1>0, <1>4, Facts, Finished, Typed DEF TypeInv
<1>5. ASSUME Finish(w), UNCHANGED <<parcel, faults>>
      PROVE  TypeInv' /\ Grown(parcel, parcel')
  <2>1. BookedInv'
    BY <1>0, <1>5, Facts DEF BookedInv
  <2> QED
    BY <1>4, <1>5, <2>1, Facts
<1> QED
  BY <1>2, <1>3, <1>4, <1>5, Faulty DEF Ask

LEMMA MarkTypes ==
  ASSUME TypeInv, NEW w \in Workers, Mark(w) PROVE TypeInv'
<1>0. UNCHANGED <<order, parcel, faults>> /\ doc' = [doc EXCEPT ![call[w].doc].status = "CANCELLED"]
  BY DEF Mark
<1>1. Good(call[w], parcel) /\ call[w] \in Activations /\ call[w].pc = "mark"
  BY Facts DEF Slots, Mark, At
<1>2. Good([call[w] EXCEPT !.pc = "restock", !.doc = None], parcel)
  BY <1>1 DEF Good, Activations, Pcs, Shaped, Backed
<1>3. call' \in [Workers -> Activations] /\ CallInv'
  BY <1>0, <1>2, Facts, Entered, Finished DEF Mark
<1>4. astray' \in BOOLEAN
  BY Facts DEF Mark, Stray
<1>5. /\ doc' \in [Docs -> [status : Statuses \cup {None}, awb : Waybills \cup {None}]]
      /\ BookedInv'
  BY <1>0, DocSet DEF Statuses, Ended
<1> QED
  BY <1>0, <1>3, <1>4, <1>5, Facts, Typed DEF TypeInv

LEMMA CarryTypes ==
  ASSUME TypeInv, NEW a \in Waybills, Carry(a) PROVE TypeInv' /\ Grown(parcel, parcel')
<1>1. PICK s \in {Onward[parcel[a]], "FAILED", "CANCELLED"} : parcel' = [parcel EXCEPT ![a] = s]
  BY DEF Carry
<1>2. parcel[a] \in Moving /\ s \in Moving \cup Ended
  BY DEF Carry, Onward, Moving, Ended
<1>3. /\ parcel' \in [Waybills -> Moving \cup Ended \cup {None}]
      /\ Grown(parcel, parcel') /\ BookedInv'
  BY <1>1, <1>2, ParcelSet DEF Carry, Moving
<1>4. call' \in [Workers -> Activations] /\ CallInv'
  BY <1>3, Facts, BackedGrows DEF Carry, CallInv, Good, Slots
<1> QED
  BY <1>3, <1>4, Facts, Typed DEF TypeInv, Carry

LEMMA CrashTypes ==
  ASSUME TypeInv, NEW w \in Workers, Crash(w) PROVE TypeInv'
<1>0. UNCHANGED <<order, doc, parcel>> /\ Finish(w)
  BY DEF Crash
<1>1. faults' \in 0 .. MaxFault /\ astray' \in BOOLEAN
  BY Facts, Faulty DEF Crash
<1>2. BookedInv'
  BY <1>0, Facts DEF BookedInv
<1> QED
  BY <1>0, <1>1, <1>2, Facts, Finished, Typed DEF TypeInv

LEMMA StutterTypes == ASSUME TypeInv, UNCHANGED vars PROVE TypeInv'
BY DEF vars, TypeInv, TypeOK, CallInv, BookedInv

LEMMA TypeStep == TypeInv /\ [Next]_vars => TypeInv'
<1> SUFFICES ASSUME TypeInv, [Next]_vars PROVE TypeInv'
  OBVIOUS
<1>1. ASSUME NEW w \in Workers, Start(w) PROVE TypeInv'
  BY <1>1, StartCreateTypes, StartCancelTypes, ScanTypes, TrackTypes
  DEF Start, Reconcile, SyncTracking
<1>2. ASSUME NEW w \in Workers, Continue(w) PROVE TypeInv'
  BY <1>2, InsertTypes, BookTypes, RecordTypes, LinkTypes, RefusedTypes, FetchTypes,
     SaveTypes, SyncTypes, OrderTypes, AskTypes, MarkTypes, RestockTypes DEF Continue
<1> QED
  BY <1>1, <1>2, CrashTypes, CarryTypes, StutterTypes DEF Next

\* The parcels only grow.
LEMMA ParcelGrows == TypeInv /\ [Next]_vars => Grown(parcel, parcel')
<1> SUFFICES ASSUME TypeInv, [Next]_vars PROVE Grown(parcel, parcel')
  OBVIOUS
<1>0. parcel' = parcel => Grown(parcel, parcel')
  BY DEF Grown
<1>1. ASSUME NEW w \in Workers, Start(w) PROVE Grown(parcel, parcel')
  BY <1>0, <1>1 DEF Start, StartCreate, StartCancel, StartStop, Scan, Reconcile,
                    SyncTracking, Track
<1>2. ASSUME NEW w \in Workers, Continue(w) PROVE Grown(parcel, parcel')
  BY <1>0, <1>2, BookTypes, AskTypes
  DEF Continue, Insert, Record, RecordFails, Link, Refused, Fetch, Unknown, Save, Sync,
      Settle, Compensate, Mark, Restock, Cancel
<1> QED
  BY <1>0, <1>1, <1>2, CarryTypes DEF Next, Crash, vars

LEMMA InitCourier == Init => CourierInv
<1> SUFFICES ASSUME Init PROVE CourierInv
  OBVIOUS
<1>1. TypeOK
  <2>1. order \in OrderType
    BY DEF Init, OrderType, Open, Final
  <2>2. Idle \in Activations
    BY IdleGood DEF Good
  <2>3. call \in [Workers -> Activations]
    BY <2>2 DEF Init
  <2>4. \A w \in Workers : call[w].pc \notin {"booked", "link", "fetch", "ask"}
    BY DEF Init, Idle
  <2>5. doc \in [Docs -> [status : Statuses \cup {None}, awb : Waybills \cup {None}]]
    BY DEF Init
  <2>6. parcel \in [Waybills -> Moving \cup Ended \cup {None}]
    BY DEF Init
  <2>7. faults = 0 /\ 0 \in 0 .. MaxFault
    BY FaultAssumption DEF Init
  <2>8. astray \in BOOLEAN
    BY DEF Init
  <2> QED
    BY <2>1, <2>3, <2>4, <2>5, <2>6, <2>7, <2>8 DEF TypeOK, Activations
<1>2. CallInv
  BY IdleGood DEF Init, CallInv, Good
<1>3. BookedInv
  BY DEF Init, BookedInv
<1>4. EndInv
  BY DEF Init, EndInv, EndFollowsParcel, Ending, Idle
<1>5. StopInv
  BY DEF Init, StopInv, Relies, Idle
<1> QED
  BY <1>1, <1>2, <1>3, <1>4, <1>5 DEF CourierInv, TypeInv

-----------------------------------------------------------------------------
(* The money. *)

\* A step that lets no handler go on to the money, and keeps the order's end.
LEMMA EndKept ==
  ASSUME TypeInv, TypeInv', EndInv, Grown(parcel, parcel'),
         order'.settled = order.settled, order'.released = order.released,
         order.status \in Final => order'.status \in Final,
         \A v \in Workers : Ending(v)' => Ending(v)
  PROVE  EndInv'
<1>1. EndFollowsParcel'
  BY DEF EndInv, EndFollowsParcel, Grown, Ended
<1> QED
  BY <1>1 DEF EndInv

\* A handler that changes its slot alone goes on to no money.
LEMMA SlotKept ==
  ASSUME TypeInv, NEW w \in Workers, NEW r, Enter(w, r), r.pc \notin {"settle", "compensate"}
  PROVE  \A v \in Workers : Ending(v)' => Ending(v)
BY Facts DEF Ending, Enter, Slots

LEMMA FinishKept ==
  ASSUME TypeInv, NEW w \in Workers, Finish(w)
  PROVE  \A v \in Workers : Ending(v)' => Ending(v)
BY FinishEnters, SlotKept DEF Idle

LEMMA GotoKept ==
  ASSUME TypeInv, NEW w \in Workers, NEW pc, Goto(w, pc), pc \notin {"settle", "compensate"}
  PROVE  \A v \in Workers : Ending(v)' => Ending(v)
<1>1. Enter(w, [call[w] EXCEPT !.pc = pc])
  BY Facts, GotoEnters
<1>2. [call[w] EXCEPT !.pc = pc].pc = pc
  BY Facts DEF Slots, Activations
<1> QED
  BY <1>1, <1>2, SlotKept

LEMMA StartKeepsEnd ==
  ASSUME TypeInv, NEW w \in Workers, Start(w)
  PROVE  order' = order /\ \A v \in Workers : Ending(v)' => Ending(v)
<1>1. ASSUME StartCreate(w) PROVE \A v \in Workers : Ending(v)' => Ending(v)
  BY <1>1, Facts DEF StartCreate, Ending, Enter, Slots, Idle
<1>2. ASSUME StartCancel(w) \/ StartStop(w) PROVE \A v \in Workers : Ending(v)' => Ending(v)
  BY <1>2, Facts DEF StartCancel, StartStop, Ending, Enter, Slots, Idle
<1>3. ASSUME NEW a \in Waybills, NEW s \in Moving \cup Ended, Scan(w, a, s)
      PROVE  \A v \in Workers : Ending(v)' => Ending(v)
  BY <1>3, Facts DEF Scan, Ending, Enter, Slots, Idle
<1>4. ASSUME NEW d \in Docs, Track(w, d) PROVE \A v \in Workers : Ending(v)' => Ending(v)
  BY <1>4, Facts DEF Track, Ending, Enter, Slots, Idle
<1>5. order' = order
  BY DEF Start, StartCreate, StartCancel, StartStop, Scan, Reconcile, SyncTracking, Track
<1> QED
  BY <1>1, <1>2, <1>3, <1>4, <1>5 DEF Start, Reconcile, SyncTracking

LEMMA BookingKeepsEnd ==
  ASSUME TypeInv, NEW w \in Workers,
         \/ Insert(w) \/ Book(w) \/ Record(w) \/ RecordFails(w) \/ Link(w) \/ Refused(w)
  PROVE  /\ order'.settled = order.settled /\ order'.released = order.released
         /\ order'.status = order.status
         /\ \A v \in Workers : Ending(v)' => Ending(v)
<1>0. order \in OrderType /\ Slots
  BY Facts
<1>1. /\ order'.settled = order.settled /\ order'.released = order.released
      /\ order'.status = order.status
  BY <1>0 DEF OrderType, Insert, Book, Record, RecordFails, Link, Refused
<1>2. CASE \E pc \in {"refused"} : Goto(w, pc)
  BY <1>1, <1>2, GotoKept
<1>3. CASE Finish(w)
  BY <1>1, <1>3, FinishKept
<1>4. CASE \E r : Enter(w, r) /\ r.pc \in {"book", "booked", "link"}
  BY <1>1, <1>4, SlotKept
<1>5. CASE Insert(w)
  <2>1. PICK d \in Docs : Enter(w, [call[w] EXCEPT !.pc = "book", !.doc = d, !.seen = "PENDING"])
    BY <1>5 DEF Insert
  <2>2. [call[w] EXCEPT !.pc = "book", !.doc = d, !.seen = "PENDING"].pc = "book"
    BY <1>0 DEF Slots, Activations
  <2> QED
    BY <1>4, <2>1, <2>2
<1>6. CASE Book(w)
  <2>1. ASSUME NEW a, Enter(w, [call[w] EXCEPT !.pc = "booked", !.awb = a, !.seen = None])
        PROVE  \A v \in Workers : Ending(v)' => Ending(v)
    <3>1. [call[w] EXCEPT !.pc = "booked", !.awb = a, !.seen = None].pc = "booked"
      BY <1>0 DEF Slots, Activations
    <3> QED
      BY <1>4, <2>1, <3>1
  <2> QED
    BY <1>1, <1>2, <1>6, <2>1 DEF Book
<1>7. CASE Record(w)
  BY <1>1, <1>7, Facts DEF Record, Ending, Enter, Slots, Idle
<1> QED
  BY <1>3, <1>5, <1>6, <1>7 DEF RecordFails, Link, Refused

LEMMA FollowingKeepsEnd ==
  ASSUME TypeInv, NEW w \in Workers,
         \/ Fetch(w) \/ Unknown(w) \/ Save(w) \/ Ask(w) \/ Mark(w) \/ Restock(w) \/ Cancel(w)
         \/ Crash(w)
  PROVE  /\ order'.settled = order.settled /\ order'.released = order.released
         /\ order.status \in Final => order'.status \in Final
         /\ \A v \in Workers : Ending(v)' => Ending(v)
<1>0. order \in OrderType /\ Slots
  BY Facts
<1>1. /\ order'.settled = order.settled /\ order'.released = order.released
      /\ order.status \in Final => order'.status \in Final
  BY <1>0 DEF OrderType, Final, Fetch, Unknown, Save, Ask, Mark, Restock, Cancel, Crash
<1>2. CASE \E pc \in {"mark", "cancel"} : Goto(w, pc)
  BY <1>1, <1>2, GotoKept
<1>3. CASE Finish(w)
  BY <1>1, <1>3, FinishKept
<1>4. CASE \E r : Enter(w, r) /\ r.pc \in {"save", "sync", "restock"}
  BY <1>1, <1>4, SlotKept
<1>5. CASE Fetch(w)
  <2>1. ASSUME NEW s, Enter(w, [call[w] EXCEPT !.pc = "save", !.awb = None, !.status = s])
        PROVE  \A v \in Workers : Ending(v)' => Ending(v)
    <3>1. [call[w] EXCEPT !.pc = "save", !.awb = None, !.status = s].pc = "save"
      BY <1>0 DEF Slots, Activations
    <3> QED
      BY <1>4, <2>1, <3>1
  <2> QED
    BY <1>1, <1>3, <1>5, <2>1 DEF Fetch
<1>6. CASE Save(w)
  BY <1>1, <1>6, Facts DEF Save, Ending, Enter, Slots, Idle
<1>7. CASE Mark(w)
  <2>1. [call[w] EXCEPT !.pc = "restock", !.doc = None].pc = "restock"
    BY <1>0 DEF Slots, Activations
  <2> QED
    BY <1>3, <1>4, <1>7, <2>1 DEF Mark
<1>8. CASE Ask(w)
  BY <1>2, <1>3, <1>8 DEF Ask
<1> QED
  BY <1>2, <1>3, <1>5, <1>6, <1>7, <1>8 DEF Unknown, Restock, Cancel, Crash

\* The guarded update of the order lets one handler go on to the money.
LEMMA SyncEnd ==
  ASSUME TypeInv, TypeInv', EndInv, NEW w \in Workers, Sync(w) PROVE EndInv'
<1> DEFINE new == WorkflowStatus(call[w].status)
<1>0. parcel' = parcel /\ Slots /\ order \in OrderType
  BY Facts DEF Sync
<1>1. CASE Finish(w)
  BY <1>0, <1>1, FinishKept, EndKept, Facts DEF Sync, OrderType
<1>2. ASSUME order.status \notin Final \cup {new}, order' = [order EXCEPT !.status = new],
             new \in Final, NEW r, Enter(w, r)
      PROVE  EndInv'
  <2>1. /\ ~order.settled /\ ~order.released /\ \A v \in Workers : ~Ending(v)
        /\ order'.settled = order.settled /\ order'.released = order.released
        /\ order'.status \in Final
    BY <1>0, <1>2 DEF EndInv, OrderType
  <2>2. \A v \in Workers : Ending(v)' => v = w
    BY <1>0, <1>2, <2>1 DEF Ending, Enter, Slots
  <2> QED
    BY <1>0, <2>1, <2>2 DEF EndInv, EndFollowsParcel
<1> QED
  BY <1>1, <1>2 DEF Sync, Final

LEMMA MoneyEnd ==
  ASSUME TypeInv, TypeInv', EndInv, NEW w \in Workers, Settle(w) \/ Compensate(w) PROVE EndInv'
<1>0. /\ parcel' = parcel /\ order \in OrderType /\ Finish(w) /\ Ending(w)
      /\ Good(call[w], parcel)
  BY Facts DEF Settle, Compensate, Ending, At
<1>1. /\ order.status \in Final /\ ~order.settled /\ ~order.released
      /\ \A v \in Workers : Ending(v) => v = w
  BY <1>0 DEF EndInv
<1>2. \A v \in Workers : ~Ending(v)'
  BY <1>0, <1>1, Finished, Facts DEF Ending, Idle
<1>3. order'.status = order.status
  BY <1>0 DEF Settle, Compensate, OrderType
<1>4. EndFollowsParcel'
  <2>1. CASE Settle(w)
    BY <1>0, <1>1, <2>1 DEF Settle, At, Good, Backed, EndFollowsParcel, OrderType
  <2>2. CASE Compensate(w)
    BY <1>0, <1>1, <2>2 DEF Compensate, At, Good, Backed, EndFollowsParcel, OrderType
  <2> QED
    BY <1>0, <2>1, <2>2
<1> QED
  BY <1>1, <1>2, <1>3, <1>4 DEF EndInv

LEMMA EndStep == TypeInv /\ EndInv /\ [Next]_vars => EndInv'
<1> SUFFICES ASSUME TypeInv, EndInv, [Next]_vars PROVE EndInv'
  OBVIOUS
<1>0. TypeInv' /\ Grown(parcel, parcel')
  BY TypeStep, ParcelGrows
<1>1. ASSUME NEW w \in Workers, Start(w) PROVE EndInv'
  BY <1>0, <1>1, StartKeepsEnd, EndKept
<1>2. ASSUME NEW w \in Workers, Continue(w) \/ Crash(w) PROVE EndInv'
  BY <1>0, <1>2, BookingKeepsEnd, FollowingKeepsEnd, EndKept, SyncEnd, MoneyEnd DEF Continue
<1>3. ASSUME NEW a \in Waybills, Carry(a) PROVE EndInv'
  BY <1>0, <1>3, EndKept DEF Carry, Ending
<1>4. CASE UNCHANGED vars
  BY <1>0, <1>4, EndKept DEF vars, Ending
<1> QED
  BY <1>1, <1>2, <1>3, <1>4 DEF Next

-----------------------------------------------------------------------------
(* The cancellation and the parcel. *)

\* What a step leaves of the shipments, and what it may hide.
Kept ==
  /\ \A d \in Docs : doc[d].status # None => doc'[d].status # None
  /\ astray => astray'

LEMMA WriteKeeps ==
  ASSUME TypeInv, NEW d, NEW s \in Statuses, doc' = [doc EXCEPT ![d].status = s]
  PROVE  \A e \in Docs : doc[e].status # None => doc'[e].status # None
BY Facts, NoneAssumption DEF Statuses

LEMMA StartKeeps == ASSUME NEW w, Start(w) PROVE Kept
<1>1. doc' = doc /\ astray' = astray
  BY DEF Start, StartCreate, StartCancel, StartStop, Scan, Reconcile, SyncTracking, Track
<1> QED
  BY <1>1 DEF Kept

LEMMA ContinueKeeps == ASSUME TypeInv, NEW w \in Workers, Continue(w) PROVE Kept
<1>0. doc' = doc /\ astray' = astray => Kept
  BY DEF Kept
<1>1. CASE Insert(w)
  BY <1>1, WriteKeeps DEF Insert, Kept, Statuses
<1>2. CASE Record(w) \/ RecordFails(w)
  BY <1>2, Facts, NoneAssumption DEF Record, RecordFails, Kept, Moving, Ended
<1>3. CASE Refused(w) \/ Unknown(w)
  BY <1>3, WriteKeeps DEF Refused, Unknown, Stray, Kept, Statuses, Ended
<1>4. CASE Save(w)
  <2>1. call[w].status \in Statuses
    BY <1>4, Facts DEF Save, At, Slots, Activations, Good, Shaped, Statuses
  <2> QED
    BY <1>4, <2>1, WriteKeeps DEF Save, Kept
<1>5. CASE Mark(w)
  BY <1>5, WriteKeeps DEF Mark, Stray, Kept, Statuses, Ended
<1> QED
  BY <1>0, <1>1, <1>2, <1>3, <1>4, <1>5
  DEF Continue, Book, Link, Fetch, Sync, Settle, Compensate, Ask, Restock, Cancel

LEMMA StepKeeps == TypeInv /\ [Next]_vars => Kept
<1> SUFFICES ASSUME TypeInv, [Next]_vars PROVE Kept
  OBVIOUS
<1>1. ASSUME (\E a \in Waybills : Carry(a)) \/ UNCHANGED vars PROVE Kept
  <2>1. doc' = doc /\ astray' = astray
    BY <1>1 DEF Carry, vars
  <2> QED
    BY <2>1 DEF Kept
<1>2. ASSUME NEW w, Crash(w) PROVE Kept
  BY <1>2 DEF Crash, Kept
<1> QED
  BY <1>1, <1>2, StartKeeps, ContinueKeeps DEF Next

\* A second shipment or parcel stays, and so does what a fault has hidden.
LEMMA Backwards ==
  ASSUME Kept, Grown(parcel, parcel'), Single', ~astray' PROVE Single /\ ~astray
BY DEF Kept, Grown, Single, Shipments, Booked

\* Of a single parcel every waybill is the same.
LEMMA SameParcel ==
  ASSUME Single, NEW a \in Waybills, NEW b \in Waybills, parcel[a] # None, parcel[b] # None
  PROVE  a = b
BY DEF Single, Booked

\* A step that keeps the shipments' waybills, marks as ended only a shipment whose parcel
\* has ended, and gives to a handler what it relies on.
LEMMA StopKept ==
  ASSUME StopInv, Single, ~astray, Kept, Grown(parcel, parcel'), TypeInv, TypeInv',
         order'.awb = order.awb,
         \A d \in Docs :
           /\ doc'[d].awb = doc[d].awb
           /\ doc'[d].awb # None /\ doc'[d].status \notin Live =>
                doc[d].status \notin Live \/ Stopped(doc[d].awb),
         \A v \in Workers : call'[v] = call[v] \/ Relies(v)'
  PROVE  StopInv'
<1>1. \A a \in Waybills : Stopped(a) => Stopped(a)'
  BY DEF Stopped, Grown
<1>2. \A a : Recorded(a) => Recorded(a)'
  BY DEF Recorded, Kept, Shipments
<1>3. order'.awb # None => Recorded(order.awb)'
  BY <1>2 DEF StopInv, Recorded
<1>4. ASSUME NEW d \in Docs, doc'[d].awb # None, doc'[d].status \notin Live
      PROVE  Stopped(doc[d].awb)'
  <2>1. Stopped(doc[d].awb) /\ doc[d].awb \in Waybills
    BY <1>4, Facts DEF StopInv
  <2> QED
    BY <1>1, <1>4, <2>1 DEF Stopped
<1>5. ASSUME NEW v \in Workers, call'[v] = call[v] PROVE Relies(v)'
  <2>1. Relies(v) /\ call[v].awb \in Waybills \cup {None}
    BY Facts DEF StopInv, Slots, Activations
  <2>2. Stopped(call[v].awb) /\ call[v].awb # None => Stopped(call[v].awb)'
    BY <1>1, <1>5, <2>1 DEF Stopped
  <2>3. Recorded(call[v].awb) => Recorded(call[v].awb)'
    BY <1>2, <1>5 DEF Recorded
  <2> QED
    BY <1>5, <2>1, <2>2, <2>3 DEF Relies
<1> QED
  BY <1>3, <1>4, <1>5 DEF StopInv

\* A handler's slot gets the content r.
LEMMA SlotRelies ==
  ASSUME TypeInv, NEW w \in Workers, NEW r, Enter(w, r),
         r.pc = "link" => Recorded(r.awb)',
         r.pc \in {"restock", "cancel"} /\ r.awb # None => Stopped(r.awb)'
  PROVE  \A v \in Workers : call'[v] = call[v] \/ Relies(v)'
BY Facts DEF Enter, Slots, Relies, Recorded, Stopped

\* What the lemmas below assume of a step.
Stepping ==
  /\ TypeInv /\ TypeInv' /\ StopInv /\ Single /\ ~astray /\ Single' /\ ~astray'
  /\ Kept /\ Grown(parcel, parcel')

\* A step that leaves the shipments and the order's waybill alone.
LEMMA StopSlots ==
  ASSUME Stepping, doc' = doc, order'.awb = order.awb,
         \A v \in Workers : call'[v] = call[v] \/ Relies(v)'
  PROVE  StopInv'
BY StopKept DEF Stepping

LEMMA StopFinish ==
  ASSUME Stepping, NEW w \in Workers, Finish(w)
  PROVE  \A v \in Workers : call'[v] = call[v] \/ Relies(v)'
BY FinishEnters, SlotRelies DEF Stepping, Idle

LEMMA StopGoto ==
  ASSUME Stepping, NEW w \in Workers, NEW pc, Goto(w, pc), pc \notin {"link", "restock", "cancel"}
  PROVE  \A v \in Workers : call'[v] = call[v] \/ Relies(v)'
<1>1. Enter(w, [call[w] EXCEPT !.pc = pc]) /\ Slots
  BY Facts, GotoEnters DEF Stepping
<1>2. [call[w] EXCEPT !.pc = pc].pc = pc
  BY <1>1 DEF Slots, Activations
<1> QED
  BY <1>1, <1>2, SlotRelies DEF Stepping

LEMMA StartCreateStops ==
  ASSUME Stepping, NEW w \in Workers, StartCreate(w) PROVE StopInv'
<1>0. UNCHANGED <<order, doc, parcel, faults, astray>>
  BY DEF StartCreate
<1>1. CASE Enter(w, [Idle EXCEPT !.pc = "insert"])
  <2>1. [Idle EXCEPT !.pc = "insert"].pc = "insert"
    BY DEF Idle
  <2> QED
    BY <1>0, <1>1, <2>1, SlotRelies, StopSlots DEF Stepping
<1>2. ASSUME NEW d \in Shipments, Enter(w, [Idle EXCEPT !.pc = "link", !.awb = doc[d].awb])
      PROVE  StopInv'
  <2>1. /\ [Idle EXCEPT !.pc = "link", !.awb = doc[d].awb].pc = "link"
        /\ [Idle EXCEPT !.pc = "link", !.awb = doc[d].awb].awb = doc[d].awb
    BY DEF Idle
  <2>2. Recorded(doc[d].awb)'
    BY <1>0, <1>2 DEF Recorded, Shipments
  <2> QED
    BY <1>0, <1>2, <2>1, <2>2, SlotRelies, StopSlots DEF Stepping, Recorded
<1>3. ASSUME NEW d, NEW x, Enter(w, [Idle EXCEPT !.pc = "book", !.doc = d, !.seen = x])
      PROVE  StopInv'
  <2>1. [Idle EXCEPT !.pc = "book", !.doc = d, !.seen = x].pc = "book"
    BY DEF Idle
  <2> QED
    BY <1>0, <1>3, <2>1, SlotRelies, StopSlots DEF Stepping
<1> QED
  BY <1>1, <1>2, <1>3 DEF StartCreate

LEMMA ScanStops ==
  ASSUME Stepping, NEW w \in Workers,
         (\E a \in Waybills, s \in Moving \cup Ended : Scan(w, a, s)) \/ (\E d \in Docs : Track(w, d))
  PROVE  StopInv'
<1>0. UNCHANGED <<order, doc>>
  BY DEF Scan, Track
<1>1. \A v \in Workers : call'[v] = call[v] \/ Relies(v)'
  <2>1. ASSUME NEW d, NEW x, NEW s,
               Enter(w, [Idle EXCEPT !.pc = "save", !.doc = d, !.seen = x, !.status = s])
        PROVE  \A v \in Workers : call'[v] = call[v] \/ Relies(v)'
    <3>1. [Idle EXCEPT !.pc = "save", !.doc = d, !.seen = x, !.status = s].pc = "save"
      BY DEF Idle
    <3> QED
      BY <2>1, <3>1, SlotRelies DEF Stepping
  <2>2. ASSUME NEW d, NEW x, NEW a,
               Enter(w, [Idle EXCEPT !.pc = "fetch", !.doc = d, !.awb = a, !.seen = x])
        PROVE  \A v \in Workers : call'[v] = call[v] \/ Relies(v)'
    <3>1. [Idle EXCEPT !.pc = "fetch", !.doc = d, !.awb = a, !.seen = x].pc = "fetch"
      BY DEF Idle
    <3> QED
      BY <2>2, <3>1, SlotRelies DEF Stepping
  <2> QED
    BY <2>1, <2>2 DEF Scan, Track
<1> QED
  BY <1>0, <1>1, StopSlots

\* A cancellation that finds the shipment not live finds its parcel ended.
LEMMA StartCancelStops ==
  ASSUME Stepping, NEW w \in Workers, StartCancel(w) \/ StartStop(w) PROVE StopInv'
<1>0. UNCHANGED <<order, doc, parcel, faults, astray>>
  BY DEF StartCancel, StartStop
<1>1. ASSUME NEW op, NEW d, NEW a, NEW b,
             Enter(w, [[Idle EXCEPT !.op = op, !.awb = b] EXCEPT !.pc = "ask", !.doc = d, !.awb = a])
             \/ Enter(w, [Idle EXCEPT !.op = op, !.pc = "ask", !.doc = d, !.awb = a])
      PROVE  StopInv'
  <2>1. [[Idle EXCEPT !.op = op, !.awb = b] EXCEPT !.pc = "ask", !.doc = d, !.awb = a].pc = "ask"
    BY DEF Idle
  <2>2. [Idle EXCEPT !.op = op, !.pc = "ask", !.doc = d, !.awb = a].pc = "ask"
    BY DEF Idle
  <2> QED
    BY <1>0, <1>1, <2>1, <2>2, SlotRelies, StopSlots DEF Stepping
<1>2. ASSUME order.awb # None => Stopped(order.awb),
             Enter(w, [[Idle EXCEPT !.op = "cancel", !.awb = order.awb] EXCEPT !.pc = "restock"])
      PROVE  StopInv'
  <2>1. /\ [[Idle EXCEPT !.op = "cancel", !.awb = order.awb] EXCEPT !.pc = "restock"].pc = "restock"
        /\ [[Idle EXCEPT !.op = "cancel", !.awb = order.awb] EXCEPT !.pc = "restock"].awb = order.awb
    BY DEF Idle
  <2>2. order.awb # None => Stopped(order.awb)'
    BY <1>0, <1>2 DEF Stopped
  <2> QED
    BY <1>0, <1>2, <2>1, <2>2, SlotRelies, StopSlots DEF Stepping, Stopped
<1>3. ASSUME NEW d \in Shipments, order.awb # None, doc[d].status \notin Live \/ doc[d].awb = None
      PROVE  Stopped(order.awb)
  <2>1. PICK e \in Shipments : doc[e].awb = order.awb
    BY <1>3 DEF Stepping, StopInv, Recorded
  <2>2. e = d /\ d \in Docs
    BY <1>3, <2>1 DEF Stepping, Single, Shipments
  <2> QED
    BY <1>3, <2>1, <2>2 DEF Stepping, StopInv
<1>4. CASE StartCancel(w)
  BY <1>1, <1>2, <1>3, <1>4 DEF StartCancel
<1>5. CASE StartStop(w)
  BY <1>1, <1>5 DEF StartStop
<1> QED
  BY <1>4, <1>5

LEMMA InsertStops ==
  ASSUME Stepping, NEW w \in Workers, Insert(w) PROVE StopInv'
<1>1. PICK d \in Docs \ Shipments :
        /\ doc' = [doc EXCEPT ![d].status = "PENDING"]
        /\ Enter(w, [call[w] EXCEPT !.pc = "book", !.doc = d, !.seen = "PENDING"])
  BY DEF Insert
<1>2. Slots /\ [call[w] EXCEPT !.pc = "book", !.doc = d, !.seen = "PENDING"].pc = "book"
  BY Facts DEF Stepping, Slots, Activations
<1>3. \A v \in Workers : call'[v] = call[v] \/ Relies(v)'
  BY <1>1, <1>2, SlotRelies DEF Stepping
<1>4. \A e \in Docs :
        /\ doc'[e].awb = doc[e].awb
        /\ doc'[e].status \notin Live => doc[e].status \notin Live
  BY <1>1, Facts, NoneAssumption DEF Stepping, Shipments, Live
<1> QED
  BY <1>3, <1>4, StopKept DEF Stepping, Insert

LEMMA BookStops ==
  ASSUME Stepping, NEW w \in Workers, Book(w) PROVE StopInv'
<1>1. UNCHANGED <<order, doc>> /\ Slots
  BY Facts DEF Book, Stepping
<1>2. ASSUME NEW a, Enter(w, [call[w] EXCEPT !.pc = "booked", !.awb = a, !.seen = None])
      PROVE  StopInv'
  <2>1. [call[w] EXCEPT !.pc = "booked", !.awb = a, !.seen = None].pc = "booked"
    BY <1>1 DEF Slots, Activations
  <2> QED
    BY <1>1, <1>2, <2>1, SlotRelies, StopSlots DEF Stepping
<1>3. CASE Goto(w, "refused")
  BY <1>1, <1>3, StopGoto, StopSlots
<1> QED
  BY <1>2, <1>3 DEF Book

\* The waybill of the booking is the order's, for there is one parcel.
LEMMA RecordStops ==
  ASSUME Stepping, NEW w \in Workers, Record(w) PROVE StopInv'
<1>1. PICK a \in Waybills, d \in Docs : a = call[w].awb /\ d = call[w].doc /\ parcel[a] # None
  BY Facts DEF Stepping, Slots, Record, At, Good, Shaped, Backed, Activations
<1>0. UNCHANGED <<order, parcel>> /\ Enter(w, [Idle EXCEPT !.pc = "link", !.awb = a])
  BY <1>1 DEF Record
<1>2. /\ d \in Shipments' /\ doc'[d].awb = a /\ doc'[d].status = "ORDER_CREATED"
      /\ \A e \in Docs \ {d} : doc'[e] = doc[e]
  BY <1>1, Facts, NoneAssumption DEF Stepping, Record, Shipments, Moving
<1>3. Recorded(a)'
  BY <1>0, <1>2 DEF Recorded
<1>4. \A v \in Workers : call'[v] = call[v] \/ Relies(v)'
  <2>1. /\ [Idle EXCEPT !.pc = "link", !.awb = a].pc = "link"
        /\ [Idle EXCEPT !.pc = "link", !.awb = a].awb = a
    BY DEF Idle
  <2> QED
    BY <1>0, <1>3, <2>1, SlotRelies DEF Stepping, Recorded
<1>5. order'.awb # None => Recorded(order.awb)'
  <2>1. order.awb # None => order.awb = a
    BY <1>1, SameParcel, Facts DEF Stepping, BookedInv, OrderType
  <2> QED
    BY <1>0, <1>3, <2>1 DEF Recorded
<1>6. ASSUME NEW e \in Docs, doc'[e].awb # None, doc'[e].status \notin Live
      PROVE  Stopped(doc[e].awb)' /\ doc'[e].awb = doc[e].awb
  <2>1. e # d /\ doc'[e] = doc[e]
    BY <1>2, <1>6 DEF Live, Moving
  <2> QED
    BY <1>0, <1>6, <2>1 DEF Stepping, StopInv, Stopped
<1>7. ASSUME NEW v \in Workers, call'[v] = call[v] PROVE Relies(v)'
  <2>1. Relies(v) /\ Good(call[v], parcel) /\ call[v] \in Activations
    BY Facts DEF Stepping, StopInv, Slots
  <2>2. call[v].pc = "link" => call[v].awb = a
    BY <1>1, <2>1, SameParcel DEF Stepping, Good, Shaped, Backed, Activations
  <2> QED
    BY <1>0, <1>3, <1>7, <2>1, <2>2 DEF Relies, Recorded, Stopped
<1> QED
  BY <1>4, <1>5, <1>6, <1>7 DEF StopInv, Stopped

LEMMA LinkStops ==
  ASSUME Stepping, NEW w \in Workers, Link(w) PROVE StopInv'
<1>0. UNCHANGED <<doc, parcel>> /\ Finish(w)
  BY DEF Link
<1>1. order'.awb = call[w].awb /\ Recorded(call[w].awb)
  BY Facts DEF Stepping, StopInv, Relies, Link, At, OrderType
<1>2. \A v \in Workers : Relies(v)'
  <2>1. \A v \in Workers : call'[v] = call[v] => Relies(v)'
    BY <1>0 DEF Stepping, StopInv, Relies, Recorded, Stopped, Shipments
  <2> QED
    BY <1>0, <2>1, StopFinish
<1>3. Recorded(order.awb)'
  BY <1>0, <1>1 DEF Recorded, Shipments
<1>4. \A e \in Docs : doc'[e].awb # None /\ doc'[e].status \notin Live => Stopped(doc[e].awb)'
  BY <1>0 DEF Stepping, StopInv, Stopped
<1> QED
  BY <1>0, <1>2, <1>3, <1>4 DEF StopInv, Stopped

\* A shipment is marked as ended when its parcel has, or when it was not live.
LEMMA DocStops ==
  ASSUME Stepping, NEW d, NEW s, doc' = [doc EXCEPT ![d].status = s], order'.awb = order.awb,
         s \in Live \/ (\E a \in Waybills : Stopped(a)) \/ doc[d].status \notin Live,
         \A v \in Workers : call'[v] = call[v] \/ Relies(v)'
  PROVE  StopInv'
<1>1. ASSUME NEW e \in Docs
      PROVE  /\ doc'[e].awb = doc[e].awb
             /\ doc'[e].awb # None /\ doc'[e].status \notin Live =>
                  doc[e].status \notin Live \/ Stopped(doc[e].awb)
  <2>1. doc'[e].awb = doc[e].awb
    BY Facts DEF Stepping
  <2>2. CASE e # d
    BY <2>1, <2>2
  <2>3. CASE e = d /\ (s \in Live \/ doc[d].status \notin Live)
    BY <2>1, <2>3, Facts DEF Stepping
  <2>4. ASSUME NEW a \in Waybills, Stopped(a), doc[e].awb # None PROVE Stopped(doc[e].awb)
    <3>1. parcel[a] # None
      BY <2>4, NoneAssumption DEF Stopped
    <3>2. doc[e].awb \in Waybills /\ parcel[doc[e].awb] # None
      BY <2>4, Facts DEF Stepping, BookedInv
    <3> QED
      BY <2>4, <3>1, <3>2, SameParcel DEF Stepping
  <2> QED
    BY <2>1, <2>2, <2>3, <2>4
<1> QED
  BY <1>1, StopKept DEF Stepping

LEMMA RefusedStops ==
  ASSUME Stepping, NEW w \in Workers, Refused(w) \/ Unknown(w) PROVE StopInv'
<1>0. UNCHANGED order /\ Finish(w)
  BY DEF Refused, Unknown
<1>1. CASE doc' = doc
  BY <1>0, <1>1, StopFinish, StopSlots
<1>2. CASE /\ doc' = [doc EXCEPT ![call[w].doc].status = "FAILED"]
           /\ Stray(call[w].doc, "FAILED")
  <2>1. doc[call[w].doc].status \notin Live
    BY <1>2 DEF Stray, Stepping, Ended
  <2> QED
    BY <1>0, <1>2, <2>1, StopFinish, DocStops
<1> QED
  BY <1>1, <1>2 DEF Refused, Unknown, Stepping

LEMMA FetchStops ==
  ASSUME Stepping, NEW w \in Workers, Fetch(w) PROVE StopInv'
<1>0. UNCHANGED <<order, doc>> /\ Slots
  BY Facts DEF Fetch, Stepping
<1>1. ASSUME NEW s, Enter(w, [call[w] EXCEPT !.pc = "save", !.awb = None, !.status = s])
      PROVE  StopInv'
  <2>1. [call[w] EXCEPT !.pc = "save", !.awb = None, !.status = s].pc = "save"
    BY <1>0 DEF Slots, Activations
  <2> QED
    BY <1>0, <1>1, <2>1, SlotRelies, StopSlots DEF Stepping
<1>2. CASE Finish(w)
  BY <1>0, <1>2, StopFinish, StopSlots
<1> QED
  BY <1>1, <1>2 DEF Fetch

\* The end that a handler saves is that of the one parcel.
LEMMA SaveStops ==
  ASSUME Stepping, NEW w \in Workers, Save(w) PROVE StopInv'
<1>0. UNCHANGED order /\ Enter(w, [Idle EXCEPT !.pc = "sync", !.status = call[w].status])
  BY DEF Save
<1>1. /\ call[w].status \in Moving \cup Ended
      /\ call[w].status \in Ended => \E a \in Waybills : parcel[a] = call[w].status
  BY Facts DEF Stepping, Slots, Save, At, Good, Shaped, Backed, Activations
<1>2. call[w].status \in Live \/ \E a \in Waybills : Stopped(a)
  BY <1>1 DEF Live, Stopped
<1>3. \A v \in Workers : call'[v] = call[v] \/ Relies(v)'
  <2>1. [Idle EXCEPT !.pc = "sync", !.status = call[w].status].pc = "sync"
    BY DEF Idle
  <2> QED
    BY <1>0, <2>1, SlotRelies DEF Stepping
<1> QED
  BY <1>0, <1>2, <1>3, StopSlots, DocStops DEF Save

LEMMA SyncStops ==
  ASSUME Stepping, NEW w \in Workers, Sync(w) PROVE StopInv'
<1>0. doc' = doc /\ order'.awb = order.awb
  BY Facts DEF Stepping, Sync, OrderType
<1>1. CASE Finish(w)
  BY <1>0, <1>1, StopFinish, StopSlots
<1>2. ASSUME NEW pc \in {"settle", "compensate"}, Enter(w, [Idle EXCEPT !.pc = pc])
      PROVE  StopInv'
  <2>1. [Idle EXCEPT !.pc = pc].pc = pc
    BY DEF Idle
  <2> QED
    BY <1>0, <1>2, <2>1, SlotRelies, StopSlots DEF Stepping
<1> QED
  BY <1>1, <1>2 DEF Sync

LEMMA OrderStops ==
  ASSUME Stepping, NEW w \in Workers, Settle(w) \/ Compensate(w) \/ Cancel(w) \/ Crash(w)
  PROVE  StopInv'
<1>1. doc' = doc /\ order'.awb = order.awb /\ Finish(w)
  BY Facts DEF Stepping, Settle, Compensate, Cancel, Crash, OrderType
<1> QED
  BY <1>1, StopFinish, StopSlots

LEMMA AskStops ==
  ASSUME Stepping, NEW w \in Workers, Ask(w) PROVE StopInv'
<1>1. UNCHANGED <<order, doc>>
  BY DEF Ask
<1>2. CASE Finish(w)
  BY <1>1, <1>2, StopFinish, StopSlots
<1>3. CASE Goto(w, "mark")
  BY <1>1, <1>3, StopGoto, StopSlots
<1> QED
  BY <1>2, <1>3 DEF Ask

LEMMA MarkStops ==
  ASSUME Stepping, NEW w \in Workers, Mark(w) PROVE StopInv'
<1>0. UNCHANGED <<order, parcel>> /\ doc' = [doc EXCEPT ![call[w].doc].status = "CANCELLED"]
  BY DEF Mark
<1>1. /\ call[w] \in Activations /\ call[w].awb \in Waybills /\ Stopped(call[w].awb)
  BY Facts DEF Stepping, Slots, Mark, At, Good, Shaped, Backed, Activations, Stopped
<1>2. CASE Finish(w)
  BY <1>0, <1>1, <1>2, StopFinish, DocStops
<1>3. CASE Enter(w, [call[w] EXCEPT !.pc = "restock", !.doc = None])
  <2>1. /\ [call[w] EXCEPT !.pc = "restock", !.doc = None].pc = "restock"
        /\ [call[w] EXCEPT !.pc = "restock", !.doc = None].awb = call[w].awb
    BY <1>1 DEF Activations
  <2>2. parcel'[call[w].awb] \in Ended
    BY <1>0, <1>1 DEF Stopped
  <2>3. \A v \in Workers : call'[v] = call[v] \/ Relies(v)'
    BY <1>3, <2>1, <2>2, SlotRelies DEF Stepping, Stopped
  <2> QED
    BY <1>0, <1>1, <2>3, DocStops
<1> QED
  BY <1>2, <1>3 DEF Mark

LEMMA RestockStops ==
  ASSUME Stepping, NEW w \in Workers, Restock(w) PROVE StopInv'
<1>0. /\ doc' = doc /\ parcel' = parcel /\ order'.awb = order.awb /\ Slots
      /\ Enter(w, [call[w] EXCEPT !.pc = "cancel"])
  BY Facts, GotoEnters DEF Stepping, Restock, OrderType
<1>1. call[w].awb # None => parcel[call[w].awb] \in Ended
  BY DEF Stepping, StopInv, Relies, Restock, At, Stopped
<1>2. /\ [call[w] EXCEPT !.pc = "cancel"].pc = "cancel"
      /\ [call[w] EXCEPT !.pc = "cancel"].awb = call[w].awb
  BY <1>0 DEF Slots, Activations
<1>3. \A v \in Workers : call'[v] = call[v] \/ Relies(v)'
  BY <1>0, <1>1, <1>2, SlotRelies DEF Stepping, Stopped
<1> QED
  BY <1>0, <1>3, StopSlots

LEMMA StopStep == CourierInv /\ [Next]_vars => StopInv'
<1> SUFFICES ASSUME TypeInv, StopInv, [Next]_vars, Single', ~astray' PROVE StopInv'
  BY DEF CourierInv, StopInv
<1>0. Stepping
  BY TypeStep, ParcelGrows, StepKeeps, Backwards DEF Stepping
<1>1. ASSUME NEW w \in Workers, Start(w) PROVE StopInv'
  BY <1>0, <1>1, StartCreateStops, StartCancelStops, ScanStops DEF Start, Reconcile, SyncTracking
<1>2. ASSUME NEW w \in Workers, Continue(w) PROVE StopInv'
  <2>1. ~RecordFails(w)
    BY <1>0 DEF RecordFails, Stepping
  <2> QED
    BY <1>0, <1>2, <2>1, InsertStops, BookStops, RecordStops, LinkStops, RefusedStops,
       FetchStops, SaveStops, SyncStops, OrderStops, AskStops, MarkStops, RestockStops
    DEF Continue
<1>3. ASSUME NEW a \in Waybills, Carry(a) PROVE StopInv'
  BY <1>0, <1>3, StopSlots DEF Carry
<1>4. CASE UNCHANGED vars
  BY <1>0, <1>4, StopSlots DEF vars
<1> QED
  BY <1>0, <1>1, <1>2, <1>3, <1>4, OrderStops DEF Next

\* A cancellation of an order with a waybill is an administrator's or a scan's.
LEMMA Cancelling ==
  ASSUME TypeInv, [Next]_vars, order.status # "CANCELLED", order'.status = "CANCELLED"
  PROVE  \E w \in Workers : Cancel(w) \/ (Sync(w) /\ call[w].status \in {"CANCELLED", "FAILED"})
<1>0. order \in OrderType
  BY Facts
<1>1. ASSUME NEW w \in Workers, Start(w) \/ Crash(w) PROVE order' = order
  BY <1>1 DEF Start, StartCreate, StartCancel, StartStop, Scan, Reconcile, SyncTracking,
              Track, Crash
<1>2. ASSUME NEW w \in Workers, Continue(w)
      PROVE  order'.status = order.status \/ Sync(w) \/ Cancel(w)
  BY <1>0, <1>2
  DEF Continue, Insert, Book, Record, RecordFails, Link, Refused, Fetch, Unknown, Save,
      Settle, Compensate, Ask, Mark, Restock, OrderType
<1>3. ASSUME NEW w \in Workers, Sync(w) PROVE call[w].status \in {"CANCELLED", "FAILED"}
  <2>1. WorkflowStatus(call[w].status) = "CANCELLED"
    BY <1>0, <1>3 DEF Sync, OrderType
  <2>2. call[w].status \in Moving \cup Ended
    BY <1>3, Facts DEF Slots, Sync, At, Good, Shaped, Activations
  <2> QED
    BY <2>1, <2>2 DEF WorkflowStatus, Moving, Ended
<1> QED
  BY <1>1, <1>2, <1>3 DEF Next, Carry, vars

\* CancelStopsParcel, step by step.
LEMMA CancelStep ==
  ASSUME CourierInv, [Next]_vars, order.status # "CANCELLED", order'.status = "CANCELLED",
         order.awb # None, ~Unlinked, Single, ~astray
  PROVE  parcel[order.awb] \in Ended
<1>0. TypeInv /\ order.awb \in Waybills /\ parcel[order.awb] # None
  BY Facts DEF CourierInv, OrderType, BookedInv
<1>1. PICK w \in Workers : Cancel(w) \/ (Sync(w) /\ call[w].status \in {"CANCELLED", "FAILED"})
  BY <1>0, Cancelling
<1>2. CASE Cancel(w)
  <2>1. call[w].awb # None /\ parcel[call[w].awb] \in Ended
    BY <1>2 DEF Unlinked, Cancel, At, CourierInv, StopInv, Relies, Stopped
  <2>2. call[w].awb \in Waybills /\ parcel[call[w].awb] # None
    BY <1>0, <2>1, NoneAssumption, Facts DEF Slots, Activations
  <2> QED
    BY <1>0, <2>1, <2>2, SameParcel
<1>3. CASE Sync(w) /\ call[w].status \in {"CANCELLED", "FAILED"}
  <2>1. PICK a \in Waybills : parcel[a] = call[w].status
    BY <1>0, <1>3, Facts DEF Good, Backed, Sync, At, Ended
  <2>2. parcel[a] # None /\ parcel[a] \in Ended
    BY <1>3, <2>1, NoneAssumption DEF Ended
  <2> QED
    BY <1>0, <2>1, <2>2, SameParcel
<1> QED
  BY <1>1, <1>2, <1>3

-----------------------------------------------------------------------------

\* CourierInv is an inductive invariant: the types, what each handler between two calls
\* relies on, the one handler that goes on to the money, and the parcels of the shipments
\* that are not live (every function of services/delhivery that the model has).
THEOREM CourierInvariant == Spec => []CourierInv
<1>1. CourierInv /\ [Next]_vars => CourierInv'
  BY TypeStep, EndStep, StopStep DEF CourierInv
<1> QED
  BY InitCourier, <1>1, PTL DEF Spec

\* Types, and no handler asks the courier about, or links the order to, no waybill
\* (delhiveryForwardService.js:266-308, 395-442, 448-474).
THEOREM TypeCorrect == Spec => []TypeOK
<1>1. CourierInv => TypeOK
  BY DEF CourierInv, TypeInv
<1> QED
  BY CourierInvariant, <1>1, PTL

\* For any number of parcels, handlers and repeated or late scans: the order is settled only
\* for a delivered parcel, released only for one that will not come, and never both
\* (delhiveryOrderSync.js:33-129).
THEOREM EndCorrect == Spec => []EndFollowsParcel
<1>1. CourierInv => EndFollowsParcel
  BY DEF CourierInv, EndInv
<1> QED
  BY CourierInvariant, <1>1, PTL

\* Whoever cancels the order, and whatever happens in between, a parcel that is still on
\* its way is stopped first (orderController.js:468-486, delhiveryForwardService.js:395-442).
THEOREM CancelCorrect == Spec => CancelStopsParcel
<1>1. CourierInv /\ [Next]_vars =>
        [order.status # "CANCELLED" /\ order'.status = "CANCELLED" /\ order.awb # None
           => parcel[order.awb] \in Ended \/ Unlinked \/ ~Single \/ astray]_vars
  BY CancelStep
<1> QED
  BY CourierInvariant, <1>1, PTL DEF Spec, CancelStopsParcel
=============================================================================
