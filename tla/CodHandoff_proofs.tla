------------------------- MODULE CodHandoff_proofs -------------------------
(***************************************************************************)
(* Theorems about CodHandoff: for every number of attempts, handlers and   *)
(* crashes, whatever handlers run beside each other.                       *)
(*                                                                         *)
(* The argument.  A handler that writes to the books has claimed the       *)
(* choice, and only a second verification of the delivery code takes a     *)
(* choice back.  An attempt's code is not on record while it is created,   *)
(* so that nobody has paid it when the creation writes its status.  The    *)
(* lock lets one handler work on an attempt, and an attempt that delivered *)
(* is finalised, or its holder is about to.                                *)
(***************************************************************************)
EXTENDS CodHandoff, TLAPS

Activations == [op : Ops \cup {"none"}, pc : Pcs, att : Attempts \cup {NoAttempt}]

\* The calls of a handler that works on an attempt.
Working == Pcs \ {"idle", "begin", "create", "cash", "hand", "cod", "cashRow", "code", "codeRow"}
OnAttempt == \A w \in Workers : call[w].pc \in Working => call[w].att \in Attempts

TypeInv == TypeOK /\ OnAttempt

Acts(w) == Start(w) \/ Continue(w) \/ Crash(w) \/ Fail(w)

-----------------------------------------------------------------------------
(* Type correctness. *)

\* The handlers' names, and every call they can be at.
LEMMA Names ==
  /\ \A op \in {"otp", "qr", "verify", "cash", "paid", "closed"} : op \in Ops
  /\ \A pc \in {"idle", "begin", "look", "claim", "credit", "deliver", "row", "finalize", "dup",
               "unlock", "failed", "fetch", "mark", "stop", "expire", "tidy", "settle",
               "lock", "ack", "nack", "reuse", "shut", "close", "create", "gateway",
               "store", "discard", "cash", "hand", "cod", "cashRow", "code", "codeRow"} :
       pc \in Pcs
BY DEF Ops, Pcs, Holding

\* The slot of a handler after each way to go on, and that the others stay.
LEMMA SlotStep ==
  ASSUME TypeOK, NEW w \in Workers
  PROVE  /\ \A pc \in Pcs : Goto(w, pc) =>
              /\ call' \in [Workers -> Activations]
              /\ call'[w].pc = pc /\ call'[w].att = call[w].att /\ call'[w].op = call[w].op
              /\ \A v \in Workers : v # w => call'[v] = call[v]
         /\ \A pc \in Pcs, i \in Attempts : Visit(w, i, pc) =>
              /\ call' \in [Workers -> Activations]
              /\ call'[w].pc = pc /\ call'[w].att = i
              /\ \A v \in Workers : v # w => call'[v] = call[v]
         /\ Finish(w) =>
              /\ call' \in [Workers -> Activations]
              /\ call'[w].pc = "idle"
              /\ \A v \in Workers : v # w => call'[v] = call[v]
         /\ \A op \in Ops, pc \in Pcs, i \in Attempts \cup {NoAttempt} : Enter(w, op, pc, i) =>
              /\ call' \in [Workers -> Activations]
              /\ call'[w].pc = pc /\ call'[w].att = i
              /\ \A v \in Workers : v # w => call'[v] = call[v]
<1>0. call \in [Workers -> Activations]
  BY DEF TypeOK, Activations
<1>1. ASSUME NEW pc \in Pcs, Goto(w, pc)
      PROVE  /\ call' \in [Workers -> Activations]
             /\ call'[w].pc = pc /\ call'[w].att = call[w].att /\ call'[w].op = call[w].op
             /\ \A v \in Workers : v # w => call'[v] = call[v]
  BY <1>0, <1>1 DEF Goto, Activations
<1>2. ASSUME NEW pc \in Pcs, NEW i \in Attempts, Visit(w, i, pc)
      PROVE  /\ call' \in [Workers -> Activations]
             /\ call'[w].pc = pc /\ call'[w].att = i
             /\ \A v \in Workers : v # w => call'[v] = call[v]
  <2> DEFINE new == [call[w] EXCEPT !.att = i, !.pc = pc]
  <2>1. new \in Activations /\ new.pc = pc /\ new.att = i
    BY <1>0 DEF Activations
  <2>2. call' = [call EXCEPT ![w] = new]
    BY <1>0, <1>2 DEF Visit, Activations
  <2> HIDE DEF new
  <2> QED
    BY <1>0, <2>1, <2>2
<1>3. ASSUME Finish(w)
      PROVE  /\ call' \in [Workers -> Activations]
             /\ call'[w].pc = "idle"
             /\ \A v \in Workers : v # w => call'[v] = call[v]
  <2>1. Idle \in Activations /\ Idle.pc = "idle"
    BY Names DEF Idle, Activations
  <2> QED
    BY <1>0, <1>3, <2>1 DEF Finish
<1>4. ASSUME NEW op \in Ops, NEW pc \in Pcs, NEW i \in Attempts \cup {NoAttempt},
             Enter(w, op, pc, i)
      PROVE  /\ call' \in [Workers -> Activations]
             /\ call'[w].pc = pc /\ call'[w].att = i
             /\ \A v \in Workers : v # w => call'[v] = call[v]
  <2> DEFINE new == [op |-> op, pc |-> pc, att |-> i]
  <2>1. new \in Activations /\ new.pc = pc /\ new.att = i
    BY DEF Activations
  <2>2. call' = [call EXCEPT ![w] = new]
    BY <1>4 DEF Enter
  <2> HIDE DEF new
  <2> QED
    BY <1>0, <2>1, <2>2
<1> QED
  BY <1>1, <1>2, <1>3, <1>4

\* Where a handler goes when the gateway or the finalisation has answered.
LEMMA AfterStep ==
  ASSUME NEW w, NEW b, After(w, b)
  PROVE  Finish(w) \/ \E pc \in {"ack", "reuse", "shut"} : Goto(w, pc)
BY DEF After

\* A handler's slot after it went on: a well-typed call, on an attempt when the
\* call needs one; the other slots stay.
SlotOK(w) ==
  /\ call' \in [Workers -> Activations]
  /\ call'[w].pc \in Working => call'[w].att \in Attempts
  /\ \A v \in Workers : v # w => call'[v] = call[v]

\* Going on from an attempt, leaving, and starting are all well-typed.
LEMMA SlotMoves ==
  ASSUME TypeInv, NEW w \in Workers
  PROVE  /\ \A pc \in Pcs : Goto(w, pc) /\ (call[w].att \in Attempts \/ pc \notin Working)
                              => SlotOK(w)
         /\ \A pc \in Pcs, i \in Attempts : Visit(w, i, pc) => SlotOK(w)
         /\ Finish(w) => SlotOK(w)
         /\ \A op \in Ops, pc \in Pcs, i \in Attempts : Enter(w, op, pc, i) => SlotOK(w)
         /\ \A op \in Ops, pc \in Pcs \ Working : Enter(w, op, pc, NoAttempt) => SlotOK(w)
         /\ \A b : After(w, b) /\ call[w].att \in Attempts => SlotOK(w)
<1>1. TypeOK /\ "idle" \notin Working /\ \A pc \in {"ack", "reuse", "shut"} : pc \in Pcs
  BY Names DEF TypeInv, Working
<1>2. \A pc \in Pcs : Goto(w, pc) /\ (call[w].att \in Attempts \/ pc \notin Working)
                        => SlotOK(w)
  BY <1>1, SlotStep DEF SlotOK
<1>3. \A pc \in Pcs, i \in Attempts : Visit(w, i, pc) => SlotOK(w)
  BY <1>1, SlotStep DEF SlotOK
<1>4. Finish(w) => SlotOK(w)
  BY <1>1, SlotStep DEF SlotOK
<1>5. \A op \in Ops, pc \in Pcs, i \in Attempts : Enter(w, op, pc, i) => SlotOK(w)
  BY <1>1, SlotStep DEF SlotOK
<1>6. \A op \in Ops, pc \in Pcs \ Working : Enter(w, op, pc, NoAttempt) => SlotOK(w)
  BY <1>1, SlotStep DEF SlotOK
<1>7. \A b : After(w, b) /\ call[w].att \in Attempts => SlotOK(w)
  BY <1>1, <1>2, <1>4, AfterStep
<1> QED
  BY <1>2, <1>3, <1>4, <1>5, <1>6, <1>7

\* Every step of a handler leaves its slot well-typed.
LEMMA SlotType ==
  ASSUME TypeInv, NEW w \in Workers, Acts(w)
  PROVE  SlotOK(w)
<1>1. /\ call[w].pc \in Working => call[w].att \in Attempts
      /\ \A pc \in {"create", "cash", "hand", "cod", "cashRow", "begin", "code", "codeRow"} :
           pc \in Pcs \ Working
  BY Names DEF TypeInv, OnAttempt, Working
<1> USE <1>1, Names, SlotMoves
<1>2. CASE Start(w)
  <2>1. CASE StartOtp(w)
    BY <2>1 DEF StartOtp
  <2>2. CASE StartQr(w)
    BY <2>2 DEF StartQr, Reconcile
  <2>3. CASE StartVerify(w)
    BY <2>3 DEF StartVerify, Reconcile
  <2>4. CASE StartCash(w)
    BY <2>4 DEF StartCash, Reconcile
  <2>5. ASSUME NEW i \in Attempts, Webhook(w, i) \/ ClosedEvent(w, i) PROVE SlotOK(w)
    BY <2>5 DEF Webhook, ClosedEvent, Reconcile
  <2> QED
    BY <1>2, <2>1, <2>2, <2>3, <2>4, <2>5 DEF Start
<1>3. CASE Finalisation(w)
  <2>1. call[w].pc \in Working
    BY <1>3 DEF Finalisation, Lock, Look, Claim, Credit, Deliver, Row, Finalize, Flag,
       Unlock, Catch, At, Working, Pcs, Holding
  <2>2. CASE Lock(w) \/ Finalize(w) \/ Unlock(w)
    BY <2>1, <2>2 DEF Lock, Finalize, Unlock
  <2>3. CASE Look(w) \/ Claim(w) \/ Credit(w) \/ Deliver(w) \/ Row(w) \/ Flag(w)
    BY <2>1, <2>3 DEF Look, Claim, Credit, Deliver, Row, Flag
  <2>4. CASE Catch(w)
    <3>1. Finish(w) \/ \E pc \in {"nack", "shut"} : Goto(w, pc)
      BY <2>4 DEF Catch
    <3> QED
      BY <2>1, <3>1
  <2> QED
    BY <1>3, <2>2, <2>3, <2>4 DEF Finalisation
<1>4. CASE Reconciliation(w)
  <2>1. call[w].pc \in Working
    BY <1>4 DEF Reconciliation, Settle, Fetch, Mark, Stop, Expire, Tidy, At, Working, Pcs
  <2>2. CASE Settle(w) \/ Mark(w) \/ Stop(w)
    BY <2>1, <2>2 DEF Settle, Mark, Stop
  <2>3. CASE Fetch(w)
    BY <2>1, <2>3 DEF Fetch
  <2>4. CASE Expire(w) \/ Tidy(w)
    BY <2>1, <2>4 DEF Expire, Tidy
  <2> QED
    BY <1>4, <2>2, <2>3, <2>4 DEF Reconciliation
<1>5. CASE Request(w)
  <2>1. CASE Begin(w) \/ Store(w) \/ Discard(w) \/ CashRow(w) \/ CodeRow(w)
    BY <2>1 DEF Begin, Store, Discard, CashRow, CodeRow
  <2>2. CASE Reuse(w) \/ Shut(w) \/ Close(w) \/ Gateway(w)
    <3>1. call[w].pc \in Working
      BY <2>2 DEF Reuse, Shut, Close, Gateway, At, Working, Pcs
    <3> QED
      BY <2>2, <3>1 DEF Reuse, Shut, Close, Gateway
  <2>3. CASE Create(w)
    BY <2>3 DEF Create
  <2>4. CASE Cash(w) \/ HandOver(w) \/ Cod(w) \/ HandOverByCode(w)
    BY <2>4 DEF Cash, HandOver, Cod, HandOverByCode
  <2> QED
    BY <1>5, <2>1, <2>2, <2>3, <2>4 DEF Request
<1>6. CASE Ack(w) \/ Nack(w) \/ Crash(w)
  BY <1>6 DEF Ack, Nack, Crash
<1>7. CASE Fail(w)
  <2>1. call[w].pc \in Working
    BY <1>7 DEF Fail, Working, Pcs, Holding
  <2> QED
    BY <1>7, <2>1 DEF Fail
<1> QED
  BY <1>2, <1>3, <1>4, <1>5, <1>6, <1>7 DEF Acts, Continue

\* The actions that write each variable.
WritesOrder(w) ==
  \/ Begin(w) \/ Claim(w) \/ Credit(w) \/ Deliver(w) \/ Row(w)
  \/ Cash(w) \/ HandOver(w) \/ Cod(w) \/ CashRow(w) \/ HandOverByCode(w) \/ CodeRow(w)
WritesDoc(w) ==
  \/ Lock(w) \/ Finalize(w) \/ Flag(w) \/ Unlock(w) \/ Catch(w) \/ Settle(w) \/ Mark(w)
  \/ Expire(w) \/ Tidy(w) \/ Close(w) \/ Create(w) \/ Store(w) \/ Discard(w)
WritesGateway(w) == Stop(w) \/ Shut(w) \/ Gateway(w)

LEMMA Frame ==
  ASSUME NEW w, Acts(w)
  PROVE  /\ WritesOrder(w) \/ UNCHANGED <<order, settler, reopened>>
         /\ WritesDoc(w) \/ UNCHANGED doc
         /\ WritesGateway(w) \/ UNCHANGED gateway
         /\ Ack(w) \/ UNCHANGED acked
         /\ Catch(w) \/ Crash(w) \/ UNCHANGED abandoned
         /\ Crash(w) \/ Fail(w) \/ UNCHANGED crashes
<1> USE DEF WritesOrder, WritesDoc, WritesGateway, history
<1>1. CASE Start(w)
  BY <1>1 DEF Start, StartOtp, StartQr, StartVerify, StartCash, Webhook, ClosedEvent
<1>2. CASE Finalisation(w)
  BY <1>2 DEF Finalisation, Lock, Look, Claim, Credit, Deliver, Row, Finalize, Flag, Unlock,
     Catch
<1>3. CASE Reconciliation(w)
  BY <1>3 DEF Reconciliation, Settle, Fetch, Mark, Stop, Expire, Tidy
<1>4. CASE Request(w)
  BY <1>4 DEF Request, Begin, Reuse, Shut, Close, Create, Gateway, Store, Discard, Cash,
     HandOver, Cod, CashRow, HandOverByCode, CodeRow
<1>5. CASE Ack(w) \/ Nack(w) \/ Crash(w) \/ Fail(w)
  BY <1>5 DEF Ack, Nack, Crash, Fail
<1> QED
  BY <1>1, <1>2, <1>3, <1>4, <1>5 DEF Acts, Continue

\* Every update of an attempt leaves a well-typed one.
LEMMA DocType1 ==
  \A r \in DocType, b \in BOOLEAN, s \in Statuses :
    /\ [r EXCEPT !.lock = b] \in DocType
    /\ [r EXCEPT !.flagged = b] \in DocType
    /\ [r EXCEPT !.status = s] \in DocType
    /\ [r EXCEPT !.finalized = TRUE, !.active = FALSE] \in DocType
    /\ [r EXCEPT !.status = s, !.active = b] \in DocType
    /\ [r EXCEPT !.code = b, !.status = s] \in DocType
BY DEF DocType

\* The attempt an action writes is the handler's, or the one it creates.
LEMMA DocWrite ==
  ASSUME TypeInv, NEW w \in Workers, WritesDoc(w)
  PROVE  \/ doc' = doc
         \/ \E i \in Attempts : \E r \in DocType : doc' = [doc EXCEPT ![i] = r]
<1>1. /\ doc \in [Attempts -> DocType]
      /\ \A s \in {"CREATED", "PENDING", "PAID", "FAILED", "EXPIRED", "CLOSED"} : s \in Statuses
  BY DEF TypeInv, TypeOK, Statuses
<1>2. CASE Create(w)
  <2>1. doc' = doc \/ \E i \in Attempts :
          doc' = [doc EXCEPT ![i] = [doc[i] EXCEPT !.status = "CREATED", !.active = TRUE]]
    BY <1>1, <1>2 DEF Create
  <2> QED
    BY <1>1, <2>1, DocType1
<1>3. ASSUME ~Create(w)
      PROVE  \/ doc' = doc
             \/ \E i \in Attempts : \E r \in DocType : doc' = [doc EXCEPT ![i] = r]
  <2> DEFINE i == call[w].att
  <2>1. i \in Attempts
    BY <1>3, Names DEF WritesDoc, Lock, Finalize, Flag, Unlock, Catch, Settle, Mark, Expire,
       Tidy, Close, Store, Discard, At, Working, TypeInv, OnAttempt
  <2>2. CASE Lock(w) \/ Unlock(w) \/ Catch(w)
    <3>1. doc' = doc \/ \E b \in BOOLEAN : doc' = [doc EXCEPT ![i] = [doc[i] EXCEPT !.lock = b]]
      BY <1>1, <2>1, <2>2 DEF Lock, Unlock, Catch
    <3> QED
      BY <1>1, <2>1, <3>1, DocType1
  <2>3. CASE Flag(w)
    <3>1. doc' = [doc EXCEPT ![i] = [doc[i] EXCEPT !.flagged = TRUE]]
      BY <1>1, <2>1, <2>3 DEF Flag
    <3> QED
      BY <1>1, <2>1, <3>1, DocType1
  <2>4. CASE Finalize(w)
    <3>1. doc' = [doc EXCEPT ![i] = [doc[i] EXCEPT !.finalized = TRUE, !.active = FALSE]]
      BY <1>1, <2>1, <2>4 DEF Finalize
    <3> QED
      BY <1>1, <2>1, <3>1, DocType1
  <2>5. CASE Settle(w) \/ Mark(w)
    <3>1. \E s \in Statuses : doc' = [doc EXCEPT ![i] = [doc[i] EXCEPT !.status = s]]
      <4>1. doc[i].status \in Statuses
        BY <1>1, <2>1 DEF DocType
      <4> QED
        BY <1>1, <2>1, <2>5, <4>1 DEF Settle, Mark
    <3> QED
      BY <1>1, <2>1, <3>1, DocType1
  <2>6. CASE Expire(w) \/ Tidy(w) \/ Close(w)
    <3>1. \/ doc' = [doc EXCEPT ![i] = doc[i]]
          \/ \E s \in Statuses : doc' = [doc EXCEPT ![i] = [doc[i] EXCEPT !.status = s, !.active = FALSE]]
      BY <1>1, <2>1, <2>6 DEF Expire, Tidy, Close, End
    <3> QED
      BY <1>1, <2>1, <3>1, DocType1
  <2>7. CASE Store(w)
    <3>1. doc' = [doc EXCEPT ![i] = [doc[i] EXCEPT !.code = TRUE, !.status = "PENDING"]]
      BY <1>1, <2>1, <2>7 DEF Store
    <3> QED
      BY <1>1, <2>1, <3>1, DocType1
  <2>8. CASE Discard(w)
    <3>1. doc' = [doc EXCEPT ![i] = [doc[i] EXCEPT !.status = "FAILED", !.active = FALSE]]
      BY <1>1, <2>1, <2>8 DEF Discard
    <3> QED
      BY <1>1, <2>1, <3>1, DocType1
  <2> QED
    BY <1>3, <2>2, <2>3, <2>4, <2>5, <2>6, <2>7, <2>8 DEF WritesDoc
<1> QED
  BY <1>2, <1>3

\* Every step keeps the types.
LEMMA TypeStep == TypeInv /\ [Next]_vars => TypeInv'
<1> SUFFICES ASSUME TypeInv, [Next]_vars PROVE TypeInv'
  OBVIOUS
<1>0. TypeOK /\ OnAttempt
  BY DEF TypeInv
<1>1. CASE UNCHANGED vars
  BY <1>0, <1>1 DEF vars, TypeInv, TypeOK, OnAttempt
<1>2. ASSUME NEW i \in Attempts, CustomerPays(i) \/ CodeExpires(i) PROVE TypeInv'
  BY <1>0, <1>2 DEF CustomerPays, CodeExpires, history, TypeInv, TypeOK, OnAttempt
<1>3. ASSUME NEW w \in Workers, Acts(w) PROVE TypeInv'
  <2>1. SlotOK(w)
    BY <1>3, SlotType
  <2>2. OnAttempt'
    BY <1>0, <2>1 DEF SlotOK, OnAttempt
  <2>3. call' \in [Workers -> [op : Ops \cup {"none"}, pc : Pcs, att : Attempts \cup {NoAttempt}]]
    BY <2>1 DEF SlotOK, Activations
  <2>4. call[w].att \in Attempts \cup {NoAttempt}
        /\ (call[w].pc \in Working => call[w].att \in Attempts)
    BY <1>0 DEF TypeOK, OnAttempt
  <2>5. order' \in OrderType
    <3>1. \A m \in Methods \cup {"CODE"} :
            Hand(m) \/ order' = [order EXCEPT !.method = m] => order' \in OrderType
      BY <1>0 DEF TypeOK, OrderType, Hand
    <3>2. CASE Begin(w) \/ Claim(w) \/ Cash(w) \/ Cod(w)
      <4>1. \/ order' = order
            \/ order' = [order EXCEPT !.awaiting = TRUE, !.choice = "none"]
            \/ \E m \in Methods : order' = [order EXCEPT !.choice = m]
            \/ order' = [order EXCEPT !.cash = TRUE]
        BY <3>2 DEF Begin, Claim, Cash, Cod, Methods
      <4> QED
        BY <1>0, <4>1 DEF TypeOK, OrderType
    <3>3. CASE Credit(w)
      <4>1. call[w].att \in Attempts
        BY <2>4, <3>3, Names DEF Credit, At, Working
      <4> QED
        BY <1>0, <3>3, <4>1 DEF Credit, TypeOK, OrderType
    <3>4. CASE Deliver(w) \/ HandOver(w) \/ HandOverByCode(w)
      BY <1>0, <3>1, <3>4 DEF Deliver, HandOver, HandOverByCode, TypeOK, Methods
    <3>5. CASE Row(w) \/ CashRow(w) \/ CodeRow(w)
      <4>1. Recorded \in Methods \cup {"none", "ONLINE_PREPAID"}
        BY <1>0 DEF Recorded, TypeOK, OrderType, Methods
      <4> QED
        BY <1>0, <3>5, <4>1 DEF Row, CashRow, CodeRow, TypeOK, OrderType
    <3> QED
      BY <1>0, <1>3, <3>2, <3>3, <3>4, <3>5, Frame DEF WritesOrder, TypeOK
  <2>6. doc' \in [Attempts -> DocType]
    BY <1>0, <1>3, Frame, DocWrite DEF TypeOK
  <2>7. gateway' \in [Attempts -> {"none", "active", "paid", "expired", "closed"}]
    BY <1>0, <1>3, Frame DEF WritesGateway, Stop, Shut, Gateway, TypeOK
  <2>8. acked' \subseteq Attempts
    <3>1. CASE Ack(w)
      <4>1. call[w].att \in Attempts
        BY <2>4, <3>1, Names DEF Ack, At, Working
      <4> QED
        BY <1>0, <3>1, <4>1 DEF Ack, TypeOK
    <3> QED
      BY <1>0, <1>3, <3>1, Frame DEF TypeOK
  <2>9. settler' \in Attempts \cup {NoAttempt}
    BY <1>0, <1>3, <2>4, Frame DEF WritesOrder, Begin, Claim, Credit, Deliver, Row, Cash,
       HandOver, Cod, CashRow, HandOverByCode, CodeRow, history, TypeOK
  <2>10. reopened' \in BOOLEAN
    <3>1. reopened' = reopened \/ \E b \in BOOLEAN : reopened' = (reopened \/ b)
      BY <1>3, Frame DEF WritesOrder, Begin, Claim, Credit, Deliver, Row, Cash, HandOver,
         Cod, CashRow, HandOverByCode, CodeRow, history
    <3> QED
      BY <1>0, <3>1 DEF TypeOK
  <2>11. abandoned' \subseteq Attempts
    <3>1. CASE Catch(w) \/ Crash(w)
      <4>1. call[w].pc \in Holding => call[w].att \in Attempts
        BY <2>4 DEF Holding, Working, Pcs
      <4> QED
        BY <1>0, <3>1, <4>1 DEF Catch, Crash, Abandon, TypeOK
    <3> QED
      BY <1>0, <1>3, <3>1, Frame DEF TypeOK
  <2>12. crashes' \in 0..MaxCrash
    BY <1>0, <1>3, Frame, FaultAssumption DEF Crash, Fail, TypeOK
  <2> QED
    BY <2>2, <2>3, <2>5, <2>6, <2>7, <2>8, <2>9, <2>10, <2>11, <2>12 DEF TypeInv, TypeOK
<1> QED
  BY <1>1, <1>2, <1>3 DEF Next, Acts

-----------------------------------------------------------------------------
(* Where the actions lead. *)

\* The handler goes on to one of the calls in S, or is idle.
To(w, S) ==
  call'[w].pc \in S /\ (call'[w].pc = "idle" \/ call'[w].att = call[w].att)
Done == {"ack", "reuse", "shut", "idle"}

LEMMA Moves ==
  ASSUME TypeInv, NEW w \in Workers
  PROVE  /\ Lock(w) => To(w, Done \cup {"look"})
         /\ Look(w) => To(w, {"claim", "dup"})
         /\ Claim(w) => To(w, {"credit", "dup"})
         /\ Credit(w) => To(w, {"deliver"})
         /\ Deliver(w) => To(w, {"row", "failed"})
         /\ Row(w) => To(w, {"finalize"})
         /\ Finalize(w) \/ Unlock(w) \/ Expire(w) \/ Tidy(w) => To(w, Done)
         /\ Flag(w) => To(w, {"unlock"})
         /\ Catch(w) => To(w, {"nack", "shut", "idle"})
         /\ Fail(w) => To(w, {"failed"})
         /\ Settle(w) => To(w, {"lock"})
         /\ Fetch(w) => To(w, Done \cup {"settle", "mark", "stop", "expire", "tidy"})
         /\ Mark(w) => To(w, Done \cup {"stop"})
         /\ Stop(w) => To(w, {"expire", "settle"})
         /\ Reuse(w) => To(w, {"idle", "shut", "create"})
         /\ Shut(w) => To(w, {"close"})
         /\ Close(w) => To(w, {"create", "cash"})
         /\ Gateway(w) => To(w, {"store", "discard"})
         /\ Cash(w) => To(w, {"hand", "idle"})
         /\ HandOver(w) => To(w, {"cod", "cashRow", "idle"})
         /\ Cod(w) => To(w, {"cashRow", "idle"})
         /\ HandOverByCode(w) => To(w, {"codeRow", "idle"})
         /\ Begin(w) \/ Store(w) \/ Discard(w) \/ CashRow(w) \/ CodeRow(w) \/ Ack(w) \/ Nack(w)
              \/ Crash(w) => To(w, {"idle"})
         /\ Create(w) => call'[w].pc \in {"gateway", "idle"}
         /\ StartOtp(w) => call'[w].pc \in {"begin", "code"}
         /\ Start(w) /\ ~StartOtp(w) =>
              call'[w].pc \in {"lock", "fetch", "reuse", "create", "shut", "cash", "settle"}
<1>1. TypeOK
  BY DEF TypeInv
<1>2. /\ \A pc \in Pcs : Goto(w, pc) => To(w, {pc})
      /\ Finish(w) => To(w, {"idle"})
      /\ \A pc \in Pcs, i \in Attempts : Visit(w, i, pc) => call'[w].pc = pc
      /\ \A op \in Ops, pc \in Pcs, i \in Attempts \cup {NoAttempt} :
           Enter(w, op, pc, i) => call'[w].pc = pc
  BY <1>1, SlotStep DEF To
<1>3. \A b : After(w, b) => To(w, Done)
  BY <1>2, AfterStep, Names DEF To, Done
<1> HIDE DEF To
<1>4. \A S, R : S \subseteq R /\ To(w, S) => To(w, R)
  BY DEF To
<1> USE <1>2, <1>3, Names DEF To, Done
<1>5. /\ Lock(w) => To(w, Done \cup {"look"})
      /\ Look(w) => To(w, {"claim", "dup"})
      /\ Claim(w) => To(w, {"credit", "dup"})
      /\ Credit(w) => To(w, {"deliver"})
      /\ Deliver(w) => To(w, {"row", "failed"})
      /\ Row(w) => To(w, {"finalize"})
  BY DEF Lock, Look, Claim, Credit, Deliver, Row
<1>6. /\ Finalize(w) \/ Unlock(w) \/ Expire(w) \/ Tidy(w) => To(w, Done)
      /\ Flag(w) => To(w, {"unlock"})
      /\ Catch(w) => To(w, {"nack", "shut", "idle"})
      /\ Fail(w) => To(w, {"failed"})
      /\ Settle(w) => To(w, {"lock"})
  BY DEF Finalize, Unlock, Expire, Tidy, Flag, Catch, Fail, Settle
<1>7. /\ Fetch(w) => To(w, Done \cup {"settle", "mark", "stop", "expire", "tidy"})
      /\ Mark(w) => To(w, Done \cup {"stop"})
      /\ Stop(w) => To(w, {"expire", "settle"})
      /\ Reuse(w) => To(w, {"idle", "shut", "create"})
      /\ Shut(w) => To(w, {"close"})
      /\ Close(w) => To(w, {"create", "cash"})
  BY DEF Fetch, Mark, Stop, Reuse, Shut, Close
<1>8. /\ Gateway(w) => To(w, {"store", "discard"})
      /\ Cash(w) => To(w, {"hand", "idle"})
      /\ HandOver(w) => To(w, {"cod", "cashRow", "idle"})
      /\ Cod(w) => To(w, {"cashRow", "idle"})
      /\ HandOverByCode(w) => To(w, {"codeRow", "idle"})
      /\ Begin(w) \/ Store(w) \/ Discard(w) \/ CashRow(w) \/ CodeRow(w) \/ Ack(w) \/ Nack(w)
           \/ Crash(w) => To(w, {"idle"})
      /\ Create(w) => call'[w].pc \in {"gateway", "idle"}
  BY DEF Gateway, Cash, HandOver, Cod, HandOverByCode, Begin, Store, Discard, CashRow, CodeRow,
     Ack, Nack, Crash, Create
<1>9. /\ StartOtp(w) => call'[w].pc \in {"begin", "code"}
      /\ Start(w) /\ ~StartOtp(w) =>
           call'[w].pc \in {"lock", "fetch", "reuse", "create", "shut", "cash", "settle"}
  BY DEF Start, StartOtp, StartQr, StartVerify, StartCash, Webhook, ClosedEvent, Reconcile
<1> QED
  BY <1>5, <1>6, <1>7, <1>8, <1>9

\* The calls to the books are reached from the actions that write the order only.
BookPcs == {"credit", "deliver", "row", "finalize", "hand", "cod", "cashRow", "codeRow"}

LEMMA BooksReached ==
  ASSUME TypeInv, NEW w \in Workers, Acts(w), ~WritesOrder(w)
  PROVE  call'[w].pc \notin BookPcs
<1> USE Moves DEF To, Done, BookPcs
<1>1. CASE Start(w)
  BY <1>1
<1>2. CASE Finalisation(w)
  BY <1>2 DEF Finalisation, WritesOrder
<1>3. CASE Reconciliation(w)
  BY <1>3 DEF Reconciliation
<1>4. CASE Request(w)
  BY <1>4 DEF Request, WritesOrder
<1>5. CASE Ack(w) \/ Nack(w) \/ Crash(w) \/ Fail(w)
  BY <1>5
<1> QED
  BY <1>1, <1>2, <1>3, <1>4, <1>5 DEF Acts, Continue

\* A request delivers by the code when it found the order undelivered and its money in.
LEMMA CodeAccepted ==
  ASSUME TypeInv, NEW w \in Workers, Acts(w), call'[w].pc = "code"
  PROVE  StartOtp(w) /\ ~Delivered /\ ~Outstanding
<1> USE Moves DEF To, Done
<1>1. StartOtp(w)
  <2>1. CASE Start(w)
    BY <2>1
  <2>2. CASE Finalisation(w)
    BY <2>2 DEF Finalisation
  <2>3. CASE Reconciliation(w)
    BY <2>3 DEF Reconciliation
  <2>4. CASE Request(w)
    BY <2>4 DEF Request
  <2>5. CASE Ack(w) \/ Nack(w) \/ Crash(w) \/ Fail(w)
    BY <2>5
  <2> QED
    BY <2>1, <2>2, <2>3, <2>4, <2>5 DEF Acts, Continue
<1>2. Enter(w, "otp", "begin", NoAttempt) => call'[w].pc = "begin"
  BY SlotStep, Names DEF TypeInv
<1> QED
  BY <1>1, <1>2 DEF StartOtp

-----------------------------------------------------------------------------
(* The books. *)

\* Until a choice was erased: who writes to the books has the choice, and so have
\* the books.
ChoiceInv ==
  ~reopened =>
    /\ \A w \in Workers :
         /\ call[w].pc \in {"credit", "deliver", "row"} => order.choice = "RAZORPAY_QR"
         /\ call[w].pc \in {"hand", "cod", "cashRow"} => order.choice = "CASH"
    /\ order.cash => order.choice = "CASH"
    /\ order.credited # {} => order.choice = "RAZORPAY_QR"
    /\ order.method \in Methods => order.method = order.choice
    /\ order.row \in {"none", IF order.method = "CODE" THEN "ONLINE_PREPAID" ELSE order.method}

\* The settlement comes after the delivery.
DeliveredInv ==
  \A w \in Workers :
    call[w].pc \in {"row", "finalize", "cod", "cashRow", "codeRow"} => Delivered

BooksInv == ChoiceInv /\ DeliveredInv

\* The payment of a QR is in the ledger before the order is handed over for it or by
\* the delivery code, cash in the rider's float after, and a record of cash comes last.
MoneyInv ==
  /\ \A w \in Workers : call[w].pc \in {"deliver", "code"} => order.credited # {}
  /\ order.method \in {"RAZORPAY_QR", "CODE"} => order.credited # {}
  /\ order.cash => Delivered
  /\ order.row = "CASH" => order.cash

\* What the settlement records, while the choice stands, is what the order was handed
\* over for.
LEMMA RecordedMethod ==
  ASSUME TypeInv, BooksInv, MoneyInv, Delivered, ~reopened
  PROVE  Recorded \in {"none", IF order.method = "CODE" THEN "ONLINE_PREPAID" ELSE order.method}
<1>0. order \in OrderType
  BY DEF TypeInv, TypeOK
<1>1. CASE order.row # "none"
  BY <1>1 DEF Recorded, BooksInv, ChoiceInv
<1>2. CASE order.row = "none" /\ order.method = "CASH"
  <2>1. order.credited = {}
    BY <1>2 DEF BooksInv, ChoiceInv, Methods
  <2> QED
    BY <1>2, <2>1 DEF Recorded
<1>3. CASE order.row = "none" /\ order.method \in {"RAZORPAY_QR", "CODE"}
  BY <1>3 DEF Recorded, MoneyInv
<1> QED
  BY <1>0, <1>1, <1>2, <1>3 DEF OrderType, Methods, Delivered

LEMMA BooksStep == TypeInv /\ BooksInv /\ MoneyInv /\ [Next]_vars => BooksInv'
<1> SUFFICES ASSUME TypeInv, BooksInv, MoneyInv, [Next]_vars PROVE BooksInv'
  OBVIOUS
<1> USE DEF BooksInv, ChoiceInv, DeliveredInv, Delivered
<1>0. order \in OrderType
  BY DEF TypeInv, TypeOK
<1>1. CASE UNCHANGED vars
  BY <1>1 DEF vars
<1>2. ASSUME NEW i \in Attempts, CustomerPays(i) \/ CodeExpires(i) PROVE BooksInv'
  BY <1>2 DEF CustomerPays, CodeExpires, history
<1>3. ASSUME NEW w \in Workers, Acts(w) PROVE BooksInv'
  <2>1. \A v \in Workers : v # w => call'[v] = call[v]
    BY <1>3, SlotType DEF SlotOK
  <2>2. CASE ~WritesOrder(w)
    <3>1. UNCHANGED <<order, settler, reopened>> /\ call'[w].pc \notin BookPcs
      BY <1>3, <2>2, Frame, BooksReached
    <3> QED
      BY <2>1, <3>1 DEF BookPcs
  <2>3. CASE Begin(w)
    <3>1. call'[w].pc = "idle"
      BY <2>3, Moves DEF To
    <3>2. CASE Delivered
      BY <2>1, <2>3, <3>1, <3>2 DEF Begin
    <3>3. CASE ~Delivered
      <4>1. /\ order' = [order EXCEPT !.awaiting = TRUE, !.choice = "none"]
            /\ ~reopened' => ~reopened /\ order.choice = "none"
        BY <2>3, <3>3, Zenon DEF Begin
      <4>2. ~reopened' => order'.choice = order.choice /\ order'.cash = order.cash
              /\ order'.credited = order.credited /\ order'.method = order.method
              /\ order'.row = order.row
        BY <1>0, <4>1 DEF OrderType
      <4>3. DeliveredInv'
        BY <1>0, <2>1, <3>1, <3>3 DEF OrderType
      <4>4. ~reopened' => ~reopened
        BY <4>1
      <4> QED
        BY <2>1, <3>1, <4>2, <4>3, <4>4
    <3> QED
      BY <3>2, <3>3
  <2>4. CASE Claim(w)
    <3>1. call'[w].pc \in {"credit", "dup"} /\ reopened' = reopened
      BY <2>4, Moves DEF To, Claim, history
    <3>2. CASE order' = order /\ call'[w].pc = "dup"
      BY <2>1, <3>1, <3>2
    <3>3. CASE /\ order.choice \in {"none", "RAZORPAY_QR"}
               /\ order' = [order EXCEPT !.choice = "RAZORPAY_QR"]
      BY <1>0, <2>1, <3>1, <3>3 DEF OrderType, Methods
    <3>4. (order' = order /\ call'[w].pc = "dup")
          \/ (/\ order.choice \in {"none", "RAZORPAY_QR"}
              /\ order' = [order EXCEPT !.choice = "RAZORPAY_QR"])
      <4>1. Goto(w, "dup") => call'[w].pc = "dup"
        BY SlotStep, Names DEF TypeInv
      <4> QED
        BY <2>4, <4>1 DEF Claim
    <3> QED
      BY <3>2, <3>3, <3>4
  <2>5. CASE Credit(w)
    <3>1. /\ call'[w].pc = "deliver" /\ call[w].pc = "credit" /\ reopened' = reopened
      BY <2>5, Moves DEF To, Credit, At, history
    <3>2. \E c : order' = [order EXCEPT !.credited = c]
      BY <2>5 DEF Credit
    <3> QED
      BY <1>0, <2>1, <3>1, <3>2 DEF OrderType
  <2>6. CASE Deliver(w)
    <3>1. /\ call'[w].pc \in {"row", "failed"} /\ call[w].pc = "deliver" /\ reopened' = reopened
      BY <2>6, Moves DEF To, Deliver, At
    <3>2. CASE Delivered
      <4>1. order' = order
        BY <2>6, <3>2 DEF Deliver
      <4> QED
        BY <2>1, <3>1, <3>2, <4>1
    <3>3. CASE ~Delivered
      <4>1. order' = [order EXCEPT !.method = "RAZORPAY_QR", !.awaiting = FALSE]
        BY <2>6, <3>3 DEF Deliver, Hand
      <4> QED
        BY <1>0, <2>1, <3>1, <3>3, <4>1 DEF OrderType, Methods
    <3> QED
      BY <3>2, <3>3
  <2>7. CASE Row(w) \/ CashRow(w) \/ CodeRow(w)
    <3>1. /\ call'[w].pc \in {"finalize", "idle"} /\ call[w].pc \in {"row", "cashRow", "codeRow"}
          /\ reopened' = reopened /\ order' = [order EXCEPT !.row = Recorded]
      BY <2>7, Moves DEF To, Row, CashRow, CodeRow, At, history
    <3>2. Delivered
      BY <3>1
    <3>3. ~reopened =>
            Recorded \in {"none", IF order.method = "CODE" THEN "ONLINE_PREPAID" ELSE order.method}
      BY <3>2, RecordedMethod
    <3> QED
      BY <1>0, <2>1, <3>1, <3>2, <3>3 DEF OrderType
  <2>8. CASE Cash(w)
    <3>1. call'[w].pc \in {"hand", "idle"} /\ reopened' = reopened
      BY <2>8, Moves DEF To, Cash, history
    <3>2. CASE order' = order /\ call'[w].pc = "idle"
      BY <2>1, <3>1, <3>2
    <3>3. CASE order.choice \in {"none", "CASH"} /\ order' = [order EXCEPT !.choice = "CASH"]
      BY <1>0, <2>1, <3>1, <3>3 DEF OrderType, Methods
    <3>4. (order' = order /\ call'[w].pc = "idle")
          \/ (order.choice \in {"none", "CASH"} /\ order' = [order EXCEPT !.choice = "CASH"])
      <4>1. Finish(w) => call'[w].pc = "idle"
        BY SlotStep DEF TypeInv
      <4> QED
        BY <2>8, <4>1 DEF Cash
    <3> QED
      BY <3>2, <3>3, <3>4
  <2>9. CASE HandOver(w)
    <3>1. /\ call'[w].pc \in {"cod", "cashRow", "idle"} /\ call[w].pc = "hand"
          /\ reopened' = reopened
      BY <2>9, Moves DEF To, HandOver, At, history
    <3>2. CASE Delivered
      <4>1. order' = order /\ call'[w].pc = "idle"
        <5>1. Finish(w) => call'[w].pc = "idle"
          BY SlotStep DEF TypeInv
        <5>2. Finish(w) /\ order' = order
          BY <2>9, <3>2 DEF HandOver
        <5> QED
          BY <5>1, <5>2
      <4> QED
        BY <2>1, <3>1, <3>2, <4>1
    <3>3. CASE ~Delivered
      <4>1. order' = [order EXCEPT !.method = "CASH", !.awaiting = FALSE]
        BY <2>9, <3>3 DEF HandOver, Hand
      <4> QED
        BY <1>0, <2>1, <3>1, <3>3, <4>1 DEF OrderType, Methods
    <3> QED
      BY <3>2, <3>3
  <2>10. CASE Cod(w)
    <3>1. /\ call'[w].pc \in {"cashRow", "idle"} /\ call[w].pc = "cod" /\ reopened' = reopened
      BY <2>10, Moves DEF To, Cod, At, history
    <3>2. order' = order \/ order' = [order EXCEPT !.cash = TRUE]
      BY <2>10 DEF Cod
    <3> QED
      BY <1>0, <2>1, <3>1, <3>2 DEF OrderType
  <2>11. CASE HandOverByCode(w)
    <3>1. /\ call'[w].pc \in {"codeRow", "idle"} /\ call[w].pc = "code"
          /\ reopened' = reopened
      BY <2>11, Moves DEF To, HandOverByCode, At, history
    <3>2. CASE Delivered
      <4>1. order' = order
        BY <2>11, <3>2 DEF HandOverByCode
      <4> QED
        BY <2>1, <3>1, <3>2, <4>1
    <3>3. CASE ~Delivered
      <4>1. order' = [order EXCEPT !.method = "CODE"]
        BY <2>11, <3>3 DEF HandOverByCode
      <4> QED
        BY <1>0, <2>1, <3>1, <3>3, <4>1 DEF OrderType, Methods
    <3> QED
      BY <3>2, <3>3
  <2> QED
    BY <2>2, <2>3, <2>4, <2>5, <2>6, <2>7, <2>8, <2>9, <2>10, <2>11 DEF WritesOrder
<1> QED
  BY <1>1, <1>2, <1>3 DEF Next, Acts

-----------------------------------------------------------------------------
(* The attempts. *)

\* Which action changes which field of an attempt, and how.
LEMMA DocFields ==
  ASSUME TypeInv, NEW w \in Workers, Acts(w), NEW i \in Attempts
  PROVE  /\ doc'[i].code # doc[i].code =>
              Store(w) /\ i = call[w].att /\ doc'[i].status = "PENDING"
         /\ doc'[i].status = "PAID" /\ doc[i].status # "PAID" => Settle(w) /\ i = call[w].att
         /\ doc'[i].status # "PAID" /\ doc[i].status = "PAID" =>
              (Store(w) \/ Discard(w)) /\ i = call[w].att
         /\ doc'[i].status = "none" => doc[i].status = "none"
         /\ doc'[i].finalized # doc[i].finalized =>
              Finalize(w) /\ i = call[w].att /\ doc'[i].finalized
         /\ doc'[i].flagged # doc[i].flagged => Flag(w) /\ i = call[w].att
         /\ doc'[i].lock # doc[i].lock =>
              (Lock(w) \/ Unlock(w) \/ Catch(w)) /\ i = call[w].att
<1>0. doc \in [Attempts -> DocType] /\ doc[i] \in DocType
  BY DEF TypeInv, TypeOK
<1>1. CASE Lock(w) \/ Unlock(w) \/ Catch(w)
  <2>1. doc'[i] = doc[i] \/ \E b \in BOOLEAN :
          i = call[w].att /\ doc'[i] = [doc[i] EXCEPT !.lock = b]
    BY <1>0, <1>1 DEF Lock, Unlock, Catch
  <2> QED
    BY <1>0, <1>1, <2>1 DEF DocType
<1>2. CASE Flag(w)
  <2>1. doc'[i] = doc[i] \/ (i = call[w].att /\ doc'[i] = [doc[i] EXCEPT !.flagged = TRUE])
    BY <1>0, <1>2 DEF Flag
  <2> QED
    BY <1>0, <1>2, <2>1 DEF DocType
<1>3. CASE Finalize(w)
  <2>1. \/ doc'[i] = doc[i]
        \/ i = call[w].att /\ doc'[i] = [doc[i] EXCEPT !.finalized = TRUE, !.active = FALSE]
    BY <1>0, <1>3 DEF Finalize
  <2> QED
    BY <1>0, <1>3, <2>1 DEF DocType
<1>4. CASE Settle(w)
  <2>1. doc'[i] = doc[i] \/ (i = call[w].att /\ doc'[i] = [doc[i] EXCEPT !.status = "PAID"])
    BY <1>0, <1>4 DEF Settle
  <2> QED
    BY <1>0, <1>4, <2>1 DEF DocType
<1>5. CASE Mark(w)
  <2>1. \/ doc'[i] = doc[i]
        \/ doc[i].status \in Open /\ doc'[i] = [doc[i] EXCEPT !.status = "FAILED"]
    <3>1. doc[i] = [doc[i] EXCEPT !.status = doc[i].status]
      BY <1>0 DEF DocType
    <3> QED
      BY <1>0, <1>5, <3>1 DEF Mark
  <2> QED
    BY <1>0, <2>1 DEF DocType, Open
<1>6. CASE Expire(w) \/ Tidy(w) \/ Close(w)
  <2>1. \/ doc'[i] = doc[i]
        \/ /\ doc[i].status # "PAID"
           /\ \E s \in {"EXPIRED", "CLOSED"} :
                doc'[i] = [doc[i] EXCEPT !.status = s, !.active = FALSE]
    BY <1>0, <1>6 DEF Expire, Tidy, Close, End, Open
  <2> QED
    BY <1>0, <2>1 DEF DocType
<1>7. CASE Create(w)
  <2>1. \/ doc'[i] = doc[i]
        \/ /\ doc[i].status = "none"
           /\ doc'[i] = [doc[i] EXCEPT !.status = "CREATED", !.active = TRUE]
    BY <1>0, <1>7 DEF Create
  <2> QED
    BY <1>0, <2>1 DEF DocType
<1>8. CASE Store(w)
  <2>1. \/ doc'[i] = doc[i]
        \/ i = call[w].att /\ doc'[i] = [doc[i] EXCEPT !.code = TRUE, !.status = "PENDING"]
    BY <1>0, <1>8 DEF Store
  <2> QED
    BY <1>0, <1>8, <2>1 DEF DocType
<1>9. CASE Discard(w)
  <2>1. \/ doc'[i] = doc[i]
        \/ i = call[w].att /\ doc'[i] = [doc[i] EXCEPT !.status = "FAILED", !.active = FALSE]
    BY <1>0, <1>9 DEF Discard
  <2> QED
    BY <1>0, <1>9, <2>1 DEF DocType
<1> QED
  BY <1>1, <1>2, <1>3, <1>4, <1>5, <1>6, <1>7, <1>8, <1>9, Frame DEF WritesDoc

\* A code is paid when it is on record, so is an attempt; and one handler creates
\* an attempt, whose code is not on record until then.
Creating == {"gateway", "store", "discard"}
CodeInv ==
  /\ \A i \in Attempts :
       /\ gateway[i] = "paid" => doc[i].code
       /\ doc[i].status = "PAID" => doc[i].code
       /\ doc[i].status = "none" => ~doc[i].code
  /\ \A w \in Workers : call[w].pc = "settle" => doc[call[w].att].code
  /\ \A w \in Workers : call[w].pc \in Creating =>
       /\ doc[call[w].att].status # "none" /\ ~doc[call[w].att].code
       /\ \A v \in Workers : v # w /\ call[v].pc \in Creating => call[v].att # call[w].att

LEMMA CodeReached ==
  ASSUME TypeInv, NEW w \in Workers, Acts(w)
  PROVE  /\ call'[w].pc \in Creating => Create(w) \/ Gateway(w)
         /\ call'[w].pc = "settle" =>
              Fetch(w) \/ Stop(w) \/ \E i \in Attempts : Webhook(w, i)
<1> USE Moves DEF To, Done, Creating
<1>1. CASE Start(w)
  <2>1. ASSUME NEW i \in Attempts, ClosedEvent(w, i) PROVE call'[w].pc \in {"lock", "fetch"}
    BY <2>1, SlotStep, Names DEF ClosedEvent, Reconcile, TypeInv
  <2>2. CASE StartQr(w) \/ StartVerify(w) \/ StartCash(w)
    <3>1. call'[w].pc \in {"lock", "fetch", "reuse", "create", "shut", "cash"}
      BY <2>2, SlotStep, Names DEF StartQr, StartVerify, StartCash, Reconcile, TypeInv
    <3> QED
      BY <3>1
  <2>3. call'[w].pc \notin Creating
    BY <1>1
  <2>4. CASE StartOtp(w)
    BY <2>4
  <2> QED
    BY <1>1, <2>1, <2>2, <2>3, <2>4 DEF Start
<1>2. CASE Finalisation(w)
  BY <1>2 DEF Finalisation
<1>3. CASE Reconciliation(w)
  BY <1>3 DEF Reconciliation
<1>4. CASE Request(w)
  BY <1>4 DEF Request
<1>5. CASE Ack(w) \/ Nack(w) \/ Crash(w) \/ Fail(w)
  BY <1>5
<1> QED
  BY <1>1, <1>2, <1>3, <1>4, <1>5 DEF Acts, Continue

LEMMA CodeStep == TypeInv /\ CodeInv /\ [Next]_vars => CodeInv'
<1> SUFFICES ASSUME TypeInv, CodeInv, [Next]_vars PROVE CodeInv'
  OBVIOUS
<1>0. /\ doc \in [Attempts -> DocType]
      /\ gateway \in [Attempts -> {"none", "active", "paid", "expired", "closed"}]
      /\ \A w \in Workers : call[w].pc \in Creating \cup {"settle", "fetch", "stop"} =>
           call[w].att \in Attempts
  BY Names DEF TypeInv, TypeOK, OnAttempt, Working, Creating
<1>1. CASE UNCHANGED vars
  BY <1>1 DEF vars, CodeInv
<1>2. ASSUME NEW i \in Attempts, CustomerPays(i) \/ CodeExpires(i) PROVE CodeInv'
  BY <1>0, <1>2 DEF CustomerPays, CodeExpires, CodeInv
<1>3. ASSUME NEW w \in Workers, Acts(w) PROVE CodeInv'
  <2>1. /\ SlotOK(w) /\ TypeInv'
        /\ \A v \in Workers : v # w => call'[v] = call[v]
    BY <1>3, SlotType, TypeStep DEF SlotOK
  <2>2. \A i \in Attempts : gateway'[i] = "paid" => gateway[i] = "paid"
    BY <1>0, <1>3, Frame DEF WritesGateway, Stop, Shut, Gateway
  <2>3. \A i \in Attempts : doc[i].code => doc'[i].code
    <3>1. ASSUME NEW i \in Attempts, doc'[i].code # doc[i].code PROVE ~doc[i].code
      <4>1. call[w].pc = "store" /\ i = call[w].att
        BY <1>3, <3>1, DocFields DEF Store, At
      <4> QED
        BY <4>1 DEF CodeInv, Creating
    <3>2. \A i \in Attempts : doc'[i].code # doc[i].code => ~doc[i].code
      BY <3>1
    <3> QED
      BY <3>2
  <2>4. \A i \in Attempts : doc'[i].status = "PAID" => doc'[i].code
    BY <1>3, <2>3, DocFields DEF CodeInv, Settle, At
  <2>5. \A i \in Attempts : doc'[i].status = "none" => ~doc'[i].code
    BY <1>3, DocFields DEF CodeInv
  <2>6. \A v \in Workers : call'[v].pc = "settle" => doc'[call'[v].att].code
    <3>1. \A v \in Workers : v # w => (call'[v].pc = "settle" => doc'[call'[v].att].code)
      BY <1>0, <2>1, <2>3 DEF CodeInv
    <3>2. ASSUME call'[w].pc = "settle" PROVE doc'[call'[w].att].code
      <4>1. CASE Fetch(w) \/ Stop(w)
        <5>1. gateway[call[w].att] = "paid"
          <6>1. /\ \A pc \in Pcs : Goto(w, pc) => call'[w].pc = pc
                /\ Finish(w) => call'[w].pc = "idle"
            BY SlotStep DEF TypeInv
          <6>2. ~After(w, FALSE)
            <7>1. After(w, FALSE) => Finish(w) \/ \E pc \in {"ack", "reuse", "shut"} : Goto(w, pc)
              BY AfterStep
            <7> QED
              BY <3>2, <6>1, <7>1, Names
          <6> QED
            BY <3>2, <4>1, <6>1, <6>2, Names DEF Fetch, Stop
        <5>2. call'[w].att = call[w].att /\ call[w].att \in Attempts
          BY <1>0, <3>2, <4>1, Moves DEF To, Fetch, Stop, At
        <5> QED
          BY <2>3, <5>1, <5>2 DEF CodeInv
      <4>2. ASSUME NEW i \in Attempts, Webhook(w, i) PROVE doc'[call'[w].att].code
        <5>1. call'[w].att = i
          BY <4>2, SlotStep, Names DEF Webhook, TypeInv
        <5> QED
          BY <2>3, <4>2, <5>1 DEF Webhook, CodeInv
      <4> QED
        BY <1>3, <3>2, <4>1, <4>2, CodeReached
    <3> QED
      BY <3>1, <3>2
  <2>7. \A v \in Workers : call'[v].pc \in Creating =>
          /\ doc'[call'[v].att].status # "none" /\ ~doc'[call'[v].att].code
          /\ \A u \in Workers : u # v /\ call'[u].pc \in Creating => call'[u].att # call'[v].att
    <3>1. CASE call'[w].pc \notin Creating
      <4>1. ASSUME NEW v \in Workers, v # w, call[v].pc \in Creating
            PROVE  doc'[call[v].att].status # "none" /\ ~doc'[call[v].att].code
        <5> DEFINE i == call[v].att
        <5>1. i \in Attempts /\ doc[i].status # "none" /\ ~doc[i].code
          BY <1>0, <4>1 DEF CodeInv
        <5>2. ~(Store(w) /\ i = call[w].att)
          BY <4>1 DEF CodeInv, Store, At, Creating
        <5>3. doc'[i].code = doc[i].code /\ doc'[i].status # "none"
          BY <1>3, <5>1, <5>2, DocFields
        <5> QED
          BY <5>1, <5>3
      <4> QED
        BY <2>1, <3>1, <4>1 DEF CodeInv
    <3>2. CASE call'[w].pc \in Creating /\ Gateway(w)
      <4>1. doc' = doc /\ call[w].pc = "gateway" /\ call'[w].att = call[w].att
        BY <3>2, Moves DEF Gateway, At, To, Creating
      <4> QED
        BY <2>1, <4>1 DEF CodeInv, Creating
    <3>3. CASE call'[w].pc \in Creating /\ Create(w)
      <4>1. PICK i \in Attempts : /\ doc[i].status = "none" /\ call'[w].att = i
                                  /\ doc' = [doc EXCEPT ![i].status = "CREATED", ![i].active = TRUE]
        <5>1. Finish(w) => call'[w].pc = "idle"
          BY SlotStep DEF TypeInv
        <5>2. ~Finish(w)
          BY <3>3, <5>1 DEF Creating
        <5>3. \A i \in Attempts : Visit(w, i, "gateway") => call'[w].att = i
          BY SlotStep, Names DEF TypeInv
        <5> QED
          BY <3>3, <5>2, <5>3 DEF Create
      <4>2. /\ doc'[i].status = "CREATED" /\ doc'[i].code = doc[i].code
            /\ \A j \in Attempts : j # i => doc'[j] = doc[j]
        BY <1>0, <4>1 DEF DocType
      <4> QED
        BY <1>0, <2>1, <4>1, <4>2 DEF CodeInv
    <3> QED
      BY <1>3, <3>1, <3>2, <3>3, CodeReached
  <2>8. \A i \in Attempts : gateway'[i] = "paid" => doc'[i].code
    BY <2>2, <2>3 DEF CodeInv
  <2> QED
    BY <2>4, <2>5, <2>6, <2>7, <2>8 DEF CodeInv
<1> QED
  BY <1>1, <1>2, <1>3 DEF Next, Acts

\* No step takes a recorded payment back.
LEMMA PaidStays ==
  ASSUME TypeInv, CodeInv, [Next]_vars, NEW i \in Attempts, doc[i].status = "PAID"
  PROVE  doc'[i].status = "PAID"
<1>1. CASE UNCHANGED doc
  BY <1>1
<1>2. ASSUME NEW w \in Workers, Acts(w) PROVE doc'[i].status = "PAID"
  BY <1>2, DocFields DEF CodeInv, Creating, Store, Discard, At
<1> QED
  BY <1>1, <1>2 DEF Next, Acts, vars, CustomerPays, CodeExpires

-----------------------------------------------------------------------------
(* The order is begun. *)

\* Whoever works for the order at the door does so after the delivery code was
\* verified: the order awaits payment or is delivered.
Begun == order.awaiting \/ Delivered
BegunInv ==
  /\ \A w \in Workers : call[w].pc \notin {"idle", "begin"} => Begun
  /\ \A i \in Attempts : doc[i].code => Begun
  /\ order.credited # {} => Begun

LEMMA BegunStep == TypeInv /\ CodeInv /\ MoneyInv /\ BegunInv /\ [Next]_vars => BegunInv'
<1> SUFFICES ASSUME TypeInv, CodeInv, MoneyInv, BegunInv, [Next]_vars PROVE BegunInv'
  OBVIOUS
<1> USE DEF BegunInv, Begun, Delivered
<1>0. order \in OrderType /\ doc \in [Attempts -> DocType]
  BY DEF TypeInv, TypeOK
<1>1. CASE UNCHANGED vars
  BY <1>1 DEF vars
<1>2. ASSUME NEW i \in Attempts, CustomerPays(i) \/ CodeExpires(i) PROVE BegunInv'
  BY <1>2 DEF CustomerPays, CodeExpires, history
<1>3. ASSUME NEW w \in Workers, Acts(w) PROVE BegunInv'
  <2>1. \A v \in Workers : v # w => call'[v] = call[v]
    BY <1>3, SlotType DEF SlotOK
  <2>2. Begun => Begun'
    <3>1. CASE \/ Begin(w) \/ Claim(w) \/ Credit(w) \/ Row(w) \/ Cash(w) \/ Cod(w)
               \/ CashRow(w) \/ CodeRow(w)
      BY <1>0, <3>1 DEF Begin, Claim, Credit, Row, Cash, Cod, CashRow, CodeRow, OrderType
    <3>2. CASE Deliver(w) \/ HandOver(w) \/ HandOverByCode(w)
      BY <1>0, <3>2 DEF Deliver, HandOver, HandOverByCode, Hand, OrderType
    <3> QED
      BY <1>3, <3>1, <3>2, Frame DEF WritesOrder
  <2>3. call'[w].pc \notin {"idle", "begin"} => Begun
    <3>1. CASE Start(w)
      <4>1. CASE StartOtp(w)
        <5>1. call'[w].pc \in {"begin", "code"}
          BY <4>1, Moves
        <5>2. call'[w].pc = "code" => Begun
          BY <1>3, CodeAccepted DEF Outstanding, MoneyInv
        <5> QED
          BY <5>1, <5>2
      <4>2. CASE StartQr(w) \/ StartVerify(w) \/ StartCash(w)
        BY <4>2 DEF StartQr, StartVerify, StartCash
      <4>3. ASSUME NEW i \in Attempts, Webhook(w, i) \/ ClosedEvent(w, i) PROVE Begun
        BY <4>3 DEF Webhook, ClosedEvent, CodeInv
      <4> QED
        BY <3>1, <4>1, <4>2, <4>3 DEF Start
    <3>2. CASE Begin(w)
      BY <3>2, Moves DEF To
    <3>3. CASE Crash(w)
      BY <3>3, Moves DEF To
    <3>4. CASE ~Start(w) /\ ~Begin(w) /\ ~Crash(w)
      <4>1. call[w].pc \notin {"idle", "begin"}
        BY <1>3, <3>4 DEF Acts, Continue, Finalisation, Reconciliation, Request, Lock, Look,
           Claim, Credit, Deliver, Row, Finalize, Flag, Unlock, Catch, Settle, Fetch, Mark,
           Stop, Expire, Tidy, Reuse, Shut, Close, Create, Gateway, Store, Discard, Cash,
           HandOver, Cod, CashRow, HandOverByCode, CodeRow, Ack, Nack, Fail, At
      <4> QED
        BY <4>1
    <3> QED
      BY <3>1, <3>2, <3>3, <3>4
  <2>4. ASSUME NEW i \in Attempts, doc'[i].code, ~doc[i].code PROVE Begun
    <3>1. call[w].pc = "store"
      BY <1>3, <2>4, DocFields DEF Store, At
    <3> QED
      BY <3>1
  <2>5. ASSUME order'.credited # {}, order.credited = {} PROVE Begun
    <3>1. CASE Credit(w)
      BY <3>1 DEF Credit, At
    <3>2. CASE Begin(w) \/ Claim(w) \/ Row(w) \/ Cash(w) \/ Cod(w) \/ CashRow(w) \/ CodeRow(w)
      BY <1>0, <2>5, <3>2 DEF Begin, Claim, Row, Cash, Cod, CashRow, CodeRow, OrderType
    <3>3. CASE Deliver(w) \/ HandOver(w) \/ HandOverByCode(w)
      BY <1>0, <2>5, <3>3 DEF Deliver, HandOver, HandOverByCode, Hand, OrderType
    <3> QED
      BY <1>3, <2>5, <3>1, <3>2, <3>3, Frame DEF WritesOrder
  <2> QED
    BY <2>1, <2>2, <2>3, <2>4, <2>5
<1> QED
  BY <1>1, <1>2, <1>3 DEF Next, Acts

-----------------------------------------------------------------------------
(* The lock. *)

\* Unless holders can be overtaken, one handler works on an attempt, with its lock
\* taken and before it is finalised.
LockInv ==
  ~Slow => \A w \in Workers : call[w].pc \in Holding =>
    /\ doc[call[w].att].lock /\ ~doc[call[w].att].finalized
    /\ \A v \in Workers : call[v].pc \in Holding /\ call[v].att = call[w].att => v = w

LEMMA LockReached ==
  ASSUME TypeInv, NEW w \in Workers, Acts(w), call'[w].pc \in Holding
  PROVE  /\ call'[w].att = call[w].att
         /\ \/ Lock(w) /\ call'[w].pc = "look"
            \/ /\ call[w].pc \in Holding /\ ~Lock(w) /\ ~Unlock(w) /\ ~Catch(w) /\ ~Finalize(w)
<1> USE Moves DEF To, Done, Holding
<1>1. CASE Start(w)
  BY <1>1
<1>2. CASE Lock(w)
  BY <1>2
<1>3. CASE Look(w) \/ Claim(w) \/ Credit(w) \/ Deliver(w) \/ Row(w) \/ Flag(w) \/ Fail(w)
  <2>1. call[w].pc \in Holding /\ call'[w].att = call[w].att
    BY <1>3 DEF Look, Claim, Credit, Deliver, Row, Flag, Fail, At
  <2>2. call[w].pc # "lock" /\ call[w].pc # "unlock" /\ call[w].pc # "failed"
    BY <1>3 DEF Look, Claim, Credit, Deliver, Row, Flag, Fail, At
  <2>3. ~Finalize(w)
    BY DEF Finalize
  <2> QED
    BY <2>1, <2>2, <2>3 DEF Lock, Unlock, Catch, At
<1>4. CASE Finalize(w) \/ Unlock(w) \/ Catch(w)
  BY <1>4
<1>5. CASE Reconciliation(w)
  BY <1>5 DEF Reconciliation
<1>6. CASE Request(w)
  BY <1>6 DEF Request
<1>7. CASE Ack(w) \/ Nack(w) \/ Crash(w)
  BY <1>7
<1> QED
  BY <1>1, <1>2, <1>3, <1>4, <1>5, <1>6, <1>7 DEF Acts, Continue, Finalisation

\* A handler that took the lock found it free, or its holder gone.
LEMMA LockTaken ==
  ASSUME TypeInv, NEW w \in Workers, Lock(w), call'[w].pc = "look"
  PROVE  /\ ~doc[call[w].att].finalized
         /\ doc[call[w].att].lock => Slow \/ ~Held(call[w].att)
         /\ doc'[call[w].att].lock
<1> DEFINE i == call[w].att
<1>1. i \in Attempts /\ doc \in [Attempts -> DocType]
  BY Names DEF Lock, At, TypeInv, TypeOK, OnAttempt, Working
<1>2. \A b : ~After(w, b)
  <2>1. /\ \A pc \in Pcs : Goto(w, pc) => call'[w].pc = pc
        /\ Finish(w) => call'[w].pc = "idle"
    BY SlotStep DEF TypeInv
  <2>2. \A b : After(w, b) => Finish(w) \/ \E pc \in {"ack", "reuse", "shut"} : Goto(w, pc)
    BY AfterStep
  <2> QED
    BY <2>1, <2>2, Names
<1>3. /\ ~doc[i].finalized /\ (doc[i].lock => Slow \/ ~Held(i))
      /\ doc' = [doc EXCEPT ![i].lock = TRUE]
  BY <1>2 DEF Lock
<1>4. doc'[i].lock
  BY <1>1, <1>3 DEF DocType
<1> QED
  BY <1>3, <1>4

LEMMA LockStep == TypeInv /\ LockInv /\ [Next]_vars => LockInv'
<1> SUFFICES ASSUME TypeInv, LockInv, [Next]_vars, ~Slow PROVE LockInv'
  BY DEF LockInv
<1>0. \A w \in Workers : call[w].pc \in Holding => call[w].att \in Attempts
  BY DEF TypeInv, OnAttempt, Working, Holding, Pcs
<1>1. CASE UNCHANGED vars
  BY <1>1 DEF vars, LockInv
<1>2. ASSUME NEW i \in Attempts, CustomerPays(i) \/ CodeExpires(i) PROVE LockInv'
  BY <1>2 DEF CustomerPays, CodeExpires, LockInv
<1>3. ASSUME NEW w \in Workers, Acts(w) PROVE LockInv'
  <2>1. \A v \in Workers : v # w => call'[v] = call[v]
    BY <1>3, SlotType DEF SlotOK
  <2>2. ASSUME NEW v \in Workers, v # w, call[v].pc \in Holding
        PROVE  doc'[call[v].att].lock /\ ~doc'[call[v].att].finalized
    <3> DEFINE i == call[v].att
    <3>1. i \in Attempts /\ doc[i].lock /\ ~doc[i].finalized
      BY <1>0, <2>2 DEF LockInv
    <3>2. ~(call[w].pc \in Holding /\ call[w].att = i)
      BY <2>2 DEF LockInv
    <3>3. ~((Unlock(w) \/ Catch(w) \/ Finalize(w)) /\ call[w].att = i)
      BY <3>2 DEF Unlock, Catch, Finalize, At, Holding
    <3>4. doc'[i].finalized = doc[i].finalized
      BY <1>3, <3>1, <3>3, DocFields
    <3>5. CASE ~(Lock(w) /\ call[w].att = i)
      <4>1. doc'[i].lock = doc[i].lock
        BY <1>3, <3>1, <3>3, <3>5, DocFields
      <4> QED
        BY <3>1, <3>4, <4>1
    <3>6. CASE Lock(w) /\ call[w].att = i
      <4>1. doc' = doc \/ doc' = [doc EXCEPT ![i].lock = TRUE]
        BY <3>6 DEF Lock
      <4>2. doc'[i].lock
        BY <3>1, <4>1 DEF TypeInv, TypeOK, DocType
      <4> QED
        BY <3>1, <3>4, <4>2
    <3> QED
      BY <3>5, <3>6
  <2>3. ASSUME call'[w].pc \in Holding
        PROVE  /\ doc'[call[w].att].lock /\ ~doc'[call[w].att].finalized
               /\ call'[w].att = call[w].att
               /\ \A v \in Workers : v # w /\ call[v].pc \in Holding => call[v].att # call[w].att
    <3> DEFINE i == call[w].att
    <3>1. /\ call'[w].att = i
          /\ \/ Lock(w) /\ call'[w].pc = "look"
             \/ /\ call[w].pc \in Holding /\ ~Lock(w) /\ ~Unlock(w) /\ ~Catch(w) /\ ~Finalize(w)
      BY <1>3, <2>3, LockReached
    <3>2. i \in Attempts
      BY <3>1, <1>0, Names DEF Lock, At, TypeInv, OnAttempt, Working
    <3>3. CASE Lock(w) /\ call'[w].pc = "look"
      <4>1. ~doc[i].finalized /\ (doc[i].lock => ~Held(i)) /\ doc'[i].lock
        BY <3>3, LockTaken
      <4>2. ~Finalize(w)
        BY <3>3 DEF Lock, Finalize, At
      <4>3. doc'[i].finalized = doc[i].finalized
        BY <1>3, <3>2, <4>2, DocFields
      <4>4. \A v \in Workers : v # w /\ call[v].pc \in Holding => call[v].att # i
        BY <4>1 DEF LockInv, Held
      <4> QED
        BY <3>1, <4>1, <4>3, <4>4
    <3>4. CASE call[w].pc \in Holding /\ ~Lock(w) /\ ~Unlock(w) /\ ~Catch(w) /\ ~Finalize(w)
      <4>1. doc'[i].lock = doc[i].lock /\ doc'[i].finalized = doc[i].finalized
        BY <1>3, <3>2, <3>4, DocFields
      <4>2. /\ doc[i].lock /\ ~doc[i].finalized
            /\ \A v \in Workers : v # w /\ call[v].pc \in Holding => call[v].att # i
        BY <3>4 DEF LockInv
      <4> QED
        BY <3>1, <4>1, <4>2
    <3> QED
      BY <3>1, <3>3, <3>4
  <2> QED
    BY <2>1, <2>2, <2>3 DEF LockInv
<1> QED
  BY <1>1, <1>2, <1>3 DEF Next, Acts

-----------------------------------------------------------------------------
(* The attempt that settles the order. *)

\* Who delivered the order is its settler, and only a settler is finalised.
SettlerInv ==
  /\ \A i \in Attempts : doc[i].finalized => settler = i /\ Delivered
  /\ \A w \in Workers : call[w].pc \in {"row", "finalize"} =>
       settler = call[w].att /\ Delivered

LEMMA DeliveredStays ==
  ASSUME TypeInv, [Next]_vars, Delivered
  PROVE  Delivered' /\ settler' = settler
<1>0. order \in OrderType
  BY DEF TypeInv, TypeOK
<1>1. CASE UNCHANGED vars
  BY <1>1 DEF vars, Delivered
<1>2. ASSUME NEW i \in Attempts, CustomerPays(i) \/ CodeExpires(i)
      PROVE  Delivered' /\ settler' = settler
  BY <1>2 DEF CustomerPays, CodeExpires, history, Delivered
<1>3. ASSUME NEW w \in Workers, Acts(w) PROVE Delivered' /\ settler' = settler
  <2>1. CASE Begin(w) \/ Deliver(w) \/ HandOver(w) \/ HandOverByCode(w)
    BY <2>1 DEF Begin, Deliver, HandOver, HandOverByCode, Delivered, history
  <2>2. CASE Claim(w) \/ Credit(w) \/ Row(w) \/ Cash(w) \/ Cod(w) \/ CashRow(w) \/ CodeRow(w)
    BY <1>0, <2>2 DEF Claim, Credit, Row, Cash, Cod, CashRow, CodeRow, Delivered, history,
       OrderType
  <2> QED
    BY <1>3, <2>1, <2>2, Frame DEF WritesOrder, Delivered
<1> QED
  BY <1>1, <1>2, <1>3 DEF Next, Acts

\* Only a delivery makes a settler, and it is its own attempt's.
LEMMA SettlerMade ==
  ASSUME TypeInv, NEW w \in Workers, Acts(w), settler' # settler
  PROVE  /\ Deliver(w) /\ ~Delivered /\ settler' = call[w].att
         /\ call'[w].pc = "row" /\ call'[w].att = call[w].att
<1>1. Deliver(w)
  BY Frame DEF WritesOrder, Begin, Claim, Credit, Row, Cash, HandOver, Cod, CashRow,
     HandOverByCode, CodeRow, history
<1>2. ~Delivered /\ settler' = call[w].att /\ Goto(w, "row")
  BY <1>1 DEF Deliver
<1> QED
  BY <1>1, <1>2, SlotStep, Names DEF TypeInv

\* A handler comes to the settlement of an attempt from its delivery only.
LEMMA RowReached ==
  ASSUME TypeInv, NEW w \in Workers, Acts(w), call'[w].pc \in {"row", "finalize"}
  PROVE  /\ call'[w].att = call[w].att
         /\ \/ Row(w) /\ call[w].pc = "row"
            \/ Deliver(w) /\ ~Delivered /\ settler' = call[w].att
<1>1. WritesOrder(w)
  BY BooksReached DEF BookPcs
<1>2. Row(w) \/ Deliver(w)
  BY <1>1, Moves DEF WritesOrder, To
<1>3. call'[w].att = call[w].att
  BY <1>2, Moves DEF To
<1>4. ASSUME Deliver(w) PROVE ~Delivered /\ settler' = call[w].att
  <2>1. Goto(w, "failed") => call'[w].pc = "failed"
    BY SlotStep, Names DEF TypeInv
  <2> QED
    BY <1>4, <2>1 DEF Deliver
<1> QED
  BY <1>2, <1>3, <1>4 DEF Row, At

LEMMA SettlerStep == TypeInv /\ BooksInv /\ SettlerInv /\ [Next]_vars => SettlerInv'
<1> SUFFICES ASSUME TypeInv, BooksInv, SettlerInv, [Next]_vars PROVE SettlerInv'
  OBVIOUS
<1>1. CASE UNCHANGED vars
  BY <1>1 DEF vars, SettlerInv, Delivered
<1>2. ASSUME NEW i \in Attempts, CustomerPays(i) \/ CodeExpires(i) PROVE SettlerInv'
  BY <1>2 DEF CustomerPays, CodeExpires, SettlerInv, Delivered, history
<1>3. ASSUME NEW w \in Workers, Acts(w) PROVE SettlerInv'
  <2>1. \A v \in Workers : v # w => call'[v] = call[v]
    BY <1>3, SlotType DEF SlotOK
  <2>2. Delivered => Delivered' /\ settler' = settler
    BY DeliveredStays
  <2>3. ASSUME NEW i \in Attempts, doc'[i].finalized PROVE settler' = i /\ Delivered'
    <3>1. CASE doc[i].finalized
      BY <2>2, <3>1 DEF SettlerInv
    <3>2. CASE ~doc[i].finalized
      <4>1. Finalize(w) /\ i = call[w].att
        BY <1>3, <2>3, <3>2, DocFields
      <4>2. call[w].pc = "finalize"
        BY <4>1 DEF Finalize, At
      <4> QED
        BY <2>2, <4>1, <4>2 DEF SettlerInv
    <3> QED
      BY <3>1, <3>2
  <2>4. ASSUME NEW v \in Workers, call'[v].pc \in {"row", "finalize"}
        PROVE  settler' = call'[v].att /\ Delivered'
    <3>1. CASE v # w
      BY <2>1, <2>2, <2>4, <3>1 DEF SettlerInv
    <3>2. CASE v = w /\ Row(w) /\ call[w].pc = "row" /\ call'[w].att = call[w].att
      BY <2>2, <3>2 DEF SettlerInv
    <3>3. CASE /\ v = w /\ Deliver(w) /\ ~Delivered
               /\ settler' = call[w].att /\ call'[w].att = call[w].att
      <4>1. Delivered'
        BY <3>3 DEF Deliver, Hand, Delivered, TypeInv, TypeOK, OrderType
      <4> QED
        BY <3>3, <4>1
    <3> QED
      BY <1>3, <2>4, <3>1, <3>2, <3>3, RowReached
  <2> QED
    BY <2>3, <2>4 DEF SettlerInv
<1> QED
  BY <1>1, <1>2, <1>3 DEF Next, Acts

-----------------------------------------------------------------------------
(* The payments listed for a refund. *)

Refused(i) == doc[i].flagged \/ \E w \in Workers : At(w, "dup") /\ call[w].att = i

\* A payment is refused because the order is delivered, or cash was chosen.
RefusedInv ==
  ~reopened => \A i \in Attempts : Refused(i) => Delivered \/ order.choice = "CASH"

\* While nobody dies or is overtaken, a settler is finalised or about to be, and
\* its payment is not refused.
CleanInv ==
  crashes = 0 /\ ~Slow =>
    \A i \in Attempts : settler = i =>
      /\ \/ doc[i].finalized
         \/ \E w \in Workers : call[w].pc \in {"row", "finalize"} /\ call[w].att = i
      /\ ~reopened => ~Refused(i)

\* A payment is refused after the look at the order, or after its claim.
LEMMA DupReached ==
  ASSUME TypeInv, NEW w \in Workers, Acts(w), call'[w].pc = "dup"
  PROVE  Look(w) \/ Claim(w)
<1> USE Moves DEF To, Done
<1>1. CASE Start(w)
  BY <1>1
<1>2. CASE Finalisation(w)
  BY <1>2 DEF Finalisation
<1>3. CASE Reconciliation(w)
  BY <1>3 DEF Reconciliation
<1>4. CASE Request(w)
  BY <1>4 DEF Request
<1>5. CASE Ack(w) \/ Nack(w) \/ Crash(w) \/ Fail(w)
  BY <1>5
<1> QED
  BY <1>1, <1>2, <1>3, <1>4, <1>5 DEF Acts, Continue

\* A payment is refused anew when its order is delivered already, or its claim fails.
LEMMA RefusedAnew ==
  ASSUME TypeInv, BegunInv, NEW w \in Workers, Acts(w), NEW i \in Attempts,
         Refused(i)', ~Refused(i)
  PROVE  /\ Look(w) \/ Claim(w)
         /\ i = call[w].att /\ UNCHANGED order
         /\ Delivered \/ order.choice = "CASH"
<1>0. order \in OrderType
  BY DEF TypeInv, TypeOK
<1>1. \A v \in Workers : v # w => call'[v] = call[v]
  BY SlotType DEF SlotOK
<1>2. doc'[i].flagged = doc[i].flagged
  <2>1. ASSUME doc'[i].flagged # doc[i].flagged PROVE FALSE
    <3>1. Flag(w) /\ i = call[w].att
      BY <2>1, DocFields
    <3> QED
      BY <3>1 DEF Flag, Refused
  <2> QED
    BY <2>1
<1>3. call'[w].pc = "dup" /\ call'[w].att = i
  BY <1>1, <1>2 DEF Refused, At
<1>4. Look(w) \/ Claim(w)
  BY <1>3, DupReached
<1>5. i = call[w].att
  BY <1>3, <1>4, Moves DEF To
<1>6. CASE Look(w)
  <2>1. Goto(w, "claim") => call'[w].pc = "claim"
    BY SlotStep, Names DEF TypeInv
  <2>2. Delivered /\ UNCHANGED order
    BY <1>3, <1>6, <2>1 DEF Look
  <2> QED
    BY <1>4, <1>5, <2>2
<1>7. CASE Claim(w)
  <2>1. Goto(w, "credit") => call'[w].pc = "credit"
    BY SlotStep, Names DEF TypeInv
  <2>2. ~(order.awaiting /\ order.choice \in {"none", "RAZORPAY_QR"}) /\ UNCHANGED order
    BY <1>3, <1>7, <2>1 DEF Claim
  <2>3. order.awaiting \/ Delivered
    BY <1>7 DEF BegunInv, Begun, Claim, At
  <2> QED
    BY <1>0, <1>4, <1>5, <2>2, <2>3 DEF OrderType, Methods
<1> QED
  BY <1>4, <1>6, <1>7

\* Cash stays chosen until the choice is erased.
LEMMA CashStays ==
  ASSUME TypeInv, [Next]_vars, order.choice = "CASH", ~reopened'
  PROVE  order'.choice = "CASH" /\ ~reopened
<1>0. order \in OrderType
  BY DEF TypeInv, TypeOK
<1>1. CASE UNCHANGED vars
  BY <1>1 DEF vars
<1>2. ASSUME NEW i \in Attempts, CustomerPays(i) \/ CodeExpires(i)
      PROVE  order'.choice = "CASH" /\ ~reopened
  BY <1>2 DEF CustomerPays, CodeExpires, history
<1>3. ASSUME NEW w \in Workers, Acts(w) PROVE order'.choice = "CASH" /\ ~reopened
  <2>1. CASE Begin(w)
    <3>1. Delivered
      <4>1. ASSUME ~Delivered PROVE FALSE
        <5>1. reopened' = (reopened \/ order.choice # "none")
          BY <2>1, <4>1 DEF Begin
        <5> QED
          BY <5>1
      <4> QED
        BY <4>1
    <3> QED
      BY <2>1, <3>1 DEF Begin
  <2>2. CASE Claim(w) \/ Credit(w) \/ Row(w) \/ Cash(w) \/ Cod(w) \/ CashRow(w) \/ CodeRow(w)
    BY <1>0, <2>2 DEF Claim, Credit, Row, Cash, Cod, CashRow, CodeRow, history, OrderType
  <2>3. CASE Deliver(w) \/ HandOver(w) \/ HandOverByCode(w)
    <3>1. CASE Deliver(w)
      BY <1>0, <3>1 DEF Deliver, Hand, OrderType
    <3>2. CASE HandOver(w)
      <4>1. UNCHANGED order \/ Hand("CASH")
        BY <3>2 DEF HandOver
      <4>2. UNCHANGED reopened
        BY <3>2 DEF HandOver, history
      <4> QED
        BY <1>0, <4>1, <4>2 DEF Hand, OrderType
    <3>3. CASE HandOverByCode(w)
      BY <1>0, <3>3 DEF HandOverByCode, history, OrderType
    <3> QED
      BY <2>3, <3>1, <3>2, <3>3
  <2> QED
    BY <1>3, <2>1, <2>2, <2>3, Frame DEF WritesOrder
<1> QED
  BY <1>1, <1>2, <1>3 DEF Next, Acts

\* An erased choice is not forgotten.
LEMMA ReopenedStays == ASSUME [Next]_vars, reopened PROVE reopened'
<1>1. CASE UNCHANGED vars
  BY <1>1 DEF vars
<1>2. ASSUME NEW w \in Workers, Acts(w) PROVE reopened'
  BY <1>2, Frame DEF WritesOrder, Begin, Claim, Credit, Deliver, Row, Cash, HandOver, Cod,
     CashRow, HandOverByCode, CodeRow, history
<1> QED
  BY <1>1, <1>2 DEF Next, Acts, CustomerPays, CodeExpires, history

LEMMA RefusedStep == TypeInv /\ BegunInv /\ RefusedInv /\ [Next]_vars => RefusedInv'
<1> SUFFICES ASSUME TypeInv, BegunInv, RefusedInv, [Next]_vars, ~reopened',
                    NEW i \in Attempts, Refused(i)'
             PROVE  Delivered' \/ order'.choice = "CASH"
  BY DEF RefusedInv
<1>1. ~reopened
  BY ReopenedStays
<1>2. ASSUME Delivered \/ order.choice = "CASH" PROVE Delivered' \/ order'.choice = "CASH"
  BY <1>2, DeliveredStays, CashStays
<1>3. CASE Refused(i)
  BY <1>1, <1>2, <1>3 DEF RefusedInv
<1>4. CASE ~Refused(i)
  <2>1. ASSUME NEW w \in Workers, Acts(w) PROVE Delivered \/ order.choice = "CASH"
    BY <1>4, <2>1, RefusedAnew
  <2>2. ~UNCHANGED vars /\ \A j \in Attempts : ~CustomerPays(j) /\ ~CodeExpires(j)
    BY <1>4 DEF vars, CustomerPays, CodeExpires, Refused, At
  <2> QED
    BY <1>2, <2>1, <2>2 DEF Next, Acts
<1> QED
  BY <1>3, <1>4

LEMMA CleanStep ==
  /\ TypeInv /\ BooksInv /\ BegunInv /\ LockInv /\ SettlerInv /\ RefusedInv /\ CleanInv
  /\ [Next]_vars
  => CleanInv'
<1> SUFFICES ASSUME TypeInv, BooksInv, BegunInv, LockInv, SettlerInv, RefusedInv, CleanInv,
                    [Next]_vars, crashes' = 0, ~Slow, NEW i \in Attempts, settler' = i
             PROVE  /\ \/ doc'[i].finalized
                       \/ \E w \in Workers : call'[w].pc \in {"row", "finalize"} /\ call'[w].att = i
                    /\ ~reopened' => ~Refused(i)'
  BY DEF CleanInv
<1> DEFINE Settled == \/ doc[i].finalized
                      \/ \E w \in Workers : call[w].pc \in {"row", "finalize"} /\ call[w].att = i
<1>1. CASE UNCHANGED vars
  BY <1>1 DEF vars, CleanInv, Refused, At
<1>2. CASE \E j \in Attempts : CustomerPays(j) \/ CodeExpires(j)
  BY <1>2 DEF CustomerPays, CodeExpires, history, CleanInv, Refused, At
<1>3. ASSUME NEW w \in Workers, Acts(w)
      PROVE  Settled' /\ (~reopened' => ~Refused(i)')
  <2>1. \A v \in Workers : v # w => call'[v] = call[v]
    BY <1>3, SlotType DEF SlotOK
  <2>2. crashes = 0 /\ ~Crash(w) /\ ~Fail(w)
    <3>1. crashes \in Nat
      BY FaultAssumption DEF TypeInv, TypeOK
    <3>2. ~Crash(w) /\ ~Fail(w)
      BY <3>1 DEF Crash, Fail
    <3> QED
      BY <1>3, <3>2, Frame
  <2>3. CASE settler' # settler
    <3>1. /\ Deliver(w) /\ ~Delivered /\ call[w].att = i
          /\ call'[w].pc = "row" /\ call'[w].att = i
      BY <1>3, <2>3, SettlerMade
    <3>2. ~reopened => order.choice = "RAZORPAY_QR"
      BY <3>1 DEF Deliver, At, BooksInv, ChoiceInv
    <3>3. ~reopened => ~Refused(i)
      BY <3>1, <3>2 DEF RefusedInv
    <3>4. ~Refused(i) => ~Refused(i)'
      BY <1>3, <3>1, RefusedAnew DEF Look, Claim, Deliver, At
    <3> QED
      BY <3>1, <3>3, <3>4, ReopenedStays
  <2>4. CASE settler' = settler
    <3>1. Settled /\ (~reopened => ~Refused(i))
      BY <2>2, <2>4 DEF CleanInv
    <3>2. Settled'
      <4>1. CASE doc[i].finalized
        <5>1. doc'[i].finalized
          BY <1>3, <4>1, DocFields
        <5> QED
          BY <5>1
      <4>2. ASSUME NEW v \in Workers, call[v].pc \in {"row", "finalize"}, call[v].att = i
            PROVE  Settled'
        <5>1. CASE v # w
          BY <2>1, <4>2, <5>1
        <5>2. CASE v = w
          <6>1. Row(w) \/ Finalize(w)
            BY <1>3, <2>2, <4>2, <5>2 DEF Acts, Start, Continue, Finalisation, Reconciliation,
               Request, StartOtp, StartQr, StartVerify, StartCash, Webhook, ClosedEvent,
               Lock, Look, Claim, Credit, Deliver, Flag, Unlock, Catch, Settle, Fetch, Mark,
               Stop, Expire, Tidy, Begin, Reuse, Shut, Close, Create, Gateway, Store, Discard,
               Cash, HandOver, Cod, CashRow, HandOverByCode, CodeRow, Ack, Nack, At
          <6>2. CASE Row(w)
            BY <4>2, <5>2, <6>2, Moves DEF To
          <6>3. CASE Finalize(w)
            <7>1. doc' = [doc EXCEPT ![i] = [doc[i] EXCEPT !.finalized = TRUE, !.active = FALSE]]
              BY <4>2, <5>2, <6>3 DEF Finalize, TypeInv, TypeOK, DocType
            <7>2. doc'[i].finalized
              BY <7>1 DEF TypeInv, TypeOK, DocType
            <7> QED
              BY <7>2
          <6> QED
            BY <6>1, <6>2, <6>3
        <5> QED
          BY <5>1, <5>2
      <4> QED
        BY <3>1, <4>1, <4>2
    <3>3. ASSUME Refused(i)', ~Refused(i) PROVE FALSE
      <4>1. (Look(w) \/ Claim(w)) /\ i = call[w].att
        BY <1>3, <3>3, RefusedAnew
      <4>2. call[w].pc \in {"look", "claim"}
        BY <4>1 DEF Look, Claim, At
      <4>3. ~doc[i].finalized
        BY <4>1, <4>2 DEF LockInv, Holding
      <4>4. \A v \in Workers : call[v].pc \in {"row", "finalize"} => call[v].att # i
        BY <4>1, <4>2 DEF LockInv, Holding
      <4> QED
        BY <3>1, <4>3, <4>4
    <3> QED
      BY <3>1, <3>2, <3>3, ReopenedStays
  <2> QED
    BY <2>3, <2>4
<1> QED
  BY <1>1, <1>2, <1>3 DEF Next, Acts

-----------------------------------------------------------------------------
(* The order of the door's steps. *)

LEMMA MoneyStep == TypeInv /\ BooksInv /\ MoneyInv /\ [Next]_vars => MoneyInv'
<1> SUFFICES ASSUME TypeInv, BooksInv, MoneyInv, [Next]_vars PROVE MoneyInv'
  OBVIOUS
<1> USE DEF MoneyInv, Delivered
<1>0. order \in OrderType
  BY DEF TypeInv, TypeOK
<1>1. CASE UNCHANGED vars
  BY <1>1 DEF vars
<1>2. ASSUME NEW i \in Attempts, CustomerPays(i) \/ CodeExpires(i) PROVE MoneyInv'
  BY <1>2 DEF CustomerPays, CodeExpires, history
<1>3. ASSUME NEW w \in Workers, Acts(w) PROVE MoneyInv'
  <2>1. \A v \in Workers : v # w => call'[v] = call[v]
    BY <1>3, SlotType DEF SlotOK
  <2>2. CASE ~WritesOrder(w)
    <3>1. order' = order /\ call'[w].pc \notin BookPcs
      BY <1>3, <2>2, Frame, BooksReached
    <3>2. call'[w].pc = "code" => order.credited # {}
      BY <1>3, CodeAccepted DEF Outstanding
    <3> QED
      BY <2>1, <3>1, <3>2 DEF BookPcs
  <2>3. CASE Begin(w) \/ Claim(w) \/ Cash(w)
    <3>1. call'[w].pc \notin {"deliver", "code"}
      BY <2>3, Moves DEF To
    <3>2. \/ order' = order
          \/ order' = [order EXCEPT !.awaiting = TRUE, !.choice = "none"]
          \/ \E m \in Methods : order' = [order EXCEPT !.choice = m]
      BY <2>3 DEF Begin, Claim, Cash, Methods
    <3>3. /\ order'.credited = order.credited /\ order'.method = order.method
          /\ order'.cash = order.cash /\ order'.row = order.row
      BY <1>0, <3>2 DEF OrderType
    <3> QED
      BY <2>1, <3>1, <3>3
  <2>4. CASE Credit(w)
    <3>1. order' = [order EXCEPT !.credited = IF @ = {} THEN {call[w].att} ELSE @]
      BY <2>4 DEF Credit
    <3>2. /\ order'.credited # {} /\ order'.method = order.method
          /\ order'.cash = order.cash /\ order'.row = order.row
      BY <1>0, <3>1 DEF OrderType
    <3> QED
      BY <2>1, <3>2
  <2>5. CASE Deliver(w) \/ HandOver(w)
    <3>1. call'[w].pc \notin {"deliver", "code"}
      BY <2>5, Moves DEF To
    <3>2. \/ order' = order
          \/ Deliver(w) /\ order' = [order EXCEPT !.method = "RAZORPAY_QR", !.awaiting = FALSE]
          \/ order' = [order EXCEPT !.method = "CASH", !.awaiting = FALSE]
      BY <2>5 DEF Deliver, HandOver, Hand
    <3>3. Deliver(w) => order.credited # {}
      BY DEF Deliver, At
    <3>4. /\ order'.credited = order.credited
          /\ order'.cash = order.cash /\ order'.row = order.row
          /\ \/ order'.method = order.method
             \/ order'.method = "RAZORPAY_QR" /\ order.credited # {}
             \/ order'.method = "CASH"
      BY <1>0, <3>2, <3>3 DEF OrderType
    <3> QED
      BY <2>1, <3>1, <3>4
  <2>6. CASE Cod(w)
    <3>1. call'[w].pc \notin {"deliver", "code"} /\ Delivered
      BY <2>6, Moves DEF To, Cod, At, BooksInv, DeliveredInv
    <3>2. order' = order \/ order' = [order EXCEPT !.cash = TRUE]
      BY <2>6 DEF Cod
    <3>3. /\ order'.credited = order.credited /\ order'.method = order.method
          /\ order'.row = order.row /\ (order.cash => order'.cash)
      BY <1>0, <3>2 DEF OrderType
    <3> QED
      BY <2>1, <3>1, <3>3
  <2>7. CASE Row(w) \/ CashRow(w) \/ CodeRow(w)
    <3>1. call'[w].pc \notin {"deliver", "code"}
      BY <2>7, Moves DEF To
    <3>2. order' = [order EXCEPT !.row = Recorded]
      BY <2>7 DEF Row, CashRow, CodeRow
    <3>3. Recorded = "CASH" => order.cash
      BY DEF Recorded
    <3>4. /\ order'.credited = order.credited /\ order'.method = order.method
          /\ order'.cash = order.cash /\ order'.row = Recorded
      BY <1>0, <3>2 DEF OrderType
    <3> QED
      BY <2>1, <3>1, <3>3, <3>4
  <2>8. CASE HandOverByCode(w)
    <3>1. call'[w].pc \notin {"deliver", "code"} /\ order.credited # {}
      BY <2>8, Moves DEF To, HandOverByCode, At
    <3>2. order' = order \/ order' = [order EXCEPT !.method = "CODE"]
      BY <2>8 DEF HandOverByCode
    <3>3. /\ order'.credited = order.credited
          /\ order'.cash = order.cash /\ order'.row = order.row
          /\ order'.method = order.method \/ order'.method = "CODE"
      BY <1>0, <3>2 DEF OrderType
    <3> QED
      BY <2>1, <3>1, <3>3
  <2> QED
    BY <2>2, <2>3, <2>4, <2>5, <2>6, <2>7, <2>8 DEF WritesOrder
<1> QED
  BY <1>1, <1>2, <1>3 DEF Next, Acts

-----------------------------------------------------------------------------
(* The hand-off implements HandoffPromise. *)

LEMMA PromiseInit == Init => Promise!Init
BY DEF Init, Promise!Init, Kept, Money

\* A step that leaves what HandoffPromise is told.
LEMMA PromiseStutter ==
  ASSUME /\ reopened' = reopened
         /\ reopened \/ ( /\ order'.choice = order.choice /\ order'.method = order.method
                         /\ order'.row = order.row /\ Money' = Money )
  PROVE  UNCHANGED Promise!vars
BY DEF Promise!vars, Kept

\* What Money is while the choice stands.
LEMMA MoneyOfChoice ==
  ASSUME TypeInv, BooksInv, MoneyInv, ~reopened
  PROVE  /\ Money \in {"none", order.choice}
         /\ order.credited = {} => order.method \in {"none", order.choice}
         /\ order.credited # {} => Money = "RAZORPAY_QR" /\ order.choice = "RAZORPAY_QR"
         /\ order.cash => Money = "CASH" /\ order.choice = "CASH" /\ order.credited = {}
         /\ order.credited = {} /\ ~order.cash => Money = "none"
BY DEF TypeInv, TypeOK, OrderType, Methods, BooksInv, ChoiceInv, MoneyInv, Money

\* A choice is made once.
LEMMA ChooseStep ==
  ASSUME TypeInv, NEW w, Claim(w) \/ Cash(w)
  PROVE  [Promise!Next]_(Promise!vars)
<1>0. order \in OrderType /\ reopened' = reopened
  BY DEF TypeInv, TypeOK, Claim, Cash, history
<1>1. \/ order' = order
      \/ \E m \in {"CASH", "RAZORPAY_QR"} :
           order.choice \in {"none", m} /\ order' = [order EXCEPT !.choice = m]
  BY DEF Claim, Cash
<1>2. CASE reopened
  BY <1>0, <1>2, PromiseStutter
<1>3. CASE order' = order
  BY <1>0, <1>3, PromiseStutter DEF Money
<1>4. ASSUME NEW m \in {"CASH", "RAZORPAY_QR"}, ~reopened,
             order.choice \in {"none", m}, order' = [order EXCEPT !.choice = m]
      PROVE  [Promise!Next]_(Promise!vars)
  <2>1. /\ order'.choice = m /\ order'.method = order.method /\ order'.row = order.row
        /\ order'.credited = order.credited /\ order'.cash = order.cash
    BY <1>0, <1>4 DEF OrderType, Methods
  <2>2. Money' = Money
    BY <2>1 DEF Money
  <2>3. CASE order.choice = m
    BY <1>0, <2>1, <2>2, <2>3, PromiseStutter
  <2>4. CASE order.choice = "none"
    <3>1. Promise!Choose(m)
      BY <1>0, <1>4, <2>1, <2>2, <2>4 DEF Promise!Choose, Kept
    <3> QED
      BY <3>1 DEF Promise!Next
  <2> QED
    BY <1>4, <2>3, <2>4
<1> QED
  BY <1>1, <1>2, <1>3, <1>4

\* A second verification erases a choice, of an order not handed over only.
LEMMA EraseStep ==
  ASSUME TypeInv, NEW w, Begin(w)
  PROVE  [Promise!Next]_(Promise!vars)
<1>0. order \in OrderType /\ reopened \in BOOLEAN
  BY DEF TypeInv, TypeOK
<1>1. CASE Delivered
  <2>1. order' = order /\ reopened' = reopened
    BY <1>1 DEF Begin
  <2> QED
    BY <2>1, PromiseStutter DEF Money
<1>2. CASE ~Delivered
  <2>1. /\ order' = [order EXCEPT !.awaiting = TRUE, !.choice = "none"]
        /\ reopened' = (reopened \/ order.choice # "none")
    BY <1>2, Zenon DEF Begin
  <2>2. /\ order'.choice = "none" /\ order'.method = order.method /\ order'.row = order.row
        /\ order'.credited = order.credited /\ order'.cash = order.cash
    BY <1>0, <2>1 DEF OrderType
  <2>3. Money' = Money
    BY <2>2 DEF Money
  <2>4. CASE reopened
    <3>1. reopened' = reopened
      BY <1>0, <2>1, <2>4
    <3> QED
      BY <2>4, <3>1, PromiseStutter
  <2>5. CASE ~reopened /\ order.choice = "none"
    <3>1. reopened' = reopened
      BY <1>0, <2>1, <2>5
    <3> QED
      BY <2>2, <2>3, <2>5, <3>1, PromiseStutter
  <2>6. CASE ~reopened /\ order.choice # "none"
    <3>1. reopened' /\ order.choice \in {"CASH", "RAZORPAY_QR"} /\ order.method = "none"
      BY <1>0, <1>2, <2>1, <2>6 DEF OrderType, Methods, Delivered
    <3>2. Promise!Erase
      BY <2>6, <3>1 DEF Promise!Erase, Kept
    <3> QED
      BY <3>2 DEF Promise!Next
  <2> QED
    BY <1>0, <2>4, <2>5, <2>6
<1> QED
  BY <1>1, <1>2

\* The payment of a QR is credited once, and before the order is handed over.
LEMMA CreditStep ==
  ASSUME TypeInv, BooksInv, MoneyInv, NEW w \in Workers, Credit(w)
  PROVE  [Promise!Next]_(Promise!vars)
<1>0. order \in OrderType /\ reopened' = reopened /\ call[w].pc = "credit"
  BY DEF TypeInv, TypeOK, Credit, At, history
<1>1. order' = [order EXCEPT !.credited = IF @ = {} THEN {call[w].att} ELSE @]
  BY DEF Credit
<1>2. /\ order'.choice = order.choice /\ order'.method = order.method
      /\ order'.row = order.row /\ order'.cash = order.cash
      /\ order'.credited # {} /\ (order.credited # {} => order'.credited = order.credited)
  BY <1>0, <1>1 DEF OrderType
<1>3. CASE reopened
  BY <1>0, <1>3, PromiseStutter
<1>4. CASE order.credited # {}
  BY <1>0, <1>2, <1>4, PromiseStutter DEF Money
<1>5. CASE ~reopened /\ order.credited = {}
  <2>1. order.choice = "RAZORPAY_QR"
    BY <1>0, <1>5 DEF BooksInv, ChoiceInv
  <2>2. Money = "none" /\ order.method = "none"
    BY <1>5, <2>1, MoneyOfChoice DEF MoneyInv
  <2>3. Money' = "RAZORPAY_QR"
    BY <1>2 DEF Money
  <2>4. Promise!Credit
    BY <1>0, <1>2, <1>5, <2>1, <2>2, <2>3 DEF Promise!Credit, Kept
  <2> QED
    BY <2>4 DEF Promise!Next
<1> QED
  BY <1>3, <1>4, <1>5

\* The order is handed over once and by the chosen method, with a QR's money in the
\* ledger.
LEMMA HandOverStep ==
  ASSUME TypeInv, BooksInv, MoneyInv, NEW w \in Workers, Deliver(w) \/ HandOver(w)
  PROVE  [Promise!Next]_(Promise!vars)
<1>0. order \in OrderType /\ reopened' = reopened
  BY DEF TypeInv, TypeOK, Deliver, HandOver, history
<1>1. CASE reopened
  BY <1>0, <1>1, PromiseStutter
<1>2. CASE Delivered
  <2>1. order' = order
    BY <1>2 DEF Deliver, HandOver
  <2> QED
    BY <1>0, <2>1, PromiseStutter DEF Money
<1>3. CASE ~reopened /\ ~Delivered
  <2>1. \E m \in {"CASH", "RAZORPAY_QR"} :
          /\ order' = [order EXCEPT !.method = m, !.awaiting = FALSE]
          /\ order.choice = m /\ (m = "RAZORPAY_QR" => order.credited # {})
    BY <1>3 DEF Deliver, HandOver, Hand, At, BooksInv, ChoiceInv, MoneyInv
  <2>2. PICK m \in {"CASH", "RAZORPAY_QR"} :
          /\ order' = [order EXCEPT !.method = m, !.awaiting = FALSE]
          /\ order.choice = m /\ (m = "RAZORPAY_QR" => order.credited # {})
    BY <2>1
  <2>3. /\ order'.choice = order.choice /\ order'.method = m /\ order'.row = order.row
        /\ order'.credited = order.credited /\ order'.cash = order.cash
    BY <1>0, <2>2 DEF OrderType
  <2>4. Money' = Money /\ (m = "RAZORPAY_QR" => Money = m)
    BY <2>2, <2>3 DEF Money
  <2>5. Promise!HandOver
    BY <1>0, <1>3, <2>2, <2>3, <2>4 DEF Promise!HandOver, Kept, Delivered
  <2> QED
    BY <2>5 DEF Promise!Next
<1> QED
  BY <1>1, <1>2, <1>3

\* The delivery code hands the order over with a QR's money in the ledger.
LEMMA HandOverByCodeStep ==
  ASSUME TypeInv, BooksInv, MoneyInv, NEW w \in Workers, HandOverByCode(w)
  PROVE  [Promise!Next]_(Promise!vars)
<1>0. order \in OrderType /\ reopened' = reopened /\ order.credited # {}
  BY DEF TypeInv, TypeOK, HandOverByCode, At, MoneyInv, history
<1>1. CASE reopened
  BY <1>0, <1>1, PromiseStutter
<1>2. CASE Delivered
  <2>1. order' = order
    BY <1>2 DEF HandOverByCode
  <2> QED
    BY <1>0, <2>1, PromiseStutter DEF Money
<1>3. CASE ~reopened /\ ~Delivered
  <2>1. /\ order'.choice = order.choice /\ order'.method = "CODE" /\ order'.row = order.row
        /\ order'.credited = order.credited /\ order'.cash = order.cash
    BY <1>0, <1>3 DEF HandOverByCode, OrderType
  <2>2. order.choice = "RAZORPAY_QR" /\ Money = order.choice /\ Money' = Money
    BY <1>0, <1>3, <2>1 DEF Money, BooksInv, ChoiceInv
  <2>3. Promise!HandOverByCode
    BY <1>0, <1>3, <2>1, <2>2 DEF Promise!HandOverByCode, Kept, Delivered
  <2> QED
    BY <2>3 DEF Promise!Next
<1> QED
  BY <1>1, <1>2, <1>3

\* The cash comes to the float once, and after the order was handed over.
LEMMA CollectStep ==
  ASSUME TypeInv, BooksInv, MoneyInv, NEW w \in Workers, Cod(w)
  PROVE  [Promise!Next]_(Promise!vars)
<1>0. order \in OrderType /\ reopened' = reopened /\ call[w].pc = "cod"
  BY DEF TypeInv, TypeOK, Cod, At, history
<1>1. CASE reopened
  BY <1>0, <1>1, PromiseStutter
<1>2. CASE order' = order
  BY <1>0, <1>2, PromiseStutter DEF Money
<1>3. CASE ~reopened /\ order.credited = {} /\ order' = [order EXCEPT !.cash = TRUE]
  <2>1. /\ order'.choice = order.choice /\ order'.method = order.method
        /\ order'.row = order.row /\ order'.credited = {} /\ order'.cash
    BY <1>0, <1>3 DEF OrderType
  <2>2. order.choice = "CASH" /\ order.method = "CASH"
    BY <1>0, <1>3 DEF BooksInv, ChoiceInv, DeliveredInv, MoneyInv, Delivered, OrderType, Methods
  <2>3. Money' = "CASH" /\ Money \in {"none", "CASH"}
    BY <1>3, <2>1 DEF Money
  <2>4. CASE Money = "CASH"
    BY <1>0, <2>1, <2>3, <2>4, PromiseStutter
  <2>5. CASE Money = "none"
    <3>1. Promise!Collect
      BY <1>0, <1>3, <2>1, <2>2, <2>3, <2>5 DEF Promise!Collect, Kept
    <3> QED
      BY <3>1 DEF Promise!Next
  <2> QED
    BY <2>3, <2>4, <2>5
<1> QED
  BY <1>1, <1>2, <1>3 DEF Cod

\* The collection is recorded once, when the order and its money have changed hands.
LEMMA RecordStep ==
  ASSUME TypeInv, BooksInv, MoneyInv, NEW w \in Workers, Row(w) \/ CashRow(w) \/ CodeRow(w)
  PROVE  [Promise!Next]_(Promise!vars)
<1>0. /\ order \in OrderType /\ reopened' = reopened
      /\ call[w].pc \in {"row", "cashRow", "codeRow"}
      /\ order' = [order EXCEPT !.row = Recorded]
  BY DEF TypeInv, TypeOK, Row, CashRow, CodeRow, At, history
<1>1. /\ order'.choice = order.choice /\ order'.method = order.method
      /\ order'.row = Recorded /\ order'.credited = order.credited /\ order'.cash = order.cash
  BY <1>0 DEF OrderType
<1>2. Money' = Money
  BY <1>1 DEF Money
<1>3. CASE reopened
  BY <1>0, <1>3, PromiseStutter
<1>4. CASE Recorded = order.row
  BY <1>0, <1>1, <1>2, <1>4, PromiseStutter
<1>5. CASE ~reopened /\ Recorded # order.row
  <2>1. order.row = "none" /\ order.method \in {"CASH", "RAZORPAY_QR", "CODE"}
    BY <1>0, <1>5 DEF Recorded, BooksInv, DeliveredInv, Delivered, OrderType, Methods
  <2>2. \/ order.method = "CODE" /\ Recorded = "ONLINE_PREPAID"
        \/ /\ order.method \in {"CASH", "RAZORPAY_QR"}
           /\ Recorded = order.method /\ Money = order.method
    <3>1. CASE order.method \in {"RAZORPAY_QR", "CODE"}
      BY <3>1, <2>1 DEF Recorded, MoneyInv, Money
    <3>2. CASE order.method = "CASH"
      <4>1. order.credited = {}
        BY <1>5, <3>2 DEF BooksInv, ChoiceInv, Methods
      <4> QED
        BY <1>5, <2>1, <3>2, <4>1 DEF Recorded, Money
    <3> QED
      BY <2>1, <3>1, <3>2
  <2>3. Promise!Record
    BY <1>0, <1>1, <1>2, <1>5, <2>1, <2>2 DEF Promise!Record, Kept
  <2> QED
    BY <2>3 DEF Promise!Next
<1> QED
  BY <1>3, <1>4, <1>5

LEMMA PromiseStep ==
  TypeInv /\ BooksInv /\ MoneyInv /\ [Next]_vars => [Promise!Next]_(Promise!vars)
<1> SUFFICES ASSUME TypeInv, BooksInv, MoneyInv, [Next]_vars
             PROVE  [Promise!Next]_(Promise!vars)
  OBVIOUS
<1>1. CASE UNCHANGED <<order, reopened>>
  BY <1>1, PromiseStutter DEF Money
<1>2. ASSUME NEW w \in Workers, Acts(w) PROVE [Promise!Next]_(Promise!vars)
  <2>1. CASE WritesOrder(w)
    BY <2>1, ChooseStep, EraseStep, CreditStep, HandOverStep, HandOverByCodeStep,
       CollectStep, RecordStep DEF WritesOrder
  <2>2. CASE ~WritesOrder(w)
    BY <1>1, <1>2, <2>2, Frame
  <2> QED
    BY <2>1, <2>2
<1> QED
  BY <1>1, <1>2 DEF Next, Acts, CustomerPays, CodeExpires, history, vars

-----------------------------------------------------------------------------
(* Theorems. *)

HandoffInv ==
  /\ TypeInv /\ CodeInv /\ BooksInv /\ MoneyInv /\ BegunInv
  /\ LockInv /\ SettlerInv /\ RefusedInv /\ CleanInv

LEMMA HandoffInit == Init => HandoffInv
<1> SUFFICES ASSUME Init PROVE HandoffInv
  OBVIOUS
<1> USE DEF Init
<1>1. TypeInv
  <2>1. Idle \in Activations /\ Idle.pc = "idle"
    BY Names DEF Idle, Activations
  <2>2. OnAttempt
    BY <2>1 DEF OnAttempt, Working
  <2>3. order \in OrderType
    BY DEF OrderType
  <2>4. doc \in [Attempts -> DocType]
    BY DEF DocType, Statuses
  <2>5. call \in [Workers -> Activations]
    BY <2>1
  <2>6. crashes \in 0..MaxCrash
    BY FaultAssumption
  <2> QED
    BY <2>2, <2>3, <2>4, <2>5, <2>6 DEF TypeInv, TypeOK, Activations
<1>2. \A w \in Workers : call[w].pc = "idle"
  BY DEF Idle
<1>3. \A i \in Attempts :
        /\ doc[i].status = "none" /\ ~doc[i].code /\ ~doc[i].finalized /\ ~doc[i].flagged
        /\ gateway[i] = "none"
  OBVIOUS
<1>4. CodeInv /\ LockInv
  BY <1>2, <1>3 DEF CodeInv, LockInv, Creating, Holding
<1>5. BooksInv /\ MoneyInv /\ BegunInv
  BY <1>2, <1>3 DEF BooksInv, ChoiceInv, DeliveredInv, MoneyInv, BegunInv
<1>6. SettlerInv
  BY <1>2, <1>3 DEF SettlerInv
<1>7. RefusedInv
  BY <1>2, <1>3 DEF RefusedInv, Refused, At
<1>8. CleanInv
  BY DEF CleanInv, NoAttempt, Attempts
<1> QED
  BY <1>1, <1>4, <1>5, <1>6, <1>7, <1>8 DEF HandoffInv

\* The invariant of the hand-off: what each step of the argument relies on.
THEOREM HandoffInvariant == Spec => []HandoffInv
<1>1. HandoffInv /\ [Next]_vars => HandoffInv'
  BY TypeStep, CodeStep, BooksStep, MoneyStep, BegunStep, LockStep, SettlerStep, RefusedStep, CleanStep
     DEF HandoffInv
<1> QED
  BY HandoffInit, <1>1, PTL DEF Spec

\* Every order, attempt and handler is well-typed (codQrPayment.js:24-122).
THEOREM TypeCorrect == Spec => []TypeOK
<1>1. HandoffInv => TypeOK
  BY DEF HandoffInv, TypeInv
<1> QED
  BY <1>1, HandoffInvariant, PTL

\* The books agree with the method chosen at the door until a choice is erased,
\* however many handlers race, and the delivery code hands over only what a QR has paid
\* (codQrPaymentService.js:403-411, 967-983; orderWorkflowService.js:1853-1878).
THEOREM BooksCorrect == Spec => []BooksMatchChoice
<1>1. HandoffInv => BooksMatchChoice
  BY DEF HandoffInv, BooksInv, ChoiceInv, MoneyInv, BooksMatchChoice
<1> QED
  BY <1>1, HandoffInvariant, PTL

\* Only the attempt that delivered the order is finalised, and it is not listed
\* for a refund unless a handler died, was overtaken, or a choice was erased
\* (codQrPaymentService.js:374-401, 456-460).
THEOREM SettlerCorrect == Spec => []OneSettler
<1>1. HandoffInv => OneSettler
  BY DEF HandoffInv, SettlerInv, CleanInv, Refused, OneSettler
<1> QED
  BY <1>1, HandoffInvariant, PTL

\* A recorded payment stays recorded (codQrPaymentService.js:275, 291, 313, 856).
THEOREM PaymentCorrect == Spec => PaymentStands
<1>1. HandoffInv /\ [Next]_vars =>
        [\A i \in Attempts : doc[i].status = "PAID" => doc'[i].status = "PAID"]_vars
  BY PaidStays DEF HandoffInv
<1> QED
  BY <1>1, HandoffInvariant, PTL DEF Spec, PaymentStands

\* The hand-off implements HandoffPromise: one choice, a QR's payment credited before the
\* order is handed over, for it or by the delivery code, and cash collected after, the
\* record last, each once, and no choice erased after the hand-over
\* (codQrPaymentService.js:212-250, 403-449, 967-1004; orderWorkflowService.js:1853-1878).
THEOREM HandoffKeepsPromise == Spec => PromiseKept
<1>1. HandoffInv /\ [Next]_vars => [Promise!Next]_(Promise!vars)
  BY PromiseStep DEF HandoffInv
<1> QED
  BY <1>1, PromiseInit, HandoffInvariant, PTL DEF Spec, PromiseKept, Promise!Spec
=============================================================================
