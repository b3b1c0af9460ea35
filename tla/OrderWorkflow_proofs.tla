----------------------- MODULE OrderWorkflow_proofs -----------------------
(***************************************************************************)
(* Theorems about OrderWorkflow for every value of its constants.          *)
(***************************************************************************)
EXTENDS OrderWorkflow, TLAPS

ConstantFacts == RidersAssumption /\ CallsAssumption /\ AttemptsAssumption

-----------------------------------------------------------------------------
(* Type correctness needs to know that a retry is below the maximum. *)

TypeInv == TypeOK /\ RetryBelowMax

CallsTyped == call \in [Calls -> [pc : Pcs, read : Reads]] /\ RetryBelowMax

\* A fresh activation is well typed.
LEMMA NothingReadType == NothingRead \in Reads /\ NothingRead.n = 0
BY AttemptsAssumption DEF NothingRead, Reads, Modes, PayStatuses

\* The calls a handler can be at, spelled out.
LEMMA PcsMembers ==
  Pcs = {"idle", "accept", "acceptCAS", "codSave", "onlineSave", "createLink",
         "proceed", "capFinance", "capSeller", "capSearch", "capSave",
         "capProceed", "retry", "giveUp", "compRead", "compRelease", "compSave",
         "adminRestock", "adminSave"}
BY DEF Pcs, AcceptPcs, ChoicePcs, CapturePcs, TimeoutPcs, CompPcs, AdminPcs

\* A slot that moves on, and one that ends, holds a well-typed activation.
LEMMA GotoType ==
  ASSUME TypeInv, NEW c \in Calls, NEW pc \in Pcs, NEW read \in Reads,
         Goto(c, pc, read), pc = "retry" => read.n < MaxAttempts
  PROVE  CallsTyped'
BY DEF TypeInv, TypeOK, RetryBelowMax, Goto, CallsTyped

\* The same when the handler ends.
LEMMA FinishType ==
  ASSUME TypeInv, NEW c \in Calls, Finish(c)
  PROVE  CallsTyped'
BY NothingReadType DEF TypeInv, TypeOK, RetryBelowMax, Finish, Idle, Pcs, CallsTyped

\* What a handler reads from a well-typed order is well typed.
LEMMA LoadedType ==
  ASSUME TypeInv, NEW auto \in BOOLEAN
  PROVE  Loaded(auto) \in Reads
BY AttemptsAssumption DEF TypeInv, TypeOK, Loaded, Reads

\* What the handlers make of what they have read is well typed too.
LEMMA EditedReads ==
  ASSUME NEW read \in Reads
  PROVE  /\ \A m \in Modes : [read EXCEPT !.mode = m] \in Reads
         /\ [read EXCEPT !.auto = TRUE] \in Reads
         /\ \A n \in 0 .. MaxAttempts :
              [read EXCEPT !.n = n] \in Reads /\ [read EXCEPT !.n = n].n = n
BY DEF Reads

\* Checkout creates a well-typed order.
LEMMA InitType == Init => TypeInv
<1> SUFFICES ASSUME Init PROVE TypeInv
  OBVIOUS
<1>1. Idle \in [pc : Pcs, read : Reads] /\ Idle.pc = "idle"
  BY NothingReadType DEF Idle, Pcs
<1>2. mode \in Modes /\ pay \in PayStatuses /\ status \in Statuses
  BY ModesAssumption DEF Init, PlacedPay, Modes, PayStatuses, Statuses
<1>3. call = [c \in Calls |-> Idle]
  BY DEF Init
<1>4. call \in [Calls -> [pc : Pcs, read : Reads]] /\ RetryBelowMax
  BY <1>1, <1>3 DEF RetryBelowMax
<1>5. response \in {"NONE", "PENDING"} /\ link \in Links
  BY DEF Init, Links
<1>6. /\ sellerDue \in BOOLEAN /\ captured \in BOOLEAN /\ city \in BOOLEAN
      /\ provider = "none" /\ rider = NoRider /\ skipped = {} /\ search = "unset"
      /\ stock = "HELD" /\ released = 0
      /\ attempt = 0 /\ admins = 0 /\ crashes = 0
  BY DEF Init
<1> QED
  BY <1>2, <1>4, <1>5, <1>6, AttemptsAssumption, BoundsAssumption
     DEF TypeInv, TypeOK

\* Every handler step, timeout and crash keeps the types.
LEMMA TypeStep == TypeInv /\ [Next]_vars => TypeInv'
<1> SUFFICES ASSUME TypeInv, [Next]_vars PROVE TypeInv'
  OBVIOUS
<1> USE BoundsAssumption, AttemptsAssumption
    DEF TypeInv, orderVars, riderVars, stockVars, bounds
<1>1. CASE SellerDeadlinePasses
  BY <1>1 DEF SellerDeadlinePasses, TypeOK, RetryBelowMax, Statuses, Links,
     PayStatuses
<1>2. CASE SearchWindowPasses
  BY <1>2 DEF SearchWindowPasses, TypeOK, RetryBelowMax, Statuses, Links,
     PayStatuses
<1>3. CASE CustomerPays
  BY <1>3 DEF CustomerPays, TypeOK, RetryBelowMax, Statuses, Links, PayStatuses
<1>4. CASE LinkCloses
  BY <1>4 DEF LinkCloses, TypeOK, RetryBelowMax, Statuses, Links, PayStatuses
<1>5. ASSUME NEW r \in Riders, DeliveryAccept(r) PROVE TypeInv'
  BY <1>5 DEF DeliveryAccept, RiderMoves, TypeOK, RetryBelowMax, Statuses
<1>6. ASSUME NEW r \in Riders, SkipOrder(r) PROVE TypeInv'
  BY <1>6 DEF SkipOrder, RiderMoves, TypeOK, RetryBelowMax, Statuses
<1>7. ASSUME NEW r \in Riders, MarkArrivedAtStore(r) PROVE TypeInv'
  BY <1>7 DEF MarkArrivedAtStore, RiderMoves, TypeOK, RetryBelowMax, Statuses
<1>8. ASSUME NEW r \in Riders, ConfirmPickup(r) PROVE TypeInv'
  BY <1>8 DEF ConfirmPickup, RiderMoves, TypeOK, RetryBelowMax, Statuses
<1>9. ASSUME NEW r \in Riders, CompleteDelivery(r) PROVE TypeInv'
  BY <1>9 DEF CompleteDelivery, RiderMoves, TypeOK, RetryBelowMax, Statuses
<1>10. ASSUME NEW r \in Riders, AdminAssign(r) PROVE TypeInv'
  BY <1>10 DEF AdminAssign, RiderMoves, TypeOK, RetryBelowMax, Statuses
<1>11. ASSUME NEW c \in Calls, SellerAccept(c) PROVE TypeInv'
  <2>1. CallsTyped'
    BY <1>11, GotoType, FinishType, NothingReadType, LoadedType,
       PcsMembers DEF SellerAccept, At
  <2> QED
    BY <1>11, <2>1 DEF SellerAccept, EnterSearch, TypeOK, CallsTyped,
       RetryBelowMax, Statuses, Modes, PayStatuses, Links, Reads
<1>12. ASSUME NEW c \in Calls, SellerTimeout(c) PROVE TypeInv'
  <2>1. CallsTyped'
    BY <1>12, GotoType, NothingReadType, EditedReads, PcsMembers DEF SellerTimeout
  <2> QED
    BY <1>12, <2>1 DEF SellerTimeout, TypeOK, CallsTyped, Modes, PayStatuses
<1>13. ASSUME NEW c \in Calls, AcceptRead(c) PROVE TypeInv'
  <2>1. CallsTyped'
    <3>1. call[c].read.auto \in BOOLEAN
      BY DEF TypeOK, Reads
    <3>2. Loaded(call[c].read.auto) \in Reads
      BY <3>1, LoadedType
    <3> QED
      BY <1>13, <3>2, GotoType, FinishType, PcsMembers DEF AcceptRead
  <2> QED
    BY <1>13, <2>1 DEF AcceptRead, TypeOK, CallsTyped, Modes, PayStatuses
<1>14. ASSUME NEW c \in Calls, AcceptCAS(c) PROVE TypeInv'
  <2>1. CallsTyped'
    BY <1>14, GotoType, FinishType, NothingReadType, LoadedType,
       PcsMembers DEF AcceptCAS, At
  <2> QED
    BY <1>14, <2>1 DEF AcceptCAS, EnterSearch, TypeOK, CallsTyped, RetryBelowMax,
       Statuses, Modes, PayStatuses, Links, Reads
<1>15. ASSUME NEW c \in Calls, SellerReject(c) PROVE TypeInv'
  <2>1. CallsTyped'
    BY <1>15, GotoType, FinishType, NothingReadType, LoadedType,
       PcsMembers DEF SellerReject, At
  <2> QED
    BY <1>15, <2>1 DEF SellerReject, EnterSearch, TypeOK, CallsTyped,
       RetryBelowMax, Statuses, Modes, PayStatuses, Links, Reads
<1>16. ASSUME NEW c \in Calls, CustomerCancel(c) PROVE TypeInv'
  <2>1. CallsTyped'
    BY <1>16, GotoType, FinishType, NothingReadType, LoadedType,
       PcsMembers DEF CustomerCancel, At
  <2> QED
    BY <1>16, <2>1 DEF CustomerCancel, EnterSearch, TypeOK, CallsTyped,
       RetryBelowMax, Statuses, Modes, PayStatuses, Links, Reads
<1>17. ASSUME NEW c \in Calls, CreatePayment(c) PROVE TypeInv'
  <2>1. CallsTyped'
    BY <1>17, GotoType, FinishType, NothingReadType, LoadedType,
       PcsMembers DEF CreatePayment, At
  <2> QED
    BY <1>17, <2>1 DEF CreatePayment, EnterSearch, TypeOK, CallsTyped,
       RetryBelowMax, Statuses, Modes, PayStatuses, Links, Reads
<1>18. ASSUME NEW c \in Calls, ReservationTimeout(c) PROVE TypeInv'
  <2>1. CallsTyped'
    BY <1>18, GotoType, FinishType, NothingReadType, LoadedType,
       PcsMembers DEF ReservationTimeout, At
  <2> QED
    BY <1>18, <2>1 DEF ReservationTimeout, EnterSearch, TypeOK, CallsTyped,
       RetryBelowMax, Statuses, Modes, PayStatuses, Links, Reads
<1>19. ASSUME NEW c \in Calls, CaptureStart(c) PROVE TypeInv'
  <2>1. CallsTyped'
    BY <1>19, GotoType, FinishType, NothingReadType, LoadedType,
       PcsMembers DEF CaptureStart, At
  <2> QED
    BY <1>19, <2>1 DEF CaptureStart, EnterSearch, TypeOK, CallsTyped,
       RetryBelowMax, Statuses, Modes, PayStatuses, Links, Reads
<1>20. ASSUME NEW c \in Calls, CaptureFinance(c) PROVE TypeInv'
  <2>1. CallsTyped'
    BY <1>20, GotoType, FinishType, NothingReadType, LoadedType,
       PcsMembers DEF CaptureFinance, At
  <2>2. captured' \in BOOLEAN /\ pay' \in PayStatuses /\ mode' \in Modes
    BY <1>20 DEF CaptureFinance, TypeOK, PayStatuses, Modes
  <2> QED
    BY <1>20, <2>1, <2>2 DEF CaptureFinance, TypeOK, CallsTyped
<1>21. ASSUME NEW c \in Calls, CaptureToSeller(c) PROVE TypeInv'
  <2>1. CallsTyped'
    BY <1>21, GotoType, FinishType, NothingReadType, LoadedType,
       PcsMembers DEF CaptureToSeller, At
  <2>2. status' \in Statuses /\ sellerDue' \in BOOLEAN
    BY <1>21 DEF CaptureToSeller, TypeOK, Statuses
  <2>3. response' \in {"NONE", "PENDING", "ACCEPTED", "AUTO_ACCEPTED", "REJECTED"}
    BY <1>21 DEF CaptureToSeller, TypeOK
  <2> QED
    BY <1>21, <2>1, <2>2, <2>3 DEF CaptureToSeller, TypeOK, CallsTyped
<1>22. ASSUME NEW c \in Calls, CaptureToSearch(c) PROVE TypeInv'
  <2>1. CallsTyped'
    BY <1>22, GotoType, FinishType, NothingReadType, LoadedType,
       PcsMembers DEF CaptureToSearch, At
  <2>2. link' \in Links
    BY <1>22 DEF CaptureToSearch, TypeOK, Links
  <2> QED
    BY <1>22, <2>1, <2>2 DEF CaptureToSearch, TypeOK, CallsTyped
<1>23. ASSUME NEW c \in Calls, CaptureSave(c) PROVE TypeInv'
  <2>1. CallsTyped'
    <3>1. [call[c].read EXCEPT !.mode = "ONLINE"] \in Reads
      BY EditedReads DEF TypeOK, Modes
    <3> QED
      BY <1>23, <3>1, GotoType, PcsMembers DEF CaptureSave
  <2> QED
    BY <1>23, <2>1 DEF CaptureSave, TypeOK, CallsTyped, Modes, PayStatuses
<1>24. ASSUME NEW c \in Calls, SelectPaymentMethod(c) PROVE TypeInv'
  <2>1. CallsTyped'
    BY <1>24, GotoType, FinishType, NothingReadType, LoadedType,
       PcsMembers DEF SelectPaymentMethod, At
  <2> QED
    BY <1>24, <2>1 DEF SelectPaymentMethod, EnterSearch, TypeOK, CallsTyped,
       RetryBelowMax, Statuses, Modes, PayStatuses, Links, Reads
<1>25. ASSUME NEW c \in Calls, CodSave(c) PROVE TypeInv'
  <2>1. CallsTyped'
    <3>1. [call[c].read EXCEPT !.mode = "COD"] \in Reads
      BY EditedReads DEF TypeOK, Modes
    <3> QED
      BY <1>25, <3>1, GotoType, PcsMembers DEF CodSave
  <2> QED
    BY <1>25, <2>1 DEF CodSave, TypeOK, CallsTyped, Modes, PayStatuses
<1>26. ASSUME NEW c \in Calls, OnlineSave(c) PROVE TypeInv'
  <2>1. CallsTyped'
    BY <1>26, GotoType, FinishType, NothingReadType, LoadedType,
       PcsMembers DEF OnlineSave, At
  <2> QED
    BY <1>26, <2>1 DEF OnlineSave, EnterSearch, TypeOK, CallsTyped, RetryBelowMax,
       Statuses, Modes, PayStatuses, Links, Reads
<1>27. ASSUME NEW c \in Calls, Proceed(c) PROVE TypeInv'
  <2>1. CallsTyped'
    BY <1>27, GotoType, FinishType, NothingReadType, LoadedType,
       PcsMembers DEF Proceed, At
  <2> QED
    BY <1>27, <2>1 DEF Proceed, EnterSearch, TypeOK, CallsTyped, RetryBelowMax,
       Statuses, Modes, PayStatuses, Links, Reads
<1>28. ASSUME NEW c \in Calls, DeliveryTimeout(c) PROVE TypeInv'
  <2> DEFINE current == IF attempt = 0 THEN 1 ELSE attempt
             read == [NothingRead EXCEPT !.n = current]
  <2>1. current \in 0 .. MaxAttempts
    BY DEF TypeOK
  <2>2. read \in Reads /\ read.n = current
    BY <2>1, NothingReadType, EditedReads
  <2>3. CallsTyped'
    <3>1. CASE current < MaxAttempts
      BY <1>28, <2>2, <3>1, GotoType, PcsMembers DEF DeliveryTimeout
    <3>2. CASE ~(current < MaxAttempts)
      BY <1>28, <2>2, <3>2, GotoType, PcsMembers DEF DeliveryTimeout
    <3> QED
      BY <3>1, <3>2
  <2> QED
    BY <1>28, <2>3 DEF DeliveryTimeout, TypeOK, CallsTyped
<1>29. ASSUME NEW c \in Calls, SearchRetry(c) PROVE TypeInv'
  <2>1. CallsTyped'
    BY <1>29, GotoType, FinishType, NothingReadType, LoadedType,
       PcsMembers DEF SearchRetry, At
  <2>2. attempt' \in 0 .. MaxAttempts
    BY <1>29 DEF SearchRetry, At, TypeOK, RetryBelowMax, Reads
  <2> QED
    BY <1>29, <2>1, <2>2 DEF SearchRetry, TypeOK, CallsTyped
<1>30. ASSUME NEW c \in Calls, SearchGiveUp(c) PROVE TypeInv'
  <2>1. CallsTyped'
    BY <1>30, GotoType, FinishType, NothingReadType, LoadedType,
       PcsMembers DEF SearchGiveUp, At
  <2> QED
    BY <1>30, <2>1 DEF SearchGiveUp, EnterSearch, TypeOK, CallsTyped,
       RetryBelowMax, Statuses, Modes, PayStatuses, Links, Reads
<1>31. ASSUME NEW c \in Calls, CompRead(c) PROVE TypeInv'
  <2>1. CallsTyped'
    BY <1>31, GotoType, FinishType, NothingReadType, LoadedType,
       PcsMembers DEF CompRead, At
  <2> QED
    BY <1>31, <2>1 DEF CompRead, EnterSearch, TypeOK, CallsTyped, RetryBelowMax,
       Statuses, Modes, PayStatuses, Links, Reads
<1>32. ASSUME NEW c \in Calls, CompRelease(c) PROVE TypeInv'
  <2>1. CallsTyped'
    BY <1>32, GotoType, FinishType, NothingReadType, LoadedType,
       PcsMembers DEF CompRelease, At
  <2> QED
    BY <1>32, <2>1 DEF CompRelease, EnterSearch, TypeOK, CallsTyped, RetryBelowMax,
       Statuses, Modes, PayStatuses, Links, Reads
<1>33. ASSUME NEW c \in Calls, CompSave(c) PROVE TypeInv'
  <2>1. CallsTyped'
    BY <1>33, GotoType, FinishType, NothingReadType, LoadedType,
       PcsMembers DEF CompSave, At
  <2> QED
    BY <1>33, <2>1 DEF CompSave, EnterSearch, TypeOK, CallsTyped, RetryBelowMax,
       Statuses, Modes, PayStatuses, Links, Reads
<1>34. ASSUME NEW c \in Calls, AdminCancel(c) PROVE TypeInv'
  <2>1. CallsTyped'
    BY <1>34, GotoType, FinishType, NothingReadType, LoadedType,
       PcsMembers DEF AdminCancel, At
  <2> QED
    BY <1>34, <2>1 DEF AdminCancel, EnterSearch, TypeOK, CallsTyped, RetryBelowMax,
       Statuses, Modes, PayStatuses, Links, Reads
<1>35. ASSUME NEW c \in Calls, AdminRestock(c) PROVE TypeInv'
  <2>1. CallsTyped'
    BY <1>35, GotoType, FinishType, NothingReadType, LoadedType,
       PcsMembers DEF AdminRestock, At
  <2> QED
    BY <1>35, <2>1 DEF AdminRestock, EnterSearch, TypeOK, CallsTyped,
       RetryBelowMax, Statuses, Modes, PayStatuses, Links, Reads
<1>36. ASSUME NEW c \in Calls, AdminSave(c) PROVE TypeInv'
  <2>1. CallsTyped'
    BY <1>36, GotoType, FinishType, NothingReadType, LoadedType,
       PcsMembers DEF AdminSave, At
  <2> QED
    BY <1>36, <2>1 DEF AdminSave, EnterSearch, TypeOK, CallsTyped, RetryBelowMax,
       Statuses, Modes, PayStatuses, Links, Reads
<1>37. ASSUME NEW c \in Calls, Crash(c) PROVE TypeInv'
  <2>1. CallsTyped'
    BY <1>37, GotoType, FinishType, NothingReadType, LoadedType,
       PcsMembers DEF Crash, At
  <2> QED
    BY <1>37, <2>1 DEF Crash, EnterSearch, TypeOK, CallsTyped, RetryBelowMax,
       Statuses, Modes, PayStatuses, Links, Reads
<1>38. CASE UNCHANGED vars
  BY <1>38 DEF vars, TypeOK, RetryBelowMax
<1> QED
  BY <1>1, <1>2, <1>3, <1>4, <1>5, <1>6, <1>7, <1>8, <1>9, <1>10, <1>11, <1>12,
     <1>13, <1>14, <1>15, <1>16, <1>17, <1>18, <1>19, <1>20, <1>21, <1>22, <1>23,
     <1>24, <1>25, <1>26, <1>27, <1>28, <1>29, <1>30, <1>31, <1>32, <1>33, <1>34,
     <1>35, <1>36, <1>37, <1>38
     DEF Next, Environment, Request, Timeout, Continue, RiderStep






\* Every field keeps its type, whatever the handlers interleave (the search
\* attempts never exceed DELIVERY_SEARCH_MAX_ATTEMPTS).
THEOREM TypeCorrect == Spec => []TypeOK
<1>1. Init => TypeInv
  BY InitType
<1>2. TypeInv /\ [Next]_vars => TypeInv'
  BY TypeStep
<1>3. TypeInv => TypeOK
  BY DEF TypeInv
<1> QED
  BY <1>1, <1>2, <1>3, PTL DEF Spec

-----------------------------------------------------------------------------
(***************************************************************************)
(* The order whose payment method is chosen at checkout and that no        *)
(* administrator edits.                                                    *)
(***************************************************************************)
MethodAtCheckout == Placements \subseteq {"COD", "ONLINE"} /\ MaxAdmin = 0

OrderInv == TypeInv /\ NoPaymentWait /\ RiderMatchesStatus /\ OneCompensation

\* An order placed with its payment method satisfies the invariant.
LEMMA InitOrderInv == MethodAtCheckout /\ Init => OrderInv
<1> SUFFICES ASSUME MethodAtCheckout, Init PROVE OrderInv
  OBVIOUS
<1>1. mode \in {"COD", "ONLINE"} /\ status \in {"CREATED", "SELLER_PENDING"}
  BY DEF Init, MethodAtCheckout
<1>2. pay # "AWAITING_PAYMENT_METHOD"
  BY <1>1 DEF Init, PlacedPay
<1>3. /\ call = [c \in Calls |-> Idle] /\ rider = NoRider /\ admins = 0
      /\ stock = "HELD" /\ released = 0
  BY DEF Init
<1>4. \A c \in Calls : call[c].pc = "idle"
  BY <1>3 DEF Idle
<1>5. NoPaymentWait
  BY <1>1, <1>2, <1>3, <1>4 DEF NoPaymentWait, ChoicePcs, AdminPcs
<1>6. OneCompensation
  BY <1>3, <1>4 DEF OneCompensation, CompPcs
<1> QED
  BY <1>1, <1>3, <1>5, <1>6, InitType DEF OrderInv, RiderMatchesStatus

\* No step makes such an order wait for a payment method.
LEMMA NoPaymentWaitStep ==
  ASSUME MethodAtCheckout, TypeInv, NoPaymentWait, [Next]_vars
  PROVE  NoPaymentWait'
<1> USE DEF MethodAtCheckout, TypeInv, TypeOK, NoPaymentWait, ChoicePcs, AdminPcs,
orderVars, riderVars, stockVars, bounds
<1>1. CASE SellerDeadlinePasses
  BY <1>1 DEF SellerDeadlinePasses
<1>2. CASE SearchWindowPasses
  BY <1>2 DEF SearchWindowPasses
<1>3. CASE CustomerPays
  BY <1>3 DEF CustomerPays
<1>4. CASE LinkCloses
  BY <1>4 DEF LinkCloses, Unpaid
<1>5. ASSUME NEW r \in Riders, DeliveryAccept(r) PROVE NoPaymentWait'
  BY <1>5, RidersAssumption DEF DeliveryAccept, RiderMoves
<1>6. ASSUME NEW r \in Riders, SkipOrder(r) PROVE NoPaymentWait'
  BY <1>6, RidersAssumption DEF SkipOrder, RiderMoves
<1>7. ASSUME NEW r \in Riders, MarkArrivedAtStore(r) PROVE NoPaymentWait'
  BY <1>7, RidersAssumption DEF MarkArrivedAtStore, RiderMoves
<1>8. ASSUME NEW r \in Riders, ConfirmPickup(r) PROVE NoPaymentWait'
  BY <1>8, RidersAssumption DEF ConfirmPickup, RiderMoves
<1>9. ASSUME NEW r \in Riders, CompleteDelivery(r) PROVE NoPaymentWait'
  BY <1>9, RidersAssumption DEF CompleteDelivery, RiderMoves
<1>10. ASSUME NEW r \in Riders, AdminAssign(r) PROVE NoPaymentWait'
  BY <1>10, RidersAssumption DEF AdminAssign, RiderMoves
<1>11. ASSUME NEW c \in Calls, SellerAccept(c) PROVE NoPaymentWait'
  BY <1>11 DEF SellerAccept, At, FreeSlot, Goto, Finish, Idle, NothingRead, Loaded,
     EnterSearch, PaymentPending, CompPcs, TimeoutPcs
<1>12. ASSUME NEW c \in Calls, SellerTimeout(c) PROVE NoPaymentWait'
  BY <1>12 DEF SellerTimeout, At, FreeSlot, Goto, Finish, Idle, NothingRead,
     Loaded, EnterSearch, PaymentPending, CompPcs, TimeoutPcs
<1>13. ASSUME NEW c \in Calls, AcceptRead(c) PROVE NoPaymentWait'
  BY <1>13 DEF AcceptRead, At, FreeSlot, Goto, Finish, Idle, NothingRead, Loaded,
     EnterSearch, PaymentPending, CompPcs, TimeoutPcs
<1>14. ASSUME NEW c \in Calls, AcceptCAS(c) PROVE NoPaymentWait'
  BY <1>14 DEF AcceptCAS, At, FreeSlot, Goto, Finish, Idle, NothingRead, Loaded,
     EnterSearch, PaymentPending, CompPcs, TimeoutPcs
<1>15. ASSUME NEW c \in Calls, SellerReject(c) PROVE NoPaymentWait'
  BY <1>15 DEF SellerReject, At, FreeSlot, Goto, Finish, Idle, NothingRead, Loaded,
     EnterSearch, PaymentPending, CompPcs, TimeoutPcs
<1>16. ASSUME NEW c \in Calls, CustomerCancel(c) PROVE NoPaymentWait'
  BY <1>16 DEF CustomerCancel, At, FreeSlot, Goto, Finish, Idle, NothingRead,
     Loaded, EnterSearch, PaymentPending, CompPcs, TimeoutPcs
<1>17. ASSUME NEW c \in Calls, CreatePayment(c) PROVE NoPaymentWait'
  BY <1>17 DEF CreatePayment, At, FreeSlot, Goto, Finish, Idle, NothingRead,
     Loaded, EnterSearch, PaymentPending, CompPcs, TimeoutPcs
<1>18. ASSUME NEW c \in Calls, ReservationTimeout(c) PROVE NoPaymentWait'
  BY <1>18 DEF ReservationTimeout, At, FreeSlot, Goto, Finish, Idle, NothingRead,
     Loaded, EnterSearch, PaymentPending, CompPcs, TimeoutPcs
<1>19. ASSUME NEW c \in Calls, CaptureStart(c) PROVE NoPaymentWait'
  BY <1>19 DEF CaptureStart, At, FreeSlot, Goto, Finish, Idle, NothingRead, Loaded,
     EnterSearch, PaymentPending, CompPcs, TimeoutPcs
<1>20. ASSUME NEW c \in Calls, CaptureFinance(c) PROVE NoPaymentWait'
  BY <1>20 DEF CaptureFinance, At, FreeSlot, Goto, Finish, Idle, NothingRead,
     Loaded, EnterSearch, PaymentPending, CompPcs, TimeoutPcs
<1>21. ASSUME NEW c \in Calls, CaptureToSeller(c) PROVE NoPaymentWait'
  BY <1>21 DEF CaptureToSeller, At, FreeSlot, Goto, Finish, Idle, NothingRead,
     Loaded, EnterSearch, PaymentPending, CompPcs, TimeoutPcs
<1>22. ASSUME NEW c \in Calls, CaptureToSearch(c) PROVE NoPaymentWait'
  BY <1>22 DEF CaptureToSearch, At, FreeSlot, Goto, Finish, Idle, NothingRead,
     Loaded, EnterSearch, PaymentPending, CompPcs, TimeoutPcs
<1>23. ASSUME NEW c \in Calls, CaptureSave(c) PROVE NoPaymentWait'
  BY <1>23 DEF CaptureSave, At, FreeSlot, Goto, Finish, Idle, NothingRead, Loaded,
     EnterSearch, PaymentPending, CompPcs, TimeoutPcs
<1>24. ASSUME NEW c \in Calls, SelectPaymentMethod(c) PROVE NoPaymentWait'
  BY <1>24 DEF SelectPaymentMethod, At, FreeSlot, Goto, Finish, Idle, NothingRead,
     Loaded, EnterSearch, PaymentPending, CompPcs, TimeoutPcs
<1>25. ASSUME NEW c \in Calls, CodSave(c) PROVE NoPaymentWait'
  BY <1>25 DEF CodSave, At, FreeSlot, Goto, Finish, Idle, NothingRead, Loaded,
     EnterSearch, PaymentPending, CompPcs, TimeoutPcs
<1>26. ASSUME NEW c \in Calls, OnlineSave(c) PROVE NoPaymentWait'
  BY <1>26 DEF OnlineSave, At, FreeSlot, Goto, Finish, Idle, NothingRead, Loaded,
     EnterSearch, PaymentPending, CompPcs, TimeoutPcs
<1>27. ASSUME NEW c \in Calls, Proceed(c) PROVE NoPaymentWait'
  BY <1>27 DEF Proceed, At, FreeSlot, Goto, Finish, Idle, NothingRead, Loaded,
     EnterSearch, PaymentPending, CompPcs, TimeoutPcs
<1>28. ASSUME NEW c \in Calls, DeliveryTimeout(c) PROVE NoPaymentWait'
  BY <1>28 DEF DeliveryTimeout, At, FreeSlot, Goto, Finish, Idle, NothingRead,
     Loaded, EnterSearch, PaymentPending, CompPcs, TimeoutPcs
<1>29. ASSUME NEW c \in Calls, SearchRetry(c) PROVE NoPaymentWait'
  BY <1>29 DEF SearchRetry, At, FreeSlot, Goto, Finish, Idle, NothingRead, Loaded,
     EnterSearch, PaymentPending, CompPcs, TimeoutPcs
<1>30. ASSUME NEW c \in Calls, SearchGiveUp(c) PROVE NoPaymentWait'
  BY <1>30 DEF SearchGiveUp, At, FreeSlot, Goto, Finish, Idle, NothingRead, Loaded,
     EnterSearch, PaymentPending, CompPcs, TimeoutPcs
<1>31. ASSUME NEW c \in Calls, CompRead(c) PROVE NoPaymentWait'
  BY <1>31 DEF CompRead, At, FreeSlot, Goto, Finish, Idle, NothingRead, Loaded,
     EnterSearch, PaymentPending, CompPcs, TimeoutPcs
<1>32. ASSUME NEW c \in Calls, CompRelease(c) PROVE NoPaymentWait'
  BY <1>32 DEF CompRelease, At, FreeSlot, Goto, Finish, Idle, NothingRead, Loaded,
     EnterSearch, PaymentPending, CompPcs, TimeoutPcs
<1>33. ASSUME NEW c \in Calls, CompSave(c) PROVE NoPaymentWait'
  BY <1>33 DEF CompSave, At, FreeSlot, Goto, Finish, Idle, NothingRead, Loaded,
     EnterSearch, PaymentPending, CompPcs, TimeoutPcs
<1>34. ASSUME NEW c \in Calls, AdminCancel(c) PROVE NoPaymentWait'
  BY <1>34 DEF AdminCancel, At, FreeSlot, Goto, Finish, Idle, NothingRead, Loaded,
     EnterSearch, PaymentPending, CompPcs, TimeoutPcs
<1>35. ASSUME NEW c \in Calls, AdminRestock(c) PROVE NoPaymentWait'
  BY <1>35 DEF AdminRestock, At, FreeSlot, Goto, Finish, Idle, NothingRead, Loaded,
     EnterSearch, PaymentPending, CompPcs, TimeoutPcs
<1>36. ASSUME NEW c \in Calls, AdminSave(c) PROVE NoPaymentWait'
  BY <1>36 DEF AdminSave, At, FreeSlot, Goto, Finish, Idle, NothingRead, Loaded,
     EnterSearch, PaymentPending, CompPcs, TimeoutPcs
<1>37. ASSUME NEW c \in Calls, Crash(c) PROVE NoPaymentWait'
  BY <1>37 DEF Crash, At, FreeSlot, Goto, Finish, Idle, NothingRead, Loaded,
     EnterSearch, PaymentPending, CompPcs, TimeoutPcs
<1>38. CASE UNCHANGED vars
  BY <1>38 DEF vars
<1> QED
  BY <1>1, <1>2, <1>3, <1>4, <1>5, <1>6, <1>7, <1>8, <1>9, <1>10, <1>11, <1>12,
     <1>13, <1>14, <1>15, <1>16, <1>17, <1>18, <1>19, <1>20, <1>21, <1>22, <1>23,
     <1>24, <1>25, <1>26, <1>27, <1>28, <1>29, <1>30, <1>31, <1>32, <1>33, <1>34,
     <1>35, <1>36, <1>37, <1>38
     DEF Next, Environment, Request, Timeout, Continue, RiderStep

\* No step separates the partner from the status that goes with it.
LEMMA RiderStepKept ==
  ASSUME MethodAtCheckout, NoPaymentWait, RiderMatchesStatus, [Next]_vars
  PROVE  RiderMatchesStatus'
<1> USE DEF MethodAtCheckout, NoPaymentWait, RiderMatchesStatus, ChoicePcs,
AdminPcs, orderVars, riderVars, stockVars, bounds
<1>1. CASE LinkCloses
  BY <1>1 DEF LinkCloses, Unpaid
<1>2. ASSUME NEW r \in Riders, DeliveryAccept(r) PROVE RiderMatchesStatus'
  BY <1>2, RidersAssumption DEF DeliveryAccept
<1>3. ASSUME NEW r \in Riders, MarkArrivedAtStore(r) PROVE RiderMatchesStatus'
  BY <1>3 DEF MarkArrivedAtStore, RiderMoves
<1>4. ASSUME NEW r \in Riders, ConfirmPickup(r) PROVE RiderMatchesStatus'
  BY <1>4 DEF ConfirmPickup, RiderMoves
<1>5. ASSUME NEW r \in Riders, CompleteDelivery(r) PROVE RiderMatchesStatus'
  BY <1>5 DEF CompleteDelivery, RiderMoves
<1>6. ASSUME NEW r \in Riders, AdminAssign(r) PROVE RiderMatchesStatus'
  BY <1>6 DEF AdminAssign
<1>7. ASSUME NEW c \in Calls, AcceptCAS(c) PROVE RiderMatchesStatus'
  BY <1>7 DEF AcceptCAS, AwaitingSeller, EnterSearch, PaymentPending
<1>8. ASSUME NEW c \in Calls, SellerReject(c) PROVE RiderMatchesStatus'
  BY <1>8 DEF SellerReject, AwaitingSeller
<1>9. ASSUME NEW c \in Calls, CustomerCancel(c) PROVE RiderMatchesStatus'
  BY <1>9 DEF CustomerCancel
<1>10. ASSUME NEW c \in Calls, ReservationTimeout(c) PROVE RiderMatchesStatus'
  BY <1>10 DEF ReservationTimeout, Unpaid
<1>11. ASSUME NEW c \in Calls, CaptureToSeller(c) PROVE RiderMatchesStatus'
  BY <1>11 DEF CaptureToSeller
<1>12. ASSUME NEW c \in Calls, Proceed(c) PROVE RiderMatchesStatus'
  BY <1>12 DEF Proceed, At
<1>13. ASSUME NEW c \in Calls, SearchGiveUp(c) PROVE RiderMatchesStatus'
  BY <1>13 DEF SearchGiveUp
<1>14. ASSUME NEW c \in Calls, AdminSave(c) PROVE RiderMatchesStatus'
  BY <1>14 DEF AdminSave, At
<1>15. ASSUME  SellerDeadlinePasses \/ SearchWindowPasses \/ CustomerPays
     PROVE  RiderMatchesStatus'
  BY <1>15 DEF SellerDeadlinePasses, SearchWindowPasses, CustomerPays,
       orderVars, riderVars
<1>16. ASSUME NEW r \in Riders,
            SkipOrder(r)
     PROVE  RiderMatchesStatus'
  BY <1>16 DEF SkipOrder, orderVars, riderVars
<1>17. ASSUME NEW c \in Calls,
            SellerAccept(c) \/ SellerTimeout(c) \/ AcceptRead(c)
         \/ CreatePayment(c) \/ CaptureStart(c) \/ CaptureFinance(c)
         \/ CaptureToSearch(c) \/ CaptureSave(c) \/ SelectPaymentMethod(c)
         \/ CodSave(c) \/ OnlineSave(c) \/ DeliveryTimeout(c)
         \/ SearchRetry(c) \/ CompRead(c) \/ CompRelease(c) \/ CompSave(c)
         \/ AdminCancel(c) \/ AdminRestock(c) \/ Crash(c)
     PROVE  RiderMatchesStatus'
  BY <1>17 DEF SellerAccept, SellerTimeout, AcceptRead, CreatePayment,
       CaptureStart, CaptureFinance, CaptureToSearch, CaptureSave,
       SelectPaymentMethod, CodSave, OnlineSave, DeliveryTimeout,
       SearchRetry, CompRead, CompRelease, CompSave, AdminCancel,
       AdminRestock, Crash, orderVars, riderVars
<1>18. CASE UNCHANGED vars
  BY <1>18 DEF vars, orderVars, riderVars
<1> QED
  BY <1>1, <1>2, <1>3, <1>4, <1>5, <1>6, <1>7, <1>8, <1>9, <1>10, <1>11, <1>12, <1>13, <1>14, <1>15, <1>16, <1>17, <1>18
     DEF Next, Environment, Request, Timeout, Continue, RiderStep

\* Only a cancellation starts a compensation, so there is never a second one.
LEMMA OneCompensationStep ==
  ASSUME MethodAtCheckout, TypeInv, NoPaymentWait, OneCompensation, [Next]_vars
  PROVE  OneCompensation'
<1> USE DEF MethodAtCheckout, TypeInv, TypeOK, NoPaymentWait, OneCompensation,
ChoicePcs, AdminPcs, CompPcs, orderVars, riderVars, stockVars, bounds
<1>1. CASE LinkCloses
  BY <1>1 DEF LinkCloses, Unpaid
<1>2. ASSUME NEW c \in Calls, SellerAccept(c) PROVE OneCompensation'
  BY <1>2 DEF SellerAccept, Goto, Finish, Idle, At
<1>3. ASSUME NEW c \in Calls, SellerTimeout(c) PROVE OneCompensation'
  BY <1>3 DEF SellerTimeout, Goto, Finish, Idle, At
<1>4. ASSUME NEW c \in Calls, AcceptRead(c) PROVE OneCompensation'
  BY <1>4 DEF AcceptRead, Goto, Finish, Idle, At
<1>5. ASSUME NEW c \in Calls, AcceptCAS(c) PROVE OneCompensation'
  BY <1>5 DEF AcceptCAS, At, FreeSlot, Goto, Finish, Idle, AwaitingSeller, EnterSearch
<1>6. ASSUME NEW c \in Calls, SellerReject(c) PROVE OneCompensation'
  BY <1>6 DEF SellerReject, At, FreeSlot, Goto, Finish, Idle, AwaitingSeller
<1>7. ASSUME NEW c \in Calls, CustomerCancel(c) PROVE OneCompensation'
  BY <1>7 DEF CustomerCancel, At, FreeSlot, Goto, Finish, Idle
<1>8. ASSUME NEW c \in Calls, CreatePayment(c) PROVE OneCompensation'
  BY <1>8 DEF CreatePayment, Goto, Finish, Idle, At
<1>9. ASSUME NEW c \in Calls, ReservationTimeout(c) PROVE OneCompensation'
  BY <1>9 DEF ReservationTimeout, At, FreeSlot, Goto, Finish, Idle, Unpaid
<1>10. ASSUME NEW c \in Calls, CaptureStart(c) PROVE OneCompensation'
  BY <1>10 DEF CaptureStart, Goto, Finish, Idle, At
<1>11. ASSUME NEW c \in Calls, CaptureFinance(c) PROVE OneCompensation'
  BY <1>11 DEF CaptureFinance, Goto, Finish, Idle, At
<1>12. ASSUME NEW c \in Calls, CaptureToSeller(c) PROVE OneCompensation'
  BY <1>12 DEF CaptureToSeller, Goto, Finish, Idle, At
<1>13. ASSUME NEW c \in Calls, CaptureToSearch(c) PROVE OneCompensation'
  BY <1>13 DEF CaptureToSearch, Goto, Finish, Idle, At
<1>14. ASSUME NEW c \in Calls, CaptureSave(c) PROVE OneCompensation'
  BY <1>14 DEF CaptureSave, Goto, Finish, Idle, At
<1>15. ASSUME NEW c \in Calls, SelectPaymentMethod(c) PROVE OneCompensation'
  BY <1>15 DEF SelectPaymentMethod, Goto, Finish, Idle, At
<1>16. ASSUME NEW c \in Calls, CodSave(c) PROVE OneCompensation'
  BY <1>16 DEF CodSave, Goto, Finish, Idle, At
<1>17. ASSUME NEW c \in Calls, OnlineSave(c) PROVE OneCompensation'
  BY <1>17 DEF OnlineSave, Goto, Finish, Idle, At
<1>18. ASSUME NEW c \in Calls, Proceed(c) PROVE OneCompensation'
  BY <1>18 DEF Proceed, At
<1>19. ASSUME NEW c \in Calls, DeliveryTimeout(c) PROVE OneCompensation'
  BY <1>19 DEF DeliveryTimeout, Goto, Finish, Idle, At
<1>20. ASSUME NEW c \in Calls, SearchRetry(c) PROVE OneCompensation'
  BY <1>20 DEF SearchRetry, Goto, Finish, Idle, At
<1>21. ASSUME NEW c \in Calls, SearchGiveUp(c) PROVE OneCompensation'
  BY <1>21 DEF SearchGiveUp, Goto, Finish, Idle, At
<1>22. ASSUME NEW c \in Calls, CompRead(c) PROVE OneCompensation'
  BY <1>22 DEF CompRead, Goto, Finish, Idle, At
<1>23. ASSUME NEW c \in Calls, CompRelease(c) PROVE OneCompensation'
  BY <1>23 DEF CompRelease, Goto, Finish, Idle, At
<1>24. ASSUME NEW c \in Calls, CompSave(c) PROVE OneCompensation'
  BY <1>24 DEF CompSave, Goto, Finish, Idle, At
<1>25. ASSUME NEW c \in Calls, AdminCancel(c) PROVE OneCompensation'
  BY <1>25 DEF AdminCancel, Goto, Finish, Idle, At
<1>26. ASSUME NEW c \in Calls, AdminRestock(c) PROVE OneCompensation'
  BY <1>26 DEF AdminRestock, At
<1>27. ASSUME NEW c \in Calls, AdminSave(c) PROVE OneCompensation'
  BY <1>27 DEF AdminSave, At
<1>28. ASSUME NEW c \in Calls, Crash(c) PROVE OneCompensation'
  BY <1>28 DEF Crash, Goto, Finish, Idle, At
<1>29. ASSUME  SellerDeadlinePasses \/ SearchWindowPasses \/ CustomerPays
     PROVE  OneCompensation'
  BY <1>29 DEF SellerDeadlinePasses, SearchWindowPasses, CustomerPays,
       RiderMoves, At, FreeSlot, Goto, Finish, Idle, AwaitingSeller,
       TimeoutPcs
<1>30. ASSUME NEW r \in Riders,
            DeliveryAccept(r) \/ SkipOrder(r) \/ MarkArrivedAtStore(r)
         \/ ConfirmPickup(r) \/ CompleteDelivery(r) \/ AdminAssign(r)
     PROVE  OneCompensation'
  BY <1>30 DEF DeliveryAccept, SkipOrder, MarkArrivedAtStore, ConfirmPickup,
       CompleteDelivery, AdminAssign, RiderMoves,
       At, FreeSlot, Goto, Finish, Idle, AwaitingSeller, TimeoutPcs
<1>31. CASE UNCHANGED vars
  BY <1>31 DEF vars, orderVars, riderVars
<1> QED
  BY <1>1, <1>2, <1>3, <1>4, <1>5, <1>6, <1>7, <1>8, <1>9, <1>10, <1>11, <1>12, <1>13, <1>14, <1>15, <1>16, <1>17, <1>18, <1>19, <1>20, <1>21, <1>22, <1>23, <1>24, <1>25, <1>26, <1>27, <1>28, <1>29, <1>30, <1>31
     DEF Next, Environment, Request, Timeout, Continue, RiderStep

\* The invariant holds: nothing but the payment method's place and the missing
\* administrator is assumed.
THEOREM OrderInvariant == ASSUME MethodAtCheckout PROVE Spec => []OrderInv
<1>1. Init => OrderInv
  BY InitOrderInv
<1>2. OrderInv /\ [Next]_vars => OrderInv'
  BY TypeStep, NoPaymentWaitStep, RiderStepKept, OneCompensationStep DEF OrderInv
<1> QED
  BY <1>1, <1>2, PTL DEF Spec

\* A partner holds the order exactly from the assignment on.
THEOREM PartnerMatchesStatus ==
  ASSUME MethodAtCheckout PROVE Spec => []RiderMatchesStatus
<1>1. OrderInv => RiderMatchesStatus
  BY DEF OrderInv
<1> QED
  BY <1>1, OrderInvariant, PTL

\* Racing cancellations put the stock back at most once.
THEOREM StockReturnsOnce ==
  ASSUME MethodAtCheckout PROVE Spec => []StockReleasedAtMostOnce
<1>1. OrderInv => StockReleasedAtMostOnce
  BY DEF OrderInv, OneCompensation, StockReleasedAtMostOnce
<1> QED
  BY <1>1, OrderInvariant, PTL

\* No release runs ahead of the cancellation that justifies it.
THEOREM LiveOrderKeepsStock ==
  ASSUME MethodAtCheckout PROVE Spec => []LiveOrderHoldsStock
<1>1. OrderInv => LiveOrderHoldsStock
  BY DEF OrderInv, OneCompensation, LiveOrderHoldsStock
<1> QED
  BY <1>1, OrderInvariant, PTL

-----------------------------------------------------------------------------
(***************************************************************************)
(* The transition table and the seller's decision, for every payment mode  *)
(* and with an administrator.                                              *)
(***************************************************************************)
\* One step at a time: the table, the unpaid cancellation or an unguarded write.
LEMMA TableStep ==
  ASSUME TypeInv, [Next]_vars
  PROVE  \/ status' = status \/ CanTransition(status, status')
         \/ UnpaidCancellation \/ UnguardedWrite
<1> DEFINE Allowed == \/ status' = status \/ CanTransition(status, status')
                      \/ UnpaidCancellation \/ UnguardedWrite
<1> SUFFICES Allowed
  OBVIOUS
<1> USE DEF Table, CanTransition, UnpaidCancellation, UnguardedWrite, TypeInv,
TypeOK
<1>1. CASE LinkCloses
  BY <1>1 DEF LinkCloses, Unpaid, Statuses
<1>2. ASSUME NEW r \in Riders, DeliveryAccept(r) PROVE Allowed
  BY <1>2 DEF DeliveryAccept, Statuses
<1>3. ASSUME NEW r \in Riders, MarkArrivedAtStore(r) PROVE Allowed
  BY <1>3 DEF MarkArrivedAtStore, RiderMoves, Statuses
<1>4. ASSUME NEW r \in Riders, ConfirmPickup(r) PROVE Allowed
  BY <1>4 DEF ConfirmPickup, RiderMoves, Statuses
<1>5. ASSUME NEW r \in Riders, CompleteDelivery(r) PROVE Allowed
  BY <1>5 DEF CompleteDelivery, RiderMoves, Statuses
<1>6. ASSUME NEW c \in Calls, AcceptCAS(c) PROVE Allowed
  BY <1>6 DEF AcceptCAS, AwaitingSeller, EnterSearch, Statuses
<1>7. ASSUME NEW c \in Calls, SellerReject(c) PROVE Allowed
  BY <1>7 DEF SellerReject, AwaitingSeller, Statuses
<1>8. ASSUME NEW c \in Calls, CustomerCancel(c) PROVE Allowed
  BY <1>8 DEF CustomerCancel, Statuses
<1>9. ASSUME NEW c \in Calls, ReservationTimeout(c) PROVE Allowed
  BY <1>9 DEF ReservationTimeout, Unpaid, Statuses
<1>10. ASSUME NEW c \in Calls, CaptureToSeller(c) PROVE Allowed
  BY <1>10 DEF CaptureToSeller, Statuses
<1>11. ASSUME NEW c \in Calls, Proceed(c) PROVE Allowed
  BY <1>11 DEF Proceed, At, Finish, Idle
<1>12. ASSUME NEW c \in Calls, SearchGiveUp(c) PROVE Allowed
  BY <1>12 DEF SearchGiveUp, Statuses
<1>13. ASSUME NEW c \in Calls, AdminSave(c) PROVE Allowed
  BY <1>13 DEF AdminSave, At, Finish, Idle
<1>14. ASSUME  SellerDeadlinePasses \/ SearchWindowPasses \/ CustomerPays
     PROVE  Allowed
  BY <1>14 DEF SellerDeadlinePasses, SearchWindowPasses, CustomerPays,
       orderVars, riderVars
<1>15. ASSUME NEW r \in Riders,
            SkipOrder(r) \/ AdminAssign(r)
     PROVE  Allowed
  BY <1>15 DEF SkipOrder, AdminAssign, orderVars, riderVars
<1>16. ASSUME NEW c \in Calls,
            SellerAccept(c) \/ SellerTimeout(c) \/ AcceptRead(c)
         \/ CreatePayment(c) \/ CaptureStart(c) \/ CaptureFinance(c)
         \/ CaptureToSearch(c) \/ CaptureSave(c) \/ SelectPaymentMethod(c)
         \/ CodSave(c) \/ OnlineSave(c) \/ DeliveryTimeout(c)
         \/ SearchRetry(c) \/ CompRead(c) \/ CompRelease(c) \/ CompSave(c)
         \/ AdminCancel(c) \/ AdminRestock(c) \/ Crash(c)
     PROVE  Allowed
  BY <1>16 DEF SellerAccept, SellerTimeout, AcceptRead, CreatePayment,
       CaptureStart, CaptureFinance, CaptureToSearch, CaptureSave,
       SelectPaymentMethod, CodSave, OnlineSave, DeliveryTimeout,
       SearchRetry, CompRead, CompRelease, CompSave, AdminCancel,
       AdminRestock, Crash, orderVars, riderVars
<1>17. CASE UNCHANGED vars
  BY <1>17 DEF vars, orderVars, riderVars
<1> QED
  BY <1>1, <1>2, <1>3, <1>4, <1>5, <1>6, <1>7, <1>8, <1>9, <1>10, <1>11, <1>12,
     <1>13, <1>14, <1>15, <1>16, <1>17
     DEF Next, Environment, Request, Timeout, Continue, RiderStep

\* Whoever edits the order and however it is paid, a step outside the table is
\* an unpaid cancellation or comes from a write that does not look at the status.
THEOREM OnlyUnguardedWrites == Spec => OnlyUnguardedWritesLeaveTable
<1>1. Init => TypeInv
  BY InitType
<1>2. TypeInv /\ [Next]_vars => TypeInv'
  BY TypeStep
<1>3. TypeInv /\ [Next]_vars =>
        [CanTransition(status, status') \/ UnpaidCancellation \/ UnguardedWrite]_status
  BY TableStep
<1> QED
  BY <1>1, <1>2, <1>3, PTL DEF Spec, OnlyUnguardedWritesLeaveTable

\* Without those writers only the unpaid cancellation leaves the table.
THEOREM TableFollowed == ASSUME MethodAtCheckout PROVE Spec => FollowsTableOrUnpaid
<1>1. OrderInv /\ [Next]_vars =>
        [CanTransition(status, status') \/ UnpaidCancellation]_status
  BY TableStep DEF OrderInv, NoPaymentWait, UnguardedWrite, ChoicePcs, AdminPcs
<1> QED
  BY <1>1, OrderInvariant, PTL DEF Spec, FollowsTableOrUnpaid

\* The seller has not answered an order that is still unpaid.
UnpaidUnanswered == status = "CREATED" => response = "NONE"

\* A decided order is not decided again, and an unpaid one is not decided.
LEMMA DecisionStep ==
  ASSUME UnpaidUnanswered, [Next]_vars
  PROVE  /\ UnpaidUnanswered'
         /\ response \in {"ACCEPTED", "AUTO_ACCEPTED", "REJECTED"} => response' = response
<1> DEFINE Kept == /\ UnpaidUnanswered'
                   /\ response \in {"ACCEPTED", "AUTO_ACCEPTED", "REJECTED"}
                        => response' = response
<1> SUFFICES Kept
  OBVIOUS
<1> USE DEF UnpaidUnanswered
<1>1. CASE LinkCloses
  BY <1>1 DEF LinkCloses, Unpaid
<1>2. ASSUME NEW r \in Riders, DeliveryAccept(r) PROVE Kept
  BY <1>2 DEF DeliveryAccept, TypeOK
<1>3. ASSUME NEW r \in Riders, MarkArrivedAtStore(r) PROVE Kept
  BY <1>3 DEF MarkArrivedAtStore, RiderMoves
<1>4. ASSUME NEW r \in Riders, ConfirmPickup(r) PROVE Kept
  BY <1>4 DEF ConfirmPickup, RiderMoves
<1>5. ASSUME NEW r \in Riders, CompleteDelivery(r) PROVE Kept
  BY <1>5 DEF CompleteDelivery, RiderMoves
<1>6. ASSUME NEW c \in Calls, AcceptCAS(c) PROVE Kept
  BY <1>6 DEF AcceptCAS, AwaitingSeller, EnterSearch
<1>7. ASSUME NEW c \in Calls, SellerReject(c) PROVE Kept
  BY <1>7 DEF SellerReject, AwaitingSeller
<1>8. ASSUME NEW c \in Calls, CustomerCancel(c) PROVE Kept
  BY <1>8 DEF CustomerCancel, FreeSlot
<1>9. ASSUME NEW c \in Calls, ReservationTimeout(c) PROVE Kept
  BY <1>9 DEF ReservationTimeout, Unpaid
<1>10. ASSUME NEW c \in Calls, CaptureToSeller(c) PROVE Kept
  BY <1>10 DEF CaptureToSeller, Statuses
<1>11. ASSUME NEW c \in Calls, Proceed(c) PROVE Kept
  BY <1>11 DEF Proceed, EnterSearch
<1>12. ASSUME NEW c \in Calls, SearchGiveUp(c) PROVE Kept
  BY <1>12 DEF SearchGiveUp, At
<1>13. ASSUME NEW c \in Calls, AdminSave(c) PROVE Kept
  BY <1>13 DEF AdminSave, At
<1>14. ASSUME  SellerDeadlinePasses \/ SearchWindowPasses \/ CustomerPays
     PROVE  Kept
  BY <1>14 DEF SellerDeadlinePasses, SearchWindowPasses, CustomerPays,
       orderVars, riderVars
<1>15. ASSUME NEW r \in Riders,
            SkipOrder(r) \/ AdminAssign(r)
     PROVE  Kept
  BY <1>15 DEF SkipOrder, AdminAssign, orderVars, riderVars
<1>16. ASSUME NEW c \in Calls,
            SellerAccept(c) \/ SellerTimeout(c) \/ AcceptRead(c)
         \/ CreatePayment(c) \/ CaptureStart(c) \/ CaptureFinance(c)
         \/ CaptureToSearch(c) \/ CaptureSave(c) \/ SelectPaymentMethod(c)
         \/ CodSave(c) \/ OnlineSave(c) \/ DeliveryTimeout(c)
         \/ SearchRetry(c) \/ CompRead(c) \/ CompRelease(c) \/ CompSave(c)
         \/ AdminCancel(c) \/ AdminRestock(c) \/ Crash(c)
     PROVE  Kept
  BY <1>16 DEF SellerAccept, SellerTimeout, AcceptRead, CreatePayment,
       CaptureStart, CaptureFinance, CaptureToSearch, CaptureSave,
       SelectPaymentMethod, CodSave, OnlineSave, DeliveryTimeout,
       SearchRetry, CompRead, CompRelease, CompSave, AdminCancel,
       AdminRestock, Crash, orderVars, riderVars
<1>17. CASE UNCHANGED vars
  BY <1>17 DEF vars, orderVars, riderVars
<1> QED
  BY <1>1, <1>2, <1>3, <1>4, <1>5, <1>6, <1>7, <1>8, <1>9, <1>10, <1>11, <1>12,
     <1>13, <1>14, <1>15, <1>16, <1>17
     DEF Next, Environment, Request, Timeout, Continue, RiderStep

\* The seller decides once: neither a timeout nor a payment overturns it.
THEOREM SellerDecisionStands == Spec => SellerDecidesOnce
<1>1. Init => UnpaidUnanswered
  BY DEF Init, UnpaidUnanswered
<1>2. UnpaidUnanswered /\ [Next]_vars => UnpaidUnanswered'
  BY DecisionStep
<1>3. UnpaidUnanswered /\ [Next]_vars =>
        [(response \in {"ACCEPTED", "AUTO_ACCEPTED", "REJECTED"})
           => (response' = response)]_response
  BY DecisionStep
<1> QED
  BY <1>1, <1>2, <1>3, PTL DEF Spec, SellerDecidesOnce

-----------------------------------------------------------------------------
\* Only an accepting partner and an administrator name a partner.
LEMMA RiderWriters ==
  ASSUME [Next]_vars
  PROVE  \/ \E r \in Riders : DeliveryAccept(r) \/ AdminAssign(r)
         \/ UNCHANGED rider
<1> USE DEF orderVars, riderVars, stockVars, bounds, vars, RiderMoves, EnterSearch
<1>1. ASSUME NEW c \in Calls, Request(c) \/ Timeout(c) \/ Crash(c) PROVE UNCHANGED rider
  BY <1>1 DEF Request, Timeout, Crash, SellerAccept, SellerReject, CustomerCancel,
     CreatePayment, CaptureStart, SelectPaymentMethod, AdminCancel, SellerTimeout,
     DeliveryTimeout, ReservationTimeout
<1>2. ASSUME NEW c \in Calls, Continue(c) PROVE UNCHANGED rider
  BY <1>2 DEF Continue, AcceptRead, AcceptCAS, CodSave, OnlineSave, CreatePayment,
     CaptureFinance, CaptureToSeller, CaptureToSearch, CaptureSave, Proceed,
     SearchRetry, SearchGiveUp, CompRead, CompRelease, CompSave, AdminRestock, AdminSave
<1>3. CASE Environment
  BY <1>3 DEF Environment, SellerDeadlinePasses, SearchWindowPasses, CustomerPays,
     LinkCloses
<1>4. ASSUME NEW r \in Riders, RiderStep(r), ~DeliveryAccept(r), ~AdminAssign(r)
      PROVE  UNCHANGED rider
  BY <1>4 DEF RiderStep, SkipOrder, MarkArrivedAtStore, ConfirmPickup, CompleteDelivery
<1> QED
  BY <1>1, <1>2, <1>3, <1>4 DEF Next

\* deliveryAcceptAtomic filters on deliveryBoy: null, and nothing takes the partner
\* off the order again.
THEOREM FirstRiderKept == ASSUME MethodAtCheckout PROVE Spec => FirstRiderKeepsOrder
<1>1. ASSUME OrderInv, [Next]_vars PROVE [rider # NoRider => rider' = rider]_rider
  <2>1. \A r \in Riders : ~AdminAssign(r)
    BY <1>1 DEF OrderInv, NoPaymentWait, MethodAtCheckout, AdminAssign
  <2> QED
    BY <1>1, <2>1, RiderWriters DEF DeliveryAccept
<1> QED
  BY <1>1, OrderInvariant, PTL DEF Spec, FirstRiderKeepsOrder

-----------------------------------------------------------------------------
(***************************************************************************)
(* The workflow implements OrderPromise: every step is a step of the       *)
(* promise or leaves phase, holder and shelf alone.                        *)
(***************************************************************************)
\* A placed order is a promised one.
LEMMA PromiseInit == Init => Promise!Init
BY DEF Init, Promise!Init, Phase

\* The phase of each status.
PhaseOfStatus ==
  /\ status = "CREATED" => Phase = "unpaid"
  /\ status \in {"SELLER_PENDING", "SELLER_ACCEPTED"} => Phase = "seller"
  /\ status = "DELIVERY_SEARCH" => Phase = "search"
  /\ status \in {"DELIVERY_ASSIGNED", "PICKUP_READY", "OUT_FOR_DELIVERY"} => Phase = "partner"
  /\ status = "DELIVERED" => Phase = "delivered"
  /\ status = "CANCELLED" => Phase = "cancelled"

\* The refinement mapping, before a step ...
LEMMA PhaseNow == PhaseOfStatus
BY DEF PhaseOfStatus, Phase

\* ... and after it.
LEMMA PhaseThen == PhaseOfStatus'
BY DEF PhaseOfStatus, Phase

\* What the order's steps are in the promise.
LEMMA PayStep ==
  ASSUME status = "CREATED", status' = "SELLER_PENDING", rider' = rider,
         released' = released
  PROVE  Promise!Next
<1>1. Phase = "unpaid" /\ Phase' = "seller"
  BY PhaseNow, PhaseThen DEF PhaseOfStatus
<1>2. Promise!Pay
  BY <1>1 DEF Promise!Pay
<1> QED
  BY <1>2 DEF Promise!Next

\* Accepting a paid order starts the search.
LEMMA AcceptStep ==
  ASSUME status = "SELLER_PENDING", status' = "DELIVERY_SEARCH", rider' = rider,
         released' = released
  PROVE  Promise!Next
<1>1. Phase = "seller" /\ Phase' = "search"
  BY PhaseNow, PhaseThen DEF PhaseOfStatus
<1>2. Promise!Accept
  BY <1>1 DEF Promise!Accept
<1> QED
  BY <1>2 DEF Promise!Next

\* The first partner to accept holds the order.
LEMMA AssignStep ==
  ASSUME NEW r \in Riders, status = "DELIVERY_SEARCH",
         status' = "DELIVERY_ASSIGNED",
         rider = NoRider, rider' = r, released' = released
  PROVE  Promise!Next
<1>1. Phase = "search" /\ Phase' = "partner"
  BY PhaseNow, PhaseThen DEF PhaseOfStatus
<1>2. Promise!Assign(r)
  BY <1>1 DEF Promise!Assign
<1> QED
  BY <1>2 DEF Promise!Next

\* The handover to the customer.
LEMMA DeliverStep ==
  ASSUME status = "OUT_FOR_DELIVERY", status' = "DELIVERED", rider' = rider,
         released' = released
  PROVE  Promise!Next
<1>1. Phase = "partner" /\ Phase' = "delivered"
  BY PhaseNow, PhaseThen DEF PhaseOfStatus
<1>2. Promise!Deliver
  BY <1>1 DEF Promise!Deliver
<1> QED
  BY <1>2 DEF Promise!Next

\* A cancellation before a partner holds the order, with or without the goods.
LEMMA CancelStep ==
  ASSUME status \in {"CREATED", "SELLER_PENDING", "DELIVERY_SEARCH"},
         status' = "CANCELLED", rider' = rider, released' \in {0, 1}
  PROVE  Promise!Next
<1>1. Phase \in {"unpaid", "seller", "search"} /\ Phase' = "cancelled"
  BY PhaseNow, PhaseThen DEF PhaseOfStatus
<1>2. Promise!Cancel
  BY <1>1 DEF Promise!Cancel
<1> QED
  BY <1>2 DEF Promise!Next

\* The goods of a cancelled order go back on the shelf.
LEMMA ReturnStep ==
  ASSUME status = "CANCELLED", status' = "CANCELLED", rider' = rider,
         released = 0, released' = 1
  PROVE  Promise!Next
<1>1. Phase = "cancelled" /\ Phase' = "cancelled"
  BY PhaseNow, PhaseThen DEF PhaseOfStatus
<1>2. Promise!Return
  BY <1>1 DEF Promise!Return
<1> QED
  BY <1>2 DEF Promise!Next

\* The partner's steps between pickup and handover, and every step that leaves the
\* status alone, are invisible in the promise.
LEMMA StutterStep ==
  ASSUME status \in Statuses, rider' = rider, released' = released,
         \/ status' = status
         \/ /\ status \in {"DELIVERY_ASSIGNED", "PICKUP_READY", "OUT_FOR_DELIVERY"}
            /\ status' \in {"DELIVERY_ASSIGNED", "PICKUP_READY", "OUT_FOR_DELIVERY"}
  PROVE  UNCHANGED Promise!vars
<1>1. Phase' = Phase
  BY PhaseNow, PhaseThen DEF PhaseOfStatus, Statuses
<1> QED
  BY <1>1 DEF Promise!vars

\* Every step of the workflow is one of these, or a stutter.
LEMMA PromiseStep ==
  ASSUME MethodAtCheckout, OrderInv, [Next]_vars
  PROVE  [Promise!Next]_(Promise!vars)
<1> DEFINE Kept == Promise!Next \/ UNCHANGED Promise!vars
<1> SUFFICES Kept
  OBVIOUS
<1> USE PayStep, AcceptStep, AssignStep, DeliverStep, CancelStep, ReturnStep,
StutterStep
    DEF MethodAtCheckout, OrderInv, TypeInv, TypeOK, NoPaymentWait,
    RiderMatchesStatus,
        OneCompensation, ChoicePcs, AdminPcs, CompPcs, orderVars, riderVars,
        stockVars
<1>1. CASE LinkCloses
  BY <1>1 DEF LinkCloses, Unpaid
<1>2. ASSUME NEW r \in Riders, DeliveryAccept(r) PROVE Kept
  BY <1>2 DEF DeliveryAccept, TypeOK
<1>3. ASSUME NEW r \in Riders, MarkArrivedAtStore(r) PROVE Kept
  BY <1>3 DEF MarkArrivedAtStore, RiderMoves
<1>4. ASSUME NEW r \in Riders, ConfirmPickup(r) PROVE Kept
  BY <1>4 DEF ConfirmPickup, RiderMoves
<1>5. ASSUME NEW r \in Riders, CompleteDelivery(r) PROVE Kept
  BY <1>5 DEF CompleteDelivery, RiderMoves
<1>6. ASSUME NEW r \in Riders, AdminAssign(r) PROVE Kept
  BY <1>6 DEF AdminAssign, NoPaymentWait
<1>7. ASSUME NEW c \in Calls, AcceptCAS(c) PROVE Kept
  BY <1>7 DEF AcceptCAS, AwaitingSeller, EnterSearch, PaymentPending, At
<1>8. ASSUME NEW c \in Calls, SellerReject(c) PROVE Kept
  BY <1>8 DEF SellerReject, AwaitingSeller
<1>9. ASSUME NEW c \in Calls, CustomerCancel(c) PROVE Kept
  BY <1>9 DEF CustomerCancel, FreeSlot
<1>10. ASSUME NEW c \in Calls, ReservationTimeout(c) PROVE Kept
  BY <1>10 DEF ReservationTimeout, Unpaid
<1>11. ASSUME NEW c \in Calls, CaptureToSeller(c) PROVE Kept
  BY <1>11 DEF CaptureToSeller, Goto
<1>12. ASSUME NEW c \in Calls, Proceed(c) PROVE Kept
  BY <1>12 DEF Proceed, At
<1>13. ASSUME NEW c \in Calls, SearchGiveUp(c) PROVE Kept
  BY <1>13 DEF SearchGiveUp, At
<1>14. ASSUME NEW c \in Calls, CompRelease(c) PROVE Kept
  BY <1>14 DEF CompRelease, At, OneCompensation, CompPcs
<1>15. ASSUME NEW c \in Calls, AdminRestock(c) PROVE Kept
  BY <1>15 DEF AdminRestock, At
<1>16. ASSUME NEW c \in Calls, AdminSave(c) PROVE Kept
  BY <1>16 DEF AdminSave, At
<1>17. ASSUME  SellerDeadlinePasses \/ SearchWindowPasses \/ CustomerPays
     PROVE  Kept
  BY <1>17 DEF SellerDeadlinePasses, SearchWindowPasses, CustomerPays,
       orderVars, riderVars, stockVars
<1>18. ASSUME NEW r \in Riders,
            SkipOrder(r)
     PROVE  Kept
  BY <1>18 DEF SkipOrder, orderVars, riderVars, stockVars
<1>19. ASSUME NEW c \in Calls,
            SellerAccept(c) \/ SellerTimeout(c) \/ AcceptRead(c)
         \/ CreatePayment(c) \/ CaptureStart(c) \/ CaptureFinance(c)
         \/ CaptureToSearch(c) \/ CaptureSave(c) \/ SelectPaymentMethod(c)
         \/ CodSave(c) \/ OnlineSave(c) \/ DeliveryTimeout(c)
         \/ SearchRetry(c) \/ CompRead(c) \/ CompSave(c) \/ AdminCancel(c)
         \/ Crash(c)
     PROVE  Kept
  BY <1>19 DEF SellerAccept, SellerTimeout, AcceptRead, CreatePayment,
       CaptureStart, CaptureFinance, CaptureToSearch, CaptureSave,
       SelectPaymentMethod, CodSave, OnlineSave, DeliveryTimeout,
       SearchRetry, CompRead, CompSave, AdminCancel, Crash, orderVars,
       riderVars, stockVars
<1>20. CASE UNCHANGED vars
  BY <1>20 DEF vars, orderVars, riderVars
<1> QED
  BY <1>1, <1>2, <1>3, <1>4, <1>5, <1>6, <1>7, <1>8, <1>9, <1>10, <1>11, <1>12,
     <1>13, <1>14, <1>15, <1>16, <1>17, <1>18, <1>19, <1>20
     DEF Next, Environment, Request, Timeout, Continue, RiderStep

\* The order workflow keeps its promise to customer, seller and partner.
THEOREM WorkflowKeepsPromise == ASSUME MethodAtCheckout PROVE Spec => PromiseKept
<1>1. Init => Promise!Init
  BY PromiseInit
<1>2. OrderInv /\ [Next]_vars => [Promise!Next]_(Promise!vars)
  BY PromiseStep
<1> QED
  BY <1>1, <1>2, OrderInvariant, PTL DEF Spec, PromiseKept, Promise!Spec
=============================================================================
