--------------------------- MODULE CapturePromise ---------------------------
(***************************************************************************)
(* What the online payment of a checkout group promises, as atomic steps   *)
(* and without its handlers: one payment is the group's, each order's      *)
(* money enters the ledger once and leaves it at most once and for a       *)
(* cancelled order, the seller sees an order only with its money, it is    *)
(* cancelled as unpaid only without, and a settled payment leaves no order *)
(* waiting and no money unseen.                                            *)
(***************************************************************************)
EXTENDS Naturals

CONSTANTS
  Orders, PayIds, NoId

VARIABLES
  paid,     \* the payment of the group, or NoId
  settled,  \* all that it has to do is done
  flags,    \* what a person is told of
  order,    \* each order: "CREATED", "SELLER_PENDING", "CANCELLED"
  credits,  \* how often its money entered the ledger
  debits    \* and how often it left

payment == <<paid, settled, flags>>
ledger == <<credits, debits>>
vars == <<payment, order, ledger>>

Init ==
  /\ paid = NoId /\ settled = FALSE /\ flags = {}
  /\ order = [o \in Orders |-> "CREATED"]
  /\ credits = [o \in Orders |-> 0] /\ debits = [o \in Orders |-> 0]

Capture(id) ==
  /\ paid = NoId /\ paid' = id
  /\ UNCHANGED <<settled, flags, order, ledger>>

FlagSecond(id) ==
  /\ paid \notin {NoId, id} /\ flags' = flags \cup {<<"DUPLICATE", id>>}
  /\ UNCHANGED <<paid, settled, order, ledger>>

Accounted(o) ==
  \/ order[o] # "CREATED" /\ credits[o] = 1
  \/ order[o] = "CANCELLED" /\ <<"LATE", paid>> \in flags

\* Money that came too late for an order is flagged, and the payment settled when
\* every order is accounted for.
Conclude ==
  /\ paid # NoId
  /\ UNCHANGED <<paid, order, ledger>>
  /\ \/ UNCHANGED flags
     \/ (\E o \in Orders : order[o] = "CANCELLED") /\ flags' = flags \cup {<<"LATE", paid>>}
  /\ UNCHANGED settled \/ (settled' = TRUE /\ \A o \in Orders : Accounted(o)')

Credit(o) ==
  /\ paid # NoId /\ credits[o] = 0 /\ credits' = [credits EXCEPT ![o] = 1]
  /\ UNCHANGED <<payment, order, debits>>

\* The orders of S change from one status to another.
Move(S, from, to) ==
  /\ \A o \in S : order[o] = from
  /\ order' = [o \in Orders |-> IF o \in S THEN to ELSE order[o]]
  /\ UNCHANGED <<payment, ledger>>

ToSeller(S)     == (\A o \in S : credits[o] = 1) /\ Move(S, "CREATED", "SELLER_PENDING")
CancelUnpaid(S) == (\A o \in S : credits[o] = 0) /\ Move(S, "CREATED", "CANCELLED")
Withdraw(o)     == Move({o}, "SELLER_PENDING", "CANCELLED")

Return(o) ==
  /\ order[o] = "CANCELLED" /\ credits[o] = 1 /\ debits[o] = 0
  /\ debits' = [debits EXCEPT ![o] = 1]
  /\ UNCHANGED <<payment, order, credits>>

Next ==
  \/ \E id \in PayIds : Capture(id) \/ FlagSecond(id)
  \/ Conclude
  \/ \E o \in Orders : Credit(o) \/ Withdraw(o) \/ Return(o)
  \/ \E S \in SUBSET Orders : ToSeller(S) \/ CancelUnpaid(S)

Spec == Init /\ [][Next]_vars
=============================================================================
