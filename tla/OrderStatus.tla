---------------------------- MODULE OrderStatus ----------------------------
(***************************************************************************)
(* The private statuses of an order and the predicates the service asks of *)
(* them. They are methods of billingpb.Order in the protocol package, so   *)
(* they are external; internal/service/order_test.go (TestOrder_Get-       *)
(* PublicStatus, TestOrder_ReCreateOrder_Ok) fixes the parts used here.    *)
(***************************************************************************)

PrivateStatuses ==
    {"New", "InProgress", "Complete", "Declined", "Canceled", "Reject",
     "Refund", "Chargeback"}

PublicStatus(status) ==
    CASE status = "New"                    -> "created"
      [] status = "InProgress"             -> "pending"
      [] status = "Complete"               -> "processed"
      [] status = "Canceled"               -> "canceled"
      [] status \in {"Declined", "Reject"} -> "rejected"
      [] status = "Refund"                 -> "refunded"
      [] OTHER                             -> "chargeback"

CanBeRecreated(status) == status \in {"New", "Declined", "Canceled", "Reject"}
=============================================================================
