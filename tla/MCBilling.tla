----------------------------- MODULE MCBilling ------------------------------
(***************************************************************************)
(* Small instances of Billing: one subscription at Stripe or PayPal, a     *)
(* subscription and an order at Razorpay, two intents to pay in crypto.    *)
(***************************************************************************)
EXTENDS Billing

CONSTANTS x1, x2, c1, c2, pro, ultimate

ProFirst == [x \in Sources |-> IF x = x1 THEN pro ELSE ultimate]

Webhooks ==
  [k \in Kinds |-> CASE k = "stripe" -> 3 [] k = "paypal" -> 3 [] k = "razorpay" -> 2
                     [] k = "order" -> 1 [] k = "crypto" -> 0]

Mix(a, b) == [x \in Sources |-> IF x = x1 THEN a ELSE b]
Pairs ==
  { Mix("stripe", None), Mix("paypal", None), Mix("razorpay", "order"),
    Mix("crypto", "crypto") }
=============================================================================
