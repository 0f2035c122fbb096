------------------------------ MODULE Mentions ------------------------------
(***************************************************************************)
(* The life of a mention on the Band platform, as its queue shows it to an  *)
(* agent: a message is claimed, then settled; one that was left behind      *)
(* claimed (a crash, a stop) or settled as failed may be claimed again, one *)
(* that was answered may not.                                               *)
(***************************************************************************)
CONSTANT Messages

VARIABLE status   \* of each message

Init == status = [m \in Messages |-> "absent"]

Becomes(m, from, to) ==
  status[m] \in from /\ status' = [status EXCEPT ![m] = to]

Post(m) == Becomes(m, {"absent"}, "queued")

Withdraw(m) == Becomes(m, {"queued"}, "gone")

Claim(m) == Becomes(m, {"queued", "processing", "failed"}, "processing")

Settle(m) == Becomes(m, {"processing"}, "processed") \/ Becomes(m, {"processing"}, "failed")

Next == \E m \in Messages : Post(m) \/ Withdraw(m) \/ Claim(m) \/ Settle(m)

Spec == Init /\ [][Next]_status

Settled(m) == status[m] \in {"processed", "failed", "gone"}
=============================================================================
