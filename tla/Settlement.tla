----------------------------- MODULE Settlement -----------------------------
(***************************************************************************)
(* What the settlement of one escrow promises, without requests, workers,  *)
(* jobs or a network: which payments may be signed when, and when the      *)
(* records may say that one of them went through.                          *)
(***************************************************************************)

VARIABLES
    signed,     \* the transactions that were ever signed
    confirmed,  \* those the chain has confirmed at some time
    approved,   \* may the worker be paid?
    claim,      \* the confirmation the escrow row speaks of, "none" if of none
    outcome     \* the payment the agreement was concluded with

vars == <<signed, confirmed, approved, claim, outcome>>

Payments == {"release", "refund"}

Init ==
    /\ signed = {} /\ confirmed = {}
    /\ approved = FALSE
    /\ claim = "none" /\ outcome = "none"

\* The money is locked first; it is paid out only from a confirmed lock, and to
\* the worker only when the work is approved at that moment.
Sign(t) ==
    /\ t \notin signed
    /\ t \in Payments => "lock" \in confirmed
    /\ t = "release" => approved
    /\ signed' = signed \cup {t}
    /\ UNCHANGED <<confirmed, approved, claim, outcome>>

Confirm(t) ==
    /\ t \in signed \ confirmed
    /\ confirmed' = confirmed \cup {t}
    /\ UNCHANGED <<signed, approved, claim, outcome>>

\* An approval follows the funding and is never withdrawn.
Approve ==
    /\ ~approved /\ "lock" \in confirmed
    /\ approved' = TRUE
    /\ UNCHANGED <<signed, confirmed, claim, outcome>>

\* The escrow row may take a claim back and may come to another one, but it only
\* ever claims what was confirmed.
Claim(c) ==
    /\ c \in confirmed \cup {"none"}
    /\ claim' = c
    /\ UNCHANGED <<signed, confirmed, approved, outcome>>

\* The agreement is concluded once, together with the escrow row's claim.
Conclude(t) ==
    /\ t \in Payments \cap confirmed
    /\ outcome = "none"
    /\ claim' = t /\ outcome' = t
    /\ UNCHANGED <<signed, confirmed, approved>>

Next ==
    \/ \E t \in {"lock"} \cup Payments : Sign(t) \/ Confirm(t) \/ Conclude(t)
    \/ \E c \in {"none", "lock"} \cup Payments : Claim(c)
    \/ Approve

Spec == Init /\ [][Next]_vars
=============================================================================
