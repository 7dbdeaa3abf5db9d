-------------------------- MODULE EscrowLockProofs --------------------------
(***************************************************************************)
(* What the escrow lock and the server's builder guarantee, for every set  *)
(* of agreements, parties, amounts and since values.                       *)
(*                                                                         *)
(* The inductive invariant CellsInv says what a cell can be: anything that *)
(* somebody deposited, but what the server made is data the lock can parse *)
(* with a timeout that is a block number.  From it each property follows   *)
(* by what the lock requires of a spending transaction, and, for the       *)
(* transactions the server builds, by counting their outputs.              *)
(***************************************************************************)
EXTENDS EscrowLock, FiniteSetTheorems, TLAPS

\* The data of the cells, the server's own and what others deposit.
CellData ==
    [length: {88}, magic: {"PACTESC1"}, version: {1, 2}, padding: {0}, since: Sinces]
LiveCells ==
    [state: {"live"}, ours: BOOLEAN, client: Parties, worker: Parties,
     capacity: Amounts, data: CellData]

\* Cells are well formed, and those of the server carry what createCommitment
\* and encodeEscrowCellData made.
CellsInv ==
    /\ cells \in [Escrows -> {NoCell} \cup LiveCells]
    /\ height \in Nat
    /\ \A e \in Live : cells[e].ours =>
          /\ cells[e].data.version = 1
          /\ parseRefundTimeoutSince(cells[e].data.since)

LEMMA LiveIsCell ==
    ASSUME CellsInv, NEW e \in Live
    PROVE  e \in Escrows /\ cells[e] \in LiveCells
BY DEF CellsInv, Live, NoCell

-----------------------------------------------------------------------------
(* CellsInv is inductive                                                   *)

\* A new cell is well formed.
LEMMA CellMade ==
    ASSUME CellsInv, NEW e \in Escrows, NEW c \in LiveCells,
           c.ours => c.data.version = 1 /\ parseRefundTimeoutSince(c.data.since),
           cells' = [cells EXCEPT ![e] = c], UNCHANGED height
    PROVE  CellsInv'
BY DEF CellsInv, Live, parseRefundTimeoutSince

\* Spending removes cells and touches no other.
LEMMA CellsSpent ==
    ASSUME CellsInv, NEW S,
           cells' = [e \in Escrows |-> IF e \in S THEN NoCell ELSE cells[e]],
           UNCHANGED height
    PROVE  CellsInv'
BY DEF CellsInv, Live, NoCell, parseRefundTimeoutSince

LEMMA CellsInvNext == CellsInv /\ [Next]_vars => CellsInv'
<1> SUFFICES ASSUME CellsInv, [Next]_vars PROVE CellsInv'
  OBVIOUS
<1>1. CASE UNCHANGED vars
  BY <1>1 DEF CellsInv, vars, Live, parseRefundTimeoutSince
<1>2. CASE Mine
  BY <1>2 DEF Mine, CellsInv, Live, parseRefundTimeoutSince
<1>3. ASSUME NEW e \in Escrows, NEW client \in Parties, NEW worker \in Parties,
             NEW amount \in Amounts, NEW since \in Sinces,
             signEscrowLock(e, client, worker, amount, since)
      PROVE  CellsInv'
  <2> DEFINE c == [state |-> "live", ours |-> TRUE, client |-> client,
                   worker |-> worker, capacity |-> amount,
                   data |-> encodeEscrowCellData(since)]
  <2>1. c \in LiveCells /\ c.data.version = 1 /\ c.data.since = since
    BY DEF LiveCells, CellData, encodeEscrowCellData
  <2>2. parseRefundTimeoutSince(c.data.since)
    BY <1>3, <2>1 DEF signEscrowLock, createCommitment
  <2>3. cells' = [cells EXCEPT ![e] = c] /\ UNCHANGED height
    BY <1>3 DEF signEscrowLock
  <2> HIDE DEF c
  <2> QED
    BY <2>1, <2>2, <2>3, CellMade
<1>4. ASSUME NEW e \in Escrows, NEW client \in Parties, NEW worker \in Parties,
             NEW amount \in Amounts, NEW data \in BadData,
             Deposit(e, client, worker, amount, data)
      PROVE  CellsInv'
  <2> DEFINE c == [state |-> "live", ours |-> FALSE, client |-> client,
                   worker |-> worker, capacity |-> amount, data |-> data]
  <2>1. data \in CellData
    <3>1. PICK s \in Sinces, v \in {1, 2} : data = [encodeEscrowCellData(s) EXCEPT !.version = v]
      BY DEF BadData
    <3>2. data = [length |-> 88, magic |-> "PACTESC1", version |-> v, padding |-> 0,
                  since |-> s]
      BY <3>1 DEF encodeEscrowCellData
    <3> QED
      BY <3>2 DEF CellData
  <2>2. c \in LiveCells /\ ~c.ours
    BY <2>1 DEF LiveCells
  <2>3. cells' = [cells EXCEPT ![e] = c] /\ UNCHANGED height
    BY <1>4 DEF Deposit
  <2> HIDE DEF c
  <2> QED
    BY <2>2, <2>3, CellMade
<1>5. ASSUME NEW tx \in Transactions, Spend(tx) PROVE CellsInv'
  BY <1>5, CellsSpent DEF Spend
<1>6. ASSUME NEW e \in Live, NEW operation \in {"release", "refund"},
             NEW change \in Amounts, signSettlement(e, operation, change)
      PROVE  CellsInv'
  BY <1>6, CellsSpent DEF signSettlement, Spend
<1> QED
  BY <1>1, <1>2, <1>3, <1>4, <1>5, <1>6 DEF Next

\* A cell of the server always holds terms the lock can parse and a timeout that
\* is a block number (createCommitment, encodeEscrowCellData,
\* parseRefundTimeoutSince).
THEOREM CellsInvAlways == Spec => []CellsInv
<1>1. Init => CellsInv
  BY DEF Init, CellsInv, Live, NoCell
<1> QED
  BY <1>1, CellsInvNext, PTL DEF Spec

-----------------------------------------------------------------------------
(* What the lock requires of any transaction                               *)

\* An admitted transaction spends live escrows, each of which its lock let go.
LEMMA AdmittedSpends ==
    ASSUME NEW tx \in Admitted, NEW e \in tx.inputs
    PROVE  /\ e \in Live /\ tx.since[e] \in Sinces
           /\ SinceReached(tx.since[e]) /\ validate(e, tx)
BY DEF Admitted, Transactions, Included

\* The lock pays one of the parties, never both and never neither.
LEMMA LockPaysOneParty ==
    ASSUME NEW cell, NEW since, NEW tx, evaluate_spend(cell, since, tx)
    PROVE  has_exact_output(tx, cell.worker, cell.capacity)
              # has_exact_output(tx, cell.client, cell.capacity)
BY DEF evaluate_spend, has_exact_output

\* A since value that satisfies the lock has kept the transaction out of the
\* blocks before the timeout.
LEMMA TimeoutIsHeight ==
    ASSUME CellsInv, NEW since \in Sinces, NEW required \in Sinces,
           SinceReached(since), timeout_refund_reached(since, required)
    PROVE  height >= required
BY NumbersAreNatural DEF CellsInv, SinceReached, timeout_refund_reached

\* Whatever transaction the chain admits, each escrow it spends is met by exactly
\* one output of its capacity, at the worker with the client's signature, at the
\* client with the worker's, or at the client at the timeout (evaluate_spend of
\* contracts/pact-escrow-lock).  Escrows of different groups may be met by one
\* output; that each is paid separately is not claimed.
THEOREM SettlesToPartyAlways == Spec => []SettlesToParty
<1>1. CellsInv => SettlesToParty
  <2> SUFFICES ASSUME CellsInv, NEW tx \in Admitted, NEW e \in tx.inputs
               PROVE  \/ /\ Matches(tx, cells[e].worker, cells[e].capacity) = 1
                         /\ cells[e].client \in tx.locks
                      \/ /\ Matches(tx, cells[e].client, cells[e].capacity) = 1
                         /\ cells[e].worker \in tx.locks \/ height >= cells[e].data.since
    BY DEF SettlesToParty
  <2>1. e \in Live /\ tx.since[e] \in Sinces /\ SinceReached(tx.since[e]) /\ validate(e, tx)
    BY AdmittedSpends
  <2>2. cells[e].data.since \in Sinces
    BY <2>1, LiveIsCell DEF LiveCells, CellData
  <2>3. timeout_refund_reached(tx.since[e], cells[e].data.since)
          => height >= cells[e].data.since
    BY <2>1, <2>2, TimeoutIsHeight
  <2> QED
    BY <2>1, <2>3 DEF validate, evaluate_spend, has_exact_output, has_signer
<1> QED
  BY <1>1, CellsInvAlways, PTL

\* Of any transaction that spends an escrow the server confirms exactly one of
\* release and refund (verifySettlement against has_exact_output).
THEOREM LockAndServerAgreeAlways == Spec => []LockAndServerAgree
<1>1. LockAndServerAgree
  <2> SUFFICES ASSUME NEW tx \in Admitted, NEW e \in tx.inputs
               PROVE  verifySettlement(e, "release", tx) # verifySettlement(e, "refund", tx)
    BY DEF LockAndServerAgree
  <2>1. has_exact_output(tx, cells[e].worker, cells[e].capacity)
           # has_exact_output(tx, cells[e].client, cells[e].capacity)
    BY AdmittedSpends, LockPaysOneParty DEF validate
  <2>2. /\ Destination(e, "release") = cells[e].worker
        /\ Destination(e, "refund") = cells[e].client
    BY DEF Destination
  <2> QED
    BY <2>1, <2>2 DEF verifySettlement, has_exact_output
<1> QED
  BY <1>1, PTL

-----------------------------------------------------------------------------
(* The transactions the server builds                                      *)

\* A block number is below the byte that selects the meaning.
LEMMA BlockNumberHasNoFlag ==
    ASSUME NEW since \in Nat, parseRefundTimeoutSince(since)
    PROVE  since \div FlagUnit = 0
BY NumbersAreNatural DEF parseRefundTimeoutSince

\* The data of the server's cells satisfies the lock.
LEMMA OwnDataParses ==
    ASSUME CellsInv, NEW e \in Live, cells[e].ours
    PROVE  /\ parse_terms(cells[e].data)
           /\ cells[e].data.since \in Nat /\ cells[e].data.since \div FlagUnit = 0
<1>1. cells[e].data \in CellData
  BY LiveIsCell DEF LiveCells
<1>2. cells[e].data.since \in Nat /\ parseRefundTimeoutSince(cells[e].data.since)
  BY <1>1, NumbersAreNatural DEF CellData, CellsInv
<1>3. cells[e].data.since \div FlagUnit = 0
  BY <1>2, BlockNumberHasNoFlag
<1>4. cells[e].data.version = 1
  BY DEF CellsInv
<1> QED
  BY <1>1, <1>2, <1>3, <1>4 DEF CellData, parse_terms

\* Counting the outputs of a transaction that has one.
LEMMA CountOne ==
    ASSUME NEW tx, NEW o, tx.outputs = <<o>>, NEW party, NEW capacity
    PROVE  Matches(tx, party, capacity) =
              IF o.lock = party /\ o.capacity = capacity THEN 1 ELSE 0
<1> DEFINE S == {i \in DOMAIN tx.outputs : /\ tx.outputs[i].lock = party
                                           /\ tx.outputs[i].capacity = capacity}
<1>1. DOMAIN tx.outputs = {1} /\ tx.outputs[1] = o
  OBVIOUS
<1>2. S = IF o.lock = party /\ o.capacity = capacity THEN {1} ELSE {}
  BY <1>1
<1>3. Cardinality({1}) = 1 /\ Cardinality({}) = 0
  BY FS_Singleton, FS_EmptySet
<1> QED
  BY <1>2, <1>3 DEF Matches

\* Counting the outputs of a transaction that pays one party and returns change
\* to another.
LEMMA CountTwo ==
    ASSUME NEW tx, NEW o, NEW q, tx.outputs = <<o, q>>, o.lock # q.lock,
           NEW party, NEW capacity
    PROVE  Matches(tx, party, capacity) =
              IF \/ o.lock = party /\ o.capacity = capacity
                 \/ q.lock = party /\ q.capacity = capacity
              THEN 1 ELSE 0
<1> DEFINE S == {i \in DOMAIN tx.outputs : /\ tx.outputs[i].lock = party
                                           /\ tx.outputs[i].capacity = capacity}
<1>1. DOMAIN tx.outputs = {1, 2} /\ tx.outputs[1] = o /\ tx.outputs[2] = q
  OBVIOUS
<1>2. S = IF o.lock = party /\ o.capacity = capacity THEN {1}
          ELSE IF q.lock = party /\ q.capacity = capacity THEN {2} ELSE {}
  BY <1>1
<1>3. Cardinality({1}) = 1 /\ Cardinality({2}) = 1 /\ Cardinality({}) = 0
  BY FS_Singleton, FS_EmptySet
<1> QED
  BY <1>2, <1>3 DEF Matches

\* Once the timeout has passed the client can be repaid without any signature,
\* exactly when the parties differ (timeout_refund_reached, evaluate_spend,
\* createCommitment).
THEOREM RefundReachableAlways == Spec => []RefundReachable
<1>1. CellsInv => RefundReachable
  <2> SUFFICES ASSUME CellsInv, NEW e \in Live, cells[e].ours,
                      height >= cells[e].data.since
               PROVE  Included([inputs |-> {e}, since |-> [f \in {e} |-> cells[e].data.since],
                                locks |-> {},
                                outputs |-> <<[lock |-> cells[e].client,
                                               capacity |-> cells[e].capacity]>>])
                         <=> cells[e].client # cells[e].worker
    BY DEF RefundReachable
  <2> DEFINE o == [lock |-> cells[e].client, capacity |-> cells[e].capacity]
             refund == [inputs |-> {e}, since |-> [f \in {e} |-> cells[e].data.since],
                        locks |-> {}, outputs |-> <<o>>]
  <2>1. /\ refund.outputs = <<o>> /\ refund.inputs = {e}
        /\ refund.since[e] = cells[e].data.since
        /\ o.lock = cells[e].client /\ o.capacity = cells[e].capacity
    OBVIOUS
  <2> HIDE DEF refund, o
  <2>2. \A p, k : Matches(refund, p, k) = IF o.lock = p /\ o.capacity = k THEN 1 ELSE 0
    BY <2>1, CountOne
  <2>3. /\ parse_terms(cells[e].data)
        /\ cells[e].data.since \in Nat /\ cells[e].data.since \div FlagUnit = 0
    BY OwnDataParses
  <2>4. Group(e, refund) = {e} /\ SinceReached(refund.since[e])
    BY <2>1 DEF Group, SinceReached
  <2>5. timeout_refund_reached(refund.since[e], cells[e].data.since)
    BY <2>1, <2>3 DEF timeout_refund_reached
  <2>6. evaluate_spend(cells[e], refund.since[e], refund) <=> cells[e].client # cells[e].worker
    BY <2>1, <2>2, <2>5 DEF evaluate_spend, has_exact_output
  <2>7. Included(refund) <=> cells[e].client # cells[e].worker
    BY <2>1, <2>3, <2>4, <2>6 DEF Included, validate
  <2> QED
    BY <2>7 DEF refund, o
<1> QED
  BY <1>1, CellsInvAlways, PTL

\* The settlement the server builds is one the lock accepts, unless the change
\* equals the amount (createSettlementIntent, prepareAndSign against validate).
THEOREM BuiltSettlementUnlocksAlways == Spec => []BuiltSettlementUnlocks
<1>1. CellsInv => BuiltSettlementUnlocks
  <2> SUFFICES ASSUME CellsInv, NEW e \in Live, NEW operation \in {"release", "refund"},
                      NEW change \in Amounts, cells[e].ours,
                      cells[e].client # cells[e].worker
               PROVE  validate(e, SettlementTransaction(e, operation, change))
                         <=> change # cells[e].capacity
    BY DEF BuiltSettlementUnlocks
  <2> DEFINE tx == SettlementTransaction(e, operation, change)
             o == [lock |-> Destination(e, operation), capacity |-> cells[e].capacity]
             q == [lock |-> Authorizer(e, operation), capacity |-> change]
  <2>1. /\ tx.outputs = <<o, q>> /\ tx.inputs = {e}
        /\ tx.locks = {Authorizer(e, operation)}
        /\ o.lock = Destination(e, operation) /\ o.capacity = cells[e].capacity
        /\ q.lock = Authorizer(e, operation) /\ q.capacity = change
    BY DEF SettlementTransaction
  <2> HIDE DEF tx, o, q
  <2>2. o.lock # q.lock
    BY <2>1 DEF Destination, Authorizer
  <2>3. \A p, k : Matches(tx, p, k) =
                     IF \/ o.lock = p /\ o.capacity = k
                        \/ q.lock = p /\ q.capacity = k
                     THEN 1 ELSE 0
    BY <2>1, <2>2, CountTwo
  <2>4. parse_terms(cells[e].data) /\ Group(e, tx) = {e}
    BY <2>1, OwnDataParses DEF Group
  <2>5. evaluate_spend(cells[e], tx.since[e], tx) <=> change # cells[e].capacity
    <3>1. CASE operation = "release"
      BY <2>1, <2>3, <3>1 DEF evaluate_spend, has_exact_output, has_signer, Destination,
         Authorizer
    <3>2. CASE operation = "refund"
      BY <2>1, <2>3, <3>2 DEF evaluate_spend, has_exact_output, has_signer, Destination,
         Authorizer
    <3> QED
      BY <3>1, <3>2
  <2>6. validate(e, tx) <=> change # cells[e].capacity
    BY <2>4, <2>5 DEF validate
  <2> QED
    BY <2>6 DEF tx
<1> QED
  BY <1>1, CellsInvAlways, PTL
=============================================================================
