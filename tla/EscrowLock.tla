----------------------------- MODULE EscrowLock -----------------------------
(***************************************************************************)
(* The escrow cells on the chain: the lock script of                       *)
(* contracts/pact-escrow-lock that decides who may spend them, and the     *)
(* server's transaction builder, signer and checks around it.              *)
(*                                                                         *)
(* An escrow cell belongs to a milestone of an agreement.  A transaction   *)
(* may spend several of them, beside cells of the parties; a party's cell  *)
(* among the inputs means that the party signed.  Lock hashes are the      *)
(* parties themselves; the salt of the lock's args is the agreement.       *)
(* Numbers of 64 bits whose highest byte selects the meaning of a since    *)
(* value keep that byte as the multiple of FlagUnit, which stands for      *)
(* 2^56.                                                                   *)
(***************************************************************************)
EXTENDS Naturals, Sequences, FiniteSets

CONSTANTS
    Agreements, Indexes,    \* an escrow is a milestone index of an agreement
    Parties,        \* lock scripts of clients, workers and others
    Signer,         \* the lock script of the configured signer
    Amounts,        \* amounts of escrows and capacities of outputs
    Occupied,       \* capacity an escrow cell occupies
    Sinces,         \* since values
    FlagUnit,       \* 2^56
    MaxHeight       \* bound: height of the chain

ASSUME SignerIsParty == Signer \in Parties
ASSUME NumbersAreNatural ==
    /\ Amounts \subseteq Nat /\ Sinces \subseteq Nat
    /\ {Occupied, MaxHeight} \subseteq Nat
    /\ FlagUnit \in Nat \ {0}

VARIABLES
    cells,      \* the escrow cells
    height      \* number of the block that is being built

vars == <<cells, height>>

Escrows == Agreements \X Indexes
NoCell == [state |-> "absent"]

Init ==
    /\ cells = [e \in Escrows |-> NoCell]
    /\ height = 0

Live == {e \in Escrows : cells[e].state = "live"}

-----------------------------------------------------------------------------
(* The lock script                                                         *)

\* parse_terms on the layout serialize_terms and encodeEscrowCellData write; a
\* cell's data is its length, magic, version, padding and timeout.
parse_terms(data) ==
    /\ data.length = 88
    /\ data.magic = "PACTESC1"
    /\ data.version = 1
    /\ data.padding = 0
    /\ data.since \div FlagUnit = 0

\* collect_lock_hashes and has_signer
has_signer(tx, party) == party \in tx.locks

\* has_exact_output counts the matches; more than one is an error.
Matches(tx, party, capacity) ==
    Cardinality({i \in DOMAIN tx.outputs :
                    /\ tx.outputs[i].lock = party
                    /\ tx.outputs[i].capacity = capacity})
has_exact_output(tx, party, capacity) == Matches(tx, party, capacity) = 1

\* A seeded fault: the meaning of since is not looked at.
TimeoutMutFlag(current, required) == current >= required

\* A seeded fault: the block of the timeout itself is too early.
TimeoutMutStrict(current, required) ==
    current \div FlagUnit = 0 /\ current > required

timeout_refund_reached(current, required) ==
    current \div FlagUnit = 0 /\ current >= required

\* A seeded fault: outputs that fit both parties are let pass.
EvaluateMutAmbiguous(cell, since, tx) ==
    LET worker_output == has_exact_output(tx, cell.worker, cell.capacity)
        client_output == has_exact_output(tx, cell.client, cell.capacity)
    IN  \/ worker_output /\ has_signer(tx, cell.client)
        \/ client_output /\ has_signer(tx, cell.worker)
        \/ client_output /\ timeout_refund_reached(since, cell.data.since)

\* evaluate_spend, for the escrow cell that the script group consists of.
evaluate_spend(cell, since, tx) ==
    LET worker_output == has_exact_output(tx, cell.worker, cell.capacity)
        client_output == has_exact_output(tx, cell.client, cell.capacity)
    IN  /\ Matches(tx, cell.worker, cell.capacity) <= 1
        /\ Matches(tx, cell.client, cell.capacity) <= 1
        /\ ~(worker_output /\ client_output)
        /\ \/ worker_output /\ has_signer(tx, cell.client)
           \/ client_output /\ has_signer(tx, cell.worker)
           \/ client_output /\ timeout_refund_reached(since, cell.data.since)

\* The inputs with the same lock script: same code, same args.
Group(e, tx) ==
    {f \in tx.inputs : /\ f[1] = e[1]
                       /\ cells[f].client = cells[e].client
                       /\ cells[f].worker = cells[e].worker}

\* validate of main.rs, run once for each group.
validate(e, tx) ==
    /\ parse_terms(cells[e].data)
    /\ Group(e, tx) = {e}
    /\ evaluate_spend(cells[e], tx.since[e], tx)

-----------------------------------------------------------------------------
(* The chain                                                               *)

Outputs == [lock: Parties, capacity: Amounts]

Transactions ==
    UNION {[inputs: {S}, since: [S -> Sinces], locks: SUBSET Parties,
            outputs: {<<o>> : o \in Outputs} \cup {<<o, q>> : o, q \in Outputs}] :
           S \in SUBSET Live \ {{}}}

\* An absolute block number keeps the transaction out of lower blocks; the other
\* meanings of since count epochs or seconds, and may be over at any time.
SinceReached(since) == since \div FlagUnit = 0 => height >= since

Included(tx) == \A e \in tx.inputs : SinceReached(tx.since[e]) /\ validate(e, tx)

Spend(tx) ==
    /\ Included(tx)
    /\ cells' = [e \in Escrows |-> IF e \in tx.inputs THEN NoCell ELSE cells[e]]
    /\ UNCHANGED height

Mine ==
    /\ height < MaxHeight
    /\ height' = height + 1
    /\ UNCHANGED cells

\* Anybody may create a cell with this lock and any data.
Deposit(e, client, worker, capacity, data) ==
    /\ cells[e] = NoCell
    /\ cells' = [cells EXCEPT ![e] =
          [state |-> "live", ours |-> FALSE, client |-> client, worker |-> worker,
           capacity |-> capacity, data |-> data]]
    /\ UNCHANGED height

-----------------------------------------------------------------------------
(* The server                                                              *)

\* A seeded fault: the highest byte is not looked at.
SinceMutAny(since) == TRUE

\* parseRefundTimeoutSince, against MAX_BLOCK_SINCE.
parseRefundTimeoutSince(since) == since <= FlagUnit - 1

encodeEscrowCellData(since) ==
    [length |-> 88, magic |-> "PACTESC1", version |-> 1, padding |-> 0, since |-> since]

\* The amount has to pay for the storage of the cell; nothing asks that the
\* parties differ.
createCommitment(amount, since) ==
    /\ parseRefundTimeoutSince(since)
    /\ amount >= Occupied

\* The transaction of the commitment is made, signed and included.
signEscrowLock(e, client, worker, amount, since) ==
    /\ createCommitment(amount, since)
    /\ cells[e] = NoCell
    /\ cells' = [cells EXCEPT ![e] =
          [state |-> "live", ours |-> TRUE, client |-> client, worker |-> worker,
           capacity |-> amount, data |-> encodeEscrowCellData(since)]]
    /\ UNCHANGED height

Destination(e, operation) ==
    IF operation = "release" THEN cells[e].worker ELSE cells[e].client
Authorizer(e, operation) ==
    IF operation = "release" THEN cells[e].client ELSE cells[e].worker

\* createSettlementIntent, and the transaction prepareAndSign makes of it: the
\* exact amount to its destination and the change of the fee cells to the signer.
SettlementTransaction(e, operation, change) ==
    [inputs |-> {e},
     since |-> [f \in {e} |-> IF operation = "refund" THEN cells[e].data.since ELSE 0],
     locks |-> {Authorizer(e, operation)},
     outputs |-> <<[lock |-> Destination(e, operation), capacity |-> cells[e].capacity],
                   [lock |-> Authorizer(e, operation), capacity |-> change]>>]

signSettlement(e, operation, change) ==
    /\ cells[e].ours
    /\ Signer = Authorizer(e, operation)
    /\ Spend(SettlementTransaction(e, operation, change))

\* verifySettlement, on a transaction that spends the escrow's outpoint.
verifySettlement(e, operation, tx) ==
    Matches(tx, Destination(e, operation), cells[e].capacity) = 1

-----------------------------------------------------------------------------
BadData ==
    {[encodeEscrowCellData(s) EXCEPT !.version = v] : s \in Sinces, v \in {1, 2}}

Next ==
    \/ Mine
    \/ \E e \in Escrows, client, worker \in Parties, amount \in Amounts :
          \/ \E since \in Sinces : signEscrowLock(e, client, worker, amount, since)
          \/ \E data \in BadData : Deposit(e, client, worker, amount, data)
    \/ \E tx \in Transactions : Spend(tx)
    \/ \E e \in Live, operation \in {"release", "refund"}, change \in Amounts :
          signSettlement(e, operation, change)

Spec == Init /\ [][Next]_vars

-----------------------------------------------------------------------------
(* Properties                                                              *)

Admitted == {tx \in Transactions : Included(tx)}

(* Whatever transaction the chain admits, each escrow it spends is met by  *)
(* one output of exactly its capacity at one of its two parties: at the    *)
(* worker with the client's signature, at the client with the worker's, or *)
(* at the client once the chain has reached the timeout.  The lock sees no *)
(* height, only the since of its input.  An escrow spent alone is thereby  *)
(* paid in full; escrows of different script groups may be met by the same *)
(* output (see EscrowSpentAlone).                                          *)
SettlesToParty ==
    \A tx \in Admitted : \A e \in tx.inputs :
        LET c == cells[e]
        IN  \/ Matches(tx, c.worker, c.capacity) = 1 /\ c.client \in tx.locks
            \/ /\ Matches(tx, c.client, c.capacity) = 1
               /\ c.worker \in tx.locks \/ height >= c.data.since

(* Once the timeout has passed, an escrow of the server can be returned to *)
(* the client without anybody's signature, unless client and worker are    *)
(* the same: then no transaction at all can spend it, which nothing in the *)
(* builder prevents.                                                       *)
RefundReachable ==
    \A e \in Live :
        LET c == cells[e]
            refund == [inputs |-> {e}, since |-> [f \in {e} |-> c.data.since],
                       locks |-> {},
                       outputs |-> <<[lock |-> c.client, capacity |-> c.capacity]>>]
        IN  (c.ours /\ height >= c.data.since)
                => (Included(refund) <=> c.client # c.worker)

(* The settlement the server builds and signs is one the lock accepts,     *)
(* with one exception: change that by chance equals the amount makes the   *)
(* outputs ambiguous.                                                      *)
BuiltSettlementUnlocks ==
    \A e \in Live, operation \in {"release", "refund"}, change \in Amounts :
        (cells[e].ours /\ cells[e].client # cells[e].worker)
            => (validate(e, SettlementTransaction(e, operation, change))
                   <=> change # cells[e].capacity)

(* The server and the lock agree on what happened: of any transaction that *)
(* spends an escrow, verifySettlement confirms exactly one of release and  *)
(* refund.                                                                 *)
LockAndServerAgree ==
    \A tx \in Admitted : \A e \in tx.inputs :
        verifySettlement(e, "release", tx) # verifySettlement(e, "refund", tx)

(* contracts/README.md: "The contract rejects [...] multiple escrow        *)
(* inputs".                                                                *)
EscrowSpentAlone == \A tx \in Admitted : \A e, f \in tx.inputs : e = f
=============================================================================
