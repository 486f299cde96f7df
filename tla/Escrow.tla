------------------------------- MODULE Escrow -------------------------------
(***************************************************************************)
(* Escrow of payments, contracts/src/escrow.rs, together with the token    *)
(* it moves.  The token (external) refuses a negative amount and one its   *)
(* payer does not have; an address may be any account or this contract.    *)
(*                                                                         *)
(* initialize may be called any number of times; each call makes its       *)
(* caller the admin and starts the ids again, so that a later escrow       *)
(* replaces an earlier one.                                                *)
(***************************************************************************)
EXTENDS Integers, FiniteSets, Functions

CONSTANTS
    Addr,           \* account addresses
    Self,           \* the escrow contract's own address
    None,           \* no address
    Supply,         \* initial token balance of each account
    Amounts,        \* amounts escrowed
    Deadlines,      \* release deadlines
    MaxEscrows,     \* bound: escrow ids ever used
    MaxTime         \* bound: ledger timestamps

EscrowIds == 1..MaxEscrows
Accounts == Addr \cup {Self}

VARIABLES
    admin,          \* EscrowDataKey::Admin
    nextId,         \* EscrowDataKey::NextEscrowId, 1 before initialize
    escrows,        \* EscrowDataKey::Escrow(id); status "Absent" before it is created
    replaced,       \* history: amounts of live escrows whose record was overwritten
    balance,        \* the token contract's balances
    now             \* env.ledger().timestamp()

vars == <<admin, nextId, escrows, replaced, balance, now>>

NoEscrow == [buyer |-> None, seller |-> None, amount |-> 0, release_deadline |-> 0,
             status |-> "Absent"]

\* token::Client::transfer
Transfer(from, to, amount) ==
    /\ amount >= 0
    /\ balance[from] >= amount
    /\ balance' = IF from = to THEN balance
                  ELSE [balance EXCEPT ![from] = @ - amount, ![to] = @ + amount]

IsLocked(e) == e.status \in {"Active", "Disputed"}

-----------------------------------------------------------------------------
Initialize(caller) ==
    /\ admin' = caller
    /\ nextId' = 1
    /\ UNCHANGED <<escrows, replaced, balance, now>>

\* The buyer's funds move to the contract.
Lock(buyer, amount) == Transfer(buyer, Self, amount)

CreateEscrow(buyer, seller, amount, deadline) ==
    /\ nextId \in EscrowIds
    /\ Lock(buyer, amount)
    /\ escrows' = [escrows EXCEPT ![nextId] =
                     [buyer |-> buyer, seller |-> seller, amount |-> amount,
                      release_deadline |-> deadline, status |-> "Active"]]
    /\ replaced' = replaced + IF IsLocked(escrows[nextId]) THEN escrows[nextId].amount ELSE 0
    /\ nextId' = nextId + 1
    /\ UNCHANGED <<admin, now>>

\* Funds leave the contract and the record is closed.
Pay_StatusLeft(id, to, status) ==
    /\ Transfer(Self, to, escrows[id].amount)
    /\ UNCHANGED <<admin, nextId, escrows, replaced, now>>

Pay(id, to, status) ==
    /\ Transfer(Self, to, escrows[id].amount)
    /\ escrows' = [escrows EXCEPT ![id].status = status]
    /\ UNCHANGED <<admin, nextId, replaced, now>>

IsActive(id) == escrows[id].status = "Active"

Release(caller, id) ==
    /\ escrows[id].buyer = caller
    /\ IsActive(id)
    /\ Pay(id, escrows[id].seller, "Released")

DisputeWindow(id) == now <= escrows[id].release_deadline

RaiseDispute(caller, id) ==
    /\ escrows[id].buyer = caller
    /\ IsActive(id)
    /\ DisputeWindow(id)
    /\ escrows' = [escrows EXCEPT ![id].status = "Disputed"]
    /\ UNCHANGED <<admin, nextId, replaced, balance, now>>

ResolveDispute(caller, id, releaseToSeller) ==
    /\ admin # None /\ caller = admin
    /\ escrows[id].status = "Disputed"
    /\ Pay(id, IF releaseToSeller THEN escrows[id].seller ELSE escrows[id].buyer, "Resolved")

ClaimExpired(caller, id) ==
    /\ escrows[id].seller = caller
    /\ IsActive(id)
    /\ now > escrows[id].release_deadline
    /\ Pay(id, escrows[id].seller, "Released")

Tick ==
    /\ now < MaxTime
    /\ now' = now + 1
    /\ UNCHANGED <<admin, nextId, escrows, replaced, balance>>

-----------------------------------------------------------------------------
Init ==
    /\ admin = None
    /\ nextId = 1
    /\ escrows = [id \in EscrowIds |-> NoEscrow]
    /\ replaced = 0
    /\ balance = [a \in Accounts |-> IF a = Self THEN 0 ELSE Supply]
    /\ now = 0

Next ==
    \/ \E c \in Addr :
          \/ Initialize(c)
          \/ \E s \in Addr, amount \in Amounts, d \in Deadlines : CreateEscrow(c, s, amount, d)
          \/ \E id \in EscrowIds :
                \/ Release(c, id)
                \/ RaiseDispute(c, id)
                \/ \E toSeller \in BOOLEAN : ResolveDispute(c, id, toSeller)
                \/ ClaimExpired(c, id)
    \/ Tick

Spec == Init /\ [][Next]_vars

-----------------------------------------------------------------------------
LockedIn == [id \in EscrowIds |-> IF IsLocked(escrows[id]) THEN escrows[id].amount ELSE 0]

\* The contract's token balance is exactly the live escrows it can still pay,
\* plus what re-initialization has stranded: no escrow is paid out twice or
\* out of another one's funds.
CustodyIsExact == balance[Self] = replaced + SumFunction(LockedIn)
=============================================================================
