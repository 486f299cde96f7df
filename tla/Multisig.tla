------------------------------ MODULE Multisig ------------------------------
(***************************************************************************)
(* The multi-signature wallet contract, contracts/src/multisig.rs.         *)
(*                                                                         *)
(* A contract call is one atomic step: a panic reverts every write of the  *)
(* call, so a call that would panic is simply not enabled.  require_auth   *)
(* makes the caller the address it names; the caller is the first          *)
(* parameter of an action.                                                 *)
(*                                                                         *)
(* A proposal's recipient, amount and description are stored and never     *)
(* read by the contract, so only the fields that control it are kept.      *)
(***************************************************************************)
EXTENDS Naturals, FiniteSets, Sequences, Functions

CONSTANTS
    Addr,           \* account and contract addresses
    None,           \* the value of an absent instance-storage entry
    MaxOwners,      \* bound: longest owner list passed to initialize
    MaxProposals,   \* bound: number of proposals ever submitted
    MaxTime,        \* bound: ledger timestamps
    MaxU64,         \* largest value of a u64 (a scaled-down 2^64 - 1)
    Expiries        \* proposal lifetimes an admin may set, 0 = no expiry

ASSUME MultisigAssumption ==
    /\ IsFiniteSet(Addr)
    /\ None \notin Addr
    /\ MaxOwners \in Nat
    /\ MaxProposals \in Nat
    /\ MaxU64 \in Nat
    /\ MaxTime \in 0..MaxU64
    /\ Expiries \subseteq 0..MaxU64

VARIABLES
    admin,          \* MultiSigKey::Admin, None before initialize
    owners,         \* MultiSigKey::Owners; a list without duplicates, kept as a set
    threshold,      \* MultiSigKey::Threshold
    expiry,         \* MultiSigKey::ProposalExpiry, 0 when absent
    proposals,      \* MultiSigKey::Proposal(id), for the ids allocated so far
    signed,         \* the signers with a MultiSigKey::Signature(id, signer) entry
    now             \* env.ledger().timestamp()

vars == <<admin, owners, threshold, expiry, proposals, signed, now>>

Proposal == [sign_count: Nat, executed: BOOLEAN, created_at: Nat]

\* The ids handed out so far; NextProposalId is Len(proposals) + 1.
ProposalIds == DOMAIN proposals

OwnerLists == UNION {[1..n -> Addr] : n \in 0..MaxOwners}

-----------------------------------------------------------------------------
ValidThreshold_OffByOne(t, owner_count) == t > 0 /\ t <= owner_count + 1

ValidThreshold(t, owner_count) == t > 0 /\ t <= owner_count

Initialize(caller, ownerList, t) ==
    /\ admin = None
    /\ IsInjective(ownerList)
    /\ ValidThreshold(t, Len(ownerList))
    /\ admin' = caller
    /\ owners' = Range(ownerList)
    /\ threshold' = t
    /\ UNCHANGED <<expiry, proposals, signed, now>>

SubmitProposal(proposer) ==
    /\ proposer \in owners
    /\ Len(proposals) < MaxProposals
    /\ proposals' = Append(proposals, [sign_count |-> 0,
                                       executed   |-> FALSE,
                                       created_at |-> now])
    /\ signed' = Append(signed, {})
    /\ UNCHANGED <<admin, owners, threshold, expiry, now>>

SignProposal(signer, id) ==
    /\ signer \in owners
    /\ id \in ProposalIds
    /\ signer \notin signed[id]
    /\ ~proposals[id].executed
    /\ signed' = [signed EXCEPT ![id] = @ \cup {signer}]
    /\ proposals' = [proposals EXCEPT ![id].sign_count = @ + 1]
    /\ UNCHANGED <<admin, owners, threshold, expiry, now>>

RevokeSignature(signer, id) ==
    /\ signer \in owners
    /\ id \in ProposalIds
    /\ signer \in signed[id]
    /\ ~proposals[id].executed
    /\ signed' = [signed EXCEPT ![id] = @ \ {signer}]
    /\ proposals' = [proposals EXCEPT ![id].sign_count = @ - 1]
    /\ UNCHANGED <<admin, owners, threshold, expiry, now>>

\* The deadline created_at + expiry is a checked u64 addition: when it
\* overflows, the call panics.
WithinExpiry_Unchecked(id) == TRUE

WithinExpiry(id) ==
    expiry > 0 => /\ proposals[id].created_at + expiry <= MaxU64
                  /\ now <= proposals[id].created_at + expiry

ExecuteProposal(executor, id) ==
    /\ executor \in owners
    /\ id \in ProposalIds
    /\ ~proposals[id].executed
    /\ WithinExpiry(id)
    /\ proposals[id].sign_count >= threshold
    /\ proposals' = [proposals EXCEPT ![id].executed = TRUE]
    /\ UNCHANGED <<admin, owners, threshold, expiry, signed, now>>

SetProposalExpiry(caller, seconds) ==
    /\ caller = admin
    /\ expiry' = seconds
    /\ UNCHANGED <<admin, owners, threshold, proposals, signed, now>>

UpdateThreshold(caller, t) ==
    /\ caller = admin
    /\ ValidThreshold(t, Cardinality(owners))
    /\ threshold' = t
    /\ UNCHANGED <<admin, owners, expiry, proposals, signed, now>>

AddOwner(caller, owner) ==
    /\ caller = admin
    /\ owner \notin owners
    /\ owners' = owners \cup {owner}
    /\ UNCHANGED <<admin, threshold, expiry, proposals, signed, now>>

RemoveOwner(caller, owner) ==
    /\ caller = admin
    /\ owner \in owners
    /\ Cardinality(owners) > threshold
    /\ owners' = owners \ {owner}
    /\ ValidThreshold(threshold, Cardinality(owners'))
    /\ UNCHANGED <<admin, threshold, expiry, proposals, signed, now>>

\* Ledger close: the timestamp moves on between two calls.
Tick ==
    /\ now < MaxTime
    /\ now' = now + 1
    /\ UNCHANGED <<admin, owners, threshold, expiry, proposals, signed>>

Init ==
    /\ admin = None
    /\ owners = {}
    /\ threshold = 0
    /\ expiry = 0
    /\ proposals = << >>
    /\ signed = << >>
    /\ now = 0

Next ==
    \/ \E a \in Addr, os \in OwnerLists, t \in 0..MaxOwners : Initialize(a, os, t)
    \/ \E a \in Addr : SubmitProposal(a)
    \/ \E a \in Addr, id \in ProposalIds :
          \/ SignProposal(a, id)
          \/ RevokeSignature(a, id)
          \/ ExecuteProposal(a, id)
    \/ \E a \in Addr :
          \/ \E s \in Expiries : SetProposalExpiry(a, s)
          \/ \E t \in 0..Cardinality(Addr) : UpdateThreshold(a, t)
          \/ \E o \in Addr : AddOwner(a, o) \/ RemoveOwner(a, o)
    \/ Tick

Spec == Init /\ [][Next]_vars

-----------------------------------------------------------------------------
TypeOK ==
    /\ admin \in Addr \cup {None}
    /\ owners \subseteq Addr
    /\ threshold \in Nat
    /\ expiry \in Nat
    /\ proposals \in Seq(Proposal)
    /\ signed \in Seq(SUBSET Addr)
    /\ Len(signed) = Len(proposals)
    /\ now \in 0..MaxTime

(***************************************************************************)
(* sign_count, the only thing execute_proposal looks at, is the number of  *)
(* distinct addresses whose Signature entry exists, through every order of *)
(* signing, revoking, executing and changing the owners (sign_proposal and *)
(* revoke_signature write the two separately).                             *)
(***************************************************************************)
SignCountIsSigners ==
    \A id \in ProposalIds : proposals[id].sign_count = Cardinality(signed[id])

(***************************************************************************)
(* "The owner set can never shrink below the configured threshold,         *)
(* otherwise the wallet would become permanently unable to execute a       *)
(* proposal" (remove_owner): at any time after initialize, as many distinct*)
(* owners exist as the threshold asks for, and it asks for at least one.   *)
(***************************************************************************)
ThresholdReachable ==
    admin # None => threshold > 0 /\ threshold <= Cardinality(owners)

(***************************************************************************)
(* A proposal is executed only when `threshold` distinct addresses have    *)
(* signed it and its lifetime, as configured at that moment, is not over   *)
(* (execute_proposal).                                                     *)
(***************************************************************************)
Executes(id) == ~proposals[id].executed /\ proposals'[id].executed

ExecutionBackedStep ==
    \A id \in ProposalIds : Executes(id) =>
        /\ Cardinality(signed[id]) >= threshold
        /\ expiry > 0 => now - proposals[id].created_at <= expiry

ExecutionBacked == [][ExecutionBackedStep]_vars

(***************************************************************************)
(* Execution is final: neither the proposal nor the set of its signers     *)
(* changes after it, so the signatures that authorised a payment stay on   *)
(* record (the "already executed" panics of sign, revoke and execute).     *)
(***************************************************************************)
ExecutedIsFinalStep ==
    \A id \in ProposalIds : proposals[id].executed =>
        /\ proposals'[id] = proposals[id]
        /\ signed'[id] = signed[id]

ExecutedIsFinal == [][ExecutedIsFinalStep]_vars
=============================================================================
