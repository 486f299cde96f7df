-------------------------- MODULE TimelockedUpgrade --------------------------
(***************************************************************************)
(* What the two upgrade contracts promise, contracts/src/upgradability.rs  *)
(* and contracts/src/upgradeable/proxy.rs: code is installed only as it    *)
(* was announced.  One announcement is open at a time; its target and its  *)
(* earliest time do not move while it is open; while the approval gate is  *)
(* up it must have been approved; installing or cancelling closes it.  A   *)
(* restore puts back code that was installed before and needs no           *)
(* announcement.                                                           *)
(***************************************************************************)
EXTENDS Naturals

CONSTANTS
    Target          \* what can be installed

VARIABLES
    pending,        \* the set of the open announcement, {} when there is none
    gate,           \* is an approval required to install?
    installs,       \* how often code was installed or restored
    now

vars == <<pending, gate, installs, now>>

Announcement == [target: Target, after: Nat, approved: BOOLEAN]

Init ==
    /\ pending = {}
    /\ gate = FALSE
    /\ installs = 0
    /\ now \in Nat

Announce ==
    /\ pending = {}
    /\ \E p \in pending' : /\ pending' = {p}
                           /\ p \in Announcement
                           /\ p.after >= now
                           /\ ~p.approved
    /\ UNCHANGED <<gate, installs, now>>

Approve ==
    /\ gate
    /\ pending # {}
    /\ pending' = {[target |-> p.target, after |-> p.after, approved |-> TRUE] : p \in pending}
    /\ UNCHANGED <<gate, installs, now>>

Install ==
    /\ \E p \in pending : now >= p.after /\ (gate => p.approved)
    /\ pending' = {}
    /\ installs' = installs + 1
    /\ UNCHANGED <<gate, now>>

Cancel ==
    /\ pending # {}
    /\ pending' = {}
    /\ UNCHANGED <<gate, installs, now>>

Restore ==
    /\ installs > 0
    /\ installs' = installs + 1
    /\ UNCHANGED <<pending, gate, now>>

SetGate ==
    /\ gate' \in BOOLEAN
    /\ UNCHANGED <<pending, installs, now>>

PassTime ==
    /\ now' \in Nat
    /\ now' > now
    /\ UNCHANGED <<pending, gate, installs>>

Next == Announce \/ Approve \/ Install \/ Cancel \/ Restore \/ SetGate \/ PassTime

Spec == Init /\ [][Next]_vars
=============================================================================
