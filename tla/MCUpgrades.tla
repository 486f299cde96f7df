----------------------------- MODULE MCUpgrades -----------------------------
(***************************************************************************)
(* Small instance of the two upgrade contracts for TLC.  They share no     *)
(* storage, so a behaviour of both is an interleaving of a behaviour of    *)
(* each, and it is enough to explore each one while the other is in its    *)
(* initial state.                                                          *)
(***************************************************************************)
EXTENDS Proxy, TLC

CONSTANT Hash

VARIABLES uAdmin, uTimelock, uVersion, uPreviousWasm, uPending, uGovernance, uRecords, uWasm, uNow

U == INSTANCE Upgradability WITH
    admin <- uAdmin, timelock <- uTimelock, version <- uVersion, previousWasm <- uPreviousWasm,
    pending <- uPending, governance <- uGovernance, records <- uRecords, wasm <- uWasm, now <- uNow

\* The contract tells an absent proposal from one that is there.
ASSUME UpgradesAssumption == None \notin U!UpgradeProposal

uVars == <<uAdmin, uTimelock, uVersion, uPreviousWasm, uPending, uGovernance, uRecords, uWasm, uNow>>

UpgradesInit == Init /\ U!Init

UpgradesNext ==
    \/ uAdmin = None /\ uNow = 0 /\ Next /\ UNCHANGED uVars
    \/ admin = None /\ now = 0 /\ U!Next /\ UNCHANGED vars

UpgradesSpec == UpgradesInit /\ [][UpgradesNext]_<<vars, uVars>>

HashSymmetry == Permutations(Hash)

\* The histories of both contracts tell every upgrade and rollback in order.
HistoriesAreComplete == TypeOK /\ HistoryIsAuditable /\ U!HistoryIsComplete

\* Upgradability refines TimelockedUpgrade too.
UpgradabilityAnnouncedUpgrade == U!AnnouncedUpgrade
=============================================================================
