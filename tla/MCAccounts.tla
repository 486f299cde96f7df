----------------------------- MODULE MCAccounts -----------------------------
(***************************************************************************)
(* Small instances, for TLC, of the multi-signature contract and of the    *)
(* backend's accounts: who a user is, what was verified of them, how often *)
(* they may call, what they pay and are paid, and the assets and cached    *)
(* copies kept for them. They share no state here, and each is explored    *)
(* while the others are in their initial states.                           *)
(***************************************************************************)
EXTENDS Multisig, TLC

CONSTANTS
    KycUsers, KycMatchLists, KycWorths, KycAccreditedThreshold, KycMaxLog, KycMaxScreenings,
    KycMaxDocuments, KycPercents, KycWhole, KycMaxOwners, AuthPasswords, AuthCodes,
    AuthMaxFailedAttempts, AuthLockoutDuration, AuthResetTTL, AuthEmailTTL, AuthEmailLimit,
    AuthEmailWindow, AuthMaxTokens, AuthMaxTime, AuthSocialReqs, AuthIdentities, AuthEmailOf,
    AuthEmails, AuthMaxUsers, LimRate, LimBurst, LimIdle, LimCleanupEvery, LimGetBurst,
    LimMutateBurst, LimTTL, LimMaxTime, LimMaxRequests, LimDeviceTokens, LimLifetime,
    LimSessionCacheTTL, LimDeviceMaxTime, PayKeys, PayParams, PayStatuses, PayKeyTTL,
    PayMaxPayments, PayMaxTime, PayMaxWebhooks, RefUsers, RefIPs, RefMaxUses, RefTiers,
    RefBonus, RefStakers, RefAmounts, RefAprs, RefBpsUnit, RefYear, RefMaxTime,
    RefMaxPositions, RefMaxStake, AstUris, AstCacheTTL, AstMaxVersions, AstMaxTime,
    Components         \* the components explored

VARIABLES
    focus,             \* the component that moves
    kycRecord, kycVerified, kycAccredited, kycScreenings, kycDocuments, kycLog, kycReq,
    kycRaced, kycHuman,
    kycOwners, kycDocs, kycOwnerLog, kycOwnerReq, kycOwnerRaced,
    authUser, authCodes, authSessions, authWindow, authReq, authTokens, authNow, authSignedIn,
    authTouched, authStale, authPassword, authSpent, authFailures,
    authUsers, authLinks, authSocialReq, authSocialSessions, authOrphans,
    limBucket, limCounter, limNow, limCleaned, limAdmitted, limCounted, limRefused, limFailOpen,
    limDeviceNow, limDeviceSessions, limCache, limDeviceReq, limLast, limRaced,
    payPayments, payReq, payReconciled, payWebhooks, payNow,
    refCodes, refReferrals, refRewards, refReq, refRaced,
    refPositions, refPaid, refStakeReq, refNow, refLost,
    astNow, astAsset, astVersions, astListed, astTransferred, astDetail, astList, astReq,
    astSeen, astHad, astRaced,
    twoL1, twoRedis, twoCb, twoReq, twoNow, twoWrites, twoLatest, twoRaced, twoMissed,
    twoChannel, twoCached, twoWorker, twoStats, twoCancelled, twoDone

MCSocialReqs == Addr \cup {"r"}

\* One identity whose provider tells an e-mail address, and one without.
MCEmailOf == "i" :> "a" @@ "j" :> ""

MCTiers == <<[min |-> 1, commission |-> 3], [min |-> 0, commission |-> 2]>>

Kyc == INSTANCE KYCHandler WITH
    Users <- KycUsers, Reqs <- Addr, MatchLists <- KycMatchLists, Worths <- KycWorths,
    AccreditedThreshold <- KycAccreditedThreshold, MaxLog <- KycMaxLog,
    MaxScreenings <- KycMaxScreenings, MaxDocuments <- KycMaxDocuments,
    Percents <- KycPercents, Whole <- KycWhole, MaxOwners <- KycMaxOwners,
    record <- kycRecord, verified <- kycVerified, accredited <- kycAccredited,
    screenings <- kycScreenings, documents <- kycDocuments, log <- kycLog, req <- kycReq,
    raced <- kycRaced, human <- kycHuman, owners <- kycOwners, docs <- kycDocs,
    ownerLog <- kycOwnerLog, ownerReq <- kycOwnerReq, ownerRaced <- kycOwnerRaced

Auth == INSTANCE AuthHandler WITH
    Reqs <- Addr, Passwords <- AuthPasswords, Codes <- AuthCodes,
    maxFailedAttempts <- AuthMaxFailedAttempts, lockoutDuration <- AuthLockoutDuration,
    ResetTTL <- AuthResetTTL, EmailTTL <- AuthEmailTTL, EmailLimit <- AuthEmailLimit,
    EmailWindow <- AuthEmailWindow, MaxTokens <- AuthMaxTokens, MaxTime <- AuthMaxTime,
    SocialReqs <- AuthSocialReqs, Identities <- AuthIdentities, EmailOf <- AuthEmailOf,
    Emails <- AuthEmails, MaxUsers <- AuthMaxUsers,
    user <- authUser, codes <- authCodes, sessions <- authSessions, window <- authWindow,
    req <- authReq, tokens <- authTokens, now <- authNow, signedIn <- authSignedIn,
    touched <- authTouched, stale <- authStale, password <- authPassword, spent <- authSpent,
    failures <- authFailures, users <- authUsers, links <- authLinks,
    socialReq <- authSocialReq, socialSessions <- authSocialSessions, orphans <- authOrphans

Lim == INSTANCE Middleware WITH
    rps <- LimRate, burst <- LimBurst, Idle <- LimIdle, CleanupEvery <- LimCleanupEvery,
    GetBurst <- LimGetBurst, MutateBurst <- LimMutateBurst, TTL <- LimTTL,
    MaxTime <- LimMaxTime, MaxRequests <- LimMaxRequests, DeviceReqs <- Addr,
    DeviceTokens <- LimDeviceTokens, Lifetime <- LimLifetime,
    sessionCacheTTL <- LimSessionCacheTTL, DeviceMaxTime <- LimDeviceMaxTime,
    bucket <- limBucket, counter <- limCounter, now <- limNow, cleaned <- limCleaned,
    admitted <- limAdmitted, counted <- limCounted, refused <- limRefused,
    failOpen <- limFailOpen, deviceNow <- limDeviceNow, deviceSessions <- limDeviceSessions,
    cache <- limCache, deviceReq <- limDeviceReq, last <- limLast, raced <- limRaced

Pay == INSTANCE PaymentGateway WITH
    Reqs <- Addr, Keys <- PayKeys, Params <- PayParams, Statuses <- PayStatuses,
    KeyTTL <- PayKeyTTL, MaxPayments <- PayMaxPayments, MaxTime <- PayMaxTime,
    MaxWebhooks <- PayMaxWebhooks,
    payments <- payPayments, req <- payReq, reconciled <- payReconciled,
    webhooks <- payWebhooks, now <- payNow

Ref == INSTANCE ReferralService WITH
    Reqs <- Addr, Users <- RefUsers, IPs <- RefIPs, MaxUses <- RefMaxUses, Tiers <- RefTiers,
    refereeBonusUSD <- RefBonus, Stakers <- RefStakers, Amounts <- RefAmounts, Aprs <- RefAprs,
    BpsUnit <- RefBpsUnit, Year <- RefYear, MaxTime <- RefMaxTime,
    MaxPositions <- RefMaxPositions, MaxStake <- RefMaxStake,
    codes <- refCodes, referrals <- refReferrals, rewards <- refRewards, req <- refReq,
    raced <- refRaced, positions <- refPositions, paid <- refPaid, stakeReq <- refStakeReq,
    now <- refNow, lost <- refLost

Ast == INSTANCE AssetHandler WITH
    Reqs <- Addr, Uris <- AstUris, CacheTTL <- AstCacheTTL, MaxVersions <- AstMaxVersions,
    MaxTime <- AstMaxTime,
    now <- astNow, asset <- astAsset, versions <- astVersions, listed <- astListed,
    transferred <- astTransferred, detail <- astDetail, list <- astList, req <- astReq,
    seen <- astSeen, had <- astHad, raced <- astRaced

Two == INSTANCE TwoTierCache WITH
    Reqs <- Addr, Keys <- {"k", "l"}, Values <- {1, 2, 4}, maxEntries <- 2, maxSizeBytes <- 3,
    failureThreshold <- 2, openTimeout <- 1, L1TTL <- 0, SetTTL <- 1, MaxTime <- 1,
    MaxWrites <- 2, Workers <- 1..2, Targets <- <<1, 2, 3>>,
    l1 <- twoL1, redis <- twoRedis, cb <- twoCb, req <- twoReq, now <- twoNow,
    writes <- twoWrites, latest <- twoLatest, raced <- twoRaced, missed <- twoMissed,
    channel <- twoChannel, cached <- twoCached, worker <- twoWorker, stats <- twoStats,
    cancelled <- twoCancelled, done <- twoDone

kycVars == <<kycRecord, kycVerified, kycAccredited, kycScreenings, kycDocuments, kycLog,
    kycReq, kycRaced, kycHuman>>
kycOwnerVars == <<kycOwners, kycDocs, kycOwnerLog, kycOwnerReq, kycOwnerRaced>>
authVars == <<authUser, authCodes, authSessions, authWindow, authReq, authTokens, authNow,
    authSignedIn, authTouched, authStale, authPassword, authSpent, authFailures>>
authSocialVars == <<authUsers, authLinks, authSocialReq, authSocialSessions, authOrphans>>
limVars == <<limBucket, limCounter, limNow, limCleaned, limAdmitted, limCounted, limRefused,
    limFailOpen>>
limDeviceVars == <<limDeviceNow, limDeviceSessions, limCache, limDeviceReq, limLast, limRaced>>
payVars == <<payPayments, payReq, payReconciled, payWebhooks, payNow>>
refVars == <<refCodes, refReferrals, refRewards, refReq, refRaced>>
refStakeVars == <<refPositions, refPaid, refStakeReq, refNow, refLost>>
astVars == <<astNow, astAsset, astVersions, astListed, astTransferred, astDetail, astList,
    astReq, astSeen, astHad, astRaced>>
twoVars == <<twoL1, twoRedis, twoCb, twoReq, twoNow, twoWrites, twoLatest, twoRaced, twoMissed>>
twoWarmVars == <<twoChannel, twoCached, twoWorker, twoStats, twoCancelled, twoDone>>

all == <<focus, vars, kycVars, kycOwnerVars, authVars, authSocialVars, limVars, limDeviceVars,
    payVars, refVars, refStakeVars, astVars, twoVars, twoWarmVars>>

AccountsInit ==
    /\ focus \in Components
    /\ Init
    /\ Kyc!Init
    /\ Kyc!OwnerInit
    /\ Auth!Init
    /\ Auth!SocialInit
    /\ Lim!Init
    /\ Lim!DeviceInit
    /\ Pay!Init
    /\ Ref!Init
    /\ Ref!StakeInit
    /\ Ast!Init
    /\ Two!Init
    /\ Two!WarmInit
    /\ focus # "auth" => authUser = None
    /\ focus # "oauth" => authUsers = <<>>
    /\ focus # "warming" => twoCached = {}
    /\ focus # "assets" => astAsset = None

\* The component k moves, the others stay in their initial states.
Alone(k) ==
    /\ focus = k /\ UNCHANGED focus
    /\ IF k = "multisig" THEN TRUE ELSE UNCHANGED vars
    /\ IF k = "kyc" THEN TRUE ELSE UNCHANGED kycVars
    /\ IF k = "owners" THEN TRUE ELSE UNCHANGED kycOwnerVars
    /\ IF k = "auth" THEN TRUE ELSE UNCHANGED authVars
    /\ IF k = "oauth" THEN TRUE ELSE UNCHANGED authSocialVars
    /\ IF k = "rate_limits" THEN TRUE ELSE UNCHANGED limVars
    /\ IF k = "sessions" THEN TRUE ELSE UNCHANGED limDeviceVars
    /\ IF k = "payments" THEN TRUE ELSE UNCHANGED payVars
    /\ IF k = "referrals" THEN TRUE ELSE UNCHANGED refVars
    /\ IF k = "staking" THEN TRUE ELSE UNCHANGED refStakeVars
    /\ IF k = "assets" THEN TRUE ELSE UNCHANGED astVars
    /\ IF k = "tiers" THEN TRUE ELSE UNCHANGED twoVars
    /\ IF k = "warming" THEN TRUE ELSE UNCHANGED twoWarmVars

AccountsNext ==
    \/ Alone("multisig") /\ Next
    \/ Alone("kyc") /\ Kyc!Next
    \/ Alone("owners") /\ Kyc!OwnerNext
    \/ Alone("auth") /\ Auth!Next
    \/ Alone("oauth") /\ Auth!SocialNext
    \/ Alone("rate_limits") /\ Lim!Next
    \/ Alone("sessions") /\ Lim!DeviceNext
    \/ Alone("payments") /\ Pay!Next
    \/ Alone("referrals") /\ Ref!Next
    \/ Alone("staking") /\ Ref!StakeNext
    \/ Alone("assets") /\ Ast!Next
    \/ Alone("tiers") /\ Two!Next
    \/ Alone("warming") /\ Two!WarmNext

AccountsSpec == AccountsInit /\ [][AccountsNext]_all

ASSUME LimitAssumption ==
    /\ LimRate \in Nat /\ LimBurst \in Nat /\ LimIdle \in Nat /\ LimTTL \in Nat
    /\ LimGetBurst \in Nat \ {0} /\ LimMutateBurst \in Nat \ {0}
    /\ None \notin Lim!rateLimitEntry \cup Lim!Counter \cup Lim!Refusal

ASSUME PaymentAssumption == None \notin PayKeys /\ PayKeyTTL \in Nat

\* The lowest tier is everybody's.
ASSUME ReferralAssumption ==
    /\ None \notin Ref!Referral \cup Nat
    /\ RefTiers \in Seq([min : Nat, commission : Int])
    /\ \E k \in DOMAIN RefTiers : RefTiers[k].min = 0
    /\ RefMaxUses \in Nat /\ RefBonus \in Int

ASSUME StakingAssumption ==
    RefAmounts \subseteq Nat \ {0} /\ RefAprs \subseteq Nat /\ RefBpsUnit \in Nat \ {0} /\ RefYear \in Nat \ {0}

\* A token of a mail is a number, a recovery code is not.
ASSUME CredentialAssumption ==
    /\ AuthMaxTokens \in Nat /\ AuthEmailTTL \in Nat /\ AuthResetTTL \in Nat
    /\ AuthLockoutDuration \in Nat
    /\ \A c \in AuthCodes : c \notin Nat
    /\ LimLifetime \in Nat /\ LimSessionCacheTTL \in Nat \ {0}

ASSUME ComplianceAssumption == None \notin Kyc!KYCRecord /\ KycPercents \subseteq Int /\ KycWhole \in Nat

ASSUME AssetAssumption == AstCacheTTL \in Nat /\ None \notin Ast!AllRows

\* No component names an address or a request.
AddrSymmetry == Permutations(Addr)

-----------------------------------------------------------------------------
\* Every component keeps to its types.
AccountsTypeOK ==
    /\ TypeOK /\ Kyc!TypeOK /\ Kyc!OwnerTypeOK /\ Auth!TypeOK /\ Auth!SocialTypeOK /\ Lim!DeviceTypeOK /\ Lim!TypeOK
    /\ Pay!TypeOK /\ Ref!TypeOK /\ Ref!StakeTypeOK
    /\ Ast!TypeOK /\ Two!TypeOK /\ Two!WarmTypeOK

\* The compliance log explains every status, and shares of a company add up.
ComplianceIsTold == Kyc!LogTellsStatus /\ Kyc!OwnershipIsBounded

\* Passwords, codes and tokens are what their user last made them, one
\* identity of a provider is one user, and a revoked session is refused, at
\* the latest when its cached check lapses.
CredentialsAreKept ==
    Auth!CredentialsAreKept /\ Auth!OneUserPerIdentity /\ Lim!RevocationIsBounded

\* No window admits more calls than the limits in force allow.
LimitsHold == Lim!LimitsHold

\* One live charge for each key, rewards only for what earned them, and
\* stakers are paid what their claims count.
PaidOnce == Pay!OneChargePerKey /\ Ref!RewardsFollowReferrals /\ Ref!ClaimsAreCounted

\* An asset's metadata, its history and what is cached of it agree.
MetadataIsKept == Ast!MetadataIsKept

\* The tiers of the cache are bounded and hold what was set last, and a
\* warming accounts for its targets.
TiersAgree == Two!TierIsBounded /\ Two!TiersAgree /\ Two!StatsAddUp

\* payment_gateway.go:70: "Reusing a live key with different payment
\* parameters returns ErrIdempotencyConflict."
AnswersMatchRequests == Pay!AnswersMatchRequests

\* referral_service.go:144: "It is idempotent: already rewarded referrals are
\* returned unchanged."
QualifyIsIdempotent == Ref!QualifyIsIdempotent

\* handlers/kyc.go:424: "Flagged never auto-clears or auto-rejects -- it waits
\* for a human decision".
FlaggedWaitsForReview == Kyc!FlaggedWaitsForReview
=============================================================================
