------------------------- MODULE CoOwnedAssetExchange -------------------------
(***************************************************************************)
(* The co-owned bond chaincode of samples/fabric/simplecoownedinteropasset *)
(* (assetmgmt.go) together with the collaborators it calls: the bond      *)
(* registry (bondasset.go), the contract-id lookup maps and the shared    *)
(* HTLC primitives of the assetexchange library.  The last three are not  *)
(* part of this repository's src/ and are modelled from spec.md.          *)
(*                                                                         *)
(* Each chaincode invocation is one atomic step: Fabric endorses a        *)
(* transaction against one snapshot and commits all of its writes or,     *)
(* when the function returns an error, none of them.  An error path is    *)
(* therefore a guard that is false, and the state does not change.        *)
(***************************************************************************)
EXTENDS Integers, SequencesExt

CONSTANTS
    Keys,            \* asset keys: getBondAssetKey(type, id)
    Ids,             \* base64 ECert identities of callers and co-owners
    IsSubstring(_, _), \* IsSubstring(x, y): identity x occurs inside y
    Preimages,       \* hash preimages a claimer may present
    Hashes,          \* HashBase64 values a lock may carry
    HashOf,          \* base64(SHA-256(preimage)) as a function
    ContractIds,     \* contract ids the library may generate
    MaxTime,         \* last ledger second modelled
    Maturities,      \* maturity dates (epoch seconds) a caller may supply
    MaxOwners,       \* longest co-owner / recipient list modelled
    UintWidth,       \* bit width of Go's uint64 (scaled down for TLC)
    SeedAssets,      \* bonds InitBondSharedAssetLedger writes, NoAsset elsewhere
    NoAsset, NoLock, NoKey, NoContract

ASSUME HashOf \in [Preimages -> Hashes]

VARIABLES
    now,             \* time.Now().Unix() of the next transaction
    asset,           \* bond asset records of the world state
    lock,            \* the library's shared-asset lock record per asset
    contractOfAsset, \* lookup map half: asset key -> contract id
    assetOfContract, \* lookup map half: contract id -> asset key
    status           \* history: life-cycle of every contract id issued

vars == <<now, asset, lock, contractOfAsset, assetOfContract, status>>

Times == 0..MaxTime

\* Expiries a locker may choose: the clock must be able to pass them.
LockExpiries == 0..(MaxTime - 1)

\* Identity lists as they appear after strings.Split on ",".
IdLists == SeqOf(Ids, MaxOwners) \ {<<>>}

BondAsset == [coOwners : IdLists, maturity : Maturities]

ASSUME SeedAssets \in [Keys -> BondAsset \cup {NoAsset}]

LockRecord == [lockers : IdLists, recipients : IdLists, hash : Hashes,
               expiry : Times, cid : ContractIds]

TypeOK ==
    /\ now \in Times
    /\ asset \in [Keys -> BondAsset \cup {NoAsset}]
    /\ lock \in [Keys -> LockRecord \cup {NoLock}]
    /\ contractOfAsset \in [Keys -> ContractIds \cup {NoContract}]
    /\ assetOfContract \in [ContractIds -> Keys \cup {NoKey}]
    /\ status \in [ContractIds -> {"fresh", "locked", "claimed", "unlocked"}]

-----------------------------------------------------------------------------
(* Conversions and helpers of assetmgmt.go                                *)

\* strings.Contains(strings.Join(list, ","), x).  ECerts are base64 and
\* contain no comma, so a match lies inside one element of the list.
StringsContains(list, x) == \E i \in DOMAIN list : IsSubstring(x, list[i])

\* ifEqualSets(a, b): equal length, and each element of one list is a
\* substring of the comma-joined other.  The second loop ranges over a but
\* indexes b, which is safe only because the lengths are equal.
ifEqualSets(a, b) ==
    /\ Len(a) = Len(b)
    /\ \A i \in DOMAIN a : StringsContains(b, a[i])
    /\ \A i \in DOMAIN a : StringsContains(a, b[i])

\* uint64(t) for an int64 t in Go: two's complement wrap.
ToUint64(t) == t % (2 ^ UintWidth)

IsCoOwner(u, k) == u \in ToSet(asset[k].coOwners)

-----------------------------------------------------------------------------
(* Collaborators modelled from spec.md                                    *)

\* Library unlock precondition: the expiry has elapsed.
LibExpired(l) == now > l.expiry

\* Library claim checks: preimage matches, not expired, caller a recipient.
LibClaimChecks(l, p, u) ==
    /\ HashOf[p] = l.hash
    /\ now <= l.expiry
    /\ u \in ToSet(l.recipients)

\* Mutant of ContractIdAssetsLookupMap: the asset key written as contract.
ContractIdAssetsLookupMapSwapped(k, c) ==
    /\ contractOfAsset' = [contractOfAsset EXCEPT ![k] = k]
    /\ assetOfContract' = [assetOfContract EXCEPT ![c] = k]

\* Writes both halves of the contract-id lookup map.
ContractIdAssetsLookupMap(k, c) ==
    /\ contractOfAsset' = [contractOfAsset EXCEPT ![k] = c]
    /\ assetOfContract' = [assetOfContract EXCEPT ![c] = k]

\* Deletes both halves, reading the contract id from the asset-keyed half;
\* a missing entry is an error.
DeleteAssetLookupMaps(k) ==
    /\ contractOfAsset[k] # NoContract
    /\ contractOfAsset' = [contractOfAsset EXCEPT ![k] = NoContract]
    /\ assetOfContract' = [assetOfContract EXCEPT ![contractOfAsset[k]] = NoKey]

\* Deletes both halves given both the asset key and the contract id.
DeleteAssetLookupMapsUsingContractId(k, c) ==
    /\ contractOfAsset' = [contractOfAsset EXCEPT ![k] = NoContract]
    /\ assetOfContract' = [assetOfContract EXCEPT ![c] = NoKey]

\* Deletes both halves, reading the asset key from the contract-keyed half.
DeleteAssetLookupMapsOnlyUsingContractId(c) ==
    /\ assetOfContract[c] # NoKey
    /\ contractOfAsset' = [contractOfAsset EXCEPT ![assetOfContract[c]] = NoContract]
    /\ assetOfContract' = [assetOfContract EXCEPT ![c] = NoKey]

\* The library's lock lookup by contract id.
LockedUnder(k, c) == lock[k] # NoLock /\ lock[k].cid = c

-----------------------------------------------------------------------------
(* Bond registry (bondasset.go), modelled from spec.md section 4.1.  Face  *)
(* value and issuer are not modelled: no check of this code reads them.   *)

CreateSharedAsset(k, owners, m) ==
    /\ asset[k] = NoAsset
    /\ m >= now                         \* "maturity date can not be in past"
    /\ asset' = [asset EXCEPT ![k] = [coOwners |-> owners, maturity |-> m]]
    /\ UNCHANGED <<now, lock, contractOfAsset, assetOfContract, status>>

UpdateMaturityDate(u, k, m) ==
    /\ asset[k] # NoAsset
    /\ IsCoOwner(u, k)
    /\ asset' = [asset EXCEPT ![k].maturity = m]
    /\ UNCHANGED <<now, lock, contractOfAsset, assetOfContract, status>>

\* No check of the caller (spec.md section 9).
UpdateCoOwners(k, owners) ==
    /\ asset[k] # NoAsset
    /\ asset' = [asset EXCEPT ![k].coOwners = owners]
    /\ UNCHANGED <<now, lock, contractOfAsset, assetOfContract, status>>

DeleteAsset(u, k) ==
    /\ asset[k] # NoAsset
    /\ IsCoOwner(u, k)
    /\ asset' = [asset EXCEPT ![k] = NoAsset]
    /\ UNCHANGED <<now, lock, contractOfAsset, assetOfContract, status>>

\* Puts the sample bonds, overwriting whatever is stored under their keys;
\* no existence, lock or caller check (its unit test only expects PutState).
InitBondSharedAssetLedger ==
    /\ asset' = [k \in Keys |-> IF SeedAssets[k] = NoAsset THEN asset[k]
                                                         ELSE SeedAssets[k]]
    /\ UNCHANGED <<now, lock, contractOfAsset, assetOfContract, status>>

-----------------------------------------------------------------------------
(* main.go                                                                *)

CcTypes == {"Bond", "Token"}

\* InitLedger: an ordinary transaction function, callable at any time;
\* any ccType other than "Bond" is an error.
InitLedger(ccType) ==
    /\ ccType = "Bond"
    /\ InitBondSharedAssetLedger

-----------------------------------------------------------------------------
(* assetmgmt.go                                                           *)

\* BondAssetSpecificChecks: ReadSharedAsset(.., false) needs the asset and
\* the caller among its co-owners; the locker list must equal the
\* co-owners by ifEqualSets; the maturity must not precede the expiry.
BondAssetSpecificChecks(u, k, lockers, e) ==
    /\ asset[k] # NoAsset
    /\ IsCoOwner(u, k)
    /\ ifEqualSets(asset[k].coOwners, lockers)
    /\ ToUint64(asset[k].maturity) >= e

\* Mutant of LockSharedAsset: the lookup-map write (lines 105-109) missing.
LockSharedAssetNoLookupMap(u, k, lockers, recipients, h, e, c) ==
    /\ BondAssetSpecificChecks(u, k, lockers, e)
    /\ lock[k] = NoLock
    /\ status[c] = "fresh"
    /\ lock' = [lock EXCEPT ![k] = [lockers |-> lockers, recipients |-> recipients,
                                     hash |-> h, expiry |-> e, cid |-> c]]
    /\ status' = [status EXCEPT ![c] = "locked"]
    /\ UNCHANGED <<now, asset, contractOfAsset, assetOfContract>>

\* LockSharedAsset: specific checks, library lock under a fresh contract id
\* (fails if the asset is already locked), then both lookup halves.
LockSharedAsset(u, k, lockers, recipients, h, e, c) ==
    /\ BondAssetSpecificChecks(u, k, lockers, e)
    /\ lock[k] = NoLock
    /\ status[c] = "fresh"
    /\ lock' = [lock EXCEPT ![k] = [lockers |-> lockers, recipients |-> recipients,
                                     hash |-> h, expiry |-> e, cid |-> c]]
    /\ status' = [status EXCEPT ![c] = "locked"]
    /\ ContractIdAssetsLookupMap(k, c)
    /\ UNCHANGED <<now, asset>>

\* IsSharedAssetLocked / IsSharedAssetLockedQueryUsingContractId.
IsSharedAssetLocked(k) == lock[k] # NoLock
IsSharedAssetLockedQueryUsingContractId(c) == \E k \in Keys : LockedUnder(k, c)

\* Mutant of ClaimSharedAsset: the caller check against the agreement's
\* Recipient string (line 146) missing.
ClaimSharedAssetNoCallerCheck(u, k, recipients, p) ==
    /\ lock[k] # NoLock
    /\ LibClaimChecks(lock[k], p, u)
    /\ asset[k] # NoAsset
    /\ asset' = [asset EXCEPT ![k].coOwners = recipients]
    /\ lock' = [lock EXCEPT ![k] = NoLock]
    /\ status' = [status EXCEPT ![lock[k].cid] = "claimed"]
    /\ DeleteAssetLookupMaps(k)
    /\ UNCHANGED now

\* ClaimSharedAsset: the library claim on the agreement's asset, then the
\* asset read, the substring check of the caller against the agreement's
\* Recipient string, co-owners := that string split, lookup maps deleted.
ClaimSharedAsset(u, k, recipients, p) ==
    /\ lock[k] # NoLock
    /\ LibClaimChecks(lock[k], p, u)
    /\ asset[k] # NoAsset
    /\ StringsContains(recipients, u)
    /\ asset' = [asset EXCEPT ![k].coOwners = recipients]
    /\ lock' = [lock EXCEPT ![k] = NoLock]
    /\ status' = [status EXCEPT ![lock[k].cid] = "claimed"]
    /\ DeleteAssetLookupMaps(k)
    /\ UNCHANGED now

\* ClaimAssetUsingContractId: the library claim by contract id, the asset
\* key fetched from the lookup map, co-owners := the lock's recipients.
ClaimAssetUsingContractId(u, c, p) ==
    \E k \in Keys :
       LET l == lock[k]
           ak == assetOfContract[c]
       IN /\ LockedUnder(k, c)
          /\ LibClaimChecks(l, p, u)
          /\ ak # NoKey
          /\ asset[ak] # NoAsset
          /\ StringsContains(l.recipients, u)
          /\ asset' = [asset EXCEPT ![ak].coOwners = l.recipients]
          /\ lock' = [lock EXCEPT ![k] = NoLock]
          /\ status' = [status EXCEPT ![c] = "claimed"]
          /\ DeleteAssetLookupMapsUsingContractId(ak, c)
          /\ UNCHANGED now

\* UnlockSharedAsset: library unlock of the agreement's asset once expired,
\* then the lookup maps of that asset deleted.
UnlockSharedAsset(k) ==
    /\ lock[k] # NoLock
    /\ LibExpired(lock[k])
    /\ lock' = [lock EXCEPT ![k] = NoLock]
    /\ status' = [status EXCEPT ![lock[k].cid] = "unlocked"]
    /\ DeleteAssetLookupMaps(k)
    /\ UNCHANGED <<now, asset>>

\* Mutant of UnlockSharedAssetUsingContractId: lookup maps not deleted.
UnlockSharedAssetUsingContractIdKeepMaps(c) ==
    \E k \in Keys :
       /\ LockedUnder(k, c)
       /\ LibExpired(lock[k])
       /\ lock' = [lock EXCEPT ![k] = NoLock]
       /\ status' = [status EXCEPT ![c] = "unlocked"]
       /\ UNCHANGED <<now, asset, contractOfAsset, assetOfContract>>

\* UnlockSharedAssetUsingContractId: library unlock by contract id once
\* expired, then the lookup maps resolved from the contract id deleted.
UnlockSharedAssetUsingContractId(c) ==
    \E k \in Keys :
       /\ LockedUnder(k, c)
       /\ LibExpired(lock[k])
       /\ lock' = [lock EXCEPT ![k] = NoLock]
       /\ status' = [status EXCEPT ![c] = "unlocked"]
       /\ DeleteAssetLookupMapsOnlyUsingContractId(c)
       /\ UNCHANGED <<now, asset>>

\* The wall clock moves on between transactions.
Tick ==
    /\ now < MaxTime
    /\ now' = now + 1
    /\ UNCHANGED <<asset, lock, contractOfAsset, assetOfContract, status>>

-----------------------------------------------------------------------------

\* A freshly instantiated chaincode: empty world state.
Init ==
    /\ now = 0
    /\ asset = [k \in Keys |-> NoAsset]
    /\ lock = [k \in Keys |-> NoLock]
    /\ contractOfAsset = [k \in Keys |-> NoContract]
    /\ assetOfContract = [c \in ContractIds |-> NoKey]
    /\ status = [c \in ContractIds |-> "fresh"]

Next ==
    \/ Tick
    \/ \E t \in CcTypes : InitLedger(t)
    \/ \E k \in Keys :
          \/ \E owners \in IdLists, m \in Maturities : CreateSharedAsset(k, owners, m)
          \/ \E u \in Ids, m \in Maturities : UpdateMaturityDate(u, k, m)
          \/ \E owners \in IdLists : UpdateCoOwners(k, owners)
          \/ \E u \in Ids : DeleteAsset(u, k)
          \/ \E u \in Ids, lockers, recipients \in IdLists, h \in Hashes,
                e \in LockExpiries, c \in ContractIds :
                LockSharedAsset(u, k, lockers, recipients, h, e, c)
          \/ \E u \in Ids, recipients \in IdLists, p \in Preimages :
                ClaimSharedAsset(u, k, recipients, p)
          \/ UnlockSharedAsset(k)
    \/ \E c \in ContractIds :
          \/ \E u \in Ids, p \in Preimages : ClaimAssetUsingContractId(u, c, p)
          \/ UnlockSharedAssetUsingContractId(c)

Spec == Init /\ [][Next]_vars

\* A locker who keeps asking for a refund by contract id after expiry, and
\* a clock that keeps running.
FairSpec ==
    /\ Spec
    /\ WF_vars(Tick)
    /\ \A c \in ContractIds : WF_vars(UnlockSharedAssetUsingContractId(c))

-----------------------------------------------------------------------------
(* Properties                                                             *)

\* The two halves of the lookup map written by ContractIdAssetsLookupMap
\* and removed by the three DeleteAssetLookupMaps* variants stay mutual
\* inverses, and an entry exists exactly while the library holds a lock on
\* that asset under that contract id: whichever entry point (agreement or
\* contract id) locked, claimed or unlocked, nothing is left half-written.
LookupIndexConsistent ==
    \A k \in Keys, c \in ContractIds :
        /\ LockedUnder(k, c) = (contractOfAsset[k] = c)
        /\ (contractOfAsset[k] = c) = (assetOfContract[c] = k)

\* The HTLC promise (spec.md glossary): an open lock stays redeemable by
\* its recipients with the preimage until the expiry, whatever else the
\* chaincode admits meanwhile.  Both claim functions read the bond
\* (ReadSharedAsset at lines 142 and 199) after the library has admitted
\* the claimer, so a bond deleted under the lock cannot be claimed.
RecipientCanClaimUntilExpiry ==
    \A k \in Keys :
        (IsSharedAssetLocked(k) /\ now <= lock[k].expiry)
        => \A u \in ToSet(lock[k].recipients), p \in Preimages :
              HashOf[p] = lock[k].hash
              => ENABLED ClaimAssetUsingContractId(u, lock[k].cid, p)

\* A claim never takes the bond away from every recipient the lock names:
\* at least one of them is a co-owner afterwards.  For ClaimSharedAsset,
\* which rewrites the co-owners from the caller's agreement, this rests on
\* the check of the caller against the agreement's Recipient (line 146)
\* together with the library's check of the caller against the lock.
ClaimKeepsALockRecipient ==
    [][\A k \in Keys :
          (/\ lock[k] # NoLock
           /\ status'[lock[k].cid] = "claimed")
          => /\ asset'[k] # NoAsset
             /\ ToSet(asset'[k].coOwners) \cap ToSet(lock[k].recipients) # {}]_vars

\* A lock whose expiry has passed is eventually released when the locker
\* keeps calling UnlockSharedAssetUsingContractId: no sequence of registry
\* updates, deletions or lookup-map states can strand an asset locked.
ExpiredLockReleased ==
    \A k \in Keys : IsSharedAssetLocked(k) ~> ~IsSharedAssetLocked(k)

\* A successful claim hands the locked asset to exactly the recipients
\* recorded in the lock (spec.md section 3, invariant 6), whichever of
\* ClaimSharedAsset and ClaimAssetUsingContractId performed it.
ClaimGivesAssetToLockRecipients ==
    [][\A k \in Keys :
          (/\ lock[k] # NoLock
           /\ status'[lock[k].cid] = "claimed")
          => /\ asset'[k] # NoAsset
             /\ ToSet(asset'[k].coOwners) = ToSet(lock[k].recipients)]_vars

\* The locker list LockSharedAsset records in a new lock, read as a set,
\* is the bond's co-owner set (spec.md section 3, invariant 3, which
\* BondAssetSpecificChecks enforces through ifEqualSets at line 75).
LockersEqualCoOwners ==
    [][\A k \in Keys :
          (lock[k] = NoLock /\ lock'[k] # NoLock)
          => ToSet(lock'[k].lockers) = ToSet(asset[k].coOwners)]_vars

\* LockSharedAsset never locks a bond that matures before the lock expires
\* (spec.md section 3, invariant 4).
LockRespectsMaturity ==
    [][\A k \in Keys :
          (lock[k] = NoLock /\ lock'[k] # NoLock)
          => asset[k].maturity >= lock'[k].expiry]_vars

\* The maturity check of BondAssetSpecificChecks (line 80) keeps holding
\* for as long as the lock is open: a locked bond never matures before the
\* lock could be reclaimed (spec.md section 3, invariant 4), not only at
\* the moment LockSharedAsset ran.
LockedBondOutlivesLock ==
    \A k \in Keys :
        (IsSharedAssetLocked(k) /\ asset[k] # NoAsset)
        => asset[k].maturity >= lock[k].expiry

\* While an asset is locked it stays the asset its co-owners agreed to
\* lock: it exists and its co-owner set is the locker set, so that a claim
\* hands the recipients what the lockers put up (spec.md section 4.4).
LockedAssetKeepsLockers ==
    \A k \in Keys :
        IsSharedAssetLocked(k)
        => /\ asset[k] # NoAsset
           /\ ToSet(asset[k].coOwners) = ToSet(lock[k].lockers)

=============================================================================
