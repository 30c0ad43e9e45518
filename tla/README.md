# TLA+ models of the co-owned bond HTLC chaincode

This directory models `samples/fabric/simplecoownedinteropasset` (the Go
chaincode under `src/`): a Hyperledger Fabric chaincode that keeps co-owned
bond assets and lets their co-owners put them under a hashed time-locked
contract (HTLC), to be claimed by recipients who present the hash preimage
before the expiry, or unlocked after it.

## 1. Inventory

### Components

| Component | Where | State it keeps | Operations |
|---|---|---|---|
| Asset registry | `bondasset.go` (not under `src/`; spec.md 4.1) | bond records `{type, id, coOwners, issuer, faceValue, maturityDate}` by key | `CreateSharedAsset`, `ReadSharedAsset`, `UpdateFaceValue`, `UpdateMaturityDate`, `UpdateCoOwners`, `DeleteAsset`, `GetAllAssets`, `GetMyAssets` |
| Ownership rules | `assetmgmt.go` 22-85 | none | `ifEqualSets`, `BondAssetSpecificChecks` |
| Lock engine | `assetmgmt.go` 89-122 | the library lock record, the lookup map | `LockSharedAsset`, `IsSharedAssetLocked`, `IsSharedAssetLockedQueryUsingContractId` |
| Claim engine | `assetmgmt.go` 124-227 | asset co-owners, lock, lookup map | `ClaimSharedAsset`, `ClaimAssetUsingContractId` |
| Unlock engine | `assetmgmt.go` 229-272 | lock, lookup map | `UnlockSharedAsset`, `UnlockSharedAssetUsingContractId` |
| Lookup index | `bondasset.go` (spec.md 4.6) | contract id -> (type, id) and (type, id) -> contract id | `ContractIdAssetsLookupMap`, `DeleteAssetLookupMaps`, `...UsingContractId`, `...OnlyUsingContractId`, `FetchAsset{Type,Id}FromContractIdAssetLookupMap` |
| HTLC library | `assetexchange` (outside the repository; spec.md 4.3-4.5) | shared lock record `{lockers, recipients, hash, expiry}` by asset and by contract id | lock, claim (hash, expiry, recipient checks), unlock (expiry check), is-locked queries |
| Ledger, identity, codec | Fabric shim, protobuf | the world state | get/put/del/range, `GetCreator`, decode |
| Bootstrap | `main.go` | the sample bonds (via `InitBondSharedAssetLedger`, not under `src/`) | `InitLedger`, `main` |

### How they interact

Every public function is one Fabric transaction. `LockSharedAsset` decodes the
agreement, runs `BondAssetSpecificChecks` (which reads the bond and checks the
caller, the locker list and the maturity), calls the library to lock, then
writes both halves of the lookup map. The claim and unlock functions call the
library first (which checks and deletes the lock), then rewrite the bond
(claim only) and delete the lookup map. Entering by contract id, the sample
resolves the asset key through its own lookup map while the library resolves
the lock through its own contract-id record.

### What is hard

* Two entities, the library lock and the sample's lookup map, are written by
  separate calls in one transaction; their consistency depends on Fabric's
  all-or-nothing commit and on every entry point cleaning up both halves.
* Two entry points for each of claim and unlock can be mixed with the entry
  point used to lock.
* Time: claim is allowed up to the expiry and unlock only after it; the
  maturity date is compared with the expiry after an `int64`->`uint64` cast.
* Identity comparison is by substring containment on comma-joined strings.
* The registry's operations do not look at locks.

There is no concurrency inside an invocation: Fabric simulates each
transaction on one snapshot and invalidates conflicting ones (MVCC), so the
system is a sequence of atomic transactions, interleaved in any order, with a
clock that advances between them.

### Properties that make it correct

* Lookup index: the two halves are inverse and exist exactly while a lock does.
* Ownership: a lock records a locker set equal to the co-owner set and
  needs a maturity not before the expiry, which must stay so while the lock
  is open; a claim makes the lock's recipients the co-owners; a
  locked asset is the one that was locked.
* Claim rights: until the expiry, every lock recipient holding a preimage can
  claim, and a claim never leaves the bond without a lock recipient among
  its co-owners.
* Liveness: an expired lock can always be unlocked.

## 2. Modules

* `CoOwnedAssetExchange.tla`: the chaincode. Variables: `now` (the
  `time.Now()` of the next transaction), `asset`, `lock` (the library's lock
  record), `contractOfAsset` and `assetOfContract` (the two halves of the
  lookup map), and the history variable `status`. One action per transaction
  function: `LockSharedAsset`, `ClaimSharedAsset`,
  `ClaimAssetUsingContractId`, `UnlockSharedAsset`,
  `UnlockSharedAssetUsingContractId`, and from the registry
  `CreateSharedAsset`, `UpdateMaturityDate`, `UpdateCoOwners`, `DeleteAsset`,
  and `InitLedger` (`main.go`), which for ccType `"Bond"` runs
  `InitBondSharedAssetLedger`: it puts the sample bonds (`SeedAssets`) over
  whatever is stored under their keys, with no existence, lock or caller
  check, as its unit test shows only `PutState` calls; `Tick` advances the
  clock. Each action is the whole function including the
  library call and the lookup-map writes; an error return is a false guard
  because Fabric then discards every write of the transaction.
* `MCCoOwnedAssetExchange.tla`: model values and the constant definitions the
  configurations choose from.

Correspondence details:

* `StringsContains(list, x)` is `strings.Contains(strings.Join(list, ","), x)`;
  ECerts are base64 and contain no comma, so it is "x is a substring of some
  element". The constant operator `IsSubstring` says which identities occur
  inside which.
* `ToUint64(t) == t % 2^UintWidth`: Go's conversion of a negative `int64`. The
  width is scaled down (4 bits) so TLC can evaluate it; what matters is that a
  negative time maps above every expiry modelled, which it does at any width.
* `ReadSharedAsset(ctx, type, id, false)` checks the caller's co-ownership, and
  `ReadSharedAsset(..., true)` (used by the claims) does not. This follows the
  code: the comment at `assetmgmt.go:67` and the lock/claim unit test, where
  Bob, not a co-owner, claims successfully. spec.md 4.1 names the flag the
  other way round (`authorizeCaller`); the model follows the code and test.
* The library's behaviour is taken from spec.md: a lock record is found by
  asset (agreement) or by contract id; claim checks the preimage hash,
  `now <= expiry` and the caller being in the lock's recipients; unlock checks
  `now > expiry`; a second lock on a locked asset fails. The spec states no
  check of the agreement's recipient list against the lock on claim, and no
  caller check on unlock; the model adds none.
* A contract id is a fresh model value (`status[c] = "fresh"`): the library
  derives it collision-resistantly per lock.
* Face value, issuer, `UpdateFaceValue` (it writes only the face value, so
  in this model it would be a stuttering step), `GetAllAssets`/`GetMyAssets` are not
  modelled: no check reads face value or issuer, and the list functions only
  read.

## 3. Runs

All runs use `MCCoOwnedAssetExchange`: one bond key, identities
`{alice, bob}` (or `{alice, al}`), co-owner and recipient lists of length 1-2,
preimages `{p1, p2}` with hashes `{h1, h2}`, ledger time 0..2 with lock
expiries 0..1, maturities 0..2.

| Run | cfg | Expect | Checks |
|---|---|---|---|
| safety | `MCSafety.cfg` | pass | `TypeOK`, `LookupIndexConsistent`, `ClaimKeepsALockRecipient` with three contract ids (lock, resolve, relock twice); symmetry over contract ids and over the two (preimage, hash) pairs swapped together |
| refund_liveness | `MCLiveness.cfg` | pass | `ExpiredLockReleased` under `FairSpec`, two contract ids, no symmetry |
| claim_by_agreement_recipients | `MCClaimRecipients.cfg` | violation | `ClaimGivesAssetToLockRecipients` |
| lock_lockers_substring | `MCLockersSubstring.cfg` | violation | `LockersEqualCoOwners` with `al` a substring of `alice` |
| maturity_uint64_wrap | `MCMaturityWrap.cfg` | violation | `LockRespectsMaturity` with maturities from -1 |
| two_keys | `MCTwoKeys.cfg` | pass | `LookupIndexConsistent` with two bonds, lists of length 1, symmetry also over the keys |
| refund_liveness_two_keys | `MCLivenessTwoKeys.cfg` | pass | `ExpiredLockReleased` under `FairSpec` with two bonds, two contract ids, lists of length 1, no symmetry |
| locked_bond_deleted | `MCLockedBondDeleted.cfg` | violation | `RecipientCanClaimUntilExpiry` |
| maturity_moved_under_lock | `MCMaturityMovedUnderLock.cfg` | violation | `LockedBondOutlivesLock` |
| claim_substring_recipient | `MCClaimSubstring.cfg` | violation | `ClaimKeepsALockRecipient` with `al` a substring of `alice` |
| locked_asset_changed | `MCLockedAssetChanged.cfg` | violation | `LockedAssetKeepsLockers` |

What they show:

* **safety** (about 21,000 states up to symmetry): across every order of create, update,
  delete, lock, both claims, both unlocks and clock ticks, the lookup map
  never has a half without the other or an entry without a lock.
* **refund_liveness**: with the clock running and the locker retrying
  `UnlockSharedAssetUsingContractId`, every lock is eventually released;
  deleting, recreating or re-owning the bond in between cannot prevent it.
* **safety**, claim by agreement: `ClaimKeepsALockRecipient` shows
  that with distinct ECerts the caller check at `assetmgmt.go:146` keeps at
  least one lock recipient (the caller) among the new co-owners of a claim by
  agreement.
* **two_keys** (about 32,000 states up to symmetry): with two bonds locked and
  resolved under three contract ids, no contract id ever resolves to the other
  bond.
* **refund_liveness_two_keys** (about 100,000 states): the refund liveness
  with two bonds whose locks, claims and unlocks interleave.
* **locked_bond_deleted**: alice locks her bond for a recipient and then
  deletes it (`DeleteAsset` checks co-ownership only). Until the expiry no
  recipient can claim: the library accepts the preimage and the caller, and
  the asset read at `assetmgmt.go:142`/`199` fails.
* **maturity_moved_under_lock**: alice locks her bond (maturity 2) with
  expiry 1, then `UpdateMaturityDate` sets its maturity to 0. The check at
  `assetmgmt.go:80` was true when the lock was made and is false for the
  lock that is still open.
* **claim_substring_recipient**: alice's bond is locked for recipients
  `<<al>>`; al claims with an agreement whose Recipient is `"alice"`. The
  library admits al (a lock recipient), the substring check at
  `assetmgmt.go:146` admits al against `"alice"`, and the bond stays alice's:
  the HTLC is consumed and no recipient gets the asset.
* **claim_by_agreement_recipients**: alice locks for recipients `<<alice>>`,
  then claims with an agreement whose Recipient is `"alice,bob"`; the bond
  ends up co-owned by alice and bob (`assetmgmt.go:151`).
  `ClaimAssetUsingContractId` uses the lock's recipients and does not have the
  problem.
* **lock_lockers_substring**: alice creates a bond whose co-owner list is
  `<<alice, alice>>` and locks it with the locker list `"alice,al"`. Both
  loops of `ifEqualSets` pass (`assetmgmt.go:31,38`: `alice` and `al` both
  occur in `"alice,alice"`), so the lock records `al`, who is not a
  co-owner, as a locker. The mirror case (co-owners `<<alice, al>>`, lockers
  `"alice,alice"`) passes the same way. The property is set equality of the
  recorded lockers and the co-owners (spec.md 3, invariant 3), not consent:
  the locker list is text the caller supplies.
* **maturity_uint64_wrap**: a co-owner sets the maturity date before 1970, and
  the lock check `uint64(maturity) < expiry` passes (`assetmgmt.go:80`).
* **locked_asset_changed**: after a lock, `UpdateCoOwners` (no caller check)
  changes the co-owners of the locked bond; the claim then hands over a bond
  whose owners never agreed to the lock. `InitLedger` called after start-up
  does the same by re-putting the sample bond over a locked one.

Bounds: one key suffices for every property here since all actions act on a
single key and the lookup map relates one key to contract ids; three contract
ids let a bond be locked, resolved and locked again twice; two clock ticks
separate "before", "at" and "after" an expiry; lists of length two make
co-ownership and the length check of `ifEqualSets` non-trivial. The two-key
run trades list length for a second bond, which is what a contract id
resolving to the wrong asset needs; the sample bond is the same on every key
so the keys stay symmetric.

Fairness: `FairSpec` assumes weak fairness of `Tick` (wall-clock time passes)
and of `UnlockSharedAssetUsingContractId(c)` for each contract id (a locker
keeps asking for the refund). The chaincode schedules nothing itself; the
property checks that nothing the chaincode allows can block the refund of a
persistent locker.

## 4. Not modelled

* An abstract HTLC life cycle and a refinement onto it. Every step of such
  a life cycle (claim only up to the expiry, unlock only after it, no second
  lock, a fresh contract id) is a guard of the library, which is not in this
  repository and is modelled from spec.md; a refinement would check the
  model's own transcription of spec.md, not code of `assetmgmt.go`.
* The race of a claim and an unlock at the expiry second: both checks are in
  the library, and Fabric's MVCC lets only one of two transactions on the
  same lock key commit.
* Fabric itself, protobuf/base64 decoding (a decode error only aborts the
  transaction), logging.
* `main()` in `main.go`: process start-up and server wiring, no ledger
  state. The model starts from an empty ledger and `InitLedger` is one more
  transaction. The contents of the sample bonds are not in the repository;
  `SeedAssets` is a constant (alice's bond, maturing at the end of the clock).
* Claim liveness as a temporal property: a claim must happen before the
  expiry, and no fairness the chaincode can justify makes the claimer act
  before the clock passes it. The safety form, `RecipientCanClaimUntilExpiry`,
  says the claim stays possible for the whole window; it fails
  (`locked_bond_deleted`).
* Partial failure inside a transaction, and any other fault model: Fabric
  discards all writes of a failed transaction, and the chaincode has no
  messages, timeouts or retries of its own (resubmission is the client's).
  A variant without whole-transaction commit would check a platform this
  code does not run on, so none is modelled.
* A swap between two networks, each running this chaincode (two `INSTANCE`s
  sharing the clock and the preimages). The order of expiries that makes a
  swap safe is chosen by the participants, not checked by the code, and what
  the chaincode contributes to such a swap is what the single-network runs
  check: a recipient can claim until the expiry (`RecipientCanClaimUntilExpiry`,
  violated in `locked_bond_deleted`) and an expired lock is released
  (`ExpiredLockReleased`).
* The answer of `IsSharedAssetLocked` for an expired lock: the library's
  query is not in the repository, and spec.md says only that a missing lock
  is reported as `false`; the model's predicate is "a lock record exists".

## 5. Plan

Done first: the lock/claim/unlock engines with the lookup index and
the registry operations that change state, the refund liveness, and four violation runs.

Done second: `InitLedger`, the claim-rights invariant, the caller check at
`assetmgmt.go:146` (a pass run with distinct identities and the substring
violation), and the two-key run.

Done third: two-bond instances of the refund liveness,
and the deleted-bond violation of the HTLC claim promise.

Done fourth: the stale maturity check (`maturity_moved_under_lock`), and
the reasons the remaining parts stay out of the model (section 4).

What is left is outside the repository (the library, the registry code, the
contents of the sample bonds) or outside the chaincode (Fabric, the client
side of a cross-network swap); section 4 gives the reason for each.
