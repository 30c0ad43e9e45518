CONSTANTS
    alice = alice
    bob = bob
    al = al
    k1 = k1
    k2 = k2
    c1 = c1
    c2 = c2
    c3 = c3
    p1 = p1
    p2 = p2
    h1 = h1
    h2 = h2
    NoAsset = NoAsset
    NoLock = NoLock
    NoKey = NoKey
    NoContract = NoContract
    SeedAssets <- MCSeedAssets
    Keys <- MCTwoKeys
    Ids <- MCIds
    IsSubstring <- MCExactMatch
    Preimages <- MCPreimages
    Hashes <- MCHashes
    HashOf <- MCHashOf
    ContractIds <- MCTwoContractIds
    Maturities <- MCMaturities
    MaxTime = 2
    MaxOwners = 1
    UintWidth = 4
SPECIFICATION FairSpec
PROPERTY ExpiredLockReleased
