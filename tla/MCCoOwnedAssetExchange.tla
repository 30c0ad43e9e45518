----------------------- MODULE MCCoOwnedAssetExchange -----------------------
(***************************************************************************)
(* Model-checking instance of CoOwnedAssetExchange: two bonds, two or     *)
(* three identities, two preimages, a short clock.                        *)
(***************************************************************************)
EXTENDS CoOwnedAssetExchange, TLC

CONSTANTS alice, bob, al, k1, k2, c1, c2, c3, p1, p2, h1, h2

\* Distinct ECerts, none inside another.
MCIds == {alice, bob}

\* "al" is a proper substring of "alice": the case spec.md section 9 raises.
MCSubstringIds == {alice, al}

MCExactMatch(x, y) == x = y

MCSubstringMatch(x, y) == x = y \/ (x = al /\ y = alice)

MCKeys == {k1}

\* Two bonds: a contract id could then resolve to the wrong one.
MCTwoKeys == {k1, k2}

\* InitBondSharedAssetLedger's sample bond on every key: alice's, maturing
\* at the end of the modelled clock.
MCSeedAssets == [k \in Keys |-> [coOwners |-> <<alice>>, maturity |-> 2]]

MCContractIds == {c1, c2, c3}

MCTwoContractIds == {c1, c2}

MCPreimages == {p1, p2}

MCHashes == {h1, h2}

MCHashOf == (p1 :> h1) @@ (p2 :> h2)

\* Maturity dates from the present on, as CreateSharedAsset admits.
MCMaturities == 0..2

\* A maturity date before 1970, which UpdateMaturityDate accepts.
MCMaturitiesWithPre1970 == -1..2

\* Contract ids are interchangeable, and so are the two (preimage, hash)
\* pairs when swapped together.
MCPairSwaps == {p1 :> p1 @@ p2 :> p2 @@ h1 :> h1 @@ h2 :> h2,
                p1 :> p2 @@ p2 :> p1 @@ h1 :> h2 @@ h2 :> h1}

MCSymmetry == {s @@ t : s \in Permutations(MCContractIds), t \in MCPairSwaps}

\* With two bonds, whose sample records are alike, the keys are
\* interchangeable too.
MCTwoKeySymmetry ==
    {r @@ s @@ t : r \in Permutations(MCTwoKeys),
                   s \in Permutations(MCContractIds), t \in MCPairSwaps}

=============================================================================
