-------------------------- MODULE MCAssetRegistry --------------------------
EXTENDS AssetRegistry, TLC

CONSTANTS r1, r2, g1, g2, d, e

MCRequests == {r1, r2}
MCGroups   == {g1, g2}
MCNames    == {d, e}
MCTags     == {"latest"}

\* Requests, ids and names are interchangeable; there is no liveness property.
MCSymmetry ==
    {p @@ q @@ s : p \in Permutations(MCRequests),
                   q \in Permutations(MCGroups), s \in Permutations(MCNames)}

\* Two uploads, or one and a stop of the server (`MCBudget`).
MCBudget == 2
MCNext   == Next /\ uploadId' + crashes' <= MCBudget
MCSpec   == Init /\ [][MCNext]_vars
=============================================================================
