------------------------- MODULE MCCampaignLineage -------------------------
EXTENDS CampaignLineage, TLC

CONSTANTS Ann, Ben

Selection == <<"m1", "m2">>
Persons == {Ann, Ben}
Symmetry == Permutations(Persons)

============================================================================
