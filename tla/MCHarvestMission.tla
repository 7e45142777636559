-------------------------- MODULE MCHarvestMission --------------------------
EXTENDS HarvestMission

=============================================================================
