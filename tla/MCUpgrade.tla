----------------------------- MODULE MCUpgrade ------------------------------
EXTENDS UpgradeSystem
=============================================================================
