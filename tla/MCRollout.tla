------------------------------ MODULE MCRollout ------------------------------
EXTENDS Rollout, MCNodeInstaller
=============================================================================
