-------------------------- MODULE MCMurdockHandler --------------------------
EXTENDS MurdockHandler
=============================================================================
