-------------------------- MODULE MCMessageChecks --------------------------
EXTENDS MessageChecks
============================================================================
