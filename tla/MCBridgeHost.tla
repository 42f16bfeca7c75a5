---------------------------- MODULE MCBridgeHost ----------------------------
EXTENDS BridgeHost

RequestSet == 1..1
=============================================================================
