---------------------------- MODULE MC_CloudRecv ----------------------------
EXTENDS CloudRecv
\* A boundary; the first byte, half of a PINGRESP and less than the 30 bytes that
\* are dropped; after the topic's beginning and before command and mark; before the
\* length of an application's message.
MCCuts == {0, 1, 40, 62}
=============================================================================
