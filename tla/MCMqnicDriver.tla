---------------------------- MODULE MCMqnicDriver ----------------------------
\* The driver and its device on rings of four entries.
EXTENDS MqnicDriver
=============================================================================
