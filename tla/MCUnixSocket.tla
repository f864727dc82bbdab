---------------------------- MODULE MCUnixSocket ----------------------------
EXTENDS UnixSocket
=============================================================================
