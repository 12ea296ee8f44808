--------------------------- MODULE MCCloudDesktop ---------------------------
EXTENDS CloudDesktop
=============================================================================
