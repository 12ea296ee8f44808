-------------------------- MODULE MCDesktopPresence --------------------------
EXTENDS DesktopPresence
=============================================================================
