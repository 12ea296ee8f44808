---------------------------- MODULE MCAdminPages ----------------------------
EXTENDS AdminPages
=============================================================================
