---------------------------- MODULE MCPageWrites ----------------------------
(* A small instance of PageWrites for TLC: every handler, two items.       *)
EXTENDS UserWrites, AdminWrites, DashboardWrites

AllHandlers == WritesOfUsers \cup WritesOfAdmins \cup WritesOfDashboard
=============================================================================
