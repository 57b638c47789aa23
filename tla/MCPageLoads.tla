---------------------------- MODULE MCPageLoads ----------------------------
(* Runs every load of the front end on two keys. *)
EXTENDS UserLoads, AdminLoads

AllLoads == LoadsOfUsers \cup LoadsOfAdmins
=============================================================================
