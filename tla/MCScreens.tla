----------------------------- MODULE MCScreens -----------------------------
(* Model checking of Screens: every route, component and kind of session. *)
EXTENDS Screens, ScreenTable
=============================================================================
