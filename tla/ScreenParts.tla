----------------------------- MODULE ScreenParts ------------------------------
(***************************************************************************)
(* What a component is made of.  A part is a kind, the session condition the *)
(* code puts on it and what it names: a request of api.ts the component sends *)
(* or offers (Calls), a component it renders (Shows), one that a handler opens *)
(* later (Opens), a route it links to (Links), or where a sign-in it starts *)
(* returns to (Signs).  Conditions on data are left out, so a part may be  *)
(* offered whenever its gate passes; components without requests, links and *)
(* such children are left out.                                             *)
(***************************************************************************)

Calls(gate, requests) == {<<"calls", gate, r>> : r \in requests}
Shows(gate, children) == {<<"shows", gate, c>> : c \in children}
Opens(gate, children) == {<<"opens", gate, c>> : c \in children}
Links(gate, routes) == {<<"links", gate, r>> : r \in routes}
Signs(gate, returns) == {<<"signs", gate, r>> : r \in returns}
===============================================================================
