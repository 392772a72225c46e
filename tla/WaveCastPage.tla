--------------------------- MODULE WaveCastPage ---------------------------
(***************************************************************************)
(* The page of the web client that is on screen.  The router (one file     *)
(* page.tsx per route) mounts the components of a page when it is entered  *)
(* and unmounts them when it is left: a component's own state starts from  *)
(* its initial values at every visit, the stores (zustand) keep theirs.    *)
(* Every component module of the client says, in an operator <C>GoTo(to),  *)
(* what a change of page does to its variables; ClientPages conjoins them. *)
(***************************************************************************)

CONSTANT Self   \* the user, alex in the client's data

Pages == {"room", "my-room", "profile", "room-settings"}

VARIABLE page

\* The router takes the user from one page to another.
ChangePage(to) == page # to /\ page' = to

===========================================================================
