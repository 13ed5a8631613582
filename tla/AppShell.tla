------------------------------ MODULE AppShell ------------------------------
(***************************************************************************)
(* What the screens of the single-page application share: the address, and *)
(* the Auto refresh switch of the top bar (WaterlineApp.vue and the mixin  *)
(* base.js).  The router keeps one screen mounted; each panel module says  *)
(* how its component follows a change of the address.                      *)
(*                                                                         *)
(* The switch is thrown on the root component.  The mixin looks there for  *)
(* refreshStatsPeriodically, refreshFlowsPeriodically, timeout and         *)
(* interval, which belong to the screens: on the root it finds none, so    *)
(* throwing the switch changes the flag and nothing else.                  *)
(***************************************************************************)
EXTENDS Naturals, FiniteSets

CONSTANT
    NoQuery             \* the query of a bare link: /dashboard, /workers, /services

VARIABLES
    address,            \* screen and query of the location bar
    autoLoadsNewEntries \* the Auto refresh switch

Screens == {"dashboard", "workers", "services", "elsewhere"}

AppInit ==
    /\ address = [screen |-> "elsewhere", query |-> NoQuery]
    /\ autoLoadsNewEntries \in BOOLEAN

On(screen) == address.screen = screen

\* Bookmarks, links, Back and Forward: any address a may come next.
Arrives(screen, a) == address.screen # screen /\ a.screen = screen
Leaves(screen, a) == address.screen = screen /\ a.screen # screen
Stays(screen, a) == address.screen = screen /\ a.screen = screen

\* autoLoadNewEntries, called by the top bar.
AutoLoadNewEntries ==
    /\ autoLoadsNewEntries' = ~autoLoadsNewEntries
    /\ UNCHANGED address
=============================================================================
