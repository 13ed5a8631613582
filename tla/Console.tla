------------------------------ MODULE Console -------------------------------
(***************************************************************************)
(* The application around its screens: the router shows the dashboard, the *)
(* workers or the service catalog, mounting and unmounting their           *)
(* components, while what they asked for is still under way; the Auto      *)
(* refresh switch of the top bar is thrown on any of them.                 *)
(***************************************************************************)
EXTENDS DashboardView, WorkersView, ServiceCatalog

consoleVars == <<address, autoLoadsNewEntries, dashboardVars, workersVars, catalogVars>>

ConsoleInit == AppInit /\ DashboardInit /\ HealthInit /\ CatalogInit

\* A link of the menu, a bookmark, Back or Forward.
Navigate(a) ==
    /\ address' = a
    /\ DashboardFollows(a)
    /\ WorkersFollow(a)
    /\ CatalogFollows(a)
    /\ UNCHANGED autoLoadsNewEntries

CatalogAddresses == [screen : {"services"}, query : CatalogLinks \cup {NoQuery}]

Addresses == DashboardAddresses \cup CatalogAddresses

ThrowSwitch ==
    /\ AutoLoadNewEntries
    /\ UNCHANGED <<dashboardVars, workersVars, catalogVars>>

ScreenStep ==
    \/ DashboardStep /\ UNCHANGED <<workersVars, catalogVars>>
    \/ WorkersStep /\ UNCHANGED <<dashboardVars, catalogVars>>
    \/ CatalogStep /\ UNCHANGED <<dashboardVars, workersVars>>

ConsoleNext ==
    \/ ScreenStep
    \/ ThrowSwitch
    \/ \E a \in Addresses : Navigate(a)

ConsoleSafeSpec == ConsoleInit /\ [][ConsoleNext]_consoleVars

ConsoleSpec ==
    /\ ConsoleSafeSpec
    /\ DashboardFairness /\ WorkersFairness /\ CatalogFairness
-----------------------------------------------------------------------------
\* Loading ends on every screen, or the screen is left.
ScreensSettle == HealthSettles /\ CatalogSettles
=============================================================================
