CONSTANTS
  plain = plain
  upgrading = upgrading
  Entries = {plain, upgrading}
  Upgrading = {upgrading}
  NoEntry = NoEntry
  Routes <- MCRoutes
  KeyOf <- MCKeyOf
  Requests <- MCRequests
  MaxRoutes = 3
SPECIFICATION Spec
INVARIANTS
  OwnParams
  UpgradeOfHandler
  HandledOnce
  RouteFound
