SPECIFICATION MCSpec
CONSTANTS
  clientA = clientA
  clientB = clientB
  Sessions = {s1, s2}
  Clients = {clientA, clientB}
  NoClient = NoClient
  MaxVersion = 1
  Topics = {"ca", "cmp", "balance", "valstock", "visite", "dormants", "peremption", "conso", "kpis", "dates", "filters", "order"}
  Articles = {"x", "y"}
  MaxQty = 3
  Ledger <- MCLedger
  Bounds <- MCBounds
  Turnovers <- MCTurnovers
  FirstDay = 1
  Today = 2
  Delays <- MCDelays
INVARIANTS
  OwnFigures
  FreshEnough
  KeptStateFits
  ComparisonAddsUp
  OrderAsTyped
SYMMETRY Symmetry
