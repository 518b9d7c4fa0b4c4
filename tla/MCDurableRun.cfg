SPECIFICATION Spec
CONSTANTS
  Catalogs <- MCCatalogs
  Capacities = {1, 2}
  Budgets <- MCBudgets
  MaxStarts = 2
INVARIANTS
  FileIsNeverTorn
  FileAlwaysVerifies
  RowsAreTheCatalogPrefix
  WithinBudget
  CancelIsPrompt
PROPERTIES
  RefinesDurablePrefix
  RunReturns
