SPECIFICATION Spec
CONSTANTS
  MaxDecls = 3
  MaxQuotations = 3
  Decls <- MCDecls
  Quotations <- MCQuotations
  TliFiles <- Paths
  NameOrder <- Headers
INVARIANTS
  ChangesApplied
  GeneratedKept
  RaisesForReason
