SPECIFICATION Spec
CONSTANTS
  CaseId = {k1, k2}
  Thread = {t}
  Account = {a1}
  Process = {g1}
  Desk = {d1}
  MaxTurns = 2
  MaxTexts = 2
  MaxAudit = 2
  NULL = NULL
PROPERTIES
  InboundIsListed
