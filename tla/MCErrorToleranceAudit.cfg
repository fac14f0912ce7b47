CONSTANTS
  NumPaths = 3
  RuleSev <- MCRuleSev
  Contents <- MCContents

INIT Init
NEXT Next

INVARIANT TypeOK
INVARIANT FindingsExact
INVARIANT ExitStatusCorrect
INVARIANT ReportCanonical
PROPERTY ImplementsAuditSpec
