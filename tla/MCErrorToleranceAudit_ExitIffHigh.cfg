CONSTANTS
  NumPaths = 3
  RuleSev <- MCRuleSev
  Contents <- MCContents

INIT Init
NEXT Next

INVARIANT ExitIffHigh
