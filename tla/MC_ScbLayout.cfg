\* The three shared classes laid out and verified on three ABIs.
SPECIFICATION Spec
CONSTANTS
  Platforms <- MCPlatforms
INVARIANT LayoutMatchesSpec
CHECK_DEADLOCK FALSE
