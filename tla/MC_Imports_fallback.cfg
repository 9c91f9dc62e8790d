\* Every program, with the package installed and no extension.
SPECIFICATION Spec
CONSTANTS
  Installs <- MCPackageOnly
  Programs <- MCAllPrograms
INVARIANT CallsResolve
CHECK_DEADLOCK FALSE
