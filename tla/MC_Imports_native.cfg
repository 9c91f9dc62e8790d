\* Every program, with the extension built.
SPECIFICATION Spec
CONSTANTS
  Installs <- MCNativeInstalls
  Programs <- MCAllPrograms
INVARIANT ImportSucceeds CallsResolve AllExported
CHECK_DEADLOCK FALSE
