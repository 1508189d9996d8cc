SPECIFICATION Spec
CONSTANTS
  Callers = {c1}
  Scripts <- MCScripts
INVARIANT MigrationsAreAtomic
