SPECIFICATION MigrationSpec
CONSTANTS
  Legacy = {1, 2}
  Damage = FALSE
INVARIANT StartsWhole
