\* Two threads, two instances, one built-in algorithm and one other.
CONSTANTS
  Threads = {t1, t2}
  Names = {luby, custom}
  Imported = {luby}
  Requests = {{luby, custom}}
  MaxInstances = 2
  None = None
SPECIFICATION Spec
INVARIANTS
  NoneOnlyIfReset
  BuiltInsArePresent
  PartialOnlyIfDisturbed
PROPERTIES
  OnlyResetReplaces
  CopiesAreWhole
  CallsReturn
