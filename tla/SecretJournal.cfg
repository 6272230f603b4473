SPECIFICATION Spec
CONSTANTS
  owner = owner
  observer = observer
  aut = aut
  ses = ses
  r1 = r1
  r2 = r2
  r3 = r3
  r4 = r4
  Procs <- MCProcs
  Keys <- MCKeys
  Refs <- MCRefs
  OldRows <- MCOldRows
  Unset = Unset
  Plain = Plain
  Nobody = Nobody
  Silent = Silent
SYMMETRY AnyOfAKind
INVARIANTS
  CredentialsAgree
  ReadersFindIt
  SuccessIsClean
PROPERTIES
  RestoreKeepsCredentials
