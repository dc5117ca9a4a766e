SPECIFICATION Spec
CONSTANTS
  ownDoi = ownDoi
  publicDoi = publicDoi
  slug1 = slug1
  print1 = print1
  otherDay = otherDay
  Public = {slug1}
  Dois = {ownDoi, publicDoi}
  Prints = {print1}
  Today = Today
  Days = {Today, otherDay}
  Names = {n, o, q}
  Calls = {c1, c2}
  MaxPapers = 3
  MaxEntries = 3
  MaxCollections = 3
  MaxSent = 4
  MaxCrashes = 1
  OwnLimit = 1
  CollectionLimit = 1
  SlugOf <- MCSlugOf
  Works <- MCWorks
  Changes <- MCChanges
  Same = Same
  Nil = Nil
CHECK_DEADLOCK FALSE
SYMMETRY Alike
INVARIANTS
  OwnPapersAreListed OvershootsByOne AddedOnce LibraryHolds
