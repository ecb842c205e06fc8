SPECIFICATION Spec
CONSTANTS
  Unparsed = Unparsed
  Beginning = Beginning
  NoVersion = NoVersion
  NoLicence = NoLicence
  NoRecipe = NoRecipe
  NoPull = NoPull
  MaxWaiverDays = 1
  Servers <- MCServers
  Permits <- MCPermits
  Refuses <- MCRefuses
  Worlds <- MCWorlds
  Outside <- MCOutside
INVARIANTS ExceptionEnds MainIsReadable LicenceIsRead FixesAreNearest VersionsInOrder
PROPERTIES PassIsJustified AlwaysReported
CHECK_DEADLOCK FALSE
