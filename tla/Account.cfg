\* Two accounts, two sign-ins, one relaunch, one forced logout.
SPECIFICATION Spec
CONSTANTS
  Accounts = {a, b}
  FirstUser = a
  None = None
  MaxLogins = 2
  MaxRelaunches = 1
  ForceSlots = {"force"}
  MaxBusy = 2
CHECK_DEADLOCK TRUE

  
PROPERTIES
  SignedOutIsSeen
