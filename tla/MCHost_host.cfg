SPECIFICATION HostSpec
CONSTANTS
  FormSteps = {1}
  PhotoStep = 2
  LastStep = 3
  Photos = {1, 2}
  Papers = {1, 2}
  MinPhotos = 1
  Ops = {1, 2}
  Cards = {"rules", "location", "pricing"}
  MaxTakeDowns = 1
  Texts = {x1}
  FaqAdmins = {d1, d2}
  MaxQuestions = 2
  MaxEntries = 2
  LastDay = 3
  Weekend = {1}
  Holidays = {2}
  Stays <- MCStays
  Forms <- MCForms
  Parties = {1, 2}
  Saves = {1, 2}
SYMMETRY MCSymmetry
CHECK_DEADLOCK FALSE
INVARIANTS
  WizardInv
  SavedMeansStored
  CatalogueInv
PROPERTIES
  DecidedOnce
