CONSTANTS
  ListingPage <- MCPages
  MaxLoads = 2
  PagesOf <- MCPagesOf
  App = {a}
  Branch = {b}
  NoBranch = nobranch
  Nothing = nothing
  MaxReads = 2
  Dossier = {1, 2}
  MaxChanges = 1
  MaxDetails = 2
  MaxSlots = 2
  Entry = {1}
  File = {1, 2}
  CardOf <- MCCardOf
CONSTRAINT Small
SPECIFICATION PortalsSpec
INVARIANTS
  RowsMatchControls NothingMeansNothing OwnChangesShown
  DecisionShown CardShowsServer
PROPERTIES
  PagerAsksExistingPage PagesCatchUp OffersArePermitted ConfirmsWhatIsShown
  TransmitsWhatIsShown LedToAnOpenStep
CHECK_DEADLOCK FALSE
