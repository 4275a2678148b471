SPECIFICATION Spec
CHECK_DEADLOCK FALSE
CONSTANTS
  home = home  twin = twin  none = none  blank = blank
  Homes = {home, twin}
  NoHome = noHome
  Submissions <- Buyers
  Listings <- Houses
  None = none
  Blank = blank
  Photos <- SharedPhoto
  Estimates = {0, 1000}
  PolicyBands <- RawBand
  Asked = {0, 850, 1010, 1020}
  Default = default
  MaxRuns = 2
INVARIANTS
  StatusBacked
  OfferXorPacket
  OffersAccounted
  AboveCeilingIsRouted
  EqualService
  VerifiedAboutOwnHome
