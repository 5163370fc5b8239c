CONSTANTS
  c1 = c1
  l1 = l1
  l2 = l2
  l3 = l3
  Leads = {l1, l2, l3}
  Campaigns = {c1}
  CampaignOf <- MCCampaignOf
  Imports = {r1}
  Cascade = TRUE
  MaxFaults = 1
  None = None
  Score <- MCScore
  Filters <- MCFilters
  PageParams <- MCPageParams
  LimitParams = {0, 2}
  DefaultLimit = 1
  ExportLimit = 2
  FullLimit = 2
  MaxPages = 3
SPECIFICATION QuerySpec
SYMMETRY Twins
CHECK_DEADLOCK FALSE
INVARIANTS
  TypeOK
  ScanSeesAll
  TotalFitsPage
  FullShowsFound
