CONSTANTS
  c1 = c1
  l1 = l1
  l2 = l2
  Leads = {l1, l2}
  Campaigns = {c1}
  CampaignOf <- MCCampaignOf
  Imports = {r1, r2}
  Bodies <- MCBodies
  Cascade = TRUE
  MaxFaults = 1
  None = None
SPECIFICATION ImportSpec
CHECK_DEADLOCK FALSE
INVARIANTS
  ImportTypeOK
  MarkNamesItsCopy
  ImportedIsInCRM
  CounterCountsCopies
PROPERTY SealedStaysSealed
