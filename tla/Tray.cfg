CONSTANTS
  Windows = {status}
  statusWindow = status
  Buttons = {"probe"}
  Wizards = {w1, w2}
  NoWizard = NoWizard
  Clicks = {click}
  startup = startup
  Payloads <- MCPayloads
  current = 1
  MaxOpened = 2
  MaxStarts = 2
CHECK_DEADLOCK FALSE
SPECIFICATION Spec
INVARIANTS TrayOrderly
PROPERTIES TrayResponds
