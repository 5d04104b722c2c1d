\* Two subscriptions with two invoices, two handlers, three changes, one fault.
SPECIFICATION FairSpec
CONSTANTS
  None = None
  Handlers = {h1, h2}
  Subs = {1, 2}
  MaxChanges = 3
  MaxInvoices = 2
  MaxFaults = 1
INVARIANT Covered
INVARIANT Converges
INVARIANT HoldKept
PROPERTY ForwardOnly
PROPERTY EventuallyQuiet
CHECK_DEADLOCK FALSE
