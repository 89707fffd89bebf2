CONSTANTS
  a1 = a1
  a2 = a2
  c1 = c1
  c2 = c2
  i1 = i1
  i2 = i2
  t1 = t1
  t2 = t2
  t3 = t3
  q1 = q1
  q2 = q2
  q3 = q3
  Messages <- MCMessages
  Traffic <- MCTraffic
  Accounts <- MCAccounts
  StartActive <- MCStartActive
  CompanyOf <- MCCompanyOf
  Invoices <- MCInvoices
  InvoiceOf <- MCInvoiceOf
  Outstanding <- MCOutstanding
  Handlers = {r1, r2}
  Platform = Platform
  None = None
  MaxFaults = 1
  MaxOps = 2
SPECIFICATION IngestSpec
INVARIANTS
  CreditedOnce
  AcceptedIsOnFile
PROPERTIES
  LinkKeptByReplay
  EventuallyAnswered
CHECK_DEADLOCK FALSE
