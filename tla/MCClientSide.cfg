CONSTANTS
  w1 = w1  w2 = w2  good = good  service = service
  Workers = {w1}
  Mixes <- MCMixes
  Products = {good, service}
  Services = {service}
  Movements = {"m1", "m2", "m3"}
  Opening <- MCOpening
  Quantities = {1}
  MaxDrift = 1
  MaxStock = 4
  Orders = {"o1"}
  Quotes = {"q1"}
  Notes = {"n1", "n2"}
  Links = {"l1", "l2"}
  Invoices = {"i1", "i2"}
  Baskets <- Baskets1
  MaxLine = 2
  Subscriptions = {"s1", "s2"}
  Periods = {1}
  LastDay = 2
  Ends = {1, 3}
  MaxExtra = 1
SPECIFICATION Spec
CHECK_DEADLOCK FALSE
INVARIANTS StockExplained InvoicedOnce AnsweredOnce DeliveredTookStock AcceptedQuoteHasOrder CounterExplained NothingLeftDue
