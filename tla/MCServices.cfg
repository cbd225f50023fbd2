SPECIFICATION MCSpec
\* r1, r2: connections or processes
CONSTANTS
  \* AddressBook
  Places = {x1, x2, x3}
  Callers = {r1, r2}
  \* UserAccounts
  People = {p1, p2}
  Founder = p1
  Sessions = {r1, r2}
  \* CheckoutDesk
  l1 = l1
  l2 = l2
  Lines = {l1, l2}
  Amount <- MCAmount
  Discounted = {l1}
  Withdrawn = {l2}
  Desks = {r1, r2}
  PoolSize = 2
  Asked = {"standard", "express"}
  ShippingInputs <- MCShipping
  RateInputs <- MCRates
  \* RateLimit
  Instances = {r1, r2}
  Redis = redis
  Limit = 2
  Window = 2
  \* SchemaMigrations
  Deployers = {r1, r2}
  NoDeployer = NoDeployer
  Releases = {5, 18, 30}
  MaxFacts = 1
SYMMETRY MCSymmetry
CONSTRAINT MCConstraint
INVARIANTS
  OneDefault
  AdminRemains
  ProgressUnlessFilled
  TotalAsQuoted
  PassesBounded
  MigrationsFit

  
