SPECIFICATION ServicesSpec
CHECK_DEADLOCK FALSE
SYMMETRY Alike
CONSTANTS
  Focus = {"system", "bank", "publish", "sponsor", "login"}
  \* the credits as a whole
  Holders = {w1}
  Prices = {1, 2}
  MaxFeed = 4
  MaxSpends = 3
  \* GasBank
  Owners = {o1}
  Sums = {1, 2}
  Refs = {ref1}
  NoRef = NoRef
  TxHashes = {h1}
  NoTx = NoTx
  MaxEntries = 3
  \* the publish approval
  Contents = {v1, v2}
  Admins = {adm1, adm2}
  ApiKey = adm2
  Reviewers = {adm2}
  GatedPublish = TRUE
  AdminCalls = {c1, c2}
  MaxAdminCalls = 3
  MaxAdminFaults = 1
  \* the sponsorship
  Sponsored = {u1}
  Fees = {1, 2}
  DailyLimit = 2
  MaxPerWindow = 1
  SponsorCalls = {c1, c2}
  LastDay = 2
  MaxSponsorCalls = 3
  MaxSponsorFaults = 1
  NoUsage = NoUsage
  \* the wallet login
  Addresses = {v1, v2}
  Socials = {soc1}
  LoginCalls = {c1, c2}
  MaxNonces = 3
  MaxLogins = 3
  MaxLoginFaults = 1
  NoUser = NoUser
  NoWallet = NoWallet
INVARIANTS
  TypeOK
  BooksConverge NoCreditLost
  BankSolvent EntriesExplainBalance CreditedOnce
  VersionsNumbered ActiveIsReleased ApprovedMeansApplying AppliedIsPublished AuditVerifies
  BudgetKept BudgetBalances
  OneLoginPerNonce LoginOwnsWallet OneBindingPerNonce
PROPERTIES
  DecidedOnce
