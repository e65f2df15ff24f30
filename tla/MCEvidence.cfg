INIT MCInit
NEXT MCNext
CONSTANTS
  Procs = {"p1", "p2"}
  Lookups = {"a", "b", "c"}
  Home <- MCHome
  VerifiedTTL = 2
  UnverifiedTTL = 1
  MaxRetries = 2
  MaxCrashes = 1
  LastBlock = 4
  MaxStamp = 2
  Attempts = 2
  Final = 6
  Chunk = 2
  Windows <- MCWindows
  Plans <- MCPlans
  ValueOf <- MCValueOf
  Needs <- MCNeeds
  Makes <- MCMakes
  Rich = "rich"
  Riches = 2
  Seeds = {"rich"}
  Pin = 1
  NewAge = 2
  BlockSeconds = 2
  Grace = 3
  Supply = 2
  Quorum = 1
  Gas = 3
  GasUsed = 2
  MaxHead = 6
  Messages <- MCMessages
  MaxActions = 3
  AdapterOf <- MCAdapterOf
  ChainOf <- MCChainOf
  Forwarder <- MCForwarder
  Unichain = "unichain"
  WormholeLanes <- MCWormholeLanes
  LayerZeroLanes <- MCLayerZeroLanes
  Source = "main"
  Examined = {"arb", "op"}
  JobLists <- MCJobLists
  CheckIds = {"x", "y"}
  Outcomes <- MCOutcomes
  Powers <- MCPowers
  Granting = {"acl"}
  Accounts = {"zero", "A", "B"}
  Zero = "zero"
  HolderAtStart <- MCHolderAtStart
  MembersAtStart <- MCMembersAtStart
  Emits = {"token", "gov", "bravo"}
  Decoded = {"bravo", "safe"}
  Lone = {"vault", "gov"}
  MaxChanges = 3
  Describers = {"d1", "d2"}
  Proposals <- MCProposals
  Inner <- MCInner
  SelectorOf <- MCSelectorOf
  KnownSelectors = {"setOwner"}
  TokenSelectors = {"transfer"}
  Malformed = {"bad pay"}
  System = {"p"}
  Transactions <- MCTransactions
  Tokens = {"t1", "t2"}
  Holders = {"treasury", "sender"}
  Sender = "sender"
  Treasuries = {"treasury"}
  Opening <- MCOpening
  Price <- MCPrice
  Threshold = 2
  Null = Null
  Traces <- MCTraces
  Layouts <- MCLayouts
  Libraries <- MCLibraries
  Setters = {"impl"}
  MaxCalls = 2
  MaxWrites = 3
  Overrides <- MCOverrides
  Chain <- MCChain
  Governor = "impl"
  ExecutedFlag <- MCExecuted
  Codings <- MCCodings
  Simulations <- MCSimulations
  Together <- MCTogether
  Behind <- MCBehind
  Published <- MCPublished
  Version <- MCVersion
  AbiOf <- MCAbiOf
  Placeholder = "sender"
  Inquiries = {"q1", "q2", "q3"}
  Purposes <- MCPurposes
  Providers <- MCProviders
  Tries = 2
  MaxRestarts = 1
INVARIANTS
  VerdictIsWarranted
  SearchFindsLast
  EventsAreFound
  SimulationIsExecution
  MessagesBecomeJobs
  PassHidesNothing
  PowersAreTold
  ActionsAreDescribed
  TreasuryTotalsAreReal
  StorageIsUnderstood
  CodeIsTold
  LookupsAreShared
CHECK_DEADLOCK FALSE
