------------------------------ MODULE MCEvidence ------------------------------
(***************************************************************************)
(* What a report's evidence is gathered by and how it becomes a decision,  *)
(* side by side: one of them runs, the others rest at a state of theirs.   *)
(***************************************************************************)
EXTENDS VerificationCache, BlockSearch, EventSearch, ProposalExecution, BridgeMessages,
        ReportDecision, PermissionEvidence, CallMatching, BalanceEvidence, StorageEvidence,
        ContractChecks, AbiLookup

VARIABLE which

MCHome == [l \in Lookups |-> IF l = "c" THEN "p2" ELSE "p1"]
MCWindows == <<1, 2>>

MCPlans == {<<"a">>, <<"a", "b">>, <<"b", "c">>, <<"c">>, <<"d">>}
MCValueOf == [x \in Acts |-> CASE x = "b" -> 1 [] x = "d" -> 2 [] OTHER -> 0]
MCNeeds == [x \in Acts |-> CASE x = "a" -> {} [] x = "b" -> {"f"} [] OTHER -> {"rich"}]
MCMakes == [x \in Acts |-> IF x = "a" THEN {"f", "rich"} ELSE {"g"}]

Act(to, fn, remote, goal, data) ==
  [to |-> to, fn |-> fn, remote |-> remote, target |-> goal, value |-> 1, data |-> data]
MCMessages ==
  {Act("inbox", fn, 0, "t", "plain") :
     fn \in {"createRetryableTicket", "sendL1FundedContractTransaction", "sendL2Message"}} \cup
  {Act("messenger", "sendMessage", 0, goal, "forward") : goal \in {"account", "t"}} \cup
  {Act("portal", "depositTransaction", 0, "t", data) : data \in {"forward", "too long"}} \cup
  {Act("wormholeSender", "sendMessages", remote, "t", "plain") : remote \in {4, 9}} \cup
  {Act("proposalSender", "setTrustedRemoteAddress", remote, goal, "plain") :
     remote \in {106, 9}, goal \in {"r1", "r2"}} \cup
  {Act("proposalSender", "execute", remote, "t", data) :
     remote \in {106, 9}, data \in {"plain", "empty"}} \cup
  {Act("inbox", "sendContractTransaction", 0, "t", "garbled"),
   Act("unichainMessenger", "sendMessage", 0, "account", "forward"),
   Act("fxRoot", "sendMessageToChild", 0, "t", "plain"),
   Act("wormholeSender", "sendMessages", 4, "t", "garbled"),
   Act("proposalSender", "setTrustedRemoteAddress", 106, "t", "not an address"),
   Act("proposalSender", "execute", 398, "t", "plain"),
   Act("proposalSender", "other", 106, "t", "plain"),
   Act("token", "transfer", 0, "t", "plain")}

\* Three actions at a time: LayerZero's, whose order matters, among one of each kind.
MCLong ==
  {m \in MCMessages : m.to = "proposalSender" /\ m.remote = 106 /\ m.data = "plain"} \cup
  {m \in MCMessages : m.fn \in {"createRetryableTicket", "sendMessageToChild"}}
MCLists == Len(proposalActions) = 3 => \A i \in 1..3 : proposalActions[i] \in MCLong

Optimisms == {"messenger", "unichainMessenger", "portal"}
MCAdapterOf ==
  [c \in Optimisms \cup {"inbox", "fxRoot", "wormholeSender", "proposalSender"} |->
     CASE c = "inbox" -> "arbitrum" [] c = "fxRoot" -> "polygon"
       [] c = "wormholeSender" -> "wormhole" [] c = "proposalSender" -> "layerzero"
       [] OTHER -> "optimism"]
MCChainOf ==
  [c \in Optimisms \cup {"inbox"} |->
     CASE c = "inbox" -> "arbitrumOne" [] c = "messenger" -> "optimism"
       [] c = "portal" -> "soneium" [] OTHER -> "unichain"]
MCForwarder ==
  [c \in {"optimism", "soneium", "unichain"} |-> IF c = "optimism" THEN "account" ELSE "none"]
MCWormholeLanes == [r \in {4} |-> [chain |-> "bnb", from |-> "receiver"]]
MCLayerZeroLanes ==
  [r \in {106, 398} |-> IF r = 106 THEN [chain |-> "avalanche", from |-> "executor"]
                        ELSE [chain |-> "megaeth", from |-> "executor2"]]

Task(c, status, n) == [chain |-> c, status |-> status, steps |-> n]
Tasks ==
  {Task(c, "success", n) : c \in {"arb", "op"}, n \in {1, 2}} \cup
  {Task("arb", "failure", 1), Task("scroll", "success", 1), Task("scroll", "failure", 0),
   Task("zk", "skipped", 0)}
MCJobLists ==
  {<<>>} \cup {<<t>> : t \in Tasks} \cup
  {list \in {<<t, u>> : t, u \in Tasks} : list[1].steps + list[2].steps <= 2} \cup
  {<<Task("op", "success", 1), Task(c, "success", 2)>> : c \in {"arb", "op"}}
Outcome(what, skipped) == [found |-> what, skipped |-> skipped]
Both(a, b) == [k \in {"x", "y"} |-> IF k = "x" THEN a ELSE b]
Fine == Outcome({"note"}, FALSE)
MCOutcomes ==
  {Both(r, Fine) : r \in {Fine, Outcome({"hint"}, FALSE), Outcome({"warning", "note"}, FALSE),
                          Outcome({"error"}, FALSE)}} \cup
  {Both(Fine, Outcome({}, TRUE))}

MCPowers ==
  {Power(c, "owner") : c \in {"token", "vault", "safe"}} \cup
  {Power(c, kind) : c \in {"gov", "bravo"}, kind \in {"admin", "pendingAdmin"}}
MCHolderAtStart == [p \in MCPowers |-> IF p.kind = "pendingAdmin" THEN "zero" ELSE "A"]
MCMembersAtStart == [c \in {"acl"} |-> {"A"}]

Do(goal, data, value) == [target |-> goal, data |-> data, value |-> value]
MCProposals ==
  {<<Do("A", "empty", 1), Do("A", "empty", 2)>>,
   <<Do("A", "pay1", 0), Do("B", "pay1", 0), Do("A", "pay2", 0)>>,
   <<Do("A", "odd", 0), Do("B", "empty", 0)>>,
   <<Do("A", "set", 0), Do("A", "set", 1)>>, <<Do("A", "odd", 0), Do("B", "bad pay", 0)>>}
By(goal, data, value) == [from |-> "other", to |-> goal, input |-> data, value |-> value]
MCInner == {<<>>, <<By("A", "pay2", 0)>>, <<By("B", "empty", 1), By("p", "set", 0)>>}
MCSelectorOf ==
  [d \in {"empty", "pay1", "pay2", "bad pay", "set", "odd"} |->
     CASE d = "empty" -> "none" [] d = "set" -> "setOwner" [] d = "odd" -> "0xodd"
       [] OTHER -> "transfer"]

Move1(asset, source, goal, amount, kind) ==
  [asset |-> asset, from |-> source, to |-> goal, amount |-> amount,
   event |-> kind # "silent", method |-> kind \in {"logged", "reverted"},
   failed |-> kind = "reverted"]
MCTransactions ==
  {<<Move1("native", "treasury", "sender", 2, "logged"),
     Move1("t1", "treasury", "sender", 1, "logged")>>,
   <<Move1("t1", "treasury", "sender", 1, "reverted"), Move1("t1", "treasury", "zero", 2, "silent")>>,
   <<Move1("t1", "sender", "treasury", 1, "logged"), Move1("t2", "treasury", "sender", 2, "odd"),
     Move1("c", "treasury", "sender", 0, "silent")>>,
   <<Move1("native", "zero", "treasury", 1, "logged"),
     Move1("t2", "treasury", "sender", 1, "silent")>>}
MCOpening == [a \in {"native", "t1", "t2"} |-> [h \in {"treasury", "sender"} |-> 2]]
MCPrice == [a \in {"native", "t1", "t2"} |-> IF a = "native" THEN 2 ELSE 1]

Frame(above, kind, goal, key, value, failed) ==
  [parent |-> above, kind |-> kind, to |-> goal, input |-> [key |-> key, value |-> value],
   failed |-> failed]
\* The proxy and the code behind it, each called on its own.
MCPlain == <<Frame(0, "CALL", "proxy", "none", 1, FALSE), Frame(0, "CALL", "impl", "none", 1, FALSE)>>
MCTraces ==
  {MCPlain} \cup
  {\* A proxy forwards, its implementation calls a library.
   <<Frame(0, "CALL", "proxy", "k1", 1, FALSE), Frame(1, "DELEGATECALL", "impl", "k1", 1, FALSE),
     Frame(2, "DELEGATECALL", "lib", "none", 0, FALSE)>>,
   \* The implementation is replaced in between.
   <<Frame(0, "CALL", "proxy", "none", 1, FALSE), Frame(1, "DELEGATECALL", "impl", "none", 1, FALSE),
     Frame(0, "CALL", "proxy", "none", 2, FALSE), Frame(3, "DELEGATECALL", "impl2", "none", 2, FALSE)>>,
   \* A forwarded call fails, another one reaches the governor.
   <<Frame(0, "CALL", "proxy", "k2", 2, FALSE), Frame(1, "DELEGATECALL", "impl", "k2", 2, TRUE),
     Frame(1, "CALL", "impl", "k1", 2, FALSE)>>,
   <<Frame(0, "CALL", "proxy", "k1", 1, TRUE), Frame(1, "DELEGATECALL", "impl", "k1", 1, FALSE)>>}
Field(slot, part, kind) == [slot |-> slot, part |-> part, kind |-> kind]
MCLayouts ==
  [c \in {"impl", "impl2", "proxy"} |->
     IF c = "impl" THEN {Field("s0", "low", "bool"), Field("s0", "high", "uint")}
     ELSE {Field("s0", "low", "uint")}]
MCLibraries ==
  [c \in {"impl", "impl2", "proxy", "lib"} |-> IF c = "impl" THEN {"lib"} ELSE {}]
MCChain == [s \in {"s0"} |-> [p \in Parts |-> 1]]
MCExecuted == [p \in Parts |-> IF p = "high" THEN 1 ELSE 0]
Override(part, value) == [slot |-> "s0", part |-> part, value |-> value]
MCOverrides ==
  {<<Override("low", 2), Override("high", 0)>>, <<Override("low", 2), Override("low", 0)>>,
   <<Override("high", 3)>>}

Ops == {"STOP", "JUMPDEST", "JUMP", "PUSH1", "PUSH2", "SELFDESTRUCT", "DELEGATECALL"}
MCBytecodes ==
  UNION {[1..n -> Ops] : n \in 0..3} \cup {<<"JUMP">> \o rest : rest \in [1..3 -> Ops]}
Deployed(bytes, other) ==
  [c \in {"c1", "c2", "sender", "impl"} |->
     CASE c = "c1" -> bytes [] c = "sender" -> other [] OTHER -> <<"STOP">>]
MCCodings ==
  {Deployed(bytes, <<>>) : bytes \in MCBytecodes} \cup
  {Deployed(<<op>>, <<"DELEGATECALL">>) : op \in Ops}
Log(contract, name, kind) ==
  [from |-> contract, name |-> name, event |-> kind, inputs |-> kind = "e1"]
MCSimulations ==
  {[l1 |-> l1, targets |-> <<"c1", "sender", "c1", "timelock">>, to |-> "c2",
    frames |-> <<[to |-> "c1", data |-> TRUE], [to |-> "sender", data |-> FALSE],
                 [to |-> "c2", data |-> TRUE]>>,
    touched |-> <<"governor", "c1", "c2", "sender">>, bridges |-> bridges, proxies |-> {"c1"},
    implementation |-> "c2",
    logs |-> <<Log("c1", "none", "e1"), Log("governor", "ProposalExecuted", "e2"),
               Log("timelock", "ExecuteTransaction", "e1"),
               Log("timelock", "ExecuteTransaction", "e2"),
               Log("c2", "none", "e2"), Log("c1", "Transfer", "e2"), Log("c1", "none", "e1")>>] :
   l1 \in BOOLEAN, bridges \in {{}, {"c1"}}}
MCTogether == {{"solc", "slither"}, {"targets"}, {"touched"}, {"proxies"}, {"logs"}}
MCBehind == [c \in {"c1", "c2"} |->
  IF c = "c1" THEN [beacon |-> "zero", implementation |-> "impl"]
  ELSE [beacon |-> "b", implementation |-> "c1"]]
MCPublished ==
  [c \in {"c1", "c2", "sender", "impl"} |->
     CASE c = "impl" -> "nowhere" [] c = "sender" -> "sourcify" [] OTHER -> "explorer"]
MCVersion == [c \in {"c1", "c2", "sender", "impl"} |-> "v1"]
MCAbiOf ==
  [c \in {"c1", "c2", "governor", "timelock", "impl"} |-> IF c = "impl" THEN {"e1"} ELSE {"e2"}]

Purpose3(a, b, c) ==
  [q \in {"q1", "q2", "q3"} |-> CASE q = "q1" -> a [] q = "q2" -> b [] OTHER -> c]
MCPurposes == {Purpose3("check", "report", "report"), Purpose3("name", "name", "check")}
MCProviders == <<"Etherscan", "Sourcify">>

\* What is deployed matters to the scans, how tools run to the tools.
Ran(set) == \E c \in set : progress[c].at # "not run"
MCContracts ==
  /\ ~Ran(Scanners) =>
       code = Deployed(<<"STOP">>, <<>>) /\ nonces = {} /\ simulation.bridges = {}
  /\ ~Ran(Tools) \/ ~simulation.l1 => allowed /\ managed
  /\ archive \in IF Ran(Tools) THEN {{"solc"}, {"slither"}} ELSE {Tools}
  /\ nonces # {} => code["c1"] = <<>>
  /\ Ran({"touched"}) => simulation.l1

\* What is encoded does not matter to what calls write.  A second call is a plain one that
\* writes once, after two writes of the first.
MCEncoding ==
  /\ "impl2" \in verified => "impl" \in verified
  /\ overrides = <<Override("low", 2), Override("high", 0)>> \/ frames[1].failed
MCCalls ==
  /\ writes' < MaxWrites \/ results # <<>>
  /\ results # <<>> /\ ~checked' =>
       /\ frames' = MCPlain /\ verified \subseteq {"impl"}
       /\ checked => writes = MaxWrites - 1
       /\ \A a \in Addresses, s \in Slots :
            storage'[a][s] \in {storage[a][s], [storage[a][s] EXCEPT !["low"] = 1]}

MCInit ==
  /\ which \in {"verification", "block", "event", "execution", "messages",
               "decision", "permissions", "calls", "balances", "storage", "contracts",
               "lookup"}
  /\ IF which = "verification" THEN CacheInit
     ELSE /\ onSourcify = FALSE /\ onExplorer = 0 /\ backend = "none"
          /\ memory = [p \in Procs |-> NoEntry] /\ file = NoEntry /\ matched = {}
          /\ look = [l \in Lookups |-> NewLookup] /\ crashes = 0
  /\ IF which = "block" THEN SearchInit
     ELSE /\ stamp = [b \in 0..LastBlock |-> 0] /\ target = 0 /\ head = 0 /\ pc = "number"
          /\ attempt = 1 /\ latest = 0 /\ low = 0 /\ high = 0 /\ best = 0
  /\ IF which = "event" THEN EventInit
     ELSE /\ tip = 0 /\ event = 0 /\ wanted = <<0, 0>> /\ ranges = <<>>
          /\ step = "found" /\ end = 0 /\ from = 0 /\ got = {}
  /\ IF which = "execution" THEN ExecInit
     ELSE /\ governorType = "bravo" /\ chain = <<>> /\ created = <<>> /\ type = "new"
          /\ stage = "begin" /\ subject = Nobody /\ pinned = 0 /\ seeded = {}
          /\ derived = <<>> /\ ended = <<>>
  /\ IF which = "messages" THEN MessagesInit /\ MCLists
     ELSE /\ proposalActions = <<>> /\ scanning = 1 /\ index = 1 /\ found = <<>>
          /\ receiver = <<>> /\ extraction = "running"
  /\ IF which = "decision" THEN DecisionInit
     ELSE /\ jobs = <<>> /\ reporting = "saved" /\ job = 1 /\ call = 1 /\ sourceChecks = NoRun
          /\ destChecks = NoRun /\ examined = {} /\ thrown = {} /\ report = NoReport
          /\ files = NothingSaved
  /\ IF which = "permissions" THEN PermissionInit
     ELSE /\ holder = HolderAtStart /\ members = MembersAtStart
          /\ events = <<>> /\ intents = <<>> /\ changes = <<>> /\ told = Running
  /\ IF which = "calls" THEN CallInit
     ELSE /\ onMainnet = TRUE /\ actions = <<>> /\ trace = <<>> /\ nextIndex = 1
          /\ worker = [w \in Describers |-> Idle] /\ descriptions = <<>>
          /\ localWarnings = <<>> /\ localAdvisories = <<>> /\ verdict = Pending
  /\ IF which = "balances" THEN BalanceInit
     ELSE /\ provider = "rpc" /\ replay = FALSE /\ moves = <<>> /\ todo = {}
          /\ gathering = "native" /\ rows = {} /\ unavailable = {} /\ quotes = {"none"}
          /\ movement = Unsaid
  /\ IF which = "storage" THEN StorageInit /\ MCEncoding
     ELSE /\ frames = <<>> /\ verified = {} /\ original = <<>> /\ storage = <<>> /\ writers = {}
          /\ writes = 0 /\ checked = FALSE /\ results = <<>> /\ history = <<>>
          /\ overrides = <<>> /\ encoded = NotEncoded
  /\ IF which = "contracts" THEN ContractInit /\ MCContracts
     ELSE /\ simulation = {} /\ code = <<>> /\ nonces = {} /\ allowed = TRUE /\ managed = TRUE
          /\ archive = {}
          /\ progress = [c \in ContractChecks |-> [Waiting EXCEPT !.at = "not run"]]
          /\ compilers = <<>> /\ directories = {} /\ analysed = {}
  /\ IF which = "lookup" THEN LookupInit
     ELSE /\ purpose \in MCPurposes /\ purpose["q1"] = "check"
          /\ verifiedAt = {} /\ inAbi = FALSE /\ listed = FALSE
          /\ abiMemory = "none" /\ abiFile = "none" /\ names = <<>> /\ restarts = 0
          /\ abiCache = "absent" /\ abiPromise = NoOne /\ signatures = "absent"
          /\ sigPromise = NoOne /\ inquiry = [q \in Inquiries |-> Asleep]

\* Each is told apart from the others by its variables.
Rest(name) ==
  /\ name # "verification" => UNCHANGED cacheVars
  /\ name # "block" => UNCHANGED searchVars
  /\ name # "event" => UNCHANGED eventVars
  /\ name # "execution" => UNCHANGED execVars
  /\ name # "messages" => UNCHANGED messageVars
  /\ name # "decision" => UNCHANGED decisionVars
  /\ name # "permissions" => UNCHANGED permissionVars
  /\ name # "calls" => UNCHANGED callVars
  /\ name # "balances" => UNCHANGED balanceVars
  /\ name # "storage" => UNCHANGED storageVars
  /\ name # "contracts" => UNCHANGED contractVars
  /\ name # "lookup" => UNCHANGED lookupVars

MCNext ==
  /\ UNCHANGED which
  /\ \/ which = "verification" /\ CacheNext
     \/ which = "block" /\ SearchNext
     \/ which = "event" /\ EventNext
     \/ which = "execution" /\ ExecNext
     \/ which = "messages" /\ MessagesNext
     \/ which = "decision" /\ DecisionNext
     \/ which = "permissions" /\ PermissionNext
     \/ which = "calls" /\ CallNext
     \/ which = "balances" /\ BalanceNext
     \/ which = "storage" /\ StorageNext /\ MCCalls
     \/ which = "contracts" /\ ContractNext
     \/ which = "lookup" /\ LookupNext
  /\ Rest(which)
=============================================================================
