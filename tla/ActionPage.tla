------------------------------ MODULE ActionPage ------------------------------
(***************************************************************************)
(* The viewer's /action page, from which a proposal is sent to the         *)
(* governor: app/action/page.tsx with useWriteProposeNew,                  *)
(* useWriteExecuteProposal and lib/write-actions.ts (all under             *)
(* frontend/src).  Each click is a mutation that awaits the wallet, twice  *)
(* if it is on another chain, and then the receipt.  Meanwhile the report  *)
(* is fetched again whenever the window gets the focus back, the wallet is *)
(* moved, and the reader leaves the page and comes back.                   *)
(***************************************************************************)
EXTENDS Naturals

CONSTANTS
  Reports,            \* the reports that the API may answer
  Chains, Home,       \* the wallet's chains; wagmiConfig.chains[0]
  Jobs,               \* clicks: a bound
  MaxVisits,          \* bound: times the page is opened
  None

ASSUME PageAssumption ==
  /\ Home \in Chains
  /\ None \notin Reports

VARIABLES
  shown,    \* the report on the page, or None while its fetch has failed
  wallet,   \* the connected wallet's chain, or None
  visit,    \* how often the page was opened: mutations belong to a visit
  job       \* what became of each click

pageVars == <<shown, wallet, visit, job>>

\* `data' is what the mutation's closure holds, `clicked' what the page showed
\* at the click; `tx' the transaction that the wallet signed, `fate' its own.
NewJob == [pc |-> "unused", visit |-> 0, kind |-> None, data |-> None,
           clicked |-> None, tx |-> None, fate |-> "none", said |-> "none"]

PageInit ==
  /\ shown \in Reports \cup {None}
  /\ wallet \in Chains \cup {None}
  /\ visit = 1
  /\ job = [j \in Jobs |-> NewJob]

JobBecomes(j, r) == job' = [job EXCEPT ![j] = r]
JobFails(j) == JobBecomes(j, [job[j] EXCEPT !.pc = "ended", !.said = "failed"])

\* resolveProposalAction
Action(report) ==
  CASE report.type \in {"missing", "new"} -> "propose"
    [] report.type = "proposed" /\ report.state = "Queued" -> "execute"
    [] report.type = "proposed" /\ report.state # "Queued" -> "blocked"
    [] report.type = "executed" -> "executed"
    [] OTHER -> "invalid"

\* isPending of the hook for this kind, as this visit's page sees it: the
\* wallet's answer or the receipt is awaited.
IsPending(kind) ==
  \E j \in Jobs :
    /\ job[j].visit = visit /\ job[j].kind = kind
    /\ job[j].pc \in {"switching", "signing", "mining"}

\* getProposalCardUi: the button is there, and is not disabled.
CanClick(kind) == wallet # None /\ ~IsPending(kind)

\* handleAction, and mutationFn up to its first await.  Executing asks for the
\* proposal's id (buildExecuteArgsFromSimulationData).
Click(j) ==
  /\ job[j].pc = "unused"
  /\ shown # None
  /\ LET kind == Action(shown) IN
     /\ kind \in {"propose", "execute"}
     /\ CanClick(kind)
     /\ JobBecomes(j, [job[j] EXCEPT
          !.visit = visit, !.kind = kind, !.data = shown, !.clicked = shown,
          !.pc = IF kind = "execute" /\ shown.id = None THEN "ended"
                 ELSE IF wallet # Home THEN "switching" ELSE "signing",
          !.said = IF kind = "execute" /\ shown.id = None THEN "failed" ELSE @])
  /\ UNCHANGED <<shown, wallet, visit>>

\* switchChainAsync: the wallet moves, or refuses.
Switched(j) ==
  /\ job[j].pc = "switching" /\ wallet # None
  /\ wallet' = Home
  /\ JobBecomes(j, [job[j] EXCEPT !.pc = "signing"])
  /\ UNCHANGED <<shown, visit>>

\* The wallet refuses to switch or to sign, or cannot: it is gone or on a
\* chain that is not the one writeContractAsync names.
WalletRefuses(j) ==
  /\ job[j].pc \in {"switching", "signing"}
  /\ JobFails(j)
  /\ UNCHANGED <<shown, wallet, visit>>

\* buildProposeArgs, buildExecuteArgs: the calls, or the id, of the report that
\* the closure of the click holds.
Args(report, kind) ==
  IF kind = "propose" THEN [calls |-> report.calls] ELSE [id |-> report.id]

\* Mutant of Signs: the arguments are those of the report on the page now.
SignsWhatIsShown(j) ==
  /\ job[j].pc = "signing" /\ wallet = Home /\ shown # None
  /\ JobBecomes(j, [job[j] EXCEPT !.pc = "mining", !.fate = "pending",
       !.tx = [kind |-> job[j].kind, args |-> Args(shown, job[j].kind),
               chain |-> wallet]])
  /\ UNCHANGED <<shown, wallet, visit>>

\* writeContractAsync: signed, on the chain the code names.
Signs(j) ==
  /\ job[j].pc = "signing" /\ wallet = Home
  /\ JobBecomes(j, [job[j] EXCEPT !.pc = "mining", !.fate = "pending",
       !.tx = [kind |-> job[j].kind, args |-> Args(job[j].data, job[j].kind),
               chain |-> wallet]])
  /\ UNCHANGED <<shown, wallet, visit>>

\* The chain includes a transaction; the governor takes it or reverts.
Mined(j) ==
  /\ job[j].fate = "pending"
  /\ \E f \in {"taken", "reverted"} : JobBecomes(j, [job[j] EXCEPT !.fate = f])
  /\ UNCHANGED <<shown, wallet, visit>>

\* waitForTransactionReceipt returns: onSuccess, or onError if it reverted.
Receipt(j) ==
  /\ job[j].pc = "mining" /\ job[j].fate # "pending"
  /\ JobBecomes(j, [job[j] EXCEPT !.pc = "ended",
       !.said = IF job[j].fate = "taken" THEN "success" ELSE "failed"])
  /\ UNCHANGED <<shown, wallet, visit>>

\* waitForTransactionReceipt throws: its time is over or the node is gone.  The
\* transaction is not.
ReceiptLost(j) ==
  /\ job[j].pc = "mining"
  /\ JobFails(j)
  /\ UNCHANGED <<shown, wallet, visit>>

\* The query's result changes: another report, or its error in its place.
Refetched ==
  /\ shown' \in (Reports \cup {None}) \ {shown}
  /\ UNCHANGED <<wallet, visit, job>>

\* The user connects, disconnects or moves the wallet.
WalletMoves ==
  /\ wallet' \in (Chains \cup {None}) \ {wallet}
  /\ UNCHANGED <<shown, visit, job>>

\* The page is left and opened again: its hooks start anew, while mutations
\* that were under way go on.
Reopened ==
  /\ visit < MaxVisits
  /\ visit' = visit + 1
  /\ UNCHANGED <<shown, wallet, job>>

PageNext ==
  \/ Refetched \/ WalletMoves \/ Reopened
  \/ \E j \in Jobs :
       \/ Click(j) \/ Switched(j) \/ WalletRefuses(j) \/ Signs(j)
       \/ Mined(j) \/ Receipt(j) \/ ReceiptLost(j)

PageSpec == PageInit /\ [][PageNext]_pageVars
-----------------------------------------------------------------------------
Signed(report, kind) ==
  [kind |-> kind, args |-> Args(report, kind), chain |-> Home]

Transactions == {Signed(r, k) : r \in Reports, k \in {"propose", "execute"}}

JobRecords ==
  [pc: {"unused", "switching", "signing", "mining", "ended"}, visit: Nat,
   kind: {None, "propose", "execute"},
   data: Reports \cup {None}, clicked: Reports \cup {None},
   tx: Transactions \cup {None},
   fate: {"none", "pending", "taken", "reverted"},
   said: {"none", "success", "failed"}]

PageTypeOK ==
  /\ shown \in Reports \cup {None}
  /\ wallet \in Chains \cup {None}
  /\ visit \in Nat
  /\ job \in [Jobs -> JobRecords]

(***************************************************************************)
(* What the wallet signs is what the page showed when it was asked to: the *)
(* action that this report allowed, its calls or its id, on the chain the  *)
(* governor is on; whatever was fetched, switched or moved while the       *)
(* wallet was awaited.                                                     *)
(***************************************************************************)
SignedIsReviewed ==
  \A j \in Jobs :
    job[j].tx # None => job[j].tx = Signed(job[j].clicked, Action(job[j].clicked))
=============================================================================
