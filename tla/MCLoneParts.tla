----------------------------- MODULE MCLoneParts -----------------------------
(***************************************************************************)
(* Six components that share nothing, side by side: one of them runs, the  *)
(* others rest.                                                            *)
(***************************************************************************)
EXTENDS RateLimiter, ShareLinkLimiter, TracedCalls, ManagedAccess, CliPublisher, ActionPage

CONSTANTS
  First,              \* clients differ in nothing: the first request is this one's
  FirstJob            \* nor do clicks

VARIABLE which

CONSTANTS first, second

\* Reports of every kind that the action page tells apart, of two proposals, one
\* of which comes back as proposed and queued, with and without its id.
Report(type, state, id, calls) ==
  [type |-> type, state |-> state, id |-> id, calls |-> calls]

MCReports ==
  {Report("new", None, None, first), Report("missing", None, None, second),
   Report("proposed", "Queued", first, first),
   Report("proposed", "Queued", None, first),
   Report("proposed", "Canceled", first, first),
   Report("executed", "Executed", first, first),
   Report("other", None, None, second)}

MCSeconds == [k \in Quotas |-> IF k = "day" THEN 3 ELSE 2]
MCLimit == [k \in Quotas |-> IF k \in {"day", "minute"} THEN 2 ELSE 1]

MCInit ==
  /\ which \in {"relay", "share", "traces", "access", "cli", "page"}
  /\ Init /\ ShareInit /\ CliInit
  /\ IF which = "page" THEN PageInit
     ELSE /\ shown = None /\ wallet = None /\ visit = 1
          /\ job = [j \in Jobs |-> NewJob]
  /\ IF which = "traces" THEN PacingInit
     ELSE /\ GatewayInit
          /\ call = [c \in Calls |-> [pc |-> "done", attempt |-> 0, nap |-> 0]]
          /\ queue = <<>> /\ due = 0
  /\ IF which = "access" THEN AccessInit
     ELSE /\ team = 0 /\ saved = 0 /\ tmp = {} /\ faults = 0
          /\ proc = [p \in Pids |-> [pc |-> "ready", code |-> 0]]

\* Each is told apart from the others by its variables.
Rest(name) ==
  /\ name # "relay" => UNCHANGED vars
  /\ name # "share" => UNCHANGED shareVars
  /\ name # "traces" => UNCHANGED tracedVars
  /\ name # "access" => UNCHANGED accessVars
  /\ name # "cli" => UNCHANGED deploy
  /\ name # "page" => UNCHANGED pageVars

MCNext ==
  /\ UNCHANGED which
  /\ \/ which = "relay" /\ Next
     \/ which = "share" /\ ShareNext
     \/ which = "traces" /\ TracedNext
     \/ which = "access" /\ AccessNext
     \/ which = "cli" /\ CliNext
     \/ which = "page" /\ PageNext
  /\ Rest(which)
  /\ log' # <<>> => log'[1].client = First
  /\ shareLog' # <<>> => shareLog'[1].client = First
  /\ (\E j \in Jobs : job'[j] # NewJob) => job'[FirstJob] # NewJob

MCSpec ==
  /\ MCInit
  /\ [][MCNext]_<<which, vars, shareVars, tracedVars, accessVars, deploy, pageVars>>
  /\ TracedFairness /\ AccessFairness
=============================================================================
