-------------------------- MODULE OwnershipIndexer --------------------------
(***************************************************************************)
(* The ownership side of the indexer (indexer/src/index.ts with            *)
(* chain/event-listener.ts and submitter/root-submitter.ts) working on the *)
(* registry: it learns registrations by polling for events, keeps a tree   *)
(* of them in memory and submits its root.                                 *)
(*                                                                         *)
(* An action runs from one await to the next, as the event loop does.      *)
(* setInterval starts a poll whether or not an earlier one still waits in  *)
(* its callback, and the daily job and startup submit roots on their own,  *)
(* so several activities are under way at a time: each holds a slot.       *)
(* Uploads, chain reads and transactions may fail; the process may stop at *)
(* any await and is started again with its memory lost.                    *)
(***************************************************************************)
EXTENDS VotingRegistry

CONSTANTS
    TreeBuilderKey,     \* the account of TREE_BUILDER_KEY
    Slot,               \* bounds the activities under way at a time
    MaxFailures,        \* bounds failing reads and transactions
    MaxCrashes          \* bounds stops of the process

ASSUME IndexerAssumption ==
    /\ TreeBuilderKey \in Account
    /\ MaxFailures \in Nat
    /\ MaxCrashes \in Nat

(* A list of registrations, no two of an account, has a root.              *)
ASSUME TreeAssumption ==
    \A n \in 0..Cardinality(Account) : \A regs \in [1..n -> Registration] :
        (\A i, j \in 1..n : regs[i].account = regs[j].account => i = j)
            => regs \in OwnershipRoot

VARIABLES
    windowStart,            \* registrations older than the blocks a poll looks back
    running,
    listening,              \* the poll timer is set
    currentRegistrations,   \* RegistrationEvent[]; the tree holds their leaves in order
    lastSeenIndex,
    activity,               \* what each slot awaits
    mempool,                \* submissions sent and not mined, [root, count]
    failures, crashes       \* failures and crashes so far

memoryVars  == <<running, listening, currentRegistrations, lastSeenIndex>>
indexerVars == <<windowStart, memoryVars, activity, mempool, failures, crashes>>
vars        == <<registryVars, indexerVars>>

RegistrationEvent == [index : Nat, account : Account, commitment : Commitment]

(* The leaves inserted for the events: ownershipTree, whose root they are. *)
TreeOf(events) ==
    [k \in 1..Len(events) |->
        [account |-> events[k].account, commitment |-> events[k].commitment]]

EventAt(i) == [index      |-> i,
               account    |-> registrations[i + 1].account,
               commitment |-> registrations[i + 1].commitment]

(***************************************************************************)
(* An activity awaits an upload, the read of the count on chain, the send  *)
(* of its transaction or its receipt.  root is the root to submit, for as  *)
(* many registrations as it has leaves; todo holds the indices of the      *)
(* events a poll has still to look at.                                     *)
(***************************************************************************)
Activity == [pc   : {"idle", "upload", "check", "send", "wait"},
             todo : SUBSET Nat,
             root : Seq(Registration)]

Idle == [pc |-> "idle", todo |-> {}, root |-> <<>>]

Submission == [root : Seq(Registration), count : Nat]

IndexerTypeOK ==
    /\ registrations \in Seq(Registration)
    /\ windowStart \in 0..Len(registrations)
    /\ running \in BOOLEAN
    /\ listening \in BOOLEAN
    /\ currentRegistrations \in Seq(RegistrationEvent)
    /\ lastSeenIndex \in Int
    /\ activity \in [Slot -> Activity]
    /\ mempool \in SUBSET Submission
    /\ failures \in 0..MaxFailures
    /\ crashes \in 0..MaxCrashes
    /\ ~running => ~listening /\ activity = [s \in Slot |-> Idle]

Init ==
    /\ RegistryInit
    /\ treeBuilder = TreeBuilderKey
    /\ windowStart = 0
    /\ running = FALSE
    /\ listening = FALSE
    /\ currentRegistrations = <<>>
    /\ lastSeenIndex = -1
    /\ activity = [s \in Slot |-> Idle]
    /\ mempool = {}
    /\ failures = 0
    /\ crashes = 0

-----------------------------------------------------------------------------
(* The chain *)

Register ==
    /\ \E sender \in Account, c \in Commitment : register(sender, c)
    /\ UNCHANGED indexerVars

(* Blocks pass, and events leave the window of the last 1000.              *)
BlocksPass ==
    /\ \E n \in (windowStart + 1)..Len(registrations) : windowStart' = n
    /\ UNCHANGED <<registryVars, memoryVars, activity, mempool, failures, crashes>>

(***************************************************************************)
(* A submission is executed: it takes effect or, when registrations came   *)
(* in between, reverts.                                                    *)
(***************************************************************************)
Mine(tx) ==
    /\ tx \in mempool
    /\ mempool' = mempool \ {tx}
    /\ \/ submitOwnershipRoot(TreeBuilderKey, tx.root, tx.count)
       \/ /\ tx.count # Len(registrations)
          /\ UNCHANGED registryVars
    /\ UNCHANGED <<windowStart, memoryVars, activity, failures, crashes>>

-----------------------------------------------------------------------------
(* The process *)

(* Startup fetches every event since block 0 and builds the tree of them,  *)
Start ==
    /\ ~running
    /\ running' = TRUE
    /\ currentRegistrations' = [k \in 1..Len(registrations) |-> EventAt(k - 1)]
    /\ lastSeenIndex' = Len(registrations) - 1
    /\ UNCHANGED <<registryVars, windowStart, listening, activity, mempool, failures, crashes>>

(* and sets the poll timer when the upload of that tree has ended.         *)
Listen ==
    /\ running
    /\ ~listening
    /\ listening' = TRUE
    /\ UNCHANGED <<registryVars, windowStart, running, currentRegistrations, lastSeenIndex,
                   activity, mempool, failures, crashes>>

(* Mutant: what an activity awaited outlives the process.                  *)
CrashKeepingActivity ==
    /\ running
    /\ crashes < MaxCrashes
    /\ crashes' = crashes + 1
    /\ running' = FALSE
    /\ listening' = FALSE
    /\ currentRegistrations' = <<>>
    /\ lastSeenIndex' = -1
    /\ UNCHANGED <<registryVars, windowStart, activity, mempool, failures>>

(* The process stops; its transactions stay in the mempool.                *)
Crash ==
    /\ running
    /\ crashes < MaxCrashes
    /\ crashes' = crashes + 1
    /\ running' = FALSE
    /\ listening' = FALSE
    /\ currentRegistrations' = <<>>
    /\ lastSeenIndex' = -1
    /\ activity' = [s \in Slot |-> Idle]
    /\ UNCHANGED <<registryVars, windowStart, mempool, failures>>

(* Mutant: lastSeenIndex is left to the end of the callback.               *)
HandleUnmarked(s, todo) ==
    \E i \in todo :
        /\ i > lastSeenIndex
        /\ \A j \in todo : j > lastSeenIndex => i <= j
        /\ currentRegistrations' = Append(currentRegistrations, EventAt(i))
        /\ activity' = [activity EXCEPT ![s] =
                           [pc |-> "upload", todo |-> todo \ {i}, root |-> <<>>]]
        /\ UNCHANGED <<running, listening, lastSeenIndex>>

(* The first event not seen is marked seen and inserted, and its upload    *)
(* started, with no await in between.                                      *)
HandleNewRegistration(s, todo) ==
    \E i \in todo :
        /\ i > lastSeenIndex
        /\ \A j \in todo : j > lastSeenIndex => i <= j
        /\ lastSeenIndex' = i
        /\ currentRegistrations' = Append(currentRegistrations, EventAt(i))
        /\ activity' = [activity EXCEPT ![s] =
                           [pc |-> "upload", todo |-> todo \ {i}, root |-> <<>>]]
        /\ UNCHANGED <<running, listening>>

(* The loop over a poll's events, as far as the next await or its end.     *)
LookAt(s, todo) ==
    \/ HandleNewRegistration(s, todo)
    \/ /\ \A i \in todo : i <= lastSeenIndex
       /\ activity' = [activity EXCEPT ![s] = Idle]
       /\ UNCHANGED memoryVars

(* A poll, from the answer to its query.  A failed query is no step.       *)
Poll(s) ==
    /\ listening
    /\ activity[s] = Idle
    /\ LookAt(s, windowStart..(Len(registrations) - 1))
    /\ UNCHANGED <<registryVars, windowStart, mempool, failures, crashes>>

(* submitOwnershipRootOnChain, up to its read of the count on chain, takes *)
(* the tree as it is at that moment.                                       *)
TakeRoot(s, todo) ==
    /\ activity' = [activity EXCEPT ![s] =
                       [pc |-> "check", todo |-> todo, root |-> TreeOf(currentRegistrations)]]
    /\ UNCHANGED <<registryVars, windowStart, memoryVars, mempool, failures, crashes>>

(* The upload ended, well or not; the handler goes on to submit.           *)
Uploaded(s) ==
    /\ activity[s].pc = "upload"
    /\ TakeRoot(s, activity[s].todo)

(* Mutant: the daily job submits no ownership root.                        *)
SubmitNothing(s) == FALSE

(* submitRoots, called at startup and by the daily job.                    *)
SubmitRoots(s) ==
    /\ listening
    /\ activity[s] = Idle
    /\ TakeRoot(s, {})

(* The submission returns, or throws an error that is caught and logged;   *)
(* a poll then goes on with its events.                                    *)
Return(s) ==
    /\ LookAt(s, activity[s].todo)
    /\ UNCHANGED <<registryVars, windowStart, mempool, crashes>>

CheckCount(s) ==
    /\ activity[s].pc = "check"
    /\ \/ /\ latestOwnershipRegCount >= Len(activity[s].root)
          /\ Return(s)
       \/ /\ latestOwnershipRegCount < Len(activity[s].root)
          /\ activity' = [activity EXCEPT ![s].pc = "send"]
          /\ UNCHANGED <<registryVars, windowStart, memoryVars, mempool, crashes>>
    /\ UNCHANGED failures

(* Sending estimates the gas first, which throws when the call would       *)
(* revert.                                                                 *)
Send(s) ==
    LET root == activity[s].root
    IN  /\ activity[s].pc = "send"
        /\ \/ /\ Len(root) # Len(registrations)
              /\ Return(s)
           \/ /\ Len(root) = Len(registrations)
              /\ mempool' = mempool \cup {[root |-> root, count |-> Len(root)]}
              /\ activity' = [activity EXCEPT ![s].pc = "wait"]
              /\ UNCHANGED <<registryVars, windowStart, memoryVars, crashes>>
        /\ UNCHANGED failures

(* The read or the send fails, for instance on a nonce another activity    *)
(* has used, or the wait, with the transaction pending or executed.        *)
Fail(s) ==
    /\ activity[s].pc \in {"check", "send", "wait"}
    /\ failures < MaxFailures
    /\ failures' = failures + 1
    /\ Return(s)

(* The receipt arrives: the transaction was executed, or it reverted and   *)
(* waiting for it throws.                                                  *)
Receipt(s) ==
    /\ activity[s].pc = "wait"
    /\ [root |-> activity[s].root, count |-> Len(activity[s].root)] \notin mempool
    /\ Return(s)
    /\ UNCHANGED failures

Step(s) == Uploaded(s) \/ CheckCount(s) \/ Send(s) \/ Receipt(s)

Next ==
    \/ Register
    \/ BlocksPass
    \/ \E tx \in mempool : Mine(tx)
    \/ Start
    \/ Listen
    \/ Crash
    \/ \E s \in Slot : Poll(s) \/ SubmitRoots(s) \/ Step(s) \/ Fail(s)

(***************************************************************************)
(* The process is restarted, the poll timer and the daily job fire for     *)
(* ever (strong fairness, as they need no slot in the code), every await   *)
(* ends and the chain executes transactions.  Nobody has to register, and  *)
(* no block has to pass, at any particular time.                           *)
(***************************************************************************)
Fairness ==
    /\ WF_vars(Start)
    /\ WF_vars(Listen)
    /\ WF_vars(\E tx \in mempool : Mine(tx))
    /\ SF_vars(\E s \in Slot : Poll(s))
    /\ SF_vars(\E s \in Slot : SubmitRoots(s))
    /\ \A s \in Slot : WF_vars(Step(s))

Spec == Init /\ [][Next]_vars /\ Fairness

-----------------------------------------------------------------------------
(* Properties *)

(***************************************************************************)
(* Whatever polls overlap, whatever events are missed, and however late a  *)
(* transaction of an earlier run of the process is executed, the root that *)
(* becomes known is that of all registrations there are.  PrivateVoting    *)
(* takes this for granted in PublishOwnershipRoot.                         *)
(***************************************************************************)
PublishesAllRegistrations ==
    [][\/ UNCHANGED ownershipVars
       \/ submitOwnershipRoot(treeBuilder, registrations, Len(registrations))]_vars

(***************************************************************************)
(* The events in memory are registrations on chain, each once and in the   *)
(* order of the chain, though several polls append to them.                *)
(***************************************************************************)
EventsInOrder ==
    LET events == currentRegistrations
    IN  /\ -1 <= lastSeenIndex /\ lastSeenIndex < Len(registrations)
        /\ \A k \in 1..Len(events) :
              events[k].index <= lastSeenIndex /\ events[k] = EventAt(events[k].index)
        /\ \A j, k \in 1..Len(events) : j < k => events[j].index < events[k].index

(* An event is missed: it left the window before a poll saw it.            *)
Missed ==
    /\ running
    /\ \/ Len(currentRegistrations) <= lastSeenIndex
       \/ windowStart > lastSeenIndex + 1

(***************************************************************************)
(* Every registration is in a published tree in the end, whatever fails    *)
(* and stops on the way, unless an event was missed: then nothing is       *)
(* published until the process is restarted.                               *)
(***************************************************************************)
EventuallyPublished ==
    \A n \in 1..Cardinality(Account) :
        (Len(registrations) >= n) ~> (latestOwnershipRegCount >= n \/ Missed)

(***************************************************************************)
(* What the comment on listenForRegistrations says of its callback, that   *)
(* it is called for each new event: no index up to the last one seen is    *)
(* left out.                                                               *)
(***************************************************************************)
CalledForEachEvent ==
    \A i \in 0..lastSeenIndex :
        \E k \in 1..Len(currentRegistrations) : currentRegistrations[k].index = i

=============================================================================
