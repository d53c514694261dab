------------------------------ MODULE Relayer ------------------------------
(***************************************************************************)
(* The relayer (relayer/src): it takes vote requests over HTTP, checks     *)
(* each against the chain (proof-validator.ts), queues it (queue.ts) and   *)
(* sends it from the relayer's wallet (tx-submitter.ts), one at a time.    *)
(*                                                                         *)
(* An action runs from one await to the next.  Any read, send or wait may  *)
(* fail, once per request.  The node keeps one pending transaction per     *)
(* nonce and may drop it; executing one uses up the wallet's next nonce.   *)
(* The process may stop, which closes its connections and leaves its       *)
(* transactions pending.                                                   *)
(***************************************************************************)
EXTENDS Integers, Sequences, FiniteSets

CONSTANTS
    Request,        \* POST /api/v1/relay requests, each with its own connection
    Nullifier,      \* proposal and nullifier, the keys of nullifierUsed
    NullifierOf,    \* what each request asks to use
    MaxQueueSize,
    MaxCrashes      \* bounds stops of the process

ASSUME RelayerAssumption ==
    /\ NullifierOf \in [Request -> Nullifier]
    /\ MaxQueueSize \in Nat
    /\ MaxCrashes \in Nat

VARIABLES
    stage,          \* what the handler of each request awaits, or its answer
    queue,          \* requests pushed and not shifted
    processing,
    currentNonce,
    txNonce,        \* nonce in processNext, for each request it took
    mempool,        \* requests whose transaction is pending
    accountNonce,   \* the wallet's nonce on chain
    voted,          \* requests whose transaction took effect
    reverted,       \* requests whose transaction was executed and failed
    nullifierUsed,
    refused,        \* requests the contracts refuse for a root, tier or proof
    crashes

queueVars == <<stage, queue, processing, currentNonce, txNonce>>
chainVars == <<accountNonce, voted, reverted, nullifierUsed, refused>>
vars      == <<queueVars, mempool, chainVars, crashes>>

NoNonce == -1

(* "lost" is a connection closed without an answer. *)
Answers == {"200", "400", "500", "lost"}

Processing == {"nonce", "send", "wait"}

Stages == {"new", "nullifier", "roots", "queued"} \cup Processing \cup Answers

RelayerTypeOK ==
    /\ stage \in [Request -> Stages]
    /\ queue \in Seq(Request)
    /\ processing \in BOOLEAN
    /\ currentNonce \in Nat \cup {NoNonce}
    /\ txNonce \in [Request -> Nat \cup {NoNonce}]
    /\ mempool \in SUBSET Request
    /\ accountNonce \in Nat
    /\ voted \in SUBSET Request
    /\ reverted \in SUBSET Request
    /\ nullifierUsed \in SUBSET Nullifier
    /\ refused \in SUBSET Request
    /\ crashes \in 0..MaxCrashes
    /\ \A r \in Request : stage[r] \in {"send", "wait"} => txNonce[r] \in Nat

Init ==
    /\ stage = [r \in Request |-> "new"]
    /\ queue = <<>>
    /\ processing = FALSE
    /\ currentNonce = NoNonce
    /\ txNonce = [r \in Request |-> NoNonce]
    /\ mempool = {}
    /\ accountNonce = 0
    /\ voted = {}
    /\ reverted = {}
    /\ nullifierUsed = {}
    /\ refused \in SUBSET Request
    /\ crashes = 0

-----------------------------------------------------------------------------
(* The queue *)

(* Mutant: the nonce is not fetched when there is none.                    *)
processNextUnfetched(q, st, nonce) ==
    IF q = <<>>
    THEN /\ queue' = q
         /\ stage' = st
         /\ processing' = FALSE
         /\ currentNonce' = nonce
         /\ UNCHANGED txNonce
    ELSE /\ queue' = Tail(q)
         /\ stage' = [st EXCEPT ![Head(q)] = "send"]
         /\ processing' = TRUE
         /\ currentNonce' = nonce + 1
         /\ txNonce' = [txNonce EXCEPT ![Head(q)] = nonce]

(***************************************************************************)
(* processNext while nothing is processed, from the queue q, the stages st *)
(* and the nonce there are by then: it takes the first request, if any,    *)
(* and goes on to fetch the nonce or, with one at hand, to send.           *)
(***************************************************************************)
processNext(q, st, nonce) ==
    \/ /\ q = <<>>
       /\ queue' = q
       /\ stage' = st
       /\ processing' = FALSE
       /\ currentNonce' = nonce
       /\ UNCHANGED txNonce
    \/ /\ q # <<>>
       /\ nonce = NoNonce
       /\ queue' = Tail(q)
       /\ stage' = [st EXCEPT ![Head(q)] = "nonce"]
       /\ processing' = TRUE
       /\ currentNonce' = nonce
       /\ UNCHANGED txNonce
    \/ /\ q # <<>>
       /\ nonce # NoNonce
       /\ queue' = Tail(q)
       /\ stage' = [st EXCEPT ![Head(q)] = "send"]
       /\ processing' = TRUE
       /\ currentNonce' = nonce + 1
       /\ txNonce' = [txNonce EXCEPT ![Head(q)] = nonce]

(* Mutant: the queue may hold one request more than its maximum.           *)
enqueueOneMore(r) ==
    LET q  == Append(queue, r)
        st == [stage EXCEPT ![r] = "queued"]
    IN  \/ /\ Len(queue) > MaxQueueSize
           /\ stage' = [stage EXCEPT ![r] = "500"]
           /\ UNCHANGED <<queue, processing, currentNonce, txNonce>>
        \/ /\ Len(queue) <= MaxQueueSize
           /\ processing
           /\ queue' = q
           /\ stage' = st
           /\ UNCHANGED <<processing, currentNonce, txNonce>>
        \/ /\ Len(queue) <= MaxQueueSize
           /\ ~processing
           /\ processNext(q, st, currentNonce)

(* Mutant: a request is processed at once, whatever is being processed.    *)
enqueueAndProcess(r) ==
    \/ /\ Len(queue) >= MaxQueueSize
       /\ stage' = [stage EXCEPT ![r] = "500"]
       /\ UNCHANGED <<queue, processing, currentNonce, txNonce>>
    \/ /\ Len(queue) < MaxQueueSize
       /\ processNext(Append(queue, r), [stage EXCEPT ![r] = "queued"], currentNonce)

enqueue(r) ==
    LET q  == Append(queue, r)
        st == [stage EXCEPT ![r] = "queued"]
    IN  \/ /\ Len(queue) >= MaxQueueSize
           /\ stage' = [stage EXCEPT ![r] = "500"]
           /\ UNCHANGED <<queue, processing, currentNonce, txNonce>>
        \/ /\ Len(queue) < MaxQueueSize
           /\ processing
           /\ queue' = q
           /\ stage' = st
           /\ UNCHANGED <<processing, currentNonce, txNonce>>
        \/ /\ Len(queue) < MaxQueueSize
           /\ ~processing
           /\ processNext(q, st, currentNonce)

(* The request taken is answered, and the next one is taken.               *)
Resolve(r) == processNext(queue, [stage EXCEPT ![r] = "200"], currentNonce)

(* Mutant: a failure leaves the nonce as it is.                            *)
RejectKeepingNonce(r) == processNext(queue, [stage EXCEPT ![r] = "500"], currentNonce)

(* Mutant: a failure does not start the next request.                      *)
RejectAndStop(r) ==
    /\ stage' = [stage EXCEPT ![r] = "500"]
    /\ processing' = FALSE
    /\ currentNonce' = NoNonce
    /\ UNCHANGED <<queue, txNonce>>

(* Mutant: a failure is answered like a request that is not valid.         *)
RejectAsInvalid(r) == processNext(queue, [stage EXCEPT ![r] = "400"], NoNonce)

(* A failure resets the nonce, for the next request to fetch.              *)
Reject(r) == processNext(queue, [stage EXCEPT ![r] = "500"], NoNonce)

-----------------------------------------------------------------------------
(* The handler of a request *)

(* A malformed request is answered at once.                                *)
Receive(r) ==
    /\ stage[r] = "new"
    /\ \E s \in {"nullifier", "400"} : stage' = [stage EXCEPT ![r] = s]
    /\ UNCHANGED <<queue, processing, currentNonce, txNonce, mempool, chainVars, crashes>>

(* preCheckOnChain reads nullifierUsed; when the read fails it goes on.    *)
CheckNullifier(r) ==
    /\ stage[r] = "nullifier"
    /\ \/ /\ NullifierOf[r] \in nullifierUsed
          /\ stage' = [stage EXCEPT ![r] = "400"]
       \/ stage' = [stage EXCEPT ![r] = "roots"]
    /\ UNCHANGED <<queue, processing, currentNonce, txNonce, mempool, chainVars, crashes>>

(***************************************************************************)
(* It then reads the ownership root, the proposal and its balances root.   *)
(* A request that is refused for its proof or tier, or whose reads fail,   *)
(* is enqueued like one the contracts accept.                              *)
(***************************************************************************)
CheckRoots(r) ==
    /\ stage[r] = "roots"
    /\ \/ /\ r \in refused
          /\ stage' = [stage EXCEPT ![r] = "400"]
          /\ UNCHANGED <<queue, processing, currentNonce, txNonce>>
       \/ enqueue(r)
    /\ UNCHANGED <<mempool, chainVars, crashes>>

(* getNonce counts the executed transactions, not the pending ones.        *)
GetNonce(r) ==
    /\ stage[r] = "nonce"
    /\ stage' = [stage EXCEPT ![r] = "send"]
    /\ txNonce' = [txNonce EXCEPT ![r] = accountNonce]
    /\ currentNonce' = accountNonce + 1
    /\ UNCHANGED <<queue, processing, mempool, chainVars, crashes>>

Succeeds(r) == NullifierOf[r] \notin nullifierUsed /\ r \notin refused

(* The node takes a transaction with an unused nonce, in place of a        *)
(* pending one with the same nonce.                                        *)
Broadcast(r) ==
    /\ txNonce[r] >= accountNonce
    /\ mempool' = {q \in mempool : txNonce[q] # txNonce[r]} \cup {r}

(* Mutant: the receipt is not waited for.                                  *)
SendOnly(r) ==
    /\ stage[r] = "send"
    /\ Succeeds(r)
    /\ Broadcast(r)
    /\ Resolve(r)
    /\ UNCHANGED <<chainVars, crashes>>

(* The gas estimate runs the call first.                                   *)
Send(r) ==
    /\ stage[r] = "send"
    /\ Succeeds(r)
    /\ Broadcast(r)
    /\ stage' = [stage EXCEPT ![r] = "wait"]
    /\ UNCHANGED <<queue, processing, currentNonce, txNonce, chainVars, crashes>>

(***************************************************************************)
(* The read of the nonce fails; the estimate reverts; the node refuses the *)
(* transaction, as too cheap to replace a pending one or for a nonce used  *)
(* meanwhile; or it takes the transaction and its answer is lost.          *)
(***************************************************************************)
SendFails(r) ==
    /\ stage[r] \in {"nonce", "send"}
    /\ Reject(r)
    /\ \/ UNCHANGED mempool
       \/ stage[r] = "send" /\ Succeeds(r) /\ Broadcast(r)
    /\ UNCHANGED <<chainVars, crashes>>

(* The receipt arrives; wait() throws when its status is a failure.        *)
Receipt(r) ==
    /\ stage[r] = "wait"
    /\ \/ r \in voted /\ Resolve(r)
       \/ r \in reverted /\ Reject(r)
    /\ UNCHANGED <<mempool, chainVars, crashes>>

(* A read of the receipt fails.                                            *)
WaitFails(r) ==
    /\ stage[r] = "wait"
    /\ Reject(r)
    /\ UNCHANGED <<mempool, chainVars, crashes>>

Crash ==
    /\ crashes < MaxCrashes
    /\ crashes' = crashes + 1
    /\ stage' = [r \in Request |->
                    IF stage[r] \in Answers \cup {"new"} THEN stage[r] ELSE "lost"]
    /\ queue' = <<>>
    /\ processing' = FALSE
    /\ currentNonce' = NoNonce
    /\ UNCHANGED <<txNonce, mempool, chainVars>>

-----------------------------------------------------------------------------
(* The chain *)

(* The wallet's transaction with the next nonce is executed.               *)
Mine(r) ==
    /\ r \in mempool
    /\ txNonce[r] = accountNonce
    /\ mempool' = mempool \ {r}
    /\ accountNonce' = accountNonce + 1
    /\ \/ /\ Succeeds(r)
          /\ voted' = voted \cup {r}
          /\ nullifierUsed' = nullifierUsed \cup {NullifierOf[r]}
          /\ UNCHANGED reverted
       \/ /\ ~Succeeds(r)
          /\ reverted' = reverted \cup {r}
          /\ UNCHANGED <<voted, nullifierUsed>>
    /\ UNCHANGED <<queueVars, refused, crashes>>

Drop(r) ==
    /\ r \in mempool
    /\ mempool' = mempool \ {r}
    /\ UNCHANGED <<queueVars, chainVars, crashes>>

(* A voter sends a vote without the relayer.                               *)
VoteElsewhere ==
    /\ \E n \in Nullifier \ nullifierUsed : nullifierUsed' = nullifierUsed \cup {n}
    /\ UNCHANGED <<queueVars, mempool, accountNonce, voted, reverted, refused, crashes>>

(* A root becomes known, or a later snapshot replaces the expected root.   *)
RootsChange ==
    /\ refused' \in SUBSET Request
    /\ UNCHANGED <<queueVars, mempool, accountNonce, voted, reverted, nullifierUsed, crashes>>

Handle(r) == CheckNullifier(r) \/ CheckRoots(r) \/ GetNonce(r) \/ Send(r) \/ SendFails(r)
             \/ Receipt(r)

Next ==
    \/ \E r \in Request : Receive(r) \/ Handle(r) \/ WaitFails(r) \/ Mine(r) \/ Drop(r)
    \/ Crash
    \/ VoteElsewhere
    \/ RootsChange

(* Every await ends, and the chain executes what it does not drop.         *)
Fairness == \A r \in Request : WF_vars(Handle(r)) /\ WF_vars(Mine(r))

Spec == Init /\ [][Next]_vars /\ Fairness

-----------------------------------------------------------------------------
(* Properties *)

(***************************************************************************)
(* However handlers interleave, processNext has one request in hand at     *)
(* most and the flag says whether; it never leaves a request waiting with  *)
(* none in hand, and no more wait than the maximum.                        *)
(***************************************************************************)
OneInHand ==
    /\ \A q, r \in Request : stage[q] \in Processing /\ stage[r] \in Processing => q = r
    /\ processing <=> \E r \in Request : stage[r] \in Processing
    /\ queue # <<>> => processing
    /\ Len(queue) <= MaxQueueSize

(***************************************************************************)
(* Nonce conflicts are avoided: whatever failed, was dropped or was left   *)
(* pending by an earlier run, a pending transaction has the wallet's next  *)
(* nonce, so that none waits behind a gap, and there is one at most.       *)
(***************************************************************************)
NoNonceGap ==
    /\ \A r \in mempool : txNonce[r] = accountNonce
    /\ \A q, r \in mempool : q = r

(***************************************************************************)
(* A request answered with success has voted, and of several requests with *)
(* one nullifier, all past the pre-check, one succeeds at most.            *)
(***************************************************************************)
SuccessMeansVoted ==
    /\ \A r \in Request : stage[r] = "200" => r \in voted
    /\ \A q, r \in voted : NullifierOf[q] = NullifierOf[r] => q = r

AnswerTo == [r \in Request |-> IF stage[r] \in Answers THEN stage[r] ELSE "none"]

Service == INSTANCE VoteRelay WITH
               answer  <- AnswerTo,
               counted <- voted,
               used    <- nullifierUsed

(***************************************************************************)
(* The queue, the nonces, the failures and the restarts keep what an       *)
(* answer of the relay handler tells its sender: VoteRelay.  A transaction *)
(* left pending by a failed send is never that of a request answered 400.  *)
(***************************************************************************)
ImplementsVoteRelay == Service!Spec

(* processNext waits for a transaction that was dropped.                   *)
Blocked ==
    \E r \in Request : stage[r] = "wait" /\ r \notin mempool \cup voted \cup reverted

(***************************************************************************)
(* Every request is answered, the ones behind a failed one included,       *)
(* unless the queue is blocked by a dropped transaction: wait() has no     *)
(* timeout.                                                                *)
(***************************************************************************)
EventuallyAnswered ==
    \A r \in Request : (stage[r] # "new") ~> (stage[r] \in Answers \/ Blocked)

(***************************************************************************)
(* What the comment on TransactionQueue says: each transaction waits for   *)
(* the previous one to be mined before sending the next.                   *)
(***************************************************************************)
WaitsForPrevious ==
    \A r \in Request : stage[r] = "send" => mempool = {}

=============================================================================
