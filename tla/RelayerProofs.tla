--------------------------- MODULE RelayerProofs ---------------------------
(***************************************************************************)
(* Proofs about the relayer, for any number of requests, any bound of the  *)
(* queue and any number of restarts.                                       *)
(***************************************************************************)
EXTENDS Relayer, TLAPS

(* What the queue holds has not been taken, and holds nothing twice.       *)
QueueInv ==
    /\ OneInHand
    /\ \A i \in 1..Len(queue) : stage[queue[i]] = "queued"
    /\ \A i, j \in 1..Len(queue) : queue[i] = queue[j] => i = j

(* A request is sent once, and a vote uses its nullifier.                  *)
ChainInv ==
    /\ NoNonceGap
    /\ \A r \in mempool \cup voted \cup reverted : stage[r] \in Answers \cup {"wait"}
    /\ mempool \cap (voted \cup reverted) = {}
    /\ \A r \in voted : NullifierOf[r] \in nullifierUsed

(* A nonce kept for the next request is the wallet's; one in use is not    *)
(* ahead of it; and when the transaction in hand has been executed nothing *)
(* else is pending.                                                        *)
NonceInv ==
    /\ ~processing /\ currentNonce # NoNonce => currentNonce = accountNonce /\ mempool = {}
    /\ \A r \in Request : stage[r] = "send" =>
           txNonce[r] <= accountNonce /\ currentNonce = txNonce[r] + 1
    /\ \A r \in Request : stage[r] = "wait" =>
           /\ currentNonce = txNonce[r] + 1
           /\ r \in voted \cup reverted => accountNonce = currentNonce /\ mempool = {}

RelayerInv ==
    /\ RelayerTypeOK
    /\ QueueInv
    /\ ChainInv
    /\ NonceInv
    /\ SuccessMeansVoted

-----------------------------------------------------------------------------
(* The request in hand is answered, and the next one is taken.             *)
LEMMA Settles ==
    ASSUME RelayerTypeOK, QueueInv,
           NEW r \in Request, stage[r] \in Processing,
           NEW a \in {"200", "500"},
           NEW nonce \in Nat \cup {NoNonce},
           processNext(queue, [stage EXCEPT ![r] = a], nonce)
    PROVE  /\ stage' \in [Request -> Stages]
           /\ queue' \in Seq(Request)
           /\ processing' \in BOOLEAN
           /\ currentNonce' \in Nat \cup {NoNonce}
           /\ txNonce' \in [Request -> Nat \cup {NoNonce}]
           /\ QueueInv'
           /\ \A s \in Request :
                 \/ s = r /\ stage'[s] = a /\ txNonce'[s] = txNonce[s]
                 \/ s # r /\ stage'[s] = stage[s] /\ txNonce'[s] = txNonce[s]
                 \/ stage[s] = "queued" /\ stage'[s] \in {"nonce", "send"}
           /\ \A s \in Request : stage'[s] = "send" =>
                 /\ nonce # NoNonce
                 /\ txNonce'[s] = nonce
                 /\ currentNonce' = nonce + 1
           /\ \A s \in Request : stage'[s] # "wait"
           /\ ~processing' => currentNonce' = nonce
<1> DEFINE q  == queue
           st == [stage EXCEPT ![r] = a]
<1>1. st \in [Request -> Stages]
  BY DEF RelayerTypeOK, Stages, Answers
<1>2. \A s \in Request : st[s] = IF s = r THEN a ELSE stage[s]
  BY DEF RelayerTypeOK
<1>3. \A s \in Request : st[s] \notin Processing
  BY <1>2 DEF QueueInv, OneInHand, Processing
<1>4. \A i \in 1..Len(q) : q[i] \in Request /\ st[q[i]] = "queued"
  BY <1>2 DEF QueueInv, RelayerTypeOK, Processing
<1>5. /\ MaxQueueSize \in Nat
      /\ Len(q) <= MaxQueueSize
      /\ q \in Seq(Request)
      /\ txNonce \in [Request -> Nat \cup {NoNonce}]
  BY RelayerAssumption DEF QueueInv, OneInHand, RelayerTypeOK
<1>6. \A i, j \in 1..Len(q) : q[i] = q[j] => i = j
  BY DEF QueueInv
<1>7. processNext(q, st, nonce)
  OBVIOUS
<1>8. \A s \in Request : st[s] = "queued" => stage[s] = "queued" /\ s # r
  BY <1>2
<1> HIDE DEF q, st
<1> SUFFICES /\ stage' \in [Request -> Stages]
             /\ queue' \in Seq(Request)
             /\ processing' \in BOOLEAN
             /\ currentNonce' \in Nat \cup {NoNonce}
             /\ txNonce' \in [Request -> Nat \cup {NoNonce}]
             /\ QueueInv'
             /\ \A s \in Request :
                   \/ stage'[s] = st[s] /\ txNonce'[s] = txNonce[s]
                   \/ st[s] = "queued" /\ stage'[s] \in {"nonce", "send"}
             /\ \A s \in Request : stage'[s] = "send" =>
                   /\ nonce # NoNonce
                   /\ txNonce'[s] = nonce
                   /\ currentNonce' = nonce + 1
             /\ \A s \in Request : stage'[s] # "wait"
             /\ ~processing' => currentNonce' = nonce
  BY <1>2, <1>8
<1> USE <1>1, <1>3, <1>4, <1>5, <1>6, <1>7 DEF Processing
<1>9. CASE q = <<>>
  <2>1. queue' = <<>> /\ stage' = st /\ ~processing' /\ currentNonce' = nonce
        /\ processing' = FALSE /\ txNonce' = txNonce
    BY <1>9 DEF processNext
  <2>2. QueueInv'
    BY <2>1 DEF QueueInv, OneInHand
  <2>3. \A s \in Request : stage'[s] = st[s] /\ stage'[s] \notin Processing
    BY <2>1
  <2>4. \A s \in Request : stage'[s] # "send" /\ stage'[s] # "wait"
    BY <2>3
  <2>5. queue' \in Seq(Request)
    BY <2>1
  <2> QED
    BY <2>1, <2>2, <2>3, <2>4, <2>5
<1>10. CASE q # <<>>
  <2> DEFINE h == Head(q)
  <2>1. h \in Request /\ st[h] = "queued" /\ h = q[1] /\ Len(q) >= 1
    BY <1>10
  <2>2. /\ Tail(q) \in Seq(Request)
        /\ Len(Tail(q)) = Len(q) - 1
        /\ \A i \in 1..Len(Tail(q)) : Tail(q)[i] = q[i + 1]
    BY <1>10
  <2>3. queue' = Tail(q) /\ processing' = TRUE
    BY <1>10 DEF processNext
  <2>4. \E s \in {"nonce", "send"} : stage' = [st EXCEPT ![h] = s]
    BY <1>10 DEF processNext
  <2>5. \A s \in Request : s # h => stage'[s] = st[s]
    BY <2>4
  <2>6. stage'[h] \in {"nonce", "send"}
    BY <2>1, <2>4
  <2>7. \A s \in Request : stage'[s] \in Processing <=> s = h
    BY <2>1, <2>5, <2>6
  <2>8. OneInHand'
    <3>1. Len(queue') <= MaxQueueSize
      BY <2>2, <2>3
    <3> QED
      BY <3>1, <2>1, <2>3, <2>7 DEF OneInHand
  <2>9. \A i \in 1..Len(queue') : queue'[i] \in Request /\ queue'[i] # h
                                   /\ st[queue'[i]] = "queued"
    BY <2>1, <2>2, <2>3
  <2>10. QueueInv'
    <3>1. \A i \in 1..Len(queue') : stage'[queue'[i]] = "queued"
      BY <2>5, <2>9
    <3>2. ASSUME NEW i \in 1..Len(queue'), NEW j \in 1..Len(queue'), queue'[i] = queue'[j]
          PROVE  i = j
      <4>1. i + 1 \in 1..Len(q) /\ j + 1 \in 1..Len(q)
        BY <2>2, <2>3
      <4>2. q[i + 1] = q[j + 1]
        BY <2>2, <2>3, <3>2
      <4>3. i + 1 = j + 1
        BY <4>1, <4>2
      <4> QED
        BY <2>2, <2>3, <4>3
    <3> QED
      BY <2>8, <3>1, <3>2 DEF QueueInv
  <2>13. \A s \in Request : stage'[s] # "wait"
    BY <2>5, <2>6
  <2>11. CASE nonce = NoNonce
    <3>1. stage' = [st EXCEPT ![h] = "nonce"] /\ currentNonce' = nonce /\ txNonce' = txNonce
      BY <1>10, <2>11 DEF processNext
    <3>2. stage' \in [Request -> Stages]
      BY <3>1 DEF Stages
    <3>3. \A s \in Request : stage'[s] # "send"
      BY <2>1, <2>5, <3>1
    <3> QED
      BY <2>1, <2>2, <2>3, <2>5, <2>6, <2>10, <2>13, <3>1, <3>2, <3>3
  <2>12. CASE nonce # NoNonce
    <3>1. /\ stage' = [st EXCEPT ![h] = "send"]
          /\ currentNonce' = nonce + 1
          /\ txNonce' = [txNonce EXCEPT ![h] = nonce]
      BY <1>10, <2>12 DEF processNext
    <3>2. stage' \in [Request -> Stages]
      BY <3>1 DEF Stages
    <3>3. nonce \in Nat
      BY <2>12
    <3>4. currentNonce' \in Nat
      BY <3>1, <3>3
    <3>5. txNonce' \in [Request -> Nat \cup {NoNonce}]
      BY <2>1, <3>1, <3>3
    <3>6. \A s \in Request : s # h => txNonce'[s] = txNonce[s]
      BY <3>1
    <3>7. \A s \in Request : stage'[s] = "send" => s = h
      BY <2>7
    <3>8. txNonce'[h] = nonce
      BY <2>1, <3>1
    <3> QED
      BY <2>1, <2>2, <2>3, <2>5, <2>6, <2>10, <2>12, <2>13, <3>1, <3>2, <3>4, <3>5, <3>6, <3>7, <3>8
  <2> QED
    BY <2>11, <2>12
<1> QED
  BY <1>9, <1>10

(* A nonce handed on is the wallet's next one, with nothing pending.       *)
LEMMA HandsOnNonce ==
    ASSUME NEW nonce, accountNonce' \in Nat,
           nonce = NoNonce \/ (nonce = accountNonce' /\ mempool' = {}),
           \A s \in Request : stage'[s] = "send" =>
                 /\ nonce # NoNonce
                 /\ txNonce'[s] = nonce
                 /\ currentNonce' = nonce + 1,
           \A s \in Request : stage'[s] # "wait",
           ~processing' => currentNonce' = nonce
    PROVE  NonceInv'
<1>1. \A s \in Request : stage'[s] = "send" =>
          txNonce'[s] <= accountNonce' /\ currentNonce' = txNonce'[s] + 1
  <2>1. SUFFICES ASSUME NEW s \in Request, stage'[s] = "send"
                 PROVE  txNonce'[s] <= accountNonce' /\ currentNonce' = txNonce'[s] + 1
    OBVIOUS
  <2>2. nonce = accountNonce' /\ txNonce'[s] = nonce /\ currentNonce' = nonce + 1
    BY <2>1
  <2> QED
    BY <2>2
<1>2. ~processing' /\ currentNonce' # NoNonce => currentNonce' = accountNonce' /\ mempool' = {}
  OBVIOUS
<1> QED
  BY <1>1, <1>2 DEF NonceInv

(* Where the chain is left alone, its invariants depend on the stages of   *)
(* the requests that were sent.                                            *)
LEMMA ChainLeftAlone ==
    ASSUME RelayerTypeOK, ChainInv, SuccessMeansVoted,
           UNCHANGED <<mempool, accountNonce, voted, reverted, nullifierUsed>>,
           \A s \in mempool \cup voted \cup reverted : stage'[s] \in Answers \cup {"wait"},
           \A s \in mempool : txNonce'[s] = txNonce[s],
           \A s \in Request : stage'[s] = "200" => s \in voted
    PROVE  ChainInv' /\ SuccessMeansVoted'
<1>1. NoNonceGap'
  BY DEF ChainInv, NoNonceGap
<1>2. SuccessMeansVoted'
  BY DEF SuccessMeansVoted
<1> QED
  BY <1>1, <1>2 DEF ChainInv

-----------------------------------------------------------------------------
(* A handler that has not enqueued goes on or answers on its own.          *)
LEMMA HandlerAlone ==
    ASSUME RelayerInv,
           NEW r \in Request, stage[r] \in {"new", "nullifier", "roots"},
           NEW s \in {"nullifier", "roots", "400", "500"},
           stage' = [stage EXCEPT ![r] = s],
           UNCHANGED <<queue, processing, currentNonce, txNonce, mempool, chainVars, crashes>>
    PROVE  RelayerInv'
<1>1. \A q \in Request : stage'[q] = IF q = r THEN s ELSE stage[q]
  BY DEF RelayerInv, RelayerTypeOK
<1>2. \A q \in Request : stage'[q] \in Processing <=> stage[q] \in Processing
  BY <1>1 DEF Processing
<1>3. \A q \in Request : stage'[q] \in {"queued", "send", "wait", "200"} =>
                             stage'[q] = stage[q]
  BY <1>1
<1>4. RelayerTypeOK'
  BY <1>1 DEF RelayerInv, RelayerTypeOK, Stages, Processing, Answers, chainVars
<1>5. OneInHand'
  BY <1>2 DEF RelayerInv, QueueInv, OneInHand
<1>6. \A i \in 1..Len(queue) : queue[i] # r /\ queue[i] \in Request
  BY DEF RelayerInv, RelayerTypeOK, QueueInv
<1>7. QueueInv'
  BY <1>1, <1>5, <1>6 DEF RelayerInv, QueueInv
<1>8. r \notin mempool \cup voted \cup reverted
  BY DEF RelayerInv, ChainInv, Answers
<1>9. ChainInv' /\ SuccessMeansVoted'
  <2>1. \A q \in mempool \cup voted \cup reverted : stage'[q] \in Answers \cup {"wait"}
    BY <1>1, <1>8 DEF RelayerInv, RelayerTypeOK, ChainInv
  <2>2. \A q \in Request : stage'[q] = "200" => q \in voted
    BY <1>3 DEF RelayerInv, SuccessMeansVoted
  <2> QED
    BY <2>1, <2>2, ChainLeftAlone DEF RelayerInv, chainVars
<1>10. NonceInv'
  BY <1>3 DEF RelayerInv, NonceInv, chainVars
<1> QED
  BY <1>4, <1>7, <1>9, <1>10 DEF RelayerInv

(* A failure is settled with no nonce kept, whatever became of the mempool *)
(* as long as no other nonce than the wallet's next is pending in it.      *)
LEMMA FailureSettled ==
    ASSUME RelayerInv,
           NEW r \in Request, stage[r] \in Processing,
           Reject(r),
           \/ UNCHANGED mempool
           \/ stage[r] = "send" /\ Broadcast(r),
           UNCHANGED <<chainVars, crashes>>
    PROVE  RelayerInv'
<1>1. /\ stage' \in [Request -> Stages]
      /\ queue' \in Seq(Request)
      /\ processing' \in BOOLEAN
      /\ currentNonce' \in Nat \cup {NoNonce}
      /\ txNonce' \in [Request -> Nat \cup {NoNonce}]
      /\ QueueInv'
      /\ \A s \in Request :
            \/ s = r /\ stage'[s] = "500" /\ txNonce'[s] = txNonce[s]
            \/ s # r /\ stage'[s] = stage[s] /\ txNonce'[s] = txNonce[s]
            \/ stage[s] = "queued" /\ stage'[s] \in {"nonce", "send"}
      /\ \A s \in Request : stage'[s] # "send"
      /\ \A s \in Request : stage'[s] # "wait"
      /\ ~processing' => currentNonce' = NoNonce
  BY Settles DEF RelayerInv, Reject
<1>2. mempool' \in SUBSET Request
  BY DEF RelayerInv, RelayerTypeOK, Broadcast
<1>3. RelayerTypeOK'
  BY <1>1, <1>2 DEF RelayerInv, RelayerTypeOK, chainVars
<1>4. NonceInv'
  BY <1>1 DEF NonceInv
<1>5. \A s \in mempool \cup voted \cup reverted :
          s \in Request /\ stage[s] \in Answers \cup {"wait"}
  BY DEF RelayerInv, RelayerTypeOK, ChainInv
<1>6. \A s \in mempool \cup voted \cup reverted :
          stage'[s] \in Answers \cup {"wait"} /\ txNonce'[s] = txNonce[s]
  BY <1>1, <1>5 DEF Answers
<1>7. \A s \in Request : stage'[s] = "200" => s \in voted
  BY <1>1 DEF RelayerInv, SuccessMeansVoted
<1>8. CASE UNCHANGED mempool
  <2>1. ChainInv' /\ SuccessMeansVoted'
    BY <1>6, <1>7, <1>8, ChainLeftAlone DEF RelayerInv, chainVars
  <2> QED
    BY <1>1, <1>3, <1>4, <2>1 DEF RelayerInv
<1>9. CASE stage[r] = "send" /\ Broadcast(r)
  <2>1. txNonce[r] = accountNonce
    BY <1>9 DEF RelayerInv, RelayerTypeOK, NonceInv, Broadcast, NoNonce
  <2>2. mempool' = {r}
    BY <1>9, <2>1 DEF RelayerInv, ChainInv, NoNonceGap, Broadcast
  <2>3. r \notin mempool \cup voted \cup reverted
    BY <1>5, <1>9 DEF Answers
  <2>4. stage'[r] = "500" /\ txNonce'[r] = txNonce[r]
    BY <1>1, <1>9
  <2>5. NoNonceGap'
    BY <2>1, <2>2, <2>4 DEF NoNonceGap, chainVars
  <2>6. \A s \in (mempool \cup voted \cup reverted)' : stage'[s] \in Answers \cup {"wait"}
    BY <1>6, <2>2, <2>4 DEF Answers, chainVars
  <2>7. ChainInv'
    BY <2>2, <2>3, <2>5, <2>6 DEF RelayerInv, ChainInv, chainVars
  <2>8. SuccessMeansVoted'
    BY <1>7 DEF RelayerInv, SuccessMeansVoted, chainVars
  <2> QED
    BY <1>1, <1>3, <1>4, <2>7, <2>8 DEF RelayerInv
<1> QED
  BY <1>8, <1>9

(* A request is enqueued while another is in hand, or is taken at once.    *)
LEMMA Enqueued ==
    ASSUME RelayerInv,
           NEW r \in Request, stage[r] = "roots",
           enqueue(r),
           UNCHANGED <<mempool, chainVars, crashes>>
    PROVE  RelayerInv'
<1> DEFINE q  == Append(queue, r)
           st == [stage EXCEPT ![r] = "queued"]
<1>1. /\ q \in Seq(Request)
      /\ Len(q) = Len(queue) + 1
      /\ \A i \in 1..Len(q) : q[i] = IF i = Len(q) THEN r ELSE queue[i]
  BY DEF RelayerInv, RelayerTypeOK
<1>2. \A i \in 1..Len(queue) : queue[i] \in Request /\ queue[i] # r
  BY DEF RelayerInv, RelayerTypeOK, QueueInv
<1>3. /\ \A i \in 1..Len(q) : q[i] \in Request /\ (q[i] = r \/ stage[q[i]] = "queued")
      /\ \A i, j \in 1..Len(q) : q[i] = q[j] => i = j
  BY <1>1, <1>2 DEF RelayerInv, RelayerTypeOK, QueueInv
<1>4. \A s \in Request : st[s] = IF s = r THEN "queued" ELSE stage[s]
  BY DEF RelayerInv, RelayerTypeOK
<1>5. r \notin mempool \cup voted \cup reverted
  BY DEF RelayerInv, ChainInv, Answers
<1>6. \A s \in mempool \cup voted \cup reverted : s \in Request /\ stage[s] \in Answers \cup {"wait"}
  BY DEF RelayerInv, RelayerTypeOK, ChainInv
<1>7. CASE Len(queue) >= MaxQueueSize
  <2>1. /\ stage' = [stage EXCEPT ![r] = "500"]
        /\ UNCHANGED <<queue, processing, currentNonce, txNonce>>
    BY <1>7, RelayerAssumption DEF enqueue, RelayerInv, RelayerTypeOK
  <2> QED
    BY <2>1, HandlerAlone
<1>8. CASE Len(queue) < MaxQueueSize /\ processing
  <2>0. ~(Len(queue) >= MaxQueueSize)
    BY <1>8, RelayerAssumption DEF RelayerInv, RelayerTypeOK
  <2>1. /\ queue' = q
        /\ stage' = st
        /\ UNCHANGED <<processing, currentNonce, txNonce>>
    BY <1>8, <2>0 DEF enqueue
  <2>2. \A s \in Request : stage'[s] \in Processing <=> stage[s] \in Processing
    BY <1>4, <2>1 DEF Processing
  <2>3. Len(queue') <= MaxQueueSize
    BY <1>1, <1>8, <2>1, RelayerAssumption DEF RelayerInv, RelayerTypeOK
  <2>4. OneInHand'
    BY <1>8, <2>1, <2>2, <2>3 DEF RelayerInv, QueueInv, OneInHand
  <2>5. QueueInv'
    BY <1>3, <1>4, <2>1, <2>4 DEF QueueInv
  <2>6. RelayerTypeOK'
    BY <1>1, <2>1 DEF RelayerInv, RelayerTypeOK, Stages, chainVars
  <2>7. ChainInv' /\ SuccessMeansVoted'
    <3>1. \A s \in mempool \cup voted \cup reverted : stage'[s] \in Answers \cup {"wait"}
      BY <1>4, <1>5, <1>6, <2>1
    <3>2. \A s \in Request : stage'[s] = "200" => s \in voted
      BY <1>4, <2>1 DEF RelayerInv, SuccessMeansVoted
    <3> QED
      BY <2>1, <3>1, <3>2, ChainLeftAlone DEF RelayerInv, chainVars
  <2>8. NonceInv'
    BY <1>4, <1>8, <2>1 DEF RelayerInv, NonceInv, chainVars
  <2> QED
    BY <2>5, <2>6, <2>7, <2>8 DEF RelayerInv
<1>9. CASE Len(queue) < MaxQueueSize /\ ~processing
  <2>1. queue = <<>> /\ \A s \in Request : stage[s] \notin Processing
    BY <1>9 DEF RelayerInv, QueueInv, OneInHand
  <2>2. q = <<r>>
    BY <2>1
  <2>3. processNext(<<r>>, st, currentNonce)
    BY <1>9, <2>2, RelayerAssumption DEF enqueue, RelayerInv, RelayerTypeOK
  <2>4. <<r>> # <<>> /\ Head(<<r>>) = r /\ Tail(<<r>>) = <<>>
    OBVIOUS
  <2>5. queue' = <<>> /\ processing' = TRUE
    BY <2>3, <2>4 DEF processNext
  <2>6. \E s \in {"nonce", "send"} : stage' = [st EXCEPT ![r] = s]
    BY <2>3, <2>4 DEF processNext
  <2>7. /\ stage' \in [Request -> Stages]
        /\ stage'[r] \in {"nonce", "send"}
        /\ \A s \in Request : s # r => stage'[s] = stage[s]
    <3>1. PICK a \in {"nonce", "send"} : stage' = [st EXCEPT ![r] = a]
      BY <2>6
    <3>2. \A s \in Request : stage'[s] = IF s = r THEN a ELSE stage[s]
      BY <1>4, <3>1
    <3>3. stage' \in [Request -> Stages]
      BY <3>1 DEF RelayerInv, RelayerTypeOK, Stages, Processing
    <3> QED
      BY <3>2, <3>3
  <2>8. \A s \in Request : stage'[s] \in Processing <=> s = r
    BY <2>1, <2>7 DEF Processing
  <2>9. QueueInv'
    BY <2>5, <2>8, RelayerAssumption DEF QueueInv, OneInHand
  <2>10. ChainInv' /\ SuccessMeansVoted'
    <3>1. \A s \in mempool \cup voted \cup reverted : stage'[s] \in Answers \cup {"wait"}
      BY <1>5, <1>6, <2>7
    <3>2. \A s \in Request : stage'[s] = "200" => s \in voted
      BY <2>7 DEF RelayerInv, SuccessMeansVoted
    <3>3. \A s \in mempool : txNonce'[s] = txNonce[s]
      BY <1>5, <1>6, <2>3, <2>4 DEF processNext, RelayerInv, RelayerTypeOK
    <3> QED
      BY <3>1, <3>2, <3>3, ChainLeftAlone DEF RelayerInv, chainVars
  <2>11. CASE currentNonce = NoNonce
    <3>1. /\ stage' = [st EXCEPT ![r] = "nonce"]
          /\ currentNonce' = NoNonce
          /\ txNonce' = txNonce
      BY <2>3, <2>4, <2>11 DEF processNext
    <3>2. \A s \in Request : stage'[s] # "send" /\ stage'[s] # "wait"
      BY <1>4, <2>1, <2>7, <3>1 DEF Processing
    <3>3. NonceInv'
      BY <3>1, <3>2 DEF NonceInv
    <3>4. RelayerTypeOK'
      BY <2>5, <2>7, <3>1, <3>2 DEF RelayerInv, RelayerTypeOK, chainVars
    <3> QED
      BY <2>9, <2>10, <3>3, <3>4 DEF RelayerInv
  <2>12. CASE currentNonce # NoNonce
    <3>1. /\ currentNonce' = currentNonce + 1
          /\ txNonce' = [txNonce EXCEPT ![r] = currentNonce]
      BY <2>3, <2>4, <2>12 DEF processNext
    <3>2. currentNonce = accountNonce /\ currentNonce \in Nat
      BY <1>9, <2>12 DEF RelayerInv, RelayerTypeOK, NonceInv
    <3>3. /\ txNonce' \in [Request -> Nat \cup {NoNonce}]
          /\ txNonce'[r] = accountNonce
          /\ currentNonce' = accountNonce + 1
      BY <3>1, <3>2 DEF RelayerInv, RelayerTypeOK
    <3>4. \A s \in Request : stage'[s] \in {"send", "wait"} => s = r
      BY <2>1, <2>7 DEF Processing
    <3>5. NonceInv'
      BY <2>5, <2>7, <3>2, <3>3, <3>4 DEF NonceInv, chainVars
    <3>6. RelayerTypeOK'
      BY <2>5, <2>7, <3>2, <3>3, <3>4 DEF RelayerInv, RelayerTypeOK, chainVars
    <3> QED
      BY <2>9, <2>10, <3>5, <3>6 DEF RelayerInv
  <2> QED
    BY <2>11, <2>12
<1> QED
  BY <1>7, <1>8, <1>9, RelayerAssumption DEF RelayerInv, RelayerTypeOK

-----------------------------------------------------------------------------
LEMMA InitiallyRelayerInv == Init => RelayerInv
<1> SUFFICES ASSUME Init PROVE RelayerInv
  OBVIOUS
<1>1. RelayerTypeOK
  <2>1. stage \in [Request -> Stages] /\ \A r \in Request : stage[r] = "new"
    BY DEF Init, Stages
  <2>2. txNonce \in [Request -> Nat \cup {NoNonce}]
    BY DEF Init
  <2>3. queue \in Seq(Request) /\ crashes \in 0..MaxCrashes
    BY RelayerAssumption DEF Init
  <2> QED
    BY <2>1, <2>2, <2>3 DEF Init, RelayerTypeOK
<1>2. QueueInv
  BY RelayerAssumption DEF Init, QueueInv, OneInHand, Processing
<1>3. ChainInv /\ NonceInv /\ SuccessMeansVoted
  BY DEF Init, ChainInv, NonceInv, SuccessMeansVoted, NoNonceGap
<1> QED
  BY <1>1, <1>2, <1>3 DEF RelayerInv

(* The wallet's nonce is fetched: no transaction is ahead of it.           *)
LEMMA GetNonceKeeps ==
    ASSUME RelayerInv, NEW r \in Request, GetNonce(r)
    PROVE  RelayerInv'
<1>1. /\ \A s \in Request : stage'[s] = IF s = r THEN "send" ELSE stage[s]
      /\ \A s \in Request : txNonce'[s] = IF s = r THEN accountNonce ELSE txNonce[s]
      /\ currentNonce' = accountNonce + 1
      /\ accountNonce \in Nat
  BY DEF RelayerInv, RelayerTypeOK, GetNonce
<1>2. stage[r] = "nonce" /\ UNCHANGED <<queue, processing, mempool, chainVars, crashes>>
  BY DEF GetNonce
<1>3. \A s \in Request : stage[s] \in Processing => s = r
  BY <1>2 DEF RelayerInv, QueueInv, OneInHand, Processing
<1>4. /\ stage' \in [Request -> Stages]
      /\ txNonce' \in [Request -> Nat \cup {NoNonce}]
  BY <1>1 DEF RelayerInv, RelayerTypeOK, GetNonce, Stages, Processing
<1>5. RelayerTypeOK'
  <2>1. \A s \in Request : stage'[s] \in {"send", "wait"} => txNonce'[s] \in Nat
    BY <1>1 DEF RelayerInv, RelayerTypeOK
  <2>2. currentNonce' \in Nat
    BY <1>1
  <2> QED
    BY <1>2, <1>4, <2>1, <2>2 DEF RelayerInv, RelayerTypeOK, chainVars
<1>6. \A s \in Request : stage'[s] \in Processing <=> stage[s] \in Processing
  BY <1>1, <1>2 DEF Processing
<1>7. QueueInv'
  BY <1>1, <1>2, <1>6 DEF RelayerInv, RelayerTypeOK, QueueInv, OneInHand
<1>8. \A s \in mempool \cup voted \cup reverted :
          s # r /\ s \in Request /\ stage[s] \in Answers \cup {"wait"}
  BY <1>2 DEF RelayerInv, RelayerTypeOK, ChainInv, Answers
<1>9. ChainInv' /\ SuccessMeansVoted'
  <2>1. \A s \in mempool \cup voted \cup reverted : stage'[s] \in Answers \cup {"wait"}
    BY <1>1, <1>8
  <2>2. \A s \in mempool : txNonce'[s] = txNonce[s]
    BY <1>1, <1>8
  <2>3. \A s \in Request : stage'[s] = "200" => s \in voted
    BY <1>1 DEF RelayerInv, SuccessMeansVoted
  <2> QED
    BY <1>2, <2>1, <2>2, <2>3, ChainLeftAlone DEF RelayerInv, chainVars
<1>10. processing
  BY <1>2 DEF RelayerInv, QueueInv, OneInHand, Processing
<1>11. \A s \in Request : stage'[s] \in {"send", "wait"} => s = r /\ stage'[s] = "send"
  BY <1>1, <1>3 DEF Processing
<1>12. NonceInv'
  BY <1>1, <1>2, <1>10, <1>11 DEF NonceInv, chainVars
<1> QED
  BY <1>5, <1>7, <1>9, <1>12 DEF RelayerInv

(* A transaction that is sent has the wallet's next nonce, and replaces    *)
(* whatever else was pending.                                              *)
LEMMA SendKeeps ==
    ASSUME RelayerInv, NEW r \in Request, Send(r)
    PROVE  RelayerInv'
<1>1. /\ stage[r] = "send"
      /\ UNCHANGED <<queue, processing, currentNonce, txNonce, chainVars, crashes>>
      /\ \A s \in Request : stage'[s] = IF s = r THEN "wait" ELSE stage[s]
      /\ stage' \in [Request -> Stages]
  BY DEF Send, RelayerInv, RelayerTypeOK, Stages, Processing
<1>2. txNonce[r] = accountNonce /\ currentNonce = txNonce[r] + 1
  BY <1>1 DEF Send, Broadcast, RelayerInv, RelayerTypeOK, NonceInv
<1>3. mempool' = {r}
  BY <1>2 DEF Send, Broadcast, RelayerInv, ChainInv, NoNonceGap
<1>4. RelayerTypeOK'
  BY <1>1, <1>3 DEF RelayerInv, RelayerTypeOK, chainVars
<1>5. \A s \in Request : stage'[s] \in Processing <=> stage[s] \in Processing
  BY <1>1 DEF Processing
<1>6. QueueInv'
  BY <1>1, <1>5 DEF RelayerInv, RelayerTypeOK, QueueInv, OneInHand
<1>7. r \notin voted \cup reverted
  BY <1>1 DEF RelayerInv, ChainInv, Answers
<1>8. ChainInv'
  <2>1. NoNonceGap'
    BY <1>1, <1>2, <1>3 DEF NoNonceGap, chainVars
  <2>2. \A s \in (mempool \cup voted \cup reverted)' : stage'[s] \in Answers \cup {"wait"}
    BY <1>1, <1>3, <1>7 DEF RelayerInv, RelayerTypeOK, ChainInv, chainVars
  <2> QED
    BY <1>1, <1>3, <1>7, <2>1, <2>2 DEF RelayerInv, ChainInv, chainVars
<1>9. SuccessMeansVoted'
  BY <1>1 DEF RelayerInv, SuccessMeansVoted, chainVars
<1>10. \A s \in Request : stage'[s] \in {"send", "wait"} => s = r
  BY <1>1 DEF RelayerInv, QueueInv, OneInHand, Processing
<1>11. processing
  BY <1>1 DEF RelayerInv, QueueInv, OneInHand, Processing
<1>12. NonceInv'
  BY <1>1, <1>2, <1>7, <1>10, <1>11 DEF NonceInv, chainVars
<1> QED
  BY <1>4, <1>6, <1>8, <1>9, <1>12 DEF RelayerInv

(* A success leaves the next nonce at hand, which is the wallet's now.     *)
LEMMA SuccessKeeps ==
    ASSUME RelayerInv, NEW r \in Request,
           stage[r] = "wait", r \in voted, Resolve(r),
           UNCHANGED <<mempool, chainVars, crashes>>
    PROVE  RelayerInv'
<1>1. stage[r] \in Processing /\ currentNonce \in Nat \cup {NoNonce}
  BY DEF Processing, RelayerInv, RelayerTypeOK
<1>2. /\ stage' \in [Request -> Stages]
      /\ queue' \in Seq(Request)
      /\ processing' \in BOOLEAN
      /\ currentNonce' \in Nat \cup {NoNonce}
      /\ txNonce' \in [Request -> Nat \cup {NoNonce}]
      /\ QueueInv'
      /\ \A s \in Request :
            \/ s = r /\ stage'[s] = "200" /\ txNonce'[s] = txNonce[s]
            \/ s # r /\ stage'[s] = stage[s] /\ txNonce'[s] = txNonce[s]
            \/ stage[s] = "queued" /\ stage'[s] \in {"nonce", "send"}
      /\ \A s \in Request : stage'[s] = "send" =>
            /\ currentNonce # NoNonce
            /\ txNonce'[s] = currentNonce
            /\ currentNonce' = currentNonce + 1
      /\ \A s \in Request : stage'[s] # "wait"
      /\ ~processing' => currentNonce' = currentNonce
  BY <1>1, Settles DEF RelayerInv, Resolve
<1>3. currentNonce = accountNonce /\ accountNonce \in Nat /\ mempool = {}
  BY DEF RelayerInv, RelayerTypeOK, NonceInv
<1>4. RelayerTypeOK'
  BY <1>2, <1>3 DEF RelayerInv, RelayerTypeOK, chainVars
<1>5. NonceInv'
  BY <1>1, <1>2, <1>3, HandsOnNonce DEF chainVars
<1>6. ChainInv' /\ SuccessMeansVoted'
  <2>1. \A s \in mempool \cup voted \cup reverted :
            s \in Request /\ stage[s] \in Answers \cup {"wait"}
    BY DEF RelayerInv, RelayerTypeOK, ChainInv
  <2>2. \A s \in mempool \cup voted \cup reverted :
            stage'[s] \in Answers \cup {"wait"} /\ txNonce'[s] = txNonce[s]
    BY <1>2, <2>1 DEF Answers
  <2>3. \A s \in Request : stage'[s] = "200" => s \in voted
    BY <1>2 DEF RelayerInv, SuccessMeansVoted
  <2> QED
    BY <2>2, <2>3, ChainLeftAlone DEF RelayerInv, chainVars
<1> QED
  BY <1>2, <1>4, <1>5, <1>6 DEF RelayerInv

(* A transaction is executed: the one pending, with the wallet's nonce.    *)
LEMMA MineKeeps ==
    ASSUME RelayerInv, NEW r \in Request, Mine(r)
    PROVE  RelayerInv'
<1>1. /\ r \in mempool
      /\ txNonce[r] = accountNonce
      /\ accountNonce' = accountNonce + 1
      /\ UNCHANGED <<stage, queue, processing, currentNonce, txNonce, refused, crashes>>
  BY DEF Mine, queueVars
<1>2. mempool' = {}
  BY <1>1 DEF Mine, RelayerInv, ChainInv, NoNonceGap
<1>3. \/ /\ NullifierOf[r] \notin nullifierUsed
         /\ voted' = voted \cup {r}
         /\ nullifierUsed' = nullifierUsed \cup {NullifierOf[r]}
         /\ reverted' = reverted
      \/ /\ reverted' = reverted \cup {r}
         /\ UNCHANGED <<voted, nullifierUsed>>
  BY DEF Mine, Succeeds
<1>4. stage[r] \in Answers \cup {"wait"} /\ r \notin voted \cup reverted
  BY <1>1 DEF RelayerInv, ChainInv
<1>5. RelayerTypeOK'
  BY <1>1, <1>2, <1>3, RelayerAssumption DEF RelayerInv, RelayerTypeOK
<1>6. QueueInv'
  BY <1>1 DEF RelayerInv, QueueInv, OneInHand
<1>7. ChainInv'
  BY <1>1, <1>2, <1>3, <1>4 DEF RelayerInv, ChainInv, NoNonceGap
<1>8. NonceInv'
  <2>1. ~(~processing /\ currentNonce # NoNonce)
    BY <1>1 DEF RelayerInv, NonceInv
  <2>2. \A s \in Request : stage[s] = "send" =>
            txNonce[s] <= accountNonce' /\ currentNonce = txNonce[s] + 1
    BY <1>1 DEF RelayerInv, RelayerTypeOK, NonceInv
  <2>3. \A s \in Request : stage[s] = "wait" /\ s \in (voted \cup reverted)' =>
            accountNonce' = currentNonce
    BY <1>1, <1>3 DEF RelayerInv, NonceInv
  <2>4. \A s \in Request : stage[s] = "wait" => currentNonce = txNonce[s] + 1
    BY DEF RelayerInv, NonceInv
  <2> QED
    BY <1>1, <1>2, <2>1, <2>2, <2>3, <2>4 DEF NonceInv
<1>9. SuccessMeansVoted'
  <2>1. \A s \in Request : stage'[s] = "200" => s \in voted'
    BY <1>1, <1>3 DEF RelayerInv, SuccessMeansVoted
  <2>2. \A q, s \in voted' : NullifierOf[q] = NullifierOf[s] => q = s
    BY <1>3 DEF RelayerInv, SuccessMeansVoted, ChainInv
  <2> QED
    BY <2>1, <2>2 DEF SuccessMeansVoted
<1> QED
  BY <1>5, <1>6, <1>7, <1>8, <1>9 DEF RelayerInv

(* A restart forgets the nonce and what was queued.                        *)
LEMMA CrashKeeps ==
    ASSUME RelayerInv, Crash
    PROVE  RelayerInv'
<1>1. /\ stage' \in [Request -> Stages]
      /\ \A s \in Request : stage'[s] = IF stage[s] \in Answers \cup {"new"}
                                        THEN stage[s] ELSE "lost"
  BY DEF Crash, RelayerInv, RelayerTypeOK, Stages, Answers
<1>2. /\ queue' = <<>>
      /\ processing' = FALSE
      /\ currentNonce' = NoNonce
      /\ UNCHANGED <<txNonce, mempool, chainVars>>
      /\ crashes' \in 0..MaxCrashes
  BY RelayerAssumption DEF Crash, RelayerInv, RelayerTypeOK
<1>3. \A s \in Request : stage'[s] \notin Processing \cup {"queued"}
  BY <1>1 DEF Answers, Processing
<1>4. RelayerTypeOK'
  <2>1. \A s \in Request : stage'[s] \notin {"send", "wait"}
    BY <1>3 DEF Processing
  <2>2. queue' \in Seq(Request)
    BY <1>2
  <2> QED
    BY <1>1, <1>2, <2>1, <2>2 DEF RelayerInv, RelayerTypeOK, chainVars
<1>5. QueueInv'
  BY <1>2, <1>3, RelayerAssumption DEF QueueInv, OneInHand
<1>6. NonceInv'
  BY <1>2, <1>3 DEF NonceInv, Processing
<1>7. ChainInv' /\ SuccessMeansVoted'
  <2>1. \A s \in mempool \cup voted \cup reverted : stage'[s] \in Answers \cup {"wait"}
    BY <1>1 DEF RelayerInv, RelayerTypeOK, ChainInv, Answers
  <2>2. \A s \in Request : stage'[s] = "200" => s \in voted
    BY <1>1 DEF RelayerInv, SuccessMeansVoted
  <2> QED
    BY <1>2, <2>1, <2>2, ChainLeftAlone DEF RelayerInv, chainVars
<1> QED
  BY <1>4, <1>5, <1>6, <1>7 DEF RelayerInv

(* What others do on chain: drop transactions, vote and change roots.      *)
LEMMA EnvironmentKeeps ==
    ASSUME RelayerInv,
           UNCHANGED <<queueVars, accountNonce, voted, reverted, crashes>>,
           mempool' \subseteq mempool,
           nullifierUsed \subseteq nullifierUsed',
           nullifierUsed' \subseteq Nullifier,
           refused' \in SUBSET Request
    PROVE  RelayerInv'
<1> USE DEF queueVars
<1>1. RelayerTypeOK'
  BY DEF RelayerInv, RelayerTypeOK
<1>2. QueueInv'
  BY DEF RelayerInv, QueueInv, OneInHand
<1>3. ChainInv'
  BY DEF RelayerInv, ChainInv, NoNonceGap
<1>4. NonceInv'
  BY DEF RelayerInv, NonceInv
<1>5. SuccessMeansVoted'
  BY DEF RelayerInv, SuccessMeansVoted
<1> QED
  BY <1>1, <1>2, <1>3, <1>4, <1>5 DEF RelayerInv

LEMMA NextKeepsRelayerInv == RelayerInv /\ [Next]_vars => RelayerInv'
<1> SUFFICES ASSUME RelayerInv, [Next]_vars PROVE RelayerInv'
  OBVIOUS
<1> USE DEF Processing
<1>1. ASSUME NEW r \in Request, Receive(r) PROVE RelayerInv'
  BY <1>1, HandlerAlone DEF Receive
<1>2. ASSUME NEW r \in Request, CheckNullifier(r) PROVE RelayerInv'
  BY <1>2, HandlerAlone DEF CheckNullifier
<1>3. ASSUME NEW r \in Request, CheckRoots(r) PROVE RelayerInv'
  <2>1. stage[r] = "roots" /\ UNCHANGED <<mempool, chainVars, crashes>>
    BY <1>3 DEF CheckRoots
  <2>2. CASE enqueue(r)
    BY <2>1, <2>2, Enqueued
  <2>3. CASE /\ stage' = [stage EXCEPT ![r] = "400"]
             /\ UNCHANGED <<queue, processing, currentNonce, txNonce>>
    BY <2>1, <2>3, HandlerAlone
  <2> QED
    BY <1>3, <2>2, <2>3 DEF CheckRoots
<1>4. ASSUME NEW r \in Request, GetNonce(r) PROVE RelayerInv'
  BY <1>4, GetNonceKeeps
<1>5. ASSUME NEW r \in Request, Send(r) PROVE RelayerInv'
  BY <1>5, SendKeeps
<1>6. ASSUME NEW r \in Request, SendFails(r) PROVE RelayerInv'
  BY <1>6, FailureSettled DEF SendFails
<1>7. ASSUME NEW r \in Request, Receipt(r) PROVE RelayerInv'
  <2>1. stage[r] = "wait" /\ UNCHANGED <<mempool, chainVars, crashes>>
    BY <1>7 DEF Receipt
  <2>2. CASE r \in voted /\ Resolve(r)
    BY <2>1, <2>2, SuccessKeeps
  <2>3. CASE Reject(r)
    BY <2>1, <2>3, FailureSettled
  <2> QED
    BY <1>7, <2>2, <2>3 DEF Receipt
<1>8. ASSUME NEW r \in Request, WaitFails(r) PROVE RelayerInv'
  BY <1>8, FailureSettled DEF WaitFails
<1>9. ASSUME NEW r \in Request, Mine(r) PROVE RelayerInv'
  BY <1>9, MineKeeps
<1>10. ASSUME NEW r \in Request, Drop(r) PROVE RelayerInv'
  BY <1>10, EnvironmentKeeps DEF Drop, chainVars, RelayerInv, RelayerTypeOK
<1>11. CASE Crash
  BY <1>11, CrashKeeps
<1>12. CASE VoteElsewhere
  BY <1>12, EnvironmentKeeps DEF VoteElsewhere, RelayerInv, RelayerTypeOK
<1>13. CASE RootsChange
  BY <1>13, EnvironmentKeeps DEF RootsChange, RelayerInv, RelayerTypeOK
<1>14. CASE UNCHANGED vars
  BY <1>14, EnvironmentKeeps DEF vars, chainVars, RelayerInv, RelayerTypeOK
<1> QED
  BY <1>1, <1>2, <1>3, <1>4, <1>5, <1>6, <1>7, <1>8, <1>9, <1>10, <1>11, <1>12, <1>13,
     <1>14 DEF Next, Handle

-----------------------------------------------------------------------------
(* The relayer implements VoteRelay *)

(* A request answered 400 has no transaction, so no vote of it can follow. *)
RefusedInv == \A r \in mempool : stage[r] # "400"

(* A step that answers nobody, as the service sees it.                     *)
LEMMA NobodyAnswered ==
    ASSUME \A s \in Request : /\ stage'[s] \in Answers <=> stage[s] \in Answers
                              /\ stage[s] \in Answers => stage'[s] = stage[s]
    PROVE  AnswerTo' = AnswerTo
BY DEF AnswerTo

(* A step that answers one request.                                        *)
LEMMA OneAnswered ==
    ASSUME NEW r \in Request, NEW a \in {"200", "400", "500"},
           stage[r] \notin Answers, stage'[r] = a,
           \A s \in Request \ {r} : /\ stage'[s] \in Answers <=> stage[s] \in Answers
                                    /\ stage[s] \in Answers => stage'[s] = stage[s],
           a = "200" => r \in voted,
           a = "400" => r \notin voted,
           UNCHANGED <<voted, nullifierUsed>>
    PROVE  Service!Next
<1>1. AnswerTo[r] = "none" /\ a \in Answers
  BY DEF AnswerTo, Answers
<1>2. AnswerTo' = [AnswerTo EXCEPT ![r] = a]
  BY <1>1 DEF AnswerTo
<1>3. Service!Answer(r, a)
  BY <1>1, <1>2 DEF Service!Answer
<1> QED
  BY <1>3 DEF Service!Next

(* Who has a transaction or a vote has been sent.                          *)
LEMMA SentOnes ==
    ASSUME RelayerInv
    PROVE  \A s \in mempool \cup voted :
               s \in Request /\ stage[s] \in Answers \cup {"wait"}
BY DEF RelayerInv, RelayerTypeOK, ChainInv

LEMMA ServiceInit == Init => RefusedInv /\ Service!Init
<1> SUFFICES ASSUME Init PROVE RefusedInv /\ Service!Init
  OBVIOUS
<1>1. AnswerTo = [r \in Request |-> "none"]
  BY DEF Init, AnswerTo, Answers
<1> QED
  BY <1>1 DEF Init, RefusedInv, Service!Init

(* A handler that has not enqueued goes on or answers on its own.          *)
LEMMA HandlerAnswers ==
    ASSUME RelayerInv, RefusedInv,
           NEW r \in Request, stage[r] \in {"new", "nullifier", "roots"},
           NEW s \in {"nullifier", "roots", "400", "500"},
           stage' = [stage EXCEPT ![r] = s],
           UNCHANGED <<mempool, voted, nullifierUsed>>
    PROVE  RefusedInv' /\ [Service!Next]_(Service!vars)
<1>1. \A q \in Request : stage'[q] = IF q = r THEN s ELSE stage[q]
  BY DEF RelayerInv, RelayerTypeOK
<1>2. r \notin mempool \cup voted /\ stage[r] \notin Answers
  BY SentOnes DEF Answers
<1>3. RefusedInv'
  BY <1>1, <1>2, SentOnes DEF RefusedInv
<1>4. CASE s \in {"nullifier", "roots"}
  <2>1. AnswerTo' = AnswerTo
    <3>1. s \notin Answers
      BY <1>4 DEF Answers
    <3> QED
      BY <1>1, <1>2, <3>1, NobodyAnswered
  <2> QED
    BY <1>3, <2>1 DEF Service!vars
<1>5. CASE s \in {"400", "500"}
  <2>1. Service!Next
    BY <1>1, <1>2, <1>5, OneAnswered
  <2> QED
    BY <1>3, <2>1
<1> QED
  BY <1>4, <1>5

(* A request that is enqueued is answered when there is no room.           *)
LEMMA EnqueueAnswers ==
    ASSUME RelayerInv, RefusedInv,
           NEW r \in Request, stage[r] = "roots", enqueue(r),
           UNCHANGED <<mempool, voted, nullifierUsed>>
    PROVE  RefusedInv' /\ [Service!Next]_(Service!vars)
<1> DEFINE st == [stage EXCEPT ![r] = "queued"]
<1>1. queue \in Seq(Request) /\ (~processing => queue = <<>>)
  BY DEF RelayerInv, RelayerTypeOK, QueueInv, OneInHand
<1>2. CASE stage' = [stage EXCEPT ![r] = "500"]
  BY <1>2, HandlerAnswers
<1>3. CASE \E s \in {"queued", "nonce", "send"} : stage' = [stage EXCEPT ![r] = s]
  <2>1. PICK s \in {"queued", "nonce", "send"} : stage' = [stage EXCEPT ![r] = s]
    BY <1>3
  <2>2. \A q \in Request : stage'[q] = IF q = r THEN s ELSE stage[q]
    BY <2>1 DEF RelayerInv, RelayerTypeOK
  <2>3. AnswerTo' = AnswerTo
    BY <2>2, NobodyAnswered DEF Answers
  <2>4. RefusedInv'
    BY <2>2, SentOnes DEF RefusedInv
  <2> QED
    BY <2>3, <2>4 DEF Service!vars
<1>4. \/ stage' = [stage EXCEPT ![r] = "500"]
      \/ stage' = st
      \/ ~processing /\ processNext(Append(queue, r), st, currentNonce)
  BY DEF enqueue
<1>5. ASSUME ~processing, processNext(Append(queue, r), st, currentNonce)
      PROVE  \E s \in {"nonce", "send"} : stage' = [stage EXCEPT ![r] = s]
  <2>1. Append(queue, r) = <<r>> /\ Head(<<r>>) = r /\ <<r>> # <<>>
    BY <1>1, <1>5
  <2>2. \E s \in {"nonce", "send"} : stage' = [st EXCEPT ![r] = s]
    BY <1>5, <2>1 DEF processNext
  <2>3. \A s : [st EXCEPT ![r] = s] = [stage EXCEPT ![r] = s]
    BY DEF RelayerInv, RelayerTypeOK
  <2> QED
    BY <2>2, <2>3
<1> QED
  BY <1>2, <1>3, <1>4, <1>5

(* The request in hand is answered, and nobody else.                       *)
LEMMA SettledAnswers ==
    ASSUME RelayerInv, RefusedInv,
           NEW r \in Request, stage[r] \in Processing,
           NEW a \in {"200", "500"}, a = "200" => r \in voted,
           NEW nonce \in Nat \cup {NoNonce},
           processNext(queue, [stage EXCEPT ![r] = a], nonce),
           mempool' \subseteq mempool \cup {r},
           UNCHANGED <<voted, nullifierUsed>>
    PROVE  RefusedInv' /\ Service!Next
<1>1. \A s \in Request :
          \/ s = r /\ stage'[s] = a
          \/ s # r /\ stage'[s] = stage[s]
          \/ stage[s] = "queued" /\ stage'[s] \in {"nonce", "send"}
  BY Settles DEF RelayerInv
<1>2. stage[r] \notin Answers /\ stage'[r] = a
  BY <1>1 DEF Processing, Answers
<1>3. RefusedInv'
  BY <1>1, <1>2, SentOnes DEF RefusedInv
<1>4. \A s \in Request \ {r} : /\ stage'[s] \in Answers <=> stage[s] \in Answers
                               /\ stage[s] \in Answers => stage'[s] = stage[s]
  BY <1>1 DEF Answers
<1> QED
  BY <1>2, <1>3, <1>4, OneAnswered

(* The transaction executed is that of a request not answered 400.         *)
LEMMA MineCounts ==
    ASSUME RelayerInv, RefusedInv, NEW r \in Request, Mine(r)
    PROVE  RefusedInv' /\ [Service!Next]_(Service!vars)
<1>1. r \in mempool /\ mempool' \subseteq mempool /\ stage' = stage
  BY DEF Mine, queueVars
<1>2. AnswerTo' = AnswerTo /\ RefusedInv'
  BY <1>1 DEF AnswerTo, RefusedInv
<1>3. CASE /\ NullifierOf[r] \notin nullifierUsed
           /\ voted' = voted \cup {r}
           /\ nullifierUsed' = nullifierUsed \cup {NullifierOf[r]}
  <2>1. AnswerTo[r] # "400"
    BY <1>1 DEF AnswerTo, RefusedInv
  <2>2. Service!Count(r)
    BY <1>2, <1>3, <2>1 DEF Service!Count
  <2> QED
    BY <1>2, <2>2 DEF Service!Next
<1>4. CASE UNCHANGED <<voted, nullifierUsed>>
  BY <1>2, <1>4 DEF Service!vars
<1> QED
  BY <1>3, <1>4 DEF Mine, Succeeds

(* A restart loses the connections of the requests under way.              *)
LEMMA CrashLoses ==
    ASSUME RelayerInv, RefusedInv, Crash
    PROVE  RefusedInv' /\ [Service!Next]_(Service!vars)
<1> DEFINE open == {r \in Request : stage[r] \notin Answers \cup {"new"}}
<1>1. /\ \A s \in Request : stage'[s] = IF s \in open THEN "lost" ELSE stage[s]
      /\ UNCHANGED <<mempool, voted, nullifierUsed>>
  BY DEF Crash, chainVars
<1>2. RefusedInv'
  BY <1>1, SentOnes DEF RefusedInv
<1>3. AnswerTo' = [r \in Request |-> IF r \in open THEN "lost" ELSE AnswerTo[r]]
  BY <1>1 DEF AnswerTo, Answers
<1>4. \A r \in open : AnswerTo[r] = "none"
  BY DEF AnswerTo
<1>5. open \in SUBSET Request
  OBVIOUS
<1> HIDE DEF open
<1>6. Service!Lose(open)
  BY <1>1, <1>3, <1>4 DEF Service!Lose
<1> QED
  BY <1>2, <1>5, <1>6 DEF Service!Next

(* Every step is one of the service's, or none.                            *)
LEMMA ServiceStep ==
    RelayerInv /\ RefusedInv /\ [Next]_vars => RefusedInv' /\ [Service!Next]_(Service!vars)
<1> DEFINE Goal == RefusedInv' /\ [Service!Next]_(Service!vars)
<1> SUFFICES ASSUME RelayerInv, RefusedInv, [Next]_vars PROVE Goal
  OBVIOUS
<1> USE DEF chainVars
<1>1. ASSUME NEW r \in Request, Receive(r) PROVE Goal
  BY <1>1, HandlerAnswers DEF Receive
<1>2. ASSUME NEW r \in Request, CheckNullifier(r) PROVE Goal
  BY <1>2, HandlerAnswers DEF CheckNullifier
<1>3. ASSUME NEW r \in Request, CheckRoots(r) PROVE Goal
  <2>1. stage[r] = "roots" /\ UNCHANGED <<mempool, voted, nullifierUsed>>
    BY <1>3 DEF CheckRoots
  <2>2. CASE enqueue(r)
    BY <2>1, <2>2, EnqueueAnswers
  <2>3. CASE stage' = [stage EXCEPT ![r] = "400"]
    BY <2>1, <2>3, HandlerAnswers
  <2> QED
    BY <1>3, <2>2, <2>3 DEF CheckRoots
<1>4. ASSUME NEW r \in Request, GetNonce(r) \/ Send(r) PROVE Goal
  <2>1. /\ stage[r] \in {"nonce", "send"}
        /\ UNCHANGED <<voted, nullifierUsed>> /\ mempool' \subseteq mempool \cup {r}
    BY <1>4 DEF GetNonce, Send, Broadcast
  <2>2. PICK s \in {"send", "wait"} : stage' = [stage EXCEPT ![r] = s]
    BY <1>4 DEF GetNonce, Send
  <2>3. \A q \in Request : stage'[q] = IF q = r THEN s ELSE stage[q]
    BY <2>2 DEF RelayerInv, RelayerTypeOK
  <2>4. AnswerTo' = AnswerTo
    BY <2>1, <2>3, NobodyAnswered DEF Answers
  <2>5. RefusedInv'
    BY <2>1, <2>3, SentOnes DEF RefusedInv
  <2> QED
    BY <2>1, <2>4, <2>5 DEF Service!vars
<1>5. ASSUME NEW r \in Request, stage[r] \in Processing, Reject(r),
             mempool' \subseteq mempool \cup {r}, UNCHANGED <<voted, nullifierUsed>>
      PROVE  Goal
  BY <1>5, SettledAnswers DEF Reject
<1>6. ASSUME NEW r \in Request, SendFails(r) \/ WaitFails(r) PROVE Goal
  BY <1>5, <1>6 DEF SendFails, WaitFails, Broadcast, Processing
<1>7. ASSUME NEW r \in Request, Receipt(r) PROVE Goal
  <2>1. stage[r] \in Processing /\ UNCHANGED <<mempool, voted, nullifierUsed>>
    BY <1>7 DEF Receipt, Processing
  <2>2. CASE r \in voted /\ Resolve(r)
    <3>1. currentNonce \in Nat \cup {NoNonce}
      BY DEF RelayerInv, RelayerTypeOK
    <3> QED
      BY <2>1, <2>2, <3>1, SettledAnswers DEF Resolve
  <2>3. CASE Reject(r)
    BY <1>5, <2>1, <2>3
  <2> QED
    BY <1>7, <2>2, <2>3 DEF Receipt
<1>8. ASSUME NEW r \in Request, Mine(r) PROVE Goal
  BY <1>8, MineCounts
<1>9. CASE Crash
  BY <1>9, CrashLoses
<1>10. CASE VoteElsewhere
  <2>1. /\ UNCHANGED <<stage, mempool, voted>>
        /\ \E n \in Nullifier \ nullifierUsed : nullifierUsed' = nullifierUsed \cup {n}
    BY <1>10 DEF VoteElsewhere, queueVars
  <2>2. AnswerTo' = AnswerTo /\ RefusedInv'
    BY <2>1 DEF AnswerTo, RefusedInv
  <2> QED
    BY <2>1, <2>2 DEF Service!Next, Service!CountElsewhere
<1>11. ASSUME UNCHANGED <<stage, voted, nullifierUsed>>, mempool' \subseteq mempool
       PROVE  Goal
  <2>1. AnswerTo' = AnswerTo /\ RefusedInv'
    BY <1>11 DEF AnswerTo, RefusedInv
  <2> QED
    BY <1>11, <2>1 DEF Service!vars
<1>12. ASSUME (\E r \in Request : Drop(r)) \/ RootsChange \/ UNCHANGED vars PROVE Goal
  BY <1>11, <1>12 DEF Drop, RootsChange, vars, queueVars
<1> QED
  BY <1>1, <1>2, <1>3, <1>4, <1>6, <1>7, <1>8, <1>9, <1>10, <1>12 DEF Next, Handle

-----------------------------------------------------------------------------
(* The strengthened invariant holds in every reachable state: what the     *)
(* handlers, the queue and the chain know of a request fits together.      *)
THEOREM RelayerInvariant == Spec => []RelayerInv
<1>1. Init => RelayerInv
  BY InitiallyRelayerInv
<1>2. RelayerInv /\ [Next]_vars => RelayerInv'
  BY NextKeepsRelayerInv
<1> QED
  BY <1>1, <1>2, PTL DEF Spec

(* Every reachable state of the relayer is of its type; a transaction is   *)
(* never sent without a nonce (processNext, queue.ts).                     *)
THEOREM RelayerTypeCorrect == Spec => []RelayerTypeOK
<1>1. RelayerInv => RelayerTypeOK
  BY DEF RelayerInv
<1> QED
  BY <1>1, RelayerInvariant, PTL

(* processNext has one request in hand at most, and strands none, for any  *)
(* number of requests and any bound (enqueue and processNext, queue.ts).   *)
THEOREM OneRequestInHand == Spec => []OneInHand
<1>1. RelayerInv => OneInHand
  BY DEF RelayerInv, QueueInv
<1> QED
  BY <1>1, RelayerInvariant, PTL

(* A pending transaction always has the wallet's next nonce: resetting     *)
(* currentNonce on every failure (queue.ts) leaves no gap.                 *)
THEOREM NoncesHaveNoGap == Spec => []NoNonceGap
<1>1. RelayerInv => NoNonceGap
  BY DEF RelayerInv, ChainInv
<1> QED
  BY <1>1, RelayerInvariant, PTL

(* A request the relay handler answers with success has voted, and it is   *)
(* the only one to with its nullifier (relayer/src/index.ts).              *)
THEOREM SuccessIsAVote == Spec => []SuccessMeansVoted
<1>1. RelayerInv => SuccessMeansVoted
  BY DEF RelayerInv
<1> QED
  BY <1>1, RelayerInvariant, PTL

(* The answers of the relay handler mean what VoteRelay says they mean,    *)
(* for any number of requests, failures and restarts: "400" is never the   *)
(* answer to a vote that is counted, then or later (relayer/src/index.ts). *)
THEOREM RelayerImplementsVoteRelay == Spec => ImplementsVoteRelay
<1>1. Spec => []RefusedInv
  BY ServiceInit, ServiceStep, RelayerInvariant, PTL DEF Spec
<1>2. Spec => Service!Init /\ [][Service!Next]_(Service!vars)
  BY <1>1, ServiceInit, ServiceStep, RelayerInvariant, PTL DEF Spec
<1> QED
  BY <1>2 DEF ImplementsVoteRelay, Service!Spec

=============================================================================
