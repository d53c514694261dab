------------------------- MODULE VotingClientProofs --------------------------
(***************************************************************************)
(* Proofs about the frontend.  The invariant has five parts: the types of  *)
(* the page and of the calls under way, what an index may point at, where  *)
(* a secret may be, that a page has one call of a kind, and what a vote    *)
(* that was accepted means.                                                *)
(***************************************************************************)
EXTENDS VotingClient, FiniteSetTheorems, TLAPS

-----------------------------------------------------------------------------
(* The inductive invariant *)

LeafType     == {Leaf(a, s) : a \in Account, s \in Secret}
SomeSecret   == Secret \cup {NoSecret}
SomeAccount  == Account \cup {NoAccount}
Ballot       == [nullifier : {NullifierOf(s, ProposalId) : s \in Secret}, choice : Choice]
Shown        == {<<>>} \cup {<<b>> : b \in Ballot}
StorageType  == [secret : SomeSecret, index : Int]
PageType     == [at : {"register", "vote"}, account : SomeAccount, isRegistered : BOOLEAN,
                 hasStoredSecret : BOOLEAN, registrationIndex : Int, ready : BOOLEAN,
                 polling : Int, secret : SomeSecret, txHash : BOOLEAN, hasVoted : BOOLEAN,
                 vote : Shown]
RegisterCall == [secret : Secret, account : SomeAccount, here : BOOLEAN,
                 pc : {"generated", "sent", "elsewhere"}]
CheckCall    == [account : Account, here : BOOLEAN, pc : {"registered", "index"}]
RestoreCall  == [account : Account, secret : Secret, here : BOOLEAN]
VoteCall     == [secret : Secret, account : Account, choice : Choice, here : BOOLEAN,
                 pc : {"proof", "posted", "accepted", "refused"}]

TypeInv ==
    /\ registrations \in Seq(LeafType)
    /\ mempool \in SUBSET LeafType
    /\ selected \in Account
    /\ storage \in StorageType
    /\ page \in PageType
    /\ generated \in 0..MaxSecrets
    /\ registering \in SUBSET RegisterCall
    /\ checks \in SUBSET CheckCall
    /\ restoring \in SUBSET RestoreCall
    /\ voting \in SUBSET VoteCall
    /\ backups \in SUBSET Secret

(* An index stored, polled for or about to be looked up is one of the      *)
(* registry's.                                                             *)
IndexInv ==
    /\ published \in 0..Len(registrations)
    /\ \A i, j \in 1..Len(registrations) :
          registrations[i].account = registrations[j].account => i = j
    /\ storage.index \in {NoIndex} \cup 0..(Len(registrations) - 1)
    /\ page.polling # NoIndex => page.polling < Len(registrations) /\ ~page.ready
    /\ \A c \in checks : c.pc = "index" => IsRegistered(c.account)

(* Where the commitment of a secret was sent to the registry from.         *)
SentBy(a, s) == Leaf(a, s) \in mempool \/ Registered(Leaf(a, s))

(* No secret is held that was not generated.                               *)
HoldersInv ==
    /\ storage.secret <= generated
    /\ page.secret <= generated
    /\ backups \subseteq 1..generated
    /\ \A r \in restoring : r.secret <= generated

(* A secret is generated for one call of register, and only that call      *)
(* sends its commitment, once.                                             *)
CallsInv ==
    /\ \A r \in registering : r.secret <= generated
    /\ \A r \in registering : r.pc # "generated" => r.account \in Account
    /\ \A q, r \in registering : q.secret = r.secret => q = r
    /\ \A a \in Account, s \in Secret : SentBy(a, s) =>
          /\ s <= generated
          /\ \A r \in registering : r.secret = s => r.pc = "sent" /\ r.account = a

OneHere(calls) == \A c, d \in calls : c.here /\ d.here => c = d

HereInv == OneHere(registering) /\ OneHere(voting)

CountedInv ==
    /\ \A v \in voting : v.pc = "accepted" => Vote(v) \in counted
    /\ ShownVoteIsCounted

ClientInv == TypeInv /\ IndexInv /\ HoldersInv /\ CallsInv /\ HereInv /\ CountedInv

-----------------------------------------------------------------------------
(* Pages and calls *)

LEMMA LeafInjective ==
    ASSUME NEW a, NEW b, NEW s, NEW t, Leaf(a, s) = Leaf(b, t)
    PROVE  a = b /\ s = t
BY DEF Leaf, OwnershipLeaf, CommitmentOf

LEMMA PageTyped ==
    ASSUME NEW at \in {"register", "vote"}, NEW account \in SomeAccount,
           NEW store \in StorageType
    PROVE  /\ Page(at, account, store) \in PageType
           /\ Page(at, account, store).vote = <<>>
           /\ Page(at, account, store).secret = NoSecret
           /\ ~Page(at, account, store).ready
           /\ Page(at, account, store).polling \in {NoIndex, store.index}
<1>1. store.index \in Int /\ NoIndex \in Int /\ <<>> \in Shown
  BY DEF StorageType, NoIndex, Shown
<1>2. QED
  BY <1>1 DEF Page, PageType, SomeSecret

(* Calls whose page is left keep all but their being here.                 *)
LEMMA AwayTyped ==
    /\ \A calls \in SUBSET RegisterCall : Away(calls) \in SUBSET RegisterCall
    /\ \A calls \in SUBSET CheckCall : Away(calls) \in SUBSET CheckCall
    /\ \A calls \in SUBSET VoteCall : Away(calls) \in SUBSET VoteCall
    /\ \A calls \in SUBSET RestoreCall :
          {[r EXCEPT !.here = FALSE] : r \in calls} \in SUBSET RestoreCall
BY DEF Away, RegisterCall, CheckCall, VoteCall, RestoreCall

LEMMA AwayCalls ==
    /\ \A calls \in SUBSET RegisterCall : \A d \in Away(calls) :
          ~d.here /\ \E c \in calls : d = [c EXCEPT !.here = FALSE]
                /\ d.secret = c.secret /\ d.pc = c.pc /\ d.account = c.account
    /\ \A calls \in SUBSET CheckCall : \A d \in Away(calls) :
          \E c \in calls : d.pc = c.pc /\ d.account = c.account
    /\ \A calls \in SUBSET VoteCall : \A d \in Away(calls) :
          ~d.here /\ \E c \in calls : d.pc = c.pc /\ Vote(d) = Vote(c)
    /\ \A calls \in SUBSET RestoreCall : \A d \in {[r EXCEPT !.here = FALSE] : r \in calls} :
          \E c \in calls : d.secret = c.secret
<1>1. ASSUME NEW calls \in SUBSET RegisterCall, NEW d \in Away(calls)
      PROVE  ~d.here /\ \E c \in calls : d = [c EXCEPT !.here = FALSE]
                /\ d.secret = c.secret /\ d.pc = c.pc /\ d.account = c.account
  BY DEF Away, RegisterCall
<1>2. ASSUME NEW calls \in SUBSET CheckCall, NEW d \in Away(calls)
      PROVE  \E c \in calls : d.pc = c.pc /\ d.account = c.account
  BY DEF Away, CheckCall
<1>3. ASSUME NEW calls \in SUBSET VoteCall, NEW d \in Away(calls)
      PROVE  ~d.here /\ \E c \in calls : d.pc = c.pc /\ Vote(d) = Vote(c)
  BY DEF Away, VoteCall, Vote
<1>4. ASSUME NEW calls \in SUBSET RestoreCall,
             NEW d \in {[r EXCEPT !.here = FALSE] : r \in calls}
      PROVE  \E c \in calls : d.secret = c.secret
  BY DEF RestoreCall
<1>5. QED
  BY <1>1, <1>2, <1>3, <1>4

LEMMA ClientInvInit == Init => ClientInv
<1> SUFFICES ASSUME Init
             PROVE  ClientInv
  OBVIOUS
<1> USE ClientAssumption DEF Init
<1>1. storage \in StorageType /\ storage.secret = NoSecret /\ storage.index = NoIndex
  BY DEF StorageType, SomeSecret, NoIndex
<1>2. /\ page \in PageType /\ page.vote = <<>> /\ page.secret = NoSecret
      /\ page.polling = NoIndex
  BY <1>1, PageTyped DEF SomeAccount
<1>3. generated = 0 /\ generated \in 0..MaxSecrets
  OBVIOUS
<1>4. TypeInv
  BY <1>1, <1>2, <1>3 DEF TypeInv
<1>5. IndexInv
  BY <1>1, <1>2 DEF IndexInv
<1>6. \A a, s : ~SentBy(a, s)
  BY DEF SentBy, Registered
<1>7. HoldersInv /\ CallsInv
  BY <1>1, <1>2, <1>3, <1>6 DEF HoldersInv, CallsInv, NoSecret
<1>8. HereInv
  BY DEF HereInv, OneHere
<1>9. CountedInv
  BY <1>2 DEF CountedInv, ShownVoteIsCounted
<1>10. QED
  BY <1>4, <1>5, <1>7, <1>8, <1>9 DEF ClientInv

-----------------------------------------------------------------------------
(* Types *)

(* Changing some fields of a page to others of their type.                 *)
LEMMA PageChanges ==
    ASSUME NEW p \in PageType
    PROVE  /\ \A b \in BOOLEAN : [p EXCEPT !.isRegistered = b] \in PageType
           /\ [p EXCEPT !.txHash = TRUE] \in PageType
           /\ [p EXCEPT !.hasVoted = TRUE] \in PageType
           /\ \A b \in Ballot : [p EXCEPT !.hasVoted = TRUE, !.vote = <<b>>] \in PageType
           /\ [p EXCEPT !.ready = TRUE, !.polling = NoIndex] \in PageType
           /\ \A a \in SomeAccount : [p EXCEPT !.account = a] \in PageType
           /\ \A i \in Int : StartTreePolling(p, i) \in PageType
           /\ \A b \in BOOLEAN :
                  [p EXCEPT !.polling = NoIndex, !.isRegistered = b] \in PageType
           /\ \A s \in Secret :
                  /\ [p EXCEPT !.isRegistered = TRUE, !.hasStoredSecret = TRUE, !.secret = s]
                         \in PageType
                  /\ [p EXCEPT !.isRegistered = TRUE, !.registrationIndex = NoIndex,
                               !.hasStoredSecret = TRUE, !.secret = s] \in PageType
<1>0. NoIndex \in Int
  BY DEF NoIndex
<1> USE <1>0 DEF PageType, SomeSecret
<1>1. \A b \in BOOLEAN : [p EXCEPT !.isRegistered = b] \in PageType
  OBVIOUS
<1>2. [p EXCEPT !.txHash = TRUE] \in PageType
  OBVIOUS
<1>3. [p EXCEPT !.hasVoted = TRUE] \in PageType
  OBVIOUS
<1>4. ASSUME NEW b \in Ballot
      PROVE  [p EXCEPT !.hasVoted = TRUE, !.vote = <<b>>] \in PageType
  <2>1. <<b>> \in Shown
    BY DEF Shown
  <2>2. \A x \in Shown : [p EXCEPT !.hasVoted = TRUE, !.vote = x] \in PageType
    OBVIOUS
  <2>3. QED
    BY ONLY <2>1, <2>2
<1>5. [p EXCEPT !.ready = TRUE, !.polling = NoIndex] \in PageType
  OBVIOUS
<1>6. \A a \in SomeAccount : [p EXCEPT !.account = a] \in PageType
  OBVIOUS
<1>7. \A i \in Int : StartTreePolling(p, i) \in PageType
  <2> SUFFICES ASSUME NEW i \in Int
               PROVE  StartTreePolling(p, i) \in PageType
    OBVIOUS
  <2> DEFINE q == [p EXCEPT !.registrationIndex = i]
  <2>1. q \in PageType
    OBVIOUS
  <2>2. StartTreePolling(p, i) = [q EXCEPT !.ready = FALSE, !.polling = i]
    BY DEF StartTreePolling
  <2> HIDE DEF q
  <2>3. [q EXCEPT !.ready = FALSE, !.polling = i] \in PageType
    BY <2>1
  <2>4. QED
    BY <2>2, <2>3
<1>8. \A b \in BOOLEAN : [p EXCEPT !.polling = NoIndex, !.isRegistered = b] \in PageType
  OBVIOUS
<1>9. ASSUME NEW s \in Secret
      PROVE  /\ [p EXCEPT !.isRegistered = TRUE, !.hasStoredSecret = TRUE, !.secret = s]
                    \in PageType
             /\ [p EXCEPT !.isRegistered = TRUE, !.registrationIndex = NoIndex,
                          !.hasStoredSecret = TRUE, !.secret = s] \in PageType
  <2>1. \A q \in PageType :
           [q EXCEPT !.isRegistered = TRUE, !.hasStoredSecret = TRUE] \in PageType
    OBVIOUS
  <2>2. \A q \in PageType : [q EXCEPT !.registrationIndex = NoIndex] \in PageType
    OBVIOUS
  <2>3. \A q \in PageType : [q EXCEPT !.secret = s] \in PageType
    OBVIOUS
  <2> DEFINE q1 == [p EXCEPT !.isRegistered = TRUE, !.hasStoredSecret = TRUE]
             q2 == [q1 EXCEPT !.registrationIndex = NoIndex]
  <2>4. /\ [p EXCEPT !.isRegistered = TRUE, !.hasStoredSecret = TRUE, !.secret = s]
              = [q1 EXCEPT !.secret = s]
        /\ [p EXCEPT !.isRegistered = TRUE, !.registrationIndex = NoIndex,
                     !.hasStoredSecret = TRUE, !.secret = s] = [q2 EXCEPT !.secret = s]
    OBVIOUS
  <2>5. q1 \in PageType /\ q2 \in PageType
    BY <2>1, <2>2
  <2> HIDE DEF PageType, q1, q2
  <2>6. QED
    BY <2>3, <2>4, <2>5
<1>10. QED
  BY <1>1, <1>2, <1>3, <1>4, <1>5, <1>6, <1>7, <1>8, <1>9

(* A document loaded anew has typed contents.                              *)
LEMMA LoadedTyped ==
    ASSUME TypeInv, NEW at \in {"register", "vote"}, NEW store \in StorageType,
           Loaded(at, store)
    PROVE  /\ page' \in PageType
           /\ checks' = {} /\ registering' = {} /\ restoring' = {}
           /\ voting' \in SUBSET VoteCall
<1>1. page' \in PageType
  BY PageTyped DEF Loaded, SomeAccount
<1>2. {v \in voting : v.pc = "posted"} \in SUBSET VoteCall
  BY DEF TypeInv
<1>3. QED
  BY <1>1, <1>2, AwayTyped DEF Loaded

LEMMA IndexType ==
    ASSUME TypeInv, NEW a \in Account, IsRegistered(a)
    PROVE  IndexOf(a) \in 0..(Len(registrations) - 1)
<1>1. \E i \in 1..Len(registrations) : registrations[i].account = a
  BY DEF IsRegistered
<1>2. Len(registrations) \in Nat
  BY DEF TypeInv
<1>3. (CHOOSE i \in 1..Len(registrations) : registrations[i].account = a)
          \in 1..Len(registrations)
  BY <1>1
<1>4. QED
  BY <1>2, <1>3 DEF IndexOf

(* A leaf that is registered registers its account.                        *)
LEMMA RegisteredLeaf ==
    ASSUME NEW a, NEW s, Registered(Leaf(a, s))
    PROVE  IsRegistered(a)
BY DEF Registered, IsRegistered, Leaf, OwnershipLeaf

LEMMA UserTypes ==
    ASSUME ClientInv, User
    PROVE  TypeInv'
<1> USE DEF ClientInv, TypeInv, outside, pageCalls
<1>1. CASE Navigate
  <2>1. PICK at \in {"register", "vote"} : Mount(at, page.account, storage)
    BY <1>1 DEF Navigate
  <2>2. page.account \in SomeAccount
    BY DEF PageType
  <2>3. page' \in PageType
    BY <2>1, <2>2, PageTyped DEF Mount
  <2>4. page.account # NoAccount => Check(page.account) \in CheckCall
    BY <2>2 DEF Check, CheckCall, SomeAccount
  <2>5. checks' \in SUBSET CheckCall
    BY <2>1, <2>4, AwayTyped DEF Mount
  <2>6. /\ registering' \in SUBSET RegisterCall
        /\ voting' \in SUBSET VoteCall
        /\ restoring' \in SUBSET RestoreCall
    BY <1>1, AwayTyped DEF Navigate
  <2>7. QED
    BY <1>1, <2>3, <2>5, <2>6 DEF Navigate
<1>2. CASE Reload
  BY <1>2, LoadedTyped DEF Reload
<1>3. ASSUME NEW account \in SomeAccount, SetAccount(account), UNCHANGED selected
      PROVE  TypeInv'
  <2>1. page.isRegistered \in BOOLEAN
    BY DEF PageType
  <2>2. Page("register", account, storage) \in PageType
    BY PageTyped
  <2>3. page' \in PageType
    BY <1>3, <2>1, <2>2, PageChanges DEF SetAccount
  <2>4. account # NoAccount => Check(account) \in CheckCall
    BY DEF Check, CheckCall, SomeAccount
  <2>5. checks' \in SUBSET CheckCall
    BY <1>3, <2>4 DEF SetAccount
  <2>6. QED
    BY <1>3, <2>3, <2>5 DEF SetAccount
<1>4. CASE SelectAccount
  BY <1>4 DEF SelectAccount
<1>5. CASE ClickRegister
  <2>1. generated' \in Secret /\ generated' \in 0..MaxSecrets
    BY <1>5, ClientAssumption DEF ClickRegister, Secret
  <2>2. [secret |-> generated', account |-> NoAccount, here |-> TRUE, pc |-> "generated"]
            \in RegisterCall
    BY <2>1 DEF RegisterCall, SomeAccount
  <2>3. QED
    BY <1>5, <2>1, <2>2 DEF ClickRegister
<1>6. CASE Copy
  <2>1. page.secret \in SomeSecret /\ storage.secret \in SomeSecret
    BY DEF PageType, StorageType
  <2>2. QED
    BY <1>6, <2>1 DEF Copy, SomeSecret
<1>7. CASE ClearSecret
  <2>1. storage' \in StorageType
    BY <1>7 DEF ClearSecret, StorageType, SomeSecret
  <2>2. QED
    BY <1>7, <2>1, LoadedTyped DEF ClearSecret
<1>8. CASE ClickRestore
  <2>1. page.account \in Account
    BY <1>8 DEF ClickRestore, PageType, SomeAccount
  <2>2. \A s \in backups : [account |-> page.account, secret |-> s, here |-> TRUE]
                               \in RestoreCall
    BY <2>1 DEF RestoreCall
  <2>3. QED
    BY <1>8, <2>2 DEF ClickRestore
<1>9. CASE ClickVote
  <2>1. page.account \in Account /\ storage.secret \in Secret
    BY <1>9 DEF ClickVote, OffersVote, PageType, StorageType, SomeAccount, SomeSecret
  <2>2. \A c \in Choice :
           [secret |-> storage.secret, account |-> page.account, choice |-> c, here |-> TRUE,
            pc |-> "proof"] \in VoteCall
    BY <2>1 DEF VoteCall
  <2>3. QED
    BY <1>9, <2>2 DEF ClickVote
<1>10. QED
  BY <1>1, <1>2, <1>3, <1>4, <1>5, <1>6, <1>7, <1>8, <1>9
     DEF User, Connect, Disconnect, SomeAccount

LEMMA RegistrationTypes ==
    ASSUME ClientInv, Registration
    PROVE  TypeInv'
<1> USE DEF ClientInv, TypeInv, outside, pageCalls
<1>1. ASSUME NEW c \in checks, CheckAnswered(c)
      PROVE  TypeInv'
  <2>1. [c EXCEPT !.pc = "index"] \in CheckCall
    BY <1>1 DEF CheckCall
  <2>2. IsRegistered(c.account) \in BOOLEAN
    BY DEF IsRegistered
  <2>3. page' \in PageType
    BY <1>1, <2>2, PageChanges DEF CheckAnswered
  <2>4. QED
    BY <1>1, <2>1, <2>3 DEF CheckAnswered
<1>2. ASSUME NEW c \in checks, IndexAnswered(c)
      PROVE  TypeInv'
  <2>1. c.account \in Account /\ IsRegistered(c.account)
    BY <1>2 DEF IndexAnswered, IndexInv, CheckCall
  <2>2. IndexOf(c.account) \in Int
    BY <2>1, IndexType
  <2>3. storage' \in StorageType
    BY <1>2, <2>2 DEF IndexAnswered, StorageType
  <2>4. page' \in PageType
    BY <1>2, <2>2, PageChanges DEF IndexAnswered
  <2>5. QED
    BY <1>2, <2>3, <2>4 DEF IndexAnswered
<1>3. ASSUME NEW c \in checks, CheckFails(c)
      PROVE  TypeInv'
  BY <1>3 DEF CheckFails
<1>4. CASE Poll
  BY <1>4 DEF Poll
<1>5. ASSUME NEW index \in polls, PollAnswered(index)
      PROVE  TypeInv'
  BY <1>5, PageChanges DEF PollAnswered
<1>6. ASSUME NEW r \in registering, Send(r)
      PROVE  TypeInv'
  <2>1. r.secret \in Secret
    BY DEF RegisterCall
  <2>2. /\ [r EXCEPT !.account = selected, !.pc = "sent"] \in RegisterCall
        /\ [r EXCEPT !.account = selected, !.pc = "elsewhere"] \in RegisterCall
    BY DEF RegisterCall, SomeAccount
  <2>3. registering' \in SUBSET RegisterCall
    BY <1>6, <2>2 DEF Send
  <2>4. mempool' \in SUBSET LeafType
    BY <1>6, <2>1 DEF Send, LeafType
  <2>5. page' \in PageType
    BY <1>6, PageChanges DEF Send
  <2>6. QED
    BY <1>6, <2>3, <2>4, <2>5 DEF Send
<1>7. ASSUME NEW r \in registering, RegisterFails(r)
      PROVE  TypeInv'
  BY <1>7 DEF RegisterFails
<1>8. ASSUME NEW r \in registering, Confirmed(r)
      PROVE  TypeInv'
  <2>1. r.secret \in Secret /\ r.account \in Account
    BY <1>8 DEF Confirmed, CallsInv, RegisterCall
  <2>2. IndexOf(r.account) \in Int
    BY <1>8, <2>1, RegisteredLeaf, IndexType DEF Confirmed
  <2>3. /\ storage' = [secret |-> r.secret, index |-> IndexOf(r.account)]
        /\ storage' \in StorageType /\ storage'.index \in Int
    BY <1>8, <2>1, <2>2 DEF Confirmed, StorageType, SomeSecret
  <2>4. page' \in PageType
    <3>1. StartTreePolling(page, storage'.index) \in PageType
      BY <2>3, PageChanges
    <3> DEFINE p == StartTreePolling(page, storage'.index)
    <3>2. page' = IF r.here
                  THEN [p EXCEPT !.isRegistered = TRUE, !.hasStoredSecret = TRUE,
                                 !.secret = r.secret]
                  ELSE page
      BY <1>8 DEF Confirmed
    <3> HIDE DEF p
    <3>3. p \in PageType
      BY <3>1 DEF p
    <3>4. [p EXCEPT !.isRegistered = TRUE, !.hasStoredSecret = TRUE, !.secret = r.secret]
              \in PageType
      BY <2>1, <3>3, PageChanges
    <3>5. QED
      BY <3>2, <3>4
  <2>5. QED
    BY <1>8, <2>3, <2>4 DEF Confirmed
<1>9. ASSUME NEW r \in registering, ConfirmedElsewhere(r)
      PROVE  TypeInv'
  <2>1. r.secret \in Secret
    BY DEF RegisterCall
  <2>2. storage' \in StorageType
    BY <1>9, <2>1 DEF ConfirmedElsewhere, StorageType, SomeSecret
  <2>3. page' \in PageType
    BY <1>9, <2>1, PageChanges DEF ConfirmedElsewhere
  <2>4. QED
    BY <1>9, <2>2, <2>3 DEF ConfirmedElsewhere
<1>10. ASSUME NEW r \in restoring, Restored(r)
       PROVE  TypeInv'
  <2>1. CASE Registered(Leaf(r.account, r.secret))
    <3>1. storage' \in StorageType
      BY <1>10, <2>1 DEF Restored, StorageType, RestoreCall, SomeSecret
    <3>2. page.at \in {"register", "vote"}
      BY DEF PageType
    <3>3. QED
      BY <1>10, <2>1, <3>1, <3>2, LoadedTyped DEF Restored
  <2>2. CASE ~Registered(Leaf(r.account, r.secret))
    BY <1>10, <2>2 DEF Restored
  <2>3. QED
    BY <2>1, <2>2
<1>11. QED
  BY <1>1, <1>2, <1>3, <1>4, <1>5, <1>6, <1>7, <1>8, <1>9, <1>10 DEF Registration

LEMMA OtherTypes ==
    ASSUME ClientInv, Voting \/ Publish \/ \E leaf \in mempool : Mine(leaf)
    PROVE  TypeInv'
<1> USE DEF ClientInv, TypeInv, outside, pageCalls
<1>1. ASSUME NEW v \in voting, Post(v) \/ VoteFails(v) \/ Relay(v)
      PROVE  TypeInv'
  <2>1. \A pc \in {"posted", "accepted", "refused"} : [v EXCEPT !.pc = pc] \in VoteCall
    BY DEF VoteCall
  <2>2. voting' \in SUBSET VoteCall
    BY <1>1, <2>1 DEF Post, VoteFails, Relay
  <2>3. QED
    BY <1>1, <2>2 DEF Post, VoteFails, Relay
<1>2. ASSUME NEW v \in voting, VoteAccepted(v) \/ DemoMode(v)
      PROVE  TypeInv'
  <2>1. Vote(v) \in Ballot
    BY DEF VoteCall, Vote, Ballot
  <2>2. page' \in PageType
    BY <1>2, <2>1, PageChanges DEF VoteAccepted, DemoMode
  <2>3. QED
    BY <1>2, <2>2 DEF VoteAccepted, DemoMode
<1>3. CASE Publish
  BY <1>3 DEF Publish
<1>4. ASSUME NEW leaf \in mempool, Mine(leaf)
      PROVE  TypeInv'
  <2>1. registrations' \in Seq(LeafType)
    BY <1>4 DEF Mine
  <2>2. QED
    BY <1>4, <2>1 DEF Mine
<1>5. QED
  BY <1>1, <1>2, <1>3, <1>4 DEF Voting

-----------------------------------------------------------------------------
(* Indices *)

(* What IndexInv says of the storage, the page and the checks.             *)
PollsRegistered(p) == p.polling # NoIndex => p.polling < Len(registrations) /\ ~p.ready
ChecksRegistered(calls) == \A c \in calls : c.pc = "index" => IsRegistered(c.account)

LEMMA IndexSame ==
    ASSUME ClientInv, UNCHANGED <<registrations, published>>,
           storage'.index \in {NoIndex} \cup 0..(Len(registrations) - 1),
           PollsRegistered(page'), ChecksRegistered(checks')
    PROVE  IndexInv'
BY DEF ClientInv, IndexInv, PollsRegistered, ChecksRegistered, IsRegistered

LEMMA MountedPage ==
    ASSUME NEW at \in {"register", "vote"}, NEW account \in SomeAccount,
           NEW store \in StorageType,
           store.index \in {NoIndex} \cup 0..(Len(registrations) - 1),
           Len(registrations) \in Nat
    PROVE  PollsRegistered(Page(at, account, store))
BY PageTyped DEF PollsRegistered, NoIndex

LEMMA UserIndex ==
    ASSUME ClientInv, User
    PROVE  IndexInv'
<1> USE DEF ClientInv, outside, pageCalls
<1>1. /\ storage \in StorageType /\ page \in PageType /\ checks \in SUBSET CheckCall
      /\ Len(registrations) \in Nat
      /\ storage.index \in {NoIndex} \cup 0..(Len(registrations) - 1)
      /\ PollsRegistered(page) /\ ChecksRegistered(checks)
  BY DEF TypeInv, IndexInv, PollsRegistered, ChecksRegistered
<1>2. \A a : ChecksRegistered({Check(a)}) /\ ChecksRegistered({})
  BY DEF ChecksRegistered, Check
<1>3. CASE Navigate
  <2>1. PICK at \in {"register", "vote"} : Mount(at, page.account, storage)
    BY <1>3 DEF Navigate
  <2>2. page.account \in SomeAccount
    BY <1>1 DEF PageType
  <2>3. PollsRegistered(page')
    BY <1>1, <2>1, <2>2, MountedPage DEF Mount
  <2>4. ChecksRegistered(Away(checks))
    BY <1>1, AwayCalls DEF ChecksRegistered
  <2>5. ChecksRegistered(checks')
    BY <1>2, <2>1, <2>4 DEF Mount, ChecksRegistered
  <2>6. UNCHANGED <<registrations, published, storage>>
    BY <1>3 DEF Navigate
  <2>7. QED
    BY <1>1, <2>3, <2>5, <2>6, IndexSame
<1>4. ASSUME NEW at \in {"register", "vote"}, NEW store \in StorageType, Loaded(at, store),
             store.index = storage.index, storage' = store, UNCHANGED <<registrations, published>>
      PROVE  IndexInv'
  <2>1. PollsRegistered(page')
    BY <1>1, <1>4, MountedPage DEF Loaded, SomeAccount
  <2>2. ChecksRegistered(checks')
    BY <1>2, <1>4 DEF Loaded
  <2>3. storage'.index \in {NoIndex} \cup 0..(Len(registrations) - 1)
    BY <1>1, <1>4
  <2>4. QED
    BY <1>4, <2>1, <2>2, <2>3, IndexSame
<1>5. CASE Reload
  <2>1. UNCHANGED <<registrations, published, storage>>
    BY <1>5 DEF Reload
  <2>2. QED
    BY <1>1, <1>4, <1>5, <2>1 DEF Reload
<1>6. CASE ClearSecret
  <2>1. /\ storage' = [storage EXCEPT !.secret = NoSecret]
        /\ storage' \in StorageType /\ storage'.index = storage.index
    BY <1>1, <1>6 DEF ClearSecret, StorageType, SomeSecret
  <2>2. Loaded("register", storage') /\ UNCHANGED <<registrations, published>>
    BY <1>6 DEF ClearSecret
  <2>3. QED
    BY <1>4, <2>1, <2>2
<1>7. ASSUME NEW account \in SomeAccount, SetAccount(account)
      PROVE  IndexInv'
  <2>1. PollsRegistered(page')
    <3>1. CASE page.at = "register"
      <4>1. Page("register", account, storage) \in PageType
        BY <1>1, PageTyped
      <4>2. page'.polling = NoIndex
        BY <1>7, <3>1, <4>1 DEF SetAccount, PageType
      <4>3. QED
        BY <4>2 DEF PollsRegistered
    <3>2. CASE page.at # "register"
      <4>1. page'.polling = page.polling /\ page'.ready = page.ready
        BY <1>1, <1>7, <3>2 DEF SetAccount, PageType
      <4>2. QED
        BY <1>1, <4>1 DEF PollsRegistered
    <3>3. QED
      BY <3>1, <3>2
  <2>2. ChecksRegistered(checks')
    BY <1>1, <1>2, <1>7 DEF SetAccount, ChecksRegistered
  <2>3. UNCHANGED <<registrations, published, storage>>
    BY <1>7 DEF SetAccount
  <2>4. QED
    BY <1>1, <2>1, <2>2, <2>3, IndexSame
<1>8. CASE SelectAccount \/ ClickRegister \/ Copy \/ ClickRestore \/ ClickVote
  <2>1. UNCHANGED <<registrations, published, storage, page, checks>>
    BY <1>8 DEF SelectAccount, ClickRegister, Copy, ClickRestore, ClickVote
  <2>2. QED
    BY <1>1, <2>1, IndexSame
<1>9. QED
  BY <1>3, <1>5, <1>6, <1>7, <1>8 DEF User, Connect, Disconnect, SomeAccount, TypeInv

LEMMA RegistrationIndex ==
    ASSUME ClientInv, Registration
    PROVE  IndexInv'
<1> USE DEF ClientInv, outside, pageCalls
<1>1. /\ storage \in StorageType /\ page \in PageType /\ checks \in SUBSET CheckCall
      /\ registering \in SUBSET RegisterCall
      /\ Len(registrations) \in Nat
      /\ storage.index \in {NoIndex} \cup 0..(Len(registrations) - 1)
      /\ PollsRegistered(page) /\ ChecksRegistered(checks)
  BY DEF TypeInv, IndexInv, PollsRegistered, ChecksRegistered
<1>2. UNCHANGED <<registrations, published>>
  BY DEF Registration, CheckAnswered, IndexAnswered, CheckFails, Poll, PollAnswered, Send,
         RegisterFails, Confirmed, ConfirmedElsewhere, Restored
<1>3. ASSUME NEW i \in 0..(Len(registrations) - 1)
      PROVE  LET p == StartTreePolling(page, i)
             IN  p \in PageType /\ p.polling = i /\ ~p.ready
  <2> DEFINE p == StartTreePolling(page, i)
  <2>0. i \in Int
    BY <1>1
  <2>1. p \in PageType
    BY <1>1, <2>0, PageChanges
  <2>2. p.polling = i /\ ~p.ready
    BY <1>1 DEF PageType, StartTreePolling
  <2>3. QED
    BY <2>1, <2>2
<1>4. ASSUME NEW c \in checks, CheckAnswered(c)
      PROVE  IndexInv'
  <2>1. PollsRegistered(page') /\ storage' = storage
    BY <1>1, <1>4 DEF CheckAnswered, PollsRegistered, PageType
  <2>2. [c EXCEPT !.pc = "index"].account = c.account
    BY <1>1 DEF CheckCall
  <2>3. ChecksRegistered(checks')
    BY <1>1, <1>4, <2>2 DEF CheckAnswered, ChecksRegistered
  <2>4. QED
    BY <1>1, <1>2, <2>1, <2>3, IndexSame
<1>5. ASSUME NEW c \in checks, IndexAnswered(c)
      PROVE  IndexInv'
  <2>1. c.account \in Account /\ IsRegistered(c.account)
    BY <1>1, <1>5 DEF IndexAnswered, ChecksRegistered, CheckCall
  <2>2. IndexOf(c.account) \in 0..(Len(registrations) - 1)
    BY <2>1, IndexType
  <2>3. storage'.index = IndexOf(c.account)
    BY <1>1, <1>5 DEF IndexAnswered, StorageType
  <2>4. PollsRegistered(page')
    BY <1>1, <1>3, <1>5, <2>2 DEF IndexAnswered, PollsRegistered
  <2>5. ChecksRegistered(checks')
    BY <1>1, <1>5 DEF IndexAnswered, ChecksRegistered
  <2>6. QED
    BY <1>2, <2>2, <2>3, <2>4, <2>5, IndexSame
<1>6. ASSUME NEW c \in checks, CheckFails(c)
      PROVE  IndexInv'
  <2>1. ChecksRegistered(checks') /\ UNCHANGED <<storage, page>>
    BY <1>1, <1>6 DEF CheckFails, ChecksRegistered
  <2>2. QED
    BY <1>1, <1>2, <2>1, IndexSame
<1>7. ASSUME NEW index \in polls, PollAnswered(index)
      PROVE  IndexInv'
  <2>1. PollsRegistered(page') /\ UNCHANGED <<storage, checks>>
    BY <1>1, <1>7 DEF PollAnswered, PollsRegistered, PageType
  <2>2. QED
    BY <1>1, <1>2, <2>1, IndexSame
<1>8. CASE Poll \/ \E r \in registering : Send(r) \/ RegisterFails(r)
  <2>1. /\ page'.polling = page.polling /\ page'.ready = page.ready
        /\ UNCHANGED <<storage, checks>>
    BY <1>1, <1>8 DEF Poll, Send, RegisterFails, PageType
  <2>2. PollsRegistered(page')
    BY <1>1, <2>1 DEF PollsRegistered
  <2>3. QED
    BY <1>1, <1>2, <2>1, <2>2, IndexSame
<1>9. ASSUME NEW r \in registering, Confirmed(r)
      PROVE  IndexInv'
  <2>1. r.account \in Account
    BY <1>9 DEF Confirmed, CallsInv
  <2>2. IndexOf(r.account) \in 0..(Len(registrations) - 1)
    BY <1>9, <2>1, RegisteredLeaf, IndexType DEF Confirmed
  <2>3. storage'.index = IndexOf(r.account)
    BY <1>9 DEF Confirmed
  <2> DEFINE p == StartTreePolling(page, storage'.index)
  <2>4. page' = IF r.here
                THEN [p EXCEPT !.isRegistered = TRUE, !.hasStoredSecret = TRUE,
                               !.secret = r.secret]
                ELSE page
    BY <1>9 DEF Confirmed
  <2>5. p \in PageType /\ p.polling = storage'.index /\ ~p.ready
    BY <1>3, <2>2, <2>3
  <2> HIDE DEF p
  <2>6. PollsRegistered(page')
    BY <1>1, <2>2, <2>3, <2>4, <2>5 DEF PollsRegistered, PageType
  <2>7. UNCHANGED checks
    BY <1>9 DEF Confirmed
  <2>8. QED
    BY <1>1, <1>2, <2>2, <2>3, <2>6, <2>7, IndexSame
<1>10. ASSUME NEW r \in registering, ConfirmedElsewhere(r)
       PROVE  IndexInv'
  <2>1. PollsRegistered(page')
    BY <1>1, <1>10 DEF ConfirmedElsewhere, PollsRegistered, PageType
  <2>2. storage'.index = storage.index /\ UNCHANGED checks
    BY <1>1, <1>10 DEF ConfirmedElsewhere, StorageType
  <2>3. QED
    BY <1>1, <1>2, <2>1, <2>2, IndexSame
<1>11. ASSUME NEW r \in restoring, Restored(r)
       PROVE  IndexInv'
  <2>1. CASE Registered(Leaf(r.account, r.secret))
    <3>1. /\ storage' = [storage EXCEPT !.secret = r.secret]
          /\ Loaded(page.at, storage')
      BY <1>11, <2>1 DEF Restored
    <3>2. r.secret \in SomeSecret /\ page.at \in {"register", "vote"}
      BY <1>1 DEF TypeInv, RestoreCall, SomeSecret, PageType
    <3>3. storage' \in StorageType /\ storage'.index = storage.index
      BY <1>1, <3>1, <3>2 DEF StorageType
    <3>4. PollsRegistered(page')
      BY <1>1, <3>1, <3>2, <3>3, MountedPage DEF Loaded, SomeAccount
    <3>5. ChecksRegistered(checks')
      BY <3>1 DEF Loaded, ChecksRegistered
    <3>6. QED
      BY <1>1, <1>2, <3>3, <3>4, <3>5, IndexSame
  <2>2. CASE ~Registered(Leaf(r.account, r.secret))
    <3>1. UNCHANGED <<storage, page, checks>>
      BY <1>11, <2>2 DEF Restored
    <3>2. QED
      BY <1>1, <1>2, <3>1, IndexSame
  <2>3. QED
    BY <2>1, <2>2
<1>12. QED
  BY <1>4, <1>5, <1>6, <1>7, <1>8, <1>9, <1>10, <1>11 DEF Registration

LEMMA OtherIndex ==
    ASSUME ClientInv, Voting \/ Publish \/ \E leaf \in mempool : Mine(leaf)
    PROVE  IndexInv'
<1> USE DEF ClientInv, outside, pageCalls
<1>1. /\ storage \in StorageType /\ page \in PageType
      /\ registrations \in Seq(LeafType) /\ Len(registrations) \in Nat
      /\ storage.index \in {NoIndex} \cup 0..(Len(registrations) - 1)
      /\ PollsRegistered(page) /\ ChecksRegistered(checks)
  BY DEF TypeInv, IndexInv, PollsRegistered, ChecksRegistered
<1>2. CASE Voting
  <2>1. /\ page'.polling = page.polling /\ page'.ready = page.ready
        /\ UNCHANGED <<registrations, published, storage, checks>>
    BY <1>1, <1>2 DEF Voting, Post, VoteFails, Relay, VoteAccepted, DemoMode, PageType
  <2>2. PollsRegistered(page')
    BY <1>1, <2>1 DEF PollsRegistered
  <2>3. QED
    BY <1>1, <2>1, <2>2, IndexSame
<1>3. CASE Publish
  BY <1>1, <1>3 DEF Publish, IndexInv, IsRegistered
<1>4. ASSUME NEW leaf \in mempool, Mine(leaf)
      PROVE  IndexInv'
  <2>1. UNCHANGED <<published, storage, page, checks>>
    BY <1>4 DEF Mine
  <2>2. CASE IsRegistered(leaf.account)
    <3>1. UNCHANGED registrations
      BY <1>4, <2>2 DEF Mine
    <3>2. QED
      BY <1>1, <2>1, <3>1, IndexSame
  <2>3. CASE ~IsRegistered(leaf.account)
    <3>1. /\ Len(registrations') = Len(registrations) + 1
          /\ \A i \in 1..Len(registrations) : registrations'[i] = registrations[i]
          /\ registrations'[Len(registrations) + 1] = leaf
      BY <1>1, <1>4, <2>3 DEF Mine, TypeInv
    <3>2. \A a : IsRegistered(a) => IsRegistered(a)'
      BY <1>1, <3>1 DEF IsRegistered
    <3>3. \A i \in 1..Len(registrations) : registrations[i].account # leaf.account
      BY <2>3 DEF IsRegistered
    <3>4. \A i, j \in 1..Len(registrations') :
             registrations'[i].account = registrations'[j].account => i = j
      BY <1>1, <3>1, <3>3 DEF IndexInv
    <3>5. published' \in 0..Len(registrations')
      BY <1>1, <2>1, <3>1 DEF IndexInv
    <3>6. storage'.index \in {NoIndex} \cup 0..(Len(registrations') - 1)
      BY <1>1, <2>1, <3>1
    <3>7. page'.polling # NoIndex => page'.polling < Len(registrations') /\ ~page'.ready
      BY <1>1, <2>1, <3>1 DEF PollsRegistered, PageType
    <3>8. \A c \in checks' : c.pc = "index" => IsRegistered(c.account)'
      BY <1>1, <2>1, <3>2 DEF ChecksRegistered
    <3>9. QED
      BY <3>4, <3>5, <3>6, <3>7, <3>8 DEF IndexInv
  <2>4. QED
    BY <2>2, <2>3
<1>5. QED
  BY <1>2, <1>3, <1>4

-----------------------------------------------------------------------------
(* One call of a kind for a page *)

LEMMA FewerHere ==
    ASSUME NEW calls, OneHere(calls), NEW fewer \in SUBSET calls
    PROVE  OneHere(fewer)
BY DEF OneHere

LEMMA GoneOnHere ==
    ASSUME NEW calls, OneHere(calls), NEW c \in calls, NEW d, d.here = c.here
    PROVE  OneHere((calls \ {c}) \cup {d})
BY DEF OneHere

LEMMA AwayHere ==
    /\ \A calls \in SUBSET RegisterCall : OneHere(Away(calls))
    /\ \A calls \in SUBSET VoteCall : OneHere(Away(calls))
BY AwayCalls DEF OneHere

LEMMA LoadedHere ==
    ASSUME TypeInv, NEW at, NEW store, Loaded(at, store)
    PROVE  HereInv'
<1>1. {v \in voting : v.pc = "posted"} \in SUBSET VoteCall
  BY DEF TypeInv
<1>2. registering' = {} /\ OneHere(voting')
  BY <1>1, AwayHere DEF Loaded
<1>3. QED
  BY <1>2 DEF HereInv, OneHere

LEMMA HereStep ==
    ASSUME ClientInv, [Next]_vars
    PROVE  HereInv'
<1> USE DEF ClientInv, outside, pageCalls
<1>1. OneHere(registering) /\ OneHere(voting)
  BY DEF HereInv
<1>2. registering \in SUBSET RegisterCall /\ voting \in SUBSET VoteCall
  BY DEF TypeInv
<1>3. CASE Navigate
  BY <1>2, <1>3, AwayHere DEF Navigate, HereInv
<1>4. CASE Reload \/ ClearSecret
  BY <1>4, LoadedHere DEF Reload, ClearSecret
<1>5. CASE ClickRegister
  <2>1. OneHere(registering') /\ UNCHANGED voting
    BY <1>5 DEF ClickRegister, OffersRegistration, OneHere
  <2>2. QED
    BY <1>1, <2>1 DEF HereInv
<1>6. CASE ClickVote
  <2>1. OneHere(voting') /\ UNCHANGED registering
    BY <1>6 DEF ClickVote, OffersVote, OneHere
  <2>2. QED
    BY <1>1, <2>1 DEF HereInv
<1>7. ASSUME NEW r \in registering, Send(r)
      PROVE  HereInv'
  <2>1. /\ [r EXCEPT !.account = selected, !.pc = "sent"].here = r.here
        /\ [r EXCEPT !.account = selected, !.pc = "elsewhere"].here = r.here
    BY <1>2 DEF RegisterCall
  <2>2. PICK d : registering' = (registering \ {r}) \cup {d} /\ d.here = r.here
    BY <1>7, <2>1 DEF Send
  <2>3. OneHere(registering') /\ UNCHANGED voting
    BY <1>1, <1>7, <2>2, GoneOnHere DEF Send
  <2>4. QED
    BY <1>1, <2>3 DEF HereInv
<1>8. ASSUME NEW r \in registering, RegisterFails(r) \/ Confirmed(r) \/ ConfirmedElsewhere(r)
      PROVE  HereInv'
  <2>1. registering' \in SUBSET registering /\ UNCHANGED voting
    BY <1>8 DEF RegisterFails, Confirmed, ConfirmedElsewhere
  <2>2. QED
    BY <1>1, <2>1, FewerHere DEF HereInv
<1>9. ASSUME NEW v \in voting, Post(v) \/ Relay(v)
      PROVE  HereInv'
  <2>1. \A pc : [v EXCEPT !.pc = pc].here = v.here
    BY <1>2 DEF VoteCall
  <2>2. PICK d : voting' = (voting \ {v}) \cup {d} /\ d.here = v.here
    BY <1>9, <2>1 DEF Post, Relay
  <2>3. OneHere(voting') /\ UNCHANGED registering
    BY <1>1, <1>9, <2>2, GoneOnHere DEF Post, Relay
  <2>4. QED
    BY <1>1, <2>3 DEF HereInv
<1>10. ASSUME NEW v \in voting, VoteFails(v) \/ VoteAccepted(v) \/ DemoMode(v)
       PROVE  HereInv'
  <2>1. voting' \in SUBSET voting /\ UNCHANGED registering
    BY <1>10 DEF VoteFails, VoteAccepted, DemoMode
  <2>2. QED
    BY <1>1, <2>1, FewerHere DEF HereInv
<1>11. ASSUME NEW r \in restoring, Restored(r)
       PROVE  HereInv'
  BY <1>1, <1>11, LoadedHere DEF Restored, HereInv
<1>12. CASE UNCHANGED <<registering, voting>>
  BY <1>12 DEF HereInv
<1>13. CASE Navigate \/ Connect \/ Disconnect \/ SelectAccount \/ Copy \/ ClickRestore
  BY <1>3, <1>12, <1>13 DEF Connect, Disconnect, SetAccount, SelectAccount, Copy, ClickRestore
<1>14. CASE User
  BY <1>4, <1>5, <1>6, <1>13, <1>14 DEF User
<1>15. CASE Registration
  BY <1>7, <1>8, <1>11, <1>12, <1>15
     DEF Registration, CheckAnswered, IndexAnswered, CheckFails, Poll, PollAnswered
<1>16. CASE Voting
  BY <1>9, <1>10, <1>16 DEF Voting
<1>17. CASE Publish \/ \E leaf \in mempool : Mine(leaf)
  BY <1>12, <1>17 DEF Publish, Mine
<1>18. CASE UNCHANGED vars
  BY <1>12, <1>18 DEF vars
<1>19. QED
  BY <1>14, <1>15, <1>16, <1>17, <1>18 DEF Next

-----------------------------------------------------------------------------
(* Votes *)

(* Votes that are still counted, for calls accepted before.                *)
LEMMA CountedSame ==
    ASSUME CountedInv, counted \subseteq counted',
           \A v \in voting' : v.pc = "accepted" =>
               \E w \in voting : w.pc = "accepted" /\ Vote(v) = Vote(w),
           page'.vote = <<>> \/ (page'.vote = page.vote /\ page'.hasVoted = page.hasVoted)
    PROVE  CountedInv'
<1>1. \A v \in voting' : v.pc = "accepted" => Vote(v) \in counted'
  BY DEF CountedInv
<1>2. ShownVoteIsCounted'
  BY DEF CountedInv, ShownVoteIsCounted
<1>3. QED
  BY <1>1, <1>2 DEF CountedInv, Vote

LEMMA LoadedCounted ==
    ASSUME ClientInv, NEW at \in {"register", "vote"}, NEW store \in StorageType,
           Loaded(at, store), UNCHANGED counted
    PROVE  CountedInv'
<1>1. page'.vote = <<>>
  BY PageTyped DEF Loaded, SomeAccount
<1>2. {v \in voting : v.pc = "posted"} \in SUBSET VoteCall
  BY DEF ClientInv, TypeInv
<1>3. \A v \in voting' : v.pc # "accepted"
  BY <1>2, AwayCalls DEF Loaded
<1>4. QED
  BY <1>1, <1>3, CountedSame DEF ClientInv

LEMMA CountedStep ==
    ASSUME ClientInv, [Next]_vars
    PROVE  CountedInv'
<1> USE DEF ClientInv, outside, pageCalls
<1>1. /\ storage \in StorageType /\ page \in PageType
      /\ page.at \in {"register", "vote"} /\ page.account \in SomeAccount
      /\ voting \in SUBSET VoteCall
  BY DEF TypeInv, PageType
<1>2. CASE Navigate
  <2>1. PICK at \in {"register", "vote"} : Mount(at, page.account, storage)
    BY <1>2 DEF Navigate
  <2>2. page'.vote = <<>>
    BY <1>1, <2>1, PageTyped DEF Mount
  <2>3. voting' = Away(voting) /\ counted' = counted
    BY <1>2 DEF Navigate
  <2>4. QED
    BY <1>1, <2>2, <2>3, AwayCalls, CountedSame
<1>3. CASE Reload
  BY <1>1, <1>3, LoadedCounted DEF Reload
<1>4. CASE ClearSecret
  <2>1. storage' \in StorageType
    BY <1>1, <1>4 DEF ClearSecret, StorageType, SomeSecret
  <2>2. QED
    BY <1>4, <2>1, LoadedCounted DEF ClearSecret
<1>5. ASSUME NEW r \in restoring, Restored(r)
      PROVE  CountedInv'
  <2>1. CASE Registered(Leaf(r.account, r.secret))
    <3>1. storage' \in StorageType
      BY <1>1, <1>5, <2>1 DEF Restored, StorageType, TypeInv, RestoreCall, SomeSecret
    <3>2. QED
      BY <1>1, <1>5, <2>1, <3>1, LoadedCounted DEF Restored
  <2>2. CASE ~Registered(Leaf(r.account, r.secret))
    BY <1>5, <2>2, CountedSame DEF Restored
  <2>3. QED
    BY <2>1, <2>2
<1>6. ASSUME NEW account \in SomeAccount, SetAccount(account)
      PROVE  CountedInv'
  <2>1. Page("register", account, storage) \in PageType
        /\ Page("register", account, storage).vote = <<>>
    BY <1>1, PageTyped
  <2>2. page'.vote = <<>> \/ (page'.vote = page.vote /\ page'.hasVoted = page.hasVoted)
    BY <1>1, <1>6, <2>1 DEF SetAccount, PageType
  <2>3. QED
    BY <1>6, <2>2, CountedSame DEF SetAccount
<1>7. CASE ClickVote
  <2>1. \A v \in voting' : v \in voting \/ v.pc = "proof"
    BY <1>7 DEF ClickVote
  <2>2. QED
    BY <1>7, <2>1, CountedSame DEF ClickVote
<1>8. CASE SelectAccount \/ ClickRegister \/ Copy \/ ClickRestore
  BY <1>8, CountedSame DEF SelectAccount, ClickRegister, Copy, ClickRestore
<1>9. CASE User
  BY <1>2, <1>3, <1>4, <1>6, <1>7, <1>8, <1>9
     DEF User, Connect, Disconnect, SomeAccount, TypeInv
<1>10. ASSUME NEW r \in registering, Confirmed(r)
       PROVE  CountedInv'
  <2> DEFINE p == StartTreePolling(page, storage'.index)
  <2>1. /\ page' = IF r.here
                   THEN [p EXCEPT !.isRegistered = TRUE, !.hasStoredSecret = TRUE,
                                  !.secret = r.secret]
                   ELSE page
        /\ UNCHANGED <<counted, voting>>
    BY <1>10 DEF Confirmed
  <2>2. DOMAIN p = DOMAIN page /\ p.vote = page.vote /\ p.hasVoted = page.hasVoted
    BY <1>1 DEF StartTreePolling, PageType
  <2> HIDE DEF p
  <2>3. page'.vote = page.vote /\ page'.hasVoted = page.hasVoted
    BY <1>1, <2>1, <2>2 DEF PageType
  <2>4. QED
    BY <2>1, <2>3, CountedSame
<1>11. CASE Registration
  <2>1. ASSUME NEW i
        PROVE  /\ StartTreePolling(page, i).vote = page.vote
               /\ StartTreePolling(page, i).hasVoted = page.hasVoted
    BY <1>1 DEF StartTreePolling, PageType
  <2>2. CASE \/ Poll
             \/ \E c \in checks : CheckAnswered(c) \/ IndexAnswered(c) \/ CheckFails(c)
             \/ \E index \in polls : PollAnswered(index)
             \/ \E r \in registering : Send(r) \/ RegisterFails(r) \/ ConfirmedElsewhere(r)
    <3>1. page'.vote = page.vote /\ page'.hasVoted = page.hasVoted
      <4>1. CASE \E r \in registering : Send(r) \/ RegisterFails(r) \/ ConfirmedElsewhere(r)
        BY <1>1, <4>1 DEF Send, RegisterFails, ConfirmedElsewhere, PageType
      <4>2. CASE \E c \in checks : CheckAnswered(c) \/ IndexAnswered(c) \/ CheckFails(c)
        BY <1>1, <2>1, <4>2 DEF CheckAnswered, IndexAnswered, CheckFails, PageType
      <4>3. CASE Poll \/ \E index \in polls : PollAnswered(index)
        BY <1>1, <4>3 DEF Poll, PollAnswered, PageType
      <4>4. QED
        BY <2>2, <4>1, <4>2, <4>3
    <3>2. UNCHANGED <<counted, voting>>
      BY <2>2 DEF Poll, CheckAnswered, IndexAnswered, CheckFails, PollAnswered, Send,
                  RegisterFails, ConfirmedElsewhere
    <3>3. QED
      BY <3>1, <3>2, CountedSame
  <2>3. QED
    BY <1>5, <1>10, <1>11, <2>2 DEF Registration
<1>12. ASSUME NEW v \in voting, Post(v) \/ VoteFails(v)
       PROVE  CountedInv'
  <2>1. \A w \in voting' : w \in voting \/ w.pc # "accepted"
    BY <1>1, <1>12 DEF Post, VoteFails, VoteCall
  <2>2. QED
    BY <1>12, <2>1, CountedSame DEF Post, VoteFails
<1>13. ASSUME NEW v \in voting, Relay(v)
       PROVE  CountedInv'
  <2>1. PICK answer \in {"accepted", "refused"} :
           /\ voting' = (voting \ {v}) \cup {[v EXCEPT !.pc = answer]}
           /\ \/ counted' = counted \cup {Vote(v)}
              \/ answer = "refused" /\ UNCHANGED counted
    BY <1>13 DEF Relay
  <2>2. /\ [v EXCEPT !.pc = answer].pc = answer
        /\ Vote([v EXCEPT !.pc = answer]) = Vote(v)
    BY <1>1 DEF VoteCall, Vote
  <2>3. \A w \in voting' : w.pc = "accepted" => Vote(w) \in counted'
    BY <2>1, <2>2 DEF CountedInv
  <2>4. ShownVoteIsCounted'
    BY <1>13, <2>1 DEF CountedInv, ShownVoteIsCounted, Relay
  <2>5. QED
    BY <2>3, <2>4 DEF CountedInv, Vote
<1>14. ASSUME NEW v \in voting, VoteAccepted(v)
       PROVE  CountedInv'
  <2>1. Vote(v) \in counted /\ counted' = counted /\ voting' \subseteq voting
    BY <1>14 DEF VoteAccepted, CountedInv
  <2>2. \/ UNCHANGED page
        \/ page'.hasVoted = TRUE /\ page'.vote = <<Vote(v)>>
    BY <1>1, <1>14 DEF VoteAccepted, PageType
  <2>3. ShownVoteIsCounted'
    BY <2>1, <2>2 DEF CountedInv, ShownVoteIsCounted
  <2>4. QED
    BY <2>1, <2>3 DEF CountedInv, Vote
<1>15. ASSUME NEW v \in voting, DemoMode(v)
       PROVE  CountedInv'
  <2>1. counted' = counted /\ voting' \subseteq voting
    BY <1>15 DEF DemoMode
  <2>2. page'.vote = page.vote /\ (page.hasVoted => page'.hasVoted)
    BY <1>1, <1>15 DEF DemoMode, PageType
  <2>3. ShownVoteIsCounted'
    BY <2>1, <2>2 DEF CountedInv, ShownVoteIsCounted
  <2>4. QED
    BY <2>1, <2>3 DEF CountedInv, Vote
<1>16. CASE Voting
  BY <1>12, <1>13, <1>14, <1>15, <1>16 DEF Voting
<1>17. CASE UNCHANGED <<counted, voting, page>>
  BY <1>17, CountedSame
<1>18. CASE Publish \/ (\E leaf \in mempool : Mine(leaf)) \/ UNCHANGED vars
  BY <1>17, <1>18 DEF Publish, Mine, vars
<1>19. QED
  BY <1>9, <1>11, <1>16, <1>18 DEF Next

-----------------------------------------------------------------------------
(* Secrets: who holds them *)

LEMMA HoldersSame ==
    ASSUME HoldersInv, generated' \in Int, generated \in Int, generated <= generated',
           storage'.secret <= generated, page'.secret <= generated,
           storage'.secret \in Int, page'.secret \in Int,
           backups' \subseteq 1..generated,
           restoring' \subseteq RestoreCall,
           \A r \in restoring' : r.secret <= generated
    PROVE  HoldersInv'
BY DEF HoldersInv, RestoreCall, Secret

LEMMA HoldersStep ==
    ASSUME ClientInv, [Next]_vars, TypeInv'
    PROVE  HoldersInv'
<1> USE DEF ClientInv, outside, pageCalls
<1>1. /\ storage \in StorageType /\ page \in PageType
      /\ storage' \in StorageType /\ page' \in PageType
      /\ registering \in SUBSET RegisterCall
      /\ restoring \in SUBSET RestoreCall /\ restoring' \subseteq RestoreCall
      /\ generated \in Int /\ generated' \in Int /\ 0 <= generated
  BY ClientAssumption DEF TypeInv
<1>2. /\ storage.secret \in Int /\ storage'.secret \in Int
      /\ page.secret \in Int /\ page'.secret \in Int
  BY <1>1 DEF StorageType, PageType, SomeSecret, Secret, NoSecret
<1>3. /\ storage.secret <= generated /\ page.secret <= generated
      /\ backups \subseteq 1..generated
      /\ \A r \in restoring : r.secret <= generated
  BY DEF HoldersInv
<1>4. \A r \in registering : r.secret <= generated
  BY DEF CallsInv
<1>5. NoSecret <= generated
  BY <1>1 DEF NoSecret
<1>6. CASE Navigate
  <2>1. PICK at \in {"register", "vote"} : Mount(at, page.account, storage)
    BY <1>6 DEF Navigate
  <2>2. page'.secret = NoSecret
    BY <1>1, <2>1, PageTyped DEF Mount, PageType
  <2>3. \A r \in restoring' : r.secret <= generated
    BY <1>1, <1>3, <1>6, AwayCalls DEF Navigate
  <2>4. QED
    BY <1>1, <1>2, <1>3, <1>5, <1>6, <2>2, <2>3, HoldersSame DEF Navigate
<1>7. ASSUME NEW at \in {"register", "vote"}, Loaded(at, storage'),
             storage'.secret <= generated, UNCHANGED <<generated, backups>>
      PROVE  HoldersInv'
  <2>1. page'.secret = NoSecret
    BY <1>1, <1>7, PageTyped DEF Loaded, SomeAccount
  <2>2. restoring' = {}
    BY <1>7 DEF Loaded
  <2>3. QED
    BY <1>1, <1>2, <1>3, <1>5, <1>7, <2>1, <2>2, HoldersSame
<1>8. CASE Reload
  BY <1>3, <1>7, <1>8 DEF Reload
<1>9. CASE ClearSecret
  <2>1. storage'.secret = NoSecret
    BY <1>1, <1>9 DEF ClearSecret, StorageType
  <2>2. QED
    BY <1>5, <1>7, <1>9, <2>1 DEF ClearSecret
<1>10. ASSUME NEW r \in restoring, Restored(r)
       PROVE  HoldersInv'
  <2>1. CASE Registered(Leaf(r.account, r.secret))
    <3>1. storage'.secret = r.secret
      BY <1>1, <1>10, <2>1 DEF Restored, StorageType
    <3>2. page.at \in {"register", "vote"}
      BY <1>1 DEF PageType
    <3>3. QED
      BY <1>3, <1>7, <1>10, <2>1, <3>1, <3>2 DEF Restored
  <2>2. CASE ~Registered(Leaf(r.account, r.secret))
    <3>1. restoring' \subseteq restoring /\ UNCHANGED <<storage, page, generated, backups>>
      BY <1>10, <2>2 DEF Restored
    <3>2. QED
      BY <1>1, <1>2, <1>3, <3>1, HoldersSame
  <2>3. QED
    BY <2>1, <2>2
<1>11. ASSUME NEW account \in SomeAccount, SetAccount(account)
       PROVE  HoldersInv'
  <2>1. Page("register", account, storage) \in PageType
        /\ Page("register", account, storage).secret = NoSecret
    BY <1>1, PageTyped
  <2>2. page'.secret \in {page.secret, NoSecret}
    BY <1>1, <1>11, <2>1 DEF SetAccount, PageType
  <2>3. QED
    BY <1>1, <1>2, <1>3, <1>5, <1>11, <2>2, HoldersSame DEF SetAccount
<1>12. CASE ClickRegister
  <2>1. /\ generated' = generated + 1
        /\ UNCHANGED <<storage, page, backups, restoring>>
    BY <1>12 DEF ClickRegister
  <2>2. generated <= generated'
    BY <1>1, <2>1
  <2>3. QED
    BY <1>1, <1>2, <1>3, <2>1, <2>2, HoldersSame
<1>13. CASE Copy
  <2>1. PICK s \in {page.secret, storage.secret} \ {NoSecret} : backups' = backups \cup {s}
    BY <1>13 DEF Copy
  <2>2. s \in 1..generated
    BY <1>1, <1>3 DEF PageType, StorageType, SomeSecret, Secret, NoSecret
  <2>3. UNCHANGED <<storage, page, generated, restoring>> /\ backups' \subseteq 1..generated
    BY <1>3, <1>13, <2>1, <2>2 DEF Copy
  <2>4. QED
    BY <1>1, <1>2, <1>3, <2>3, HoldersSame
<1>14. CASE ClickRestore
  <2>1. PICK s \in backups :
           restoring' = restoring \cup
               {[account |-> page.account, secret |-> s, here |-> TRUE]}
    BY <1>14 DEF ClickRestore
  <2>2. UNCHANGED <<storage, page, generated, backups>>
    BY <1>14 DEF ClickRestore
  <2>3. \A r \in restoring' : r.secret <= generated
    BY <1>3, <2>1
  <2>4. QED
    BY <1>1, <1>2, <1>3, <2>2, <2>3, HoldersSame
<1>15. CASE SelectAccount \/ ClickVote
  <2>1. UNCHANGED <<storage, page, generated, backups, restoring>>
    BY <1>15 DEF SelectAccount, ClickVote
  <2>2. QED
    BY <1>1, <1>2, <1>3, <2>1, HoldersSame
<1>16. CASE User
  BY <1>6, <1>8, <1>9, <1>11, <1>12, <1>13, <1>14, <1>15, <1>16
     DEF User, Connect, Disconnect, SomeAccount, TypeInv
<1>17. ASSUME NEW r \in registering, Confirmed(r) \/ ConfirmedElsewhere(r)
       PROVE  HoldersInv'
  <2>1. storage'.secret = r.secret /\ UNCHANGED <<generated, backups, restoring>>
    BY <1>1, <1>17 DEF Confirmed, ConfirmedElsewhere, StorageType
  <2>2. CASE Confirmed(r)
    <3> DEFINE p == StartTreePolling(page, storage'.index)
    <3>1. page' = IF r.here
                  THEN [p EXCEPT !.isRegistered = TRUE, !.hasStoredSecret = TRUE,
                                 !.secret = r.secret]
                  ELSE page
      BY <2>2 DEF Confirmed
    <3>2. DOMAIN p = DOMAIN page
      BY DEF StartTreePolling
    <3> HIDE DEF p
    <3>3. page'.secret \in {page.secret, r.secret}
      BY <1>1, <3>1, <3>2 DEF PageType
    <3>4. QED
      BY <1>1, <1>2, <1>3, <1>4, <2>1, <3>3, HoldersSame
  <2>3. CASE ConfirmedElsewhere(r)
    <3>1. page'.secret \in {page.secret, r.secret}
      BY <1>1, <2>3 DEF ConfirmedElsewhere, PageType
    <3>2. QED
      BY <1>1, <1>2, <1>3, <1>4, <2>1, <3>1, HoldersSame
  <2>4. QED
    BY <1>17, <2>2, <2>3
<1>18. ASSUME page'.secret = page.secret,
              UNCHANGED <<generated, backups, restoring>>, storage'.secret = storage.secret
       PROVE  HoldersInv'
  BY <1>1, <1>2, <1>3, <1>18, HoldersSame
<1>19. CASE Registration
  <2>1. ASSUME NEW c \in checks, CheckAnswered(c) \/ CheckFails(c) \/ IndexAnswered(c)
        PROVE  HoldersInv'
    <3>1. /\ page'.secret = page.secret /\ storage'.secret = storage.secret
          /\ UNCHANGED <<generated, backups, restoring>>
      BY <1>1, <2>1 DEF CheckAnswered, CheckFails, IndexAnswered, StartTreePolling,
                        PageType, StorageType
    <3>2. QED
      BY <1>18, <3>1
  <2>2. ASSUME Poll \/ \E index \in polls : PollAnswered(index)
        PROVE  HoldersInv'
    <3>1. /\ page'.secret = page.secret
          /\ UNCHANGED <<generated, backups, restoring, storage>>
      BY <1>1, <2>2 DEF Poll, PollAnswered, PageType
    <3>2. QED
      BY <1>18, <3>1
  <2>3. ASSUME NEW r \in registering, Send(r) \/ RegisterFails(r)
        PROVE  HoldersInv'
    <3>1. /\ page'.secret = page.secret
          /\ UNCHANGED <<generated, backups, restoring, storage>>
      BY <1>1, <2>3 DEF Send, RegisterFails, PageType
    <3>2. QED
      BY <1>18, <3>1
  <2>4. QED
    BY <1>10, <1>17, <1>19, <2>1, <2>2, <2>3 DEF Registration
<1>20. CASE Voting
  <2>1. /\ page'.secret = page.secret
        /\ UNCHANGED <<generated, backups, restoring, storage>>
    BY <1>1, <1>20 DEF Voting, Post, VoteFails, Relay, VoteAccepted, DemoMode, PageType
  <2>2. QED
    BY <1>18, <2>1
<1>21. CASE Publish \/ (\E leaf \in mempool : Mine(leaf)) \/ UNCHANGED vars
  BY <1>18, <1>21 DEF Publish, Mine, vars
<1>22. QED
  BY <1>16, <1>19, <1>20, <1>21 DEF Next

-----------------------------------------------------------------------------
(* Secrets: the calls of register *)

LEMMA CallsSame ==
    ASSUME CallsInv, TypeInv, generated' \in Int, generated <= generated',
           \A d \in registering' : \E c \in registering :
               d.secret = c.secret /\ d.pc = c.pc /\ d.account = c.account,
           \A d, e \in registering' : d.secret = e.secret => d = e,
           \A a \in Account, s \in Secret : SentBy(a, s)' => SentBy(a, s)
    PROVE  CallsInv'
<1>1. \A r \in registering : r.secret \in Int
  BY DEF TypeInv, RegisterCall, Secret
<1>2. generated \in Int /\ \A s \in Secret : s \in Int
  BY DEF TypeInv, Secret
<1>3. \A d \in registering' : d.secret <= generated'
  BY <1>1, <1>2 DEF CallsInv
<1>4. \A d \in registering' : d.pc # "generated" => d.account \in Account
  BY DEF CallsInv
<1>5. \A a \in Account, s \in Secret : SentBy(a, s)' =>
         /\ s <= generated'
         /\ \A d \in registering' : d.secret = s => d.pc = "sent" /\ d.account = a
  BY <1>2 DEF CallsInv
<1>6. QED
  BY <1>3, <1>4, <1>5 DEF CallsInv

(* Calls that go, or are left alone, while nothing is sent.                *)
LEMMA CallsGo ==
    ASSUME ClientInv, registering' \subseteq registering,
           UNCHANGED <<generated, mempool, registrations>>
    PROVE  CallsInv'
<1>1. \A a, s : SentBy(a, s)' => SentBy(a, s)
  BY DEF SentBy, Registered
<1>2. generated \in Int
  BY DEF ClientInv, TypeInv
<1>3. \A d, e \in registering' : d.secret = e.secret => d = e
  BY DEF ClientInv, CallsInv
<1>4. \A d \in registering' : \E c \in registering :
         d.secret = c.secret /\ d.pc = c.pc /\ d.account = c.account
  OBVIOUS
<1>5. QED
  BY <1>1, <1>2, <1>3, <1>4, CallsSame DEF ClientInv

LEMMA SendKeepsCalls ==
    ASSUME ClientInv, NEW r \in registering, Send(r)
    PROVE  CallsInv'
<1> USE DEF ClientInv
<1>1. /\ registering \in SUBSET RegisterCall /\ selected \in Account
      /\ r.secret \in Secret /\ r.pc = "generated"
      /\ UNCHANGED <<generated, registrations>>
  BY DEF TypeInv, Send, RegisterCall
<1>2. \A a \in Account : ~SentBy(a, r.secret)
  BY <1>1 DEF CallsInv
<1>3. PICK d : /\ registering' = (registering \ {r}) \cup {d}
               /\ d.secret = r.secret /\ d.account = selected
               /\ \/ d.pc = "sent" /\ mempool' = mempool \cup {Leaf(selected, r.secret)}
                  \/ d.pc = "elsewhere" /\ mempool' = mempool
  <2>1. /\ [r EXCEPT !.account = selected, !.pc = "sent"].secret = r.secret
        /\ [r EXCEPT !.account = selected, !.pc = "sent"].account = selected
        /\ [r EXCEPT !.account = selected, !.pc = "sent"].pc = "sent"
        /\ [r EXCEPT !.account = selected, !.pc = "elsewhere"].secret = r.secret
        /\ [r EXCEPT !.account = selected, !.pc = "elsewhere"].account = selected
        /\ [r EXCEPT !.account = selected, !.pc = "elsewhere"].pc = "elsewhere"
    BY <1>1 DEF RegisterCall
  <2>2. QED
    BY <2>1 DEF Send
<1>4. ASSUME NEW a \in Account, NEW s \in Secret, SentBy(a, s)'
      PROVE  SentBy(a, s) \/ (a = selected /\ s = r.secret /\ d.pc = "sent")
  <2>1. Registered(Leaf(a, s))' => Registered(Leaf(a, s))
    BY <1>1 DEF Registered, Leaf
  <2>2. QED
    BY <1>3, <1>4, <2>1, LeafInjective DEF SentBy, Leaf
<1>5. \A c \in registering' : c.secret <= generated'
  BY <1>1, <1>3 DEF CallsInv
<1>6. \A c \in registering' : c.pc # "generated" => c.account \in Account
  BY <1>1, <1>3 DEF CallsInv
<1>7. \A c, e \in registering' : c.secret = e.secret => c = e
  BY <1>3 DEF CallsInv
<1>8. ASSUME NEW a \in Account, NEW s \in Secret, SentBy(a, s)'
      PROVE  /\ s <= generated'
             /\ \A c \in registering' : c.secret = s => c.pc = "sent" /\ c.account = a
  <2>1. CASE SentBy(a, s)
    <3>1. s # r.secret
      BY <1>2, <2>1
    <3>2. QED
      BY <1>1, <1>3, <2>1, <3>1 DEF CallsInv
  <2>2. CASE a = selected /\ s = r.secret /\ d.pc = "sent"
    <3>1. s <= generated'
      BY <1>1, <2>2 DEF CallsInv
    <3>2. \A c \in registering' : c.secret = s => c = d
      BY <1>3, <1>7, <2>2
    <3>3. QED
      BY <1>3, <2>2, <3>1, <3>2
  <2>3. QED
    BY <1>4, <1>8, <2>1, <2>2
<1>9. QED
  BY <1>5, <1>6, <1>7, <1>8 DEF CallsInv

LEMMA ClickKeepsCalls ==
    ASSUME ClientInv, ClickRegister
    PROVE  CallsInv'
<1> USE DEF ClientInv
<1> DEFINE d == [secret |-> generated', account |-> NoAccount, here |-> TRUE,
                 pc |-> "generated"]
<1>1. /\ generated \in Nat /\ generated' = generated + 1
      /\ registering' = registering \cup {d}
      /\ UNCHANGED <<mempool, registrations>>
  BY ClientAssumption DEF ClickRegister, outside, TypeInv
<1>2. \A c \in registering : c.secret \in Nat /\ c.secret <= generated
  BY DEF TypeInv, CallsInv, RegisterCall, Secret
<1>3. d.secret = generated + 1 /\ d.pc = "generated"
  BY <1>1
<1> HIDE DEF d
<1>4. \A a, s : SentBy(a, s)' => SentBy(a, s)
  BY <1>1 DEF SentBy, Registered, Leaf
<1>5. \A c \in registering' : c.secret <= generated'
  BY <1>1, <1>2, <1>3
<1>6. \A c \in registering' : c.pc # "generated" => c.account \in Account
  BY <1>1, <1>3 DEF CallsInv
<1>7. \A c, e \in registering' : c.secret = e.secret => c = e
  BY <1>1, <1>2, <1>3 DEF CallsInv
<1>8. ASSUME NEW a \in Account, NEW s \in Secret, SentBy(a, s)'
      PROVE  /\ s <= generated'
             /\ \A c \in registering' : c.secret = s => c.pc = "sent" /\ c.account = a
  <2>1. SentBy(a, s)
    BY <1>4, <1>8
  <2>2. s \in Nat /\ s <= generated
    BY <2>1 DEF CallsInv, Secret
  <2>3. s # d.secret
    BY <1>1, <1>3, <2>2
  <2>4. QED
    BY <1>1, <2>1, <2>2, <2>3 DEF CallsInv
<1>9. QED
  BY <1>5, <1>6, <1>7, <1>8 DEF CallsInv

LEMMA CallsStep ==
    ASSUME ClientInv, [Next]_vars
    PROVE  CallsInv'
<1> USE DEF ClientInv, outside, pageCalls
<1>1. CASE Navigate
  <2>1. registering' = Away(registering) /\ UNCHANGED <<generated, mempool, registrations>>
    BY <1>1 DEF Navigate
  <2>2. registering \in SUBSET RegisterCall /\ generated \in Int
    BY DEF TypeInv
  <2>3. \A e \in registering' : \E c \in registering :
           /\ e = [c EXCEPT !.here = FALSE]
           /\ e.secret = c.secret /\ e.pc = c.pc /\ e.account = c.account
    BY <2>1, <2>2, AwayCalls
  <2>4. ASSUME NEW d \in registering', NEW e \in registering', d.secret = e.secret
        PROVE  d = e
    <3>1. PICK b \in registering : d = [b EXCEPT !.here = FALSE] /\ d.secret = b.secret
      BY <2>3
    <3>2. PICK c \in registering : e = [c EXCEPT !.here = FALSE] /\ e.secret = c.secret
      BY <2>3
    <3>3. b = c
      BY <2>4, <3>1, <3>2 DEF CallsInv
    <3>4. QED
      BY <3>1, <3>2, <3>3
  <2>5. \A a, s : SentBy(a, s)' => SentBy(a, s)
    BY <2>1 DEF SentBy, Registered
  <2>6. \A e \in registering' : \E c \in registering :
           e.secret = c.secret /\ e.pc = c.pc /\ e.account = c.account
    BY <2>3
  <2>7. QED
    BY <2>1, <2>2, <2>4, <2>5, <2>6, CallsSame
<1>2. CASE Reload \/ ClearSecret
  <2>1. registering' = {} /\ UNCHANGED <<generated, mempool, registrations>>
    BY <1>2 DEF Reload, ClearSecret, Loaded
  <2>2. QED
    BY <2>1, CallsGo
<1>3. CASE Connect \/ Disconnect \/ SelectAccount \/ Copy \/ ClickRestore \/ ClickVote
  <2>1. UNCHANGED <<registering, generated, mempool, registrations>>
    BY <1>3 DEF Connect, Disconnect, SetAccount, SelectAccount, Copy, ClickRestore, ClickVote
  <2>2. QED
    BY <2>1, CallsGo
<1>4. CASE User
  BY <1>1, <1>2, <1>3, <1>4, ClickKeepsCalls DEF User
<1>5. ASSUME NEW r \in registering, RegisterFails(r) \/ Confirmed(r) \/ ConfirmedElsewhere(r)
      PROVE  CallsInv'
  <2>1. registering' \subseteq registering /\ UNCHANGED <<generated, mempool, registrations>>
    BY <1>5 DEF RegisterFails, Confirmed, ConfirmedElsewhere
  <2>2. QED
    BY <2>1, CallsGo
<1>6. ASSUME NEW r \in restoring, Restored(r)
      PROVE  CallsInv'
  <2>1. registering' \subseteq registering /\ UNCHANGED <<generated, mempool, registrations>>
    BY <1>6 DEF Restored, Loaded
  <2>2. QED
    BY <2>1, CallsGo
<1>7. CASE \/ Poll
           \/ \E c \in checks : CheckAnswered(c) \/ IndexAnswered(c) \/ CheckFails(c)
           \/ \E index \in polls : PollAnswered(index)
  <2>1. UNCHANGED <<registering, generated, mempool, registrations>>
    BY <1>7 DEF Poll, CheckAnswered, IndexAnswered, CheckFails, PollAnswered
  <2>2. QED
    BY <2>1, CallsGo
<1>8. CASE Registration
  BY <1>5, <1>6, <1>7, <1>8, SendKeepsCalls DEF Registration
<1>9. ASSUME NEW leaf \in mempool, Mine(leaf)
      PROVE  CallsInv'
  <2>1. UNCHANGED <<registering, generated>>
    BY <1>9 DEF Mine
  <2>2. registrations \in Seq(LeafType) /\ generated \in Int
    BY DEF TypeInv
  <2>3. \A x : Registered(x)' => Registered(x) \/ x = leaf
    <3>1. CASE UNCHANGED registrations
      BY <3>1 DEF Registered
    <3>2. CASE registrations' = Append(registrations, leaf)
      BY <2>2, <3>2 DEF Registered
    <3>3. QED
      BY <1>9, <3>1, <3>2 DEF Mine
  <2>4. \A a, s : SentBy(a, s)' => SentBy(a, s)
    BY <1>9, <2>3 DEF SentBy, Mine, Leaf
  <2>5. QED
    BY <2>1, <2>2, <2>4, CallsSame DEF CallsInv
<1>10. CASE Voting \/ Publish \/ UNCHANGED vars
  <2>1. UNCHANGED <<registering, generated, mempool, registrations>>
    BY <1>10 DEF Voting, Post, VoteFails, Relay, VoteAccepted, DemoMode, Publish, vars
  <2>2. QED
    BY <2>1, CallsGo
<1>11. QED
  BY <1>4, <1>8, <1>9, <1>10 DEF Next

-----------------------------------------------------------------------------
(* Theorems *)

LEMMA TypeIndexStep ==
    ASSUME ClientInv, [Next]_vars
    PROVE  TypeInv' /\ IndexInv'
<1>1. CASE UNCHANGED vars
  <2>1. UNCHANGED <<registrations, published, mempool, selected, storage, page, generated,
                    registering, checks, restoring, voting, backups>>
    BY <1>1 DEF vars, outside, pageCalls
  <2>2. TypeInv'
    BY <2>1 DEF ClientInv, TypeInv
  <2>3. IndexInv'
    BY <2>1 DEF ClientInv, IndexInv, IsRegistered
  <2>4. QED
    BY <2>2, <2>3
<1>2. QED
  BY <1>1, UserTypes, RegistrationTypes, OtherTypes, UserIndex, RegistrationIndex, OtherIndex
     DEF Next

LEMMA ClientInvStep == ClientInv /\ [Next]_vars => ClientInv'
BY TypeIndexStep, HoldersStep, CallsStep, HereStep, CountedStep DEF ClientInv

(* The strengthened invariant the theorems below rest on.                  *)
THEOREM ClientInvariant == Spec => []ClientInv
BY ClientInvInit, ClientInvStep, PTL DEF Spec

(* A receipt is waited for under a secret that was generated.              *)
FailedWaitsInv == failedWaits \subseteq 1..generated

LEMMA FailedWaitsStep == FailedWaitsInv /\ ClientInv /\ [Next]_vars => FailedWaitsInv'
<1> SUFFICES ASSUME FailedWaitsInv, ClientInv, [Next]_vars
             PROVE  FailedWaitsInv'
  OBVIOUS
<1> USE DEF outside, pageCalls
<1>1. generated \in Nat
  BY ClientAssumption DEF ClientInv, TypeInv
<1>2. CASE UNCHANGED generated /\ UNCHANGED failedWaits
  BY <1>2 DEF FailedWaitsInv
<1>3. CASE ClickRegister
  BY <1>1, <1>3 DEF ClickRegister, FailedWaitsInv
<1>4. ASSUME NEW r \in registering, RegisterFails(r)
      PROVE  FailedWaitsInv'
  <2>1. r.secret \in 1..generated
    BY <1>1 DEF ClientInv, TypeInv, CallsInv, RegisterCall, Secret
  <2>2. UNCHANGED generated /\ failedWaits' \subseteq failedWaits \cup {r.secret}
    BY <1>4 DEF RegisterFails
  <2>3. QED
    BY <2>1, <2>2 DEF FailedWaitsInv
<1>5. CASE User
  <2>1. CASE ClickRegister
    BY <1>3, <2>1
  <2>2. CASE User /\ ~ClickRegister
    BY <1>2, <2>2 DEF User, Navigate, Reload, Connect, Disconnect, SetAccount, SelectAccount,
                      Copy, ClearSecret, ClickRestore, ClickVote
  <2>3. QED
    BY <1>5, <2>1, <2>2
<1>6. CASE Registration
  <2>1. CASE \E r \in registering : RegisterFails(r)
    BY <1>4, <2>1
  <2>2. CASE Registration /\ ~\E r \in registering : RegisterFails(r)
    BY <1>2, <2>2 DEF Registration, CheckAnswered, IndexAnswered, CheckFails, Poll, PollAnswered,
                      Send, Confirmed, ConfirmedElsewhere, Restored
  <2>3. QED
    BY <1>6, <2>1, <2>2
<1>7. CASE Voting \/ Publish \/ (\E leaf \in mempool : Mine(leaf)) \/ UNCHANGED vars
  BY <1>2, <1>7 DEF Voting, Post, VoteFails, Relay, VoteAccepted, DemoMode, Publish, Mine, vars
<1>8. QED
  BY <1>5, <1>6, <1>7 DEF Next

LEMMA FailedWaitsInvariant == Spec => []FailedWaitsInv
<1>1. Init => FailedWaitsInv
  BY DEF Init, FailedWaitsInv
<1>2. QED
  BY <1>1, FailedWaitsStep, ClientInvariant, PTL DEF Spec

(***************************************************************************)
(* Every reachable state of the frontend is of its type: a stored index is *)
(* the registry's, and a page has one registration and one vote under way. *)
(***************************************************************************)
THEOREM ClientTypeCorrect == Spec => []ClientTypeOK
<1>1. ASSUME ClientInv, FailedWaitsInv
      PROVE  ClientTypeOK
  <2> USE DEF ClientInv
  <2>1. ASSUME NEW calls, OneHere(calls)
        PROVE  Cardinality({c \in calls : c.here}) <= 1
    <3>1. CASE {c \in calls : c.here} = {}
      BY <3>1, FS_EmptySet
    <3>2. CASE {c \in calls : c.here} # {}
      <4>1. PICK x \in calls : x.here
        BY <3>2
      <4>2. {c \in calls : c.here} = {x}
        BY <2>1, <4>1 DEF OneHere
      <4>3. Cardinality({x}) = 1
        BY FS_Singleton
      <4>4. QED
        BY <4>2, <4>3
    <3>3. QED
      BY <3>1, <3>2
  <2>2. /\ storage.secret \in Secret \cup {NoSecret}
        /\ page.at \in {"register", "vote"}
        /\ page.account \in Account \cup {NoAccount}
    BY <1>1 DEF TypeInv, StorageType, PageType, SomeSecret, SomeAccount
  <2>3. /\ Cardinality({r \in registering : r.here}) <= 1
        /\ Cardinality({v \in voting : v.here}) <= 1
    BY <1>1, <2>1 DEF HereInv
  <2>4. QED
    BY <1>1, <2>2, <2>3 DEF ClientTypeOK, IndexInv, HoldersInv, CallsInv, FailedWaitsInv
<1>2. QED
  BY <1>1, ClientInvariant, FailedWaitsInvariant, PTL

(* A vote shown as submitted was counted with the choice shown, for any    *)
(* number of pages and calls.                                              *)
THEOREM ShownVotesCount == Spec => []ShownVoteIsCounted
<1>1. ClientInv => ShownVoteIsCounted
  BY DEF ClientInv, CountedInv
<1>2. QED
  BY <1>1, ClientInvariant, PTL

(***************************************************************************)
(* No change of page or account loses a secret whose commitment was sent.  *)
(* The calls that drop one end by an error: with one that was sent, the    *)
(* wait for its receipt threw; one that was not has a commitment that      *)
(* nobody else sends, as a secret is generated for one call.               *)
(***************************************************************************)
THEOREM SecretsOutliveThePage == Spec => SecretOutlivesThePage
<1>1. ASSUME ClientInv, [Next]_vars, NEW s \in Secret, Kept(s), ~Kept(s)', Sent(s)'
      PROVE  \/ s \in failedWaits'
             \/ Reload \/ ClearSecret
             \/ storage'.secret \notin {s, NoSecret}
  <2> USE DEF ClientInv, outside, pageCalls
  <2>1. /\ storage \in StorageType /\ registering \in SUBSET RegisterCall
        /\ restoring \in SUBSET RestoreCall
    BY <1>1 DEF TypeInv
  <2>2. /\ storage'.secret # s /\ s \notin backups'
        /\ \A r \in registering' : r.secret # s
    BY <1>1 DEF Kept
  <2>3. storage.secret = s \/ s \in backups \/ \E r \in registering : r.secret = s
    BY <1>1 DEF Kept
  <2>4. PICK a \in Account : SentBy(a, s)'
    BY <1>1 DEF Sent, SentBy, Leaf
  <2>5. CASE /\ backups \subseteq backups' /\ UNCHANGED storage
             /\ \A c \in registering : \E d \in registering' : d.secret = c.secret
    BY <2>2, <2>3, <2>5
  <2>6. CASE User
    <3>1. CASE Navigate
      <4>1. \A c \in registering : [c EXCEPT !.here = FALSE].secret = c.secret
        BY <2>1 DEF RegisterCall
      <4>2. \A c \in registering : [c EXCEPT !.here = FALSE] \in registering'
        BY <3>1 DEF Navigate, Away
      <4>3. QED
        BY <2>5, <3>1, <4>1, <4>2 DEF Navigate
    <3>2. CASE Connect \/ Disconnect \/ SelectAccount \/ ClickRegister \/ Copy \/ ClickRestore
               \/ ClickVote
      BY <2>5, <3>2 DEF Connect, Disconnect, SetAccount, SelectAccount, ClickRegister, Copy,
                        ClickRestore, ClickVote
    <3>3. QED
      BY <2>6, <3>1, <3>2 DEF User
  <2>7. ASSUME NEW r \in registering, Confirmed(r) \/ ConfirmedElsewhere(r)
        PROVE  storage'.secret \notin {s, NoSecret}
    <3>1. storage'.secret = r.secret
      BY <2>1, <2>7 DEF Confirmed, ConfirmedElsewhere, StorageType
    <3>2. r.secret # NoSecret
      BY <2>1 DEF RegisterCall, Secret, NoSecret
    <3>3. QED
      BY <2>2, <3>1, <3>2
  <2>8. ASSUME NEW r \in restoring, Restored(r)
        PROVE  storage'.secret \notin {s, NoSecret}
    <3>1. CASE Registered(Leaf(r.account, r.secret))
      <4>1. storage'.secret = r.secret
        BY <2>1, <2>8, <3>1 DEF Restored, StorageType
      <4>2. r.secret # NoSecret
        BY <2>1 DEF RestoreCall, Secret, NoSecret
      <4>3. QED
        BY <2>2, <4>1, <4>2
    <3>2. CASE ~Registered(Leaf(r.account, r.secret))
      <4>1. UNCHANGED <<storage, backups, registering>>
        BY <2>8, <3>2 DEF Restored
      <4>2. QED
        BY <2>2, <2>3, <4>1
    <3>3. QED
      BY <3>1, <3>2
  <2>9. ASSUME NEW r \in registering, RegisterFails(r)
        PROVE  s \in failedWaits'
    <3>1. /\ registering' = registering \ {r}
          /\ UNCHANGED <<storage, backups, mempool, registrations>>
      BY <2>9 DEF RegisterFails
    <3>2. r.secret = s
      BY <2>2, <2>3, <3>1
    <3>3. SentBy(a, s)
      BY <2>4, <3>1 DEF SentBy, Registered, Leaf
    <3>4. r.pc = "sent"
      BY <1>1, <3>2, <3>3 DEF CallsInv
    <3>5. QED
      BY <2>9, <3>2, <3>4 DEF RegisterFails
  <2>10. ASSUME NEW r \in registering, Send(r)
         PROVE  FALSE
    <3>1. /\ [r EXCEPT !.account = selected, !.pc = "sent"].secret = r.secret
          /\ [r EXCEPT !.account = selected, !.pc = "elsewhere"].secret = r.secret
      BY <2>1 DEF RegisterCall
    <3>2. \E d \in registering' : d.secret = r.secret
      BY <2>10, <3>1 DEF Send
    <3>3. \A c \in registering : c = r \/ c \in registering'
      BY <2>10 DEF Send
    <3>4. QED
      BY <2>5, <2>10, <3>2, <3>3, <2>2, <2>3 DEF Send
  <2>11. CASE \/ Poll
              \/ \E index \in polls : PollAnswered(index)
              \/ \E c \in checks : CheckAnswered(c) \/ IndexAnswered(c) \/ CheckFails(c)
    <3>1. /\ UNCHANGED <<registering, backups>> /\ storage'.secret = storage.secret
      BY <2>1, <2>11 DEF Poll, PollAnswered, CheckAnswered, IndexAnswered, CheckFails, StorageType
    <3>2. QED
      BY <2>2, <2>3, <3>1
  <2>12. CASE Registration
    BY <2>7, <2>8, <2>9, <2>10, <2>11, <2>12 DEF Registration
  <2>13. CASE Voting \/ Publish \/ (\E leaf \in mempool : Mine(leaf)) \/ UNCHANGED vars
    <3>1. UNCHANGED <<registering, backups, storage>>
      BY <2>13 DEF Voting, Post, VoteFails, Relay, VoteAccepted, DemoMode, Publish, Mine, vars
    <3>2. QED
      BY <2>2, <2>3, <3>1
  <2>14. QED
    BY <1>1, <2>6, <2>12, <2>13 DEF Next
<1>2. ClientInv /\ [Next]_vars =>
          [\A s \in Secret :
              (Kept(s) /\ ~Kept(s)' /\ Sent(s)') =>
                  \/ s \in failedWaits'
                  \/ Reload \/ ClearSecret
                  \/ storage'.secret \notin {s, NoSecret}]_vars
  BY <1>1
<1>3. QED
  BY <1>2, ClientInvariant, PTL DEF Spec, SecretOutlivesThePage

-----------------------------------------------------------------------------
(* The right network *)

OnNetworkInv ==
    /\ \A r \in registering : r.pc # "elsewhere"
    /\ StoredSecretIsRegistered

LEMMA OnNetworkSame ==
    ASSUME OnNetworkInv, storage'.secret \in {storage.secret, NoSecret},
           \A d \in registering' : d.pc = "elsewhere" => \E c \in registering : c.pc = "elsewhere",
           \A x : Registered(x) => Registered(x)'
    PROVE  OnNetworkInv'
BY DEF OnNetworkInv, StoredSecretIsRegistered, Leaf

LEMMA OnNetworkStep ==
    ASSUME ~WalletElsewhere, ClientInv, OnNetworkInv, [Next]_vars
    PROVE  OnNetworkInv'
<1> USE DEF ClientInv, outside, pageCalls
<1>1. /\ storage \in StorageType /\ registering \in SUBSET RegisterCall
      /\ restoring \in SUBSET RestoreCall /\ registrations \in Seq(LeafType)
  BY DEF TypeInv
<1>2. ASSUME UNCHANGED registrations
      PROVE  \A x : Registered(x) => Registered(x)'
  BY <1>2 DEF Registered
<1>3. ASSUME registering' \subseteq registering, UNCHANGED registrations,
             storage'.secret \in {storage.secret, NoSecret}
      PROVE  OnNetworkInv'
  BY <1>2, <1>3, OnNetworkSame
<1>4. ASSUME registering' \subseteq registering, UNCHANGED registrations,
             NEW a \in Account, NEW s, s = storage'.secret, Registered(Leaf(a, s))
      PROVE  OnNetworkInv'
  <2>1. \E i \in 1..Len(registrations') : registrations'[i] = Leaf(a, s)
    BY <1>4 DEF Registered
  <2>2. StoredSecretIsRegistered'
    BY <1>4, <2>1 DEF StoredSecretIsRegistered, Registered, Leaf
  <2>3. \A r \in registering' : r.pc # "elsewhere"
    BY <1>4 DEF OnNetworkInv
  <2>4. QED
    BY <2>2, <2>3 DEF OnNetworkInv
<1>5. CASE Navigate
  <2>1. \A d \in registering' : \E c \in registering : d.pc = c.pc
    BY <1>1, <1>5, AwayCalls DEF Navigate
  <2>2. QED
    BY <1>2, <1>5, <2>1, OnNetworkSame DEF Navigate
<1>6. CASE Reload
  <2>1. registering' = {} /\ UNCHANGED <<storage, registrations>>
    BY <1>6 DEF Reload, Loaded
  <2>2. QED
    BY <1>3, <2>1
<1>7. CASE ClearSecret
  <2>1. registering' = {} /\ UNCHANGED registrations /\ storage'.secret = NoSecret
    BY <1>1, <1>7 DEF ClearSecret, Loaded, StorageType
  <2>2. QED
    BY <1>3, <2>1
<1>8. CASE ClickRegister
  <2>1. /\ \A d \in registering' : d \in registering \/ d.pc = "generated"
        /\ UNCHANGED <<storage, registrations>>
    BY <1>8 DEF ClickRegister
  <2>2. QED
    BY <1>2, <2>1, OnNetworkSame
<1>9. CASE Connect \/ Disconnect \/ SelectAccount \/ Copy \/ ClickRestore \/ ClickVote
  <2>1. UNCHANGED <<registering, storage, registrations>>
    BY <1>9 DEF Connect, Disconnect, SetAccount, SelectAccount, Copy, ClickRestore, ClickVote
  <2>2. QED
    BY <1>3, <2>1
<1>10. CASE User
  BY <1>5, <1>6, <1>7, <1>8, <1>9, <1>10 DEF User
<1>11. ASSUME NEW r \in registering, Send(r)
       PROVE  OnNetworkInv'
  <2>1. [r EXCEPT !.account = selected, !.pc = "sent"].pc = "sent"
    BY <1>1 DEF RegisterCall
  <2>2. \A d \in registering' : d \in registering \/ d.pc = "sent"
    BY <1>11, <2>1 DEF Send
  <2>3. UNCHANGED <<storage, registrations>>
    BY <1>11 DEF Send
  <2>4. QED
    BY <1>2, <2>2, <2>3, OnNetworkSame
<1>12. ASSUME NEW r \in registering, Confirmed(r)
       PROVE  OnNetworkInv'
  <2>1. /\ storage'.secret = r.secret /\ r.account \in Account
        /\ registering' \subseteq registering /\ UNCHANGED registrations
        /\ Registered(Leaf(r.account, r.secret))
    BY <1>12 DEF Confirmed, CallsInv
  <2>2. QED
    BY <1>4, <2>1
<1>13. ASSUME NEW r \in registering, ConfirmedElsewhere(r)
       PROVE  OnNetworkInv'
  BY <1>13 DEF ConfirmedElsewhere, OnNetworkInv
<1>14. ASSUME NEW r \in restoring, Restored(r)
       PROVE  OnNetworkInv'
  <2>1. CASE Registered(Leaf(r.account, r.secret))
    <3>1. /\ storage'.secret = r.secret /\ r.account \in Account
          /\ registering' \subseteq registering /\ UNCHANGED registrations
      BY <1>1, <1>14, <2>1 DEF Restored, Loaded, StorageType, RestoreCall
    <3>2. QED
      BY <1>4, <2>1, <3>1
  <2>2. CASE ~Registered(Leaf(r.account, r.secret))
    <3>1. UNCHANGED <<registering, storage, registrations>>
      BY <1>14, <2>2 DEF Restored
    <3>2. QED
      BY <1>3, <3>1
  <2>3. QED
    BY <2>1, <2>2
<1>15. CASE \/ Poll
            \/ \E index \in polls : PollAnswered(index)
            \/ \E c \in checks : CheckAnswered(c) \/ IndexAnswered(c) \/ CheckFails(c)
            \/ \E r \in registering : RegisterFails(r)
  <2>1. /\ registering' \subseteq registering /\ UNCHANGED registrations
        /\ storage'.secret = storage.secret
    BY <1>1, <1>15 DEF Poll, PollAnswered, CheckAnswered, IndexAnswered, CheckFails,
                       RegisterFails, StorageType
  <2>2. QED
    BY <1>3, <2>1
<1>16. CASE Registration
  BY <1>11, <1>12, <1>13, <1>14, <1>15, <1>16 DEF Registration
<1>17. ASSUME NEW leaf \in mempool, Mine(leaf)
       PROVE  OnNetworkInv'
  <2>1. \A x : Registered(x) => Registered(x)'
    <3>1. CASE registrations' = Append(registrations, leaf)
      BY <1>1, <3>1 DEF Registered
    <3>2. QED
      BY <1>2, <1>17, <3>1 DEF Mine
  <2>2. QED
    BY <1>17, <2>1, OnNetworkSame DEF Mine
<1>18. CASE Voting \/ Publish \/ UNCHANGED vars
  <2>1. UNCHANGED <<registering, storage, registrations>>
    BY <1>18 DEF Voting, Post, VoteFails, Relay, VoteAccepted, DemoMode, Publish, vars
  <2>2. QED
    BY <1>3, <2>1
<1>19. QED
  BY <1>10, <1>16, <1>17, <1>18 DEF Next

(***************************************************************************)
(* As long as the wallet stays on the registry's network, the secret that  *)
(* is stored is that of a registration: the network is all that is missing *)
(* from what the Register page says of it.                                 *)
(***************************************************************************)
THEOREM StoredOnRightNetwork ==
    ASSUME ~WalletElsewhere
    PROVE  Spec => []StoredSecretIsRegistered
<1>1. Init => OnNetworkInv
  BY DEF Init, OnNetworkInv, StoredSecretIsRegistered
<1>2. ClientInv /\ OnNetworkInv /\ [Next]_vars => OnNetworkInv'
  BY OnNetworkStep
<1>3. OnNetworkInv => StoredSecretIsRegistered
  BY DEF OnNetworkInv
<1>4. QED
  BY <1>1, <1>2, <1>3, ClientInvariant, PTL DEF Spec

=============================================================================
