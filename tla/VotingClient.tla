---------------------------- MODULE VotingClient -----------------------------
(***************************************************************************)
(* The frontend of one browser, used with the accounts of one wallet: the  *)
(* wallet hook, the Register page with useRegistration, the Vote page with *)
(* useVoting, and the two storage keys all accounts share                  *)
(* (frontend/src/hooks, pages and lib).                                    *)
(*                                                                         *)
(* A step is what runs between two awaits.  An operation goes on when its  *)
(* page is left: it is then no longer "here", and what it sets of the page *)
(* is lost, but not what it writes to the storage.  A reload ends it.      *)
(*                                                                         *)
(* The indexer publishes the ownership tree (OwnershipIndexer); the        *)
(* proposal is registered and has its snapshot (ProposalSync,              *)
(* BalancesIndexer); the relayer is that of Relayer.                       *)
(***************************************************************************)
EXTENDS PrivateVoteCircuit, FiniteSets

CONSTANTS
    Account,
    NoAccount,
    MaxSecrets,         \* bounds the secrets generated, which are 1, 2, ...
    MaxMoves,           \* bounds the user's page loads and changes of account
    ProposalId,         \* the proposal voted on
    Choice,
    BalancesRoot,       \* the snapshot for it
    WalletElsewhere     \* whether the wallet may be on another network

ASSUME ClientAssumption ==
    /\ NoAccount \notin Account
    /\ MaxSecrets \in Nat /\ MaxMoves \in Nat
    /\ Choice \subseteq 0..2
    /\ WalletElsewhere \in BOOLEAN

Secret   == 1..MaxSecrets
NoSecret == 0           \* no item under the key
NoIndex  == -1

VARIABLES
    registrations,  \* of VotingRegistry
    published,      \* latestOwnershipRegCount: leaves in the tree published
    mempool,        \* registrations not mined yet
    counted,        \* [nullifier, choice] counted by VotingBooth
    failedWaits,    \* secrets whose registration's receipt the node failed to give
    selected,       \* the account selected in the wallet
    storage,        \* localStorage: [secret, index]
    page,           \* what the page mounted shows
    generated,      \* secrets generated so far
    moves,          \* page loads and changes of account so far
    registering,    \* calls of register under way
    checks,         \* calls of checkRegistration under way
    polls,          \* indices the calls of checkTree under way are for
    restoring,      \* calls of handleRestoreSecret under way
    voting,         \* calls of vote under way
    backups         \* secrets the user copied

outside   == <<registrations, published, mempool, counted, failedWaits>>
pageCalls == <<checks, polls>>
vars == <<outside, selected, storage, page, generated, moves, registering, pageCalls, restoring,
          voting, backups>>

Leaf(account, secret) == OwnershipLeaf(account, CommitmentOf(secret))
IsRegistered(account) == \E i \in 1..Len(registrations) : registrations[i].account = account
IndexOf(account) ==
    (CHOOSE i \in 1..Len(registrations) : registrations[i].account = account) - 1
Registered(leaf) == \E i \in 1..Len(registrations) : registrations[i] = leaf

Move == moves < MaxMoves /\ moves' = moves + 1

Away(calls) == {[c EXCEPT !.here = FALSE] : c \in calls}

ClientTypeOK ==
    /\ published \in 0..Len(registrations)
    /\ \A i, j \in 1..Len(registrations) :
          registrations[i].account = registrations[j].account => i = j
    /\ storage.secret \in Secret \cup {NoSecret}
    /\ storage.index \in {NoIndex} \cup 0..(Len(registrations) - 1)
    /\ page.at \in {"register", "vote"}
    /\ page.account \in Account \cup {NoAccount}
    /\ page.polling # NoIndex => page.polling < Len(registrations) /\ ~page.ready
    /\ \A r \in registering : r.secret <= generated
    /\ Cardinality({r \in registering : r.here}) <= 1
    /\ Cardinality({v \in voting : v.here}) <= 1
    /\ backups \subseteq 1..generated
    /\ failedWaits \subseteq 1..generated

-----------------------------------------------------------------------------
(* The pages *)

(***************************************************************************)
(* A page as mounted with account, before any answer.  The effects of      *)
(* useRegistration start a check of the account and, after it, polling for *)
(* the stored index.                                                       *)
(***************************************************************************)
Page(at, account, store) ==
    [at |-> at, account |-> account, isRegistered |-> FALSE,
     hasStoredSecret |-> store.secret # NoSecret, registrationIndex |-> store.index,
     ready |-> FALSE, polling |-> IF at = "register" THEN store.index ELSE NoIndex,
     secret |-> NoSecret, txHash |-> FALSE, hasVoted |-> FALSE, vote |-> <<>>]

Check(account) == [account |-> account, here |-> TRUE, pc |-> "registered"]

Mount(at, account, store) ==
    /\ page' = Page(at, account, store)
    /\ checks' = Away(checks) \cup
           IF at = "register" /\ account # NoAccount THEN {Check(account)} ELSE {}
    /\ polls' = {page'.polling} \ {NoIndex}

Init ==
    /\ registrations = <<>> /\ published = 0 /\ mempool = {} /\ counted = {} /\ failedWaits = {}
    /\ selected \in Account
    /\ storage = [secret |-> NoSecret, index |-> NoIndex]
    /\ page = Page("register", NoAccount, storage)
    /\ generated = 0 /\ moves = 0
    /\ registering = {} /\ checks = {} /\ polls = {} /\ restoring = {} /\ voting = {}
    /\ backups = {}

(* A link of the app: the account of the wallet hook stays.                *)
Navigate ==
    /\ Move
    /\ \E at \in {"register", "vote"} : Mount(at, page.account, storage)
    /\ registering' = Away(registering)
    /\ voting' = Away(voting)
    /\ restoring' = {[r EXCEPT !.here = FALSE] : r \in restoring}
    /\ UNCHANGED <<outside, selected, storage, generated, backups>>

(* The document is loaded anew and every call under way ends; a vote       *)
(* already posted is with the relayer.                                     *)
Loaded(at, store) ==
    /\ page' = Page(at, NoAccount, store)
    /\ checks' = {}
    /\ polls' = {page'.polling} \ {NoIndex}
    /\ registering' = {} /\ restoring' = {}
    /\ voting' = Away({v \in voting : v.pc = "posted"})

Reload ==
    /\ Move
    /\ \E at \in {"register", "vote"} : Loaded(at, storage)
    /\ UNCHANGED <<outside, selected, storage, generated, backups>>

-----------------------------------------------------------------------------
(* The wallet *)

(* setAccount.  When the account changes on the Register page, polling is  *)
(* stopped and the account is checked; answers on their way still come.    *)
SetAccount(account) ==
    /\ Move
    /\ account # page.account
    /\ IF page.at = "register"
       THEN /\ page' = [Page("register", account, storage) EXCEPT
                           !.polling = NoIndex,
                           !.isRegistered = account # NoAccount /\ page.isRegistered]
            /\ checks' = checks \cup IF account = NoAccount THEN {} ELSE {Check(account)}
       ELSE page' = [page EXCEPT !.account = account] /\ UNCHANGED checks
    /\ UNCHANGED <<outside, storage, generated, registering, polls, restoring, voting, backups>>

(* connect, accountsChanged, and the reconnection on mount.                *)
Connect    == SetAccount(selected) /\ UNCHANGED selected
Disconnect == SetAccount(NoAccount) /\ UNCHANGED selected

SelectAccount ==
    /\ Move
    /\ selected' \in Account \ {selected}
    /\ UNCHANGED <<outside, storage, page, generated, registering, pageCalls, restoring,
                   voting, backups>>

-----------------------------------------------------------------------------
(* useRegistration *)

(* isRegistered is answered; when no index is stored it is looked up.      *)
CheckAnswered(c) ==
    /\ c \in checks /\ c.pc = "registered"
    /\ page' = IF c.here THEN [page EXCEPT !.isRegistered = IsRegistered(c.account)] ELSE page
    /\ checks' = (checks \ {c}) \cup
           IF IsRegistered(c.account) /\ storage.index = NoIndex
           THEN {[c EXCEPT !.pc = "index"]} ELSE {}
    /\ UNCHANGED <<outside, selected, storage, generated, registering, polls, restoring,
                   voting, moves, backups>>

StartTreePolling(p, index) ==
    [p EXCEPT !.registrationIndex = index, !.ready = FALSE, !.polling = index]

IndexAnswered(c) ==
    LET index == IndexOf(c.account)
    IN  /\ c \in checks /\ c.pc = "index"
        /\ checks' = checks \ {c}
        /\ storage' = [storage EXCEPT !.index = index]
        /\ IF c.here
           THEN page' = StartTreePolling(page, index) /\ polls' = polls \cup {index}
           ELSE UNCHANGED <<page, polls>>
        /\ UNCHANGED <<outside, selected, generated, registering, restoring, voting, moves, backups>>

(* The calls of a check fail and are not repeated.                         *)
CheckFails(c) ==
    /\ c \in checks
    /\ checks' = checks \ {c}
    /\ UNCHANGED <<outside, selected, storage, page, generated, registering, polls,
                   restoring, voting, moves, backups>>

(* The interval has passed.                                                *)
Poll ==
    /\ page.polling # NoIndex
    /\ page.polling \notin polls
    /\ polls' = polls \cup {page.polling}
    /\ UNCHANGED <<outside, selected, storage, page, generated, registering, checks,
                   restoring, voting, moves, backups>>

(* Mutant: one registration more is waited for.                            *)
PollAnsweredLate(index) ==
    /\ index \in polls
    /\ polls' = polls \ {index}
    /\ page' = IF published > index + 1
               THEN [page EXCEPT !.ready = TRUE, !.polling = NoIndex] ELSE page
    /\ UNCHANGED <<outside, selected, storage, generated, registering, checks, restoring,
                   voting, moves, backups>>

(* latestOwnershipRegCount is answered to a call made for index, whatever  *)
(* the page polls for by now.                                              *)
PollAnswered(index) ==
    /\ index \in polls
    /\ polls' = polls \ {index}
    /\ page' = IF published > index
               THEN [page EXCEPT !.ready = TRUE, !.polling = NoIndex] ELSE page
    /\ UNCHANGED <<outside, selected, storage, generated, registering, checks, restoring,
                   voting, moves, backups>>

(* Mutant: the button stays enabled while a registration is under way.     *)
OffersRegistrationAlways ==
    /\ page.at = "register" /\ page.account # NoAccount
    /\ ~page.isRegistered
    /\ page.secret = NoSecret /\ ~page.txHash

(* The button of step 3.                                                   *)
OffersRegistration ==
    /\ page.at = "register" /\ page.account # NoAccount
    /\ ~page.isRegistered
    /\ page.secret = NoSecret /\ ~page.txHash
    /\ \A r \in registering : ~r.here

ClickRegister ==
    /\ OffersRegistration
    /\ generated < MaxSecrets
    /\ generated' = generated + 1
    /\ registering' = registering \cup
           {[secret |-> generated', account |-> NoAccount, here |-> TRUE, pc |-> "generated"]}
    /\ UNCHANGED <<outside, selected, storage, page, pageCalls, restoring, voting, moves, backups>>

(* The wallet signs with the account selected by now, and sends to the     *)
(* network it is on, which is not compared with the expected one.  A       *)
(* registration that would revert is not sent.                             *)
Send(r) ==
    /\ r \in registering /\ r.pc = "generated"
    /\ \/ /\ ~IsRegistered(selected)
          /\ mempool' = mempool \cup {Leaf(selected, r.secret)}
          /\ registering' = (registering \ {r}) \cup
                 {[r EXCEPT !.account = selected, !.pc = "sent"]}
       \/ /\ WalletElsewhere
          /\ registering' = (registering \ {r}) \cup
                 {[r EXCEPT !.account = selected, !.pc = "elsewhere"]}
          /\ UNCHANGED mempool
    /\ page' = IF r.here THEN [page EXCEPT !.txHash = TRUE] ELSE page
    /\ UNCHANGED <<registrations, published, counted, failedWaits, selected, storage, generated,
                   pageCalls, restoring, voting, moves, backups>>

(***************************************************************************)
(* It is refused by the user, or would revert; or the wait for the receipt *)
(* throws: it reverted, the node did not answer, or the wallet sent it     *)
(* anew for a higher fee, and it may be pending or mined all the same.     *)
(***************************************************************************)
RegisterFails(r) ==
    /\ r \in registering
    /\ registering' = registering \ {r}
    /\ failedWaits' = IF r.pc = "generated" THEN failedWaits ELSE failedWaits \cup {r.secret}
    /\ UNCHANGED <<registrations, published, mempool, counted, selected, storage, page, generated,
                   pageCalls, restoring, voting, moves, backups>>

(* Mutant: nothing is stored once the page is left.                        *)
ConfirmedHere(r) ==
    /\ r \in registering /\ r.pc = "sent"
    /\ Registered(Leaf(r.account, r.secret))
    /\ registering' = registering \ {r}
    /\ IF r.here
       THEN /\ storage' = [secret |-> r.secret, index |-> IndexOf(r.account)]
            /\ page' = [StartTreePolling(page, storage'.index) EXCEPT
                           !.isRegistered = TRUE, !.hasStoredSecret = TRUE, !.secret = r.secret]
            /\ polls' = polls \cup {storage'.index}
       ELSE UNCHANGED <<storage, page, polls>>
    /\ UNCHANGED <<outside, selected, generated, checks, restoring, voting, moves, backups>>

(* The receipt.  The secret is stored, whoever's was stored before.        *)
Confirmed(r) ==
    /\ r \in registering /\ r.pc = "sent"
    /\ Registered(Leaf(r.account, r.secret))
    /\ registering' = registering \ {r}
    /\ storage' = [secret |-> r.secret, index |-> IndexOf(r.account)]
    /\ IF r.here
       THEN /\ page' = [StartTreePolling(page, storage'.index) EXCEPT
                           !.isRegistered = TRUE, !.hasStoredSecret = TRUE, !.secret = r.secret]
            /\ polls' = polls \cup {storage'.index}
       ELSE UNCHANGED <<page, polls>>
    /\ UNCHANGED <<outside, selected, generated, checks, restoring, voting, moves, backups>>

(* The receipt of another network has no Registered event, but a status    *)
(* that is fine: there is no contract that could have reverted.            *)
ConfirmedElsewhere(r) ==
    /\ r \in registering /\ r.pc = "elsewhere"
    /\ registering' = registering \ {r}
    /\ storage' = [storage EXCEPT !.secret = r.secret]
    /\ page' = IF r.here
               THEN [page EXCEPT !.isRegistered = TRUE, !.registrationIndex = NoIndex,
                                 !.hasStoredSecret = TRUE, !.secret = r.secret]
               ELSE page
    /\ UNCHANGED <<outside, selected, generated, pageCalls, restoring, voting, moves, backups>>

-----------------------------------------------------------------------------
(* The Register page's handling of the secret *)

(* handleCopy, of the secret just generated or the one stored.             *)
Copy ==
    /\ page.at = "register"
    /\ \E s \in {page.secret, storage.secret} \ {NoSecret} : backups' = backups \cup {s}
    /\ UNCHANGED <<outside, selected, storage, page, generated, registering, pageCalls,
                   restoring, voting, moves>>

(* handleClearSecret: the index stays.                                     *)
ClearSecret ==
    /\ page.at = "register"
    /\ storage.secret # NoSecret /\ page.secret = NoSecret
    /\ storage' = [storage EXCEPT !.secret = NoSecret]
    /\ Loaded("register", storage')
    /\ UNCHANGED <<outside, selected, generated, moves, backups>>

(* The form offered to a registered account without a stored secret.       *)
ClickRestore ==
    /\ page.at = "register" /\ page.account # NoAccount
    /\ page.isRegistered /\ ~page.hasStoredSecret
    /\ \A r \in restoring : ~r.here
    /\ \E s \in backups :
          restoring' = restoring \cup {[account |-> page.account, secret |-> s, here |-> TRUE]}
    /\ UNCHANGED <<outside, selected, storage, page, generated, registering, pageCalls, voting,
                   moves, backups>>

(* The registrations are answered: the secret is stored if it is the one   *)
(* the account committed to.                                               *)
Restored(r) ==
    /\ r \in restoring
    /\ IF Registered(Leaf(r.account, r.secret))
       THEN /\ storage' = [storage EXCEPT !.secret = r.secret]
            /\ Loaded(page.at, storage')
       ELSE /\ restoring' = restoring \ {r}
            /\ UNCHANGED <<storage, page, pageCalls, registering, voting>>
    /\ UNCHANGED <<outside, selected, generated, moves, backups>>

-----------------------------------------------------------------------------
(* useVoting *)

OffersVote ==
    /\ page.at = "vote" /\ page.account # NoAccount
    /\ storage.secret # NoSecret
    /\ ~page.hasVoted
    /\ \A v \in voting : ~v.here

(* The second click on the form.                                           *)
ClickVote ==
    /\ OffersVote
    /\ \E choice \in Choice :
          voting' = voting \cup
              {[secret |-> storage.secret, account |-> page.account, choice |-> choice,
                here |-> TRUE, pc |-> "proof"]}
    /\ UNCHANGED <<outside, selected, storage, page, generated, registering, pageCalls,
                   restoring, moves, backups>>

PublishedRoot == SubSeq(registrations, 1, published)

CanProve(v) ==
    \E tier \in 0..(Len(ClientTiers) - 1) :
        GeneratesVoteProof(v.account, v.secret,
            VoteInputs(v.secret, PublishedRoot, BalancesRoot, ProposalId, v.choice, tier))

(* generateVoteProof, then the proof is posted.                            *)
Post(v) ==
    /\ v \in voting /\ v.pc = "proof"
    /\ CanProve(v)
    /\ voting' = (voting \ {v}) \cup {[v EXCEPT !.pc = "posted"]}
    /\ UNCHANGED <<outside, selected, storage, page, generated, registering, pageCalls,
                   restoring, moves, backups>>

(* Something throws: trees are not downloaded, the account is not in one   *)
(* of them or has committed to another secret, or the relayer refused.     *)
VoteFails(v) ==
    /\ v \in voting /\ v.pc \in {"proof", "refused"}
    /\ voting' = voting \ {v}
    /\ UNCHANGED <<outside, selected, storage, page, generated, registering, pageCalls,
                   restoring, moves, backups>>

Vote(v) == [nullifier |-> NullifierOf(v.secret, ProposalId), choice |-> v.choice]

(***************************************************************************)
(* The relayer has the vote counted, or refuses it; it may fail to see     *)
(* that it was counted.  A vote counted after such an answer (VoteRelay)   *)
(* is counted with it here: nothing in the browser can tell.               *)
(***************************************************************************)
Relay(v) ==
    /\ v \in voting /\ v.pc = "posted"
    /\ \E answer \in {"accepted", "refused"} :
          /\ voting' = (voting \ {v}) \cup {[v EXCEPT !.pc = answer]}
          /\ \/ /\ \A c \in counted : c.nullifier # Vote(v).nullifier
                /\ counted' = counted \cup {Vote(v)}
             \/ answer = "refused" /\ UNCHANGED counted
    /\ UNCHANGED <<registrations, published, mempool, failedWaits, selected, storage, page,
                   generated, registering, pageCalls, restoring, moves, backups>>

(* Mutant: any answer of the relayer will do.                              *)
VoteAcceptedUnchecked(v) ==
    /\ v \in voting /\ v.pc \in {"accepted", "refused"}
    /\ voting' = voting \ {v}
    /\ page' = IF v.here THEN [page EXCEPT !.hasVoted = TRUE, !.vote = <<Vote(v)>>] ELSE page
    /\ UNCHANGED <<outside, selected, storage, generated, registering, pageCalls, restoring,
                   moves, backups>>

VoteAccepted(v) ==
    /\ v \in voting /\ v.pc = "accepted"
    /\ voting' = voting \ {v}
    /\ page' = IF v.here THEN [page EXCEPT !.hasVoted = TRUE, !.vote = <<Vote(v)>>] ELSE page
    /\ UNCHANGED <<outside, selected, storage, generated, registering, pageCalls, restoring,
                   moves, backups>>

(* fetch fails, before the request arrived or after: a vote is shown that  *)
(* names no transaction of the chain.                                      *)
DemoMode(v) ==
    /\ v \in voting /\ v.pc \in {"posted", "accepted", "refused"}
    /\ voting' = voting \ {v}
    /\ page' = IF v.here THEN [page EXCEPT !.hasVoted = TRUE] ELSE page
    /\ UNCHANGED <<outside, selected, storage, generated, registering, pageCalls, restoring,
                   moves, backups>>

-----------------------------------------------------------------------------
(* The chain and the indexer *)

(* The registry takes one registration of an account, or reverts.          *)
Mine(leaf) ==
    /\ leaf \in mempool
    /\ mempool' = mempool \ {leaf}
    /\ registrations' = IF IsRegistered(leaf.account) THEN registrations
                        ELSE Append(registrations, leaf)
    /\ UNCHANGED <<published, counted, failedWaits, selected, storage, page, generated,
                   registering, pageCalls, restoring, voting, moves, backups>>

Publish ==
    /\ published < Len(registrations)
    /\ published' = Len(registrations)
    /\ UNCHANGED <<registrations, mempool, counted, failedWaits, selected, storage, page,
                   generated, registering, pageCalls, restoring, voting, moves, backups>>

User ==
    Navigate \/ Reload \/ Connect \/ Disconnect \/ SelectAccount \/ ClickRegister
    \/ Copy \/ ClearSecret \/ ClickRestore \/ ClickVote

Registration ==
    \/ \E c \in checks : CheckAnswered(c) \/ IndexAnswered(c) \/ CheckFails(c)
    \/ Poll
    \/ \E index \in polls : PollAnswered(index)
    \/ \E r \in registering : Send(r) \/ RegisterFails(r) \/ Confirmed(r) \/ ConfirmedElsewhere(r)
    \/ \E r \in restoring : Restored(r)

Voting ==
    \E v \in voting : Post(v) \/ VoteFails(v) \/ Relay(v) \/ VoteAccepted(v) \/ DemoMode(v)

Next == User \/ Registration \/ Voting \/ Publish \/ \E leaf \in mempool : Mine(leaf)

(* The chain, the indexer and the node answer; the timer of a poll fires.  *)
Fairness ==
    /\ WF_vars(Publish)
    /\ WF_vars(Poll)
    /\ \A index \in 0..(MaxSecrets - 1) : WF_vars(PollAnswered(index))

Spec == Init /\ [][Next]_vars /\ Fairness

-----------------------------------------------------------------------------
(* Properties *)

(***************************************************************************)
(* The Register page tells of "a secret stored in this browser from a      *)
(* previous registration" (pages/Register.tsx:443): what is stored opens a *)
(* commitment of the registry.                                             *)
(***************************************************************************)
StoredSecretIsRegistered ==
    storage.secret # NoSecret =>
        \E account \in Account : Registered(Leaf(account, storage.secret))

Kept(s) == storage.secret = s \/ s \in backups \/ \E r \in registering : r.secret = s

Sent(s) == \E account \in Account :
    Leaf(account, s) \in mempool \/ Registered(Leaf(account, s))

(***************************************************************************)
(* A secret whose commitment was sent to the registry, where no other can  *)
(* take its place, outlives the page it was generated on: leaving it or    *)
(* switching accounts while the registration is under way does not lose    *)
(* the secret.  It is lost when the wait for the receipt throws, when the  *)
(* tab is reloaded during the registration, when the user clears it, or    *)
(* when another secret is stored (useRegistration.ts:186-224,              *)
(* secret-storage.ts:9).                                                   *)
(***************************************************************************)
SecretOutlivesThePage ==
    [][\A s \in Secret :
          (Kept(s) /\ ~Kept(s)' /\ Sent(s)') =>
              \/ s \in failedWaits'
              \/ Reload \/ ClearSecret
              \/ storage'.secret \notin {s, NoSecret}]_vars

(***************************************************************************)
(* A vote the page shows as submitted, other than in demo mode, was        *)
(* counted, and with the choice shown, however many calls for the same     *)
(* proposal were under way (useVoting.ts:147-152).                         *)
(***************************************************************************)
ShownVoteIsCounted ==
    page.vote # <<>> => page.hasVoted /\ page.vote[1] \in counted

(***************************************************************************)
(* Who has just registered and stays is told that the tree includes the    *)
(* registration (useRegistration.ts:76-107).                               *)
(***************************************************************************)
InclusionIsShown ==
    (page.secret # NoSecret /\ page.registrationIndex # NoIndex)
        ~> (page.ready \/ page.secret = NoSecret)

=============================================================================
