----------------------------- MODULE WalletView -----------------------------
(***************************************************************************)
(* What a page shows of the wallet: the accounts of the provider that      *)
(* WalletProviderRef holds (evm/src/wallet/service.ts, provider-ref.ts),   *)
(* through the hook that runs the stream                                   *)
(* (integrations/react-hooks/primitives/use-stream.ts).  The stream of     *)
(* chain ids has the same steps.                                           *)
(*                                                                         *)
(* Outside the code are the wallets, whose answers and events come in the  *)
(* order they were sent, and React, which renders, renders with another    *)
(* stream, and unmounts.  switchMap may have taken values of the inner     *)
(* stream it leaves, and still passes them on.                             *)
(***************************************************************************)
EXTENDS Integers, Sequences

CONSTANTS
    Wallets,      \* providers
    MaxAccounts,  \* bound on changes of a wallet's accounts
    MaxSets,      \* bound on set and clear
    MaxRuns       \* bound on runs of the hook's effect

NoWallet == [wallet |-> "none"]

ASSUME WalletAssumption ==
    {MaxAccounts, MaxSets, MaxRuns} \subseteq Nat /\ NoWallet \notin Wallets

NoAccounts == -1
NotYet == -2      \* the snapshot of a stream that has not emitted

VARIABLES
    accounts,   \* each wallet's accounts: the number of the change, by wallet
    provider,   \* the reference
    sets,       \* history: set and clear so far
    mounted,
    hookRun,    \* the last run of the hook's effect
    scoping,    \* runs that await makeScopedRun
    streaming,  \* the run whose stream is subscribed, 0 for none
    refChanges, \* values of the reference that switchMap has not seen
    inner,      \* the provider of the inner stream
    requested,  \* eth_accounts is under way
    wire,       \* what the provider has sent and the page not handled
    inbox,      \* the queue of the inner stream
    out,        \* what switchMap has taken
    snapshot,   \* the hook's store: the run that wrote it, and its value
    unanswered  \* history: the inner stream's request failed

hookVars == <<mounted, hookRun, scoping, streaming>>
innerVars == <<inner, requested, wire, inbox, unanswered>>
viewVars == <<accounts, provider, sets, hookVars, refChanges, innerVars, out, snapshot>>

Starting(r) == [run |-> r, value |-> NotYet]

WalletInit ==
    /\ accounts = [w \in Wallets |-> 0]
    /\ provider = NoWallet /\ sets = 0
    /\ mounted = FALSE /\ hookRun = 0 /\ scoping = {} /\ streaming = 0
    /\ refChanges = <<>> /\ out = <<>>
    /\ inner = NoWallet /\ requested = FALSE /\ wire = <<>> /\ inbox = <<>> /\ unanswered = FALSE
    /\ snapshot = Starting(0)

(* The listener is registered in the step that makes the request. *)
AccountsChange(w) ==
    /\ accounts[w] < MaxAccounts
    /\ accounts' = [accounts EXCEPT ![w] = @ + 1]
    /\ wire' = IF inner = w THEN Append(wire, accounts'[w]) ELSE wire
    /\ UNCHANGED <<provider, sets, hookVars, refChanges, inner, requested, inbox, unanswered, out, snapshot>>

(* The wallet answers eth_accounts, or fails: then there are no accounts. *)
Answers ==
    /\ requested /\ requested' = FALSE
    /\ \/ wire' = Append(wire, accounts[inner]) /\ UNCHANGED unanswered
       \/ wire' = Append(wire, NoAccounts) /\ unanswered' = TRUE
    /\ UNCHANGED <<accounts, provider, sets, hookVars, refChanges, inner, inbox, out, snapshot>>

(* The page handles an answer or an event: a value for the inner stream. *)
Handles ==
    /\ wire # <<>>
    /\ inbox' = Append(inbox, Head(wire)) /\ wire' = Tail(wire)
    /\ UNCHANGED <<accounts, provider, sets, hookVars, refChanges, inner, requested, unanswered, out, snapshot>>

SetProvider ==
    /\ sets < MaxSets /\ sets' = sets + 1
    /\ provider' \in Wallets \union {NoWallet}
    /\ refChanges' = IF streaming # 0 THEN Append(refChanges, provider') ELSE refChanges
    /\ UNCHANGED <<accounts, hookVars, innerVars, out, snapshot>>

(* The inner stream begins; the one before is finalized: what comes for it is
   dropped, and so is what nobody took from its queue. *)
Inner(w, first) ==
    /\ inner' = w /\ inbox' = first
    /\ requested' = (w # NoWallet) /\ wire' = <<>> /\ unanswered' = FALSE

switchMap ==
    /\ refChanges # <<>> /\ refChanges' = Tail(refChanges)
    /\ Inner(Head(refChanges), IF Head(refChanges) = NoWallet THEN <<NoAccounts>> ELSE <<>>)
    /\ UNCHANGED <<accounts, provider, sets, hookVars, out, snapshot>>

PassOn ==
    /\ inbox # <<>>
    /\ out' = Append(out, Head(inbox)) /\ inbox' = Tail(inbox)
    /\ UNCHANGED <<accounts, provider, sets, hookVars, refChanges, inner, requested, wire, unanswered, snapshot>>

----------------------------------------------------------------------------
(* The hook. *)

(* The stream is interrupted with its scope. *)
StreamOff ==
    /\ streaming' = 0 /\ refChanges' = <<>> /\ out' = <<>>
    /\ Inner(NoWallet, <<>>)

(* React mounts the component, or renders it with another stream. *)
Render ==
    /\ hookRun < MaxRuns
    /\ mounted' = TRUE /\ hookRun' = hookRun + 1
    /\ scoping' = scoping \union {hookRun + 1}
    /\ snapshot' = Starting(hookRun + 1)
    /\ StreamOff
    /\ UNCHANGED <<accounts, provider, sets>>

Unmount ==
    /\ mounted /\ mounted' = FALSE
    /\ StreamOff
    /\ UNCHANGED <<accounts, provider, sets, hookRun, scoping, snapshot>>

Subscribes(r) == streaming' = r /\ refChanges' = <<provider>>

(* Mutant: whoever was cancelled meanwhile subscribes all the same. *)
ScopeReadyUnchecked(r) ==
    /\ r \in scoping /\ scoping' = scoping \ {r}
    /\ Subscribes(r)
    /\ UNCHANGED <<accounts, provider, sets, mounted, hookRun, innerVars, out, snapshot>>

(* makeScopedRun is done: a run that was cancelled while it waited for it
   closes the scope and does nothing. *)
ScopeReady(r) ==
    /\ r \in scoping /\ scoping' = scoping \ {r}
    /\ IF mounted /\ r = hookRun THEN Subscribes(r) ELSE UNCHANGED <<streaming, refChanges>>
    /\ UNCHANGED <<accounts, provider, sets, mounted, hookRun, innerVars, out, snapshot>>

setSnapshot ==
    /\ out # <<>> /\ out' = Tail(out)
    /\ snapshot' = [run |-> streaming, value |-> Head(out)]
    /\ UNCHANGED <<accounts, provider, sets, hookVars, refChanges, innerVars>>

WalletNext ==
    \/ \E w \in Wallets : AccountsChange(w)
    \/ Answers \/ Handles \/ SetProvider \/ switchMap \/ PassOn
    \/ Render \/ Unmount \/ (\E r \in scoping : ScopeReady(r)) \/ setSnapshot

WalletSpec == WalletInit /\ [][WalletNext]_viewVars

----------------------------------------------------------------------------
WalletTypeOK ==
    LET Values == NoAccounts..MaxAccounts
        Providers == Wallets \union {NoWallet}
    IN /\ accounts \in [Wallets -> 0..MaxAccounts]
       /\ provider \in Providers /\ inner \in Providers /\ refChanges \in Seq(Providers)
       /\ sets \in 0..MaxSets /\ hookRun \in 0..MaxRuns /\ scoping \in SUBSET (1..hookRun)
       /\ mounted \in BOOLEAN /\ streaming \in 0..hookRun /\ requested \in BOOLEAN
       /\ wire \in Seq(Values) /\ inbox \in Seq(Values) /\ out \in Seq(Values)
       /\ snapshot.run \in 0..MaxRuns /\ unanswered \in BOOLEAN

(* Nothing of the page's stream is on its way. *)
WalletQuiet ==
    /\ streaming # 0 /\ refChanges = <<>> /\ out = <<>>
    /\ ~requested /\ wire = <<>> /\ inbox = <<>>

(* The page shows what the stream of its last render says, never what an
   earlier one left; and that is the accounts of the wallet that is set, as
   they are now, once everything sent is handled, whatever changed between the
   request and its answer and however wallets came one after the other.  A
   request that failed shows none until the wallet's next change. *)
WalletShownIsCurrent ==
    /\ WalletTypeOK
    /\ snapshot.run = hookRun
    /\ streaming # 0 => mounted
    /\ WalletQuiet =>
         \/ unanswered
         \/ snapshot.value = IF provider = NoWallet THEN NoAccounts ELSE accounts[provider]
=============================================================================
