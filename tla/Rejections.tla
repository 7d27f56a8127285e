----------------------------- MODULE Rejections -----------------------------
(***************************************************************************)
(* What is done about a wallet's refusal: how the errors that wallets and  *)
(* providers throw are read (evm/src/core/errors/tx.ts, viem-mapper.ts),   *)
(* and the calls that may ask a wallet again: the signatures with their    *)
(* fallbacks (evm/src/wallet/operations.ts) and a write whose nonce was    *)
(* too low (contract/pipeline/write-and-track.ts).                         *)
(*                                                                         *)
(* An error is a node of a graph, since it may hold others as its cause,   *)
(* in "error" and in "errors", and nothing forbids a cycle.  What it says  *)
(* is one mark.  Outside the code are the errors and the wallets.          *)
(***************************************************************************)
EXTENDS Integers, FiniteSets

CONSTANTS
    Errs,
    MaxDepth,    \* how deep a rejection is looked for: 4 in the code
    MaxWrites,   \* bound on the attempts of one write
    NoErr

ASSUME RejectionAssumption ==
    MaxDepth \in Nat /\ MaxWrites \in Nat \ {0} /\ NoErr \notin Errs

(* "rejected": by tag, name or code; "says": by its message; "unsupported": the
   method is not found or its parameters are invalid. *)
Marks == {"plain", "rejected", "says", "unsupported", "nonce", "funds"}

VARIABLES
    kind,      \* "error", or "Cause": Effect's, which is squashed to its error
    mark,
    cause,     \* the cause of an error, and what a Cause is squashed to
    others,    \* its "error" and "errors"
    call,      \* what the application asked for
    refusalAt, \* "idle", "asking" a wallet, or "done"
    walletAsks, \* how often a wallet was asked
    told,      \* what the application is told
    declined   \* history: an error within reach said that the user declined,
               \* and it was not a write's whose own message is about the nonce

errVars == <<kind, mark, cause, others>>
callVars == <<call, refusalAt, walletAsks, told, declined>>
rejectVars == <<errVars, callVars>>

(* "single": signTransaction, and connecting, switching and adding a chain. *)
Calls == {"signMessage", "signTypedData", "single", "write"}

RejectInit ==
    /\ kind \in [Errs -> {"error", "Cause"}] /\ mark \in [Errs -> Marks]
    /\ cause \in [Errs -> Errs \union {NoErr}] /\ others \in [Errs -> SUBSET Errs]
    /\ \A e \in Errs : kind[e] = "Cause" => cause[e] # NoErr /\ others[e] = {} /\ mark[e] = "plain"
    /\ call = "none" /\ refusalAt = "idle" /\ walletAsks = 0 /\ told = "none" /\ declined = FALSE

(* Where a search goes on: a Cause is squashed, also as the cause of an error,
   and then nothing else of that error is looked at. *)
Held(e) ==
    IF kind[e] = "Cause" THEN {cause[e]}
    ELSE IF cause[e] # NoErr /\ kind[cause[e]] = "Cause" THEN {cause[cause[e]]}
    ELSE ({cause[e]} \union others[e]) \ {NoErr}

(* Mutant: only the error itself is looked at. *)
checkUserRejectionFlat(e) == mark[e] = "rejected"

(* Whether an error is one of these, or one that it holds, to MaxDepth. *)
FoundWithin(these, e) ==
    LET search[depth \in 0..MaxDepth + 1] ==
          IF depth > MaxDepth THEN [x \in Errs |-> FALSE]
          ELSE [x \in Errs |-> x \in these \/ \E y \in Held(x) : search[depth + 1][y]]
    IN search[0][e]

checkUserRejection(e) == FoundWithin({x \in Errs : mark[x] = "rejected"}, e)

(* It asks the strict question anew at each depth, and so finds tags and codes
   twice as deep. *)
checkLikelyUserRejection(e) ==
    FoundWithin({x \in Errs : checkUserRejection(x) \/ mark[x] = "says"}, e)

(* The error and its causes, each visited once; a Cause has no cause. *)
Causes(e) ==
    LET visit[n \in 0..Cardinality(Errs)] ==
          IF n = 0 THEN {e}
          ELSE visit[n - 1] \union
               {cause[x] : x \in {y \in visit[n - 1] : kind[y] = "error" /\ cause[y] # NoErr}}
    IN visit[Cardinality(Errs)]

isNonceTooLowError(e) == \E x \in Causes(e) : mark[x] = "nonce"
isInsufficientFunds(e) == \E x \in Causes(e) : mark[x] = "funds"

classifyWriteError(e) ==
    IF checkLikelyUserRejection(e) THEN "UserRejectedError"
    ELSE IF isInsufficientFunds(e) THEN "InsufficientFundsError" ELSE "ContractWriteError"

(* Only the last keeps its cause; the others keep the message of the error. *)
recovers(e) ==
    IF classifyWriteError(e) = "ContractWriteError" THEN isNonceTooLowError(e)
    ELSE mark[e] = "nonce"

----------------------------------------------------------------------------
Asks(c) ==
    /\ refusalAt = "idle" /\ refusalAt' = "asking"
    /\ call' = c /\ walletAsks' = 1
    /\ UNCHANGED <<errVars, told, declined>>

Accepts ==
    /\ refusalAt = "asking" /\ refusalAt' = "done" /\ told' = "ok"
    /\ UNCHANGED <<errVars, call, walletAsks, declined>>

(* The next of signTypedData's three methods, the other order of
   personal_sign's parameters, the next nonce of a write. *)
asksAgain(e) ==
    \/ call = "signTypedData" /\ walletAsks < 3 /\ mark[e] = "unsupported" /\ ~checkUserRejection(e)
    \/ call = "signMessage" /\ walletAsks < 2 /\ mark[e] = "unsupported" /\ ~checkUserRejection(e)
    \/ call = "write" /\ walletAsks < MaxWrites /\ recovers(e)

Within(e) ==
    LET near[n \in 0..MaxDepth] ==
          IF n = 0 THEN {e} ELSE near[n - 1] \union UNION {Held(x) : x \in near[n - 1]}
    IN near[MaxDepth]

Refuses(e) ==
    /\ refusalAt = "asking" /\ kind[e] = "error"
    /\ declined' = (declined \/ /\ \E x \in Within(e) : mark[x] = "rejected"
                                /\ ~(call = "write" /\ mark[e] = "nonce"))
    /\ \/ asksAgain(e) /\ walletAsks' = walletAsks + 1 /\ UNCHANGED <<refusalAt, told>>
       \/ /\ ~asksAgain(e) /\ refusalAt' = "done"
          /\ told' = IF checkLikelyUserRejection(e) THEN "rejected" ELSE "failed"
          /\ UNCHANGED walletAsks
    /\ UNCHANGED <<errVars, call>>

RejectNext == (\E c \in Calls : Asks(c)) \/ Accepts \/ \E e \in Errs : Refuses(e)

RejectSpec == RejectInit /\ [][RejectNext]_rejectVars

(* A user who has declined is not asked again and the application is told so,
   however deep the wallet or a provider in between has wrapped the refusal, if
   no deeper than is looked, and also where the wrapping names a method that is
   missing, which alone would make the call ask by another.  The one exception
   is a write whose outermost message says that the nonce is too low.  And
   nobody is said to have declined of whom no error in reach says it. *)
DeclinedIsFinal ==
    /\ declined => told = "rejected"
    /\ told = "rejected" => \E e \in Errs : mark[e] \in {"rejected", "says"}
=============================================================================
