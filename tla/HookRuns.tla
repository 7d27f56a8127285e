------------------------------ MODULE HookRuns ------------------------------
(***************************************************************************)
(* React hooks that run something whenever their inputs change:            *)
(* useEffectMemo and useEffectMemoFactory, which run an Effect             *)
(* (integrations/react-hooks/primitives), and useWalletExecution, which    *)
(* asks the chain whether the connected address is a Safe                  *)
(* (evm-safe/src/react-hooks/use-wallet-execution.ts).                     *)
(*                                                                         *)
(* Outside the code is React: it renders with other inputs, commits (the   *)
(* cleanup of the last effect and the next effect run together) and        *)
(* unmounts.  Any time may pass between two steps, so a debounce may end,  *)
(* and an interval may be over or not, at each.                            *)
(***************************************************************************)
EXTENDS Integers

CONSTANTS
    HookKeys,    \* values of the option key
    Addresses, Chains,
    MaxEffects,  \* bound on effects of the hooks that run an Effect
    MaxCommits,  \* bound on effects of useWalletExecution
    NoKey, NoAddress, NoChain

ASSUME HookAssumption ==
    /\ MaxEffects \in Nat /\ MaxCommits \in Nat
    /\ NoKey \notin HookKeys /\ NoAddress \notin Addresses /\ NoChain \notin Chains

Effects == 1..MaxEffects

VARIABLES
    hook,       \* "factory", or "memo": without keys and timers, and its
                \* cleanup closes its own scope, which inFlight stands for
    effects,    \* effects so far
    effect,     \* the effect that is active, 0 for none
    keyOf,      \* the key of each effect
    at,         \* where the run of each effect is
    result,     \* what became of it
    inFlight,   \* inFlightRef: the effect whose fiber it holds, 0 for none
    lastRun,    \* lastRunRef: the effect that forked last
    hookShows   \* the effect whose value the hook returns, 0 for the initial one

memoVars == <<hook, effects, effect, keyOf, at, result, inFlight, lastRun, hookShows>>

MemoInit ==
    /\ hook \in {"memo", "factory"}
    /\ effects = 0 /\ effect = 0 /\ inFlight = 0 /\ lastRun = 0 /\ hookShows = 0
    /\ keyOf = [n \in Effects |-> NoKey]
    /\ at = [n \in Effects |-> "off"] /\ result = [n \in Effects |-> "none"]

(* What the cleanup of the active effect leaves of the runs: a debounce timer
   is cleared, and the scope of the fiber in flight is closed.  An effect that
   skipped its run only became inactive. *)
Skipped(n) == result[n] = "skipped"
cleanup ==
    IF effect = 0 \/ Skipped(effect) THEN at
    ELSE [n \in Effects |->
            CASE n = effect /\ at[n] = "debounce" -> "off"
              [] n = inFlight /\ at[n] = "running" -> "closing"
              [] OTHER -> at[n]]

(* The reference is cleared only if it holds the key of the effect. *)
flightAfterCleanup ==
    IF effect # 0 /\ ~Skipped(effect) /\ inFlight # 0 /\ keyOf[inFlight] = keyOf[effect]
      THEN 0 ELSE inFlight

(* The same key is in flight, or ran within minIntervalMs. *)
Skips(key, flight, recent) ==
    /\ hook = "factory" /\ key # NoKey
    /\ \/ flight # 0 /\ keyOf[flight] = key
       \/ recent /\ lastRun # 0 /\ keyOf[lastRun] = key

(* The inputs are new: the last effect is cleaned up, the next one runs. *)
RunEffect(key, debounced, recent) ==
    LET n == effects + 1
        skips == Skips(key, flightAfterCleanup, recent)
    IN /\ n \in Effects
       /\ hook = "memo" => key = NoKey /\ ~debounced /\ ~recent
       /\ effects' = n /\ effect' = n
       /\ keyOf' = [keyOf EXCEPT ![n] = key]
       /\ inFlight' = flightAfterCleanup
       /\ result' = [result EXCEPT ![n] = IF skips THEN "skipped" ELSE "none"]
       /\ at' = [cleanup EXCEPT ![n] = IF skips THEN "off"
                                       ELSE IF debounced THEN "debounce" ELSE "scoping"]
       /\ hookShows' = IF hook = "memo" THEN 0 ELSE hookShows
       /\ UNCHANGED <<hook, lastRun>>

UnmountHook ==
    /\ effect # 0
    /\ effect' = 0 /\ at' = cleanup /\ inFlight' = flightAfterCleanup
    /\ UNCHANGED <<hook, effects, keyOf, result, lastRun, hookShows>>

DebounceEnds(n) ==
    /\ at[n] = "debounce"
    /\ at' = [at EXCEPT ![n] = "scoping"]
    /\ UNCHANGED <<hook, effects, effect, keyOf, result, inFlight, lastRun, hookShows>>

(* Mutant: an effect that was cleaned up while it waited forks all the same. *)
ForkUnchecked(n) ==
    /\ at[n] = "scoping"
    /\ at' = [at EXCEPT ![n] = "running"] /\ inFlight' = n /\ lastRun' = n
    /\ UNCHANGED <<hook, effects, effect, keyOf, result, hookShows>>

(* makeScopedRun is done. *)
Fork(n) ==
    /\ at[n] = "scoping"
    /\ \/ /\ effect = n
          /\ at' = [at EXCEPT ![n] = "running"] /\ inFlight' = n /\ lastRun' = n
       \/ /\ effect # n
          /\ at' = [at EXCEPT ![n] = "off"] /\ UNCHANGED <<inFlight, lastRun>>
    /\ UNCHANGED <<hook, effects, effect, keyOf, result, hookShows>>

(* The fiber ends.  What an interrupted one came to nobody sees.  The factory's
   value is set by the fiber itself. *)
FiberEnds(n) ==
    /\ at[n] \in {"running", "closing"}
    /\ at' = [at EXCEPT ![n] = "ended"]
    /\ \E r \in {"ok", "failed", "interrupted"} :
         /\ r = "interrupted" <=> at[n] = "closing"
         /\ result' = [result EXCEPT ![n] = r]
         /\ hookShows' = IF hook = "factory" /\ r = "ok" /\ effect = n THEN n ELSE hookShows
    /\ UNCHANGED <<hook, effects, effect, keyOf, inFlight, lastRun>>

(* Whoever joined the fiber goes on; the memo's state is set here. *)
Joined(n) ==
    /\ at[n] = "ended"
    /\ at' = [at EXCEPT ![n] = "off"]
    /\ inFlight' = IF inFlight = n THEN 0 ELSE inFlight
    /\ hookShows' = IF hook = "memo" /\ result[n] = "ok" /\ effect = n THEN n ELSE hookShows
    /\ UNCHANGED <<hook, effects, effect, keyOf, result, lastRun>>

MemoNext ==
    \/ \E key \in HookKeys \union {NoKey}, debounced, recent \in BOOLEAN :
         RunEffect(key, debounced, recent)
    \/ UnmountHook
    \/ \E n \in Effects : DebounceEnds(n) \/ Fork(n) \/ FiberEnds(n) \/ Joined(n)

(* A run goes on only for the inputs the page has now, and the reference never
   holds another's fiber; the memo never shows what belongs to earlier inputs.
   When nothing is under way the page shows the result of its inputs, or of
   those before them if the run was skipped for its key: unless that run
   failed, or was interrupted by the very change that then found it too recent
   to run again, a case the interval does not consider. *)
MemoShowsItsInputs ==
    /\ inFlight # 0 => inFlight = effect /\ at[inFlight] \in {"running", "ended"}
    /\ \A n \in Effects : at[n] = "running" => n = effect
    /\ hookShows # 0 => result[hookShows] = "ok" /\ (hook = "memo" /\ effect # 0 => hookShows = effect)
    /\ effect # 0 /\ at[effect] = "off" =>
         \/ hookShows = effect \/ result[effect] = "failed"
         \/ Skipped(effect) /\ keyOf[lastRun] = keyOf[effect]
            /\ (hookShows = lastRun \/ result[lastRun] # "ok")

----------------------------------------------------------------------------
(* useWalletExecution. *)

VARIABLES
    safes,      \* the addresses that are Safes, with the chain
    probing,    \* enableOwnersProbe
    inputs,     \* what the last render read
    committed,  \* the inputs of the last effect, and its number
    asked,      \* reads of getOwners under way: their effect, address and chain
    ownersProbe,
    probeFailed \* history: the read for these inputs failed

executionVars == <<safes, probing, inputs, committed, asked, ownersProbe, probeFailed>>

NoProbe == [isSafe |-> FALSE]
NoInputs == [address |-> NoAddress, chain |-> NoChain,
             context |-> FALSE, connector |-> FALSE, origin |-> FALSE]

ExecutionInit ==
    /\ safes \in SUBSET (Addresses \X Chains) /\ probing \in BOOLEAN
    /\ inputs = NoInputs /\ committed = [n |-> 0, inputs |-> NoInputs]
    /\ asked = {} /\ ownersProbe = NoProbe /\ probeFailed = FALSE

isConnected == inputs.address # NoAddress
isSafeConnector == isConnected /\ inputs.connector

(* Mutant: what the probe said of another address counts. *)
probeDetectedAnySafe == probing /\ isConnected /\ ownersProbe.isSafe

ownersProbeDetectedSafe ==
    /\ probing /\ isConnected /\ ownersProbe.isSafe
    /\ ownersProbe.address = inputs.address /\ ownersProbe.chain = inputs.chain

canUseSafeAppsSdk == inputs.context \/ inputs.origin

walletType ==
    IF canUseSafeAppsSdk \/ isSafeConnector \/ ownersProbeDetectedSafe
      THEN "safe-multisig"
    ELSE IF isConnected THEN "eoa" ELSE "unknown"

(* The wallet changes, with its connector and its chain, or the list of origins
   does, or the Safe's SDK answers, be it after its timeout: a render reads it
   before the effect of the last inputs is cleaned up. *)
RenderExecution ==
    /\ committed.n < MaxCommits
    /\ \/ \E a \in Addresses \union {NoAddress}, ch \in Chains \union {NoChain}, safe \in BOOLEAN :
            inputs' = [inputs EXCEPT !.address = a, !.chain = ch, !.connector = safe]
       \/ \E origin \in BOOLEAN : inputs' = [inputs EXCEPT !.origin = origin]
       \/ inputs' = [inputs EXCEPT !.context = TRUE]
    /\ UNCHANGED <<safes, probing, committed, asked, ownersProbe, probeFailed>>

Probes ==
    /\ probing /\ isConnected /\ inputs.chain # NoChain
    /\ ~(canUseSafeAppsSdk \/ isSafeConnector)

(* The render is committed and the effect runs, which cancels the last. *)
ExecutionEffect ==
    /\ inputs # committed.inputs
    /\ committed' = [n |-> committed.n + 1, inputs |-> inputs]
    /\ probeFailed' = FALSE
    /\ IF Probes
         THEN /\ asked' = asked \union
                   {[n |-> committed'.n, address |-> inputs.address, chain |-> inputs.chain]}
              /\ UNCHANGED ownersProbe
         ELSE ownersProbe' = NoProbe /\ UNCHANGED asked
    /\ UNCHANGED <<safes, probing, inputs>>

(* The chain answers: a Safe has owners, and of anything else the call fails
   or returns none.  It fails for a Safe too when the node does. *)
OwnersAnswer(q) ==
    /\ q \in asked /\ asked' = asked \ {q}
    /\ IF q.n # committed.n THEN UNCHANGED <<ownersProbe, probeFailed>>
       ELSE \/ /\ ownersProbe' = [address |-> q.address, chain |-> q.chain,
                                  isSafe |-> <<q.address, q.chain>> \in safes]
               /\ UNCHANGED probeFailed
            \/ ownersProbe' = NoProbe /\ probeFailed' = TRUE
    /\ UNCHANGED <<safes, probing, inputs, committed>>

ExecutionNext == RenderExecution \/ ExecutionEffect \/ \E q \in asked : OwnersAnswer(q)

----------------------------------------------------------------------------
runVars == <<memoVars, executionVars>>

(* The two hooks share nothing. *)
HooksNext ==
    \/ MemoNext /\ UNCHANGED executionVars
    \/ ExecutionNext /\ UNCHANGED memoVars

HooksSpec == MemoInit /\ ExecutionInit /\ [][HooksNext]_runVars

(* A page that routes to the Safe path has a Safe before it: its host or its
   connector says so, or the chain has said so of this address on this chain,
   also in the render that reads another address before the effect of the last
   one is cleaned up.  When every answer is in, a Safe that can be probed is
   known to be one. *)
RoutesByWallet ==
    /\ walletType = "safe-multisig" =>
         \/ inputs.context \/ inputs.origin \/ isSafeConnector
         \/ <<inputs.address, inputs.chain>> \in safes
    /\ inputs = committed.inputs /\ Probes /\ ~probeFailed
       /\ (\A q \in asked : q.n # committed.n) =>
         (walletType = "safe-multisig" <=> <<inputs.address, inputs.chain>> \in safes)

HooksSound == MemoShowsItsInputs /\ RoutesByWallet
=============================================================================
