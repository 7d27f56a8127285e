---------------------------- MODULE PageRuntime ----------------------------
(***************************************************************************)
(* The runtime of a page: EffectEvmProvider and EffectEvmProviderSync      *)
(* build it from a layer, close it when the layer changes or the page goes *)
(* (integrations/react-hooks/provider.ts, internal/runtime.ts), and        *)
(* useForkEffect runs the work of a child in it (internal/scoped-run.ts,   *)
(* primitives/use-fork-effect.ts).                                         *)
(*                                                                         *)
(* Outside the code is React: it commits the tree with another layer, or   *)
(* replays the effects with the same one, or unmounts; all cleanups of a   *)
(* commit run together.  Outside are also the layers, whose acquisitions   *)
(* and finalizers take their time and may fail.                            *)
(***************************************************************************)
EXTENDS Integers

CONSTANTS
    Layers,
    MaxMounts,   \* bound on the provider's effects
    NoLayer

ASSUME RuntimeAssumption == NoLayer \notin Layers /\ MaxMounts \in Nat

Mounts == 1..MaxMounts

VARIABLES
    providerKind,    \* "async" or "sync"
    layer,       \* of the last commit, NoLayer when there is no page
    mounts,      \* effects of the provider so far
    layerOf,     \* the layer of each
    runtimeAt,   \* what became of the runtime of each
    closings,    \* history: how often its scope was closed
    built,       \* the state: the effect whose runtime was set, 0 for null
    childAt      \* the effect of a child under each runtime, one at most

pageVars == <<providerKind, layer, mounts, layerOf, runtimeAt, closings, built, childAt>>

(* A runtime is "building"; "ready", when whoever awaits it has yet to go on;
   "open"; and "closing" until its finalizers are done, then "closed".  One that
   cannot be built is "failing" while what it acquired is released.
   A child is "scoping", or "dropped" if it is cleaned up meanwhile, "running",
   "stopping" or "done". *)
PageInit ==
    /\ providerKind \in {"async", "sync"}
    /\ layer = NoLayer /\ mounts = 0 /\ built = 0
    /\ layerOf = [n \in Mounts |-> NoLayer]
    /\ runtimeAt = [n \in Mounts |-> "off"] /\ closings = [n \in Mounts |-> 0]
    /\ childAt = [n \in Mounts |-> "off"]

(* The effect that was not cleaned up: all others have their signal aborted. *)
active == IF layer = NoLayer THEN 0 ELSE mounts

(* Children are rendered with the runtime that was set for the layer. *)
rendered == IF built # 0 /\ layer # NoLayer /\ layerOf[built] = layer THEN built ELSE 0

closed(at) == [n \in Mounts |-> IF n = active /\ at[n] = "open" THEN "closing" ELSE at[n]]
closingsAfter == [n \in Mounts |-> closings[n] + IF n = active /\ runtimeAt[n] = "open" THEN 1 ELSE 0]

(* The child's cleanup closes its scope, which interrupts its work, or leaves
   word for when the scope is there. *)
dropped(at) ==
    CASE at = "scoping" -> "dropped" [] at = "running" -> "stopping" [] OTHER -> at
childrenDropped == [n \in Mounts |-> IF n = active THEN dropped(childAt[n]) ELSE childAt[n]]

(* The tree is committed with a layer: the last effect is cleaned up, its child's
   too, and the next one builds.  A layer built synchronously is open at once, or
   cannot be built, which is reported and takes the page down. *)
Commit(l) ==
    LET n == mounts + 1
    IN /\ n \in Mounts
       /\ mounts' = n /\ layerOf' = [layerOf EXCEPT ![n] = l]
       /\ closings' = closingsAfter /\ childAt' = childrenDropped
       /\ \/ /\ providerKind = "async" /\ layer' = l /\ built' = 0
             /\ runtimeAt' = [closed(runtimeAt) EXCEPT ![n] = "building"]
          \/ /\ providerKind = "sync" /\ layer' = l /\ built' = n
             /\ runtimeAt' = [closed(runtimeAt) EXCEPT ![n] = "open"]
          \/ /\ providerKind = "sync" /\ layer' = NoLayer /\ UNCHANGED built
             /\ runtimeAt' = [closed(runtimeAt) EXCEPT ![n] = "failing"]
       /\ UNCHANGED providerKind

PageGoes ==
    /\ layer # NoLayer /\ layer' = NoLayer
    /\ runtimeAt' = closed(runtimeAt) /\ closings' = closingsAfter /\ childAt' = childrenDropped
    /\ UNCHANGED <<providerKind, mounts, layerOf, built>>

----------------------------------------------------------------------------
(* buildRuntime, and the effect that awaits it. *)

Acquired(n) ==
    /\ runtimeAt[n] = "building"
    /\ runtimeAt' = [runtimeAt EXCEPT ![n] = "ready"]
    /\ UNCHANGED <<providerKind, layer, mounts, layerOf, closings, built, childAt>>

(* A layer fails, or is interrupted since its signal was aborted. *)
AcquireFails(n) ==
    /\ runtimeAt[n] = "building"
    /\ runtimeAt' = [runtimeAt EXCEPT ![n] = "failing"]
    /\ UNCHANGED <<providerKind, layer, mounts, layerOf, closings, built, childAt>>

(* Mutant: whoever awaited the runtime sets it, wanted or not. *)
SetBuiltUnchecked(n) ==
    /\ runtimeAt[n] = "ready"
    /\ runtimeAt' = [runtimeAt EXCEPT ![n] = "open"] /\ built' = n
    /\ UNCHANGED <<providerKind, layer, mounts, layerOf, closings, childAt>>

SetBuilt(n) ==
    /\ runtimeAt[n] = "ready"
    /\ \/ /\ n = active
          /\ runtimeAt' = [runtimeAt EXCEPT ![n] = "open"] /\ built' = n
          /\ UNCHANGED closings
       \/ /\ n # active
          /\ runtimeAt' = [runtimeAt EXCEPT ![n] = "closing"]
          /\ closings' = [closings EXCEPT ![n] = @ + 1]
          /\ UNCHANGED built
    /\ UNCHANGED <<providerKind, layer, mounts, layerOf, childAt>>

(* What a failed build had acquired is released; only then is the failure of an
   active effect reported. *)
Released(n) ==
    /\ runtimeAt[n] = "failing"
    /\ runtimeAt' = [runtimeAt EXCEPT ![n] = "failed"]
    /\ UNCHANGED <<providerKind, layer, mounts, layerOf, closings, built, childAt>>

(* A scope is closed when its child fibers are done. *)
closeRuntime(n) ==
    /\ runtimeAt[n] = "closing" /\ childAt[n] \notin {"running", "stopping"}
    /\ runtimeAt' = [runtimeAt EXCEPT ![n] = "closed"]
    /\ UNCHANGED <<providerKind, layer, mounts, layerOf, closings, built, childAt>>

----------------------------------------------------------------------------
(* useForkEffect under the runtime rendered. *)

ChildStep(n, from, to) ==
    /\ childAt[n] = from /\ childAt' = [childAt EXCEPT ![n] = to]
    /\ UNCHANGED <<providerKind, layer, mounts, layerOf, runtimeAt, closings, built>>

ChildMounts(n) == n = rendered /\ ChildStep(n, "off", "scoping")
ChildUnmounts(n) ==
    n = rendered /\ childAt[n] \in {"scoping", "running"} /\ ChildStep(n, childAt[n], dropped(childAt[n]))

(* makeScopedRun is done: a child that is wanted forks.  In a scope that was closed
   by then the fiber is interrupted before it starts. *)
ChildForks(n) ==
    \/ ChildStep(n, "dropped", "done")
    \/ ChildStep(n, "scoping", IF runtimeAt[n] = "open" THEN "running" ELSE "done")

ChildEnds(n) == ChildStep(n, "running", "done") \/ ChildStep(n, "stopping", "done")

PageStep(n) ==
    \/ Acquired(n) \/ AcquireFails(n) \/ SetBuilt(n) \/ Released(n) \/ closeRuntime(n)
    \/ ChildForks(n) \/ ChildEnds(n)

PageNext ==
    \/ \E l \in Layers : Commit(l)
    \/ PageGoes
    \/ \E n \in Mounts : PageStep(n) \/ ChildMounts(n) \/ ChildUnmounts(n)

(* Builds, finalizers and forked work go on by themselves. *)
PageSpec == PageInit /\ [][PageNext]_pageVars /\ \A n \in Mounts : WF_pageVars(PageStep(n))

----------------------------------------------------------------------------
(* Children never see the runtime of another layer, nor one whose scope is being
   closed, and no work of theirs goes on in one.  A runtime is open only while it
   is the page's: every other is closed, once, however its building, the changes
   of the layer and the end of the page fell together. *)
RuntimesSound ==
    /\ rendered # 0 => runtimeAt[rendered] = "open" /\ rendered = active
    /\ \A n \in Mounts :
         /\ runtimeAt[n] = "open" => n = active /\ n = rendered
         /\ childAt[n] = "running" => runtimeAt[n] = "open"
         /\ closings[n] = IF runtimeAt[n] \in {"closing", "closed"} THEN 1 ELSE 0

(* Whatever was acquired is released in the end once it is not the page's. *)
RuntimesReleased ==
    \A n \in Mounts : runtimeAt[n] # "off" /\ n # active ~> runtimeAt[n] \in {"closed", "failed"}
=============================================================================
