---------------------------- MODULE PagesProofs ----------------------------
(***************************************************************************)
(* Proofs about TxTracking, WalletView, PageRuntime and HookRuns.          *)
(***************************************************************************)
EXTENDS TxTracking, WalletView, PageRuntime, HookRuns, SequenceTheorems, TLAPS

----------------------------------------------------------------------------
(* Proofs about TxTracking: type correctness, agreement of the shown hash
   with currentHashRef, agreement of the state with the terminal outcome,
   and that no block disturbs a settled state. *)

Early == {"forked", "preflight", "writing"}

(* Before the hash is known there is nothing to replace and nothing to watch. *)
EarlyIsQuiet ==
    run \in Early =>
        /\ status \in {"idle", "simulating", "signing"}
        /\ currentHash = None
        /\ terminal = "none"
        /\ \A r \in Replacers : request[r] = "none"

(* The block fiber lives inside the receipt loop. *)
WatcherInside ==
    /\ watcher # "off" => run = "waiting"
    /\ watcher = "replacing" => autoAttempts < MaxAttempts

(* During the receipt loop the transaction is under way for everybody. *)
WaitingIsOpen ==
    run = "waiting" =>
        status \in {"submitted", "pending"} /\ {currentHash, waitHash} \subseteq Hashes /\ terminal = "none"

DecodingIsMined ==
    run = "decoding" => terminal = "none" /\ (late \/ (status = "mined" /\ shown \in seen))

OutcomeIsLast == terminal # "none" => run = "done"

RepliesAreHashes == \A r \in Replacers : request[r] = "landed" => reply[r] \in Hashes

MinedIsSeen == block # None => block \in seen

IInv ==
    /\ TypeOK
    /\ CurrentIsShown
    /\ TerminalAgrees
    /\ EarlyIsQuiet
    /\ WatcherInside
    /\ WaitingIsOpen
    /\ DecodingIsMined
    /\ OutcomeIsLast
    /\ RepliesAreHashes
    /\ MinedIsSeen

LEMMA InitEstablishesIInv == Init => IInv
<1> SUFFICES ASSUME Init PROVE IInv
  OBVIOUS
<1>1. TypeOK
  <2>1. open \in BOOLEAN /\ late \in BOOLEAN
    BY DEF Init
  <2>2. retries \in 0..MaxRetries /\ autoAttempts \in 0..MaxAttempts /\ sent \in 0..MaxHashes
        /\ reorgs \in 0..MaxReorgs
    BY BoundsAssumption DEF Init
  <2> QED
    BY <2>1, <2>2 DEF Init, TypeOK, Statuses, Places
<1>2. EarlyIsQuiet /\ WatcherInside /\ WaitingIsOpen /\ DecodingIsMined
  BY DEF Init, EarlyIsQuiet, WatcherInside, WaitingIsOpen, DecodingIsMined
<1>3. CurrentIsShown /\ TerminalAgrees /\ OutcomeIsLast /\ RepliesAreHashes /\ MinedIsSeen
  BY DEF Init, CurrentIsShown, TerminalAgrees, OutcomeIsLast, RepliesAreHashes, MinedIsSeen
<1> QED
  BY <1>1, <1>2, <1>3 DEF IInv

(* The failure handler settles the state and the outcome together. *)
LEMMA FailKeepsIInv ==
    ASSUME IInv, Fail, UNCHANGED <<chainVars, open, late>>,
           watcher' = "off", autoAttempts' = autoAttempts,
           request' \in [Replacers -> {"none", "asked", "landed"}],
           reply' \in [Replacers -> Hashes \union {None}],
           \A r \in Replacers : request'[r] = "landed" => reply'[r] \in Hashes
    PROVE IInv'
<1>1. TypeOK'
  BY DEF IInv, TypeOK, Fail, chainVars, Statuses, Settled, Places
<1> QED
  BY <1>1
  DEF Fail, chainVars, IInv, CurrentIsShown, TerminalAgrees, EarlyIsQuiet, WatcherInside,
      WaitingIsOpen, DecodingIsMined, OutcomeIsLast, RepliesAreHashes, MinedIsSeen, Early

LEMMA ChainKeepsIInv ==
    ASSUME IInv, Mine \/ Reorg \/ \E r \in Replacers : Lands(r)
    PROVE IInv'
<1> USE DEF workVars, shownVars, watchVars, reqVars
<1>1. CASE Mine
  <2>1. TypeOK'
    BY <1>1, BoundsAssumption DEF IInv, TypeOK, Mine, Hashes
  <2> QED
    BY <1>1, <2>1
    DEF Mine, IInv, CurrentIsShown, TerminalAgrees, EarlyIsQuiet, WatcherInside, WaitingIsOpen,
        DecodingIsMined, OutcomeIsLast, RepliesAreHashes, MinedIsSeen
<1>2. CASE Reorg
  <2>1. TypeOK'
    BY <1>2, BoundsAssumption DEF IInv, TypeOK, Reorg
  <2> QED
    BY <1>2, <2>1
    DEF Reorg, IInv, CurrentIsShown, TerminalAgrees, EarlyIsQuiet, WatcherInside, WaitingIsOpen,
        DecodingIsMined, OutcomeIsLast, RepliesAreHashes, MinedIsSeen
<1>3. ASSUME NEW r \in Replacers, Lands(r) PROVE IInv'
  <2>1. sent + 1 \in Hashes
    BY <1>3, BoundsAssumption DEF Lands, Hashes, IInv, TypeOK
  <2>2. TypeOK'
    BY <1>3, <2>1, BoundsAssumption DEF IInv, TypeOK, Lands, Hashes
  <2>3. RepliesAreHashes'
    BY <1>3, <2>1 DEF Lands, IInv, TypeOK, RepliesAreHashes
  <2>4. run \notin Early
    BY <1>3 DEF Lands, IInv, EarlyIsQuiet
  <2> QED
    BY <1>3, <2>2, <2>3, <2>4
    DEF Lands, IInv, CurrentIsShown, TerminalAgrees, EarlyIsQuiet, WatcherInside, WaitingIsOpen,
        DecodingIsMined, OutcomeIsLast, MinedIsSeen
<1> QED
  BY <1>1, <1>2, <1>3

LEMMA WorkerKeepsIInv ==
    ASSUME IInv, RunStep \/ WriteSent \/ WriteFails
    PROVE IInv'
<1> USE DEF workVars, shownVars, watchVars, reqVars, chainVars
<1>1. CASE Start
  <2>1. TypeOK'
    BY <1>1 DEF IInv, TypeOK, Start, Statuses, Places
  <2> QED
    BY <1>1, <2>1
    DEF Start, IInv, CurrentIsShown, TerminalAgrees, EarlyIsQuiet, WatcherInside, WaitingIsOpen,
        DecodingIsMined, OutcomeIsLast, RepliesAreHashes, MinedIsSeen, Early, Settled
<1>2. CASE PreflightEnds
  <2>1. CASE Fail
    BY <1>2, <2>1, FailKeepsIInv DEF PreflightEnds, IInv, TypeOK, WatcherInside, RepliesAreHashes
  <2>2. CASE ~Fail
    <3>1. TypeOK'
      BY <1>2, <2>2 DEF IInv, TypeOK, PreflightEnds, Statuses, Places
    <3> QED
      BY <1>2, <2>2, <3>1
      DEF PreflightEnds, IInv, CurrentIsShown, TerminalAgrees, EarlyIsQuiet, WatcherInside,
          WaitingIsOpen, DecodingIsMined, OutcomeIsLast, RepliesAreHashes, MinedIsSeen, Early
  <2> QED
    BY <2>1, <2>2
<1>3. CASE WriteSent
  <2>1. sent + 1 \in Hashes /\ sent + 1 \in 0..MaxHashes
    BY <1>3, BoundsAssumption DEF WriteSent, Hashes, IInv, TypeOK
  <2>2. TypeOK'
    BY <1>3, <2>1, BoundsAssumption DEF IInv, TypeOK, WriteSent, Submitted, Statuses, Places
  <2> QED
    BY <1>3, <2>1, <2>2, ValuesAssumption
    DEF WriteSent, Submitted, IInv, CurrentIsShown, TerminalAgrees, EarlyIsQuiet, WatcherInside,
        WaitingIsOpen, DecodingIsMined, OutcomeIsLast, RepliesAreHashes, MinedIsSeen, Early, Settled
<1>4. CASE WriteFails
  BY <1>4, FailKeepsIInv DEF WriteFails, IInv, TypeOK, WatcherInside, RepliesAreHashes
<1>5. CASE ReceiptReplaced
  <2>1. block \in Hashes
    BY <1>5 DEF ReceiptReplaced, IInv, TypeOK
  <2>2. TypeOK'
    BY <1>5, <2>1, BoundsAssumption DEF IInv, TypeOK, ReceiptReplaced, Submitted, Statuses
  <2> QED
    BY <1>5, <2>1, <2>2, ValuesAssumption
    DEF ReceiptReplaced, Submitted, IInv, CurrentIsShown, TerminalAgrees, EarlyIsQuiet, WatcherInside,
        WaitingIsOpen, DecodingIsMined, OutcomeIsLast, RepliesAreHashes, MinedIsSeen, Early
<1>6. CASE ReceiptRetried
  <2>1. TypeOK'
    BY <1>6, BoundsAssumption DEF IInv, TypeOK, ReceiptRetried
  <2> QED
    BY <1>6, <2>1
    DEF ReceiptRetried, IInv, CurrentIsShown, TerminalAgrees, EarlyIsQuiet, WatcherInside,
        WaitingIsOpen, DecodingIsMined, OutcomeIsLast, RepliesAreHashes, MinedIsSeen
<1>7. ASSUME StopWatching
      PROVE /\ request' \in [Replacers -> {"none", "asked", "landed"}]
            /\ reply' \in [Replacers -> Hashes \union {None}]
            /\ \A r \in Replacers : request'[r] = "landed" => reply'[r] \in Hashes
  BY <1>7 DEF StopWatching, Over, IInv, TypeOK, RepliesAreHashes
<1>8. CASE ReceiptFails
  BY <1>7, <1>8, FailKeepsIInv DEF ReceiptFails, StopWatching
<1>9. CASE ReceiptArrives
  <2>1. CASE Fail
    BY <1>7, <1>9, <2>1, FailKeepsIInv DEF ReceiptArrives, StopWatching
  <2>2. CASE ~Fail
    <3>1. block \in Hashes /\ block \in seen
      BY <1>9, ValuesAssumption
      DEF ReceiptArrives, IInv, TypeOK, MinedIsSeen, WaitingIsOpen
    <3>2. TypeOK'
      BY <1>7, <1>9, <2>2, <3>1
      DEF IInv, TypeOK, ReceiptArrives, StopWatching, Statuses, Settled, Places
    <3> QED
      BY <1>7, <1>9, <2>2, <3>1, <3>2
      DEF ReceiptArrives, StopWatching, IInv, CurrentIsShown, TerminalAgrees, EarlyIsQuiet,
          WatcherInside, WaitingIsOpen, DecodingIsMined, OutcomeIsLast, RepliesAreHashes,
          MinedIsSeen, Early
  <2> QED
    BY <2>1, <2>2
<1>10. CASE DecodeEnds
  <2>1. CASE Fail
    BY <1>10, <2>1, FailKeepsIInv DEF DecodeEnds, IInv, TypeOK, WatcherInside, RepliesAreHashes
  <2>2. CASE ~Fail
    <3>1. TypeOK'
      BY <1>10, <2>2 DEF IInv, TypeOK, DecodeEnds, Places
    <3> QED
      BY <1>10, <2>2, <3>1
      DEF DecodeEnds, IInv, CurrentIsShown, TerminalAgrees, EarlyIsQuiet, WatcherInside,
          WaitingIsOpen, DecodingIsMined, OutcomeIsLast, RepliesAreHashes, MinedIsSeen, Early
  <2> QED
    BY <2>1, <2>2
<1> QED
  BY <1>1, <1>2, <1>3, <1>4, <1>5, <1>6, <1>8, <1>9, <1>10 DEF RunStep

LEMMA WatcherKeepsIInv ==
    ASSUME IInv, NewBlock \/ AutoAnswered \/ AutoFailed
    PROVE IInv'
<1> USE DEF workVars, shownVars, watchVars, chainVars
<1>1. run = "waiting" /\ status \in {"submitted", "pending"} /\ currentHash \in Hashes
  BY DEF NewBlock, AutoAnswered, AutoFailed, IInv, WatcherInside, WaitingIsOpen
<1>2. currentHash # None
  BY <1>1, ValuesAssumption
<1>3. CASE NewBlock
  <2>1. status' = "pending" /\ shown' = currentHash
    BY <1>1, <1>3 DEF NewBlock, Settled
  <2>2. TypeOK'
    BY <1>3, <2>1 DEF IInv, TypeOK, NewBlock, Statuses
  <2>3. WatcherInside'
    BY <1>1, <1>3 DEF NewBlock, Allowed, IInv, WatcherInside
  <2>4. RepliesAreHashes'
    BY <1>3 DEF NewBlock, IInv, TypeOK, RepliesAreHashes
  <2> QED
    BY <1>1, <1>2, <1>3, <2>1, <2>2, <2>3, <2>4
    DEF NewBlock, IInv, CurrentIsShown, TerminalAgrees, EarlyIsQuiet, WaitingIsOpen,
        DecodingIsMined, OutcomeIsLast, MinedIsSeen, Early
<1>4. CASE AutoAnswered
  <2> DEFINE h == reply[Automatic]
  <2>1. /\ watcher' = "idle" /\ autoAttempts' = autoAttempts + 1
        /\ Submitted(h) /\ Over(Automatic)
        /\ UNCHANGED <<workVars, chainVars, open, late>>
    BY <1>4 DEF AutoAnswered
  <2>2. h \in Hashes
    BY <1>4 DEF AutoAnswered, IInv, RepliesAreHashes, Replacers
  <2>3. autoAttempts' \in 0..MaxAttempts
    <3>1. autoAttempts \in 0..MaxAttempts /\ autoAttempts < MaxAttempts
      BY <1>4 DEF AutoAnswered, IInv, TypeOK, WatcherInside
    <3> QED
      BY <2>1, <3>1, BoundsAssumption
  <2> HIDE DEF h
  <2>4. TypeOK' /\ RepliesAreHashes'
    BY <2>1, <2>2, <2>3 DEF IInv, TypeOK, RepliesAreHashes, Submitted, Over, Statuses
  <2> QED
    BY <1>1, <2>1, <2>2, <2>4, ValuesAssumption
    DEF Submitted, IInv, CurrentIsShown, TerminalAgrees, EarlyIsQuiet,
        WatcherInside, WaitingIsOpen, DecodingIsMined, OutcomeIsLast, MinedIsSeen, Early
<1>5. CASE AutoFailed
  <2>1. TypeOK'
    BY <1>5 DEF IInv, TypeOK, AutoFailed, Over
  <2>2. RepliesAreHashes'
    BY <1>5 DEF AutoFailed, Over, IInv, TypeOK, RepliesAreHashes
  <2> QED
    BY <1>1, <1>5, <2>1, <2>2
    DEF AutoFailed, IInv, CurrentIsShown, TerminalAgrees, EarlyIsQuiet,
        WatcherInside, WaitingIsOpen, DecodingIsMined, OutcomeIsLast, MinedIsSeen, Early
<1> QED
  BY <1>3, <1>4, <1>5

LEMMA UserKeepsIInv ==
    ASSUME IInv, NEW u \in Users, UserAsks(u) \/ UserAnswered(u) \/ UserFailed(u)
    PROVE IInv'
<1> USE DEF workVars, shownVars, watchVars, chainVars
<1>1. run \notin Early
  BY DEF UserAsks, UserAnswered, UserFailed, IInv, EarlyIsQuiet, Replacers
<1>2. CASE UserAsks(u)
  <2>1. TypeOK'
    BY <1>2 DEF IInv, TypeOK, UserAsks
  <2>2. RepliesAreHashes'
    BY <1>2 DEF UserAsks, IInv, TypeOK, RepliesAreHashes
  <2> QED
    BY <1>1, <1>2, <2>1, <2>2
    DEF UserAsks, IInv, CurrentIsShown, TerminalAgrees, EarlyIsQuiet, WatcherInside,
        WaitingIsOpen, DecodingIsMined, OutcomeIsLast, MinedIsSeen
<1>3. CASE UserAnswered(u)
  <2>1. reply[u] \in Hashes
    BY <1>3 DEF UserAnswered, IInv, RepliesAreHashes, Replacers
  <2>2. late' \in BOOLEAN
    BY <1>3 DEF UserAnswered
  <2>3. TypeOK'
    BY <1>3, <2>1, <2>2 DEF IInv, TypeOK, UserAnswered, Submitted, Over, Statuses
  <2>4. RepliesAreHashes'
    BY <1>3 DEF UserAnswered, Over, IInv, TypeOK, RepliesAreHashes
  <2>5. TerminalAgrees' /\ DecodingIsMined'
    BY <1>3 DEF UserAnswered, IInv, OutcomeIsLast, TerminalAgrees, DecodingIsMined
  <2> QED
    BY <1>1, <1>3, <2>1, <2>3, <2>4, <2>5, ValuesAssumption
    DEF UserAnswered, Submitted, IInv, CurrentIsShown, EarlyIsQuiet, WatcherInside,
        WaitingIsOpen, OutcomeIsLast, MinedIsSeen
<1>4. CASE UserFailed(u)
  <2>1. TypeOK'
    BY <1>4 DEF IInv, TypeOK, UserFailed, Over
  <2>2. RepliesAreHashes'
    BY <1>4 DEF UserFailed, Over, IInv, TypeOK, RepliesAreHashes
  <2> QED
    BY <1>1, <1>4, <2>1, <2>2
    DEF UserFailed, IInv, CurrentIsShown, TerminalAgrees, EarlyIsQuiet, WatcherInside,
        WaitingIsOpen, DecodingIsMined, OutcomeIsLast, MinedIsSeen
<1> QED
  BY <1>2, <1>3, <1>4

LEMMA ScopeKeepsIInv ==
    ASSUME IInv, CloseScope \/ CloseStep
    PROVE IInv'
<1> USE DEF workVars, shownVars, watchVars, reqVars, chainVars
<1>1. CASE CloseScope
  <2>1. TypeOK'
    BY <1>1 DEF IInv, TypeOK, CloseScope
  <2> QED
    BY <1>1, <2>1
    DEF CloseScope, IInv, CurrentIsShown, TerminalAgrees, EarlyIsQuiet, WatcherInside,
        WaitingIsOpen, DecodingIsMined, OutcomeIsLast, RepliesAreHashes, MinedIsSeen
<1>2. CASE WorkerInterrupted
  <2>1. terminal = "none"
    BY <1>2 DEF WorkerInterrupted, IInv, OutcomeIsLast
  <2>2. TypeOK'
    BY <1>2 DEF IInv, TypeOK, WorkerInterrupted, StopWatching, Over, Places
  <2>3. RepliesAreHashes'
    BY <1>2 DEF WorkerInterrupted, StopWatching, Over, IInv, TypeOK, RepliesAreHashes
  <2> QED
    BY <1>2, <2>1, <2>2, <2>3
    DEF WorkerInterrupted, StopWatching, IInv, CurrentIsShown, TerminalAgrees, EarlyIsQuiet,
        WatcherInside, WaitingIsOpen, DecodingIsMined, OutcomeIsLast, MinedIsSeen, Early
<1>3. CASE DeferredInterrupted
  <2>1. TypeOK'
    BY <1>3 DEF IInv, TypeOK, DeferredInterrupted
  <2> QED
    BY <1>3, <2>1
    DEF DeferredInterrupted, IInv, CurrentIsShown, TerminalAgrees, EarlyIsQuiet, WatcherInside,
        WaitingIsOpen, DecodingIsMined, OutcomeIsLast, RepliesAreHashes, MinedIsSeen, Early
<1> QED
  BY <1>1, <1>2, <1>3 DEF CloseStep

LEMMA StutterKeepsIInv == IInv /\ UNCHANGED vars => IInv'
<1> SUFFICES ASSUME IInv, UNCHANGED vars PROVE IInv'
  OBVIOUS
<1> USE DEF vars, workVars, shownVars, watchVars, reqVars, chainVars
<1>1. TypeOK'
  BY DEF IInv, TypeOK
<1> QED
  BY <1>1
  DEF IInv, CurrentIsShown, TerminalAgrees, EarlyIsQuiet, WatcherInside,
      WaitingIsOpen, DecodingIsMined, OutcomeIsLast, RepliesAreHashes, MinedIsSeen

LEMMA NextKeepsIInv == IInv /\ [Next]_vars => IInv'
  BY ChainKeepsIInv, WorkerKeepsIInv, WatcherKeepsIInv, UserKeepsIInv, ScopeKeepsIInv, StutterKeepsIInv
  DEF Next

THEOREM IInvHolds == Spec => []IInv
  BY InitEstablishesIInv, NextKeepsIInv, PTL DEF Spec

(* The state of a tracked transaction is always well formed; in particular
   automatic replacements that were answered stay within the policy. *)
THEOREM TypeCorrect == Spec => []TypeOK
<1>1. IInv => TypeOK
  BY DEF IInv
<1> QED
  BY <1>1, IInvHolds, PTL

(* Cancel, speedup and automatic replacement act on the hash the UI shows. *)
THEOREM ShownIsCurrent == Spec => []CurrentIsShown
<1>1. IInv => CurrentIsShown
  BY DEF IInv
<1> QED
  BY <1>1, IInvHolds, PTL

(* The terminal outcome and the tracked state tell the same story. *)
THEOREM OutcomeAgrees == Spec => []TerminalAgrees
<1>1. IInv => TerminalAgrees
  BY DEF IInv
<1> QED
  BY <1>1, IInvHolds, PTL

(* The tracked state is well formed, acts on what it shows, and agrees with the
   outcome. *)
THEOREM ShownIsSound == Spec => []ShownSound
BY TypeCorrect, ShownIsCurrent, OutcomeAgrees, PTL DEF ShownSound

SettledStep ==
    (status \in Settled /\ status' # status)
        => (run = "decoding" /\ status' = "failed") \/ (\E u \in Users : UserAnswered(u))

(* The steps that write the state do so before it is settled. *)
LEMMA StepKeepsSettled == IInv /\ [Next]_vars => SettledStep
<1> SUFFICES ASSUME IInv, [Next]_vars, status \in Settled, status' # status
             PROVE (run = "decoding" /\ status' = "failed") \/ (\E u \in Users : UserAnswered(u))
  BY DEF SettledStep
<1>1. run \notin Early /\ run # "waiting" /\ watcher = "off"
  BY DEF IInv, EarlyIsQuiet, WaitingIsOpen, WatcherInside, Settled
<1> USE DEF workVars, shownVars, watchVars, reqVars, chainVars
<1>2. CASE Mine \/ Reorg \/ \E r \in Replacers : Lands(r)
  BY <1>2 DEF Mine, Reorg, Lands
<1>3. CASE RunStep \/ WriteSent \/ WriteFails
  BY <1>1, <1>3
  DEF RunStep, Start, PreflightEnds, WriteSent, WriteFails, ReceiptReplaced, ReceiptRetried,
      ReceiptFails, ReceiptArrives, DecodeEnds, Fail, Early
<1>4. CASE NewBlock \/ AutoAnswered \/ AutoFailed
  BY <1>1, <1>4 DEF NewBlock, AutoAnswered, AutoFailed
<1>5. CASE \E u \in Users : UserAsks(u) \/ UserAnswered(u) \/ UserFailed(u)
  BY <1>5 DEF UserAsks, UserFailed
<1>6. CASE CloseScope \/ CloseStep
  BY <1>6 DEF CloseScope, CloseStep, WorkerInterrupted, DeferredInterrupted
<1>7. CASE UNCHANGED vars
  BY <1>7 DEF vars
<1> QED
  BY <1>2, <1>3, <1>4, <1>5, <1>6, <1>7 DEF Next

(* No block and no automatic replacement brings a settled transaction back. *)
THEOREM SettledIsKept == Spec => SettledStays
<1>1. IInv /\ [Next]_vars => [SettledStep]_vars
  BY StepKeepsSettled
<1>2. [][SettledStep]_vars => SettledStays
  BY DEF SettledStays, SettledStep
<1> QED
  BY <1>1, <1>2, IInvHolds, PTL DEF Spec

----------------------------------------------------------------------------
(* The wallet.  What the page will show once everything sent is handled is
   the last value on its way, or the one it shows; the invariant says of that
   value what the property says of the one shown in the end. *)

LastOf(s) == s[Len(s)]

Coming ==
    IF wire # <<>> THEN LastOf(wire)
    ELSE IF inbox # <<>> THEN LastOf(inbox)
    ELSE IF out # <<>> THEN LastOf(out)
    ELSE snapshot.value

Wanted == IF inner = NoWallet THEN NoAccounts ELSE accounts[inner]

RunsAgree ==
    /\ snapshot.run = hookRun
    /\ streaming # 0 => mounted /\ streaming = hookRun

ShowsLast ==
    /\ streaming = 0 => refChanges = <<>> /\ out = <<>> /\ inbox = <<>> /\ inner = NoWallet
    /\ inner = NoWallet => ~requested /\ wire = <<>>
    /\ refChanges # <<>> => LastOf(refChanges) = provider
    /\ streaming # 0 /\ refChanges = <<>> => inner = provider

Follows ==
    streaming # 0 /\ refChanges = <<>> /\ ~requested /\ ~unanswered => Coming = Wanted

WalletInv == WalletTypeOK /\ RunsAgree /\ ShowsLast /\ Follows

LEMMA AppendLast ==
  ASSUME NEW S, NEW s \in Seq(S), NEW v \in S
  PROVE  /\ Append(s, v) \in Seq(S) /\ Append(s, v) # <<>>
         /\ LastOf(Append(s, v)) = v
  BY DEF LastOf

LEMMA TailLast ==
  ASSUME NEW S, NEW s \in Seq(S), s # <<>>
  PROVE  /\ Tail(s) \in Seq(S) /\ Head(s) \in S
         /\ Tail(s) # <<>> => LastOf(Tail(s)) = LastOf(s)
         /\ Tail(s) = <<>> => Head(s) = LastOf(s)
<1>1. /\ Tail(s) \in Seq(S) /\ Head(s) \in S /\ Len(Tail(s)) = Len(s) - 1
      /\ \A i \in 1..Len(Tail(s)) : Tail(s)[i] = s[i + 1]
  BY HeadTailProperties
<1>2. Len(s) \in Nat \ {0} /\ (Tail(s) # <<>> => Len(Tail(s)) \in Nat \ {0})
  BY <1>1, EmptySeq
<1>3. Tail(s) # <<>> => LastOf(Tail(s)) = LastOf(s)
  BY <1>1, <1>2 DEF LastOf
<1>4. ASSUME Tail(s) = <<>> PROVE Head(s) = LastOf(s)
  <2>1. Len(s) = 1
    BY <1>1, <1>2, <1>4, EmptySeq
  <2> QED BY <2>1 DEF LastOf
<1> QED BY <1>1, <1>3, <1>4

LEMMA OneLast ==
  ASSUME NEW S, NEW v \in S
  PROVE  <<v>> \in Seq(S) /\ <<v>> # <<>> /\ LastOf(<<v>>) = v
  BY DEF LastOf

LEMMA NoneLast == ASSUME NEW S PROVE <<>> \in Seq(S)
  OBVIOUS

Values == NoAccounts..MaxAccounts
Providers == Wallets \union {NoWallet}

(* The sequences, the numbers and the flags of the type invariant. *)
LEMMA WalletTypes ==
  ASSUME WalletTypeOK
  PROVE  /\ wire \in Seq(Values) /\ inbox \in Seq(Values) /\ out \in Seq(Values)
         /\ refChanges \in Seq(Providers) /\ provider \in Providers /\ inner \in Providers
         /\ accounts \in [Wallets -> 0..MaxAccounts]
         /\ sets \in 0..MaxSets /\ hookRun \in 0..MaxRuns /\ scoping \in SUBSET (1..hookRun)
         /\ streaming \in 0..hookRun /\ snapshot.run \in 0..MaxRuns
         /\ mounted \in BOOLEAN /\ requested \in BOOLEAN /\ unanswered \in BOOLEAN
  BY DEF WalletTypeOK, Values, Providers

LEMMA WalletTypesBack ==
  ASSUME /\ wire' \in Seq(Values) /\ inbox' \in Seq(Values) /\ out' \in Seq(Values)
         /\ refChanges' \in Seq(Providers) /\ provider' \in Providers /\ inner' \in Providers
         /\ accounts' \in [Wallets -> 0..MaxAccounts]
         /\ sets' \in 0..MaxSets /\ hookRun' \in 0..MaxRuns /\ scoping' \in SUBSET (1..hookRun')
         /\ streaming' \in 0..hookRun' /\ snapshot'.run \in 0..MaxRuns
         /\ mounted' \in BOOLEAN /\ requested' \in BOOLEAN /\ unanswered' \in BOOLEAN
  PROVE  WalletTypeOK'
  BY DEF WalletTypeOK, Values, Providers

LEMMA AccountsChangeKeeps ==
  ASSUME WalletInv, NEW w \in Wallets, AccountsChange(w)
  PROVE  WalletInv'
<1> USE DEF WalletInv
<1>1. /\ accounts' = [accounts EXCEPT ![w] = @ + 1] /\ accounts'[w] \in Values
      /\ accounts' \in [Wallets -> 0..MaxAccounts]
  BY WalletTypes, WalletAssumption DEF AccountsChange, Values, NoAccounts, WalletAssumption
<1>2. /\ wire' = IF inner = w THEN Append(wire, accounts'[w]) ELSE wire
      /\ UNCHANGED <<provider, sets, mounted, hookRun, scoping, streaming, refChanges, inner,
                     requested, inbox, unanswered, out, snapshot>>
  BY DEF AccountsChange, hookVars
<1>3. wire' \in Seq(Values) /\ (inner = w => wire' # <<>> /\ LastOf(wire') = accounts'[w])
  <2>1. wire \in Seq(Values)
    BY WalletTypes
  <2>2. /\ Append(wire, accounts'[w]) \in Seq(Values) /\ Append(wire, accounts'[w]) # <<>>
        /\ LastOf(Append(wire, accounts'[w])) = accounts'[w]
    BY <1>1, <2>1, AppendLast
  <2> QED BY <1>2, <2>1, <2>2
<1>4. WalletTypeOK'
  BY <1>1, <1>2, <1>3, WalletTypes, WalletTypesBack
<1>5. RunsAgree' /\ ShowsLast'
  BY <1>2, WalletAssumption DEF RunsAgree, ShowsLast, WalletAssumption
<1>6. Follows'
  <2>1. CASE inner = w
    BY <1>2, <1>3, <2>1, WalletAssumption DEF Follows, Coming, Wanted, WalletAssumption
  <2>2. CASE inner # w
    <3>1. Wanted' = Wanted
      BY <1>1, <1>2, <2>2, WalletTypes DEF Wanted, Providers
    <3> QED BY <1>2, <2>2, <3>1 DEF Follows, Coming
  <2> QED BY <2>1, <2>2
<1> QED BY <1>4, <1>5, <1>6

LEMMA AnswersKeeps ==
  ASSUME WalletInv, Answers
  PROVE  WalletInv'
<1> USE DEF WalletInv
<1>1. inner \in Wallets /\ accounts[inner] \in Values /\ NoAccounts \in Values
  BY WalletTypes, WalletAssumption
     DEF Answers, ShowsLast, Values, Providers, NoAccounts, WalletAssumption
<1>2. /\ requested' = FALSE
      /\ UNCHANGED <<accounts, provider, sets, mounted, hookRun, scoping, streaming, refChanges,
                     inner, inbox, out, snapshot>>
  BY DEF Answers, hookVars
<1>3. CASE wire' = Append(wire, accounts[inner]) /\ UNCHANGED unanswered
  <2>1. wire' \in Seq(Values) /\ wire' # <<>> /\ LastOf(wire') = accounts[inner]
    BY <1>1, <1>3, AppendLast, WalletTypes
  <2>2. WalletTypeOK'
    BY <1>2, <1>3, <2>1, WalletTypes, WalletTypesBack
  <2>3. RunsAgree' /\ ShowsLast'
    BY <1>1, <1>2, WalletAssumption DEF RunsAgree, ShowsLast, WalletAssumption
  <2>4. Follows'
    BY <1>1, <1>2, <2>1, WalletAssumption DEF Follows, Coming, Wanted, WalletAssumption
  <2> QED BY <2>2, <2>3, <2>4
<1>4. CASE wire' = Append(wire, NoAccounts) /\ unanswered' = TRUE
  <2>1. wire' \in Seq(Values)
    BY <1>1, <1>4, AppendLast, WalletTypes
  <2>2. WalletTypeOK'
    BY <1>2, <1>4, <2>1, WalletTypes, WalletTypesBack
  <2>3. RunsAgree' /\ ShowsLast' /\ Follows'
    BY <1>1, <1>2, <1>4, WalletAssumption DEF RunsAgree, ShowsLast, Follows, WalletAssumption
  <2> QED BY <2>2, <2>3
<1> QED BY <1>3, <1>4 DEF Answers

LEMMA HandlesKeeps ==
  ASSUME WalletInv, Handles
  PROVE  WalletInv'
<1> USE DEF WalletInv
<1>1. /\ wire # <<>> /\ inbox' = Append(inbox, Head(wire)) /\ wire' = Tail(wire)
      /\ UNCHANGED <<accounts, provider, sets, mounted, hookRun, scoping, streaming, refChanges,
                     inner, requested, unanswered, out, snapshot>>
  BY DEF Handles, hookVars
<1>2. /\ wire' \in Seq(Values) /\ inbox' \in Seq(Values) /\ inbox' # <<>>
      /\ wire' # <<>> => LastOf(wire') = LastOf(wire)
      /\ wire' = <<>> => LastOf(inbox') = LastOf(wire)
  <2>1. wire \in Seq(Values) /\ inbox \in Seq(Values)
    BY WalletTypes
  <2>2. /\ Tail(wire) \in Seq(Values) /\ Head(wire) \in Values
        /\ Tail(wire) # <<>> => LastOf(Tail(wire)) = LastOf(wire)
        /\ Tail(wire) = <<>> => Head(wire) = LastOf(wire)
    BY <1>1, <2>1, TailLast
  <2>3. /\ Append(inbox, Head(wire)) \in Seq(Values) /\ Append(inbox, Head(wire)) # <<>>
        /\ LastOf(Append(inbox, Head(wire))) = Head(wire)
    BY <2>1, <2>2, AppendLast
  <2> QED BY <1>1, <2>2, <2>3
<1>3. WalletTypeOK'
  BY <1>1, <1>2, WalletTypes, WalletTypesBack
<1>4. RunsAgree' /\ ShowsLast'
  <2>1. streaming # 0 /\ inner # NoWallet
    BY <1>1 DEF ShowsLast
  <2> QED BY <1>1, <2>1 DEF RunsAgree, ShowsLast
<1>5. Coming' = Coming /\ Wanted' = Wanted
  BY <1>1, <1>2 DEF Coming, Wanted
<1> QED BY <1>1, <1>3, <1>4, <1>5 DEF Follows

LEMMA SetProviderKeeps ==
  ASSUME WalletInv, SetProvider
  PROVE  WalletInv'
<1> USE DEF WalletInv
<1>1. /\ provider' \in Providers /\ sets' = sets + 1 /\ sets < MaxSets
      /\ refChanges' = IF streaming # 0 THEN Append(refChanges, provider') ELSE refChanges
      /\ UNCHANGED <<accounts, mounted, hookRun, scoping, streaming, inner, requested, wire, inbox,
                     unanswered, out, snapshot>>
  BY DEF SetProvider, hookVars, innerVars, Providers
<1>2. /\ refChanges' \in Seq(Providers)
      /\ streaming # 0 => refChanges' # <<>> /\ LastOf(refChanges') = provider'
      /\ streaming = 0 => refChanges' = <<>>
  <2>1. refChanges \in Seq(Providers)
    BY WalletTypes
  <2>2. /\ Append(refChanges, provider') \in Seq(Providers) /\ Append(refChanges, provider') # <<>>
        /\ LastOf(Append(refChanges, provider')) = provider'
    BY <1>1, <2>1, AppendLast
  <2> QED BY <1>1, <2>1, <2>2 DEF ShowsLast
<1>3. sets' \in 0..MaxSets
  BY <1>1, WalletTypes, WalletAssumption DEF WalletAssumption
<1>4. WalletTypeOK'
  BY <1>1, <1>2, <1>3, WalletTypes, WalletTypesBack
<1>5. RunsAgree' /\ ShowsLast' /\ Follows'
  BY <1>1, <1>2 DEF RunsAgree, ShowsLast, Follows
<1> QED BY <1>4, <1>5

LEMMA SwitchMapKeeps ==
  ASSUME WalletInv, switchMap
  PROVE  WalletInv'
<1> USE DEF WalletInv
<1>1. /\ refChanges # <<>> /\ refChanges' = Tail(refChanges) /\ inner' = Head(refChanges)
      /\ inbox' = IF Head(refChanges) = NoWallet THEN <<NoAccounts>> ELSE <<>>
      /\ wire' = <<>>
      /\ UNCHANGED <<accounts, provider, sets, mounted, hookRun, scoping, streaming, out, snapshot>>
  BY DEF switchMap, Inner, hookVars
<1>2. requested' = (Head(refChanges) # NoWallet) /\ unanswered' = FALSE
  BY DEF switchMap, Inner
<1>3. /\ refChanges' \in Seq(Providers) /\ inner' \in Providers
      /\ refChanges' # <<>> => LastOf(refChanges') = provider'
      /\ refChanges' = <<>> => inner' = provider'
  <2>1. refChanges \in Seq(Providers) /\ LastOf(refChanges) = provider
    BY <1>1, WalletTypes DEF ShowsLast
  <2>2. /\ Tail(refChanges) \in Seq(Providers) /\ Head(refChanges) \in Providers
        /\ Tail(refChanges) # <<>> => LastOf(Tail(refChanges)) = LastOf(refChanges)
        /\ Tail(refChanges) = <<>> => Head(refChanges) = LastOf(refChanges)
    BY <1>1, <2>1, TailLast
  <2> QED BY <1>1, <2>1, <2>2
<1>4. wire' \in Seq(Values) /\ inbox' \in Seq(Values)
  <2>1. NoAccounts \in Values
    BY WalletAssumption DEF Values, NoAccounts, WalletAssumption
  <2>2. <<NoAccounts>> \in Seq(Values)
    BY <2>1, OneLast
  <2> QED BY <1>1, <2>2, NoneLast
<1>5. WalletTypeOK'
  <2>1. requested' \in BOOLEAN /\ unanswered' \in BOOLEAN
    BY <1>2
  <2> QED BY <1>1, <1>3, <1>4, <2>1, WalletTypes, WalletTypesBack
<1>6. streaming # 0
  BY <1>1 DEF ShowsLast
<1>7. RunsAgree' /\ ShowsLast'
  BY <1>1, <1>2, <1>3, <1>6 DEF RunsAgree, ShowsLast
<1>8. Follows'
  <2>1. CASE Head(refChanges) = NoWallet
    <3>1. inbox' # <<>> /\ LastOf(inbox') = NoAccounts
      BY <1>1, <2>1 DEF LastOf
    <3> QED BY <1>1, <2>1, <3>1 DEF Follows, Coming, Wanted
  <2>2. CASE Head(refChanges) # NoWallet
    BY <1>2, <2>2 DEF Follows
  <2> QED BY <2>1, <2>2
<1> QED BY <1>5, <1>7, <1>8

LEMMA PassOnKeeps ==
  ASSUME WalletInv, PassOn
  PROVE  WalletInv'
<1> USE DEF WalletInv
<1>1. /\ inbox # <<>> /\ out' = Append(out, Head(inbox)) /\ inbox' = Tail(inbox)
      /\ UNCHANGED <<accounts, provider, sets, mounted, hookRun, scoping, streaming, refChanges,
                     inner, requested, wire, unanswered, snapshot>>
  BY DEF PassOn, hookVars
<1>2. /\ inbox' \in Seq(Values) /\ out' \in Seq(Values) /\ out' # <<>>
      /\ inbox' # <<>> => LastOf(inbox') = LastOf(inbox)
      /\ inbox' = <<>> => LastOf(out') = LastOf(inbox)
  <2>1. inbox \in Seq(Values) /\ out \in Seq(Values)
    BY WalletTypes
  <2>2. /\ Tail(inbox) \in Seq(Values) /\ Head(inbox) \in Values
        /\ Tail(inbox) # <<>> => LastOf(Tail(inbox)) = LastOf(inbox)
        /\ Tail(inbox) = <<>> => Head(inbox) = LastOf(inbox)
    BY <1>1, <2>1, TailLast
  <2>3. /\ Append(out, Head(inbox)) \in Seq(Values) /\ Append(out, Head(inbox)) # <<>>
        /\ LastOf(Append(out, Head(inbox))) = Head(inbox)
    BY <2>1, <2>2, AppendLast
  <2> QED BY <1>1, <2>2, <2>3
<1>3. WalletTypeOK'
  BY <1>1, <1>2, WalletTypes, WalletTypesBack
<1>4. RunsAgree' /\ ShowsLast'
  <2>1. streaming # 0
    BY <1>1 DEF ShowsLast
  <2> QED BY <1>1, <2>1 DEF RunsAgree, ShowsLast
<1>5. Coming' = Coming /\ Wanted' = Wanted
  BY <1>1, <1>2 DEF Coming, Wanted
<1> QED BY <1>1, <1>3, <1>4, <1>5 DEF Follows

LEMMA SetSnapshotKeeps ==
  ASSUME WalletInv, setSnapshot
  PROVE  WalletInv'
<1> USE DEF WalletInv
<1>1. /\ out # <<>> /\ out' = Tail(out) /\ snapshot' = [run |-> streaming, value |-> Head(out)]
      /\ UNCHANGED <<accounts, provider, sets, mounted, hookRun, scoping, streaming, refChanges,
                     inner, requested, wire, inbox, unanswered>>
  BY DEF setSnapshot, hookVars, innerVars
<1>2. snapshot'.run = streaming /\ snapshot'.value = Head(out)
  BY <1>1
<1>3. /\ out' \in Seq(Values)
      /\ out' # <<>> => LastOf(out') = LastOf(out)
      /\ out' = <<>> => snapshot'.value = LastOf(out)
  <2>1. out \in Seq(Values)
    BY WalletTypes
  <2>2. /\ Tail(out) \in Seq(Values)
        /\ Tail(out) # <<>> => LastOf(Tail(out)) = LastOf(out)
        /\ Tail(out) = <<>> => Head(out) = LastOf(out)
    BY <1>1, <2>1, TailLast
  <2> QED BY <1>1, <1>2, <2>2
<1>4. streaming # 0 /\ streaming = hookRun
  BY <1>1 DEF ShowsLast, RunsAgree
<1>5. WalletTypeOK'
  BY <1>1, <1>2, <1>3, <1>4, WalletTypes, WalletTypesBack DEF RunsAgree
<1>6. RunsAgree' /\ ShowsLast'
  BY <1>1, <1>2, <1>4 DEF RunsAgree, ShowsLast
<1>7. Coming' = Coming /\ Wanted' = Wanted
  BY <1>1, <1>2, <1>3 DEF Coming, Wanted
<1> QED BY <1>1, <1>5, <1>6, <1>7 DEF Follows

(* The hook's steps: a stream that is interrupted leaves nothing behind, and
   one that begins has the reference's value before it. *)
LEMMA StreamOffKeeps ==
  ASSUME WalletInv, StreamOff, UNCHANGED <<accounts, provider, sets>>,
         mounted' \in BOOLEAN, hookRun' \in 0..MaxRuns, scoping' \in SUBSET (1..hookRun'),
         snapshot'.run = hookRun'
  PROVE  WalletInv'
<1> USE DEF WalletInv
<1>1. /\ streaming' = 0 /\ refChanges' = <<>> /\ out' = <<>> /\ inner' = NoWallet
      /\ inbox' = <<>> /\ wire' = <<>>
  BY DEF StreamOff, Inner
<1>2. requested' = FALSE /\ unanswered' = FALSE
  BY DEF StreamOff, Inner
<1>3. WalletTypeOK'
  <2>1. /\ requested' \in BOOLEAN /\ unanswered' \in BOOLEAN
    BY <1>2
  <2>2. streaming' \in 0..hookRun' /\ inner' \in Providers /\ snapshot'.run \in 0..MaxRuns
    BY <1>1 DEF Providers
  <2>3. /\ wire' \in Seq(Values) /\ inbox' \in Seq(Values) /\ out' \in Seq(Values)
        /\ refChanges' \in Seq(Providers)
    BY <1>1, NoneLast
  <2>4. provider' \in Providers /\ accounts' \in [Wallets -> 0..MaxAccounts] /\ sets' \in 0..MaxSets
    BY WalletTypes
  <2> QED BY <2>1, <2>2, <2>3, <2>4, WalletTypesBack
<1>4. RunsAgree' /\ ShowsLast' /\ Follows'
  BY <1>1, <1>2 DEF RunsAgree, ShowsLast, Follows
<1> QED BY <1>3, <1>4

LEMMA RenderKeeps ==
  ASSUME WalletInv, Render
  PROVE  WalletInv'
<1>1. mounted' \in BOOLEAN
  BY DEF Render
<1>2. /\ hookRun' \in 0..MaxRuns /\ scoping' \in SUBSET (1..hookRun') /\ snapshot'.run = hookRun'
  <2>1. hookRun \in 0..MaxRuns /\ scoping \in SUBSET (1..hookRun)
    BY WalletTypes DEF WalletInv
  <2>2. /\ hookRun < MaxRuns /\ hookRun' = hookRun + 1 /\ scoping' = scoping \union {hookRun + 1}
        /\ snapshot' = [run |-> hookRun + 1, value |-> NotYet]
    BY DEF Render, Starting
  <2> QED BY <2>1, <2>2, WalletAssumption DEF WalletAssumption
<1> QED BY <1>1, <1>2, StreamOffKeeps DEF Render

LEMMA UnmountKeeps ==
  ASSUME WalletInv, Unmount
  PROVE  WalletInv'
<1>1. mounted' \in BOOLEAN
  BY DEF Unmount
<1>2. /\ hookRun' \in 0..MaxRuns /\ scoping' \in SUBSET (1..hookRun') /\ snapshot'.run = hookRun'
  BY WalletTypes DEF Unmount, WalletInv, RunsAgree
<1> QED BY <1>1, <1>2, StreamOffKeeps DEF Unmount

LEMMA ScopeReadyKeeps ==
  ASSUME WalletInv, NEW r \in scoping, ScopeReady(r)
  PROVE  WalletInv'
<1> USE DEF WalletInv
<1>1. /\ scoping' = scoping \ {r}
      /\ UNCHANGED <<accounts, provider, sets, mounted, hookRun, inner, requested, wire, inbox,
                     unanswered, out, snapshot>>
  BY DEF ScopeReady, innerVars
<1>2. r \in 1..hookRun /\ hookRun \in Nat
  BY WalletTypes, WalletAssumption DEF WalletAssumption
<1>3. CASE mounted /\ r = hookRun
  <2>1. streaming' = r /\ refChanges' = <<provider>>
    BY <1>3 DEF ScopeReady, Subscribes
  <2>2. refChanges' \in Seq(Providers) /\ refChanges' # <<>> /\ LastOf(refChanges') = provider
    BY <2>1, OneLast, WalletTypes
  <2>3. streaming' \in 0..hookRun /\ streaming' # 0 /\ streaming' = hookRun
    BY <1>2, <1>3, <2>1
  <2>4. WalletTypeOK'
    BY <1>1, <2>2, <2>3, WalletTypes, WalletTypesBack
  <2>5. RunsAgree' /\ ShowsLast' /\ Follows'
    BY <1>1, <1>3, <2>2, <2>3 DEF RunsAgree, ShowsLast, Follows
  <2> QED BY <2>4, <2>5
<1>4. CASE ~(mounted /\ r = hookRun)
  <2>1. UNCHANGED <<streaming, refChanges>>
    BY <1>4 DEF ScopeReady
  <2>2. WalletTypeOK'
    BY <1>1, <2>1, WalletTypes, WalletTypesBack
  <2>3. RunsAgree' /\ ShowsLast' /\ Follows'
    BY <1>1, <2>1 DEF RunsAgree, ShowsLast, Follows, Coming, Wanted
  <2> QED BY <2>2, <2>3
<1> QED BY <1>3, <1>4

LEMMA WalletInvShows == WalletInv => WalletShownIsCurrent
  BY DEF WalletInv, WalletShownIsCurrent, RunsAgree, ShowsLast, Follows, Coming, Wanted, WalletQuiet

(* For any wallets, any number of changes, of providers and of renders, in
   every order: once everything sent is handled the page shows the accounts of
   the wallet that is set as they are now: WalletShownIsCurrent. *)
THEOREM PageShowsTheWallet == WalletSpec => []WalletShownIsCurrent
<1>1. WalletInit => WalletInv
  <2> SUFFICES ASSUME WalletInit PROVE WalletInv
    OBVIOUS
  <2>1. /\ accounts = [w \in Wallets |-> 0] /\ provider = NoWallet /\ sets = 0
        /\ hookRun = 0 /\ scoping = {} /\ streaming = 0 /\ refChanges = <<>> /\ out = <<>>
        /\ inner = NoWallet /\ wire = <<>> /\ inbox = <<>>
        /\ snapshot = [run |-> 0, value |-> NotYet]
    BY DEF WalletInit, Starting
  <2>2. mounted = FALSE /\ requested = FALSE /\ unanswered = FALSE
    BY DEF WalletInit
  <2>3. snapshot.run = 0 /\ MaxAccounts \in Nat /\ MaxSets \in Nat /\ MaxRuns \in Nat
    BY <2>1, WalletAssumption DEF WalletAssumption
  <2>4. WalletTypeOK
    <3>1. accounts \in [Wallets -> 0..MaxAccounts] /\ sets \in 0..MaxSets /\ hookRun \in 0..MaxRuns
      BY <2>1, <2>3
    <3>2. scoping \in SUBSET (1..hookRun) /\ streaming \in 0..hookRun /\ snapshot.run \in 0..MaxRuns
      BY <2>1, <2>3
    <3>3. mounted \in BOOLEAN /\ requested \in BOOLEAN /\ unanswered \in BOOLEAN
      BY <2>2
    <3>4. /\ provider \in Wallets \union {NoWallet} /\ inner \in Wallets \union {NoWallet}
          /\ refChanges \in Seq(Wallets \union {NoWallet})
          /\ wire \in Seq(NoAccounts..MaxAccounts) /\ inbox \in Seq(NoAccounts..MaxAccounts)
          /\ out \in Seq(NoAccounts..MaxAccounts)
      BY <2>1
    <3> QED BY <3>1, <3>2, <3>3, <3>4 DEF WalletTypeOK
  <2>5. RunsAgree /\ ShowsLast /\ Follows
    BY <2>1, <2>2, <2>3 DEF RunsAgree, ShowsLast, Follows
  <2> QED BY <2>4, <2>5 DEF WalletInv
<1>2. WalletInv /\ [WalletNext]_viewVars => WalletInv'
  <2> SUFFICES ASSUME WalletInv, [WalletNext]_viewVars PROVE WalletInv'
    OBVIOUS
  <2>1. CASE UNCHANGED viewVars
    BY <2>1 DEF viewVars, hookVars, innerVars, WalletInv, WalletTypeOK, RunsAgree, ShowsLast, Follows,
                Coming, Wanted, LastOf
  <2> QED
    BY <2>1, AccountsChangeKeeps, AnswersKeeps, HandlesKeeps, SetProviderKeeps, SwitchMapKeeps,
       PassOnKeeps, RenderKeeps, UnmountKeeps, ScopeReadyKeeps, SetSnapshotKeeps DEF WalletNext
<1> QED BY <1>1, <1>2, WalletInvShows, PTL DEF WalletSpec

----------------------------------------------------------------------------
(* The runtime of a page.  What is set belongs to the effect that was not
   cleaned up, and effects to come have neither runtime nor child. *)

RuntimeStates == {"off", "building", "ready", "open", "closing", "closed", "failing", "failed"}
ChildStates == {"off", "scoping", "dropped", "running", "stopping", "done"}

PageTypeOK ==
    /\ providerKind \in {"async", "sync"}
    /\ layer \in Layers \union {NoLayer} /\ mounts \in 0..MaxMounts /\ built \in 0..MaxMounts
    /\ layerOf \in [Mounts -> Layers \union {NoLayer}]
    /\ runtimeAt \in [Mounts -> RuntimeStates] /\ closings \in [Mounts -> Nat]
    /\ childAt \in [Mounts -> ChildStates]

PageInv ==
    /\ PageTypeOK
    /\ layer # NoLayer => mounts \in Mounts /\ layerOf[mounts] = layer
    /\ built # 0 /\ layer # NoLayer => built = mounts /\ runtimeAt[built] = "open"
    /\ \A n \in Mounts :
         /\ n > mounts => runtimeAt[n] = "off" /\ childAt[n] = "off"
         /\ runtimeAt[n] = "open" => layer # NoLayer /\ n = mounts /\ n = built
         /\ childAt[n] = "running" => runtimeAt[n] = "open"
         /\ closings[n] = IF runtimeAt[n] \in {"closing", "closed"} THEN 1 ELSE 0

LEMMA PageInitially == PageInit => PageInv
BY RuntimeAssumption DEF PageInit, PageInv, PageTypeOK, Mounts, RuntimeStates, ChildStates

(* Whatever cleans up an effect leaves no runtime open and no child running. *)
LEMMA CleanupKeeps ==
  ASSUME PageInv, NEW m \in Mounts
  PROVE  /\ closed(runtimeAt)[m] # "open" /\ childrenDropped[m] # "running"
         /\ closed(runtimeAt)[m] \in RuntimeStates /\ childrenDropped[m] \in ChildStates
         /\ closingsAfter[m] = IF closed(runtimeAt)[m] \in {"closing", "closed"} THEN 1 ELSE 0
         /\ m > mounts => closed(runtimeAt)[m] = "off" /\ childrenDropped[m] = "off"
<1>1. runtimeAt[m] = "open" => m = active
  BY DEF PageInv, active
<1>2. runtimeAt[m] \in RuntimeStates /\ childAt[m] \in ChildStates
  BY DEF PageInv, PageTypeOK
<1>3. closed(runtimeAt)[m] = IF m = active /\ runtimeAt[m] = "open" THEN "closing" ELSE runtimeAt[m]
  BY DEF closed
<1>4. childrenDropped[m] = IF m = active THEN dropped(childAt[m]) ELSE childAt[m]
  BY DEF childrenDropped
<1>5. childrenDropped[m] # "running" /\ childrenDropped[m] \in ChildStates
  BY <1>1, <1>2, <1>4 DEF PageInv, dropped, ChildStates
<1>6. m > mounts => childrenDropped[m] = "off"
  BY <1>4 DEF PageInv, dropped
<1>7. closingsAfter[m] = IF closed(runtimeAt)[m] \in {"closing", "closed"} THEN 1 ELSE 0
  BY <1>1, <1>3 DEF PageInv, closingsAfter
<1> QED BY <1>1, <1>2, <1>3, <1>5, <1>6, <1>7 DEF PageInv, RuntimeStates

LEMMA CommitKeeps ==
  ASSUME PageInv, NEW l \in Layers, Commit(l)
  PROVE  PageInv'
<1> DEFINE n == mounts + 1
<1>1. n \in Mounts /\ mounts' = n /\ mounts \in Nat
  BY DEF Commit, PageInv, PageTypeOK
<1>2. /\ DOMAIN closed(runtimeAt) = Mounts /\ childAt' = childrenDropped
      /\ childAt' \in [Mounts -> ChildStates]
  BY CleanupKeeps DEF Commit, closed, childrenDropped
<1>3. closings' = closingsAfter /\ closings' \in [Mounts -> Nat]
  BY DEF Commit, closingsAfter, PageInv, PageTypeOK
<1>4. layerOf' = [layerOf EXCEPT ![n] = l] /\ layerOf' \in [Mounts -> Layers \union {NoLayer}]
      /\ layerOf'[n] = l
  BY <1>1 DEF Commit, PageInv, PageTypeOK
<1>5. \E place \in {"building", "open", "failing"} :
         /\ runtimeAt' = [closed(runtimeAt) EXCEPT ![n] = place]
         /\ \/ place = "building" /\ layer' = l /\ built' = 0
            \/ place = "open" /\ layer' = l /\ built' = n
            \/ place = "failing" /\ layer' = NoLayer /\ built' = built
  BY DEF Commit
<1>6. PICK place \in {"building", "open", "failing"} :
         /\ runtimeAt' = [closed(runtimeAt) EXCEPT ![n] = place]
         /\ \/ place = "building" /\ layer' = l /\ built' = 0
            \/ place = "open" /\ layer' = l /\ built' = n
            \/ place = "failing" /\ layer' = NoLayer /\ built' = built
  BY <1>5
<1>7. \A m \in Mounts : runtimeAt'[m] = IF m = n THEN place ELSE closed(runtimeAt)[m]
  BY <1>1, <1>2, <1>6 DEF closed
<1>8. PageTypeOK'
  <2>1. runtimeAt' \in [Mounts -> RuntimeStates]
    BY <1>2, <1>6, <1>7, CleanupKeeps DEF RuntimeStates
  <2>2. layer' \in Layers \union {NoLayer}
    BY <1>6
  <2>a. built \in 0..MaxMounts /\ n \in 0..MaxMounts /\ 0 \in 0..MaxMounts
    BY <1>1, RuntimeAssumption DEF PageInv, PageTypeOK, Mounts
  <2>b. built' \in 0..MaxMounts
    BY <1>6, <2>a
  <2>3. mounts' \in 0..MaxMounts /\ providerKind' = providerKind
    BY <1>1 DEF Commit, Mounts
  <2> QED BY <1>2, <1>3, <1>4, <2>1, <2>2, <2>b, <2>3 DEF PageInv, PageTypeOK
<1>9. layer' # NoLayer => mounts' \in Mounts /\ layerOf'[mounts'] = layer'
  BY <1>1, <1>4, <1>6
<1>10. built' # 0 /\ layer' # NoLayer => built' = mounts' /\ runtimeAt'[built'] = "open"
  BY <1>1, <1>6, <1>7
<1>11. ASSUME NEW m \in Mounts
       PROVE  /\ m > mounts' => runtimeAt'[m] = "off" /\ childAt'[m] = "off"
              /\ runtimeAt'[m] = "open" => layer' # NoLayer /\ m = mounts' /\ m = built'
              /\ childAt'[m] = "running" => runtimeAt'[m] = "open"
              /\ closings'[m] = IF runtimeAt'[m] \in {"closing", "closed"} THEN 1 ELSE 0
  <2>1. CASE m = n
    <3>1. n > mounts
      BY <1>1
    <3>2. closingsAfter[n] = 0 /\ childAt'[n] # "running"
      BY <1>1, <1>2, <3>1, CleanupKeeps
    <3> QED BY <1>1, <1>3, <1>6, <1>7, <2>1, <3>2, RuntimeAssumption
  <2>2. CASE m # n
    BY <1>1, <1>2, <1>3, <1>7, <2>2, CleanupKeeps DEF Mounts
  <2> QED BY <2>1, <2>2
<1> QED BY <1>8, <1>9, <1>10, <1>11 DEF PageInv

LEMMA PageGoesKeeps ==
  ASSUME PageInv, PageGoes
  PROVE  PageInv'
<1>1. runtimeAt' = closed(runtimeAt) /\ closings' = closingsAfter /\ childAt' = childrenDropped
  BY DEF PageGoes
<1>2. layer' = NoLayer /\ UNCHANGED <<providerKind, mounts, layerOf, built>>
  BY DEF PageGoes
<1>3. /\ runtimeAt' \in [Mounts -> RuntimeStates] /\ childAt' \in [Mounts -> ChildStates]
      /\ closings' \in [Mounts -> Nat]
  BY <1>1, CleanupKeeps DEF closed, childrenDropped, closingsAfter, PageInv, PageTypeOK
<1> QED BY <1>1, <1>2, <1>3, CleanupKeeps DEF PageInv, PageTypeOK

LEMMA PageStepKeeps ==
  ASSUME PageInv, NEW n \in Mounts, PageStep(n) \/ ChildMounts(n) \/ ChildUnmounts(n)
  PROVE  PageInv'
<1> USE DEF PageInv, PageTypeOK, RuntimeStates, ChildStates
<1>1. CASE Acquired(n) \/ AcquireFails(n) \/ Released(n)
  BY <1>1 DEF Acquired, AcquireFails, Released
<1>2. CASE SetBuilt(n)
  <2>1. /\ runtimeAt[n] = "ready"
        /\ UNCHANGED <<providerKind, layer, mounts, layerOf, childAt>>
    BY <1>2 DEF SetBuilt
  <2>2. CASE /\ n = active /\ runtimeAt' = [runtimeAt EXCEPT ![n] = "open"] /\ built' = n
             /\ UNCHANGED closings
    <3>1. n = mounts /\ layer # NoLayer /\ n \in 0..MaxMounts
      BY <2>2, RuntimeAssumption DEF active, Mounts
    <3>2. \A m \in Mounts : runtimeAt'[m] = IF m = n THEN "open" ELSE runtimeAt[m]
      BY <2>2
    <3>3. \A m \in Mounts : m # n => runtimeAt[m] # "open"
      BY <3>1
    <3>4. runtimeAt' \in [Mounts -> RuntimeStates]
      BY <2>2
    <3> QED BY <2>1, <2>2, <3>1, <3>2, <3>3, <3>4
  <2>3. CASE /\ n # active /\ runtimeAt' = [runtimeAt EXCEPT ![n] = "closing"]
             /\ closings' = [closings EXCEPT ![n] = @ + 1] /\ UNCHANGED built
    <3>1. n <= mounts /\ closings[n] = 0
      BY <2>1 DEF Mounts
    <3>2. /\ \A m \in Mounts : runtimeAt'[m] = IF m = n THEN "closing" ELSE runtimeAt[m]
          /\ \A m \in Mounts : closings'[m] = IF m = n THEN 1 ELSE closings[m]
      BY <2>3, <3>1
    <3>3. built # 0 /\ layer # NoLayer => built # n
      BY <2>1
    <3>4. runtimeAt' \in [Mounts -> RuntimeStates] /\ closings' \in [Mounts -> Nat]
      <4> HIDE DEF PageInv, PageTypeOK
      <4>1. runtimeAt \in [Mounts -> RuntimeStates] /\ closings \in [Mounts -> Nat]
        BY DEF PageInv, PageTypeOK
      <4>2. closings[n] + 1 \in Nat
        BY <4>1
      <4> QED BY <2>3, <4>1, <4>2
    <3>5. childAt[n] # "running"
      BY <2>1
    <3>6. built # 0 /\ layer # NoLayer => runtimeAt'[built] = "open"
      BY <2>3, <3>3
    <3> QED BY <2>1, <2>3, <3>1, <3>2, <3>3, <3>4, <3>5, <3>6
  <2> QED BY <1>2, <2>2, <2>3 DEF SetBuilt
<1>3. CASE closeRuntime(n)
  BY <1>3 DEF closeRuntime
<1>4. ASSUME NEW from \in ChildStates, NEW to \in ChildStates, ChildStep(n, from, to),
             to = "running" => runtimeAt[n] = "open", to # "off", n <= mounts
      PROVE  PageInv'
  <2>1. /\ childAt' = [childAt EXCEPT ![n] = to]
        /\ UNCHANGED <<providerKind, layer, mounts, layerOf, runtimeAt, closings, built>>
    BY <1>4 DEF ChildStep
  <2>2. childAt' \in [Mounts -> ChildStates]
    BY <1>4, <2>1
  <2>3. \A m \in Mounts : childAt'[m] = IF m = n THEN to ELSE childAt[m]
    BY <2>1
  <2>4. \A m \in Mounts : m > mounts => m # n
    BY <1>4 DEF Mounts
  <2>5. \A m \in Mounts : m > mounts => childAt'[m] = "off"
    BY <2>3, <2>4
  <2>6. \A m \in Mounts : childAt'[m] = "running" => runtimeAt[m] = "open"
    BY <1>4, <2>3
  <2> QED BY <2>1, <2>2, <2>5, <2>6
<1>5. childAt[n] # "off" => n <= mounts
  BY DEF Mounts
<1>6. CASE ChildForks(n) \/ ChildEnds(n)
  BY <1>4, <1>5, <1>6 DEF ChildForks, ChildEnds, ChildStep
<1>7. n = rendered => n <= mounts
  BY DEF rendered, Mounts
<1>8. CASE ChildMounts(n) \/ ChildUnmounts(n)
  BY <1>4, <1>7, <1>8 DEF ChildMounts, ChildUnmounts, ChildStep, dropped
<1> QED BY <1>1, <1>2, <1>3, <1>6, <1>8 DEF PageStep

(* What the page shows, from the invariant. *)
LEMMA PageInvSound == PageInv => RuntimesSound
<1> SUFFICES ASSUME PageInv PROVE RuntimesSound
  OBVIOUS
<1>1. rendered # 0 => runtimeAt[rendered] = "open" /\ rendered = active
  BY DEF PageInv, rendered, active
<1>2. ASSUME NEW n \in Mounts, runtimeAt[n] = "open" PROVE n = active /\ n = rendered
  BY <1>2 DEF PageInv, rendered, active, Mounts
<1> QED BY <1>1, <1>2 DEF RuntimesSound, PageInv

(* Children are rendered with the runtime of the page's own layer while it is
   open, no work of theirs outlives it, and every other runtime was closed
   once: for any layers and any number of mounts. *)
THEOREM RuntimesAreSound == PageSpec => []RuntimesSound
<1>1. PageInv /\ [PageNext]_pageVars => PageInv'
  <2> SUFFICES ASSUME PageInv, [PageNext]_pageVars PROVE PageInv'
    OBVIOUS
  <2>1. CASE PageNext
    BY <2>1, CommitKeeps, PageGoesKeeps, PageStepKeeps DEF PageNext
  <2>2. CASE UNCHANGED pageVars
    BY <2>2 DEF pageVars, PageInv, PageTypeOK
  <2> QED BY <2>1, <2>2
<1> QED BY <1>1, PageInitially, PageInvSound, PTL DEF PageSpec

----------------------------------------------------------------------------
(* The hooks that run an Effect.  A fiber that runs is the active effect's, and
   the last to be forked; so a cleanup finds no other in flight, and what the
   last run came to is what the hook returns. *)
RunPlaces == {"off", "debounce", "scoping", "running", "closing", "ended"}
RunResults == {"none", "skipped", "ok", "failed", "interrupted"}

MemoTypeOK ==
    /\ hook \in {"memo", "factory"}
    /\ effects \in 0..MaxEffects /\ effect \in {0, effects}
    /\ keyOf \in [Effects -> HookKeys \union {NoKey}]
    /\ at \in [Effects -> RunPlaces] /\ result \in [Effects -> RunResults]
    /\ inFlight \in 0..effects /\ lastRun \in 0..effects /\ hookShows \in 0..effects

RunsInOrder ==
    \A n \in Effects :
      /\ n > effects => at[n] = "off" /\ result[n] = "none"
      /\ at[n] \in {"debounce", "scoping", "running", "closing"} => result[n] = "none"
      /\ at[n] = "debounce" => n = effect
      /\ at[n] = "running" => n = effect /\ n = inFlight /\ n = lastRun
      /\ at[n] = "closing" => n # effect
      /\ at[n] = "ended" => result[n] \in {"ok", "failed", "interrupted"}
      /\ at[n] = "ended" /\ n = effect => result[n] # "interrupted" /\ n = lastRun

FactoryShowsLastRun ==
    hook = "factory" /\ lastRun # 0 /\ result[lastRun] = "ok" => hookShows = lastRun

MemoInv == MemoTypeOK /\ RunsInOrder /\ FactoryShowsLastRun /\ MemoShowsItsInputs

(* What a cleanup leaves. *)
AfterCleanup(n) ==
    IF n = effect /\ at[n] = "debounce" THEN "off"
    ELSE IF n = effect /\ at[n] = "running" THEN "closing" ELSE at[n]

LEMMA NothingInFlight == MemoInv => flightAfterCleanup = 0
  BY DEF MemoInv, MemoTypeOK, RunsInOrder, MemoShowsItsInputs, flightAfterCleanup, Skipped, Effects

LEMMA CleanupLeaves ==
  ASSUME MemoInv
  PROVE  cleanup = [n \in Effects |-> AfterCleanup(n)]
<1> DEFINE left(n) == CASE n = effect /\ at[n] = "debounce" -> "off"
                        [] n = inFlight /\ at[n] = "running" -> "closing"
                        [] OTHER -> at[n]
<1>1. ASSUME NEW n \in Effects
      PROVE  left(n) = AfterCleanup(n)
  <2>1. CASE n = effect /\ at[n] = "debounce"
    <3>1. at[n] # "running"
      BY <2>1
    <3> QED
      BY <2>1, <3>1, Zenon DEF AfterCleanup
  <2>2. CASE n = effect /\ at[n] = "running"
    <3>1. n = inFlight /\ at[n] # "debounce"
      BY <2>2 DEF MemoInv, RunsInOrder
    <3> QED
      BY <2>2, <3>1, Zenon DEF AfterCleanup
  <2>3. CASE ~(n = effect /\ at[n] \in {"debounce", "running"})
    <3>1. ~(n = effect /\ at[n] = "debounce") /\ ~(n = inFlight /\ at[n] = "running")
          /\ ~(n = effect /\ at[n] = "running")
      BY <2>3 DEF MemoInv, RunsInOrder
    <3> QED
      BY <3>1, Zenon DEF AfterCleanup
  <2> QED
    BY <2>1, <2>2, <2>3
<1>2. CASE effect = 0 \/ Skipped(effect)
  <2>1. \A n \in Effects : AfterCleanup(n) = at[n]
    BY <1>2 DEF MemoInv, RunsInOrder, Effects, Skipped, AfterCleanup
  <2> QED
    BY <1>2, <2>1 DEF cleanup, MemoInv, MemoTypeOK
<1>3. CASE ~(effect = 0 \/ Skipped(effect))
  <2>1. cleanup = [n \in Effects |-> left(n)]
    BY <1>3, Zenon DEF cleanup
  <2> HIDE DEF left
  <2> QED
    BY <1>1, <2>1
<1> QED
  BY <1>2, <1>3

LEMMA MemoInitially == MemoInit => MemoInv
  BY HookAssumption
     DEF MemoInit, MemoInv, MemoTypeOK, RunsInOrder, FactoryShowsLastRun, MemoShowsItsInputs,
         HookAssumption, Effects, RunPlaces, RunResults, Skipped

LEMMA RunEffectKeeps ==
  ASSUME MemoInv, NEW key \in HookKeys \union {NoKey}, NEW debounced \in BOOLEAN, NEW recent \in BOOLEAN,
         RunEffect(key, debounced, recent)
  PROVE  MemoInv'
<1> DEFINE n == effects + 1
           skips == Skips(key, flightAfterCleanup, recent)
<1>1. /\ n \in Effects /\ effects' = n /\ effect' = n /\ n # 0
      /\ hook' = hook /\ lastRun' = lastRun /\ inFlight' = 0
      /\ keyOf' = [keyOf EXCEPT ![n] = key]
      /\ result' = [result EXCEPT ![n] = IF skips THEN "skipped" ELSE "none"]
      /\ hookShows' = IF hook = "memo" THEN 0 ELSE hookShows
  BY NothingInFlight DEF RunEffect, MemoInv, MemoTypeOK
<1>2. at' = [[m \in Effects |-> AfterCleanup(m)] EXCEPT ![n] = IF skips THEN "off"
                                       ELSE IF debounced THEN "debounce" ELSE "scoping"]
  BY CleanupLeaves DEF RunEffect
<1>3. skips => hook = "factory" /\ lastRun # 0 /\ keyOf[lastRun] = key
  BY NothingInFlight DEF Skips
<1> HIDE DEF skips
<1>4. MemoTypeOK'
  BY <1>1, <1>2 DEF MemoInv, MemoTypeOK, AfterCleanup, RunPlaces, RunResults, Effects
<1>5. \A m \in Effects : m # n => at'[m] = AfterCleanup(m) /\ result'[m] = result[m] /\ keyOf'[m] = keyOf[m]
  BY <1>1, <1>2 DEF MemoInv, MemoTypeOK
<1>6. /\ at'[n] = IF skips THEN "off" ELSE IF debounced THEN "debounce" ELSE "scoping"
      /\ result'[n] = IF skips THEN "skipped" ELSE "none"
      /\ keyOf'[n] = key
  BY <1>1, <1>2 DEF MemoInv, MemoTypeOK
<1>7. lastRun # n /\ effect # n /\ hookShows # n /\ lastRun \in Effects \union {0}
      /\ hookShows \in Effects \union {0}
  BY <1>1, HookAssumption DEF MemoInv, MemoTypeOK, Effects, HookAssumption
<1>8. RunsInOrder'
  <2> SUFFICES ASSUME NEW m \in Effects
               PROVE  /\ m > effects' => at'[m] = "off" /\ result'[m] = "none"
                      /\ at'[m] \in {"debounce", "scoping", "running", "closing"} => result'[m] = "none"
                      /\ at'[m] = "debounce" => m = effect'
                      /\ at'[m] = "running" => m = effect' /\ m = inFlight' /\ m = lastRun'
                      /\ at'[m] = "closing" => m # effect'
                      /\ at'[m] = "ended" => result'[m] \in {"ok", "failed", "interrupted"}
                      /\ at'[m] = "ended" /\ m = effect' => result'[m] # "interrupted" /\ m = lastRun'
    BY DEF RunsInOrder
  <2>1. CASE m = n
    BY <1>1, <1>6, <2>1 DEF MemoInv, MemoTypeOK
  <2>2. CASE m # n
    BY <1>1, <1>5, <2>2 DEF MemoInv, MemoTypeOK, RunsInOrder, AfterCleanup, Effects
  <2> QED
    BY <2>1, <2>2
<1>9. FactoryShowsLastRun'
  BY <1>1, <1>5, <1>7 DEF MemoInv, FactoryShowsLastRun
<1>10. MemoShowsItsInputs'
  <2>1. \A m \in Effects : at'[m] = "running" => m = effect'
    BY <1>8 DEF RunsInOrder
  <2>2. hookShows' # 0 => result'[hookShows'] = "ok" /\ (hook' = "memo" /\ effect' # 0 => hookShows' = effect')
    BY <1>1, <1>5, <1>7 DEF MemoInv, MemoShowsItsInputs
  <2>3. effect' # 0 /\ at'[effect'] = "off" =>
         \/ hookShows' = effect' \/ result'[effect'] = "failed"
         \/ Skipped(effect)' /\ keyOf'[lastRun'] = keyOf'[effect']
            /\ (hookShows' = lastRun' \/ result'[lastRun'] # "ok")
    BY <1>1, <1>3, <1>5, <1>6, <1>7 DEF MemoInv, FactoryShowsLastRun, Skipped
  <2> QED
    BY <1>1, <2>1, <2>2, <2>3 DEF MemoShowsItsInputs
<1> QED
  BY <1>4, <1>8, <1>9, <1>10 DEF MemoInv

LEMMA UnmountHookKeeps ==
  ASSUME MemoInv, UnmountHook
  PROVE  MemoInv'
<1>1. at' = [m \in Effects |-> AfterCleanup(m)] /\ inFlight' = 0 /\ effect' = 0
  BY NothingInFlight, CleanupLeaves DEF UnmountHook
<1>2. UNCHANGED <<hook, effects, keyOf, result, lastRun, hookShows>>
  BY DEF UnmountHook
<1>3. MemoTypeOK'
  BY <1>1, <1>2 DEF MemoInv, MemoTypeOK, AfterCleanup, RunPlaces
<1>4. RunsInOrder'
  BY <1>1, <1>2 DEF MemoInv, MemoTypeOK, RunsInOrder, AfterCleanup, Effects
<1>5. FactoryShowsLastRun' /\ MemoShowsItsInputs'
  BY <1>1, <1>2 DEF MemoInv, RunsInOrder, FactoryShowsLastRun, MemoShowsItsInputs, AfterCleanup
<1> QED
  BY <1>3, <1>4, <1>5 DEF MemoInv

(* A run goes on to its end. *)
LEMMA RunKeeps ==
  ASSUME MemoInv, NEW n \in Effects, DebounceEnds(n) \/ Fork(n) \/ FiberEnds(n) \/ Joined(n)
  PROVE  MemoInv'
<1> USE DEF MemoInv
<1>1. CASE DebounceEnds(n)
  <2>1. at' = [at EXCEPT ![n] = "scoping"] /\ at[n] = "debounce"
        /\ UNCHANGED <<hook, effects, effect, keyOf, result, inFlight, lastRun, hookShows>>
    BY <1>1 DEF DebounceEnds
  <2>2. MemoTypeOK' /\ RunsInOrder' /\ FactoryShowsLastRun'
    BY <2>1 DEF MemoTypeOK, RunsInOrder, FactoryShowsLastRun, RunPlaces
  <2>3. MemoShowsItsInputs'
    BY <2>1 DEF MemoTypeOK, MemoShowsItsInputs, Skipped, Effects
  <2> QED
    BY <2>2, <2>3
<1>2. CASE Fork(n)
  <2>1. CASE effect = n
    <3>1. /\ at' = [at EXCEPT ![n] = "running"] /\ inFlight' = n /\ lastRun' = n /\ at[n] = "scoping"
          /\ UNCHANGED <<hook, effects, effect, keyOf, result, hookShows>>
      BY <1>2, <2>1 DEF Fork
    <3>2. MemoTypeOK' /\ RunsInOrder' /\ FactoryShowsLastRun'
      BY <2>1, <3>1 DEF MemoTypeOK, RunsInOrder, FactoryShowsLastRun, RunPlaces, Effects
    <3>3. MemoShowsItsInputs'
      BY <2>1, <3>1 DEF MemoTypeOK, MemoShowsItsInputs, Skipped, Effects
    <3> QED
      BY <3>2, <3>3
  <2>2. CASE effect # n
    <3>1. /\ at' = [at EXCEPT ![n] = "off"] /\ at[n] = "scoping"
          /\ UNCHANGED <<hook, effects, effect, keyOf, result, inFlight, lastRun, hookShows>>
      BY <1>2, <2>2 DEF Fork
    <3>2. MemoTypeOK' /\ RunsInOrder' /\ FactoryShowsLastRun'
      BY <2>2, <3>1 DEF MemoTypeOK, RunsInOrder, FactoryShowsLastRun, RunPlaces
    <3>3. MemoShowsItsInputs'
      BY <2>2, <3>1 DEF MemoTypeOK, MemoShowsItsInputs, Skipped, Effects
    <3> QED
      BY <3>2, <3>3
  <2> QED
    BY <2>1, <2>2
<1>3. CASE FiberEnds(n)
  <2>1. PICK r \in {"ok", "failed", "interrupted"} :
          /\ r = "interrupted" <=> at[n] = "closing"
          /\ result' = [result EXCEPT ![n] = r]
          /\ hookShows' = IF hook = "factory" /\ r = "ok" /\ effect = n THEN n ELSE hookShows
    BY <1>3 DEF FiberEnds
  <2>2. /\ at' = [at EXCEPT ![n] = "ended"] /\ at[n] \in {"running", "closing"}
        /\ UNCHANGED <<hook, effects, effect, keyOf, inFlight, lastRun>>
    BY <1>3 DEF FiberEnds
  <2>3. /\ result[n] = "none" /\ n <= effects
        /\ at[n] = "running" => n = effect /\ n = inFlight /\ n = lastRun
        /\ at[n] = "closing" => n # effect
    BY <2>2 DEF MemoTypeOK, RunsInOrder, Effects
  <2>4. MemoTypeOK'
    BY <2>1, <2>2, <2>3 DEF MemoTypeOK, RunPlaces, RunResults, Effects
  <2>5. RunsInOrder'
    BY <2>1, <2>2, <2>3 DEF MemoTypeOK, RunsInOrder
  <2>6. FactoryShowsLastRun'
    BY <2>1, <2>2, <2>3 DEF MemoTypeOK, FactoryShowsLastRun, Effects
  <2>7. MemoShowsItsInputs'
    BY <2>1, <2>2, <2>3 DEF MemoTypeOK, MemoShowsItsInputs, Skipped, Effects
  <2> QED
    BY <2>4, <2>5, <2>6, <2>7
<1>4. CASE Joined(n)
  <2>1. /\ at' = [at EXCEPT ![n] = "off"] /\ at[n] = "ended"
        /\ inFlight' = IF inFlight = n THEN 0 ELSE inFlight
        /\ hookShows' = IF hook = "memo" /\ result[n] = "ok" /\ effect = n THEN n ELSE hookShows
        /\ UNCHANGED <<hook, effects, effect, keyOf, result, lastRun>>
    BY <1>4 DEF Joined
  <2>2. /\ n <= effects /\ result[n] \in {"ok", "failed", "interrupted"}
        /\ n = effect => result[n] # "interrupted" /\ n = lastRun
    BY <2>1 DEF MemoTypeOK, RunsInOrder, Effects
  <2>3. MemoTypeOK'
    BY <2>1, <2>2 DEF MemoTypeOK, RunPlaces, Effects
  <2>4. RunsInOrder'
    BY <2>1, <2>2 DEF MemoTypeOK, RunsInOrder
  <2>5. FactoryShowsLastRun'
    BY <2>1, <2>2 DEF MemoTypeOK, FactoryShowsLastRun, Effects
  <2>6. MemoShowsItsInputs'
    BY <2>1, <2>2 DEF MemoTypeOK, FactoryShowsLastRun, MemoShowsItsInputs, Skipped, Effects
  <2> QED
    BY <2>3, <2>4, <2>5, <2>6
<1> QED
  BY <1>1, <1>2, <1>3, <1>4

LEMMA MemoStep == MemoInv /\ [MemoNext]_memoVars => MemoInv'
<1>1. MemoInv /\ UNCHANGED memoVars => MemoInv'
  BY DEF MemoInv, MemoTypeOK, RunsInOrder, FactoryShowsLastRun, MemoShowsItsInputs, Skipped, memoVars
<1> QED
  BY <1>1, RunEffectKeeps, UnmountHookKeeps, RunKeeps DEF MemoNext

----------------------------------------------------------------------------
(* useWalletExecution. *)

HookInputs ==
    [address : Addresses \union {NoAddress}, chain : Chains \union {NoChain},
     context : BOOLEAN, connector : BOOLEAN, origin : BOOLEAN]

(* What the probe said, it said of an address that is a Safe; a read under way
   for the last effect is about that effect's inputs; and once it is answered
   the probe is what it said of them. *)
ExecutionInv ==
    /\ probing \in BOOLEAN /\ probeFailed \in BOOLEAN
    /\ inputs \in HookInputs /\ committed \in [n : Nat, inputs : HookInputs]
    /\ asked \in SUBSET [n : 0..committed.n, address : Addresses, chain : Chains]
    /\ ownersProbe \in {NoProbe} \union [address : Addresses, chain : Chains, isSafe : BOOLEAN]
    /\ ownersProbe.isSafe => <<ownersProbe.address, ownersProbe.chain>> \in safes
    /\ \A q \in asked : q.n = committed.n =>
         q.address = committed.inputs.address /\ q.chain = committed.inputs.chain
    /\ LET now == committed.inputs IN
       probing /\ now.address # NoAddress /\ now.chain # NoChain /\ ~probeFailed
       /\ ~(now.context \/ now.origin \/ now.connector)
       /\ (\A q \in asked : q.n # committed.n)
         => ownersProbe = [address |-> now.address, chain |-> now.chain,
                           isSafe |-> <<now.address, now.chain>> \in safes]

ExecutionSpec == ExecutionInit /\ [][ExecutionNext]_executionVars

LEMMA ExecutionInitially == ExecutionInit => ExecutionInv
<1> SUFFICES ASSUME ExecutionInit PROVE ExecutionInv
  OBVIOUS
<1>1. NoInputs \in HookInputs /\ NoInputs.address = NoAddress
  BY DEF HookInputs, NoInputs
<1>2. NoProbe.isSafe = FALSE
  BY DEF NoProbe
<1>3. committed \in [n : Nat, inputs : HookInputs] /\ committed.inputs = NoInputs
  BY <1>1 DEF ExecutionInit
<1> QED
  BY <1>1, <1>2, <1>3 DEF ExecutionInit, ExecutionInv

LEMMA ExecutionStep ==
  ASSUME ExecutionInv, ExecutionNext
  PROVE  ExecutionInv'
<1>1. CASE RenderExecution
  <2>1. inputs' \in HookInputs
    BY <1>1 DEF RenderExecution, ExecutionInv, HookInputs
  <2> QED
    BY <1>1, <2>1 DEF RenderExecution, ExecutionInv
<1>2. CASE ExecutionEffect
  <2>1. committed' = [n |-> committed.n + 1, inputs |-> inputs] /\ probeFailed' = FALSE
        /\ UNCHANGED <<safes, probing, inputs>>
    BY <1>2 DEF ExecutionEffect
  <2>2. committed' \in [n : Nat, inputs : HookInputs] /\ committed'.n = committed.n + 1
        /\ committed'.inputs = inputs
    BY <2>1 DEF ExecutionInv
  <2>3. CASE Probes
    <3>1. asked' = asked \union {[n |-> committed'.n, address |-> inputs.address, chain |-> inputs.chain]}
          /\ ownersProbe' = ownersProbe
      BY <1>2, <2>3 DEF ExecutionEffect
    <3>2. inputs.address \in Addresses /\ inputs.chain \in Chains
      BY <2>3 DEF Probes, isConnected, ExecutionInv, HookInputs
    <3>3. asked' \in SUBSET [n : 0..committed'.n, address : Addresses, chain : Chains]
      BY <2>2, <3>1, <3>2 DEF ExecutionInv
    <3>4. \A q \in asked' : q.n = committed'.n =>
            q.address = committed'.inputs.address /\ q.chain = committed'.inputs.chain
      BY <2>2, <3>1 DEF ExecutionInv
    <3>5. \E q \in asked' : q.n = committed'.n
      <4> DEFINE mine == [n |-> committed'.n, address |-> inputs.address, chain |-> inputs.chain]
      <4>1. mine \in asked' /\ mine.n = committed'.n
        BY <3>1
      <4> QED
        BY <4>1
    <3> QED
      BY <2>1, <2>2, <3>1, <3>3, <3>4, <3>5 DEF ExecutionInv
  <2>4. CASE ~Probes
    <3>1. asked' = asked /\ ownersProbe' = NoProbe
      BY <1>2, <2>4 DEF ExecutionEffect
    <3>2. asked' \in SUBSET [n : 0..committed'.n, address : Addresses, chain : Chains]
          /\ \A q \in asked' : q.n # committed'.n
      BY <2>2, <3>1 DEF ExecutionInv
    <3>3. ~(probing /\ inputs.address # NoAddress /\ inputs.chain # NoChain
            /\ ~(inputs.context \/ inputs.origin \/ inputs.connector))
      BY <2>4 DEF Probes, isConnected, isSafeConnector, canUseSafeAppsSdk
    <3> QED
      BY <2>1, <2>2, <3>1, <3>2, <3>3 DEF ExecutionInv, NoProbe
  <2> QED
    BY <2>3, <2>4
<1>3. ASSUME NEW q \in asked, OwnersAnswer(q) PROVE ExecutionInv'
  <2>1. q \in [n : 0..committed.n, address : Addresses, chain : Chains]
        /\ asked' = asked \ {q} /\ UNCHANGED <<safes, probing, inputs, committed>>
    BY <1>3 DEF OwnersAnswer, ExecutionInv
  <2>2. CASE q.n # committed.n
    <3>1. UNCHANGED <<ownersProbe, probeFailed>>
      BY <1>3, <2>2 DEF OwnersAnswer
    <3> QED
      BY <2>1, <2>2, <3>1 DEF ExecutionInv
  <2>3. CASE q.n = committed.n /\ probeFailed' = probeFailed
             /\ ownersProbe' = [address |-> q.address, chain |-> q.chain,
                                isSafe |-> <<q.address, q.chain>> \in safes]
    <3>1. q.address = committed.inputs.address /\ q.chain = committed.inputs.chain
      BY <2>3 DEF ExecutionInv
    <3> DEFINE owned == <<q.address, q.chain>> \in safes
    <3>2. ownersProbe' \in [address : Addresses, chain : Chains, isSafe : BOOLEAN]
      <4>1. owned \in BOOLEAN
        OBVIOUS
      <4> QED
        BY <2>1, <2>3, <4>1
    <3>3. ownersProbe'.isSafe => <<ownersProbe'.address, ownersProbe'.chain>> \in safes
      BY <2>3
    <3>4. ownersProbe' = [address |-> committed.inputs.address, chain |-> committed.inputs.chain,
                          isSafe |-> <<committed.inputs.address, committed.inputs.chain>> \in safes]
      BY <2>3, <3>1
    <3>5. asked' \in SUBSET [n : 0..committed.n, address : Addresses, chain : Chains]
          /\ \A p \in asked' : p.n = committed.n =>
               p.address = committed.inputs.address /\ p.chain = committed.inputs.chain
      BY <2>1 DEF ExecutionInv
    <3> QED
      BY <2>1, <2>3, <3>2, <3>3, <3>4, <3>5 DEF ExecutionInv
  <2>4. CASE ownersProbe' = NoProbe /\ probeFailed' = TRUE
    BY <2>1, <2>4 DEF ExecutionInv, NoProbe
  <2> QED
    BY <1>3, <2>2, <2>3, <2>4 DEF OwnersAnswer
<1> QED
  BY <1>1, <1>2, <1>3 DEF ExecutionNext

LEMMA ExecutionRoutes == ExecutionInv => RoutesByWallet
<1> SUFFICES ASSUME ExecutionInv PROVE RoutesByWallet
  OBVIOUS
<1>1. ownersProbeDetectedSafe => <<inputs.address, inputs.chain>> \in safes
  BY DEF ExecutionInv, ownersProbeDetectedSafe
<1>2. walletType = "safe-multisig" <=> canUseSafeAppsSdk \/ isSafeConnector \/ ownersProbeDetectedSafe
  BY DEF walletType
<1>3. ASSUME inputs = committed.inputs, Probes, ~probeFailed, \A q \in asked : q.n # committed.n
      PROVE  walletType = "safe-multisig" <=> <<inputs.address, inputs.chain>> \in safes
  <2>1. ownersProbe = [address |-> inputs.address, chain |-> inputs.chain,
                       isSafe |-> <<inputs.address, inputs.chain>> \in safes]
    BY <1>3 DEF ExecutionInv, Probes, isConnected, isSafeConnector, canUseSafeAppsSdk
  <2>2. ownersProbeDetectedSafe <=> <<inputs.address, inputs.chain>> \in safes
    BY <1>3, <2>1 DEF ownersProbeDetectedSafe, Probes
  <2> QED
    BY <1>2, <1>3, <2>2 DEF Probes
<1> QED
  BY <1>1, <1>2, <1>3 DEF RoutesByWallet, canUseSafeAppsSdk

THEOREM HooksAreSound == HooksSpec => []HooksSound
<1>1. ExecutionInv /\ UNCHANGED executionVars => ExecutionInv'
  BY DEF ExecutionInv, executionVars
<1>2. ASSUME MemoInv /\ ExecutionInv, [HooksNext]_runVars
      PROVE  (MemoInv /\ ExecutionInv)'
  BY <1>1, <1>2, MemoStep, ExecutionStep DEF HooksNext, runVars, memoVars
<1>3. MemoInv /\ ExecutionInv => HooksSound
  BY ExecutionRoutes DEF MemoInv, HooksSound
<1>4. HooksSpec => MemoInv /\ ExecutionInv
  BY MemoInitially, ExecutionInitially DEF HooksSpec
<1> QED
  BY <1>2, <1>3, <1>4, PTL DEF HooksSpec
=============================================================================
