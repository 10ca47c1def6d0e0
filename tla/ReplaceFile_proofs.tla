------------------------- MODULE ReplaceFile_proofs -------------------------
(***************************************************************************)
(* Proofs about ReplaceFile, for any set of calls and any number of power  *)
(* losses. A step of a call is either a discard, which leaves the target   *)
(* alone, or one of the few steps that move it forward; each conjunct of   *)
(* the invariant is shown to survive every one of them.                    *)
(***************************************************************************)
EXTENDS ReplaceFile, TLAPS

LEMMA DiscardKeeps ==
    ASSUME TypeOK, NEW c \in Call, Discard(c)
    PROVE  /\ target' = target
           /\ temps' \in SUBSET Call
           /\ temps' \subseteq temps
           /\ \E s \in {"failed", "littered"} : pc' = [pc EXCEPT ![c] = s]
           /\ pc'[c] = "failed" => c \notin temps'
BY DEF Discard, MovesTo, dirVars, TypeOK

LEMMA TypeStep == TypeOK /\ [Next]_vars => TypeOK'
<1> SUFFICES ASSUME TypeOK, [Next]_vars PROVE TypeOK'
  OBVIOUS
<1> USE DEF TypeOK, Running, Ended, Bytes, Version, dirVars, diskVars, MovesTo
<1>1. CASE UNCHANGED vars
  BY <1>1 DEF vars
<1>2. ASSUME NEW c \in Call, Discard(c), data' \in [Call -> Bytes], UNCHANGED <<cancelled, diskVars, crashes>>
      PROVE  TypeOK'
  BY <1>2 DEF Discard
<1>3. ASSUME NEW c \in Call, CallStep(c) PROVE TypeOK'
  <2>1. CASE Refuse(c) \/ CreateTemp(c)
    BY <2>1 DEF Refuse, CreateTemp
  <2>2. CASE Encode(c) \/ Sync(c) \/ Close(c)
    BY <2>2 DEF Encode, Sync, Close
  <2>3. CASE EncodeError(c) \/ StepError(c)
    BY <1>2, <2>3 DEF EncodeError, StepError
  <2>4. CASE Check(c)
    BY <1>2, <2>4 DEF Check
  <2>5. CASE Rename(c)
    BY <2>5 DEF Rename
  <2>6. QED
    BY <1>3, <2>1, <2>2, <2>3, <2>4, <2>5 DEF CallStep
<1>4. ASSUME NEW c \in Call, Cancel(c) PROVE TypeOK'
  BY <1>4 DEF Cancel
<1>5. ASSUME NEW c \in Call, Die(c) PROVE TypeOK'
  BY <1>5 DEF Die
<1>6. ASSUME NEW c \in Call, WriteBack(c) PROVE TypeOK'
  BY <1>6 DEF WriteBack
<1>7. CASE WriteBackDir
  BY <1>7 DEF WriteBackDir
<1>8. CASE Crash
  <2>1. crashes + 1 \in 0 .. MaxCrashes
    BY <1>8, MaxCrashesAssumption DEF Crash
  <2>2. QED
    BY <1>8, <2>1 DEF Crash
<1>9. QED
  BY <1>1, <1>3, <1>4, <1>5, <1>6, <1>7, <1>8 DEF Next

-----------------------------------------------------------------------------
(* The conjuncts of the invariant.                                         *)


Kept == SyncedIsWhole /\ OnlyRenamed /\ CheckedInTime /\ TempsHaveOwners

LEMMA DiscardStep ==
    ASSUME IInv, NEW c \in Call, pc[c] \in Running, Discard(c),
           UNCHANGED <<cancelled, diskVars, crashes>>,
           data' = data \/ (pc[c] = "created" /\ data' = [data EXCEPT ![c] = "part"])
    PROVE  Kept'
<1> USE DEF IInv, TypeOK, Kept, diskVars
<1>1. TypeOK
  BY DEF IInv
<1>2. PICK s \in {"failed", "littered"} : pc' = [pc EXCEPT ![c] = s]
  BY <1>1, DiscardKeeps
<1>3. SyncedIsWhole'
  BY <1>1, <1>2 DEF SyncedIsWhole
<1>4. OnlyRenamed'
  BY <1>1, <1>2, DiscardKeeps, InheritedAssumption DEF OnlyRenamed, Published, Running
<1>5. CheckedInTime'
  BY <1>1, <1>2 DEF CheckedInTime
<1>6. TempsHaveOwners'
  BY <1>1, <1>2, DiscardKeeps DEF TempsHaveOwners
<1>7. QED
  BY <1>3, <1>4, <1>5, <1>6

LEMMA InvariantStep == IInv /\ [Next]_vars => IInv'
<1> SUFFICES ASSUME IInv, [Next]_vars PROVE Kept'
  BY TypeStep DEF IInv, Kept
<1> USE DEF IInv, Kept, TypeOK, MovesTo, dirVars, diskVars,
            SyncedIsWhole, OnlyRenamed, CheckedInTime, TempsHaveOwners, Published
<1>1. CASE UNCHANGED vars
  BY <1>1 DEF vars
<1>2. ASSUME NEW c \in Call, CallStep(c) PROVE Kept'
  <2>1. CASE Refuse(c)
    BY <2>1 DEF Refuse
  <2>2. CASE CreateTemp(c)
    BY <2>2 DEF CreateTemp
  <2>3. CASE Encode(c)
    BY <2>3 DEF Encode
  <2>4. CASE Sync(c)
    BY <2>4 DEF Sync
  <2>5. CASE Close(c)
    BY <2>5 DEF Close
  <2>6. CASE Rename(c)
    BY <2>6 DEF Rename
  <2>7. CASE EncodeError(c)
    BY <2>7, DiscardStep DEF EncodeError, Running
  <2>8. CASE StepError(c)
    BY <2>8, DiscardStep DEF StepError, Running
  <2>9. CASE Check(c)
    <3>1. CASE cancelled[c] = "no" /\ MovesTo(c, "checked") /\ UNCHANGED dirVars
      BY <2>9, <3>1 DEF Check
    <3>2. CASE Discard(c)
      BY <2>9, <3>2, DiscardStep DEF Check, Running
    <3>3. QED
      BY <2>9, <3>1, <3>2 DEF Check
  <2>10. QED
    BY <1>2, <2>1, <2>2, <2>3, <2>4, <2>5, <2>6, <2>7, <2>8, <2>9 DEF CallStep
<1>3. ASSUME NEW c \in Call, Cancel(c) PROVE Kept'
  BY <1>3 DEF Cancel, Running
<1>4. ASSUME NEW c \in Call, Die(c) PROVE Kept'
  BY <1>4, InheritedAssumption DEF Die, Running
<1>5. ASSUME NEW c \in Call, WriteBack(c) PROVE Kept'
  BY <1>5 DEF WriteBack
<1>6. CASE WriteBackDir
  BY <1>6 DEF WriteBackDir
<1>7. CASE Crash
  BY <1>7, InheritedAssumption DEF Crash, Running
<1>8. QED
  BY <1>1, <1>2, <1>3, <1>4, <1>5, <1>6, <1>7 DEF Next

(* What replaceFile has synced is whole on the disk, and only files that   *)
(* were synced, and checked for cancellation, are ever named by the        *)
(* target.                                                                 *)
THEOREM InvariantHolds == Spec => []IInv
<1>1. Init => IInv
  BY MaxCrashesAssumption DEF Init, IInv, TypeOK, Running, Ended, Bytes, Version,
     SyncedIsWhole, OnlyRenamed, Published, CheckedInTime, TempsHaveOwners
<1>2. QED
  BY <1>1, InvariantStep, PTL DEF Spec

-----------------------------------------------------------------------------
(* What follows.                                                           *)

LEMMA PublishedIsWhole ==
    ASSUME IInv
    PROVE  \A v \in Published : Whole(v) /\ (v \in Call => diskData[v] = "whole")
<1> SUFFICES ASSUME NEW v \in Published
             PROVE  Whole(v) /\ (v \in Call => diskData[v] = "whole")
  OBVIOUS
<1>1. CASE v = Inherited
  BY <1>1, InheritedAssumption DEF Whole
<1>2. CASE v \in Call /\ pc[v] = "renamed"
  BY <1>2 DEF Whole, IInv, SyncedIsWhole
<1>3. QED
  BY <1>1, <1>2 DEF Published

(* Readers of the path find a whole file, and would find one after a power *)
(* loss at any moment, however many calls overlap, fail or die.            *)
THEOREM TargetIsNeverTorn == Spec => []TargetNeverTorn
<1>1. IInv => TargetNeverTorn
  BY PublishedIsWhole, InheritedAssumption DEF IInv, OnlyRenamed, TargetNeverTorn, Published
<1>2. QED
  BY <1>1, InvariantHolds, PTL

(* A call that failed never was the target, and its temp file is gone      *)
(* unless removing it failed too or a power loss brought it back.          *)
THEOREM FailureIsClean == Spec => []FailureLeavesNothing
<1>1. IInv => FailureLeavesNothing
  <2> SUFFICES ASSUME IInv, NEW c \in Call
               PROVE  /\ pc[c] \in {"failed", "littered", "dead"} => c \notin {target, diskTarget}
                      /\ pc[c] \in {"failed", "renamed"} /\ crashes = 0 => c \notin temps
    BY DEF FailureLeavesNothing
  <2>1. pc[c] # "renamed" => c \notin Published
    BY InheritedAssumption DEF Published
  <2>2. QED
    BY <2>1 DEF IInv, OnlyRenamed, TempsHaveOwners
<1>2. QED
  BY <1>1, InvariantHolds, PTL

(* A call cancelled before its check does not replace the file.            *)
THEOREM CancelledIsNeverPublished == Spec => []CancelledNeverPublished
<1>1. IInv => CancelledNeverPublished
  BY InheritedAssumption DEF IInv, OnlyRenamed, CheckedInTime, CancelledNeverPublished, Published
<1>2. QED
  BY <1>1, InvariantHolds, PTL

-----------------------------------------------------------------------------
(* Writer.Write implements AtomicFile.                                     *)

LEMMA StepRefines ==
    ASSUME IInv, IInv', [Next]_vars
    PROVE  [Atomic!Next]_(Atomic!vars)
<1> DEFINE Now == IF Whole(target) THEN target ELSE "torn"
<1>1. Whole(target) /\ Whole(diskTarget) /\ Whole(target)'
  <2>1. Whole(target) /\ Whole(diskTarget)
    BY PublishedIsWhole DEF IInv, OnlyRenamed
  <2>2. target' \in Published'
    BY DEF IInv, OnlyRenamed
  <2>3. target' # Inherited => target' \in Call /\ data'[target'] = "whole"
    BY <2>2 DEF IInv, SyncedIsWhole, Published
  <2>4. QED
    BY <2>1, <2>3 DEF Whole
<1>2. Now = target /\ Now' = target'
  BY <1>1
<1>3. ASSUME NEW c \in Call, Rename(c) PROVE Atomic!Publish(c)
  <2>1. c \notin Published
    BY <1>3, InheritedAssumption DEF Rename, Published
  <2>2. target' = c /\ pc' = [pc EXCEPT ![c] = "renamed"]
    BY <1>3 DEF Rename, MovesTo
  <2>3. Published' = Published \cup {c}
    BY <2>2 DEF Published, IInv, TypeOK
  <2>4. QED
    BY <1>2, <2>1, <2>2, <2>3 DEF Atomic!Publish
<1>4. CASE Crash
  <2>1. target' \in Published
    BY <1>4 DEF Crash, IInv, OnlyRenamed
  <2>2. Published' = Published
    BY <1>4 DEF Crash, Published, Running, IInv, TypeOK
  <2>3. QED
    BY <1>2, <2>1, <2>2 DEF Atomic!Crash, Atomic!Next
<1>5. ASSUME NEW c \in Call, NEW s \in {"created", "encoded", "synced", "closed", "checked",
                                        "failed", "littered", "dead"},
             pc[c] # "renamed", pc' = [pc EXCEPT ![c] = s]
      PROVE  Published' = Published
  BY <1>5 DEF Published, IInv, TypeOK
<1>6. ASSUME NEW c \in Call, CallStep(c) \/ Cancel(c) \/ Die(c) \/ WriteBack(c), ~Rename(c)
      PROVE  target' = target /\ Published' = Published
  <2>1. ASSUME pc[c] # "renamed", Discard(c)
        PROVE  target' = target /\ Published' = Published
    <3>1. TypeOK
      BY DEF IInv
    <3>2. PICK s \in {"failed", "littered"} : pc' = [pc EXCEPT ![c] = s]
      BY <2>1, <3>1, DiscardKeeps
    <3>3. QED
      BY <1>5, <2>1, <3>1, <3>2, DiscardKeeps
  <2>2. CASE Refuse(c) \/ CreateTemp(c) \/ Encode(c) \/ Sync(c) \/ Close(c)
    BY <1>5, <2>2 DEF Refuse, CreateTemp, Encode, Sync, Close, MovesTo, dirVars
  <2>3. CASE EncodeError(c) \/ StepError(c) \/ Check(c)
    BY <1>5, <2>1, <2>3 DEF EncodeError, StepError, Check, MovesTo, dirVars
  <2>4. CASE Cancel(c) \/ WriteBack(c)
    BY <2>4 DEF Cancel, WriteBack, Published, dirVars
  <2>5. CASE Die(c)
    BY <1>5, <2>5 DEF Die, Running, MovesTo, dirVars
  <2>6. QED
    BY <1>6, <2>2, <2>3, <2>4, <2>5 DEF CallStep
<1>7. CASE WriteBackDir \/ UNCHANGED vars
  BY <1>2, <1>7 DEF WriteBackDir, vars, dirVars, Published, Atomic!vars
<1>8. QED
  BY <1>2, <1>3, <1>4, <1>6, <1>7 DEF Next, Atomic!Next, Atomic!vars

(* The path behaves as one file replaced atomically: never torn, each      *)
(* version put in place at most once, and only a power loss goes back.     *)
THEOREM Refinement == Spec => ReplacesAtomically
<1>1. Init => Atomic!Init
  BY InheritedAssumption DEF Init, Atomic!Init, Whole, Published
<1>2. IInv /\ IInv' /\ [Next]_vars => [Atomic!Next]_(Atomic!vars)
  BY StepRefines
<1>3. QED
  BY <1>1, <1>2, InvariantHolds, PTL DEF Spec, ReplacesAtomically, Atomic!Spec
=============================================================================
