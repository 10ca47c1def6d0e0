---------------------------- MODULE ReplaceFile ----------------------------
(***************************************************************************)
(* Writer.Write on one bronze path: calls that overlap (the worker's       *)
(* activities, their given-up attempts, the ingest command) each encode a  *)
(* temp file beside the target, sync it, and rename it over the target.    *)
(* A call may fail at every step, be cancelled, or die with its process;   *)
(* the machine may lose power, which keeps only what has reached the disk. *)
(***************************************************************************)
EXTENDS Naturals

CONSTANTS
    Call,           \* calls of Write for one window; each names what it writes
    Inherited,      \* the file at the target before them, or its absence
    MaxCrashes      \* bound on power losses

ASSUME InheritedAssumption == Inherited \notin Call
ASSUME MaxCrashesAssumption == MaxCrashes \in Nat

VARIABLES
    pc,             \* pc[c]: how far replaceFile has come
    cancelled,      \* cancelled[c]: "no", or when ctx was done: before or after the check
    target,         \* the file the target's directory entry names
    temps,          \* the calls whose .tmp-* entry exists
    data,           \* data[c]: the bytes of c's file, as a process reads them
    diskTarget, diskTemps,  \* the directory entries that have reached the disk
    diskData,       \* diskData[c]: the bytes that have
    crashes         \* power losses so far

dirVars == <<target, temps>>
diskVars == <<diskTarget, diskTemps, diskData>>
vars == <<pc, cancelled, dirVars, data, diskVars, crashes>>

Running == {"created", "encoded", "synced", "closed", "checked"}
Ended == {"renamed", "failed", "littered", "dead"}
Bytes == {"none", "part", "whole"}
Version == Call \cup {Inherited}

TypeOK ==
    /\ pc \in [Call -> {"idle"} \cup Running \cup Ended]
    /\ cancelled \in [Call -> {"no", "early", "late"}]
    /\ target \in Version /\ diskTarget \in Version
    /\ temps \in SUBSET Call /\ diskTemps \in SUBSET Call
    /\ data \in [Call -> Bytes] /\ diskData \in [Call -> Bytes]
    /\ crashes \in 0 .. MaxCrashes

Init ==
    /\ pc = [c \in Call |-> "idle"]
    /\ cancelled = [c \in Call |-> "no"]
    /\ target = Inherited /\ diskTarget = Inherited
    /\ temps = {} /\ diskTemps = {}
    /\ data = [c \in Call |-> "none"] /\ diskData = [c \in Call |-> "none"]
    /\ crashes = 0

-----------------------------------------------------------------------------
(* The steps of replaceFile.                                               *)

MovesTo(c, s) == pc' = [pc EXCEPT ![c] = s]

(* Mutated form: the temp file is forgotten, not removed.                  *)
ForgetTemp(c) ==
    /\ MovesTo(c, "failed")
    /\ UNCHANGED dirVars

(* The deferred function of a call that has not renamed. Its own errors    *)
(* are dropped: a temp file that cannot be removed stays.                  *)
Discard(c) ==
    \/ /\ MovesTo(c, "failed")
       /\ temps' = temps \ {c}
       /\ UNCHANGED target
    \/ /\ MovesTo(c, "littered")
       /\ UNCHANGED dirVars

(* A batch that fails Validate, a dataset no Path exists for, or a         *)
(* directory or temp file that cannot be made.                             *)
Refuse(c) ==
    /\ pc[c] = "idle"
    /\ MovesTo(c, "failed")
    /\ UNCHANGED <<cancelled, dirVars, data, diskVars, crashes>>

CreateTemp(c) ==
    /\ pc[c] = "idle"
    /\ MovesTo(c, "created")
    /\ temps' = temps \cup {c}
    /\ UNCHANGED <<cancelled, target, data, diskVars, crashes>>

Encode(c) ==
    /\ pc[c] = "created"
    /\ MovesTo(c, "encoded")
    /\ data' = [data EXCEPT ![c] = "whole"]
    /\ UNCHANGED <<cancelled, dirVars, diskVars, crashes>>

(* The encoder stops half-way.                                             *)
EncodeError(c) ==
    /\ pc[c] = "created"
    /\ data' = [data EXCEPT ![c] = "part"]
    /\ Discard(c)
    /\ UNCHANGED <<cancelled, diskVars, crashes>>

(* Mutated form: Close is taken to be enough.                              *)
SkipSync(c) ==
    /\ pc[c] = "encoded"
    /\ MovesTo(c, "synced")
    /\ UNCHANGED <<cancelled, dirVars, data, diskVars, crashes>>

Sync(c) ==
    /\ pc[c] = "encoded"
    /\ MovesTo(c, "synced")
    /\ diskData' = [diskData EXCEPT ![c] = data[c]]
    /\ UNCHANGED <<cancelled, dirVars, data, diskTarget, diskTemps, crashes>>

(* Stat and Close.                                                         *)
Close(c) ==
    /\ pc[c] = "synced"
    /\ MovesTo(c, "closed")
    /\ UNCHANGED <<cancelled, dirVars, data, diskVars, crashes>>

(* Mutated form: ctx is not asked.                                         *)
PassCheck(c) ==
    /\ pc[c] = "closed"
    /\ MovesTo(c, "checked")
    /\ UNCHANGED <<cancelled, dirVars, data, diskVars, crashes>>

Check(c) ==
    /\ pc[c] = "closed"
    /\ \/ cancelled[c] = "no" /\ MovesTo(c, "checked") /\ UNCHANGED dirVars
       \/ cancelled[c] # "no" /\ Discard(c)
    /\ UNCHANGED <<cancelled, data, diskVars, crashes>>

Rename(c) ==
    /\ pc[c] = "checked"
    /\ MovesTo(c, "renamed")
    /\ target' = c
    /\ temps' = temps \ {c}
    /\ UNCHANGED <<cancelled, data, diskVars, crashes>>

(* Chmod, Sync, Stat, Close or Rename fails.                               *)
StepError(c) ==
    /\ pc[c] \in {"created", "encoded", "synced", "checked"}
    /\ Discard(c)
    /\ UNCHANGED <<cancelled, data, diskVars, crashes>>

-----------------------------------------------------------------------------
(* What happens to a call.                                                 *)

Cancel(c) ==
    /\ pc[c] \in {"idle"} \cup Running
    /\ cancelled[c] = "no"
    /\ cancelled' = [cancelled EXCEPT ![c] = IF pc[c] = "checked" THEN "late" ELSE "early"]
    /\ UNCHANGED <<pc, dirVars, data, diskVars, crashes>>

(* The process is killed: no deferred function runs.                       *)
Die(c) ==
    /\ pc[c] \in Running
    /\ MovesTo(c, "dead")
    /\ \/ UNCHANGED data
       \/ pc[c] = "created" /\ data' = [data EXCEPT ![c] = "part"]
    /\ UNCHANGED <<cancelled, dirVars, diskVars, crashes>>

(* The kernel writes pages back when it likes, and a directory apart from  *)
(* the bytes of the files in it.                                           *)
WriteBack(c) ==
    /\ data[c] # "none" /\ diskData[c] # "whole"
    /\ \E b \in {"part", data[c]} : diskData' = [diskData EXCEPT ![c] = b]
    /\ UNCHANGED <<pc, cancelled, dirVars, data, diskTarget, diskTemps, crashes>>

WriteBackDir ==
    /\ diskTarget' = target
    /\ diskTemps' = temps
    /\ UNCHANGED <<pc, cancelled, dirVars, data, diskData, crashes>>

(* The power fails and comes back. replaceFile does not sync the           *)
(* directory: a rename it has reported may be undone.                      *)
Crash ==
    /\ crashes < MaxCrashes
    /\ crashes' = crashes + 1
    /\ pc' = [c \in Call |-> IF pc[c] \in Running THEN "dead" ELSE pc[c]]
    /\ target' = diskTarget
    /\ temps' = diskTemps
    /\ data' = diskData
    /\ UNCHANGED <<cancelled, diskVars>>

CallStep(c) ==
    \/ Refuse(c) \/ CreateTemp(c) \/ Encode(c) \/ EncodeError(c) \/ Sync(c)
    \/ Close(c) \/ Check(c) \/ Rename(c) \/ StepError(c)

Next ==
    \/ \E c \in Call : CallStep(c) \/ Cancel(c) \/ Die(c) \/ WriteBack(c)
    \/ WriteBackDir
    \/ Crash

Spec == Init /\ [][Next]_vars

-----------------------------------------------------------------------------
(* Properties.                                                             *)

Whole(v) == v = Inherited \/ (v \in Call /\ data[v] = "whole")

(* Neither the file readers open nor the one a power loss at this moment   *)
(* would leave them is cut short (bronze/doc.go: "Readers see either the   *)
(* old file or the new one, never a half-written one").                    *)
TargetNeverTorn ==
    /\ Whole(target)
    /\ diskTarget \in Call => diskData[diskTarget] = "whole"

(* A call that returned an error has changed nothing: its file is not, and *)
(* was not, the target, and its temp file is gone unless the removal       *)
(* itself failed. After a power loss the removal may be undone.            *)
FailureLeavesNothing ==
    \A c \in Call :
        /\ pc[c] \in {"failed", "littered", "dead"} => c \notin {target, diskTarget}
        /\ pc[c] \in {"failed", "renamed"} /\ crashes = 0 => c \notin temps

(* A call whose ctx was done before its check never reaches the target.    *)
CancelledNeverPublished ==
    \A c \in Call : cancelled[c] = "early" => c \notin {target, diskTarget}

Published == {Inherited} \cup {c \in Call : pc[c] = "renamed"}

(* The path behaves as a file that is replaced atomically. A torn target   *)
(* would be no version at all.                                             *)
Atomic == INSTANCE AtomicFile WITH
    Version <- Call,
    current <- IF Whole(target) THEN target ELSE "torn",
    published <- Published

ReplacesAtomically == Atomic!Spec

-----------------------------------------------------------------------------
(* The inductive invariant behind them.                                    *)

(* What has been synced is whole, on the disk as in memory, and stays so.  *)
SyncedIsWhole ==
    \A c \in Call :
        /\ pc[c] \in {"encoded", "synced", "closed", "checked", "renamed"} => data[c] = "whole"
        /\ pc[c] \in {"synced", "closed", "checked", "renamed"} => diskData[c] = "whole"

OnlyRenamed == target \in Published /\ diskTarget \in Published

CheckedInTime ==
    \A c \in Call : pc[c] \in {"checked", "renamed"} => cancelled[c] # "early"

(* Before any power loss a temp file belongs to a call under way, or to    *)
(* one that could not remove it.                                           *)
TempsHaveOwners ==
    crashes = 0 =>
        /\ \A c \in temps \cup diskTemps : pc[c] # "idle"
        /\ \A c \in temps : pc[c] \notin {"failed", "renamed"}

IInv ==
    /\ TypeOK
    /\ SyncedIsWhole
    /\ OnlyRenamed
    /\ CheckedInTime
    /\ TempsHaveOwners
=============================================================================
