---------------------------- MODULE Preferences ----------------------------
(***************************************************************************)
(* preferences.py: the document on disk, which the threads of several      *)
(* stdio processes load, merge and save under a thread lock and a file     *)
(* lock.  An HTTP server only reads the file; what its sessions store over *)
(* it is in SessionStore.                                                  *)
(***************************************************************************)
EXTENDS Naturals

CONSTANTS
    Process,      \* server processes over one preferences file
    Request,      \* tool calls in them
    ProcOf,       \* the process a call runs in
    Field,        \* fields of the document
    Value,        \* what _normalize() lets pass
    Junk,         \* what it turns into None: a blank, an unknown mode
    Omitted,      \* a field an update does not name
    Update,       \* updates asked for
    ToClear, ToRead,  \* the other operations
    MaxCrashes,   \* bound: processes that die
    None,         \* no value, nobody, no file
    Torn          \* not the JSON of a document

ASSUME ProcAssumption == ProcOf \in [Request -> Process] /\ None \notin Request
ASSUME UpdateAssumption == Update \subseteq [Field -> Value \cup {Junk, Omitted}]
ASSUME OperationAssumption == ToClear # ToRead /\ {ToClear, ToRead} \cap Update = {}
ASSUME ValueAssumption == {None, Junk, Omitted} \cap Value = {} /\ Junk # None /\ Omitted \notin {None, Junk}
ASSUME FileAssumption == Torn # None /\ {Torn, None} \cap [Field -> Value \cup {None, Junk}] = {}
ASSUME CrashAssumption == MaxCrashes \in Nat

VARIABLES
    file,      \* preferences.json
    tmp,       \* preferences.json.tmp
    mutex,     \* _THREAD_LOCK of each process
    flock,     \* the lock on preferences.json.lock
    pc,        \* where each call is
    op,        \* what it is to do: an update, ToClear or ToRead
    loaded,    \* the document it loaded
    crashes

vars == <<file, tmp, mutex, flock, pc, op, loaded, crashes>>

Missing == None
Doc == [Field -> Value \cup {None}]
RawDoc == [Field -> Value \cup {None, Junk}]  \* a file edited by hand
Empty == [f \in Field |-> None]
PC == {"idle", "waiting", "queued", "locked", "loaded", "writing", "written", "leaving"}

Normal(v) == IF v = Junk THEN None ELSE v
Normalize(d) == [f \in Field |-> Normal(d[f])]

\* current.update(given)
Merge(d, u) == [f \in Field |-> IF u[f] = Omitted THEN d[f] ELSE u[f]]

\* _file_doc() of a file that parses: a missing one is empty.
Parsed(x) == IF x = Missing THEN Empty ELSE Normalize(x)

Init ==
    /\ file \in RawDoc \cup {Missing, Torn}
    /\ tmp = None
    /\ mutex = [p \in Process |-> None] /\ flock = None
    /\ pc = [c \in Request |-> "idle"]
    /\ op = [c \in Request |-> ToRead]
    /\ loaded = [c \in Request |-> Empty]
    /\ crashes = 0

Go(c, l) == pc' = [pc EXCEPT ![c] = l]

-----------------------------------------------------------------------------
(* A stdio process: update(), clear() and payload().                       *)

Ask(c, o) ==
    /\ pc[c] = "idle"
    /\ op' = [op EXCEPT ![c] = o]
    /\ Go(c, "waiting")
    /\ UNCHANGED <<file, tmp, mutex, flock, loaded, crashes>>

\* `with _THREAD_LOCK:` keeps the threads of one process apart.
LockThread(c) ==
    /\ pc[c] = "waiting"
    /\ mutex[ProcOf[c]] = None
    /\ mutex' = [mutex EXCEPT ![ProcOf[c]] = c]
    /\ Go(c, "queued")
    /\ UNCHANGED <<file, tmp, flock, op, loaded, crashes>>

\* Windows: _lock_file() does nothing.
LockNothing(c) ==
    /\ pc[c] = "queued"
    /\ Go(c, "locked")
    /\ UNCHANGED <<file, tmp, mutex, flock, op, loaded, crashes>>

\* flock(LOCK_EX) keeps the processes apart.
LockFile(c) ==
    /\ pc[c] = "queued"
    /\ flock = None
    /\ flock' = c
    /\ Go(c, "locked")
    /\ UNCHANGED <<file, tmp, mutex, op, loaded, crashes>>

\* A torn file taken for an empty one.
LoadLeniently(c) ==
    /\ pc[c] = "locked" /\ op[c] # ToClear
    /\ loaded' = [loaded EXCEPT ![c] = IF file = Torn THEN Empty ELSE Parsed(file)]
    /\ Go(c, IF op[c] = ToRead THEN "leaving" ELSE "loaded")
    /\ UNCHANGED <<file, tmp, mutex, flock, op, crashes>>

\* load(): a missing file is an empty document, a torn one an error.
Load(c) ==
    /\ pc[c] = "locked" /\ op[c] # ToClear
    /\ IF file = Torn
       THEN Go(c, "leaving") /\ UNCHANGED loaded
       ELSE /\ loaded' = [loaded EXCEPT ![c] = Parsed(file)]
            /\ Go(c, IF op[c] = ToRead THEN "leaving" ELSE "loaded")
    /\ UNCHANGED <<file, tmp, mutex, flock, op, crashes>>

\* clear(): dest.unlink()
Unlink(c) ==
    /\ pc[c] = "locked" /\ op[c] = ToClear
    /\ file' = Missing
    /\ Go(c, "leaving")
    /\ UNCHANGED <<tmp, mutex, flock, op, loaded, crashes>>

\* save(): write_text() truncates the one .tmp file, then fills it.
OpenTmp(c) ==
    /\ pc[c] = "loaded"
    /\ tmp' = Torn
    /\ Go(c, "writing")
    /\ UNCHANGED <<file, mutex, flock, op, loaded, crashes>>

WriteTmp(c) ==
    /\ pc[c] = "writing"
    /\ tmp' = Normalize(Merge(loaded[c], op[c]))
    /\ Go(c, "written")
    /\ UNCHANGED <<file, mutex, flock, op, loaded, crashes>>

\* os.replace(tmp, dest)
Replace(c) ==
    /\ pc[c] = "written"
    /\ tmp # None
    /\ file' = tmp
    /\ tmp' = None
    /\ Go(c, "leaving")
    /\ UNCHANGED <<mutex, flock, op, loaded, crashes>>

\* An OSError: the .tmp file is removed and the error reported.
SaveFails(c) ==
    /\ pc[c] \in {"writing", "written"}
    /\ tmp' = None
    /\ Go(c, "leaving")
    /\ UNCHANGED <<file, mutex, flock, op, loaded, crashes>>

\* The end of _exclusive(), whether the block returned or raised.
Unlock(c) ==
    /\ pc[c] = "leaving"
    /\ flock' = IF flock = c THEN None ELSE flock
    /\ mutex' = [mutex EXCEPT ![ProcOf[c]] = None]
    /\ Go(c, "idle")
    /\ op' = [op EXCEPT ![c] = ToRead] /\ loaded' = [loaded EXCEPT ![c] = Empty]
    /\ UNCHANGED <<file, tmp, crashes>>

\* A process dies: the kernel drops its file lock, its .tmp file stays.
Crash(p) ==
    /\ crashes < MaxCrashes
    /\ crashes' = crashes + 1
    /\ pc' = [c \in Request |-> IF ProcOf[c] = p THEN "idle" ELSE pc[c]]
    /\ mutex' = [mutex EXCEPT ![p] = None]
    /\ flock' = IF flock # None /\ ProcOf[flock] = p THEN None ELSE flock
    /\ op' = [c \in Request |-> IF ProcOf[c] = p THEN ToRead ELSE op[c]]
    /\ loaded' = [c \in Request |-> IF ProcOf[c] = p THEN Empty ELSE loaded[c]]
    /\ UNCHANGED <<file, tmp>>

-----------------------------------------------------------------------------
Next ==
    \/ \E c \in Request :
          \/ \E o \in Update \cup {ToClear, ToRead} : Ask(c, o)
          \/ LockThread(c) \/ LockFile(c) \/ Load(c) \/ Unlink(c)
          \/ OpenTmp(c) \/ WriteTmp(c) \/ Replace(c) \/ SaveFails(c) \/ Unlock(c)
    \/ \E p \in Process : Crash(p)

Spec == Init /\ [][Next]_vars

-----------------------------------------------------------------------------
TypeOK ==
    /\ file \in RawDoc \cup {Missing, Torn}
    /\ tmp \in Doc \cup {None, Torn}
    /\ mutex \in [Process -> Request \cup {None}]
    /\ flock \in Request \cup {None}
    /\ pc \in [Request -> PC]
    /\ op \in [Request -> Update \cup {ToClear, ToRead}]
    /\ loaded \in [Request -> Doc]
    /\ crashes \in 0..MaxCrashes

\* What the file says: a missing one is an empty document.
Document == INSTANCE SharedDocument WITH
    doc <- IF file = Torn THEN Torn ELSE Parsed(file),
    Update <- {Normalize(u) : u \in Update}

\* Threads, processes and crashes in any order: updates of the file merge one
\* after the other, none is lost, half a file is never published, and a torn
\* file is neither read as empty nor replaced by an update.
ImplementsDocument == Document!Spec

\* Between loading and replacing, what was loaded is still what the file says:
\* the premise of the read-modify-write of update().
LoadedIsCurrent ==
    \A c \in Request : pc[c] \in {"loaded", "writing", "written"} =>
        file # Torn /\ loaded[c] = Parsed(file)

-----------------------------------------------------------------------------
(* Both locks are held from the point at which they were taken to the end, *)
(* so that nobody else is past the file lock; what was written is the      *)
(* merge with what was loaded, and what was loaded is still what the file  *)
(* says.  The file changes by a replacement or a removal only.             *)

Exclusive ==
    \A c \in Request :
        pc[c] \in {"locked", "loaded", "writing", "written", "leaving"} => flock = c
OnePerProcess ==
    \A c \in Request :
        pc[c] \in {"queued", "locked", "loaded", "writing", "written", "leaving"} => mutex[ProcOf[c]] = c
MergeIsWritten ==
    \A c \in Request :
        /\ pc[c] \in {"loaded", "writing", "written"} => op[c] \in Update
        /\ pc[c] = "written" => tmp = Normalize(Merge(loaded[c], op[c]))
IInv == TypeOK /\ Exclusive /\ OnePerProcess /\ MergeIsWritten /\ LoadedIsCurrent
=============================================================================
