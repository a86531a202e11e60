------------------------ MODULE DivisionsIndexProofs ------------------------
(***************************************************************************)
(* Proofs about DivisionsIndex, for any searches, slots, fetch slots,      *)
(* deployments and number of faults.                                       *)
(*                                                                         *)
(* Everything rests on who is inside the build lock: only that thread      *)
(* writes tables, so that what it saw when it took the lock is what it     *)
(* replaces.  Whoever is not in isolation has a slot for one read only,    *)
(* and wants no lock meanwhile.                                            *)
(***************************************************************************)
EXTENDS DivisionsIndex, FiniteSetTheorems, TLAPS

\* TypeOK without the caps.
TypeBasic ==
    /\ deploy \in Deploy
    /\ table \in Kind
    /\ started \subseteq Background
    /\ schema \in {"unknown", "known", "failed"}
    /\ lock \in Proc \cup {None} /\ job \in Job
    /\ fetching \subseteq Background
    /\ holders \subseteq Proc
    /\ pc \in [Proc -> CallerPC \cup BuilderPC \cup BackgroundPC]
    /\ restarts \in Nat /\ deletes \in Nat /\ misreads \in Nat

Flags == sentinel \in BOOLEAN /\ names \in BOOLEAN /\ checked \in BOOLEAN /\ tried \in BOOLEAN

WithinCaps == Cardinality(fetching) <= FetchCap /\ Cardinality(holders) <= Cap

\* Who builds holds the lock; a background thread holds it for its own job,
\* and one whose key is free stands still.
Owner ==
    /\ \A p \in Proc : pc[p] \in BuilderPC => lock = p
    /\ \A b \in Background :
          /\ pc[b] \in BuilderPC => job = b
          /\ b \notin started => pc[b] = "idle"
    /\ \A c \in Caller :
          /\ pc[c] \in BuilderPC => job \in {"first", "rebuild", "names"}
          /\ pc[c] = "entering" => c \in Isolated

\* A slot outside isolation is a read's.
HeldForARead ==
    \A p \in holders \ Isolated :
        pc[p] \in {"bbox", "reading"} \/ (pc[p] = "probing" /\ ~SchemaAtHand)

\* What is being built is not in place of a full table, unless one could not be
\* read: who builds looked at the table under the lock.
ReplacesNoChains ==
    misreads = 0 =>
        \A p \in Proc : pc[p] \in {"probing", "copying"} /\ job # "upgrade" => table \in {"none", "old"}

Sound == deletes = 0 /\ misreads = 0

\* Without faults a table only gets better, and one that is built was not
\* upgraded before.
OnlyBetter ==
    Sound =>
        /\ sentinel \/ "upgrade" \in started => table \in {"stage1", "full"}
        /\ \A p \in Proc :
              /\ pc[p] = "marking" => "upgrade" \notin started /\ ~sentinel
              /\ pc[p] \in {"marking", "spawning"} => table \in {"stage1", "full"}
        /\ pc["build"] \in {"marking", "spawning", "siding", "unmarking", "leaving"} => table # "none"
        /\ pc["upgrade"] \notin {"marking", "spawning"}
        /\ pc["upgrade"] = "leaving" => ~sentinel

IInv ==
    /\ TypeBasic /\ Owner /\ HeldForARead /\ ReplacesNoChains /\ OnlyBetter
    /\ NothingIsForgotten

-----------------------------------------------------------------------------
LEMMA InitInv == Init => IInv
<1> SUFFICES ASSUME Init PROVE IInv
  OBVIOUS
<1>1. TypeBasic
  BY DEF Init, TypeBasic, Kind, Job, CallerPC
<1>2. \A p \in Proc : pc[p] = "idle"
  BY DEF Init
<1>3. "build" \in Proc /\ "upgrade" \in Proc
  BY DEF Proc, Background
<1>4. Owner /\ HeldForARead /\ ReplacesNoChains /\ NothingIsForgotten
  BY <1>2 DEF Init, Owner, HeldForARead, ReplacesNoChains, NothingIsForgotten,
     BuilderPC, Proc
<1>5. OnlyBetter
  BY <1>2, <1>3 DEF Init, OnlyBetter
<1>6. QED
  BY <1>1, <1>4, <1>5 DEF IInv

LEMMA TypeStep == TypeBasic /\ [Next]_vars => TypeBasic'
<1> SUFFICES ASSUME TypeBasic, [Next]_vars PROVE TypeBasic'
  OBVIOUS
<1> USE CallerAssumption DEF TypeBasic, Go, Leave, TakeLock, LetGo, Spawn, Proc, Background,
        Kind, Job, CallerPC, BuilderPC, BackgroundPC, files, memos, locks, counts
<1>1. ASSUME NEW p \in Proc, Materialize(p) PROVE TypeBasic'
  <2>1. CASE Lease(p)
    BY <2>1 DEF Lease, Slots!Acquire, NeedsSlot
  <2>2. CASE Probe(p)
    BY <2>2 DEF Probe
  <2>3. CASE Publish(p)
    BY <2>3 DEF Publish, Copied, Staged
  <2>4. CASE FailBuild(p)
    BY <2>4 DEF FailBuild, Fails, Copied, Staged
  <2>5. CASE Mark(p)
    BY <2>5 DEF Mark
  <2>6. CASE SpawnUpgrade(p)
    BY <2>6 DEF SpawnUpgrade
  <2>7. CASE BuildNames(p)
    BY <2>7 DEF BuildNames
  <2>8. CASE Unmark(p)
    BY <2>8 DEF Unmark
  <2>9. CASE Finish(p)
    BY <2>9 DEF Finish
  <2>10. QED
    BY <1>1, <2>1, <2>2, <2>3, <2>4, <2>5, <2>6, <2>7, <2>8, <2>9 DEF Materialize
<1>2. ASSUME NEW b \in Background, Run(b) PROVE TypeBasic'
  <2>1. CASE BeginFetch(b)
    BY <2>1 DEF BeginFetch
  <2>2. CASE BeginWork(b)
    <3>1. CASE b = "build" /\ table # "none"
      BY <2>2, <3>1 DEF BeginWork
    <3>2. CASE ~(b = "build" /\ table # "none")
      <4>1. lock' \in Proc /\ job' \in Job
        BY <2>2, <3>2 DEF BeginWork
      <4>2. pc' \in [Proc -> CallerPC \cup BuilderPC \cup BackgroundPC]
        BY <2>2, <3>2 DEF BeginWork
      <4>3. UNCHANGED <<deploy, table, started, schema, fetching, holders, restarts, deletes, misreads>>
        BY <2>2, <3>2 DEF BeginWork
      <4>4. QED
        BY <4>1, <4>2, <4>3
    <3>3. QED
      BY <3>1, <3>2
  <2>3. CASE DiscardKey(b)
    BY <2>3 DEF DiscardKey
  <2>4. QED
    BY <1>2, <2>1, <2>2, <2>3 DEF Run
<1>3. ASSUME NEW c \in Caller, Call(c) \/ Search(c) PROVE TypeBasic'
  <2>1. CASE Call(c)
    BY <2>1 DEF Call
  <2>2. CASE Enter(c)
    BY <2>2 DEF Enter, Slots!Acquire
  <2>3. CASE Look(c)
    <3>1. CASE Spawn(c, "build", "reading")
      BY <2>3, <3>1 DEF Look
    <3>2. CASE started' = started /\ (Go(c, "wantFirst") \/ Go(c, "resuming") \/ Go(c, "wantCheck"))
      BY <2>3, <3>2 DEF Look
    <3>3. QED
      BY <2>3, <3>1, <3>2 DEF Look
  <2>4. CASE BeginFirst(c)
    BY <2>4 DEF BeginFirst
  <2>5. CASE BeginCheck(c)
    BY <2>5 DEF BeginCheck
  <2>6. CASE CheckBbox(c)
    <3>1. CASE Leave(c, "resuming")
      BY <2>6, <3>1 DEF CheckBbox
    <3>2. CASE Go(c, "probing")
      <4>1. misreads' \in Nat
        BY <2>6 DEF CheckBbox
      <4>2. lock' \in Proc \cup {None} /\ job' \in Job /\ fetching' \subseteq Background
        BY <2>6 DEF CheckBbox
      <4>3. pc' \in [Proc -> CallerPC \cup BuilderPC \cup BackgroundPC]
        BY <3>2
      <4>4. UNCHANGED <<deploy, table, started, schema, restarts, deletes>> /\ holders' \subseteq holders
        BY <2>6 DEF CheckBbox
      <4>5. QED
        BY <4>1, <4>2, <4>3, <4>4
    <3>3. QED
      BY <2>6, <3>1, <3>2 DEF CheckBbox
  <2>7. CASE Resume(c)
    <3>1. CASE Spawn(c, "upgrade", "answering")
      BY <2>7, <3>1 DEF Resume
    <3>2. CASE Go(c, "answering") /\ UNCHANGED started
      BY <2>7, <3>2 DEF Resume
    <3>3. QED
      BY <2>7, <3>1, <3>2 DEF Resume
  <2>8. CASE FindNames(c)
    BY <2>8 DEF FindNames
  <2>9. CASE BeginNames(c)
    BY <2>9 DEF BeginNames
  <2>10. CASE Read(c)
    BY <2>10 DEF Read
  <2>11. CASE FailSearch(c)
    BY <2>11 DEF FailSearch, Fails, Copied, Staged
  <2>12. QED
    BY <1>3, <2>1, <2>2, <2>3, <2>4, <2>5, <2>6, <2>7, <2>8, <2>9, <2>10, <2>11 DEF Search
<1>4. CASE Restart
  BY <1>4 DEF Restart
<1>5. CASE Delete
  BY <1>5 DEF Delete
<1>6. CASE UNCHANGED vars
  BY <1>6 DEF vars
<1>7. QED
  BY <1>1, <1>2, <1>3, <1>4, <1>5, <1>6 DEF Next

LEMMA OwnerStep == TypeBasic /\ Owner /\ [Next]_vars => Owner'
<1> SUFFICES ASSUME TypeBasic, Owner, [Next]_vars PROVE Owner'
  OBVIOUS
<1> USE CallerAssumption DEF TypeBasic, Go, Leave, TakeLock, LetGo, Spawn, Proc, Background,
        Kind, Job, CallerPC, BuilderPC, BackgroundPC, files, memos, locks, counts, Owner
<1>1. ASSUME NEW p \in Proc, Materialize(p) PROVE Owner'
  <2>1. CASE Lease(p)
    BY <2>1 DEF Lease, Slots!Acquire, NeedsSlot
  <2>2. CASE Probe(p)
    BY <2>2 DEF Probe
  <2>3. CASE Publish(p)
    BY <2>3 DEF Publish, Copied, Staged
  <2>4. CASE FailBuild(p)
    BY <2>4 DEF FailBuild, Fails, Copied, Staged
  <2>5. CASE Mark(p)
    BY <2>5 DEF Mark
  <2>6. CASE SpawnUpgrade(p)
    BY <2>6 DEF SpawnUpgrade
  <2>7. CASE BuildNames(p)
    BY <2>7 DEF BuildNames
  <2>8. CASE Unmark(p)
    BY <2>8 DEF Unmark
  <2>9. CASE Finish(p)
    BY <2>9 DEF Finish
  <2>10. QED
    BY <1>1, <2>1, <2>2, <2>3, <2>4, <2>5, <2>6, <2>7, <2>8, <2>9 DEF Materialize
<1>2. ASSUME NEW b \in Background, Run(b) PROVE Owner'
  <2>1. CASE BeginFetch(b)
    BY <2>1 DEF BeginFetch
  <2>2. CASE BeginWork(b)
    BY <2>2 DEF BeginWork
  <2>3. CASE DiscardKey(b)
    BY <2>3 DEF DiscardKey
  <2>4. QED
    BY <1>2, <2>1, <2>2, <2>3 DEF Run
<1>3. ASSUME NEW c \in Caller, Call(c) \/ Search(c) PROVE Owner'
  <2>1. CASE Call(c)
    BY <2>1 DEF Call
  <2>2. CASE Enter(c)
    BY <2>2 DEF Enter, Slots!Acquire
  <2>3. CASE Look(c)
    BY <2>3 DEF Look
  <2>4. CASE BeginFirst(c)
    BY <2>4 DEF BeginFirst
  <2>5. CASE BeginCheck(c)
    BY <2>5 DEF BeginCheck
  <2>6. CASE CheckBbox(c)
    BY <2>6 DEF CheckBbox
  <2>7. CASE Resume(c)
    BY <2>7 DEF Resume
  <2>8. CASE FindNames(c)
    BY <2>8 DEF FindNames
  <2>9. CASE BeginNames(c)
    BY <2>9 DEF BeginNames
  <2>10. CASE Read(c)
    BY <2>10 DEF Read
  <2>11. CASE FailSearch(c)
    BY <2>11 DEF FailSearch, Fails, Copied, Staged
  <2>12. QED
    BY <1>3, <2>1, <2>2, <2>3, <2>4, <2>5, <2>6, <2>7, <2>8, <2>9, <2>10, <2>11 DEF Search
<1>4. CASE Restart
  BY <1>4 DEF Restart
<1>5. CASE Delete
  BY <1>5 DEF Delete
<1>6. CASE UNCHANGED vars
  BY <1>6 DEF vars
<1>7. QED
  BY <1>1, <1>2, <1>3, <1>4, <1>5, <1>6 DEF Next

LEMMA HeldStep == TypeBasic /\ Owner /\ HeldForARead /\ [Next]_vars => HeldForARead'
<1> SUFFICES ASSUME TypeBasic, Owner, HeldForARead, [Next]_vars PROVE HeldForARead'
  OBVIOUS
<1> USE CallerAssumption DEF TypeBasic, Go, Leave, TakeLock, LetGo, Spawn, Proc, Background,
        Kind, Job, CallerPC, BuilderPC, BackgroundPC, files, memos, locks, counts, Owner, HeldForARead, SchemaAtHand
<1>1. ASSUME NEW p \in Proc, Materialize(p) PROVE HeldForARead'
  <2>1. CASE Lease(p)
    BY <2>1 DEF Lease, Slots!Acquire, NeedsSlot
  <2>2. CASE Probe(p)
    BY <2>2 DEF Probe
  <2>3. CASE Publish(p)
    BY <2>3 DEF Publish, Copied, Staged
  <2>4. CASE FailBuild(p)
    BY <2>4 DEF FailBuild, Fails, Copied, Staged
  <2>5. CASE Mark(p)
    BY <2>5 DEF Mark
  <2>6. CASE SpawnUpgrade(p)
    BY <2>6 DEF SpawnUpgrade
  <2>7. CASE BuildNames(p)
    BY <2>7 DEF BuildNames
  <2>8. CASE Unmark(p)
    BY <2>8 DEF Unmark
  <2>9. CASE Finish(p)
    BY <2>9 DEF Finish
  <2>10. QED
    BY <1>1, <2>1, <2>2, <2>3, <2>4, <2>5, <2>6, <2>7, <2>8, <2>9 DEF Materialize
<1>2. ASSUME NEW b \in Background, Run(b) PROVE HeldForARead'
  <2>1. CASE BeginFetch(b)
    BY <2>1 DEF BeginFetch
  <2>2. CASE BeginWork(b)
    BY <2>2 DEF BeginWork
  <2>3. CASE DiscardKey(b)
    BY <2>3 DEF DiscardKey
  <2>4. QED
    BY <1>2, <2>1, <2>2, <2>3 DEF Run
<1>3. ASSUME NEW c \in Caller, Call(c) \/ Search(c) PROVE HeldForARead'
  <2>1. CASE Call(c)
    BY <2>1 DEF Call
  <2>2. CASE Enter(c)
    BY <2>2 DEF Enter, Slots!Acquire
  <2>3. CASE Look(c)
    BY <2>3 DEF Look
  <2>4. CASE BeginFirst(c)
    BY <2>4 DEF BeginFirst
  <2>5. CASE BeginCheck(c)
    BY <2>5 DEF BeginCheck
  <2>6. CASE CheckBbox(c)
    BY <2>6 DEF CheckBbox
  <2>7. CASE Resume(c)
    BY <2>7 DEF Resume
  <2>8. CASE FindNames(c)
    BY <2>8 DEF FindNames
  <2>9. CASE BeginNames(c)
    BY <2>9 DEF BeginNames
  <2>10. CASE Read(c)
    BY <2>10 DEF Read
  <2>11. CASE FailSearch(c)
    BY <2>11 DEF FailSearch, Fails, Copied, Staged
  <2>12. QED
    BY <1>3, <2>1, <2>2, <2>3, <2>4, <2>5, <2>6, <2>7, <2>8, <2>9, <2>10, <2>11 DEF Search
<1>4. CASE Restart
  BY <1>4 DEF Restart
<1>5. CASE Delete
  BY <1>5 DEF Delete
<1>6. CASE UNCHANGED vars
  BY <1>6 DEF vars
<1>7. QED
  BY <1>1, <1>2, <1>3, <1>4, <1>5, <1>6 DEF Next

LEMMA ReplacesStep == TypeBasic /\ Owner /\ ReplacesNoChains /\ [Next]_vars => ReplacesNoChains'
<1> SUFFICES ASSUME TypeBasic, Owner, ReplacesNoChains, [Next]_vars PROVE ReplacesNoChains'
  OBVIOUS
<1> USE CallerAssumption DEF TypeBasic, Go, Leave, TakeLock, LetGo, Spawn, Proc, Background,
        Kind, Job, CallerPC, BuilderPC, BackgroundPC, files, memos, locks, counts, Owner, ReplacesNoChains
<1>1. ASSUME NEW p \in Proc, Materialize(p) PROVE ReplacesNoChains'
  <2>1. CASE Lease(p)
    BY <2>1 DEF Lease, Slots!Acquire, NeedsSlot
  <2>2. CASE Probe(p)
    BY <2>2 DEF Probe
  <2>3. CASE Publish(p)
    BY <2>3 DEF Publish, Copied, Staged
  <2>4. CASE FailBuild(p)
    BY <2>4 DEF FailBuild, Fails, Copied, Staged
  <2>5. CASE Mark(p)
    BY <2>5 DEF Mark
  <2>6. CASE SpawnUpgrade(p)
    BY <2>6 DEF SpawnUpgrade
  <2>7. CASE BuildNames(p)
    BY <2>7 DEF BuildNames
  <2>8. CASE Unmark(p)
    BY <2>8 DEF Unmark
  <2>9. CASE Finish(p)
    BY <2>9 DEF Finish
  <2>10. QED
    BY <1>1, <2>1, <2>2, <2>3, <2>4, <2>5, <2>6, <2>7, <2>8, <2>9 DEF Materialize
<1>2. ASSUME NEW b \in Background, Run(b) PROVE ReplacesNoChains'
  <2>1. CASE BeginFetch(b)
    BY <2>1 DEF BeginFetch
  <2>2. CASE BeginWork(b)
    BY <2>2 DEF BeginWork
  <2>3. CASE DiscardKey(b)
    BY <2>3 DEF DiscardKey
  <2>4. QED
    BY <1>2, <2>1, <2>2, <2>3 DEF Run
<1>3. ASSUME NEW c \in Caller, Call(c) \/ Search(c) PROVE ReplacesNoChains'
  <2>1. CASE Call(c)
    BY <2>1 DEF Call
  <2>2. CASE Enter(c)
    BY <2>2 DEF Enter, Slots!Acquire
  <2>3. CASE Look(c)
    BY <2>3 DEF Look
  <2>4. CASE BeginFirst(c)
    BY <2>4 DEF BeginFirst
  <2>5. CASE BeginCheck(c)
    BY <2>5 DEF BeginCheck
  <2>6. CASE CheckBbox(c)
    BY <2>6 DEF CheckBbox
  <2>7. CASE Resume(c)
    BY <2>7 DEF Resume
  <2>8. CASE FindNames(c)
    BY <2>8 DEF FindNames
  <2>9. CASE BeginNames(c)
    BY <2>9 DEF BeginNames
  <2>10. CASE Read(c)
    BY <2>10 DEF Read
  <2>11. CASE FailSearch(c)
    BY <2>11 DEF FailSearch, Fails, Copied, Staged
  <2>12. QED
    BY <1>3, <2>1, <2>2, <2>3, <2>4, <2>5, <2>6, <2>7, <2>8, <2>9, <2>10, <2>11 DEF Search
<1>4. CASE Restart
  BY <1>4 DEF Restart
<1>5. CASE Delete
  BY <1>5 DEF Delete
<1>6. CASE UNCHANGED vars
  BY <1>6 DEF vars
<1>7. QED
  BY <1>1, <1>2, <1>3, <1>4, <1>5, <1>6 DEF Next

LEMMA BetterStep == TypeBasic /\ Owner /\ ReplacesNoChains /\ OnlyBetter /\ [Next]_vars => OnlyBetter'
<1> SUFFICES ASSUME TypeBasic, Owner, ReplacesNoChains, OnlyBetter, [Next]_vars PROVE OnlyBetter'
  OBVIOUS
<1> USE CallerAssumption DEF TypeBasic, Go, Leave, TakeLock, LetGo, Spawn, Proc, Background,
        Kind, Job, CallerPC, BuilderPC, BackgroundPC, files, memos, locks, counts, Owner, ReplacesNoChains, OnlyBetter, Sound
<1>1. ASSUME NEW p \in Proc, Materialize(p) PROVE OnlyBetter'
  <2>1. CASE Lease(p)
    BY <2>1 DEF Lease, Slots!Acquire, NeedsSlot
  <2>2. CASE Probe(p)
    BY <2>2 DEF Probe
  <2>3. CASE Publish(p)
    BY <2>3 DEF Publish, Copied, Staged
  <2>4. CASE FailBuild(p)
    BY <2>4 DEF FailBuild, Fails, Copied, Staged
  <2>5. CASE Mark(p)
    BY <2>5 DEF Mark
  <2>6. CASE SpawnUpgrade(p)
    BY <2>6 DEF SpawnUpgrade
  <2>7. CASE BuildNames(p)
    BY <2>7 DEF BuildNames
  <2>8. CASE Unmark(p)
    BY <2>8 DEF Unmark
  <2>9. CASE Finish(p)
    BY <2>9 DEF Finish
  <2>10. QED
    BY <1>1, <2>1, <2>2, <2>3, <2>4, <2>5, <2>6, <2>7, <2>8, <2>9 DEF Materialize
<1>2. ASSUME NEW b \in Background, Run(b) PROVE OnlyBetter'
  <2>1. CASE BeginFetch(b)
    BY <2>1 DEF BeginFetch
  <2>2. CASE BeginWork(b)
    BY <2>2 DEF BeginWork
  <2>3. CASE DiscardKey(b)
    BY <2>3 DEF DiscardKey
  <2>4. QED
    BY <1>2, <2>1, <2>2, <2>3 DEF Run
<1>3. ASSUME NEW c \in Caller, Call(c) \/ Search(c) PROVE OnlyBetter'
  <2>1. CASE Call(c)
    BY <2>1 DEF Call
  <2>2. CASE Enter(c)
    BY <2>2 DEF Enter, Slots!Acquire
  <2>3. CASE Look(c)
    BY <2>3 DEF Look
  <2>4. CASE BeginFirst(c)
    BY <2>4 DEF BeginFirst
  <2>5. CASE BeginCheck(c)
    BY <2>5 DEF BeginCheck
  <2>6. CASE CheckBbox(c)
    BY <2>6 DEF CheckBbox
  <2>7. CASE Resume(c)
    BY <2>7 DEF Resume
  <2>8. CASE FindNames(c)
    BY <2>8 DEF FindNames
  <2>9. CASE BeginNames(c)
    BY <2>9 DEF BeginNames
  <2>10. CASE Read(c)
    BY <2>10 DEF Read
  <2>11. CASE FailSearch(c)
    BY <2>11 DEF FailSearch, Fails, Copied, Staged
  <2>12. QED
    BY <1>3, <2>1, <2>2, <2>3, <2>4, <2>5, <2>6, <2>7, <2>8, <2>9, <2>10, <2>11 DEF Search
<1>4. CASE Restart
  BY <1>4 DEF Restart
<1>5. CASE Delete
  BY <1>5 DEF Delete
<1>6. CASE UNCHANGED vars
  BY <1>6 DEF vars
<1>7. QED
  BY <1>1, <1>2, <1>3, <1>4, <1>5, <1>6 DEF Next

LEMMA ForgottenStep == TypeBasic /\ Owner /\ OnlyBetter /\ NothingIsForgotten /\ [Next]_vars => NothingIsForgotten'
<1> SUFFICES ASSUME TypeBasic, Owner, OnlyBetter, NothingIsForgotten, [Next]_vars PROVE NothingIsForgotten'
  OBVIOUS
<1> USE CallerAssumption DEF TypeBasic, Go, Leave, TakeLock, LetGo, Spawn, Proc, Background,
        Kind, Job, CallerPC, BuilderPC, BackgroundPC, files, memos, locks, counts, Owner, OnlyBetter, Sound, NothingIsForgotten
<1>1. ASSUME NEW p \in Proc, Materialize(p) PROVE NothingIsForgotten'
  <2>1. CASE Lease(p)
    BY <2>1 DEF Lease, Slots!Acquire, NeedsSlot
  <2>2. CASE Probe(p)
    BY <2>2 DEF Probe
  <2>3. CASE Publish(p)
    BY <2>3 DEF Publish, Copied, Staged
  <2>4. CASE FailBuild(p)
    BY <2>4 DEF FailBuild, Fails, Copied, Staged
  <2>5. CASE Mark(p)
    BY <2>5 DEF Mark
  <2>6. CASE SpawnUpgrade(p)
    BY <2>6 DEF SpawnUpgrade
  <2>7. CASE BuildNames(p)
    BY <2>7 DEF BuildNames
  <2>8. CASE Unmark(p)
    BY <2>8 DEF Unmark
  <2>9. CASE Finish(p)
    BY <2>9 DEF Finish
  <2>10. QED
    BY <1>1, <2>1, <2>2, <2>3, <2>4, <2>5, <2>6, <2>7, <2>8, <2>9 DEF Materialize
<1>2. ASSUME NEW b \in Background, Run(b) PROVE NothingIsForgotten'
  <2>1. CASE BeginFetch(b)
    BY <2>1 DEF BeginFetch
  <2>2. CASE BeginWork(b)
    BY <2>2 DEF BeginWork
  <2>3. CASE DiscardKey(b)
    BY <2>3 DEF DiscardKey
  <2>4. QED
    BY <1>2, <2>1, <2>2, <2>3 DEF Run
<1>3. ASSUME NEW c \in Caller, Call(c) \/ Search(c) PROVE NothingIsForgotten'
  <2>1. CASE Call(c)
    BY <2>1 DEF Call
  <2>2. CASE Enter(c)
    BY <2>2 DEF Enter, Slots!Acquire
  <2>3. CASE Look(c)
    <3>1. CASE Spawn(c, "build", "reading")
      BY <2>3, <3>1 DEF Look
    <3>2. CASE started' = started /\ (Go(c, "wantFirst") \/ Go(c, "resuming") \/ Go(c, "wantCheck"))
      BY <2>3, <3>2 DEF Look
    <3>3. QED
      BY <2>3, <3>1, <3>2 DEF Look
  <2>4. CASE BeginFirst(c)
    BY <2>4 DEF BeginFirst
  <2>5. CASE BeginCheck(c)
    BY <2>5 DEF BeginCheck
  <2>6. CASE CheckBbox(c)
    BY <2>6 DEF CheckBbox
  <2>7. CASE Resume(c)
    <3>1. CASE sentinel
      <4>1. /\ started' = started \cup {"upgrade"} /\ UNCHANGED <<table, sentinel, deletes, misreads>>
            /\ \A b \in started : pc'[b] = pc[b]
        BY <2>7, <3>1 DEF Resume
      <4>2. "upgrade" \notin started => pc'["upgrade"] = "delayed"
        BY <2>7, <3>1 DEF Resume
      <4>3. QED
        BY <4>1, <4>2
    <3>2. CASE ~sentinel
      BY <2>7, <3>2 DEF Resume
    <3>3. QED
      BY <3>1, <3>2
  <2>8. CASE FindNames(c)
    BY <2>8 DEF FindNames
  <2>9. CASE BeginNames(c)
    BY <2>9 DEF BeginNames
  <2>10. CASE Read(c)
    BY <2>10 DEF Read
  <2>11. CASE FailSearch(c)
    BY <2>11 DEF FailSearch, Fails, Copied, Staged
  <2>12. QED
    BY <1>3, <2>1, <2>2, <2>3, <2>4, <2>5, <2>6, <2>7, <2>8, <2>9, <2>10, <2>11 DEF Search
<1>4. CASE Restart
  BY <1>4 DEF Restart
<1>5. CASE Delete
  BY <1>5 DEF Delete
<1>6. CASE UNCHANGED vars
  BY <1>6 DEF vars
<1>7. QED
  BY <1>1, <1>2, <1>3, <1>4, <1>5, <1>6 DEF Next

LEMMA FlagsStep == Flags /\ [Next]_vars => Flags'
<1> SUFFICES ASSUME Flags, [Next]_vars PROVE Flags'
  OBVIOUS
<1> USE DEF Flags, files, memos
<1>1. ASSUME NEW p \in Proc, Materialize(p) PROVE Flags'
  <2>1. CASE Lease(p) \/ Probe(p) \/ Publish(p) \/ FailBuild(p) \/ SpawnUpgrade(p) \/ Finish(p)
    BY <2>1 DEF Lease, Probe, Publish, FailBuild, SpawnUpgrade, Finish
  <2>2. CASE Mark(p) \/ BuildNames(p) \/ Unmark(p)
    BY <2>2 DEF Mark, BuildNames, Unmark
  <2>3. QED
    BY <1>1, <2>1, <2>2 DEF Materialize
<1>2. ASSUME NEW b \in Background, Run(b) PROVE Flags'
  BY <1>2 DEF Run, BeginFetch, BeginWork, DiscardKey
<1>3. ASSUME NEW c \in Caller, Call(c) \/ Search(c) PROVE Flags'
  <2>1. CASE Call(c) \/ Enter(c) \/ Look(c) \/ BeginFirst(c) \/ CheckBbox(c)
    BY <2>1 DEF Call, Enter, Look, BeginFirst, CheckBbox
  <2>2. CASE Resume(c) \/ FindNames(c) \/ Read(c) \/ FailSearch(c)
    BY <2>2 DEF Resume, FindNames, Read, FailSearch
  <2>3. CASE BeginCheck(c) \/ BeginNames(c)
    BY <2>3 DEF BeginCheck, BeginNames
  <2>4. QED
    BY <1>3, <2>1, <2>2, <2>3 DEF Search
<1>4. CASE Restart \/ Delete
  BY <1>4 DEF Restart, Delete
<1>5. CASE UNCHANGED vars
  BY <1>5 DEF vars
<1>6. QED
  BY <1>1, <1>2, <1>3, <1>4, <1>5 DEF Next

-----------------------------------------------------------------------------
(* The caps.                                                               *)

LEMMA ProcFinite == IsFiniteSet(Proc) /\ \A S \in SUBSET Proc : IsFiniteSet(S)
<1>1. IsFiniteSet(Background)
  <2>1. IsFiniteSet({}) /\ {} \cup {"build"} \cup {"upgrade"} = Background
    BY FS_EmptySet DEF Background
  <2>2. IsFiniteSet({} \cup {"build"})
    BY <2>1, FS_AddElement
  <2>3. QED
    BY <2>1, <2>2, FS_AddElement
<1>2. IsFiniteSet(Proc)
  BY <1>1, CapAssumption, FS_Union DEF Proc
<1>3. QED
  BY <1>2, FS_Subset

LEMMA FewerThan ==
    ASSUME NEW S \in SUBSET Proc, NEW T \in SUBSET S
    PROVE  Cardinality(T) <= Cardinality(S) /\ Cardinality(S) \in Nat /\ Cardinality(T) \in Nat
BY ProcFinite, FS_Subset, FS_CardinalityType

LEMMA OneMore ==
    ASSUME NEW S \in SUBSET Proc, NEW p \in Proc, NEW n \in Nat, Cardinality(S) < n
    PROVE  Cardinality(S \cup {p}) <= n
<1>1. IsFiniteSet(S)
  BY ProcFinite
<1>2. Cardinality(S) \in Nat
  BY <1>1, FS_CardinalityType
<1>3. p \notin S => Cardinality(S \cup {p}) = Cardinality(S) + 1
  BY <1>1, FS_AddElement
<1>4. p \in S => S \cup {p} = S
  OBVIOUS
<1>5. QED
  BY <1>2, <1>3, <1>4

\* Only Lease, Enter and BeginFetch add to a set that is bounded, each after
\* a look at its size.
LEMMA CapsStep == TypeBasic /\ WithinCaps /\ [Next]_vars => WithinCaps'
<1> SUFFICES ASSUME TypeBasic, WithinCaps, [Next]_vars PROVE WithinCaps'
  OBVIOUS
<1> USE DEF locks
<1>0. /\ fetching \subseteq Proc /\ holders \subseteq Proc /\ Background \subseteq Proc
      /\ Caller \subseteq Proc /\ Cap \in Nat /\ FetchCap \in Nat
  BY CapAssumption, FetchAssumption DEF TypeBasic, Proc
<1>1. ASSUME fetching' \subseteq fetching, holders' \subseteq holders PROVE WithinCaps'
  <2>1. Cardinality(fetching') <= Cardinality(fetching) /\ Cardinality(fetching) \in Nat /\ Cardinality(fetching') \in Nat
    BY <1>0, <1>1, FewerThan
  <2>2. Cardinality(holders') <= Cardinality(holders) /\ Cardinality(holders) \in Nat /\ Cardinality(holders') \in Nat
    BY <1>0, <1>1, FewerThan
  <2>3. QED
    BY <1>0, <2>1, <2>2 DEF WithinCaps
<1>2. ASSUME NEW p \in Proc, Slots!Acquire(p), UNCHANGED fetching PROVE WithinCaps'
  <2>1. Slots!Cardinality(holders) = Cardinality(holders)
    BY Zenon DEF Slots!Cardinality, Cardinality
  <2>2. QED
    BY <1>0, <1>2, <2>1, OneMore DEF WithinCaps, Slots!Acquire
<1>3. ASSUME NEW b \in Background, BeginFetch(b) PROVE WithinCaps'
  BY <1>0, <1>3, OneMore DEF WithinCaps, BeginFetch
<1>4. ASSUME NEW p \in Proc, Materialize(p) PROVE WithinCaps'
  <2>1. CASE Lease(p)
    BY <1>2, <2>1 DEF Lease
  <2>2. CASE Probe(p) \/ FailBuild(p) \/ Finish(p)
    BY <1>1, <2>2 DEF Probe, FailBuild, Fails, Finish, LetGo, Leave
  <2>3. CASE Publish(p) \/ Mark(p) \/ SpawnUpgrade(p) \/ BuildNames(p) \/ Unmark(p)
    BY <1>1, <2>3 DEF Publish, Mark, SpawnUpgrade, BuildNames, Unmark
  <2>4. QED
    BY <1>4, <2>1, <2>2, <2>3 DEF Materialize
<1>5. ASSUME NEW b \in Background, BeginWork(b) \/ DiscardKey(b) PROVE WithinCaps'
  BY <1>1, <1>5 DEF BeginWork, DiscardKey, Leave
<1>6. ASSUME NEW c \in Caller, Call(c) \/ Search(c) PROVE WithinCaps'
  <2>1. CASE Enter(c)
    BY <1>0, <1>2, <2>1 DEF Enter
  <2>2. CASE CheckBbox(c) \/ Read(c) \/ FailSearch(c)
    BY <1>1, <2>2 DEF CheckBbox, Read, FailSearch, Fails, LetGo, Leave
  <2>3. CASE Call(c) \/ Look(c) \/ BeginFirst(c) \/ BeginCheck(c)
    BY <1>1, <2>3 DEF Call, Look, BeginFirst, BeginCheck, TakeLock
  <2>4. CASE Resume(c) \/ FindNames(c) \/ BeginNames(c)
    BY <1>1, <2>4 DEF Resume, FindNames, BeginNames, TakeLock
  <2>5. QED
    BY <1>6, <2>1, <2>2, <2>3, <2>4 DEF Search
<1>7. CASE Restart \/ Delete
  BY <1>1, <1>7 DEF Restart, Delete
<1>8. CASE UNCHANGED vars
  BY <1>1, <1>8 DEF vars
<1>9. QED
  BY <1>3, <1>4, <1>5, <1>6, <1>7, <1>8 DEF Next, Run

-----------------------------------------------------------------------------
\* The strengthening is an invariant.
THEOREM Inductive == Spec => []IInv
<1>1. IInv /\ [Next]_vars => IInv'
  BY TypeStep, OwnerStep, HeldStep, ReplacesStep, BetterStep, ForgottenStep DEF IInv
<1>2. QED
  BY InitInv, <1>1, PTL DEF Spec

\* Every variable keeps its type, and neither cap is ever exceeded.
THEOREM TypeCorrect == Spec => []TypeOK
<1>1. Init => Flags /\ WithinCaps
  <2> SUFFICES ASSUME Init PROVE Flags /\ WithinCaps
    OBVIOUS
  <2>1. Flags
    BY DEF Init, Flags
  <2>2. WithinCaps
    BY FS_EmptySet, CapAssumption, FetchAssumption DEF Init, WithinCaps
  <2>3. QED
    BY <2>1, <2>2
<1>2. IInv /\ Flags /\ WithinCaps => TypeOK
  BY DEF IInv, TypeBasic, Flags, WithinCaps, TypeOK
<1>3. IInv /\ Flags /\ WithinCaps /\ [Next]_vars => (Flags /\ WithinCaps)'
  BY FlagsStep, CapsStep DEF IInv
<1>4. QED
  BY <1>1, <1>2, <1>3, Inductive, PTL DEF Spec

\* Overlapping, failing and restarted builds never put a table without admin
\* chains where the full one was, unless that one could not be read.
THEOREM ChainsKept == Spec => ChainsStay
<1>1. IInv /\ [Next]_vars => [table = "full" /\ table' = "stage1" => misreads > 0]_vars
  <2> SUFFICES ASSUME IInv, Next, table = "full", table' = "stage1" PROVE misreads > 0
    BY DEF vars
  <2>1. ASSUME NEW p \in Proc, pc[p] = "copying", table' \in {table, Copied} PROVE misreads > 0
    <3>1. job # "upgrade"
      BY <2>1 DEF Copied, Staged
    <3>2. misreads # 0
      BY <2>1, <3>1 DEF IInv, ReplacesNoChains
    <3>3. QED
      BY <3>2 DEF IInv, TypeBasic
  <2>2. ASSUME NEW p \in Proc, Materialize(p) PROVE misreads > 0
    <3>1. CASE Publish(p)
      BY <2>1, <3>1 DEF Publish
    <3>2. CASE FailBuild(p)
      BY <2>1, <3>2 DEF FailBuild, Fails
    <3>3. CASE Lease(p) \/ Probe(p) \/ Mark(p) \/ SpawnUpgrade(p)
      BY <3>3 DEF Lease, Probe, Mark, SpawnUpgrade, files
    <3>4. CASE BuildNames(p) \/ Unmark(p) \/ Finish(p)
      BY <3>4 DEF BuildNames, Unmark, Finish, files
    <3>5. QED
      BY <2>2, <3>1, <3>2, <3>3, <3>4 DEF Materialize
  <2>3. ASSUME NEW c \in Caller, Call(c) \/ Search(c) PROVE misreads > 0
    <3>1. CASE FailSearch(c)
      BY <2>1, <3>1 DEF FailSearch, Fails, Proc
    <3>2. CASE Call(c) \/ Enter(c) \/ Look(c) \/ BeginFirst(c) \/ BeginCheck(c) \/ CheckBbox(c)
      BY <3>2 DEF Call, Enter, Look, BeginFirst, BeginCheck, CheckBbox, files
    <3>3. CASE Resume(c) \/ FindNames(c) \/ BeginNames(c) \/ Read(c)
      BY <3>3 DEF Resume, FindNames, BeginNames, Read, files
    <3>4. QED
      BY <2>3, <3>1, <3>2, <3>3 DEF Search
  <2>4. ASSUME NEW b \in Background, Run(b) PROVE misreads > 0
    BY <2>4 DEF Run, BeginFetch, BeginWork, DiscardKey, files
  <2>5. CASE Restart \/ Delete
    BY <2>5 DEF Restart, Delete, files
  <2>6. QED
    BY <2>2, <2>3, <2>4, <2>5 DEF Next
<1>2. QED
  BY <1>1, Inductive, PTL DEF Spec, ChainsStay

\* A build or an upgrade that is registered runs or has done its work.
THEOREM Remembered == Spec => []NothingIsForgotten
<1>1. IInv => NothingIsForgotten
  BY DEF IInv
<1>2. QED
  BY <1>1, Inductive, PTL

\* With one slot more than isolated searches, the thread inside the build lock
\* never waits for a slot that only waiters for the lock could give back.
THEOREM LockIsSafe == Cardinality(Isolated) < Cap => (Spec => []HolderIsNotStarved)
<1> SUFFICES ASSUME Cardinality(Isolated) < Cap PROVE Spec => []HolderIsNotStarved
  OBVIOUS
<1>1. IInv => HolderIsNotStarved
  <2> SUFFICES ASSUME IInv, ~(Cardinality(holders) < Cap) PROVE \E t \in holders : pc[t] \notin WantsLock
    BY DEF HolderIsNotStarved
  <2>1. holders \in SUBSET Proc /\ Isolated \in SUBSET Proc /\ Cap \in Nat
    BY CallerAssumption, CapAssumption DEF IInv, TypeBasic, Proc
  <2>2. ~(holders \subseteq Isolated)
    <3>1. Cardinality(Isolated) \in Nat /\ Cardinality(holders) \in Nat
      BY <2>1, FewerThan
    <3>2. holders \in SUBSET Isolated => Cardinality(holders) <= Cardinality(Isolated)
      BY <2>1, FewerThan
    <3>3. QED
      BY <2>1, <3>1, <3>2
  <2>3. PICK t \in holders : t \notin Isolated
    BY <2>2
  <2>4. QED
    BY <2>3 DEF IInv, HeldForARead, WantsLock
<1>2. QED
  BY <1>1, Inductive, PTL
=============================================================================
