----------------------------- MODULE ToolProofs -----------------------------
(***************************************************************************)
(* Proofs about what the agent's tools keep from one call to the next: the *)
(* file cache (for any number of files, readers and writers), the memory   *)
(* (for any keys, values, sessions, tool calls, seeds and restarts) and    *)
(* the browser (for any sessions, calls, allocators and tabs).  The three  *)
(* modules share no state and no name.                                     *)
(***************************************************************************)
EXTENDS FileCache, Memory, Browser, FiniteSetTheorems, TLAPS

-----------------------------------------------------------------------------
(* FileCache.  A stale entry can always be told from its modification      *)
(* time.  The invariant follows a version on its way into the cache: at    *)
(* every stop of a load or a refresh, the time that was read first is not  *)
(* newer than the data that was read after it, which is not newer than the *)
(* file.                                                                   *)
Versions == 0 .. MaxVersion + 1

\* The part of the types the argument needs.
Types ==
  /\ disk \in [Paths -> [ver : 1 .. MaxVersion + 1, here : BOOLEAN, big : BOOLEAN]]
  /\ entries \in [Paths -> [data : Versions, modTime : Versions]]
  /\ rpc \in [Readers -> {"idle", "stat", "read", "insert", "length", "copy"}]
  /\ rpath \in [Readers -> Paths]
  /\ rinfo \in [Readers -> Versions] /\ rdata \in [Readers -> Versions]
  /\ wpath \in [Writers -> Paths]
  /\ todo \subseteq Paths \X Versions
  /\ at \in Paths \X Versions
  /\ fdata \in Versions

EntriesOrdered ==
  \A p \in Paths : entries[p].modTime <= entries[p].data /\ entries[p].data <= disk[p].ver
LoadsOrdered ==
  \A r \in Readers :
    /\ rpc[r] = "read" => rinfo[r] <= disk[rpath[r]].ver
    /\ rpc[r] = "insert" => rinfo[r] <= rdata[r] /\ rdata[r] <= disk[rpath[r]].ver
RefreshOrdered ==
  /\ fpc = "read" => at[2] <= disk[at[1]].ver
  /\ fpc = "update" => at[2] <= fdata /\ fdata <= disk[at[1]].ver

StampInv == Types /\ EntriesOrdered /\ LoadsOrdered /\ RefreshOrdered

\* A change of a file only makes its version larger.
LEMMA ChangeGrows ==
  ASSUME Types, NEW p \in Paths, NEW e \in BOOLEAN, NEW l \in BOOLEAN, Change(p, e, l)
  PROVE  /\ disk' \in [Paths -> [ver : 1 .. MaxVersion + 1, here : BOOLEAN, big : BOOLEAN]]
         /\ \A q \in Paths : disk[q].ver <= disk'[q].ver
BY CacheAssumption DEF CacheAssumption, Types, Change

\* Files grow older while everything else stands still.
LEMMA GrowStep ==
  ASSUME StampInv,
         disk' \in [Paths -> [ver : 1 .. MaxVersion + 1, here : BOOLEAN, big : BOOLEAN]],
         \A q \in Paths : disk[q].ver <= disk'[q].ver,
         wpath' \in [Writers -> Paths], UNCHANGED <<entries, reader, refresher>>
  PROVE  StampInv'
<1> USE CacheAssumption DEF CacheAssumption, StampInv, reader, refresher, Versions
<1>1. Types' BY DEF Types
<1>2. EntriesOrdered' BY DEF Types, EntriesOrdered
<1>3. LoadsOrdered' BY DEF Types, LoadsOrdered
<1>4. RefreshOrdered' BY DEF Types, RefreshOrdered
<1> QED BY <1>1, <1>2, <1>3, <1>4

\* Entries leave the cache.
LEMMA RemoveStep ==
  ASSUME StampInv, NEW gone, Remove(gone)
  PROVE  /\ entries' \in [Paths -> [data : Versions, modTime : Versions]]
         /\ \A p \in Paths : entries'[p].modTime <= entries'[p].data
                             /\ entries'[p].data <= disk[p].ver
BY CacheAssumption DEF CacheAssumption, StampInv, Types, EntriesOrdered, Remove, NotCached, Versions

\* A Get returns: the reader is idle and has nothing in its hands.
LEMMA ReturnStep ==
  ASSUME StampInv, NEW r \in Readers, NEW v, Return(r, v), UNCHANGED rpath
  PROVE  /\ rpc' \in [Readers -> {"idle", "stat", "read", "insert", "length", "copy"}]
         /\ rinfo' \in [Readers -> Versions] /\ rdata' \in [Readers -> Versions]
         /\ \A x \in Readers : rpc'[x] = "idle" \/ UNCHANGED <<rpc[x], rinfo[x], rdata[x], rpath[x]>>
BY CacheAssumption DEF CacheAssumption, StampInv, Types, Return, Versions

LEMMA StampStep == StampInv /\ [CacheNext]_cacheVars => StampInv'
<1> SUFFICES ASSUME StampInv, [CacheNext]_cacheVars PROVE StampInv'
  OBVIOUS
<1> USE CacheAssumption DEF CacheAssumption, StampInv
<1>1. ASSUME NEW p \in Paths, ExternalChange(p) PROVE StampInv'
  BY <1>1, ChangeGrows, GrowStep DEF ExternalChange, Types, cache, writer
<1>2. ASSUME NEW r \in Readers, NEW p \in Paths, Lookup(r, p) PROVE StampInv'
  <2> USE DEF Lookup, writer, refresher
  <2>1. Types' BY <1>2 DEF Types
  <2>2. EntriesOrdered' BY <1>2 DEF EntriesOrdered
  <2>3. LoadsOrdered' BY <1>2 DEF Types, LoadsOrdered
  <2>4. RefreshOrdered' BY <1>2 DEF RefreshOrdered
  <2> QED BY <2>1, <2>2, <2>3, <2>4
<1>3. ASSUME NEW r \in Readers, TakeLength(r) PROVE StampInv'
  <2> USE DEF TakeLength, cache, writer, refresher
  <2>1. Types' BY <1>3 DEF Types
  <2>2. EntriesOrdered' BY <1>3 DEF EntriesOrdered
  <2>3. LoadsOrdered' BY <1>3 DEF Types, LoadsOrdered
  <2>4. RefreshOrdered' BY <1>3 DEF RefreshOrdered
  <2> QED BY <2>1, <2>2, <2>3, <2>4
<1>4. ASSUME NEW r \in Readers, NEW v, Return(r, v),
             UNCHANGED <<disk, entries, rpath, writer, refresher>>
      PROVE StampInv'
  <2> USE DEF writer, refresher
  <2>1. Types' BY <1>4, ReturnStep DEF Types
  <2>2. EntriesOrdered' BY <1>4 DEF EntriesOrdered
  <2>3. LoadsOrdered' BY <1>4, ReturnStep DEF LoadsOrdered
  <2>4. RefreshOrdered' BY <1>4 DEF RefreshOrdered
  <2> QED BY <2>1, <2>2, <2>3, <2>4
<1>5. ASSUME NEW r \in Readers, Copy(r) PROVE StampInv'
  BY <1>4, <1>5 DEF Copy, cache
<1>6. ASSUME NEW r \in Readers, Stat(r) PROVE StampInv'
  <2>1. CASE Return(r, Failed) BY <1>4, <1>6, <2>1 DEF Stat, cache
  <2>2. CASE rpc' = [rpc EXCEPT ![r] = "read"] /\ ~Return(r, Failed)
    <3> USE DEF Stat, cache, writer, refresher, Versions
    <3>1. rinfo'[r] \in Versions /\ rinfo'[r] <= disk[rpath[r]].ver
      BY <1>6, <2>2 DEF Types
    <3>a. rinfo' = [rinfo EXCEPT ![r] = rinfo'[r]]
      BY <1>6, <2>2 DEF Types
    <3>b. rinfo' \in [Readers -> Versions]
      BY <3>1, <3>a DEF Types
    <3>2. Types' BY <1>6, <2>2, <3>b DEF Types
    <3>3. EntriesOrdered' BY <1>6 DEF EntriesOrdered
    <3>4. LoadsOrdered' BY <1>6, <2>2, <3>1 DEF Types, LoadsOrdered
    <3>5. RefreshOrdered' BY <1>6 DEF RefreshOrdered
    <3> QED BY <3>2, <3>3, <3>4, <3>5
  <2> QED BY <1>6, <2>1, <2>2 DEF Stat
<1>7. ASSUME NEW r \in Readers, Read(r) PROVE StampInv'
  <2>1. CASE \E v : Return(r, v) BY <1>4, <1>7, <2>1 DEF Read, cache
  <2>2. CASE rpc' = [rpc EXCEPT ![r] = "insert"] /\ rpc[r] = "read"
             /\ rdata' = [rdata EXCEPT ![r] = disk[rpath[r]].ver] /\ UNCHANGED rinfo
    <3> USE DEF Read, cache, writer, refresher, Versions
    <3>2. Types' BY <1>7, <2>2 DEF Types
    <3>3. EntriesOrdered' BY <1>7 DEF EntriesOrdered
    <3>4. LoadsOrdered' BY <1>7, <2>2 DEF Types, LoadsOrdered
    <3>5. RefreshOrdered' BY <1>7 DEF RefreshOrdered
    <3> QED BY <3>2, <3>3, <3>4, <3>5
  <2> QED BY <1>7, <2>1, <2>2 DEF Read
<1>8. ASSUME NEW r \in Readers, Insert(r) PROVE StampInv'
  <2> DEFINE p == rpath[r]
  <2> USE DEF writer, refresher
  <2>0. /\ rpc[r] = "insert" /\ Return(r, rdata[r])
        /\ UNCHANGED <<disk, rpath, writer, refresher>>
    BY <1>8 DEF Insert, InsertInto
  <2>1. \A q \in Paths : entries'[q] \in {[data |-> rdata[r], modTime |-> rinfo[r]], NotCached, entries[q]}
                         /\ (q # p => entries'[q] \in {NotCached, entries[q]})
    BY <1>8 DEF Insert, InsertInto
  <2>2. rinfo[r] <= rdata[r] /\ rdata[r] <= disk[p].ver /\ p \in Paths
    BY <2>0 DEF LoadsOrdered, Types
  <2>3. entries' \in [Paths -> [data : Versions, modTime : Versions]]
    <3>1. [data |-> rdata[r], modTime |-> rinfo[r]] \in [data : Versions, modTime : Versions]
      BY DEF Types
    <3>2. NotCached \in [data : Versions, modTime : Versions]
      BY DEF NotCached, Versions
    <3>3. entries' = [q \in Paths |-> entries'[q]]
      BY <1>8 DEF Insert, InsertInto
    <3> QED BY <2>1, <3>1, <3>2, <3>3 DEF Types
  <2>4. Types' BY <2>0, <2>3, ReturnStep DEF Types
  <2>5. EntriesOrdered'
    <3> SUFFICES ASSUME NEW q \in Paths
                 PROVE entries'[q].modTime <= entries'[q].data /\ entries'[q].data <= disk[q].ver
      BY <2>0 DEF EntriesOrdered
    <3>1. CASE entries'[q] = entries[q] BY <3>1 DEF EntriesOrdered
    <3>2. CASE entries'[q] = NotCached BY <3>2 DEF NotCached, Types
    <3>3. CASE q = p /\ entries'[q] = [data |-> rdata[r], modTime |-> rinfo[r]]
      BY <2>2, <3>3
    <3> QED BY <2>1, <3>1, <3>2, <3>3
  <2>6. LoadsOrdered' BY <2>0, ReturnStep DEF LoadsOrdered
  <2>7. RefreshOrdered' BY <2>0 DEF RefreshOrdered
  <2> QED BY <2>4, <2>5, <2>6, <2>7
<1>9. ASSUME NEW w \in Writers, NEW p \in Paths, Open(w, p) PROVE StampInv'
  <2>1. /\ wpath' \in [Writers -> Paths] /\ UNCHANGED <<entries, reader, refresher>>
        /\ Change(p, TRUE, FALSE) \/ UNCHANGED disk
    BY <1>9 DEF Open, cache, Types
  <2>2. CASE Change(p, TRUE, FALSE) BY <2>1, <2>2, ChangeGrows, GrowStep
  <2>3. CASE UNCHANGED disk BY <2>1, <2>3, GrowStep DEF Types
  <2> QED BY <2>1, <2>2, <2>3
<1>10. ASSUME NEW w \in Writers, WriteString(w) PROVE StampInv'
  <2>1. /\ wpath' \in [Writers -> Paths] /\ UNCHANGED <<entries, reader, refresher>>
        /\ wpath[w] \in Paths
        /\ (\E l \in BOOLEAN : Change(wpath[w], TRUE, l)) \/ UNCHANGED disk
    BY <1>10 DEF WriteString, cache, Types
  <2>2. CASE \E l \in BOOLEAN : Change(wpath[w], TRUE, l)
    BY <2>1, <2>2, ChangeGrows, GrowStep
  <2>3. CASE UNCHANGED disk BY <2>1, <2>3, GrowStep DEF Types
  <2> QED BY <2>1, <2>2, <2>3
<1>11. ASSUME NEW gone, Remove(gone), UNCHANGED <<disk, reader, wpath, todo, at, fdata>>,
              fpc' \notin {"read", "update"} \/ fpc' = fpc
       PROVE StampInv'
  <2> USE DEF reader
  <2>1. Types' BY <1>11, RemoveStep DEF Types
  <2>2. EntriesOrdered' BY <1>11, RemoveStep DEF EntriesOrdered
  <2>3. LoadsOrdered' BY <1>11 DEF LoadsOrdered
  <2>4. RefreshOrdered' BY <1>11 DEF RefreshOrdered
  <2> QED BY <2>1, <2>2, <2>3, <2>4
<1>12. ASSUME NEW w \in Writers, Invalidate(w) PROVE StampInv'
  BY <1>11, <1>12 DEF Invalidate, refresher
<1>13. ASSUME Expire \/ Drop PROVE StampInv'
  BY <1>11, <1>13 DEF Expire, Drop, writer
<1>14. ASSUME Snapshot PROVE StampInv'
  <2> USE DEF Snapshot, cache, reader, writer
  <2>1. todo' \subseteq Paths \X Versions
    BY <1>14 DEF Types, Cached
  <2>2. Types' BY <1>14, <2>1 DEF Types
  <2>3. EntriesOrdered' BY <1>14 DEF EntriesOrdered
  <2>4. LoadsOrdered' BY <1>14 DEF LoadsOrdered
  <2>5. RefreshOrdered' BY <1>14 DEF RefreshOrdered
  <2> QED BY <2>2, <2>3, <2>4, <2>5
<1>15. ASSUME NEW s \in todo, Check(s) PROVE StampInv'
  <2> USE DEF Check, cache, reader, writer
  <2>1. s[1] \in Paths BY DEF Types
  <2>2. /\ at' \in Paths \X Versions /\ at'[1] = s[1] /\ at'[2] <= disk[s[1]].ver
        /\ fpc' # "update" /\ todo' \subseteq todo
    BY <1>15, <2>1 DEF Types, Versions
  <2>3. Types' BY <1>15, <2>2 DEF Types
  <2>4. EntriesOrdered' BY <1>15 DEF EntriesOrdered
  <2>5. LoadsOrdered' BY <1>15 DEF LoadsOrdered
  <2>6. RefreshOrdered' BY <1>15, <2>2 DEF RefreshOrdered
  <2> QED BY <2>3, <2>4, <2>5, <2>6
<1>16. ASSUME ReadAgain PROVE StampInv'
  <2> USE DEF ReadAgain, cache, reader, writer
  <2>1. at[1] \in Paths BY DEF Types
  <2>2. fdata' \in Versions /\ (fpc' = "update" => fdata' = disk[at[1]].ver)
    BY <1>16, <2>1 DEF Types, Versions
  <2>3. Types' BY <1>16, <2>2 DEF Types
  <2>4. EntriesOrdered' BY <1>16 DEF EntriesOrdered
  <2>5. LoadsOrdered' BY <1>16 DEF LoadsOrdered
  <2>6. RefreshOrdered'
    <3>1. fpc = "read" /\ fpc' # "read" /\ UNCHANGED <<disk, at>> /\ disk[at[1]].ver \in Int
      BY <1>16, <2>1 DEF Types
    <3> QED BY <2>2, <3>1 DEF RefreshOrdered
  <2> QED BY <2>3, <2>4, <2>5, <2>6
<1>17. ASSUME Update PROVE StampInv'
  <2> USE DEF Update, Put, reader, writer
  <2>1. at[1] \in Paths /\ at[2] \in Versions BY DEF Types
  <2>2. at[2] <= fdata /\ fdata <= disk[at[1]].ver BY <1>17 DEF RefreshOrdered
  <2>3. fdata' \in Versions BY <1>17 DEF Versions
  <2> DEFINE new == [data |-> fdata, modTime |-> at[2]]
  <2>a. new \in [data : Versions, modTime : Versions]
    BY <2>1 DEF Types
  <2>b. entries' = entries \/ entries' = [entries EXCEPT ![at[1]] = new]
    BY <1>17
  <2>c. entries' \in [Paths -> [data : Versions, modTime : Versions]]
    BY <2>a, <2>b DEF Types
  <2>4. Types' BY <1>17, <2>3, <2>c DEF Types
  <2>d. \A q \in Paths : entries'[q] = entries[q] \/ (q = at[1] /\ entries'[q] = new)
    BY <2>1, <2>b DEF Types
  <2>e. UNCHANGED disk /\ new.modTime <= new.data /\ new.data <= disk[at[1]].ver
    BY <1>17, <2>2
  <2>5. EntriesOrdered' BY <2>d, <2>e DEF EntriesOrdered
  <2>6. LoadsOrdered' BY <1>17 DEF LoadsOrdered
  <2>7. RefreshOrdered' BY <1>17 DEF RefreshOrdered
  <2> QED BY <2>4, <2>5, <2>6, <2>7
<1>18. ASSUME Stop \/ Done \/ UNCHANGED cacheVars PROVE StampInv'
  <2> USE DEF Stop, Done, cacheVars, cache, reader, writer, refresher
  <2>1. Types' BY <1>18 DEF Types
  <2>2. EntriesOrdered' BY <1>18 DEF EntriesOrdered
  <2>3. LoadsOrdered' BY <1>18 DEF LoadsOrdered
  <2>4. RefreshOrdered' BY <1>18 DEF RefreshOrdered
  <2> QED BY <2>1, <2>2, <2>3, <2>4
<1> QED
  BY <1>1, <1>2, <1>3, <1>5, <1>6, <1>7, <1>8, <1>9, <1>10, <1>12, <1>13, <1>14, <1>15,
     <1>16, <1>17, <1>18 DEF CacheNext, GetStep, WriteStep, RefreshStep

\* The order of the versions holds throughout.
LEMMA Stamps == CacheSpec => []StampInv
<1>1. CacheInit => StampInv
  <2> USE CacheAssumption DEF CacheAssumption, CacheInit, Versions
  <2>1. ASSUME CacheInit PROVE Types
    <3>1. (CHOOSE p \in Paths : TRUE) \in Paths OBVIOUS
    <3> QED BY <2>1, <3>1 DEF Types, NotCached
  <2>2. CacheInit => EntriesOrdered /\ LoadsOrdered /\ RefreshOrdered
    BY DEF EntriesOrdered, LoadsOrdered, RefreshOrdered, NotCached
  <2> QED BY <2>1, <2>2 DEF StampInv
<1> QED BY <1>1, StampStep, PTL DEF CacheSpec

\* No stale entry of the file cache is taken for current by the next refresh
\* (load and refreshAll call os.Stat before os.ReadFile).
THEOREM StaleIsAlwaysDetectable == CacheSpec => []StaleIsDetectable
<1>1. StampInv => StaleIsDetectable
  <2> SUFFICES ASSUME StampInv, NEW p \in Cached, entries[p].data # disk[p].ver
               PROVE entries[p].modTime # disk[p].ver
    BY DEF StaleIsDetectable
  <2>1. /\ p \in Paths /\ entries[p].modTime <= entries[p].data /\ entries[p].data <= disk[p].ver
        /\ entries[p].modTime \in Int /\ entries[p].data \in Int /\ disk[p].ver \in Int
    BY CacheAssumption DEF CacheAssumption, StampInv, EntriesOrdered, Types, Cached, Versions
  <2> QED BY <2>1
<1> QED BY <1>1, Stamps, PTL

-----------------------------------------------------------------------------
(* What enters the cache. *)

\* A step lets paths leave the cache, or is the end of a load, which adds its path
\* and, in a full cache, takes another one away first.
LEMMA CacheStep ==
  ASSUME Types, [CacheNext]_cacheVars
  PROVE  \/ Cached' \subseteq Cached
         \/ \E r \in Readers :
              /\ rpc[r] = "insert" /\ rpc'[r] = "idle"
              /\ \E gone \in IF Cardinality(Cached) >= MaxEntries THEN {{q} : q \in Oldest} ELSE {{}} :
                   Cached' \subseteq (Cached \ gone) \cup {rpath[r]}
<1> USE DEF Cached, Types
<1>1. entries' = entries => Cached' \subseteq Cached
  OBVIOUS
<1>2. ASSUME NEW gone, Remove(gone) PROVE Cached' \subseteq Cached
  BY <1>2 DEF Remove
<1>3. ASSUME NEW r \in Readers, Insert(r)
      PROVE  /\ rpc[r] = "insert" /\ rpc'[r] = "idle"
             /\ \E gone \in IF Cardinality(Cached) >= MaxEntries THEN {{q} : q \in Oldest} ELSE {{}} :
                  Cached' \subseteq (Cached \ gone) \cup {rpath[r]}
  <2>1. rpc[r] = "insert" /\ rpc'[r] = "idle"
    BY <1>3 DEF Insert, InsertInto, Return
  <2>2. PICK gone \in IF Cardinality(Cached) >= MaxEntries THEN {{q} : q \in Oldest} ELSE {{}} :
          entries' = [q \in Paths |-> IF q = rpath[r] THEN [data |-> rdata[r], modTime |-> rinfo[r]]
                                      ELSE IF q \in gone THEN NotCached ELSE entries[q]]
    BY <1>3 DEF Insert, InsertInto
  <2>3. Cached' \subseteq (Cached \ gone) \cup {rpath[r]}
    BY <2>2
  <2> QED BY <2>1, <2>3
<1>4. CASE \E p \in Paths : ExternalChange(p)
  BY <1>1, <1>4 DEF ExternalChange, cache
<1>5. ASSUME NEW r \in Readers, NEW p \in Paths, Lookup(r, p) PROVE entries' = entries
  BY <1>5 DEF Lookup
<1>6. ASSUME NEW r \in Readers, TakeLength(r) \/ Copy(r) \/ Stat(r) \/ Read(r) PROVE entries' = entries
  BY <1>6 DEF TakeLength, Copy, Stat, Read, cache
<1>7. ASSUME NEW w \in Writers, WriteStep(w) \/ \E p \in Paths : Open(w, p)
      PROVE  Cached' \subseteq Cached
  BY <1>1, <1>2, <1>7 DEF WriteStep, WriteString, Invalidate, Open, cache
<1>8. CASE Expire \/ Drop
  BY <1>2, <1>8 DEF Expire, Drop
<1>9. CASE Snapshot \/ (\E s \in todo : Check(s)) \/ Done \/ ReadAgain \/ Stop
  BY <1>1, <1>9 DEF Snapshot, Check, Done, ReadAgain, Stop, cache
<1>10. CASE Update
  <2>1. CASE at[1] \in Cached
    BY <1>10, <2>1 DEF Update, Put
  <2>2. CASE at[1] \notin Cached
    BY <1>1, <1>10, <2>2 DEF Update
  <2> QED BY <2>1, <2>2
<1>11. CASE UNCHANGED cacheVars
  BY <1>1, <1>11 DEF cacheVars, cache
<1> QED
  BY <1>1, <1>3, <1>4, <1>5, <1>6, <1>7, <1>8, <1>9, <1>10, <1>11 DEF CacheNext, GetStep, RefreshStep

\* A path enters the cache only at the end of a load of it: refreshAll brings
\* nothing back.
THEOREM OnlyLoadsInsert == CacheSpec => OnlyReadsInsert
<1>1. Types /\ [CacheNext]_cacheVars =>
        \A p \in Paths : p \notin Cached /\ p \in Cached' =>
          \E r \in Readers : rpc[r] = "insert" /\ rpath[r] = p /\ rpc'[r] = "idle"
  BY CacheStep
<1>2. StampInv => Types
  BY DEF StampInv
<1> QED BY <1>1, <1>2, Stamps, PTL DEF CacheSpec, OnlyReadsInsert

\* The cache never has more entries than it may, whatever loads, refreshes and
\* invalidations interleave: room is made in the critical section that fills it.
THEOREM CacheWithinLimit == CacheSpec => []WithinLimit
<1> USE CacheAssumption DEF CacheAssumption
<1>1. CacheInit => WithinLimit
  <2>1. CacheInit => Cached = {}
    BY DEF CacheInit, Cached
  <2> QED BY <2>1, FS_EmptySet DEF WithinLimit
<1>2. ASSUME Types, WithinLimit, [CacheNext]_cacheVars PROVE WithinLimit'
  <2>1. IsFiniteSet(Cached) /\ Cardinality(Cached) \in Nat
    BY FS_Subset, FS_CardinalityType DEF Cached
  <2>2. CASE Cached' \subseteq Cached
    BY <1>2, <2>1, <2>2, FS_Subset, FS_CardinalityType DEF WithinLimit
  <2>3. ASSUME NEW r \in Readers,
               NEW gone \in IF Cardinality(Cached) >= MaxEntries THEN {{q} : q \in Oldest} ELSE {{}},
               Cached' \subseteq (Cached \ gone) \cup {rpath[r]}
        PROVE  WithinLimit'
    <3> DEFINE rest == Cached \ gone
    <3>1. IsFiniteSet(rest) /\ Cardinality(rest) \in Nat /\ Cardinality(rest) + 1 <= MaxEntries
      <4>1. CASE Cardinality(Cached) >= MaxEntries
        <5>1. PICK q \in Cached : gone = {q}
          BY <2>3, <4>1 DEF Oldest
        <5>2. Cardinality(rest) = Cardinality(Cached) - 1 /\ IsFiniteSet(rest)
          BY <2>1, <5>1, FS_RemoveElement
        <5> QED BY <1>2, <2>1, <5>2, FS_CardinalityType DEF WithinLimit
      <4>2. CASE Cardinality(Cached) < MaxEntries
        <5>1. rest = Cached
          BY <2>1, <2>3, <4>2
        <5> QED BY <2>1, <4>2, <5>1
      <4> QED BY <2>1, <4>1, <4>2
    <3> HIDE DEF rest
    <3>2. /\ IsFiniteSet(rest \cup {rpath[r]})
          /\ Cardinality(rest \cup {rpath[r]}) <= Cardinality(rest) + 1
          /\ Cardinality(rest \cup {rpath[r]}) \in Nat
      <4>1. /\ IsFiniteSet(rest \cup {rpath[r]})
            /\ \/ Cardinality(rest \cup {rpath[r]}) = Cardinality(rest)
               \/ Cardinality(rest \cup {rpath[r]}) = Cardinality(rest) + 1
        BY <3>1, FS_AddElement
      <4> QED BY <3>1, <4>1
    <3>3. Cached' \subseteq rest \cup {rpath[r]}
      BY <2>3 DEF rest
    <3>4. Cardinality(Cached') \in Nat /\ Cardinality(Cached') <= Cardinality(rest \cup {rpath[r]})
      BY <3>2, <3>3, FS_Subset, FS_CardinalityType
    <3> QED BY <3>1, <3>2, <3>4 DEF WithinLimit
  <2> QED BY <1>2, <2>2, <2>3, CacheStep
<1>3. StampInv => Types
  BY DEF StampInv
<1> QED BY <1>1, <1>2, <1>3, Stamps, PTL DEF CacheSpec

-----------------------------------------------------------------------------
(* Memory.                                                                 *)

\* No Set that found the row goes on to its upsert.
NoRefusedWriter == \A w \in Setters : ~setter[w].found

\* A prompt that waits for its first answer carries what the hashes say.
PromptIsHashed ==
  \A s \in Conversations, k \in Keys :
    s \in running /\ prompt[s][k] # NoValue => prompt[s][k] = hashes[s][k]

MemoryInv == MemoryTypeOK /\ NoRefusedWriter /\ PromptIsHashed /\ ChangesReachModel

-----------------------------------------------------------------------------
LEMMA EmptyIsTable == Empty \in Table
BY DEF Empty, Table

LEMMA MemoryInitInv == MemoryInit => MemoryInv
<1> SUFFICES ASSUME MemoryInit PROVE MemoryInv
  OBVIOUS
<1>1. MemoryTypeOK
  BY EmptyIsTable, MemoryAssumption DEF MemoryInit, MemoryTypeOK, Idle
<1>2. NoRefusedWriter
  BY DEF MemoryInit, NoRefusedWriter, Idle
<1>3. PromptIsHashed /\ ChangesReachModel
  BY DEF MemoryInit, PromptIsHashed, ChangesReachModel, Empty
<1> QED
  BY <1>1, <1>2, <1>3 DEF MemoryInv

\* The entries a prompt shows are entries of the table.
LEMMA ChangedType == ASSUME MemoryTypeOK, NEW s \in Conversations PROVE Changed(LastHashes(s)) \in Table
BY DEF MemoryTypeOK, Changed, LastHashes, Table

LEMMA LookForType ==
  ASSUME MemoryTypeOK, NoRefusedWriter, NEW w \in Setters, NEW k \in Keys, NEW v \in Values,
         LookFor(w, k, v)
  PROVE  /\ setter' \in [Setters -> [key : Keys \union {NoValue}, value : Values \union {NoValue},
                                     found : BOOLEAN]]
         /\ NoRefusedWriter'
<1> PICK look \in Looks(k) :
      /\ ~Refuses(look)
      /\ setter' = [setter EXCEPT ![w] = [key |-> k, value |-> v, found |-> look = "present"]]
  BY DEF LookFor
<1>1. (look = "present") = FALSE
  BY DEF Refuses
<1> QED
  BY <1>1 DEF MemoryTypeOK, NoRefusedWriter

LEMMA TypeStep == MemoryTypeOK /\ NoRefusedWriter /\ [MemoryNext]_memoryVars => MemoryTypeOK' /\ NoRefusedWriter'
<1> SUFFICES ASSUME MemoryTypeOK, NoRefusedWriter, [MemoryNext]_memoryVars PROVE MemoryTypeOK' /\ NoRefusedWriter'
  OBVIOUS
<1>1. ASSUME NEW k \in Keys, NEW v \in Values, Set(k, v) PROVE MemoryTypeOK' /\ NoRefusedWriter'
  BY <1>1 DEF Set, MemoryTypeOK, NoRefusedWriter, Table, context
<1>2. ASSUME NEW w \in Setters, NEW k \in Keys, NEW v \in Values, SetImmutable(w, k, v)
      PROVE  MemoryTypeOK' /\ NoRefusedWriter'
  BY <1>2, LookForType DEF SetImmutable, MemoryTypeOK, context
<1>3. ASSUME NEW w \in Setters, NEW k \in Keys, Seed(w, k) PROVE MemoryTypeOK' /\ NoRefusedWriter'
  <2>1. k \in DOMAIN Seeds /\ Seeds[k] \in Values
    BY <1>3, MemoryAssumption DEF Seed, MemoryTypeOK
  <2>2. CASE LookFor(w, k, Seeds[k]) /\ UNCHANGED <<table, seeding>>
    BY <1>3, <2>1, <2>2, LookForType DEF Seed, MemoryTypeOK, context
  <2>3. CASE /\ UNCHANGED setter /\ seeding' \subseteq seeding
             /\ table' = table \/ table' = [table EXCEPT ![k] = Seeds[k]]
    BY <1>3, <2>1, <2>3 DEF Seed, MemoryTypeOK, NoRefusedWriter, Table, context
  <2> QED
    BY <1>3, <2>2, <2>3 DEF Seed
<1>4. ASSUME NEW w \in Setters, Upsert(w) PROVE MemoryTypeOK' /\ NoRefusedWriter'
  <2>1. table' \in Table
    BY <1>4 DEF Upsert, MemoryTypeOK, Table
  <2>2. setter' = [setter EXCEPT ![w] = Idle] /\ seeding' \subseteq seeding
    BY <1>4 DEF Upsert
  <2> QED
    BY <1>4, <2>1, <2>2 DEF Upsert, MemoryTypeOK, NoRefusedWriter, Idle, context
<1>5. ASSUME NEW k \in Keys, Delete(k) PROVE MemoryTypeOK' /\ NoRefusedWriter'
  BY <1>5 DEF Delete, MemoryTypeOK, NoRefusedWriter, Table, context
<1>6. ASSUME NEW s \in Conversations, BuildContext(s) PROVE MemoryTypeOK' /\ NoRefusedWriter'
  <2>1. Changed(LastHashes(s)) \in Table
    BY ChangedType
  <2>2. /\ hashes' \in [Conversations -> Table] /\ prompt' \in [Conversations -> Table]
        /\ running' \subseteq Conversations /\ building' \subseteq running'
    BY <1>6, <2>1 DEF BuildContext, MemoryTypeOK
  <2>3. seen' \in [Conversations -> Table]
    BY <1>6 DEF BuildContext, MemoryTypeOK, Unchanged, Table
  <2>4. excused' \in [Conversations -> SUBSET Keys]
    BY <1>6 DEF BuildContext, MemoryTypeOK
  <2> QED
    BY <1>6, <2>2, <2>3, <2>4 DEF BuildContext, MemoryTypeOK, NoRefusedWriter
<1>12. ASSUME NEW s \in Conversations, Build(s) PROVE MemoryTypeOK' /\ NoRefusedWriter'
  <2>1. prompt' \in [Conversations -> Table] /\ static' \in Table
    BY <1>12, EmptyIsTable DEF Build, MemoryTypeOK
  <2>2. excused' \in [Conversations -> SUBSET Keys]
    BY <1>12 DEF Build, MemoryTypeOK, KeysOf
  <2> QED
    BY <1>12, <2>1, <2>2 DEF Build, MemoryTypeOK, NoRefusedWriter
<1>7. ASSUME NEW s \in Conversations, BuildContextFails(s) PROVE MemoryTypeOK' /\ NoRefusedWriter'
  BY <1>7, EmptyIsTable DEF BuildContextFails, MemoryTypeOK, NoRefusedWriter
<1>8. ASSUME NEW s \in Conversations, ModelSees(s) PROVE MemoryTypeOK' /\ NoRefusedWriter'
  <2>1. seen' \in [Conversations -> Table]
    BY <1>8 DEF ModelSees, MemoryTypeOK, Table
  <2> QED
    BY <1>8, <2>1, EmptyIsTable DEF ModelSees, MemoryTypeOK, NoRefusedWriter
<1>9. ASSUME NEW s \in Conversations, TurnFails(s) PROVE MemoryTypeOK' /\ NoRefusedWriter'
  BY <1>9, EmptyIsTable DEF TurnFails, MemoryTypeOK, NoRefusedWriter, KeysOf
<1>10. CASE Restart
  BY <1>10, EmptyIsTable, MemoryAssumption DEF Restart, MemoryTypeOK, NoRefusedWriter, Idle
<1>11. CASE UNCHANGED memoryVars
  BY <1>11 DEF memoryVars, MemoryTypeOK, NoRefusedWriter
<1> QED
  BY <1>1, <1>2, <1>3, <1>4, <1>5, <1>6, <1>7, <1>8, <1>9, <1>10, <1>11, <1>12 DEF MemoryNext

\* A step that leaves the prompts and the hashes alone keeps the rest.
LEMMA ContextKept ==
  ASSUME MemoryInv, UNCHANGED context PROVE PromptIsHashed' /\ ChangesReachModel'
BY DEF MemoryInv, context, PromptIsHashed, ChangesReachModel

LEMMA BuildContextStep ==
  ASSUME MemoryInv, NEW s \in Conversations, BuildContext(s)
  PROVE  PromptIsHashed' /\ ChangesReachModel'
<1> DEFINE text == Changed(LastHashes(s))
<1> USE DEF MemoryInv
<1>1. /\ hashes' = [hashes EXCEPT ![s] = table] /\ s \notin running
      /\ running' = running \union {s}
      /\ seen' = [seen EXCEPT ![s] = Unchanged(s, seen[s])]
      /\ prompt' = [prompt EXCEPT ![s] = text] /\ excused' = [excused EXCEPT ![s] = excused[s] \ Gone]
      /\ hashes \in [Conversations -> Table] /\ seen \in [Conversations -> Table]
      /\ prompt \in [Conversations -> Table] /\ excused \in [Conversations -> SUBSET Keys]
  BY DEF BuildContext, MemoryTypeOK
<1>2. \A k \in Keys : text[k] = IF table[k] = hashes[s][k] THEN NoValue ELSE table[k]
  BY DEF Changed, LastHashes
<1>3. /\ prompt'[s] = text
      /\ \A k \in Keys : k \in excused[s] /\ table[k] # NoValue => k \in excused'[s]
  BY <1>1 DEF Gone, KeysOf
<1>4. ASSUME NEW t \in Conversations, t # s
      PROVE  /\ hashes'[t] = hashes[t] /\ seen'[t] = seen[t] /\ prompt'[t] = prompt[t]
             /\ excused'[t] = excused[t] /\ (t \in running' <=> t \in running)
  BY <1>1, <1>4
<1>5. hashes'[s] = table /\ s \in running'
  BY <1>1
<1>6. ASSUME NEW k \in Keys
      PROVE  prompt'[s][k] # NoValue => prompt'[s][k] = hashes'[s][k]
  BY <1>2, <1>3, <1>5
<1>7. ASSUME NEW k \in Keys, hashes'[s][k] # NoValue
      PROVE  \/ seen'[s][k] = hashes'[s][k]
             \/ prompt'[s][k] = hashes'[s][k]
             \/ k \in excused'[s]
  <2>1. CASE table[k] = hashes[s][k]
    <3>1. seen'[s][k] = seen[s][k]
      BY <1>1, <2>1 DEF Unchanged
    <3>2. seen[s][k] = hashes[s][k] \/ k \in excused[s]
      BY <1>1, <1>5, <1>7, <2>1 DEF ChangesReachModel
    <3> QED
      BY <1>3, <1>5, <1>7, <2>1, <3>1, <3>2
  <2>2. CASE table[k] # hashes[s][k]
    BY <1>2, <1>3, <1>5, <1>7, <2>2
  <2> QED
    BY <2>1, <2>2
<1>8. PromptIsHashed'
  BY <1>4, <1>6 DEF PromptIsHashed
<1>9. ChangesReachModel'
  BY <1>4, <1>5, <1>7 DEF ChangesReachModel
<1> QED
  BY <1>8, <1>9

\* A text that is left out is excused.
LEMMA BuildStep ==
  ASSUME MemoryInv, NEW s \in Conversations, Build(s)
  PROVE  PromptIsHashed' /\ ChangesReachModel'
<1> USE DEF MemoryInv
<1>1. UNCHANGED <<hashes, running, seen>>
  BY DEF Build
<1>2. CASE UNCHANGED <<prompt, excused>>
  BY <1>1, <1>2 DEF PromptIsHashed, ChangesReachModel
<1>3. CASE prompt' = [prompt EXCEPT ![s] = Empty]
           /\ excused' = [excused EXCEPT ![s] = @ \union KeysOf(prompt[s])]
  <2>1. ASSUME NEW t \in Conversations, t # s
        PROVE  prompt'[t] = prompt[t] /\ excused'[t] = excused[t]
    BY <1>3, <2>1 DEF MemoryTypeOK
  <2>2. ASSUME NEW k \in Keys
        PROVE  /\ prompt'[s][k] = NoValue
               /\ k \in excused'[s] <=> k \in excused[s] \/ prompt[s][k] # NoValue
    BY <1>3 DEF MemoryTypeOK, Empty, KeysOf
  <2>3. PromptIsHashed'
    BY <1>1, <2>1, <2>2 DEF PromptIsHashed
  <2>4. ChangesReachModel'
    BY <1>1, <2>1, <2>2 DEF ChangesReachModel
  <2> QED
    BY <2>3, <2>4
<1> QED
  BY <1>2, <1>3 DEF Build

\* A turn that ends changes only its own session.
LEMMA EndStep ==
  ASSUME MemoryInv, NEW s \in Conversations, BuildContextFails(s) \/ ModelSees(s) \/ TurnFails(s)
  PROVE  PromptIsHashed' /\ ChangesReachModel'
<1> USE DEF MemoryInv
<1>1. CASE BuildContextFails(s)
  BY <1>1 DEF BuildContextFails, MemoryTypeOK, PromptIsHashed, ChangesReachModel, Empty
<1>2. CASE ModelSees(s)
  <2>1. ASSUME NEW k \in Keys
        PROVE  /\ seen'[s][k] = IF prompt[s][k] # NoValue THEN prompt[s][k] ELSE seen[s][k]
               /\ k \in excused[s] /\ prompt[s][k] = NoValue => k \in excused'[s]
    BY <1>2 DEF ModelSees, MemoryTypeOK, KeysOf
  <2>2. ASSUME NEW t \in Conversations, t # s
        PROVE  /\ seen'[t] = seen[t] /\ prompt'[t] = prompt[t] /\ excused'[t] = excused[t]
               /\ (t \in running' <=> t \in running)
    BY <1>2, <2>2 DEF ModelSees, MemoryTypeOK
  <2>3. s \in running /\ s \notin running' /\ UNCHANGED hashes
    BY <1>2 DEF ModelSees
  <2>4. PromptIsHashed'
    BY <2>2, <2>3 DEF PromptIsHashed
  <2>5. ChangesReachModel'
    BY <2>1, <2>2, <2>3 DEF ChangesReachModel, PromptIsHashed
  <2> QED
    BY <2>4, <2>5
<1>3. CASE TurnFails(s)
  <2>1. ASSUME NEW k \in Keys
        PROVE  k \in excused'[s] <=> k \in excused[s] \/ prompt[s][k] # NoValue
    BY <1>3 DEF TurnFails, MemoryTypeOK, KeysOf
  <2>2. ASSUME NEW t \in Conversations, t # s
        PROVE  /\ prompt'[t] = prompt[t] /\ excused'[t] = excused[t]
               /\ (t \in running' <=> t \in running)
    BY <1>3, <2>2 DEF TurnFails, MemoryTypeOK
  <2>3. s \notin running' /\ UNCHANGED <<hashes, seen>>
    BY <1>3 DEF TurnFails
  <2>4. PromptIsHashed'
    BY <2>2, <2>3 DEF PromptIsHashed
  <2>5. ChangesReachModel'
    BY <2>1, <2>2, <2>3 DEF ChangesReachModel
  <2> QED
    BY <2>4, <2>5
<1> QED
  BY <1>1, <1>2, <1>3

LEMMA MemoryInvStep == MemoryInv /\ [MemoryNext]_memoryVars => MemoryInv'
<1> SUFFICES ASSUME MemoryInv, [MemoryNext]_memoryVars PROVE MemoryInv'
  OBVIOUS
<1>1. MemoryTypeOK' /\ NoRefusedWriter'
  BY TypeStep DEF MemoryInv
<1>2. PromptIsHashed' /\ ChangesReachModel'
  <2>1. CASE \/ \E k \in Keys, v \in Values :
                  Set(k, v) \/ \E w \in Setters : SetImmutable(w, k, v)
             \/ \E w \in Setters, k \in Keys : Seed(w, k)
             \/ \E w \in Setters : Upsert(w)
             \/ \E k \in Keys : Delete(k)
             \/ UNCHANGED memoryVars
    <3>1. UNCHANGED context
      BY <2>1 DEF Set, SetImmutable, Seed, Upsert, Delete, memoryVars, context
    <3> QED
      BY <3>1, ContextKept
  <2>2. CASE \E s \in Conversations : BuildContext(s) \/ Build(s)
    BY <2>2, BuildContextStep, BuildStep
  <2>3. CASE \E s \in Conversations : BuildContextFails(s) \/ ModelSees(s) \/ TurnFails(s)
    BY <2>3, EndStep
  <2>4. CASE Restart
    BY <2>4 DEF Restart, PromptIsHashed, ChangesReachModel, Empty
  <2> QED
    BY <2>1, <2>2, <2>3, <2>4 DEF MemoryNext
<1> QED
  BY <1>1, <1>2 DEF MemoryInv

LEMMA SpecInv == MemorySpec => []MemoryInv
BY MemoryInitInv, MemoryInvStep, PTL DEF MemorySpec

\* The memory's state has its type in every behaviour.
THEOREM MemoryTypeCorrect == MemorySpec => []MemoryTypeOK
BY SpecInv, PTL DEF MemoryInv

\* Every change of memory that a session's hashes take for told was told to
\* the model in that session, or was left out for the budget, or went down
\* with a turn whose requests were not answered.
THEOREM ChangesAlwaysReachModel == MemorySpec => []ChangesReachModel
BY SpecInv, PTL DEF MemoryInv

\* An immutable key that is set is changed only by a Set that looked before
\* it was set, or whose look failed.
THEOREM ImmutableAlwaysSettles == MemorySpec => ImmutableSettles
<1>1. MemoryInv /\ [MemoryNext]_memoryVars => [BySetInFlight]_memoryVars
  <2> SUFFICES ASSUME MemoryInv, MemoryNext, NEW k \in Immutable, table[k] # NoValue,
                      table'[k] # table[k]
               PROVE  \E w \in Setters : /\ setter[w].key = k /\ ~setter[w].found
                                         /\ setter'[w] = Idle /\ table'[k] = setter[w].value
    BY DEF BySetInFlight
  <2>1. table \in [Keys -> Values \union {NoValue}] /\ k \in Keys
    BY MemoryAssumption DEF MemoryInv, MemoryTypeOK, Table
  <2>2. \E w \in Setters : Upsert(w)
    BY <2>1 DEF MemoryNext, Set, SetImmutable, Seed, Delete, BuildContext,
                BuildContextFails, Build, ModelSees, TurnFails, Restart
  <2>3. PICK w \in Setters : Upsert(w)
    BY <2>2
  <2>4. table' = [table EXCEPT ![setter[w].key] = setter[w].value]
    BY <2>3 DEF Upsert
  <2>5. setter[w].key = k /\ table'[k] = setter[w].value
    BY <2>1, <2>4
  <2>6. setter'[w] = Idle
    BY <2>3 DEF Upsert, MemoryInv, MemoryTypeOK
  <2> QED
    BY <2>5, <2>6 DEF MemoryInv, NoRefusedWriter
<1> QED
  BY <1>1, SpecInv, PTL DEF MemorySpec, ImmutableSettles

-----------------------------------------------------------------------------
(* Browser.                                                                *)

Entry == [alloc : 0..MaxBrowsers, ctx : Contexts \union {NoCtx}, idle : BOOLEAN]
CallState == [phase : Phases, session : Sessions \union {NoSession},
              ctx : Contexts \union {NoCtx}]

\* An allocator that is not cancelled is that of one entry, and every Chrome
\* that runs was started from such an allocator.
Owned ==
  /\ \A s \in Sessions : sessions[s].alloc \in 0..started
  /\ \A s, t \in Sessions : sessions[s].alloc # 0 /\ sessions[s].alloc = sessions[t].alloc => s = t
  /\ \A b \in allocs : b # 0 /\ \E s \in Sessions : sessions[s].alloc = b
  /\ \A c \in live : c[1] \in allocs

Captured == {"return", "ended", "panic"}

\* A screenshot comes from a call that is past its capture, and a result has
\* pictures only once its call is over.
Collected ==
  /\ \A s \in Sessions, i \in Calls : i \in pending[s] => call[i].phase \in Captured
  /\ \A c, i \in Calls : i \in attached[c] =>
       call[c].phase = "ended" /\ call[i].phase \in Captured

\* A call has a session from its first step on.
Begun == \A c \in Calls : call[c].phase # "none" => call[c].session \in Sessions

BrowserInv == TypeOK /\ Begun /\ Owned /\ Collected /\ ScreenshotsAccounted

-----------------------------------------------------------------------------
LEMMA NoEntryType == NoEntry \in Entry /\ NoEntry.alloc = 0
BY BrowserAssumption DEF NoEntry, Entry

LEMMA InitInv == Init => BrowserInv
<1> SUFFICES ASSUME Init PROVE BrowserInv
  OBVIOUS
<1>1. TypeOK
  BY BrowserAssumption, NoEntryType DEF Init, TypeOK, Entry, Phases
<1>2. Owned
  BY BrowserAssumption, NoEntryType DEF Init, Owned
<1>3. Begun /\ Collected /\ ScreenshotsAccounted
  BY DEF Init, Begun, Collected, ScreenshotsAccounted
<1> QED
  BY <1>1, <1>2, <1>3 DEF BrowserInv

-----------------------------------------------------------------------------
(* Allocators and processes.                                               *)

\* Cancelling the entries of ss, and forgetting them, keeps the rest owned.
LEMMA CancelOwned ==
  ASSUME TypeOK, Owned, NEW ss \in SUBSET Sessions, CancelAll(ss), started' = started
  PROVE  Owned' /\ sessions' \in [Sessions -> Entry]
         /\ allocs' \subseteq allocs /\ live' \subseteq live
<1> DEFINE es == {sessions[s] : s \in ss}
<1>1. /\ allocs' = allocs \ {e.alloc : e \in es}
      /\ live' = {c \in live : \A e \in es : c # e.ctx /\ c[1] # e.alloc}
      /\ sessions' = [s \in Sessions |-> IF s \in ss THEN NoEntry ELSE sessions[s]]
  BY DEF CancelAll, Cancel, AllocsWithout, LiveWithout
<1>2. sessions \in [Sessions -> Entry] /\ started \in Nat
  BY BrowserAssumption DEF TypeOK, Entry
<1>3. sessions' \in [Sessions -> Entry]
  BY <1>1, <1>2, NoEntryType
<1>4. \A s \in Sessions : sessions'[s].alloc \in 0..started'
  BY <1>1, <1>2, NoEntryType DEF Owned
<1>5. \A s, t \in Sessions :
        sessions'[s].alloc # 0 /\ sessions'[s].alloc = sessions'[t].alloc => s = t
  BY <1>1, NoEntryType DEF Owned
<1>6. ASSUME NEW b \in allocs' PROVE b # 0 /\ \E s \in Sessions : sessions'[s].alloc = b
  <2>1. PICK s \in Sessions : sessions[s].alloc = b
    BY <1>1 DEF Owned
  <2>2. s \notin ss
    BY <1>1, <2>1
  <2> QED
    BY <1>1, <2>1, <2>2 DEF Owned
<1>7. \A c \in live' : c[1] \in allocs'
  BY <1>1 DEF Owned
<1> QED
  BY <1>1, <1>3, <1>4, <1>5, <1>6, <1>7 DEF Owned

\* The cancellation of one session, as getOrCreateSession and doClose write it.
LEMMA CancelOne ==
  ASSUME TypeOK, NEW s \in Sessions, Cancel({sessions[s]}),
         sessions' = [sessions EXCEPT ![s] = NoEntry]
  PROVE  CancelAll({s})
<1>1. {sessions[x] : x \in {s}} = {sessions[s]}
  OBVIOUS
<1> QED
  BY <1>1 DEF TypeOK, CancelAll

LEMMA CreateOwned ==
  ASSUME TypeOK, Owned, NEW c \in Calls, NEW s \in Sessions, NEW first \in FirstPhases,
         CreateSession(c, s, first)
  PROVE  Owned' /\ sessions' \in [Sessions -> Entry]
<1> DEFINE b == started + 1
           new == [alloc |-> b, ctx |-> <<b, 0>>, idle |-> FALSE]
<1>1. /\ started' = b /\ b \in Browsers
      /\ allocs' = (allocs \ {sessions[s].alloc}) \union {b}
      /\ live' = {x \in live : x # sessions[s].ctx /\ x[1] # sessions[s].alloc}
                   \union {<<b, 0>>}
      /\ sessions' = [sessions EXCEPT ![s] = new]
  BY DEF CreateSession, AllocsWithout, LiveWithout
<1>2. sessions \in [Sessions -> Entry] /\ started \in Nat /\ b \in 1..MaxBrowsers
  BY <1>1, BrowserAssumption DEF TypeOK, Entry, Browsers
<1>3. new \in Entry /\ new.alloc = b
  BY <1>2, BrowserAssumption DEF Entry, Contexts, Browsers
<1>4. \A x \in Sessions : sessions[x].alloc \in 0..started /\ sessions[x].alloc # b
  BY <1>2 DEF Owned
<1>5. \A x \in Sessions : sessions'[x].alloc \in 0..started'
  BY <1>1, <1>2, <1>3, <1>4
<1>6. \A x, y \in Sessions :
        sessions'[x].alloc # 0 /\ sessions'[x].alloc = sessions'[y].alloc => x = y
  BY <1>1, <1>2, <1>3, <1>4 DEF Owned
<1>7. ASSUME NEW a \in allocs' PROVE a # 0 /\ \E x \in Sessions : sessions'[x].alloc = a
  <2>1. CASE a = b
    BY <1>1, <1>2, <1>3, <2>1
  <2>2. CASE a # b
    <3>1. a \in allocs /\ a # sessions[s].alloc
      BY <1>1, <2>2
    <3>2. PICK x \in Sessions : sessions[x].alloc = a
      BY <3>1 DEF Owned
    <3> QED
      BY <1>1, <1>2, <3>1, <3>2 DEF Owned
  <2> QED
    BY <2>1, <2>2
<1>8. \A x \in live' : x[1] \in allocs'
  BY <1>1 DEF Owned
<1> QED
  BY <1>1, <1>2, <1>3, <1>5, <1>6, <1>7, <1>8 DEF Owned

\* A step that keeps every entry's allocator and starts no process from
\* another allocator.
LEMMA SameAllocs ==
  ASSUME TypeOK, Owned, UNCHANGED <<started, allocs>>,
         \A s \in Sessions : sessions'[s].alloc = sessions[s].alloc,
         \A c \in live' : c \in live \/ c[1] \in allocs
  PROVE  Owned'
BY DEF Owned

-----------------------------------------------------------------------------
(* Steps of calls.                                                         *)

\* A call that begins has no pictures yet, so nothing is said about it.
LEMMA BeginImages ==
  ASSUME BrowserInv, NEW c \in Calls, NEW s \in Sessions, NEW p \in Phases, p # "none",
         NEW x \in Contexts \union {NoCtx}, Begin(c, s, p, x), UNCHANGED images
  PROVE  /\ call' \in [Calls -> CallState]
         /\ Begun' /\ Collected' /\ ScreenshotsAccounted'
<1> USE DEF BrowserInv
<1>1. /\ call' = [call EXCEPT ![c] = [phase |-> p, session |-> s, ctx |-> x]]
      /\ call[c].phase = "none" /\ call \in [Calls -> CallState]
      /\ pending' = pending /\ attached' = attached
  BY DEF Begin, images, TypeOK, CallState
<1>2. \A i \in Calls : i # c => call'[i] = call[i]
  BY <1>1
<1>3. call'[c].phase = p /\ call'[c].session = s
  BY <1>1
<1>4. /\ \A t \in Sessions : c \notin pending[t]
      /\ \A d \in Calls : c \notin attached[d]
      /\ attached[c] \subseteq Calls /\ \A i \in Calls : i \notin attached[c]
  BY <1>1 DEF Collected, Captured, TypeOK
<1>5. Begun'
  BY <1>2, <1>3 DEF Begun
<1>6. Collected'
  BY <1>1, <1>2, <1>4 DEF Collected
<1>7. ScreenshotsAccounted'
  <2>1. ASSUME NEW t \in Sessions, NEW i \in Calls, i \in pending[t]
        PROVE  /\ call'[i].session = t
               /\ \E d \in Calls : call'[d].session = t /\ call'[d].phase = "return"
    <3>1. PICK d \in Calls : call[d].session = t /\ call[d].phase = "return"
      BY <2>1 DEF ScreenshotsAccounted
    <3>2. d # c
      BY <1>1, <3>1
    <3> QED
      BY <1>2, <1>4, <2>1, <3>1, <3>2 DEF ScreenshotsAccounted
  <2>2. ASSUME NEW a \in Calls, NEW d \in Calls, NEW i \in Calls, i \in attached[a]
        PROVE  /\ call'[i].session = call'[a].session
               /\ i \in attached[d] => a = d
               /\ i \notin pending[call'[i].session]
    BY <1>2, <1>4, <2>2 DEF ScreenshotsAccounted
  <2> QED
    BY <1>1, <2>1, <2>2 DEF ScreenshotsAccounted
<1>8. call' \in [Calls -> CallState]
  BY <1>1 DEF CallState
<1> QED
  BY <1>5, <1>6, <1>7, <1>8

\* A call that goes on, before it returned, and takes no picture.
GoesOn(c, p, x) == call' = [call EXCEPT ![c].phase = p, ![c].ctx = x]

LEMMA GoOnImages ==
  ASSUME BrowserInv, NEW c \in Calls, NEW p \in Phases \ {"none"},
         NEW x \in Contexts \union {NoCtx},
         GoesOn(c, p, x), call[c].phase \notin Captured \union {"none"}, UNCHANGED images
  PROVE  /\ call' \in [Calls -> CallState]
         /\ Begun' /\ Collected' /\ ScreenshotsAccounted'
<1> USE DEF BrowserInv
<1>1. call \in [Calls -> CallState] /\ pending' = pending /\ attached' = attached
  BY DEF TypeOK, CallState, images
<1>2. \A i \in Calls : i # c => call'[i] = call[i]
  BY <1>1 DEF GoesOn
<1>3. call'[c].phase = p /\ \A i \in Calls : call'[i].session = call[i].session
  BY <1>1 DEF GoesOn, CallState
<1>4. /\ \A t \in Sessions : c \notin pending[t]
      /\ \A d \in Calls : c \notin attached[d]
      /\ \A i \in Calls : i \notin attached[c]
  BY DEF Collected, Captured
<1>5. Begun'
  BY <1>2, <1>3 DEF Begun, Captured
<1>6. Collected'
  BY <1>1, <1>2, <1>4 DEF Collected
<1>7. ScreenshotsAccounted'
  <2>1. ASSUME NEW t \in Sessions, NEW i \in Calls, i \in pending[t]
        PROVE  /\ call'[i].session = t
               /\ \E d \in Calls : call'[d].session = t /\ call'[d].phase = "return"
    <3>1. PICK d \in Calls : call[d].session = t /\ call[d].phase = "return"
      BY <2>1 DEF ScreenshotsAccounted
    <3>2. d # c
      BY <3>1 DEF Captured
    <3>3. call'[d].session = t /\ call'[d].phase = "return"
      BY <1>2, <1>3, <3>1, <3>2
    <3>4. call'[i].session = t
      BY <1>3, <2>1 DEF ScreenshotsAccounted
    <3> QED
      BY <3>3, <3>4
  <2>2. pending' = pending /\ attached' = attached
    BY <1>1
  <2>3. ASSUME NEW a \in Calls, NEW d \in Calls, NEW i \in Calls, i \in attached[a]
        PROVE  /\ call'[i].session = call'[a].session
               /\ i \in attached[d] => a = d
               /\ i \notin pending[call'[i].session]
    BY <1>3, <2>3 DEF ScreenshotsAccounted
  <2> QED
    BY <2>1, <2>2, <2>3 DEF ScreenshotsAccounted
<1>8. call' \in [Calls -> CallState]
  BY <1>1 DEF GoesOn, CallState
<1> QED
  BY <1>5, <1>6, <1>7, <1>8

\* A call that reaches another phase, with or without its context.
LEMMA CallMoves ==
  ASSUME NEW f \in [Calls -> CallState], NEW c \in Calls, NEW p \in Phases
  PROVE  /\ [f EXCEPT ![c].phase = p] \in [Calls -> CallState]
         /\ [f EXCEPT ![c].phase = p, ![c].ctx = NoCtx] \in [Calls -> CallState]
BY DEF CallState

LEMMA CaptureImages ==
  ASSUME BrowserInv, NEW c \in Calls, Capture(c)
  PROVE  /\ call' \in [Calls -> CallState] /\ pending' \in [Sessions -> SUBSET Calls]
         /\ Begun' /\ Collected' /\ ScreenshotsAccounted'
<1> DEFINE s == call[c].session
<1> USE DEF BrowserInv
<1>1. /\ call \in [Calls -> CallState] /\ pending \in [Sessions -> SUBSET Calls]
      /\ call[c].phase \in {"capture", "screenshot"} /\ s \in Sessions
      /\ pending' = [pending EXCEPT ![s] = @ \union {c}] /\ attached' = attached
      /\ call' = [call EXCEPT ![c].phase = "return", ![c].ctx = NoCtx]
  BY DEF Capture, Leave, TypeOK, CallState, Begun
<1>2. \A i \in Calls : i # c => call'[i] = call[i]
  BY <1>1
<1>3. call'[c].phase = "return" /\ \A i \in Calls : call'[i].session = call[i].session
  BY <1>1 DEF CallState
<1>4. /\ \A d \in Calls : c \notin attached[d]
      /\ \A i \in Calls : i \notin attached[c]
  BY <1>1 DEF Collected, Captured
<1>5. \A t \in Sessions, i \in Calls : i \in pending'[t] <=> i \in pending[t] \/ (i = c /\ t = s)
  BY <1>1
<1>6. Begun'
  BY <1>1, <1>2, <1>3 DEF Begun
<1>7. Collected'
  BY <1>1, <1>2, <1>3, <1>4, <1>5 DEF Collected, Captured
<1>8. ScreenshotsAccounted'
  <2>1. ASSUME NEW t \in Sessions, NEW i \in Calls, i \in pending'[t]
        PROVE  /\ call'[i].session = t
               /\ \E d \in Calls : call'[d].session = t /\ call'[d].phase = "return"
    <3>1. CASE i = c /\ t = s
      BY <1>3, <3>1
    <3>2. CASE i \in pending[t]
      <4>1. PICK d \in Calls : call[d].session = t /\ call[d].phase = "return"
        BY <3>2 DEF ScreenshotsAccounted
      <4>2. call'[d].session = t /\ call'[d].phase = "return"
        BY <1>2, <1>3, <4>1
      <4> QED
        BY <1>3, <3>2, <4>2 DEF ScreenshotsAccounted
    <3> QED
      BY <1>5, <2>1, <3>1, <3>2
  <2>2. ASSUME NEW a \in Calls, NEW d \in Calls, NEW i \in Calls, i \in attached[a]
        PROVE  /\ call'[i].session = call'[a].session
               /\ i \in attached[d] => a = d
               /\ i \notin pending'[call'[i].session]
    <3>1. i # c
      BY <1>4, <2>2
    <3>2. call[i].session \in Sessions
      BY <2>2 DEF Collected, Captured, Begun
    <3> QED
      BY <1>3, <1>5, <2>2, <3>1, <3>2 DEF ScreenshotsAccounted
  <2>3. attached' = attached
    BY <1>1
  <2> QED
    BY <2>1, <2>2, <2>3 DEF ScreenshotsAccounted
<1>9. call' \in [Calls -> CallState] /\ pending' \in [Sessions -> SUBSET Calls]
  <2>1. call' \in [Calls -> CallState]
    BY <1>1, CallMoves DEF Phases
  <2>2. pending' \in [Sessions -> SUBSET Calls]
    BY <1>1
  <2> QED BY <2>1, <2>2
<1> QED
  BY <1>6, <1>7, <1>8, <1>9

LEMMA ConsumeStep ==
  ASSUME BrowserInv, NEW c \in Calls, ConsumeImages(c)
  PROVE  /\ call' \in [Calls -> CallState] /\ pending' \in [Sessions -> SUBSET Calls]
         /\ attached' \in [Calls -> SUBSET Calls]
         /\ Begun' /\ Collected' /\ ScreenshotsAccounted'
<1> DEFINE s == call[c].session
<1> USE DEF BrowserInv
<1>1. /\ call \in [Calls -> CallState] /\ pending \in [Sessions -> SUBSET Calls]
      /\ attached \in [Calls -> SUBSET Calls]
      /\ call[c].phase = "return" /\ s \in Sessions
      /\ attached' = [attached EXCEPT ![c] = pending[s]]
      /\ pending' = [pending EXCEPT ![s] = {}]
      /\ call' = [call EXCEPT ![c].phase = "ended", ![c].ctx = NoCtx]
  BY DEF ConsumeImages, Leave, TypeOK, CallState, Begun
<1>2. \A i \in Calls : i # c => call'[i] = call[i]
  BY <1>1
<1>3. call'[c].phase = "ended" /\ \A i \in Calls : call'[i].session = call[i].session
  BY <1>1 DEF CallState
<1>4. /\ \A t \in Sessions : t # s => pending'[t] = pending[t]
      /\ pending'[s] = {} /\ attached'[c] = pending[s]
      /\ \A d \in Calls : d # c => attached'[d] = attached[d]
  BY <1>1
<1>5. Begun'
  BY <1>1, <1>2, <1>3 DEF Begun
<1>6. Collected'
  BY <1>1, <1>2, <1>3, <1>4 DEF Collected, Captured
<1>7. ASSUME NEW t \in Sessions, NEW i \in Calls, i \in pending'[t]
      PROVE  /\ call'[i].session = t
             /\ \E d \in Calls : call'[d].session = t /\ call'[d].phase = "return"
  <2>1. t # s /\ i \in pending[t]
    BY <1>4, <1>7
  <2>2. PICK d \in Calls : call[d].session = t /\ call[d].phase = "return"
    BY <2>1 DEF ScreenshotsAccounted
  <2>3. d # c
    BY <2>1, <2>2
  <2> QED
    BY <1>2, <1>3, <2>1, <2>2, <2>3 DEF ScreenshotsAccounted
<1>8. ASSUME NEW a \in Calls, NEW d \in Calls, NEW i \in Calls, i \in attached'[a]
      PROVE  /\ call'[i].session = call'[a].session
             /\ i \in attached'[d] => a = d
             /\ i \notin pending'[call'[i].session]
  <2>1. CASE a = c
    <3>1. i \in pending[s] /\ call[i].session = s
      BY <1>1, <1>4, <1>8, <2>1 DEF ScreenshotsAccounted
    <3>2. \A x \in Calls : i \notin attached[x]
      BY <3>1 DEF ScreenshotsAccounted
    <3> QED
      BY <1>3, <1>4, <2>1, <3>1, <3>2
  <2>2. CASE a # c
    <3>1. i \in attached[a] /\ call[i].session = call[a].session
      BY <1>4, <1>8, <2>2 DEF ScreenshotsAccounted
    <3>2. i \notin pending[call[i].session] /\ call[i].session \in Sessions
      BY <3>1 DEF ScreenshotsAccounted, Collected, Captured, Begun
    <3>3. i \in attached'[d] => a = d
      <4>1. ASSUME d = c, i \in attached'[d] PROVE FALSE
        BY <1>1, <1>4, <3>2, <4>1 DEF ScreenshotsAccounted
      <4> QED
        BY <1>4, <3>1, <4>1 DEF ScreenshotsAccounted
    <3>4. i \notin pending'[call'[i].session]
      BY <1>3, <1>4, <3>2
    <3> QED
      BY <1>3, <3>1, <3>3, <3>4
  <2> QED
    BY <2>1, <2>2
<1>9. ScreenshotsAccounted'
  BY <1>7, <1>8 DEF ScreenshotsAccounted
<1>10. call' \in [Calls -> CallState] /\ pending' \in [Sessions -> SUBSET Calls]
       /\ attached' \in [Calls -> SUBSET Calls]
  <2>1. call' \in [Calls -> CallState]
    BY <1>1, CallMoves DEF Phases
  <2>2. pending' \in [Sessions -> SUBSET Calls] /\ attached' \in [Calls -> SUBSET Calls]
    BY ONLY <1>1
  <2> QED BY <2>1, <2>2
<1> QED
  BY <1>5, <1>6, <1>9, <1>10

-----------------------------------------------------------------------------
(* The whole invariant, one step per action.                               *)

\* What a step owes beside the entries and the calls.
Frame ==
  /\ started' \in 0..MaxBrowsers /\ allocs' \subseteq Browsers
  /\ live' \subseteq Contexts /\ tabs' \subseteq Contexts
  /\ owner' \in [Browsers -> Sessions \union {NoSession}]
  /\ pending' \in [Sessions -> SUBSET Calls] /\ attached' \in [Calls -> SUBSET Calls]
  /\ closed' \in BOOLEAN

LEMMA TypeFromParts ==
  ASSUME sessions' \in [Sessions -> Entry], call' \in [Calls -> CallState], Frame
  PROVE  TypeOK'
BY DEF Frame, TypeOK, Entry, CallState

\* Steps that leave calls and pictures alone.
LEMMA KeepImages ==
  ASSUME BrowserInv, UNCHANGED <<call, images>>
  PROVE  /\ call' \in [Calls -> CallState]
         /\ Begun' /\ Collected' /\ ScreenshotsAccounted'
<1>1. call' = call /\ pending' = pending /\ attached' = attached
  BY DEF images
<1> QED
  BY <1>1 DEF BrowserInv, TypeOK, CallState, Begun, Collected, ScreenshotsAccounted

\* Steps that leave Chrome alone.
LEMMA KeepChrome ==
  ASSUME BrowserInv, UNCHANGED chrome
  PROVE  Owned' /\ sessions' \in [Sessions -> Entry]
<1>1. /\ sessions' = sessions /\ started' = started /\ allocs' = allocs /\ live' = live
      /\ sessions \in [Sessions -> Entry]
  BY DEF chrome, BrowserInv, TypeOK, Entry
<1> QED
  BY <1>1, SameAllocs DEF BrowserInv

LEMMA BeginSteps ==
  ASSUME BrowserInv, NEW c \in Calls, NEW s \in Sessions,
         \/ doClose(c, s) \/ CreateFails(c, s)
         \/ \E first \in FirstPhases : UseSession(c, s, first) \/ CreateSession(c, s, first)
  PROVE  BrowserInv'
<1> USE DEF BrowserInv
<1>0. NoCtx \in Contexts \union {NoCtx} /\ sessions \in [Sessions -> Entry]
  BY DEF TypeOK, Entry
<1>1. CASE doClose(c, s) \/ CreateFails(c, s)
  <2>1. CancelAll({s}) /\ started' = started
    BY <1>1, CancelOne DEF doClose, CreateFails
  <2>2. /\ Owned' /\ sessions' \in [Sessions -> Entry]
        /\ allocs' \subseteq allocs /\ live' \subseteq live
    BY <2>1, CancelOwned
  <2>3. PICK p \in {"return", "ended"} : Begin(c, s, p, NoCtx)
    BY <1>1 DEF doClose, CreateFails
  <2>4. UNCHANGED <<images, owner, tabs, started, closed>>
    BY <1>1 DEF doClose, CreateFails
  <2>5. p \in Phases /\ p # "none"
    BY DEF Phases
  <2>6. call' \in [Calls -> CallState] /\ Begun' /\ Collected' /\ ScreenshotsAccounted'
    BY <1>0, <2>3, <2>4, <2>5, BeginImages
  <2>7. Frame
    BY <2>2, <2>4 DEF TypeOK, Frame, images
  <2> QED
    BY <2>2, <2>6, <2>7, TypeFromParts
<1>2. ASSUME NEW first \in FirstPhases, UseSession(c, s, first) PROVE BrowserInv'
  <2>1. /\ sessions' = [sessions EXCEPT ![s].idle = FALSE]
        /\ Begin(c, s, first, sessions[s].ctx)
        /\ UNCHANGED <<started, allocs, live, owner, tabs, images, closed>>
    BY <1>2 DEF UseSession
  <2>2. first \in Phases /\ first # "none" /\ sessions[s].ctx \in Contexts \union {NoCtx}
    BY <1>0 DEF FirstPhases, Phases, Entry
  <2>3. call' \in [Calls -> CallState] /\ Begun' /\ Collected' /\ ScreenshotsAccounted'
    BY <2>1, <2>2, BeginImages
  <2>4. /\ sessions' \in [Sessions -> Entry]
        /\ \A t \in Sessions : sessions'[t].alloc = sessions[t].alloc
    BY <1>0, <2>1 DEF Entry
  <2>5. Owned'
    BY <2>1, <2>4, SameAllocs
  <2>6. Frame
    BY <2>1 DEF TypeOK, Frame, images
  <2> QED
    BY <2>3, <2>4, <2>5, <2>6, TypeFromParts
<1>3. ASSUME NEW first \in FirstPhases, CreateSession(c, s, first) PROVE BrowserInv'
  <2> DEFINE b == started + 1
  <2>1. /\ b \in Browsers /\ started' = b /\ owner' = [owner EXCEPT ![b] = s]
        /\ allocs' = (allocs \ {sessions[s].alloc}) \union {b}
        /\ live' = {x \in live : x # sessions[s].ctx /\ x[1] # sessions[s].alloc}
                     \union {<<b, 0>>}
        /\ Begin(c, s, first, <<b, 0>>)
        /\ UNCHANGED <<tabs, images, closed>>
    BY <1>3 DEF CreateSession, AllocsWithout, LiveWithout
  <2>2. Owned' /\ sessions' \in [Sessions -> Entry]
    BY <1>3, CreateOwned
  <2>3. <<b, 0>> \in Contexts /\ b \in 0..MaxBrowsers
    BY <2>1, BrowserAssumption DEF Contexts, Browsers
  <2>4. first \in Phases /\ first # "none"
    BY DEF FirstPhases, Phases
  <2>5. call' \in [Calls -> CallState] /\ Begun' /\ Collected' /\ ScreenshotsAccounted'
    BY <2>1, <2>3, <2>4, BeginImages
  <2>6. Frame
    <3> HIDE DEF b
    <3> QED
      BY <2>1, <2>3 DEF TypeOK, Frame, images
  <2> QED
    BY <2>2, <2>5, <2>6, TypeFromParts
<1> QED
  BY <1>1, <1>2, <1>3

LEMMA CallSteps ==
  ASSUME BrowserInv, NEW c \in Calls,
         \/ RunActions(c) \/ RunFails(c) \/ WaitForStableURL(c)
         \/ Capture(c) \/ CaptureFails(c) \/ ConsumeImages(c)
  PROVE  BrowserInv'
<1> USE DEF BrowserInv
<1>0. /\ call \in [Calls -> CallState] /\ sessions \in [Sessions -> Entry]
      /\ NoCtx \in Contexts \union {NoCtx} /\ call[c].ctx \in Contexts \union {NoCtx}
  BY DEF TypeOK, CallState, Entry
<1>1. UNCHANGED <<chrome, closed>>
  BY DEF RunActions, RunFails, WaitForStableURL, Capture, CaptureFails, ConsumeImages
<1>2. Owned' /\ sessions' \in [Sessions -> Entry]
  BY <1>1, KeepChrome
<1>3. CASE RunActions(c) \/ RunFails(c) \/ WaitForStableURL(c) \/ CaptureFails(c)
  <2>1. UNCHANGED images /\ call[c].phase \notin Captured \union {"none"}
    BY <1>3 DEF RunActions, RunFails, WaitForStableURL, CaptureFails, Captured
  <2>2. \E p \in Phases \ {"none"}, x \in Contexts \union {NoCtx} :
          call' = [call EXCEPT ![c].phase = p, ![c].ctx = x]
    <3>1. CASE call' = [call EXCEPT ![c].phase = "capture"]
      <4>1. call' = [call EXCEPT ![c].phase = "capture", ![c].ctx = call[c].ctx]
        BY <1>0, <3>1 DEF CallState
      <4> QED
        BY <1>0, <4>1 DEF Phases
    <3>2. CASE \E p \in {"settle", "return", "ended"} :
                 call' = [call EXCEPT ![c].phase = p, ![c].ctx = NoCtx]
      BY <1>0, <3>2 DEF Phases
    <3>3. CASE WaitForStableURL(c)
      <4> DEFINE e == sessions[call[c].session]
                 p == IF e = NoEntry THEN "panic" ELSE "capture"
      <4>1. call[c].session \in Sessions
        BY <3>3 DEF WaitForStableURL, Begun
      <4>2. e.ctx \in Contexts \union {NoCtx} /\ p \in Phases \ {"none"}
        BY <1>0, <4>1 DEF Entry, Phases
      <4>3. call' = [call EXCEPT ![c].ctx = e.ctx, ![c].phase = p]
        BY <3>3 DEF WaitForStableURL
      <4>4. call' = [call EXCEPT ![c].phase = p, ![c].ctx = e.ctx]
        <5> HIDE DEF e, p
        <5> QED
          BY <1>0, <4>3 DEF CallState
      <4> QED
        BY <4>2, <4>4
    <3>4. CASE RunActions(c)
      <4>1. ThenStableURL(c) \/ ThenScreenshot(c) \/ ThenReturn(c)
        BY <3>4 DEF RunActions
      <4> QED
        BY <4>1, <3>1, <3>2 DEF ThenStableURL, ThenScreenshot, ThenReturn, SetCall, Leave
    <3> QED
      BY <1>3, <3>2, <3>3, <3>4 DEF RunFails, CaptureFails, Leave
  <2>3. call' \in [Calls -> CallState] /\ Begun' /\ Collected' /\ ScreenshotsAccounted'
    BY <2>1, <2>2, GoOnImages DEF GoesOn
  <2>4. Frame
    BY <1>1, <2>1 DEF TypeOK, Frame, chrome, images
  <2> QED
    BY <1>2, <2>3, <2>4, TypeFromParts
<1>4. CASE Capture(c)
  <2>1. /\ call' \in [Calls -> CallState] /\ pending' \in [Sessions -> SUBSET Calls]
        /\ Begun' /\ Collected' /\ ScreenshotsAccounted'
    BY <1>4, CaptureImages
  <2>2. attached' = attached
    BY <1>4 DEF Capture
  <2>3. Frame
    BY <1>1, <2>1, <2>2 DEF TypeOK, Frame, chrome
  <2> QED
    BY <1>2, <2>1, <2>3, TypeFromParts
<1>5. CASE ConsumeImages(c)
  <2>1. /\ call' \in [Calls -> CallState] /\ pending' \in [Sessions -> SUBSET Calls]
        /\ attached' \in [Calls -> SUBSET Calls]
        /\ Begun' /\ Collected' /\ ScreenshotsAccounted'
    BY <1>5, ConsumeStep
  <2>2. Frame
    BY <1>1, <2>1 DEF TypeOK, Frame, chrome
  <2> QED
    BY <1>2, <2>1, <2>2, TypeFromParts
<1> QED
  BY <1>3, <1>4, <1>5

LEMMA ChromeSteps ==
  ASSUME BrowserInv,
         \/ \E b \in Browsers : NewTab(b)
         \/ \E t \in Contexts : SwitchTab(t) \/ ChromeDies(t)
         \/ \E s \in Sessions : BecomeIdle(s)
         \/ cleanIdleSessions \/ Close
  PROVE  BrowserInv'
<1> USE DEF BrowserInv
<1>0. sessions \in [Sessions -> Entry]
  BY DEF TypeOK, Entry
<1>1. UNCHANGED <<call, images, started, owner>>
  BY DEF NewTab, SwitchTab, ChromeDies, BecomeIdle, cleanIdleSessions, Close
<1>2. call' \in [Calls -> CallState] /\ Begun' /\ Collected' /\ ScreenshotsAccounted'
  BY <1>1, KeepImages
<1>3. CASE cleanIdleSessions \/ Close
  <2>1. \E ss \in SUBSET Sessions : CancelAll(ss)
    BY <1>3 DEF cleanIdleSessions, Close
  <2>2. /\ Owned' /\ sessions' \in [Sessions -> Entry]
        /\ allocs' \subseteq allocs /\ live' \subseteq live
    BY <1>1, <2>1, CancelOwned
  <2>3. tabs' = tabs /\ closed' \in BOOLEAN
    BY <1>3 DEF cleanIdleSessions, Close, TypeOK
  <2>4. Frame
    BY <1>1, <2>2, <2>3 DEF TypeOK, Frame, images
  <2> QED
    BY <1>2, <2>2, <2>4, TypeFromParts
<1>4. CASE \/ \E b \in Browsers : NewTab(b)
           \/ \E t \in Contexts : SwitchTab(t) \/ ChromeDies(t)
           \/ \E s \in Sessions : BecomeIdle(s)
  <2>1. UNCHANGED <<started, allocs, closed>>
    BY <1>4 DEF NewTab, SwitchTab, ChromeDies, BecomeIdle
  <2>2. /\ sessions' \in [Sessions -> Entry]
        /\ \A s \in Sessions : sessions'[s].alloc = sessions[s].alloc
    <3>1. ASSUME NEW t \in Contexts, SwitchTab(t)
          PROVE  \/ sessions' = sessions
                 \/ sessions' = [sessions EXCEPT ![owner[t[1]]].ctx = t,
                                                 ![owner[t[1]]].idle = FALSE]
      BY <3>1 DEF SwitchTab
    <3>2. ASSUME NEW t \in Contexts,
                 sessions' = [sessions EXCEPT ![owner[t[1]]].ctx = t,
                                              ![owner[t[1]]].idle = FALSE]
          PROVE  /\ sessions' \in [Sessions -> Entry]
                 /\ \A s \in Sessions : sessions'[s].alloc = sessions[s].alloc
      BY <1>0, <3>2 DEF Entry
    <3>3. ASSUME NEW s \in Sessions, BecomeIdle(s)
          PROVE  /\ sessions' \in [Sessions -> Entry]
                 /\ \A t \in Sessions : sessions'[t].alloc = sessions[t].alloc
      BY <1>0, <3>3 DEF BecomeIdle, Entry
    <3>4. CASE sessions' = sessions
      BY <1>0, <3>4
    <3> QED
      BY <1>4, <3>1, <3>2, <3>3, <3>4 DEF NewTab, ChromeDies
  <2>3. \A c \in live' : c \in live \/ c[1] \in allocs
    <3>1. ASSUME NEW b \in Browsers, NewTab(b)
          PROVE  \A c \in live' : c \in live \/ c[1] \in allocs
      <4>1. PICK t \in 1..MaxTabs : live' = live \union {<<b, t>>}
        BY <3>1 DEF NewTab
      <4> QED
        BY <3>1, <4>1 DEF NewTab
    <3> QED
      BY <1>4, <3>1 DEF SwitchTab, ChromeDies, BecomeIdle
  <2>4. Owned'
    BY <1>1, <2>1, <2>2, <2>3, SameAllocs
  <2>5. live' \subseteq Contexts /\ tabs' \subseteq Contexts
    <3>1. ASSUME NEW b \in Browsers, NewTab(b)
          PROVE  live' \subseteq Contexts /\ tabs' \subseteq Contexts
      <4>1. PICK t \in 1..MaxTabs :
              live' = live \union {<<b, t>>} /\ tabs' = tabs \union {<<b, t>>}
        BY <3>1 DEF NewTab
      <4>2. <<b, t>> \in Contexts
        BY BrowserAssumption DEF Contexts
      <4> QED
        BY <4>1, <4>2 DEF TypeOK
    <3> QED
      BY <1>4, <3>1 DEF SwitchTab, ChromeDies, BecomeIdle, TypeOK
  <2>6. Frame
    BY <1>1, <2>1, <2>5 DEF TypeOK, Frame, images
  <2> QED
    BY <1>2, <2>2, <2>4, <2>6, TypeFromParts
<1> QED
  BY <1>3, <1>4

LEMMA InvStep == BrowserInv /\ [Next]_vars => BrowserInv'
<1> SUFFICES ASSUME BrowserInv, [Next]_vars PROVE BrowserInv'
  OBVIOUS
<1>1. CASE UNCHANGED vars
  BY <1>1 DEF vars, BrowserInv, TypeOK, Begun, Owned, Collected, ScreenshotsAccounted
<1>2. CASE \E c \in Calls : Execute(c)
  BY <1>2, BeginSteps, CallSteps DEF Execute
<1>3. CASE \/ \E b \in Browsers : NewTab(b)
           \/ \E t \in Contexts : SwitchTab(t) \/ ChromeDies(t)
           \/ \E s \in Sessions : BecomeIdle(s)
           \/ cleanIdleSessions \/ Close
  BY <1>3, ChromeSteps
<1> QED
  BY <1>1, <1>2, <1>3 DEF Next

THEOREM BrowserInvariant == Spec => []BrowserInv
BY InitInv, InvStep, PTL DEF Spec

-----------------------------------------------------------------------------
(* The results.                                                            *)

\* Every variable keeps its type: no entry, call or screenshot list of the
\* tool ever holds anything else.
THEOREM BrowserTypeCorrect == Spec => []TypeOK
<1>1. BrowserInv => TypeOK
  BY DEF BrowserInv
<1> QED
  BY <1>1, BrowserInvariant, PTL

\* Every Chrome that getOrCreateSession or the callback for new tabs started
\* belongs to the entry of exactly one session, however tabs, eviction, close
\* and replacement interleave.
THEOREM NoChromeStrays == Spec => []NoStrayChrome
<1>1. BrowserInv => NoStrayChrome
  <2> SUFFICES ASSUME BrowserInv, NEW c \in live
               PROVE  \E s \in Sessions : \A t \in Sessions :
                        (sessions[t].alloc = c[1]) <=> (t = s)
    BY DEF NoStrayChrome
  <2>1. c[1] # 0 /\ \E s \in Sessions : sessions[s].alloc = c[1]
    BY DEF BrowserInv, Owned
  <2>2. PICK s \in Sessions : sessions[s].alloc = c[1]
    BY <2>1
  <2>3. \A t \in Sessions : sessions[t].alloc = c[1] => t = s
    BY <2>1, <2>2 DEF BrowserInv, Owned
  <2> QED
    BY <2>2, <2>3
<1> QED
  BY <1>1, BrowserInvariant, PTL

\* A screenshot captureScreenshot kept goes to one result of its session, or
\* waits for a call of the session that is about to take it.
THEOREM ScreenshotsAlwaysAccounted == Spec => []ScreenshotsAccounted
<1>1. BrowserInv => ScreenshotsAccounted
  BY DEF BrowserInv
<1> QED
  BY <1>1, BrowserInvariant, PTL
=============================================================================
