------------------------------ MODULE FileCache ------------------------------
(***************************************************************************)
(* The cache behind the file tools (pkg/filecache, agent/tools/file.go):   *)
(* file_read goes through Get, file_write changes the file and calls       *)
(* Invalidate, anything else on the machine changes files behind the       *)
(* cache's back, and refreshAll compares modification times every few      *)
(* minutes.  Only the critical sections of Cache.mu are atomic.            *)
(*                                                                         *)
(* The content of a file is abstracted to its version, which every change  *)
(* of the file increments, and its modification time is taken to be        *)
(* different for different versions.                                       *)
(***************************************************************************)
EXTENDS Integers, FiniteSets

CONSTANTS
  Paths,        \* files
  Readers,      \* concurrent calls of file_read
  Writers,      \* concurrent calls of file_write
  MaxEntries,   \* Cache.maxEntries
  MaxVersion    \* bound: changes of a file

ASSUME CacheAssumption ==
  /\ Paths # {} /\ IsFiniteSet(Paths) /\ MaxEntries \in Nat \ {0} /\ MaxVersion \in Nat

VARIABLES
  disk,       \* the files: version, whether there is one, whether it is too large
  entries,    \* Cache.entries; a deleted entry is NotCached
  before,     \* pairs of cached paths, the one with the earlier lastAccess first
  stopped,    \* Cache.stop is closed
  \* Get
  rpc, rpath, rinfo, rdata,
  view,       \* the data field of the entry a reader holds a pointer to
  mapped,     \* that entry is still in the map
  length,     \* the version whose length the reader has allocated
  got,        \* what the last Get returned, until the next one starts
  \* file_write
  wpc, wpath,
  \* refreshAll
  fpc, todo, at, fdata

reader    == <<rpc, rpath, rinfo, rdata, length, got>>
pointer   == <<view, mapped>>
writer    == <<wpc, wpath>>
refresher == <<fpc, todo, at, fdata>>
cache     == <<entries, before>>
cacheVars == <<disk, cache, stopped, reader, pointer, writer, refresher>>

NotCached == [data |-> 0, modTime |-> 0]
Torn    == -1                 \* neither one version nor another
Failed  == -2                 \* Get returned an error
Cached  == {p \in Paths : entries[p] # NotCached}
Oldest  == {p \in Cached : \A q \in Cached : <<q, p>> \notin before}

CacheInit ==
  /\ disk = [p \in Paths |-> [ver |-> 1, here |-> TRUE, big |-> FALSE]]
  /\ entries = [p \in Paths |-> NotCached] /\ before = {} /\ stopped = FALSE
  /\ rpc = [r \in Readers |-> "idle"] /\ rpath \in [Readers -> {CHOOSE p \in Paths : TRUE}]
  /\ rinfo = [r \in Readers |-> 0] /\ rdata = [r \in Readers |-> 0]
  /\ view = [r \in Readers |-> 0] /\ mapped = [r \in Readers |-> FALSE]
  /\ length = [r \in Readers |-> 0] /\ got = [r \in Readers |-> 0]
  /\ wpc = [w \in Writers |-> "idle"] /\ wpath \in [Writers -> {CHOOSE p \in Paths : TRUE}]
  /\ fpc = "idle" /\ todo = {} /\ at = <<CHOOSE p \in Paths : TRUE, 0>> /\ fdata = 0

-----------------------------------------------------------------------------
(* The file system *)

Change(p, exists, large) ==
  /\ disk[p].ver <= MaxVersion
  /\ disk' = [disk EXCEPT ![p] = [ver |-> @.ver + 1, here |-> exists, big |-> large]]

\* A shell command, an editor, another process.
ExternalChange(p) ==
  /\ \E exists, large \in BOOLEAN : (large => exists) /\ Change(p, exists, large)
  /\ UNCHANGED <<cache, stopped, reader, pointer, writer, refresher>>

-----------------------------------------------------------------------------
(* The map.  An entry that leaves it stays as it is for those who hold it. *)

Without(gone) == {x \in before : x[1] \notin gone /\ x[2] \notin gone}

Remove(gone) ==
  /\ entries' = [p \in Paths |-> IF p \in gone THEN NotCached ELSE entries[p]]
  /\ before' = Without(gone)
  /\ mapped' = [r \in Readers |-> mapped[r] /\ rpath[r] \notin gone]
  /\ UNCHANGED view

-----------------------------------------------------------------------------
(* Get *)

\* The look-up under the lock renews the entry's lastAccess.
Lookup(r, p) ==
  /\ rpc[r] = "idle"
  /\ rpath' = [rpath EXCEPT ![r] = p] /\ got' = [got EXCEPT ![r] = 0]
  /\ IF p \in Cached
     THEN /\ rpc' = [rpc EXCEPT ![r] = "length"]
          /\ before' = Without({p}) \cup {<<q, p>> : q \in Cached \ {p}}
          /\ view' = [view EXCEPT ![r] = entries[p].data]
          /\ mapped' = [mapped EXCEPT ![r] = TRUE]
     ELSE /\ rpc' = [rpc EXCEPT ![r] = "stat"]
          /\ UNCHANGED <<before, pointer>>
  /\ UNCHANGED <<disk, entries, stopped, rinfo, rdata, length, writer, refresher>>

\* make([]byte, len(e.data)), after the lock was released ...
TakeLength(r) ==
  /\ rpc[r] = "length"
  /\ rpc' = [rpc EXCEPT ![r] = "copy"]
  /\ length' = [length EXCEPT ![r] = view[r]]
  /\ UNCHANGED <<disk, cache, stopped, rpath, rinfo, rdata, got, pointer, writer, refresher>>

Return(r, v) ==
  /\ rpc' = [rpc EXCEPT ![r] = "idle"]
  /\ got' = [got EXCEPT ![r] = v]
  /\ rinfo' = [rinfo EXCEPT ![r] = 0] /\ rdata' = [rdata EXCEPT ![r] = 0]
  /\ length' = [length EXCEPT ![r] = 0]

\* ... and copy(cp, e.data), which reads the field again.
Copy(r) ==
  /\ rpc[r] = "copy"
  /\ Return(r, IF view[r] = length[r] THEN view[r] ELSE Torn)
  /\ view' = [view EXCEPT ![r] = 0] /\ mapped' = [mapped EXCEPT ![r] = FALSE]
  /\ UNCHANGED <<disk, cache, stopped, rpath, writer, refresher>>

\* load: os.Stat; a large file is read and not cached.
Stat(r) ==
  LET f == disk[rpath[r]] IN
  /\ rpc[r] = "stat"
  /\ \/ ~f.here /\ Return(r, Failed)
     \/ /\ f.here
        /\ rpc' = [rpc EXCEPT ![r] = "read"]
        /\ rinfo' = [rinfo EXCEPT ![r] = IF f.big THEN 0 ELSE f.ver]
        /\ UNCHANGED <<rdata, length, got>>
  /\ UNCHANGED <<disk, cache, stopped, rpath, pointer, writer, refresher>>

\* os.ReadFile.
Read(r) ==
  LET f == disk[rpath[r]] IN
  /\ rpc[r] = "read"
  /\ \/ ~f.here /\ Return(r, Failed)
     \/ f.here /\ rinfo[r] = 0 /\ Return(r, f.ver)
     \/ /\ f.here /\ rinfo[r] # 0
        /\ rpc' = [rpc EXCEPT ![r] = "insert"]
        /\ rdata' = [rdata EXCEPT ![r] = f.ver]
        /\ UNCHANGED <<rinfo, length, got>>
  /\ UNCHANGED <<disk, cache, stopped, rpath, pointer, writer, refresher>>

\* The critical section of load: evictOne if the cache is full, and the entry.
InsertInto(r, full, modTime) ==
  LET p == rpath[r] IN
  /\ rpc[r] = "insert"
  /\ \E gone \in IF full THEN {{q} : q \in Oldest} ELSE {{}} :
       /\ entries' = [q \in Paths |-> IF q = p THEN [data |-> rdata[r], modTime |-> modTime]
                                      ELSE IF q \in gone THEN NotCached ELSE entries[q]]
       /\ before' = Without(gone \cup {p}) \cup {<<q, p>> : q \in Cached \ (gone \cup {p})}
       /\ mapped' = [x \in Readers |-> mapped[x] /\ rpath[x] \notin gone \cup {p}]
  /\ Return(r, rdata[r])
  /\ UNCHANGED <<disk, stopped, rpath, view, writer, refresher>>

\* Mutant of Insert: Stat behind ReadFile.
Insert_statsLate(r) == InsertInto(r, Cardinality(Cached) >= MaxEntries, disk[rpath[r]].ver)

Insert(r) == InsertInto(r, Cardinality(Cached) >= MaxEntries, rinfo[r])

-----------------------------------------------------------------------------
(* file_write *)

\* os.OpenFile with O_TRUNC or O_APPEND.
Open(w, p) ==
  /\ wpc[w] = "idle"
  /\ wpath' = [wpath EXCEPT ![w] = p]
  /\ wpc' = [wpc EXCEPT ![w] = "write"]
  /\ \/ Change(p, TRUE, FALSE)
     \/ disk[p].here /\ UNCHANGED disk
  /\ UNCHANGED <<cache, stopped, reader, pointer, refresher>>

\* WriteString; when it fails, Invalidate is not called.
WriteString(w) ==
  /\ wpc[w] = "write"
  /\ \/ /\ \E large \in BOOLEAN : Change(wpath[w], TRUE, large)
        /\ wpc' = [wpc EXCEPT ![w] = "invalidate"]
     \/ /\ wpc' = [wpc EXCEPT ![w] = "idle"]
        /\ UNCHANGED disk
  /\ UNCHANGED <<cache, stopped, reader, pointer, wpath, refresher>>

Invalidate(w) ==
  /\ wpc[w] = "invalidate"
  /\ Remove({wpath[w]})
  /\ wpc' = [wpc EXCEPT ![w] = "idle"]
  /\ UNCHANGED <<disk, stopped, reader, wpath, refresher>>

-----------------------------------------------------------------------------
(* refreshLoop and refreshAll *)

Stop ==
  /\ stopped' = TRUE
  /\ UNCHANGED <<disk, cache, reader, pointer, writer, refresher>>

\* The ticker fires.  If the time to live of an entry is over, then so is that of
\* those with an earlier lastAccess.
Expire ==
  /\ fpc = "idle" /\ ~stopped
  /\ \E gone \in SUBSET Cached :
       (\A x \in before : x[2] \in gone => x[1] \in gone) /\ Remove(gone)
  /\ fpc' = "snapshot"
  /\ UNCHANGED <<disk, stopped, reader, writer, todo, at, fdata>>

Snapshot ==
  /\ fpc = "snapshot"
  /\ fpc' = "next"
  /\ todo' = {<<p, entries[p].modTime>> : p \in Cached}
  /\ UNCHANGED <<disk, cache, stopped, reader, pointer, writer, at, fdata>>

\* os.Stat of the next path of the snapshot.
Check(s) ==
  LET f == disk[s[1]] IN
  /\ fpc = "next" /\ s \in todo
  /\ todo' = todo \ {s}
  /\ at' = IF f.here THEN <<s[1], f.ver>> ELSE <<s[1], 0>>
  /\ fpc' = IF ~f.here THEN "drop"
            ELSE IF f.ver = s[2] THEN "next"
            ELSE IF f.big THEN "drop" ELSE "read"
  /\ UNCHANGED <<disk, cache, stopped, reader, pointer, writer, fdata>>

Done ==
  /\ fpc = "next" /\ todo = {}
  /\ fpc' = "idle"
  /\ UNCHANGED <<disk, cache, stopped, reader, pointer, writer, todo, at, fdata>>

Drop ==
  /\ fpc = "drop"
  /\ Remove({at[1]})
  /\ fpc' = "next"
  /\ UNCHANGED <<disk, stopped, reader, writer, todo, at, fdata>>

ReadAgain ==
  /\ fpc = "read"
  /\ fpc' = IF disk[at[1]].here THEN "update" ELSE "drop"
  /\ fdata' = IF disk[at[1]].here THEN disk[at[1]].ver ELSE fdata
  /\ UNCHANGED <<disk, cache, stopped, reader, pointer, writer, todo, at>>

\* The entry of a path changes in place, under the eyes of those who hold it.
Put(p) ==
  /\ entries' = [entries EXCEPT ![p] = [data |-> fdata, modTime |-> at[2]]]
  /\ view' = [r \in Readers |-> IF mapped[r] /\ rpath[r] = p THEN fdata ELSE view[r]]

\* Mutant of Update: an entry that was removed meanwhile comes back.
Update_anyway ==
  /\ fpc = "update" /\ fpc' = "next" /\ fdata' = 0
  /\ Put(at[1])
  /\ before' = IF at[1] \in Cached THEN before ELSE before \cup {<<q, at[1]>> : q \in Cached}
  /\ UNCHANGED <<disk, mapped, stopped, reader, writer, todo, at>>

Update ==
  /\ fpc = "update"
  /\ fpc' = "next" /\ fdata' = 0
  /\ IF at[1] \in Cached THEN Put(at[1]) ELSE UNCHANGED <<entries, view>>
  /\ UNCHANGED <<disk, before, mapped, stopped, reader, writer, todo, at>>

-----------------------------------------------------------------------------
GetStep(r)   == TakeLength(r) \/ Copy(r) \/ Stat(r) \/ Read(r) \/ Insert(r)
WriteStep(w) == WriteString(w) \/ Invalidate(w)
RefreshStep  == Expire \/ Snapshot \/ (\E s \in todo : Check(s)) \/ Done \/ Drop
                \/ ReadAgain \/ Update

CacheNext ==
  \/ \E p \in Paths : ExternalChange(p)
  \/ \E r \in Readers : GetStep(r) \/ \E p \in Paths : Lookup(r, p)
  \/ \E w \in Writers : WriteStep(w) \/ \E p \in Paths : Open(w, p)
  \/ RefreshStep
  \/ Stop

\* Goroutines run and the ticker ticks; nobody need read, write or stop.
Fairness ==
  /\ \A r \in Readers : WF_cacheVars(GetStep(r))
  /\ \A w \in Writers : WF_cacheVars(WriteStep(w))
  /\ WF_cacheVars(RefreshStep)

CacheSpec == CacheInit /\ [][CacheNext]_cacheVars /\ Fairness

-----------------------------------------------------------------------------
(* Properties *)

\* Loads, which find room under the lock, and refreshes, which hold paths while
\* other steps evict them, never make the cache larger than maxEntries (load,
\* evictOne, refreshAll).
WithinLimit == Cardinality(Cached) <= MaxEntries

\* Whatever interleaving of loads, writes and refreshes put a stale entry into
\* the cache, its modification time gives it away: the next refresh does not
\* take it for current (load calls Stat before ReadFile, and so does refreshAll).
StaleIsDetectable ==
  \A p \in Cached : entries[p].data # disk[p].ver => entries[p].modTime # disk[p].ver

\* A path enters the cache only because somebody reads it: refreshAll does not
\* bring back what Invalidate, eviction or expiry removed while it was reading.
OnlyReadsInsert ==
  [][\A p \in Paths : p \notin Cached /\ p \in Cached' =>
       \E r \in Readers : rpc[r] = "insert" /\ rpath[r] = p /\ rpc'[r] = "idle"]_cacheVars

\* Once files no longer change, the cache ends up with their contents and stays
\* so, unless the refresh loop was stopped.
EventuallyFresh ==
  <>[](stopped \/ \A p \in Cached : entries[p].data = disk[p].ver)
=============================================================================
