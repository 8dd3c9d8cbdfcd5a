------------------------ MODULE MediaCatalogHistory ------------------------
(***************************************************************************)
(* The catalog with history variables that watch it, and the properties    *)
(* that relate what a scan leaves behind to what the world was during it.  *)
(***************************************************************************)
EXTENDS MediaCatalog

CONSTANT MaxCrashes   \* bound: no crash beyond these, and each leaves one generation less

ASSUME CrashAssumption == MaxCrashes \in Nat

VARIABLES
  crashes,  \* the crashes so far
  steady,   \* nodes visible ever since the running scan began
  absent,   \* nodes removed ever since it began
  held,     \* <<node, id>> that a client could resolve at the last reset, by a
            \* saved id, and whose node has been visible ever since
  overlap,  \* the last reset came in the middle of a scan
  fresh,    \* the scan began with a reset of its own, taken when no other ran
  clean,    \* there was no reset since it began
  skipped   \* it has discarded work because it was cancelled

hist  == <<crashes, steady, absent, held, overlap, fresh, clean, skipped>>
hvars == <<vars, hist>>

(* A scan shows no playlist that has no entries. *)
Visible == {n \in Reachable : Kind[n] = "playlist" => \E c \in Reachable : Parent[c] = n}

Absent == {n \in Node : Path[n] \cap gone # {}}

(* GetItem(id) answers with node n. *)
Resolves(n, id) == id \in DOMAIN idx /\ items[idx[id]].node = n

RecordKey(it) == IF it.folder THEN ContainerKey(it.node, it.parent)
                              ELSE MediaKey(it.node, it.parent)

Saved(it) == RecordKey(it) \in DOMAIN file.recs /\ file.recs[RecordKey(it)] = it.id

Holdable == {<<items[idx[i]].node, i>> :
               i \in {j \in DOMAIN idx : items[idx[j]].node \in Visible /\ Saved(items[idx[j]])}}

Begins  == pc = "idle" /\ pc' = "open"
Ended   == pc' = "idle"
Resets  == gen' > gen
Crashes == gen' < gen

HistoryInit ==
  /\ crashes = 0
  /\ steady = {} /\ absent = {} /\ held = {}
  /\ overlap = FALSE /\ fresh = FALSE /\ clean = TRUE /\ skipped = FALSE

HistoryStep ==
  /\ Crashes => crashes < MaxCrashes
  /\ Resets => gen + crashes < MaxGen
  /\ crashes' = crashes + IF Crashes THEN 1 ELSE 0
  /\ steady' = IF Begins THEN Visible' ELSE IF Ended THEN {} ELSE steady \cap Visible'
  /\ absent' = IF Begins THEN Absent' ELSE IF Ended THEN {} ELSE absent \cap Absent'
  /\ held' = {h \in IF Resets THEN Holdable ELSE IF Crashes THEN {} ELSE held :
                h[1] \in Visible'}
  /\ overlap' = IF Resets THEN pc # "idle" ELSE (overlap /\ ~Crashes)
  /\ fresh' = IF Begins THEN pending # "no" /\ ~overlap ELSE fresh /\ ~Ended
  /\ clean' = (Begins \/ Ended \/ (clean /\ ~Resets))
  /\ skipped' = (~Begins /\ ~Ended /\ (skipped \/ \E s \in Sources : Discard(s)))

HInit == Init /\ HistoryInit
HNext == Next /\ HistoryStep
HSpec == HInit /\ [][HNext]_hvars

(* What a client may have kept from before the last reset - an id that was *)
(* saved, of a node that never went away - resolves to that node at every  *)
(* moment of the scan that follows, and after it, unless the reset came in *)
(* the middle of another scan (ResetForRescan keeps the old copies, and    *)
(* PublishItem pushes the new one before the index leaves the old one).    *)
HeldResolves == ~overlap /\ ~spent => \A h \in held : Resolves(h[1], h[2])

(* Violated, the same without the exception: "SweepStaleEntries removes   *)
(* only items that truly were not republished after the scan fully         *)
(* completes".                                                             *)
RescanNeverHides == ~spent => \A h \in held : Resolves(h[1], h[2])

(* A scan with a reset of its own, and none since, leaves no item of a     *)
(* node that was gone all along - but the container of a playlist source,  *)
(* which Scan opens without a look at the playlist.                        *)
SweepDropsVanished ==
  [][Sweep /\ fresh /\ clean /\ ~spent =>
       \A n \in absent : (\E i \in DOMAIN idx' : Resolves(n, i)') => Kind[n] = "playlist" /\ n \in Sources]_hvars

(* Violated: an item that really disappeared leaves the catalog at the sweep. *)
VanishedLeavesAtSweep ==
  [][Sweep /\ clean /\ ~spent => \A n \in absent : (\E i \in DOMAIN idx' : Resolves(n, i)') =>
                                   Kind[n] = "playlist" /\ n \in Sources]_hvars

(* A scan with a reset of its own, and none since, finds every node that   *)
(* was there all along, and every container on the way to it.              *)
SweepFindsAll ==
  [][Sweep /\ fresh /\ clean /\ ~spent =>
       \A n \in steady :
         \E i \in DOMAIN idx' : /\ Resolves(n, i)'
                                /\ items'[idx'[i]].parent \in DOMAIN idx' \cup {0}]_hvars

(* The sweep after a rescan leaves exactly what is there: nothing that was *)
(* gone all along, everything that was there all along.                    *)
SweepIsExact == SweepDropsVanished /\ SweepFindsAll

(* Violated: the same of a scan the server starts by itself. *)
AutoScanFindsAll ==
  [][Sweep /\ clean /\ ~spent => \A n \in steady : \E i \in DOMAIN idx' : Resolves(n, i)']_hvars

(* A scan that no reset disturbed saves the id of every node that was      *)
(* there all along, under the id it had.                                   *)
SaveKeepsSteady ==
  [][PruneAndSave /\ clean /\ ~spent =>
       \A k \in DOMAIN file.recs :
         k[1] # "error" /\ k[3] \in steady => k \in DOMAIN file'.recs /\ file'.recs[k] = file.recs[k]]_hvars

(* Violated: "Scan cancelled before completion; media-cache.tsv left unmodified." *)
CancelledScanNeverSaves == [][file' # file => ~skipped]_hvars

=============================================================================
