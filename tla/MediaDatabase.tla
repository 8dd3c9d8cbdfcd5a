--------------------------- MODULE MediaDatabase ---------------------------
(***************************************************************************)
(* The persistent id store of src/media_database.cpp, as operators on a    *)
(* database value.  A value db of one MediaDatabase object has the fields  *)
(*   recs     the id of every record, by canonical key (m_records)         *)
(*   errs     the keys whose record carries a scan error                   *)
(*   touched  the keys visited in this pass (m_touchedThisPass)            *)
(*   nextId   the next fresh id (m_nextId)                                 *)
(*   freed    the ids of pruned records (m_freedIds)                       *)
(* and the file media-cache.tsv has the fields recs and errs.  An operator *)
(* whose result the code leaves open (the order in which an unordered_map  *)
(* is pruned) yields the set of the possible results.                      *)
(***************************************************************************)
EXTENDS Integers

CONSTANTS Base,    \* kPersistentMediaIdBase
          IdMax,   \* the largest int
          IdMin    \* the smallest int, where a signed increment wraps to

ASSUME IdAssumption ==
  /\ Base \in Int /\ IdMax \in Int /\ IdMin \in Int
  /\ IdMin < 0 /\ 0 < Base /\ Base < IdMax

NoRecords == [k \in {} |-> Base]
EmptyFile == [recs |-> NoRecords, errs |-> {}]

NewDb == [recs |-> NoRecords, errs |-> {}, touched |-> {}, nextId |-> Base, freed |-> {}]

-----------------------------------------------------------------------------
(* Load: records below the base are dropped, and the counter restarts one  *)
(* above the largest id read.  Adding one to the largest int wraps.        *)

Keeping(f, S) == [k \in DOMAIN f \cap S |-> f[k]]

Loadable(file) == {k \in DOMAIN file.recs : Base <= file.recs[k]}

IsNextAfter(recs, n) ==
  /\ \A k \in DOMAIN recs : recs[k] < n
  /\ n # Base => \E k \in DOMAIN recs : recs[k] = n - 1

Wrapped(n) == IF n > IdMax THEN IdMin ELSE n

Load(file) ==
  LET recs == Keeping(file.recs, Loadable(file))
  IN  {[recs    |-> recs,
        errs    |-> file.errs \cap Loadable(file),
        touched |-> {},
        nextId  |-> Wrapped(n),
        freed   |-> {}] : n \in {m \in Base .. (IdMax + 1) : IsNextAfter(recs, m)}}

BeginScanPass(db) ==
  [recs |-> db.recs, errs |-> db.errs, touched |-> {}, nextId |-> db.nextId, freed |-> db.freed]

-----------------------------------------------------------------------------
(* GetOrCreateStableIdLocked: the ids it may return for a key, and the     *)
(* database it leaves when it returns id.                                  *)

Known(db, key) == key \in DOMAIN db.recs

(* fault: every call hands out a fresh id *)
StableIdsFresh(db, key) == {db.nextId}

StableIds(db, key) ==
  CASE Known(db, key)                      -> {db.recs[key]}
    [] ~Known(db, key) /\ db.freed # {}    -> db.freed
    [] ~Known(db, key) /\ db.freed = {}    -> {db.nextId}

TakesFresh(db, key) == ~Known(db, key) /\ db.freed = {}

NextIdAfter(db, key) ==
  IF TakesFresh(db, key)
    THEN IF db.nextId = IdMax THEN Base ELSE db.nextId + 1
    ELSE db.nextId

WithRecord(recs, key, id) ==
  [k \in DOMAIN recs \cup {key} |-> IF k = key THEN id ELSE recs[k]]

(* fault: a record that is already there is not marked as touched *)
GetTouchesNew(db, key, id) ==
  [recs    |-> WithRecord(db.recs, key, id),
   errs    |-> db.errs,
   touched |-> IF Known(db, key) THEN db.touched ELSE db.touched \cup {key},
   nextId  |-> NextIdAfter(db, key),
   freed   |-> IF Known(db, key) THEN db.freed ELSE db.freed \ {id}]

GetOrCreate(db, key, id) ==
  [recs    |-> WithRecord(db.recs, key, id),
   errs    |-> db.errs,
   touched |-> db.touched \cup {key},
   nextId  |-> NextIdAfter(db, key),
   freed   |-> IF Known(db, key) THEN db.freed ELSE db.freed \ {id}]

(* The id space is spent when the counter hands out the largest int, or is *)
(* found past it.                                                          *)
Spends(db, key) == TakesFresh(db, key) /\ (db.nextId = IdMax \/ db.nextId < Base)

RecordScanError(db, key, id) ==
  LET got == GetOrCreate(db, key, id)
  IN  [recs |-> got.recs, errs |-> got.errs \cup {key}, touched |-> got.touched,
       nextId |-> got.nextId, freed |-> got.freed]

MarkScanSuccess(db, key) ==
  [recs |-> db.recs, errs |-> db.errs \ {key}, touched |-> db.touched,
   nextId |-> db.nextId, freed |-> db.freed]

-----------------------------------------------------------------------------
Untouched(db) == DOMAIN db.recs \ db.touched

PruneUntouched(db) ==
  [recs    |-> Keeping(db.recs, db.touched),
   errs    |-> db.errs \cap db.touched,
   touched |-> db.touched,
   nextId  |-> db.nextId,
   freed   |-> db.freed \cup {db.recs[k] : k \in Untouched(db)}]

(* Save writes the records in the order of their ids to a temporary file   *)
(* and renames it over the old one.  It looks at what fwrite returns, but  *)
(* not at fclose: on a full disk the last block can be missing from a file *)
(* that replaces the old one.                                              *)
FileOf(db) == [recs |-> db.recs, errs |-> db.errs]

Below(db, id) == {k \in DOMAIN db.recs : db.recs[k] < id}

FileBelow(db, id) == [recs |-> Keeping(db.recs, Below(db, id)), errs |-> db.errs \cap Below(db, id)]

-----------------------------------------------------------------------------
(* Two records never share an id. *)
Injective(recs) == \A j, k \in DOMAIN recs : recs[j] = recs[k] => j = k

=============================================================================
