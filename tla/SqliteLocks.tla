----------------------------- MODULE SqliteLocks -----------------------------
(***************************************************************************)
(* The locks the SQLite engine grants to the connections of one database  *)
(* file.  This is the environment the benchmark scripts drive, not code of *)
(* the repository: it is written from SQLite's documented locking rules    *)
(* (lockingv3 and wal), reduced to what decides whether a statement gets   *)
(* SQLITE_BUSY.  lk maps every connection to the level it holds; wal is    *)
(* TRUE when the database is in WAL journal mode (Plex's default) and      *)
(* FALSE for a rollback journal.                                           *)
(***************************************************************************)

Levels == {"none", "shared", "reserved", "pending", "exclusive"}

\* Levels held by the connections other than c.
HeldByOthers(lk, c) == {lk[o] : o \in DOMAIN lk \ {c}}

\* Reading needs a SHARED lock; a PENDING or EXCLUSIVE lock of another
\* connection refuses it.  In WAL mode readers are never refused.
CanShare(lk, c, wal) ==
    wal \/ HeldByOthers(lk, c) \cap {"pending", "exclusive"} = {}

\* Starting to write needs the RESERVED lock (in WAL mode, the write lock):
\* only one connection may hold a level at or above it.
CanReserve(lk, c) ==
    HeldByOthers(lk, c) \cap {"reserved", "pending", "exclusive"} = {}

\* Writing the file at COMMIT, or BEGIN EXCLUSIVE, needs the EXCLUSIVE lock:
\* with a rollback journal no other connection may hold any lock; in WAL
\* mode it is the write lock again and readers do not matter.
CanExclude(lk, c, wal) ==
    IF wal THEN CanReserve(lk, c)
           ELSE HeldByOthers(lk, c) \subseteq {"none"}

\* CREATE TABLE IF NOT EXISTS only reads the schema when the table exists,
\* and otherwise writes it in an autocommit transaction.
CanCreate(lk, c, wal, exists) ==
    IF exists THEN CanShare(lk, c, wal) ELSE CanExclude(lk, c, wal)

=============================================================================
