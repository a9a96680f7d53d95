------------------------------ MODULE BlackBox ------------------------------
(***************************************************************************)
(* 3.tools/8.blackbox/blackbox.c: a ring of log entries that is written to *)
(* a file as a whole after each entry and read back when the program       *)
(* starts.  The file is emptied by fopen and filled by two writes, the     *)
(* whole pages of the struct and, at fclose, its rest; the program may be  *)
(* killed between any two of these steps.  An entry is its number.         *)
(***************************************************************************)
EXTENDS Integers, Sequences

CONSTANTS MAX_LOG_COUNT,
          Flushed,          (* the entries that lie in the whole pages      *)
          Unknown,          (* what memory holds before it is written       *)
          MaxLogged         (* bound: how many entries are logged           *)

ASSUME BlackBoxAssumption ==
    /\ MAX_LOG_COUNT \in Nat \ {0}
    /\ Flushed \in 0..MAX_LOG_COUNT
    /\ MaxLogged \in Nat
    /\ Unknown \notin Nat

VARIABLES start, count, logs,   (* the struct BlackBox in memory            *)
          written,              (* the struct as it was last written        *)
          held,                 (* how many of its entries the file holds,
                                   Nothing without its start and count      *)
          step,                 (* down, idle, or where the save is: open,
                                   write, close                             *)
          unsaved,              (* history: the last save or load failed    *)
          logged                (* history: how many entries were logged    *)

boxVars == <<start, count, logs, written, held, step, unsaved, logged>>

Places == 0..(MAX_LOG_COUNT - 1)
Garbage == [p \in Places |-> Unknown]
Fresh == [start |-> 0, count |-> 0, logs |-> Garbage]
Nothing == -1
Box == [start |-> start, count |-> count, logs |-> logs]

\* Before main: no file of an earlier run.
BoxInit ==
    /\ start = 0 /\ count = 0 /\ logs = Garbage
    /\ written = Fresh /\ held = Nothing
    /\ step = "down" /\ unsaved = FALSE /\ logged = 0

-----------------------------------------------------------------------------
\* fread of what the file holds into a struct whose start and count are 0 and
\* whose entries were never written.
Read ==
    IF held = Nothing THEN Fresh
    ELSE [written EXCEPT !.logs = [p \in Places |-> IF p < held THEN written.logs[p] ELSE Unknown]]

\* blackbox_init, lines 13-18, and blackbox_load_from_file, lines 46-53, which
\* says nothing when the file cannot be opened.
blackbox_init ==
    /\ step = "down" /\ step' = "idle"
    /\ \/ start' = Read.start /\ count' = Read.count /\ logs' = Read.logs /\ unsaved' = FALSE
       \/ start' = 0 /\ count' = 0 /\ logs' = Garbage /\ unsaved' = TRUE
    /\ UNCHANGED <<written, held, logged>>

\* Mutant: the place is computed after start and count have moved.
LogAfterMove ==
    /\ step = "idle" /\ logged < MaxLogged
    /\ IF count = MAX_LOG_COUNT
         THEN start' = (start + 1) % MAX_LOG_COUNT /\ UNCHANGED count
         ELSE count' = count + 1 /\ UNCHANGED start
    /\ logs' = [logs EXCEPT ![(start' + count') % MAX_LOG_COUNT] = logged + 1]
    /\ logged' = logged + 1
    /\ step' = "open"
    /\ UNCHANGED <<written, held, unsaved>>

\* blackbox_log, lines 20-35: the oldest entry makes room when the ring is full.
blackbox_log ==
    /\ step = "idle" /\ logged < MaxLogged
    /\ IF count = MAX_LOG_COUNT
         THEN start' = (start + 1) % MAX_LOG_COUNT /\ UNCHANGED count
         ELSE count' = count + 1 /\ UNCHANGED start
    /\ logs' = [logs EXCEPT ![(start + count) % MAX_LOG_COUNT] = logged + 1]
    /\ logged' = logged + 1
    /\ step' = "open"
    /\ UNCHANGED <<written, held, unsaved>>

\* blackbox_save_to_file, lines 37-44: fopen(..., "wb") empties the file or
\* fails, and then nothing is written.
SaveOpen ==
    /\ step = "open"
    /\ \/ held' = Nothing /\ step' = "write" /\ UNCHANGED unsaved
       \/ step' = "idle" /\ unsaved' = TRUE /\ UNCHANGED held
    /\ UNCHANGED <<start, count, logs, written, logged>>

\* fwrite writes the whole pages at once and keeps the rest in its buffer.  Its
\* result is not looked at, nor is that of fclose; a full disk keeps some of it.
SaveWrite ==
    /\ step = "write"
    /\ written' = Box
    /\ \/ held' = Flushed /\ step' = "close" /\ UNCHANGED unsaved
       \/ held' \in {Nothing} \cup 0..(Flushed - 1) /\ step' = "idle" /\ unsaved' = TRUE
    /\ UNCHANGED <<start, count, logs, logged>>

SaveClose ==
    /\ step = "close" /\ step' = "idle"
    /\ \/ held' = MAX_LOG_COUNT /\ unsaved' = FALSE
       \/ held' \in Flushed..(MAX_LOG_COUNT - 1) /\ unsaved' = TRUE
    /\ UNCHANGED <<start, count, logs, written, logged>>

\* Mutant: the file stays when the log is cleared.
ClearInMemoryOnly ==
    /\ step = "idle"
    /\ start' = 0 /\ count' = 0
    /\ unsaved' = FALSE
    /\ UNCHANGED <<logs, written, held, step, logged>>

\* blackbox_clear, lines 92-97: remove may fail.
blackbox_clear ==
    /\ step = "idle"
    /\ start' = 0 /\ count' = 0
    /\ \/ held' = Nothing /\ unsaved' = FALSE
       \/ unsaved' = TRUE /\ UNCHANGED held
    /\ UNCHANGED <<logs, written, step, logged>>

\* main returns, or is killed wherever it is.
Stop ==
    /\ step # "down" /\ step' = "down"
    /\ start' = 0 /\ count' = 0 /\ logs' = Garbage
    /\ UNCHANGED <<written, held, unsaved, logged>>

BoxNext ==
    \/ blackbox_init \/ blackbox_log \/ SaveOpen \/ SaveWrite \/ SaveClose
    \/ blackbox_clear \/ Stop

BoxSpec == BoxInit /\ [][BoxNext]_boxVars
-----------------------------------------------------------------------------
BoxStruct == [start : Places, count : 0..MAX_LOG_COUNT, logs : [Places -> Nat \cup {Unknown}]]

\* The variables keep their types; in particular no index leaves the ring.
BoxTypeOK ==
    /\ Box \in BoxStruct /\ written \in BoxStruct
    /\ held \in {Nothing} \cup 0..MAX_LOG_COUNT
    /\ step \in {"down", "idle", "open", "write", "close"}
    /\ unsaved \in BOOLEAN /\ logged \in Nat

\* What blackbox_export (lines 75-90) prints of a struct, the oldest first.
Exported(box) ==
    [k \in 1..box.count |-> box.logs[(box.start + k - 1) % MAX_LOG_COUNT]]

\* "auto-save after logging" (line 34): when a call has returned, a program that
\* starts now reads exactly the entries this one would export, as long as no
\* call of stdio has failed; through any number of restarts and of torn files.
SavedWhenIdle ==
    step = "idle" /\ ~unsaved => Exported(Read) = Exported(Box)

\* Between fwrite and fclose the struct does not change under the save.
SaveInv == step = "close" => written = Box /\ held = Flushed

BoxIInv == BoxTypeOK /\ SaveInv /\ SavedWhenIdle

\* What is exported is always the newest entries in order ("overwrite oldest",
\* line 24), also after a restart in the middle of a save, except for those that
\* the torn file did not hold.
Log == INSTANCE BoundedLog WITH
    Capacity <- MAX_LOG_COUNT,
    Entries  <- 1..MaxLogged,
    entries  <- Exported(Box),
    durable  <- Exported(Read)

ImplementsBoundedLog == Log!LogSpec
=============================================================================
