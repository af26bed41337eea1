------------------------------ MODULE Sidecar -------------------------------
(***************************************************************************)
(* A capture on disk is two files: the snapshot and, beside it, the source *)
(* ledger that says what the snapshot does not cover.  They are written    *)
(* one after the other by several programs without a lock, and read back   *)
(* by sources.load_source one after the other.                             *)
(*                                                                         *)
(*   - "terraform": gcp-ground capture-terraform (estate.write_capture),   *)
(*     the snapshot, then the ledger through a temp file and os.replace,   *)
(*     then an optional move to --origins-out; never above partial scope   *)
(*   - "reconciled": sources.write_reconciled, the same two writers over a *)
(*     ledger that may say complete                                        *)
(*   - "api": fetch.main, the snapshot alone                               *)
(*                                                                         *)
(* The snapshot is written in place, so it can be seen torn; a torn file   *)
(* is not JSON.  Any step may be the last one of its process.              *)
(***************************************************************************)
EXTENDS Naturals, FiniteSets

CONSTANTS Writers,      \* processes that may capture to the path
          MaxBegun      \* bound on the captures begun

CONSTANTS Absent,       \* no file at that path
          Broken        \* a file no reader can parse

\* A snapshot with an estate record table, or the vocabulary-only shape.
Captures ==
  [id : 1..MaxBegun, kind : {"terraform", "reconciled", "api"},
   has_estate_table : BOOLEAN]

ASSUME SidecarAssumption ==
  MaxBegun \in Nat /\ {Absent, Broken} \cap Captures = {} /\ Absent # Broken

\* The coverage the capture's own ledger declares.
LedgerScope(c) == IF c.kind = "reconciled" THEN "complete" ELSE "partial"

VARIABLES file,       \* the file at the snapshot path
          derived,    \* the sidecar path origins_path derives from it
          elsewhere,  \* the path --origins-out and --origins name
          temps,      \* writers whose .origins-*.tmp file exists
          writer,     \* per writer: program counter, capture, --origins-out?
          reader,     \* the one load_source call under way, or its result
          begun,      \* captures begun so far
          alone,      \* ghost: the last capture ran alone to its end
          touched,    \* ghost: the sidecar was lost or damaged since it began
          crashed     \* writers that died with a temp file on disk

files == <<file, derived, elsewhere>>
storeVars == <<file, derived, elsewhere, temps, writer, reader, begun, alone,
               touched, crashed>>

Idle == [pc |-> "idle"]
Busy(w) == writer[w].pc # "idle"

-----------------------------------------------------------------------------
(* The writers.                                                            *)

\* A process that died with a temp file on disk does not come back.
BeginCapture(w, kind, table, moves) ==
  /\ ~Busy(w) /\ w \notin crashed
  /\ begun < MaxBegun
  /\ kind = "terraform" \/ ~moves
  /\ begun' = begun + 1
  /\ writer' = [writer EXCEPT ![w] =
       [pc |-> "open", moves |-> moves,
        capture |-> [id |-> begun + 1, kind |-> kind, has_estate_table |-> table]]]
  /\ alone' = \A v \in Writers : ~Busy(v)
  /\ touched' = FALSE
  /\ reader' = [reader EXCEPT !.calm = FALSE]
  /\ UNCHANGED <<files, temps, crashed>>

Goto(w, pc) == writer' = [writer EXCEPT ![w].pc = pc]
Finished(w) == writer' = [writer EXCEPT ![w] = Idle]

\* open(path, "w") truncates what was there.
OpenSnapshot(w) ==
  /\ writer[w].pc = "open"
  /\ file' = Broken
  /\ Goto(w, "write")
  /\ UNCHANGED <<derived, elsewhere, temps, reader, begun, alone, touched, crashed>>

\* The bytes land.  If another process's snapshot landed after this one was
\* opened, the two overlap and what is left may be neither.
WriteSnapshot(w) ==
  /\ writer[w].pc = "write"
  /\ file' \in IF file = Broken THEN {writer[w].capture}
                                        ELSE {writer[w].capture, Broken}
  /\ IF writer[w].capture.kind = "api" THEN Finished(w) ELSE Goto(w, "temp")
  /\ UNCHANGED <<derived, elsewhere, temps, reader, begun, alone, touched, crashed>>

\* SourceLedger.write: mkstemp in the same directory, filled there.
MakeTemp(w) ==
  /\ writer[w].pc = "temp"
  /\ temps' = temps \cup {w}
  /\ Goto(w, "replace")
  /\ UNCHANGED <<files, reader, begun, alone, touched, crashed>>

\* Mutant: --origins-out is handed to the writer, so a moved ledger never
\* passes through the derived path and an old one stays there.
ReplaceSidecarDirectly(w) ==
  /\ writer[w].pc = "replace"
  /\ IF writer[w].moves
     THEN elsewhere' = writer[w].capture /\ UNCHANGED derived
     ELSE derived' = writer[w].capture /\ UNCHANGED elsewhere
  /\ temps' = temps \ {w}
  /\ Finished(w)
  /\ UNCHANGED <<file, reader, begun, alone, touched, crashed>>

\* os.replace(temp, path): the sidecar appears whole.
ReplaceSidecar(w) ==
  /\ writer[w].pc = "replace"
  /\ derived' = writer[w].capture
  /\ temps' = temps \ {w}
  /\ IF writer[w].moves THEN Goto(w, "place") ELSE Finished(w)
  /\ UNCHANGED <<file, elsewhere, reader, begun, alone, touched, crashed>>

\* _place_sidecar: whatever is at the derived path now moves; if nothing is,
\* os.replace raises and the command ends with a usage error.
PlaceSidecar(w) ==
  /\ writer[w].pc = "place"
  /\ IF derived = Absent
     THEN /\ alone' = FALSE
          /\ UNCHANGED files
     ELSE /\ elsewhere' = derived
          /\ derived' = Absent
          /\ UNCHANGED <<file, alone>>
  /\ Finished(w)
  /\ UNCHANGED <<temps, reader, begun, touched, crashed>>

\* A step raises (a full disk, a lost directory): the ledger writer removes
\* its temp file and re-raises, and the rest is left as it is.
Abort(w) ==
  /\ Busy(w)
  /\ Finished(w)
  /\ temps' = temps \ {w}
  /\ alone' = FALSE
  /\ UNCHANGED <<files, reader, begun, touched, crashed>>

\* The process dies: nothing is cleaned up.
Crash(w) ==
  /\ Busy(w)
  /\ Finished(w)
  /\ alone' = FALSE
  /\ crashed' = IF w \in temps THEN crashed \cup {w} ELSE crashed
  /\ UNCHANGED <<files, temps, reader, begun, touched>>

\* Outside the program: a sidecar is not copied along, or is damaged.
LoseSidecar ==
  /\ derived # Absent
  /\ derived' = Absent
  /\ touched' = TRUE
  /\ UNCHANGED <<file, elsewhere, temps, writer, reader, begun, alone, crashed>>

DamageSidecar ==
  /\ derived \notin {Absent, Broken}
  /\ derived' = Broken
  /\ touched' = TRUE
  /\ UNCHANGED <<file, elsewhere, temps, writer, reader, begun, alone, crashed>>

-----------------------------------------------------------------------------
(* The reader: sources.load_source.                                        *)

NoReader ==
  [pc |-> "idle", origins |-> FALSE, completeness |-> "", snap |-> Absent,
   exists |-> FALSE, ledger |-> Absent, scope |-> "", broken |-> FALSE,
   calm |-> FALSE]

\* origins: an explicit sidecar path was configured; completeness: the
\* operator declared one.
StartRead(origins, completeness) ==
  /\ reader.pc \in {"idle", "done"}
  /\ reader' = [NoReader EXCEPT
                  !.pc = "snapshot", !.origins = origins,
                  !.completeness = completeness,
                  !.calm = alone /\ ~origins /\ \A w \in Writers : ~Busy(w)]
  /\ UNCHANGED <<files, temps, writer, begun, alone, touched, crashed>>

Reads(changes) ==
  /\ reader' = changes
  /\ UNCHANGED <<files, temps, writer, begun, alone, touched, crashed>>

\* A snapshot that does not load is one state:source verdict and nothing else.
LoadSnapshot ==
  /\ reader.pc = "snapshot"
  /\ Reads(IF file \in {Absent, Broken}
          THEN [reader EXCEPT !.pc = "done"]
          ELSE [reader EXCEPT !.pc = "exists", !.snap = file])

\* Whether the derived path exists is asked once, before either is opened.
FindDerived ==
  /\ reader.pc = "exists"
  /\ Reads([reader EXCEPT !.exists = derived # Absent,
              !.pc = IF reader.origins THEN "origins" ELSE "derived"])

Loaded(c) == [reader EXCEPT !.ledger = c, !.scope = LedgerScope(c), !.pc = "done"]

\* The explicit path first; a ledger that does not load is a note, and the
\* next candidate is tried.
LoadOrigins ==
  /\ reader.pc = "origins"
  /\ Reads(IF elsewhere \in {Absent, Broken}
          THEN [reader EXCEPT !.pc = "derived"]
          ELSE Loaded(elsewhere))

LoadDerived ==
  /\ reader.pc = "derived"
  /\ Reads(IF ~reader.exists THEN [reader EXCEPT !.pc = "fallback"]
          ELSE IF derived \in {Absent, Broken}
               THEN [reader EXCEPT !.pc = "fallback", !.broken = TRUE]
          ELSE Loaded(derived))

\* Mutant: any snapshot without a ledger keeps the legacy default.
default_completeness_legacy(c) == "complete"

\* The scope of a snapshot with no ledger, chosen by its shape.
default_completeness(c) ==
  IF c.has_estate_table THEN "undeclared" ELSE "complete"

Fallback ==
  /\ reader.pc = "fallback"
  /\ Reads([reader EXCEPT !.pc = "done",
             !.scope = IF reader.completeness # "" THEN reader.completeness
                       ELSE default_completeness(reader.snap)])

-----------------------------------------------------------------------------

StoreInit ==
  /\ file = Absent /\ derived = Absent /\ elsewhere = Absent
  /\ temps = {} /\ crashed = {}
  /\ writer = [w \in Writers |-> Idle]
  /\ reader = NoReader
  /\ begun = 0
  /\ alone = TRUE /\ touched = FALSE

Write(w) ==
  \/ \E kind \in {"terraform", "reconciled", "api"}, table, moves \in BOOLEAN :
       BeginCapture(w, kind, table, moves)
  \/ OpenSnapshot(w)
  \/ WriteSnapshot(w)
  \/ MakeTemp(w)
  \/ ReplaceSidecar(w)
  \/ PlaceSidecar(w)
  \/ Abort(w)
  \/ Crash(w)

LoadSource ==
  \/ \E origins \in BOOLEAN, completeness \in {"", "complete"} :
       StartRead(origins, completeness)
  \/ LoadSnapshot
  \/ FindDerived
  \/ LoadOrigins
  \/ LoadDerived
  \/ Fallback

StoreNext ==
  \/ \E w \in Writers : Write(w)
  \/ LoadSource
  \/ LoseSidecar
  \/ DamageSidecar

StoreSpec == StoreInit /\ [][StoreNext]_storeVars

-----------------------------------------------------------------------------
(* Properties.                                                             *)

\* After a capture that writes both files and ran alone, start to end, whatever
\* captures crashed, failed or overlapped before it, the two files on disk are
\* its own: its ledger is beside its snapshot, or where --origins-out sent it
\* with nothing stale left beside the snapshot.  (A cloud fetch writes no
\* ledger: what lay beside the snapshot it replaces stays.)
SettledPairMatches ==
  (/\ alone /\ ~touched /\ \A w \in Writers : ~Busy(w)
   /\ file \in Captures /\ file.kind # "api") =>
    file = derived \/ (file = elsewhere /\ derived = Absent)

\* A lost or damaged sidecar never lends coverage: reading the estate table
\* that such a capture left, beside the snapshot and with nothing said on the
\* command line, gives the coverage that capture's own ledger declares, or
\* "undeclared", whatever becomes of the sidecar between any two steps of the
\* reader and whatever the captures before left at its path.
OwnClaimOrNone ==
  (/\ reader.pc = "done" /\ reader.calm /\ reader.completeness = ""
   /\ reader.snap \in Captures
   /\ reader.snap.has_estate_table /\ reader.snap.kind # "api") =>
    reader.scope \in {LedgerScope(reader.snap), "undeclared"}
=============================================================================
