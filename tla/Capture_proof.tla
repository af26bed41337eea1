---------------------------- MODULE Capture_proof ----------------------------
(***************************************************************************)
(* Proofs about a capture: how it is read from the cloud (Fetch), whatever *)
(* moves meanwhile and whatever the hierarchy, and the two files it leaves *)
(* on disk (Sidecar), whatever number of writers and captures.             *)
(***************************************************************************)
EXTENDS Fetch, Sidecar, FiniteSetTheorems, SequenceTheorems, TLAPS

-----------------------------------------------------------------------------
(* The two files.                                                          *)

Files == Captures \cup {Absent, Broken}
Working == [pc : {"open", "write", "temp", "replace", "place"}, moves : BOOLEAN,
            capture : Captures]
Readers == [pc : {"idle", "done", "snapshot", "exists", "origins", "derived", "fallback"},
            origins : BOOLEAN, completeness : {"", "complete"},
            snap : Files, exists : BOOLEAN, ledger : Files,
            scope : {"", "complete", "partial", "undeclared"},
            broken : BOOLEAN, calm : BOOLEAN]

SidecarTypeOK ==
  /\ file \in Files /\ derived \in Files /\ elsewhere \in Files
  /\ temps \subseteq Writers /\ crashed \subseteq Writers
  /\ writer \in [Writers -> {Idle} \cup Working]
  /\ reader \in Readers
  /\ begun \in 0..MaxBegun
  /\ alone \in BOOLEAN /\ touched \in BOOLEAN

\* A capture that runs alone is the only one at work, and the files are as
\* far along as it is.
Undisturbed ==
  alone =>
    /\ \A v, w \in Writers : Busy(v) /\ Busy(w) => v = w
    /\ \A w \in Writers :
         /\ writer[w].pc = "write" => file = Broken
         /\ writer[w].pc \in {"temp", "replace", "place"} => file = writer[w].capture
         /\ writer[w].pc = "place" /\ ~touched => derived = writer[w].capture
         /\ writer[w].pc = "place" => derived \in {writer[w].capture, Absent, Broken}

\* Once such a capture is through, no other's ledger lies beside its snapshot.
NothingStale ==
  (alone /\ (\A w \in Writers : ~Busy(w)) /\ file \in Captures /\ file.kind # "api") =>
    derived \in {file, Absent, Broken}

\* A calm reader is at work between two captures, on the snapshot of the last.
CalmReader ==
  /\ reader.pc = "snapshot" => reader.snap = Absent
  /\ reader.calm =>
       /\ alone /\ \A w \in Writers : ~Busy(w)
       /\ reader.pc # "origins" /\ ~reader.origins
       /\ reader.pc \in {"exists", "derived", "fallback"} => reader.snap = file

SidecarInv ==
  /\ SidecarTypeOK /\ Undisturbed /\ NothingStale /\ SettledPairMatches
  /\ CalmReader /\ OwnClaimOrNone

LEMMA SidecarInit == StoreInit => SidecarInv
<1> SUFFICES ASSUME StoreInit PROVE SidecarInv
  OBVIOUS
<1>1. NoReader \in Readers
  BY DEF NoReader, Readers, Files
<1>2. SidecarTypeOK
  <2>1. MaxBegun \in Nat
    BY SidecarAssumption
  <2>2. begun \in 0..MaxBegun
    BY <2>1 DEF StoreInit
  <2>3. writer \in [Writers -> {Idle} \cup Working]
    BY DEF StoreInit
  <2>4. file \in Files /\ derived \in Files /\ elsewhere \in Files /\ reader \in Readers
    BY <1>1 DEF StoreInit, Files
  <2>5. temps \subseteq Writers /\ crashed \subseteq Writers
    BY DEF StoreInit
  <2>6. alone \in BOOLEAN /\ touched \in BOOLEAN
    BY DEF StoreInit
  <2> QED BY <2>2, <2>3, <2>4, <2>5, <2>6 DEF SidecarTypeOK
<1>3. Undisturbed
  BY DEF StoreInit, Undisturbed, Busy, Idle
<1>4. NothingStale /\ SettledPairMatches
  BY SidecarAssumption DEF StoreInit, NothingStale, SettledPairMatches
<1>5. CalmReader /\ OwnClaimOrNone
  BY DEF StoreInit, NoReader, CalmReader, OwnClaimOrNone
<1> QED BY <1>2, <1>3, <1>4, <1>5 DEF SidecarInv

\* What is known of a writer at work.
LEMMA AtWork ==
  ASSUME SidecarTypeOK, NEW w \in Writers, Busy(w)
  PROVE  writer[w] \in Working
BY DEF SidecarTypeOK, Busy, Idle

\* The files are left as they are by everyone but the writer whose turn it is;
\* nobody else is at work beside a capture that runs alone.
LEMMA OthersIdle ==
  ASSUME SidecarTypeOK, Undisturbed, alone, NEW w \in Writers, Busy(w), NEW v \in Writers,
         v # w
  PROVE  writer[v] = Idle
<1>1. ~Busy(v)
  BY DEF Undisturbed
<1> QED BY <1>1 DEF Busy, SidecarTypeOK, Working, Idle

\* A writer that goes on keeps its capture; one that ends is idle.
LEMMA GoesOn ==
  ASSUME SidecarTypeOK, NEW w \in Writers, Busy(w),
         NEW pc \in {"open", "write", "temp", "replace", "place"}, Goto(w, pc)
  PROVE  /\ writer' \in [Writers -> {Idle} \cup Working]
         /\ writer'[w].pc = pc /\ writer'[w].moves = writer[w].moves
         /\ writer'[w].capture = writer[w].capture
         /\ \A v \in Writers : v # w => writer'[v] = writer[v]
<1>1. writer[w] \in Working
  BY AtWork
<1>2. writer' = [writer EXCEPT ![w] = [writer[w] EXCEPT !.pc = pc]]
  BY DEF Goto
<1>3. [writer[w] EXCEPT !.pc = pc] \in Working
  BY <1>1 DEF Working
<1> QED BY <1>1, <1>2, <1>3 DEF SidecarTypeOK, Working

LEMMA Ends ==
  ASSUME SidecarTypeOK, NEW w \in Writers, Finished(w)
  PROVE  /\ writer' \in [Writers -> {Idle} \cup Working]
         /\ writer'[w] = Idle
         /\ \A v \in Writers : v # w => writer'[v] = writer[v]
BY DEF SidecarTypeOK, Finished

LEMMA CalmTyped ==
  ASSUME reader \in Readers
  PROVE  /\ [reader EXCEPT !.calm = FALSE] \in Readers
         /\ \A n \in {"pc", "completeness", "snap", "ledger", "scope"} :
              [reader EXCEPT !.calm = FALSE][n] = reader[n]
BY DEF Readers

LEMMA SidecarTypeStep ==
  ASSUME SidecarTypeOK, [StoreNext]_(storeVars)
  PROVE  SidecarTypeOK'
<1>0. /\ file \in Files /\ derived \in Files /\ elsewhere \in Files
      /\ Broken \in Files /\ Absent \in Files /\ Captures \subseteq Files
      /\ reader \in Readers /\ begun \in 0..MaxBegun /\ MaxBegun \in Nat
      /\ \A w \in Writers : Busy(w) => writer[w].capture \in Captures
  BY AtWork, SidecarAssumption DEF SidecarTypeOK, Files, Working
<1>1. ASSUME NEW w \in Writers, Write(w)
      PROVE  SidecarTypeOK'
  <2>1. ASSUME NEW kind \in {"terraform", "reconciled", "api"}, NEW table \in BOOLEAN,
               NEW moves \in BOOLEAN, BeginCapture(w, kind, table, moves)
        PROVE  SidecarTypeOK'
    <3> DEFINE c == [id |-> begun + 1, kind |-> kind, has_estate_table |-> table]
    <3>1. begun + 1 \in 1..MaxBegun /\ begun' = begun + 1
      BY <1>0, <2>1 DEF BeginCapture
    <3>2. [pc |-> "open", moves |-> moves, capture |-> c] \in Working
      BY <3>1 DEF Working, Captures
    <3>3. writer' \in [Writers -> {Idle} \cup Working]
      BY <2>1, <3>2 DEF BeginCapture, SidecarTypeOK
    <3>4. alone' \in BOOLEAN /\ touched' \in BOOLEAN /\ reader' \in Readers
      BY <1>0, <2>1, CalmTyped DEF BeginCapture
    <3> HIDE DEF c
    <3> QED BY <2>1, <3>1, <3>3, <3>4 DEF BeginCapture, files, SidecarTypeOK
  <2>2. CASE OpenSnapshot(w)
    BY <1>0, <2>2, GoesOn DEF OpenSnapshot, Busy, SidecarTypeOK
  <2>3. CASE WriteSnapshot(w)
    <3>1. Busy(w)
      BY <2>3 DEF WriteSnapshot, Busy
    <3>2. writer' \in [Writers -> {Idle} \cup Working]
      BY <2>3, <3>1, GoesOn, Ends DEF WriteSnapshot
    <3>3. file' \in Files
      BY <1>0, <2>3, <3>1 DEF WriteSnapshot
    <3> QED BY <2>3, <3>2, <3>3 DEF WriteSnapshot, SidecarTypeOK
  <2>4. CASE MakeTemp(w)
    BY <1>0, <2>4, GoesOn DEF MakeTemp, Busy, files, SidecarTypeOK
  <2>5. CASE ReplaceSidecar(w)
    <3>1. Busy(w)
      BY <2>5 DEF ReplaceSidecar, Busy
    <3>2. writer' \in [Writers -> {Idle} \cup Working]
      BY <2>5, <3>1, GoesOn, Ends DEF ReplaceSidecar
    <3> QED BY <1>0, <2>5, <3>1, <3>2 DEF ReplaceSidecar, SidecarTypeOK
  <2>6. CASE PlaceSidecar(w)
    BY <1>0, <2>6, Ends DEF PlaceSidecar, files, SidecarTypeOK
  <2>7. CASE Abort(w)
    BY <1>0, <2>7, Ends DEF Abort, files, SidecarTypeOK
  <2>8. CASE Crash(w)
    BY <1>0, <2>8, Ends DEF Crash, files, SidecarTypeOK
  <2> QED BY <1>1, <2>1, <2>2, <2>3, <2>4, <2>5, <2>6, <2>7, <2>8 DEF Write
<1>2. CASE LoseSidecar \/ DamageSidecar
  BY <1>0, <1>2 DEF LoseSidecar, DamageSidecar, SidecarTypeOK
<1>3. CASE LoadSource
  <2>1. UNCHANGED <<file, derived, elsewhere, temps, writer, begun, alone, touched, crashed>>
    BY <1>3 DEF LoadSource, StartRead, LoadSnapshot, FindDerived, LoadOrigins,
                LoadDerived, Fallback, Reads, files
  <2>2. reader' \in Readers
    <3>1. ASSUME NEW origins \in BOOLEAN, NEW completeness \in {"", "complete"},
                 StartRead(origins, completeness)
          PROVE  reader' \in Readers
      BY <1>0, <3>1, ZenonT(40) DEF StartRead, NoReader, Readers, SidecarTypeOK
    <3>2. CASE LoadSnapshot
      BY <1>0, <3>2 DEF LoadSnapshot, Reads, Readers
    <3>3. CASE FindDerived
      BY <1>0, <3>3 DEF FindDerived, Reads, Readers
    <3>4. \A c : LedgerScope(c) \in {"complete", "partial"}
      BY DEF LedgerScope
    <3>5. \A c \in Files : Loaded(c) \in Readers
      BY <1>0, <3>4 DEF Loaded, Readers
    <3>6. CASE LoadOrigins
      BY <1>0, <3>5, <3>6 DEF LoadOrigins, Reads, Readers
    <3>7. CASE LoadDerived
      BY <1>0, <3>5, <3>7 DEF LoadDerived, Reads, Readers
    <3>8. CASE Fallback
      BY <1>0, <3>8 DEF Fallback, Reads, Readers, default_completeness
    <3> QED BY <1>3, <3>1, <3>2, <3>3, <3>6, <3>7, <3>8 DEF LoadSource
  <2> QED BY <2>1, <2>2 DEF SidecarTypeOK
<1>4. CASE UNCHANGED storeVars
  BY <1>4 DEF storeVars, SidecarTypeOK
<1> QED BY <1>1, <1>2, <1>3, <1>4 DEF StoreNext

\* Two files of one capture: what SettledPairMatches asks for.
Paired ==
  (file \in Captures /\ file.kind # "api") =>
    /\ ~touched => file = derived \/ (file = elsewhere /\ derived = Absent)
    /\ derived \in {file, Absent, Broken}

\* When the only writer at work ends its capture, or goes on with it, nothing
\* else is to be shown than what it leaves behind itself.
LEMMA LastOne ==
  ASSUME SidecarTypeOK, Undisturbed, NEW w \in Writers, Busy(w),
         \A v \in Writers : v # w => writer'[v] = writer[v],
         alone' => alone,
         alone' /\ ~Busy(w)' => Paired',
         alone' => /\ writer'[w].pc = "write" => file' = Broken
                   /\ writer'[w].pc \in {"temp", "replace", "place"}
                        => file' = writer'[w].capture
                   /\ writer'[w].pc = "place" =>
                        /\ ~touched' => derived' = writer'[w].capture
                        /\ derived' \in {writer'[w].capture, Absent, Broken}
  PROVE  Undisturbed' /\ NothingStale' /\ SettledPairMatches'
<1>1. CASE ~alone'
  BY <1>1 DEF Undisturbed, NothingStale, SettledPairMatches
<1>2. CASE alone'
  <2>1. \A v \in Writers : v # w => writer'[v] = Idle
    BY <1>2, OthersIdle
  <2>2. \A v \in Writers : Busy(v)' => v = w
    BY <2>1 DEF Busy, Idle
  <2>3. Undisturbed'
    BY <1>2, <2>1, <2>2 DEF Undisturbed, Idle
  <2>4. NothingStale' /\ SettledPairMatches'
    BY <1>2 DEF NothingStale, SettledPairMatches, Paired
  <2> QED BY <2>3, <2>4
<1> QED BY <1>1, <1>2

LEMMA FilesStep ==
  ASSUME SidecarTypeOK, Undisturbed, NothingStale, SettledPairMatches, [StoreNext]_(storeVars)
  PROVE  Undisturbed' /\ NothingStale' /\ SettledPairMatches'
<1>1. ASSUME NEW w \in Writers, Write(w)
      PROVE  Undisturbed' /\ NothingStale' /\ SettledPairMatches'
  <2>1. ASSUME NEW kind \in {"terraform", "reconciled", "api"}, NEW table \in BOOLEAN,
               NEW moves \in BOOLEAN, BeginCapture(w, kind, table, moves)
        PROVE  Undisturbed' /\ NothingStale' /\ SettledPairMatches'
    <3>1. writer'[w].pc = "open" /\ \A v \in Writers : v # w => writer'[v] = writer[v]
      BY <2>1 DEF BeginCapture, SidecarTypeOK
    <3>2. Busy(w)'
      BY <3>1 DEF Busy
    <3>3. alone' => \A v \in Writers : v # w => ~Busy(v)'
      BY <2>1, <3>1 DEF BeginCapture, Busy
    <3>4. alone' => \A v \in Writers : v # w => writer'[v].pc = "idle"
      BY <3>3 DEF Busy
    <3>5. Undisturbed'
      BY <3>1, <3>3, <3>4 DEF Undisturbed
    <3> QED BY <3>2, <3>5 DEF NothingStale, SettledPairMatches
  <2>2. CASE OpenSnapshot(w)
    <3>1. Busy(w)
      BY <2>2 DEF OpenSnapshot, Busy
    <3>2. /\ writer'[w].pc = "write" /\ file' = Broken /\ alone' = alone
          /\ \A v \in Writers : v # w => writer'[v] = writer[v]
      BY <2>2, <3>1, GoesOn DEF OpenSnapshot
    <3> QED BY <3>1, <3>2, LastOne DEF Busy
  <2>3. CASE WriteSnapshot(w)
    <3>1. Busy(w) /\ writer[w].pc = "write" /\ alone' = alone
      BY <2>3 DEF WriteSnapshot, Busy
    <3>2. alone => file' = writer[w].capture
      BY <2>3, <3>1 DEF WriteSnapshot, Undisturbed
    <3>3. writer[w].capture \in Captures
      BY <3>1, AtWork DEF Working
    <3>4. CASE writer[w].capture.kind = "api"
      <4>1. writer'[w] = Idle /\ \A v \in Writers : v # w => writer'[v] = writer[v]
        BY <2>3, <3>4, Ends DEF WriteSnapshot
      <4>2. alone => Paired'
        BY <3>2, <3>3, <3>4 DEF Paired
      <4> QED BY <3>1, <4>1, <4>2, LastOne DEF Idle
    <3>5. CASE writer[w].capture.kind # "api"
      <4>1. /\ writer'[w].pc = "temp" /\ writer'[w].capture = writer[w].capture
            /\ \A v \in Writers : v # w => writer'[v] = writer[v]
        BY <2>3, <3>1, <3>5, GoesOn DEF WriteSnapshot
      <4> QED BY <3>1, <3>2, <4>1, LastOne DEF Busy
    <3> QED BY <3>4, <3>5
  <2>4. CASE MakeTemp(w)
    <3>1. Busy(w) /\ writer[w].pc = "temp" /\ alone' = alone /\ UNCHANGED <<file, derived>>
      BY <2>4 DEF MakeTemp, Busy, files
    <3>2. /\ writer'[w].pc = "replace" /\ writer'[w].capture = writer[w].capture
          /\ \A v \in Writers : v # w => writer'[v] = writer[v]
      BY <2>4, <3>1, GoesOn DEF MakeTemp
    <3>3. alone => file = writer[w].capture
      BY <3>1 DEF Undisturbed
    <3> QED BY <3>1, <3>2, <3>3, LastOne DEF Busy
  <2>5. CASE ReplaceSidecar(w)
    <3>1. /\ Busy(w) /\ writer[w].pc = "replace" /\ alone' = alone
          /\ file' = file /\ derived' = writer[w].capture
      BY <2>5 DEF ReplaceSidecar, Busy
    <3>2. alone => file = writer[w].capture
      BY <3>1 DEF Undisturbed
    <3>3. CASE writer[w].moves
      <4>1. /\ writer'[w].pc = "place" /\ writer'[w].capture = writer[w].capture
            /\ \A v \in Writers : v # w => writer'[v] = writer[v]
        BY <2>5, <3>1, <3>3, GoesOn DEF ReplaceSidecar
      <4> QED BY <3>1, <3>2, <4>1, LastOne DEF Busy
    <3>4. CASE ~writer[w].moves
      <4>1. writer'[w] = Idle /\ \A v \in Writers : v # w => writer'[v] = writer[v]
        BY <2>5, <3>4, Ends DEF ReplaceSidecar
      <4>2. alone => Paired'
        BY <3>1, <3>2 DEF Paired
      <4> QED BY <3>1, <4>1, <4>2, LastOne DEF Idle
    <3> QED BY <3>3, <3>4
  <2>6. CASE PlaceSidecar(w)
    <3>1. Busy(w) /\ writer[w].pc = "place"
      BY <2>6 DEF PlaceSidecar, Busy
    <3>2. writer'[w] = Idle /\ \A v \in Writers : v # w => writer'[v] = writer[v]
      BY <2>6, Ends DEF PlaceSidecar
    <3>3. alone => /\ file = writer[w].capture
                   /\ ~touched => derived = writer[w].capture
      BY <3>1 DEF Undisturbed
    <3>4. alone' => alone /\ derived # Absent
      BY <2>6 DEF PlaceSidecar
    <3>5. touched' = touched
      BY <2>6 DEF PlaceSidecar
    <3>6. alone' => file' = file /\ elsewhere' = derived /\ derived' = Absent
      BY <2>6, <3>4 DEF PlaceSidecar, files
    <3>7. alone' => alone /\ Paired'
      BY <3>3, <3>4, <3>5, <3>6 DEF Paired
    <3> QED BY <3>1, <3>2, <3>7, LastOne DEF Idle
  <2>7. CASE Abort(w) \/ Crash(w)
    BY <2>7 DEF Abort, Crash, Undisturbed, NothingStale, SettledPairMatches
  <2> QED BY <1>1, <2>1, <2>2, <2>3, <2>4, <2>5, <2>6, <2>7 DEF Write
<1>2. CASE LoseSidecar \/ DamageSidecar
  <2>1. /\ UNCHANGED <<file, elsewhere, writer, alone>> /\ touched' = TRUE
        /\ derived' \in {Absent, Broken}
    BY <1>2 DEF LoseSidecar, DamageSidecar
  <2>2. \A w \in Writers : Busy(w)' = Busy(w)
    BY <2>1 DEF Busy
  <2> QED BY <2>1, <2>2 DEF Undisturbed, NothingStale, SettledPairMatches
<1>3. CASE LoadSource \/ UNCHANGED storeVars
  <2>1. UNCHANGED <<file, derived, elsewhere, writer, alone, touched>>
    BY <1>3 DEF LoadSource, StartRead, LoadSnapshot, FindDerived, LoadOrigins,
                LoadDerived, Fallback, Reads, files, storeVars
  <2>2. \A w \in Writers : Busy(w)' = Busy(w)
    BY <2>1 DEF Busy
  <2> QED BY <2>1, <2>2 DEF Undisturbed, NothingStale, SettledPairMatches
<1> QED BY <1>1, <1>2, <1>3 DEF StoreNext

\* What a calm reader does next, it does on the files of the last capture.
LEMMA ReaderStep ==
  ASSUME SidecarTypeOK, NothingStale, CalmReader, OwnClaimOrNone, LoadSource
  PROVE  CalmReader' /\ OwnClaimOrNone'
<1>0. reader \in Readers
  BY DEF SidecarTypeOK
<1>1. UNCHANGED <<file, derived, alone>> /\ \A w \in Writers : Busy(w)' = Busy(w)
  BY DEF LoadSource, StartRead, LoadSnapshot, FindDerived, LoadOrigins, LoadDerived,
         Fallback, Reads, files, Busy
<1>2. ASSUME NEW origins \in BOOLEAN, NEW completeness \in {"", "complete"},
             StartRead(origins, completeness)
      PROVE  CalmReader' /\ OwnClaimOrNone'
  <2>1. /\ reader'.pc = "snapshot" /\ reader'.snap = Absent
        /\ reader'.origins = origins
        /\ reader'.calm => alone /\ ~origins /\ \A w \in Writers : ~Busy(w)
    BY <1>2 DEF StartRead, NoReader
  <2> QED BY <1>1, <2>1 DEF CalmReader, OwnClaimOrNone
<1>3. CASE LoadSnapshot
  <2>1. CASE file \in {Absent, Broken}
    <3>1. /\ reader'.pc = "done" /\ reader'.snap = Absent
          /\ reader'.calm = reader.calm /\ reader'.origins = reader.origins
      BY <1>0, <1>3, <2>1 DEF LoadSnapshot, Reads, CalmReader, Readers
    <3>2. Absent \notin Captures
      BY SidecarAssumption
    <3> QED BY <1>1, <3>1, <3>2 DEF CalmReader, OwnClaimOrNone
  <2>2. CASE file \notin {Absent, Broken}
    <3>1. /\ reader'.pc = "exists" /\ reader'.snap = file
          /\ reader'.calm = reader.calm /\ reader'.origins = reader.origins
      BY <1>0, <1>3, <2>2 DEF LoadSnapshot, Reads, Readers
    <3> QED BY <1>1, <3>1 DEF CalmReader, OwnClaimOrNone
  <2> QED BY <2>1, <2>2
<1>4. CASE FindDerived
  <2>1. /\ reader'.pc = IF reader.origins THEN "origins" ELSE "derived"
        /\ reader'.snap = reader.snap /\ reader.pc = "exists"
        /\ reader'.calm = reader.calm /\ reader'.origins = reader.origins
    BY <1>0, <1>4 DEF FindDerived, Reads, Readers
  <2> QED BY <1>1, <2>1 DEF CalmReader, OwnClaimOrNone
<1>5. CASE LoadOrigins
  <2>1. ~reader.calm /\ reader.pc = "origins"
    BY <1>5 DEF LoadOrigins, CalmReader
  <2>2. ~reader'.calm /\ reader'.pc \in {"derived", "done"}
    BY <1>0, <1>5, <2>1 DEF LoadOrigins, Reads, Loaded, Readers
  <2> QED BY <2>2 DEF CalmReader, OwnClaimOrNone
<1>6. CASE LoadDerived
  <2>1. CASE ~reader.exists \/ derived \in {Absent, Broken}
    <3>1. /\ reader'.pc = "fallback" /\ reader'.snap = reader.snap
          /\ reader'.calm = reader.calm /\ reader'.origins = reader.origins
      BY <1>0, <1>6, <2>1 DEF LoadDerived, Reads, Readers
    <3> QED BY <1>1, <1>6, <3>1 DEF CalmReader, OwnClaimOrNone, LoadDerived
  <2>2. CASE reader.exists /\ derived \notin {Absent, Broken}
    <3>1. /\ reader'.pc = "done" /\ reader'.snap = reader.snap
          /\ reader'.calm = reader.calm /\ reader'.origins = reader.origins
          /\ reader'.scope = LedgerScope(derived) /\ reader.pc = "derived"
      BY <1>0, <1>6, <2>2 DEF LoadDerived, Reads, Loaded, Readers
    <3>2. CalmReader'
      BY <1>1, <3>1 DEF CalmReader
    <3>3. ASSUME reader'.calm, reader'.snap \in Captures, reader'.snap.kind # "api"
          PROVE  reader'.scope = LedgerScope(reader'.snap)
      <4>1. reader.snap = file /\ alone /\ \A w \in Writers : ~Busy(w)
        BY <3>1, <3>3 DEF CalmReader
      <4>2. derived = file
        BY <2>2, <3>1, <3>3, <4>1 DEF NothingStale
      <4> QED BY <3>1, <4>1, <4>2
    <3> QED BY <3>2, <3>3 DEF OwnClaimOrNone
  <2> QED BY <2>1, <2>2
<1>7. CASE Fallback
  <2>1. /\ reader'.pc = "done" /\ reader'.snap = reader.snap
        /\ reader'.calm = reader.calm /\ reader'.origins = reader.origins
        /\ reader'.completeness = reader.completeness
        /\ reader'.completeness = "" => reader'.scope = default_completeness(reader.snap)
    BY <1>0, <1>7 DEF Fallback, Reads, Readers
  <2> QED BY <1>1, <2>1 DEF CalmReader, OwnClaimOrNone, default_completeness
<1> QED BY <1>2, <1>3, <1>4, <1>5, <1>6, <1>7 DEF LoadSource

\* A writer that begins ends the reader's calm; while one is at work nobody
\* is calm; a lost sidecar is nothing the reader has relied on yet.
LEMMA ReaderStays ==
  ASSUME SidecarTypeOK, CalmReader, OwnClaimOrNone, [StoreNext]_(storeVars), ~LoadSource
  PROVE  CalmReader' /\ OwnClaimOrNone'
<1>0. reader \in Readers
  BY DEF SidecarTypeOK
<1>1. ASSUME NEW w \in Writers, NEW kind \in {"terraform", "reconciled", "api"},
             NEW table \in BOOLEAN, NEW moves \in BOOLEAN,
             BeginCapture(w, kind, table, moves)
      PROVE  CalmReader' /\ OwnClaimOrNone'
  <2>1. /\ reader'.pc = reader.pc /\ reader'.snap = reader.snap /\ ~reader'.calm
    BY <1>0, <1>1 DEF BeginCapture, Readers
  <2> QED BY <2>1 DEF CalmReader, OwnClaimOrNone
<1>2. ASSUME NEW w \in Writers,
             \/ OpenSnapshot(w) \/ WriteSnapshot(w) \/ MakeTemp(w) \/ ReplaceSidecar(w)
             \/ PlaceSidecar(w) \/ Abort(w) \/ Crash(w)
      PROVE  CalmReader' /\ OwnClaimOrNone'
  <2>1. Busy(w) /\ UNCHANGED reader
    BY <1>2 DEF OpenSnapshot, WriteSnapshot, MakeTemp, ReplaceSidecar, PlaceSidecar,
                Abort, Crash, Busy
  <2>2. ~reader.calm
    BY <2>1 DEF CalmReader
  <2> QED BY <2>1, <2>2 DEF CalmReader, OwnClaimOrNone
<1>3. CASE LoseSidecar \/ DamageSidecar \/ UNCHANGED storeVars
  <2>1. UNCHANGED <<file, writer, reader, alone>>
    BY <1>3 DEF LoseSidecar, DamageSidecar, storeVars
  <2>2. \A w \in Writers : Busy(w)' = Busy(w)
    BY <2>1 DEF Busy
  <2> QED BY <2>1, <2>2 DEF CalmReader, OwnClaimOrNone
<1> QED BY <1>1, <1>2, <1>3 DEF StoreNext, Write

LEMMA SidecarInductive == StoreSpec => []SidecarInv
<1>1. StoreInit => SidecarInv
  BY SidecarInit
<1>2. SidecarInv /\ [StoreNext]_(storeVars) => SidecarInv'
  BY SidecarTypeStep, FilesStep, ReaderStep, ReaderStays DEF SidecarInv
<1> QED BY <1>1, <1>2, PTL DEF StoreSpec

\* After a capture that writes both files and ran alone the two are its own,
\* whatever captures crashed, failed or overlapped before it
\* (estate.write_capture, cli._place_sidecar).
THEOREM PairMatches == StoreSpec => []SettledPairMatches
<1>1. SidecarInv => SettledPairMatches
  BY DEF SidecarInv
<1> QED BY <1>1, SidecarInductive, PTL

\* What such a capture left is read with the coverage its own ledger declares
\* or as undeclared, whenever in the reading the sidecar is lost or damaged
\* (sources.load_source, sources.default_completeness).
THEOREM LossLendsNothing == StoreSpec => []OwnClaimOrNone
<1>1. SidecarInv => OwnClaimOrNone
  BY DEF SidecarInv
<1> QED BY <1>1, SidecarInductive, PTL

-----------------------------------------------------------------------------
(* The capture from the cloud: what its state always is.                   *)

Inner == {Root} \cup Folders
Entry == [node : Inner \cup Projects, parent : Inner \cup {Nowhere}]
Item == [node : Inner, depth : Nat]
Walks == [queue : Seq(Item), visited : SUBSET Inner, found : Seq(Entry),
          truncated : BOOLEAN, projects : BOOLEAN, depth : {0}, calm : BOOLEAN]
Data == [Range(Categories) -> [at : Nat, of : SUBSET (Tags \cup Members), captured : BOOLEAN]]

FetchTypeOK ==
  /\ live \in [parent : Trees, tags : SUBSET Tags, members : SUBSET Members]
  /\ clock \in Nat /\ cache \in [there : BOOLEAN, good : BOOLEAN, at : Nat]
  /\ cap \in [busy : BOOLEAN, request : {{}} \cup Requests, step : 1..19, stamp : Nat,
              data : Data]
  /\ walk \in Walks
  /\ snapshot \in [stamp : Nat, data : Data, tree : Seq(Entry), calm : BOOLEAN]

\* The tables derived from one another, before and after the second is read.
Derived ==
  LET of(c) == cap.data[c].of
  IN  /\ of("iam_bindings") \subseteq of("principals")
      /\ cap.step <= 6 => of("iam_bindings") = {}
      /\ cap.step <= 9 \/ "firewall_rules" \notin cap.request => of("firewall_rules") = {}
      /\ cap.step > 12 => of("firewall_rules") \subseteq of("network_tags")

Queued == Nodes(walk.queue)

\* Nothing is found twice, and everything is found under what was found before.
FoundIsTree(found) ==
  /\ found # <<>> => found[1] = [node |-> Root, parent |-> Nowhere]
  /\ \A i \in 2..Len(found) : \E j \in 1..(i - 1) : found[j].node = found[i].parent
  /\ \A i, j \in 1..Len(found) : found[i].node = found[j].node => i = j

\* What the walk has found, it has looked into or will; the node whose
\* projects are being listed is still at the head of the queue.
WalkOrder ==
  /\ walk.found = <<>> => walk.queue = <<>> /\ walk.visited = {} /\ ~walk.projects
  /\ walk.visited \cup Queued \subseteq Nodes(walk.found)
  /\ walk.projects => walk.queue # <<>> /\ Head(walk.queue).node \in walk.visited

\* While no node has moved, parents are as they are in the estate, and a walk
\* that left nothing out found every child of what it looked into.
Faithful ==
  walk.calm /\ walk.found # <<>> =>
    /\ \A i \in 2..Len(walk.found) : live.parent[walk.found[i].node] = walk.found[i].parent
    /\ ~walk.truncated =>
         /\ \A n \in Inner \cap Nodes(walk.found) : n \in walk.visited \cup Queued
         /\ \A v \in walk.visited :
              /\ \A c \in Folders : live.parent[c] = v => c \in Nodes(walk.found)
              /\ \/ walk.projects /\ v = Head(walk.queue).node
                 \/ \A c \in Projects : live.parent[c] = v => c \in Nodes(walk.found)

\* A captured hierarchy is a walk that ended with nothing left out.
WalkedOut ==
  cap.data["resource_hierarchy"].captured =>
    /\ cap.step > 8 /\ walk.found # <<>> /\ walk.queue = <<>>
    /\ ~walk.truncated /\ ~walk.projects

FetchInv ==
  /\ FetchTypeOK /\ Derived /\ FoundIsTree(walk.found) /\ WalkOrder /\ Faithful
  /\ WalkedOut /\ HierarchyIsWhole /\ DerivedAgree

-----------------------------------------------------------------------------
(* Sequences.                                                              *)

\* A finite set as a sequence: every element, once.
LEMMA SetToSeqIsListing ==
  ASSUME NEW T, IsFiniteSet(T)
  PROVE  /\ SetToSeq(T) \in Seq(T)
         /\ \A i, j \in 1..Len(SetToSeq(T)) : SetToSeq(T)[i] = SetToSeq(T)[j] => i = j
         /\ \A t \in T : \E i \in 1..Len(SetToSeq(T)) : SetToSeq(T)[i] = t
<1> DEFINE n == Cardinality(T)
           I == 1..n
           s == SetToSeq(T)
<1>1. n \in Nat /\ ExistsBijection(I, T)
  BY FS_CardinalityType
<1>2. \E f \in [I -> T] : IsInjective(f)
  BY <1>1 DEF ExistsBijection, Bijection, Injection
<1>3. s \in [I -> T] /\ IsInjective(s)
  BY <1>2 DEF SetToSeq
<1>4. IsFiniteSet(I) /\ Cardinality(I) = n
  BY <1>1, FS_Interval
<1>5. s \in Injection(I, T)
  BY <1>3 DEF Injection
<1>6. s \in Surjection(I, T)
  BY <1>4, <1>5, FS_Injection
<1>7. \A t \in T : \E i \in I : s[i] = t
  BY <1>6 DEF Surjection
<1>8. s \in Seq(T) /\ Len(s) = n
  BY <1>1, <1>3
<1> QED BY <1>3, <1>7, <1>8 DEF IsInjective

-----------------------------------------------------------------------------
(* Where the tables that matter stand in the order they are read.          *)

LEMMA Places ==
  /\ Len(Categories) = 18
  /\ {Categories[i] : i \in 1..18} = Range(Categories)
  /\ {"principals", "iam_bindings", "resource_hierarchy", "firewall_rules",
      "network_tags", "resource_types"} \subseteq Range(Categories)
<1>1. Len(Categories) = 18
  BY DEF Categories
<1>2. DOMAIN Categories = 1..18
  BY DEF Categories
<1>3. {Categories[i] : i \in 1..18} = Range(Categories)
  BY <1>2 DEF Range
<1>4. /\ Categories[6] = "principals" /\ Categories[7] = "iam_bindings"
      /\ Categories[8] = "resource_hierarchy" /\ Categories[9] = "firewall_rules"
      /\ Categories[12] = "network_tags" /\ Categories[18] = "resource_types"
  BY DEF Categories
<1> QED BY <1>1, <1>3, <1>4

LEMMA PlaceOf ==
  ASSUME NEW i \in 1..18
  PROVE  /\ Categories[i] \in Range(Categories)
         /\ Categories[i] = "principals" <=> i = 6
         /\ Categories[i] = "iam_bindings" <=> i = 7
         /\ Categories[i] = "resource_hierarchy" <=> i = 8
         /\ Categories[i] = "firewall_rules" <=> i = 9
         /\ Categories[i] = "network_tags" <=> i = 12
<1>1. Categories[i] \in Range(Categories)
  BY Places
<1>2. \/ i = 1 \/ i = 2 \/ i = 3 \/ i = 4 \/ i = 5 \/ i = 6 \/ i = 7 \/ i = 8 \/ i = 9
      \/ i = 10 \/ i = 11 \/ i = 12 \/ i = 13 \/ i = 14 \/ i = 15 \/ i = 16 \/ i = 17
      \/ i = 18
  OBVIOUS
<1> QED BY <1>1, <1>2 DEF Categories

\* A capture's step forward.
LEMMA OneOn ==
  ASSUME FetchTypeOK, Stepping
  PROVE  /\ cap.step \in 1..18 /\ cap.step + 1 \in 1..19
         /\ Category \in Range(Categories) /\ Category = Categories[cap.step]
<1>1. cap.step \in 1..18
  BY Places DEF FetchTypeOK, Stepping
<1> QED BY <1>1, PlaceOf DEF Category

LEMMA FetchInit == Init => FetchInv
<1> SUFFICES ASSUME Init PROVE FetchInv
  OBVIOUS
<1>1. Nothing \in Data
  BY DEF Nothing, Data, Uncaptured
<1>2. NoWalk \in Walks
  BY DEF NoWalk, Walks
<1>3. FetchTypeOK
  <2>1. cap \in [busy : BOOLEAN, request : {{}} \cup Requests, step : 1..19, stamp : Nat,
                 data : Data]
    BY <1>1 DEF Init, NoCapture
  <2>2. snapshot \in [stamp : Nat, data : Data, tree : Seq(Entry), calm : BOOLEAN]
    BY <1>1 DEF Init, NoSnapshot
  <2>3. cache \in [there : BOOLEAN, good : BOOLEAN, at : Nat]
    BY DEF Init
  <2> QED BY <1>2, <2>1, <2>2, <2>3 DEF Init, FetchTypeOK
<1>4. \A c \in Range(Categories) : Nothing[c] = Uncaptured
  BY DEF Nothing
<1>5. Derived /\ DerivedAgree
  BY <1>4, Places DEF Init, Derived, DerivedAgree, NoCapture, NoSnapshot, Uncaptured
<1>6. WalkedOut /\ HierarchyIsWhole
  BY <1>4, Places DEF Init, WalkedOut, HierarchyIsWhole, NoCapture, NoSnapshot, Uncaptured
<1>7. FoundIsTree(walk.found) /\ WalkOrder /\ Faithful
  BY DEF Init, FoundIsTree, WalkOrder, Faithful, NoWalk, Queued
<1> QED BY <1>3, <1>5, <1>6, <1>7 DEF FetchInv

-----------------------------------------------------------------------------
(* The tables derived from one another.                                    *)

\* What a capture reads keeps its type, and its walk is left to the walk.
LEMMA ReadTyped ==
  ASSUME FetchTypeOK, NEW of \in SUBSET (Tags \cup Members)
  PROVE  Read(of) \in [at : Nat, of : SUBSET (Tags \cup Members), captured : BOOLEAN]
BY DEF FetchTypeOK, Read

LEMMA DataTyped ==
  ASSUME NEW data \in Data, NEW c \in Range(Categories),
         NEW r \in [at : Nat, of : SUBSET (Tags \cup Members), captured : BOOLEAN]
  PROVE  [data EXCEPT ![c] = r] \in Data
BY DEF Data

LEMMA ProceedTyped ==
  ASSUME FetchTypeOK, Stepping, NEW data \in Data, Proceed(data)
  PROVE  /\ cap' \in [busy : BOOLEAN, request : {{}} \cup Requests, step : 1..19,
                      stamp : Nat, data : Data]
         /\ cap'.step = cap.step + 1 /\ cap'.data = data /\ cap'.request = cap.request
         /\ cap'.busy = cap.busy
BY OneOn DEF FetchTypeOK, Proceed

LEMMA DerivedStep ==
  ASSUME FetchTypeOK, Derived, DerivedAgree, [Next]_vars
  PROVE  Derived' /\ DerivedAgree'
<1> DEFINE fw == "firewall_rules"
           iam == "iam_bindings"
<1>0. /\ cap.data \in Data /\ cap.step \in 1..19
      /\ {"principals", iam, fw, "network_tags"} \subseteq Range(Categories)
  BY Places DEF FetchTypeOK
<1>1. CASE NotWanted
  <2>1. cap'.data = cap.data /\ cap'.step = cap.step + 1 /\ cap'.request = cap.request
    BY <1>1, <1>0, ProceedTyped DEF NotWanted
  <2>2. cap.step = 9 => fw \notin cap.request
    BY <1>1, OneOn, PlaceOf DEF NotWanted, Wants
  <2>3. cap.step = 12 => fw \notin cap.request
    BY <1>1, OneOn, PlaceOf DEF NotWanted, Wants
  <2>4. cap.step = 6 => cap.data[iam].of = {}
    BY DEF Derived
  <2>5. fw \notin cap.request => cap.data[fw].of = {}
    BY DEF Derived
  <2> QED BY <1>0, <1>1, <2>1, <2>2, <2>3, <2>4, <2>5 DEF NotWanted, Derived, DerivedAgree
<1>2. CASE FetchPlain
  <2>1. cap.data' = [cap.data EXCEPT ![Category] = Read({})]
        /\ cap'.step = cap.step + 1 /\ cap'.request = cap.request
    BY <1>2, <1>0, OneOn, ReadTyped, DataTyped, ProceedTyped DEF FetchPlain
  <2>2. Category \notin {"principals", iam, fw, "network_tags"}
    BY <1>2 DEF FetchPlain, Plain
  <2>3. cap.step \notin {6, 7, 9, 12}
    BY <1>2, <2>2, OneOn, PlaceOf DEF FetchPlain
  <2>4. \A c \in {"principals", iam, fw, "network_tags"} : cap'.data[c] = cap.data[c]
    BY <1>0, <2>1, <2>2 DEF Data
  <2> QED BY <1>0, <1>2, <2>1, <2>3, <2>4 DEF FetchPlain, Derived, DerivedAgree
<1>3. CASE FetchPrincipals
  <2> DEFINE pair == [cap.data EXCEPT !["principals"] = Read(live.members),
                         !["iam_bindings"] = IF Wants(cap.request, "iam_bindings")
                                             THEN Read(live.members) ELSE @]
  <2>1. cap.step \in {6, 7} /\ (cap.step = 6 <=> Category = "principals")
    BY <1>3, OneOn, PlaceOf DEF FetchPrincipals
  <2>2. Read(live.members) \in [at : Nat, of : SUBSET (Tags \cup Members), captured : BOOLEAN]
    BY ReadTyped DEF FetchTypeOK
  <2>3. pair \in Data
    BY <1>0, <2>2 DEF Data
  <2>4. cap'.step = cap.step + 1 /\ cap'.request = cap.request
    BY <1>0, <1>3, <2>3, ProceedTyped DEF FetchPrincipals
  <2>5. cap'.data = IF Category = "principals" THEN pair ELSE cap.data
    BY <1>0, <1>3, <2>3, ProceedTyped DEF FetchPrincipals
  <2>6. /\ pair["principals"] = Read(live.members) /\ pair[fw] = cap.data[fw]
        /\ pair["iam_bindings"] \in {Read(live.members), cap.data["iam_bindings"]}
    BY <1>0 DEF Data
  <2> HIDE DEF pair
  <2>7. cap.step = 6 => cap.data[iam].of = {}
    BY DEF Derived
  <2>8. cap'.data[fw] = cap.data[fw] /\ cap'.step \in {7, 8}
    BY <2>1, <2>4, <2>5, <2>6
  <2>9. cap'.data[iam].of \subseteq cap'.data["principals"].of
    <3>1. CASE cap.step = 6
      <4>1. cap'.data = pair
        BY <2>1, <2>5, <3>1
      <4>2. pair["principals"].of = live.members
        BY <2>6 DEF Read
      <4>3. pair[iam].of \in {live.members, {}}
        BY <2>6, <2>7, <3>1 DEF Read
      <4> QED BY <4>1, <4>2, <4>3
    <3>2. CASE cap.step # 6
      BY <2>1, <2>5, <3>2 DEF Derived
    <3> QED BY <3>1, <3>2
  <2>10. Derived'
    BY <2>1, <2>4, <2>8, <2>9 DEF Derived
  <2>11. snapshot' = snapshot
    BY <1>3 DEF FetchPrincipals
  <2> QED BY <2>10, <2>11 DEF DerivedAgree
<1>4. CASE FetchFirewallRules
  <2>1. cap.step = 9 /\ Category = fw /\ fw \in cap.request
    BY <1>4, OneOn, PlaceOf DEF FetchFirewallRules, Wants
  <2>2. Read(live.tags) \in [at : Nat, of : SUBSET (Tags \cup Members), captured : BOOLEAN]
    BY ReadTyped DEF FetchTypeOK
  <2>3. /\ cap'.data = [cap.data EXCEPT ![fw] = Read(live.tags)]
        /\ cap'.step = 10 /\ cap'.request = cap.request
    BY <1>0, <1>4, <2>1, <2>2, DataTyped, ProceedTyped DEF FetchFirewallRules
  <2>4. \A c \in {"principals", iam} : cap'.data[c] = cap.data[c]
    BY <1>0, <2>3 DEF Data
  <2> QED BY <1>0, <1>4, <2>1, <2>3, <2>4 DEF FetchFirewallRules, Derived, DerivedAgree
<1>5. CASE FetchNetworkTags
  <2>1. cap.step = 12 /\ Category = "network_tags"
    BY <1>5, OneOn, PlaceOf DEF FetchNetworkTags
  <2>2. PICK ofInstances \in SUBSET Tags :
          Proceed([cap.data EXCEPT ![Category] = Read(cap.data[fw].of \cup ofInstances)])
    BY <1>5 DEF FetchNetworkTags
  <2> DEFINE tags == cap.data[fw].of \cup ofInstances
  <2>3. Read(tags) \in [at : Nat, of : SUBSET (Tags \cup Members), captured : BOOLEAN]
    BY <1>0, ReadTyped DEF Data
  <2>4. /\ cap'.data = [cap.data EXCEPT !["network_tags"] = Read(tags)]
        /\ cap'.step = 13 /\ cap'.request = cap.request
    BY <1>0, <1>5, <2>1, <2>2, <2>3, DataTyped, ProceedTyped DEF FetchNetworkTags
  <2>5. \A c \in {"principals", iam, fw} : cap'.data[c] = cap.data[c]
    BY <1>0, <2>4 DEF Data
  <2>6. cap'.data["network_tags"].of = tags
    BY <1>0, <2>4 DEF Data, Read
  <2> QED BY <1>0, <1>5, <2>1, <2>4, <2>5, <2>6 DEF FetchNetworkTags, Derived, DerivedAgree
<1>6. ASSUME NEW c \in {"resource_types", "resource_hierarchy"},
             NEW r \in [at : Nat, of : SUBSET (Tags \cup Members), captured : BOOLEAN],
             Stepping, Category = c, Proceed([cap.data EXCEPT ![c] = r]),
             snapshot' = snapshot
      PROVE  Derived' /\ DerivedAgree'
  <2>1. cap.step \notin {6, 7, 9, 12}
    BY <1>6, OneOn, PlaceOf
  <2>2. /\ cap'.data = [cap.data EXCEPT ![c] = r]
        /\ cap'.step = cap.step + 1 /\ cap'.request = cap.request
    BY <1>0, <1>6, OneOn, DataTyped, ProceedTyped
  <2>3. \A k \in {"principals", iam, fw, "network_tags"} : cap'.data[k] = cap.data[k]
    BY <1>0, <2>2 DEF Data
  <2> QED BY <1>0, <1>6, <2>1, <2>2, <2>3 DEF Derived, DerivedAgree
<1>7. CASE FetchResourceTypes
  <2>1. cache'.at \in Nat
    BY <1>7 DEF FetchResourceTypes, FetchTypeOK
  <2>2. [at |-> cache'.at, of |-> {}, captured |-> TRUE]
          \in [at : Nat, of : SUBSET (Tags \cup Members), captured : BOOLEAN]
    BY <2>1
  <2> QED BY <1>6, <1>7, <2>2 DEF FetchResourceTypes
<1>8. CASE EndWalk
  <2>1. Category = "resource_hierarchy" /\ Stepping
    BY <1>8 DEF EndWalk, Walking
  <2>2. CASE ~walk.truncated
    BY <1>6, <1>8, <2>1, <2>2, ReadTyped DEF EndWalk
  <2>3. CASE walk.truncated
    <3>1. cap.step = 8
      BY <2>1, OneOn, PlaceOf
    <3>2. cap'.data = cap.data /\ cap'.step = 9 /\ cap'.request = cap.request
      BY <1>0, <1>8, <2>1, <2>3, <3>1, ProceedTyped DEF EndWalk
    <3> QED BY <1>8, <3>1, <3>2 DEF EndWalk, Derived, DerivedAgree
  <2> QED BY <2>2, <2>3
<1>9. ASSUME cap'.step = 1, cap'.data = Nothing, snapshot' = snapshot
      PROVE  Derived' /\ DerivedAgree'
  BY <1>0, <1>9 DEF Derived, DerivedAgree, Nothing, Uncaptured
<1>10. CASE KillInCache \/ Fail \/ \E request \in Requests : Begin(request)
  <2>1. CASE KillInCache \/ Fail
    BY <1>9, <2>1 DEF KillInCache, Fail, NoCapture
  <2>2. ASSUME NEW request \in Requests, Begin(request)
        PROVE  cap'.step = 1 /\ cap'.data = Nothing /\ snapshot' = snapshot
    BY <2>2 DEF Begin, NoCapture
  <2> QED BY <1>9, <1>10, <2>1, <2>2
<1>11. CASE Finish
  <2>1. cap.step > 12
    BY <1>0, <1>11, Places DEF Finish
  <2>2. cap'.step = 1 /\ cap'.data = Nothing /\ snapshot'.data = cap.data
    BY <1>11 DEF Finish, NoCapture
  <2>3. DerivedAgree'
    BY <2>1, <2>2 DEF Derived, DerivedAgree
  <2> QED BY <1>0, <2>2, <2>3 DEF Derived, Nothing, Uncaptured
<1>12. CASE BeginWalk \/ WalkFolders \/ WalkProjects \/ Change \/ UNCHANGED vars
  <2>1. UNCHANGED <<cap, snapshot>>
    BY <1>12 DEF BeginWalk, WalkFolders, WalkProjects, Change, vars
  <2> QED BY <2>1 DEF Derived, DerivedAgree
<1> QED BY <1>1, <1>2, <1>3, <1>4, <1>5, <1>7, <1>8, <1>10, <1>11, <1>12 DEF Next, Step

-----------------------------------------------------------------------------
(* What one listing adds to what was found, and to what is queued.         *)

\* g is f and, after it, children of p among C that f has not: each once.
Extends(f, g, p, C) ==
  /\ g \in Seq(Entry) /\ Len(f) <= Len(g)
  /\ \A i \in 1..Len(f) : g[i] = f[i]
  /\ \A i \in (Len(f) + 1)..Len(g) :
        g[i].parent = p /\ g[i].node \in C /\ ~Found(g[i].node, f)
  /\ \A i, j \in (Len(f) + 1)..Len(g) : g[i].node = g[j].node => i = j

LEMMA ListedExtends ==
  ASSUME NEW w \in Walks, NEW p \in Inner, NEW C, IsFiniteSet(C), C \subseteq Inner \cup Projects
  PROVE  /\ Listed(w, p, C) \in Walks
         /\ Extends(w.found, Listed(w, p, C).found, p, C)
         /\ \A c \in C : Found(c, Listed(w, p, C).found)
         /\ Listed(w, p, C) = [w EXCEPT !.found = Listed(w, p, C).found,
                                        !.truncated = Listed(w, p, C).truncated]
         /\ ~Listed(w, p, C).truncated => ~w.truncated
<1> DEFINE f == w.found
           T == {c \in C : ~Found(c, f)}
           new == SetToSeq(T)
           add == [i \in 1..Len(new) |-> [node |-> new[i], parent |-> p]]
           g == f \o add
           full == w.truncated \/ \E c \in C : Found(c, f)
<1>1. IsFiniteSet(T)
  BY FS_Subset
<1>2. /\ new \in Seq(T)
      /\ \A i, j \in 1..Len(new) : new[i] = new[j] => i = j
      /\ \A t \in T : \E i \in 1..Len(new) : new[i] = t
  BY <1>1, SetToSeqIsListing
<1> HIDE DEF new
<1>3. f \in Seq(Entry) /\ Len(f) \in Nat /\ Len(new) \in Nat
  BY <1>2 DEF Walks
<1>4. \A i \in 1..Len(new) : new[i] \in T
  BY <1>2
<1>5. add \in Seq(Entry) /\ Len(add) = Len(new)
  BY <1>3, <1>4 DEF Entry
<1>6. g \in Seq(Entry) /\ Len(g) = Len(f) + Len(new)
  BY <1>3, <1>5
<1>7. \A i \in 1..Len(f) : g[i] = f[i]
  BY <1>3, <1>5
<1>8. ASSUME NEW k \in 1..Len(new)
      PROVE  Len(f) + k \in 1..Len(g) /\ g[Len(f) + k].node = new[k] /\ g[Len(f) + k].parent = p
  <2>1. g[Len(f) + k] = add[k]
    BY <1>3, <1>5
  <2>2. add[k].node = new[k] /\ add[k].parent = p
    OBVIOUS
  <2>3. Len(f) + k \in 1..Len(g)
    BY <1>3, <1>6
  <2> HIDE DEF g, add
  <2> QED BY <2>1, <2>2, <2>3
<1>9. \A i \in (Len(f) + 1)..Len(g) :
        i - Len(f) \in 1..Len(new) /\ i = Len(f) + (i - Len(f))
  BY <1>3, <1>6
<1> HIDE DEF add, T, g
<1>10. \A i \in (Len(f) + 1)..Len(g) : g[i].node = new[i - Len(f)] /\ g[i].parent = p
  BY <1>8, <1>9
<1>11. \A i \in (Len(f) + 1)..Len(g) :
         g[i].parent = p /\ g[i].node \in C /\ ~Found(g[i].node, f)
  BY <1>4, <1>9, <1>10 DEF T
<1>12. ASSUME NEW i \in (Len(f) + 1)..Len(g), NEW j \in (Len(f) + 1)..Len(g),
              g[i].node = g[j].node
       PROVE  i = j
  <2>1. new[i - Len(f)] = new[j - Len(f)]
    BY <1>10, <1>12
  <2>2. i - Len(f) = j - Len(f)
    BY <1>2, <1>9, <2>1
  <2> QED BY <1>3, <1>6, <2>2
<1>13. ASSUME NEW c \in C PROVE Found(c, g)
  <2>1. CASE Found(c, f)
    <3>1. PICK i \in 1..Len(f) : f[i].node = c
      BY <2>1 DEF Found
    <3>2. i \in 1..Len(g) /\ g[i].node = c
      BY <1>3, <1>6, <1>7, <3>1
    <3> QED BY <3>2 DEF Found
  <2>2. CASE ~Found(c, f)
    <3>1. PICK k \in 1..Len(new) : new[k] = c
      BY <1>2, <2>2 DEF T
    <3>2. Len(f) + k \in 1..Len(g) /\ g[Len(f) + k].node = c
      BY <1>8, <3>1
    <3> QED BY <3>2 DEF Found
  <2> QED BY <2>1, <2>2
<1>14. Len(f) <= Len(g)
  BY <1>3, <1>6
<1>15. Listed(w, p, C) = [w EXCEPT !.found = g, !.truncated = full]
  BY DEF Listed, new, add, T, g
<1> HIDE DEF full
<1>16. Listed(w, p, C).found = g /\ Listed(w, p, C).truncated = full
  BY <1>15 DEF Walks
<1>17. full \in BOOLEAN /\ (~full => ~w.truncated)
  BY DEF full, Walks
<1>18. Listed(w, p, C) \in Walks
  BY <1>6, <1>15, <1>17 DEF Walks
<1> QED BY <1>6, <1>7, <1>11, <1>12, <1>13, <1>14, <1>15, <1>16, <1>17, <1>18 DEF Extends

\* A listing that fails adds nothing, and the walk knows it.
LEMMA ListingExtends ==
  ASSUME NEW w \in Walks, NEW p \in Inner, NEW C, IsFiniteSet(C),
         C \subseteq Inner \cup Projects, NEW v \in Listing(w, p, C)
  PROVE  /\ v \in Walks
         /\ Extends(w.found, v.found, p, C)
         /\ v = [w EXCEPT !.found = v.found, !.truncated = v.truncated]
         /\ ~v.truncated => ~w.truncated /\ \A c \in C : Found(c, v.found)
<1>1. CASE v = Listed(w, p, C)
  BY <1>1, ListedExtends
<1>2. CASE v = [w EXCEPT !.truncated = TRUE]
  <2>1. v \in Walks /\ v.found = w.found /\ v.truncated = TRUE
        /\ v = [w EXCEPT !.found = v.found, !.truncated = v.truncated]
    BY <1>2 DEF Walks
  <2>2. w.found \in Seq(Entry) /\ Len(w.found) \in Nat
    BY DEF Walks
  <2>3. Extends(w.found, w.found, p, C)
    BY <2>2 DEF Extends
  <2> QED BY <2>1, <2>3
<1> QED BY <1>1, <1>2 DEF Listing

LEMMA NodesGrow ==
  ASSUME NEW f \in Seq(Entry), NEW g, NEW p, NEW C, Extends(f, g, p, C)
  PROVE  Nodes(f) \subseteq Nodes(g) /\ Nodes(g) \subseteq Nodes(f) \cup C
<1>1. Len(f) \in Nat /\ Len(g) \in Nat /\ Len(f) <= Len(g)
  BY DEF Extends
<1>2. ASSUME NEW i \in 1..Len(f) PROVE i \in 1..Len(g) /\ f[i].node = g[i].node
  BY <1>1 DEF Extends
<1>3. ASSUME NEW i \in 1..Len(g) PROVE g[i].node \in Nodes(f) \cup C
  <2>1. i \in 1..Len(f) \/ i \in (Len(f) + 1)..Len(g)
    BY <1>1
  <2>2. CASE i \in 1..Len(f)
    BY <2>2 DEF Extends, Nodes
  <2>3. CASE i \in (Len(f) + 1)..Len(g)
    BY <2>3 DEF Extends
  <2> QED BY <2>1, <2>2, <2>3
<1> QED BY <1>2, <1>3 DEF Nodes

\* What a listing extends is still a tree.
LEMMA TreeGrows ==
  ASSUME NEW f \in Seq(Entry), NEW g, NEW p \in Nodes(f), NEW C, Extends(f, g, p, C),
         FoundIsTree(f), f # <<>>
  PROVE  FoundIsTree(g) /\ g # <<>>
<1>1. Len(f) \in Nat /\ Len(g) \in Nat /\ Len(f) <= Len(g) /\ 1 <= Len(f)
  BY EmptySeq DEF Extends
<1>2. g # <<>> /\ g[1] = [node |-> Root, parent |-> Nowhere]
  BY <1>1 DEF Extends, FoundIsTree
<1>3. \A i \in 1..Len(g) : i \in 1..Len(f) \/ i \in (Len(f) + 1)..Len(g)
  BY <1>1
<1>4. ASSUME NEW i \in 2..Len(g) PROVE \E j \in 1..(i - 1) : g[j].node = g[i].parent
  <2>1. CASE i \in 1..Len(f)
    <3>1. PICK j \in 1..(i - 1) : f[j].node = f[i].parent
      BY <2>1 DEF FoundIsTree
    <3>2. j \in 1..Len(f)
      BY <1>1, <2>1
    <3> QED BY <2>1, <3>1, <3>2 DEF Extends
  <2>2. CASE i \in (Len(f) + 1)..Len(g)
    <3>1. PICK j \in 1..Len(f) : f[j].node = p
      BY DEF Nodes
    <3>2. j \in 1..(i - 1)
      BY <1>1, <2>2
    <3> QED BY <2>2, <3>1, <3>2 DEF Extends
  <2> QED BY <1>1, <1>3, <2>1, <2>2
<1>5. ASSUME NEW i \in 1..Len(g), NEW j \in 1..Len(g), g[i].node = g[j].node
      PROVE  i = j
  <2>1. ASSUME NEW a \in 1..Len(f), NEW b \in (Len(f) + 1)..Len(g) PROVE g[a].node # g[b].node
    BY DEF Extends, Found
  <2>2. CASE i \in 1..Len(f) /\ j \in 1..Len(f)
    BY <1>5, <2>2 DEF Extends, FoundIsTree
  <2>3. CASE i \in (Len(f) + 1)..Len(g) /\ j \in (Len(f) + 1)..Len(g)
    BY <1>5, <2>3 DEF Extends
  <2> QED BY <1>3, <1>5, <2>1, <2>2, <2>3
<1> QED BY <1>2, <1>4, <1>5 DEF FoundIsTree

\* What is found among the folders is queued, one level deeper.
LEMMA QueueGrows ==
  ASSUME NEW q \in Seq(Item), NEW f \in Seq(Entry), NEW g, NEW p, NEW d \in Nat,
         Extends(f, g, p, Folders)
  PROVE  LET added == SubSeq(g, Len(f) + 1, Len(g))
             q2 == q \o [i \in 1..Len(added) |-> [node |-> added[i].node, depth |-> d]]
         IN  /\ q2 \in Seq(Item)
             /\ Nodes(q2) \subseteq Nodes(q) \cup Nodes(g)
             /\ Nodes(q) \subseteq Nodes(q2)
             /\ Nodes(g) \subseteq Nodes(f) \cup Nodes(q2)
             /\ q # <<>> => q2 # <<>> /\ Head(q2) = Head(q)
<1> DEFINE n == Len(g) - Len(f)
           added == SubSeq(g, Len(f) + 1, Len(g))
           more == [i \in 1..Len(added) |-> [node |-> added[i].node, depth |-> d]]
           q2 == q \o more
<1>1. Len(f) \in Nat /\ Len(g) \in Nat /\ n \in Nat /\ Len(q) \in Nat
  BY DEF Extends
<1>2. g \in Seq(Entry) /\ \A i \in (Len(f) + 1)..Len(g) : g[i] \in Entry /\ g[i].node \in Folders
  BY <1>1 DEF Extends
<1>3. /\ added \in Seq(Entry)
      /\ Len(added) = IF Len(f) + 1 <= Len(g) THEN Len(g) - (Len(f) + 1) + 1 ELSE 0
      /\ \A i \in 1..(Len(g) - (Len(f) + 1) + 1) : added[i] = g[Len(f) + 1 + i - 1]
  BY <1>1, <1>2, SubSeqProperties
<1>4. Len(added) = n /\ \A i \in 1..n : added[i] = g[Len(f) + i]
  BY <1>1, <1>3
<1> HIDE DEF added
<1>5. \A i \in 1..n : Len(f) + i \in (Len(f) + 1)..Len(g) /\ added[i].node \in Folders
  BY <1>1, <1>2, <1>4
<1>6. more \in Seq(Item) /\ Len(more) = n
  BY <1>1, <1>4, <1>5 DEF Item, Inner
<1>7. \A i \in 1..n : more[i].node = g[Len(f) + i].node
  BY <1>4
<1> HIDE DEF more
<1>8. q2 \in Seq(Item) /\ Len(q2) = Len(q) + n
  BY <1>1, <1>6
<1>9. \A i \in 1..Len(q) : i \in 1..Len(q2) /\ q2[i] = q[i]
  BY <1>1, <1>6, <1>8
<1>10. \A i \in 1..n : Len(q) + i \in 1..Len(q2) /\ q2[Len(q) + i] = more[i]
  BY <1>1, <1>6, <1>8
<1>11. \A i \in 1..Len(q2) : i \in 1..Len(q) \/ (i - Len(q) \in 1..n /\ i = Len(q) + (i - Len(q)))
  BY <1>1, <1>8
<1>12. \A i \in 1..n : Len(f) + i \in 1..Len(g)
  BY <1>1
<1>13. \A i \in 1..Len(g) : i \in 1..Len(f) \/ (i - Len(f) \in 1..n /\ i = Len(f) + (i - Len(f)))
  BY <1>1
<1>14. q # <<>> => q2 # <<>> /\ Head(q2) = Head(q)
  <2> SUFFICES ASSUME q # <<>> PROVE q2 # <<>> /\ Head(q2) = Head(q)
    OBVIOUS
  <2>1. 1 \in 1..Len(q)
    BY <1>1, EmptySeq
  <2>2. Head(q) = q[1]
    BY <2>1
  <2>3. q2 # <<>> /\ Head(q2) = q2[1]
    BY <1>8, <1>9, <2>1
  <2> QED BY <1>9, <2>1, <2>2, <2>3
<1> HIDE DEF q2, n
<1>15. ASSUME NEW i \in 1..Len(q2) PROVE q2[i].node \in Nodes(q) \cup Nodes(g)
  <2>1. CASE i \in 1..Len(q)
    BY <1>9, <2>1 DEF Nodes
  <2>2. CASE i - Len(q) \in 1..n /\ i = Len(q) + (i - Len(q))
    BY <1>7, <1>10, <1>12, <2>2 DEF Nodes
  <2> QED BY <1>11, <2>1, <2>2
<1>16. ASSUME NEW i \in 1..Len(g) PROVE g[i].node \in Nodes(f) \cup Nodes(q2)
  <2>1. CASE i \in 1..Len(f)
    BY <2>1 DEF Nodes, Extends
  <2>2. CASE i - Len(f) \in 1..n /\ i = Len(f) + (i - Len(f))
    BY <1>7, <1>10, <2>2 DEF Nodes
  <2> QED BY <1>13, <2>1, <2>2
<1>17. Nodes(q) \subseteq Nodes(q2)
  BY <1>9 DEF Nodes
<1>18. Nodes(q2) \subseteq Nodes(q) \cup Nodes(g) /\ Nodes(g) \subseteq Nodes(f) \cup Nodes(q2)
  BY <1>15, <1>16 DEF Nodes
<1> QED BY <1>8, <1>14, <1>17, <1>18 DEF q2, more, added

LEMMA QueueShrinks ==
  ASSUME NEW q \in Seq(Item), q # <<>>
  PROVE  /\ Head(q) \in Item /\ Tail(q) \in Seq(Item)
         /\ Head(q).node \in Nodes(q)
         /\ Nodes(Tail(q)) \subseteq Nodes(q)
         /\ Nodes(q) \subseteq {Head(q).node} \cup Nodes(Tail(q))
<1>1. Len(q) \in Nat /\ Len(q) >= 1
  BY EmptySeq
<1>2. /\ Head(q) \in Item /\ Tail(q) \in Seq(Item) /\ Len(Tail(q)) = Len(q) - 1
      /\ \A i \in 1..Len(Tail(q)) : Tail(q)[i] = q[i + 1]
  BY HeadTailProperties
<1>3. Head(q) = q[1]
  BY <1>1
<1>4. \A i \in 1..Len(Tail(q)) : i + 1 \in 1..Len(q)
  BY <1>1, <1>2
<1>5. \A i \in 1..Len(q) : i = 1 \/ (i - 1 \in 1..Len(Tail(q)) /\ i = (i - 1) + 1)
  BY <1>1, <1>2
<1>6. ASSUME NEW i \in 1..Len(q) PROVE q[i].node \in {Head(q).node} \cup Nodes(Tail(q))
  <2>1. CASE i = 1
    BY <1>3, <2>1
  <2>2. CASE i - 1 \in 1..Len(Tail(q)) /\ i = (i - 1) + 1
    <3>1. Tail(q)[i - 1] = q[i]
      BY <1>2, <2>2
    <3> QED BY <2>2, <3>1 DEF Nodes
  <2> QED BY <1>5, <2>1, <2>2
<1>7. Nodes(Tail(q)) \subseteq Nodes(q)
  BY <1>2, <1>4 DEF Nodes
<1> QED BY <1>1, <1>2, <1>3, <1>6, <1>7 DEF Nodes

-----------------------------------------------------------------------------
(* The walk of the hierarchy.                                              *)

WalkInv == walk \in Walks /\ FoundIsTree(walk.found) /\ WalkOrder /\ Faithful

LEMMA ChildrenAre ==
  ASSUME NEW p, NEW kind \in {Folders, Projects}
  PROVE  /\ IsFiniteSet(Children(p, kind)) /\ Children(p, kind) \subseteq kind
         /\ Children(p, kind) \subseteq Inner \cup Projects
<1>1. Children(p, kind) \subseteq kind /\ IsFiniteSet(kind)
  BY FetchAssumption DEF Children
<1> QED BY <1>1, FS_Subset DEF Inner

LEMMA WalkBegins ==
  ASSUME WalkInv, BeginWalk
  PROVE  WalkInv'
<1> DEFINE r == [node |-> Root, parent |-> Nowhere]
           h == [node |-> Root, depth |-> 0]
<1>1. /\ walk' = [queue |-> <<h>>, visited |-> {}, found |-> <<r>>, truncated |-> FALSE,
                  projects |-> FALSE, depth |-> 0, calm |-> TRUE]
      /\ live' = live
  BY DEF BeginWalk, NoWalk
<1>2. r \in Entry /\ h \in Item
  BY DEF Entry, Item, Inner
<1>3. <<r>> \in Seq(Entry) /\ <<h>> \in Seq(Item)
  BY <1>2
<1>4. walk' \in Walks
  BY <1>1, <1>3 DEF Walks
<1>5. Len(<<r>>) = 1 /\ Len(<<h>>) = 1 /\ <<r>>[1] = r /\ <<h>>[1] = h
  OBVIOUS
<1>6. Nodes(<<r>>) = {Root} /\ Nodes(<<h>>) = {Root}
  BY <1>5 DEF Nodes
<1>7. FoundIsTree(<<r>>)
  BY <1>5 DEF FoundIsTree
<1>8. WalkOrder'
  BY <1>1, <1>6 DEF WalkOrder, Queued
<1>9. Faithful'
  BY <1>1, <1>5, <1>6 DEF Faithful, Queued
<1> QED BY <1>1, <1>4, <1>7, <1>8, <1>9 DEF WalkInv

\* What a listing named of a node's children.
Below(C, p, kind) == C \subseteq Children(p, kind)

\* What one listing does to the walk: the facts both kinds of listing need.
LEMMA OneListing ==
  ASSUME WalkInv, NEW p \in Inner, p \in Nodes(walk.found), walk.found # <<>>,
         NEW kind \in {Folders, Projects}, NEW C, Below(C, p, kind),
         NEW g, Extends(walk.found, g, p, C)
  PROVE  /\ FoundIsTree(g) /\ g # <<>> /\ g \in Seq(Entry)
         /\ Nodes(walk.found) \subseteq Nodes(g)
         /\ Nodes(g) \subseteq Nodes(walk.found) \cup kind
         /\ walk.calm => \A i \in 2..Len(g) : live.parent[g[i].node] = g[i].parent
<1>1. walk.found \in Seq(Entry) /\ Len(walk.found) \in Nat /\ g \in Seq(Entry) /\ Len(g) \in Nat
  BY DEF WalkInv, Walks, Extends
<1>2. C \subseteq kind /\ C \subseteq Children(p, kind)
  BY ChildrenAre DEF Below
<1>3. FoundIsTree(g) /\ g # <<>>
  BY <1>1, TreeGrows DEF WalkInv
<1>4. Nodes(walk.found) \subseteq Nodes(g) /\ Nodes(g) \subseteq Nodes(walk.found) \cup kind
  BY <1>1, <1>2, NodesGrow
<1>5. ASSUME walk.calm, NEW i \in 2..Len(g) PROVE live.parent[g[i].node] = g[i].parent
  <2>1. i \in 2..Len(walk.found) \/ i \in (Len(walk.found) + 1)..Len(g)
    BY <1>1
  <2>2. CASE i \in 2..Len(walk.found)
    <3>1. i \in 1..Len(walk.found)
      BY <2>2
    <3> QED BY <1>5, <2>2, <3>1 DEF WalkInv, Faithful, Extends
  <2>3. CASE i \in (Len(walk.found) + 1)..Len(g)
    BY <1>2, <2>3 DEF Extends, Children
  <2> QED BY <2>1, <2>2, <2>3
<1> QED BY <1>1, <1>3, <1>4, <1>5

LEMMA FoldersWalked ==
  ASSUME WalkInv, WalkFolders
  PROVE  WalkInv'
<1> DEFINE item == Head(walk.queue)
           p == item.node
           C == Children(p, Folders)
           seen == walk.visited \cup {p}
<1>1. /\ walk \in Walks /\ walk.queue # <<>> /\ ~walk.projects /\ live' = live
      /\ walk.queue \in Seq(Item) /\ walk.found \in Seq(Entry) /\ walk.visited \subseteq Inner
  BY DEF WalkFolders, WalkInv, Walks
<1>2. /\ item \in Item /\ Tail(walk.queue) \in Seq(Item) /\ p \in Nodes(walk.queue)
      /\ Nodes(Tail(walk.queue)) \subseteq Nodes(walk.queue)
      /\ Nodes(walk.queue) \subseteq {p} \cup Nodes(Tail(walk.queue))
  BY <1>1, QueueShrinks
<1>3. walk.found # <<>> /\ p \in Nodes(walk.found) /\ p \in Inner /\ item.depth \in Nat
  BY <1>1, <1>2 DEF WalkInv, WalkOrder, Queued, Item
<1> HIDE DEF item
<1>4. CASE p \in walk.visited
  <2>1. walk' = [walk EXCEPT !.queue = Tail(@)]
    BY <1>4 DEF WalkFolders, item
  <2>2. /\ walk' \in Walks /\ walk'.queue = Tail(walk.queue) /\ walk'.visited = walk.visited
        /\ walk'.found = walk.found /\ walk'.truncated = walk.truncated
        /\ walk'.projects = FALSE /\ walk'.calm = walk.calm
    BY <1>1, <1>2, <2>1 DEF Walks
  <2>3. WalkOrder'
    BY <1>2, <1>3, <2>2 DEF WalkInv, WalkOrder, Queued
  <2>4. Faithful'
    BY <1>1, <1>2, <1>4, <2>2 DEF WalkInv, Faithful, Queued
  <2> QED BY <2>2, <2>3, <2>4 DEF WalkInv
<1>5. CASE p \notin walk.visited /\ item.depth >= MaxDepth
  <2>1. walk' = [walk EXCEPT !.queue = Tail(@), !.visited = @ \cup {p}, !.truncated = TRUE]
    BY <1>1, <1>5 DEF WalkFolders, item, Walks
  <2>2. /\ walk' \in Walks /\ walk'.queue = Tail(walk.queue) /\ walk'.visited = seen
        /\ walk'.found = walk.found /\ walk'.truncated = TRUE
        /\ walk'.projects = FALSE /\ walk'.calm = walk.calm
    BY <1>1, <1>2, <1>3, <2>1 DEF Walks
  <2>3. WalkOrder'
    BY <1>2, <1>3, <2>2 DEF WalkInv, WalkOrder, Queued
  <2>4. Faithful'
    BY <1>1, <2>2 DEF WalkInv, Faithful
  <2> QED BY <2>2, <2>3, <2>4 DEF WalkInv
<1>6. CASE p \notin walk.visited /\ ~(item.depth >= MaxDepth)
  <2>0. PICK N \in SUBSET C :
          \E w \in Listing([walk EXCEPT !.visited = @ \cup {p}, !.calm = @ /\ N = C], p, N) :
             walk' = [w EXCEPT !.projects = TRUE, !.queue = @ \o
                      [i \in 1..Len(SubSeq(w.found, Len(walk.found) + 1, Len(w.found))) |->
                         [node |-> SubSeq(w.found, Len(walk.found) + 1, Len(w.found))[i].node,
                          depth |-> item.depth + 1]]]
    BY <1>6 DEF WalkFolders, item
  <2> DEFINE calm == walk.calm /\ N = C
             w0 == [walk EXCEPT !.visited = @ \cup {p}, !.calm = @ /\ N = C]
  <2>1. PICK w \in Listing(w0, p, N) :
          walk' = [w EXCEPT !.projects = TRUE, !.queue = @ \o
                      [i \in 1..Len(SubSeq(w.found, Len(walk.found) + 1, Len(w.found))) |->
                         [node |-> SubSeq(w.found, Len(walk.found) + 1, Len(w.found))[i].node,
                          depth |-> item.depth + 1]]]
    BY <2>0
  <2>2. /\ w0 \in Walks /\ w0.found = walk.found /\ w0.queue = walk.queue /\ w0.visited = seen
        /\ w0.truncated = walk.truncated /\ w0.calm = calm
    <3>1. calm \in BOOLEAN
      OBVIOUS
    <3>2. w0 = [walk EXCEPT !.visited = @ \cup {p}, !.calm = calm]
      BY <1>1 DEF Walks
    <3> HIDE DEF calm, w0
    <3> QED BY <1>1, <1>3, <3>1, <3>2 DEF Walks
  <2>3. IsFiniteSet(N) /\ N \subseteq Folders /\ N \subseteq Inner \cup Projects
    <3>1. IsFiniteSet(C) /\ C \subseteq Folders /\ C \subseteq Inner \cup Projects
      BY ChildrenAre
    <3> QED BY <3>1, FS_Subset
  <2> HIDE DEF w0, C, calm
  <2>4. /\ w \in Walks
        /\ Extends(walk.found, w.found, p, N)
        /\ w = [w0 EXCEPT !.found = w.found, !.truncated = w.truncated]
        /\ ~w.truncated => ~walk.truncated /\ \A c \in N : Found(c, w.found)
    <3>1. /\ w \in Walks
          /\ Extends(w0.found, w.found, p, N)
          /\ w = [w0 EXCEPT !.found = w.found, !.truncated = w.truncated]
          /\ ~w.truncated => ~w0.truncated /\ \A c \in N : Found(c, w.found)
      BY <1>3, <2>2, <2>3, ListingExtends
    <3> QED BY <2>2, <3>1
  <2>5. w.queue = walk.queue /\ w.visited = seen /\ w.calm = calm
    BY <2>2, <2>4 DEF Walks
  <2> DEFINE g == w.found
             added == SubSeq(g, Len(walk.found) + 1, Len(g))
             q2 == walk.queue \o [i \in 1..Len(added) |->
                      [node |-> added[i].node, depth |-> item.depth + 1]]
  <2>6. Extends(walk.found, g, p, Folders) /\ item.depth + 1 \in Nat
    BY <1>3, <2>3, <2>4 DEF Extends
  <2>7. /\ q2 \in Seq(Item)
        /\ Nodes(q2) \subseteq Nodes(walk.queue) \cup Nodes(g)
        /\ Nodes(walk.queue) \subseteq Nodes(q2)
        /\ Nodes(g) \subseteq Nodes(walk.found) \cup Nodes(q2)
        /\ walk.queue # <<>> => q2 # <<>> /\ Head(q2) = Head(walk.queue)
    BY <1>1, <2>6, QueueGrows, ZenonT(40)
  <2>8. walk' = [w EXCEPT !.projects = TRUE, !.queue = q2]
    BY <2>1, <2>5
  <2> HIDE DEF q2
  <2>9. /\ walk' \in Walks /\ walk'.queue = q2 /\ walk'.visited = seen
        /\ walk'.found = g /\ walk'.truncated = w.truncated
        /\ walk'.projects = TRUE /\ walk'.calm = calm
    BY <2>4, <2>5, <2>7, <2>8 DEF Walks
  <2>10. /\ FoundIsTree(g) /\ g # <<>> /\ Nodes(walk.found) \subseteq Nodes(g)
         /\ walk.calm => \A i \in 2..Len(g) : live.parent[g[i].node] = g[i].parent
    <3>1. Below(N, p, Folders) /\ Extends(walk.found, g, p, N)
      BY <2>4 DEF C, Below
    <3>2. WalkInv /\ p \in Inner /\ p \in Nodes(walk.found) /\ walk.found # <<>>
      BY <1>3
    <3> HIDE DEF g, p, seen
    <3>3. Folders \in {Folders, Projects}
      OBVIOUS
    <3> QED BY <3>1, <3>2, <3>3, OneListing
  <2> HIDE DEF g
  <2>11. WalkOrder'
    BY <1>1, <1>3, <2>7, <2>9, <2>10 DEF WalkInv, WalkOrder, Queued, item
  <2>12. Faithful'
    <3> SUFFICES ASSUME walk.calm, N = C, ~w.truncated
                 PROVE  /\ \A n \in Inner \cap Nodes(g) : n \in seen \cup Nodes(q2)
                        /\ \A v \in seen :
                             /\ \A c \in Folders : live.parent[c] = v => c \in Nodes(g)
                             /\ \/ v = p
                                \/ \A c \in Projects : live.parent[c] = v => c \in Nodes(g)
      BY <1>1, <2>7, <2>9, <2>10 DEF Faithful, Queued, item, calm
    <3>1. ~walk.truncated /\ \A c \in C : Found(c, g)
      BY <2>4 DEF g
    <3>2. /\ \A n \in Inner \cap Nodes(walk.found) : n \in walk.visited \cup Nodes(walk.queue)
          /\ \A v \in walk.visited :
                /\ \A c \in Folders : live.parent[c] = v => c \in Nodes(walk.found)
                /\ \A c \in Projects : live.parent[c] = v => c \in Nodes(walk.found)
      BY <1>1, <1>3, <3>1 DEF WalkInv, Faithful, Queued
    <3>3. \A c \in C : c \in Nodes(g)
      BY <3>1 DEF Found, Nodes
    <3>4. \A n \in Inner \cap Nodes(g) : n \in seen \cup Nodes(q2)
      BY <2>7, <3>2
    <3> QED BY <2>10, <3>2, <3>3, <3>4 DEF C, Children
  <2> QED BY <2>9, <2>10, <2>11, <2>12 DEF WalkInv
<1> QED BY <1>4, <1>5, <1>6

LEMMA ProjectsWalked ==
  ASSUME WalkInv, WalkProjects
  PROVE  WalkInv'
<1> DEFINE p == Head(walk.queue).node
           C == Children(p, Projects)
<1>1. /\ walk \in Walks /\ walk.projects /\ live' = live /\ walk.queue # <<>>
      /\ walk.queue \in Seq(Item) /\ walk.found \in Seq(Entry) /\ walk.visited \subseteq Inner
      /\ walk.found # <<>> /\ p \in walk.visited /\ p \in Nodes(walk.found)
  BY DEF WalkProjects, WalkInv, Walks, WalkOrder
<1>2. /\ Tail(walk.queue) \in Seq(Item)
      /\ Nodes(Tail(walk.queue)) \subseteq Nodes(walk.queue)
      /\ Nodes(walk.queue) \subseteq {p} \cup Nodes(Tail(walk.queue))
  BY <1>1, QueueShrinks
<1>0. PICK N \in SUBSET C : \E w \in Listing([walk EXCEPT !.calm = @ /\ N = C], p, N) :
        walk' = [w EXCEPT !.projects = FALSE, !.queue = Tail(@)]
  BY DEF WalkProjects
<1> DEFINE calm == walk.calm /\ N = C
           w0 == [walk EXCEPT !.calm = @ /\ N = C]
<1>3. PICK w \in Listing(w0, p, N) :
        walk' = [w EXCEPT !.projects = FALSE, !.queue = Tail(@)]
  BY <1>0
<1>02. /\ w0 \in Walks /\ w0.found = walk.found /\ w0.queue = walk.queue
       /\ w0.visited = walk.visited
       /\ w0.truncated = walk.truncated /\ w0.calm = calm
  <2>1. calm \in BOOLEAN
    OBVIOUS
  <2>2. w0 = [walk EXCEPT !.calm = calm]
    BY <1>1 DEF Walks
  <2> HIDE DEF calm, w0
  <2> QED BY <1>1, <2>1, <2>2 DEF Walks
<1>4. IsFiniteSet(N) /\ N \subseteq Inner \cup Projects
  <2>1. IsFiniteSet(C) /\ C \subseteq Inner \cup Projects
    BY ChildrenAre
  <2> QED BY <2>1, FS_Subset
<1> HIDE DEF p, C, calm, w0
<1>5. /\ w \in Walks
      /\ Extends(walk.found, w.found, p, N)
      /\ w = [w0 EXCEPT !.found = w.found, !.truncated = w.truncated]
      /\ ~w.truncated => ~walk.truncated /\ \A c \in N : Found(c, w.found)
  <2>1. /\ w \in Walks
        /\ Extends(w0.found, w.found, p, N)
        /\ w = [w0 EXCEPT !.found = w.found, !.truncated = w.truncated]
        /\ ~w.truncated => ~w0.truncated /\ \A c \in N : Found(c, w.found)
    BY <1>1, <1>02, <1>3, <1>4, ListingExtends
  <2> QED BY <1>02, <2>1
<1>6. w.queue = walk.queue /\ w.visited = walk.visited /\ w.calm = calm
  BY <1>02, <1>5 DEF Walks
<1> DEFINE g == w.found
<1>7. /\ walk' \in Walks /\ walk'.queue = Tail(walk.queue) /\ walk'.visited = walk.visited
      /\ walk'.found = g /\ walk'.truncated = w.truncated
      /\ walk'.projects = FALSE /\ walk'.calm = calm
  BY <1>2, <1>3, <1>5, <1>6 DEF Walks
<1>8. /\ FoundIsTree(g) /\ g # <<>> /\ Nodes(walk.found) \subseteq Nodes(g)
      /\ Nodes(g) \subseteq Nodes(walk.found) \cup Projects
      /\ walk.calm => \A i \in 2..Len(g) : live.parent[g[i].node] = g[i].parent
  <2>1. Below(N, p, Projects) /\ Extends(walk.found, g, p, N)
    BY <1>5 DEF C, Below
  <2>2. p \in Inner
    BY <1>1
  <2> HIDE DEF g
  <2>3. Projects \in {Folders, Projects}
    OBVIOUS
  <2> QED BY <1>1, <2>1, <2>2, <2>3, OneListing
<1> HIDE DEF g
<1>9. WalkOrder'
  BY <1>1, <1>2, <1>7, <1>8 DEF WalkInv, WalkOrder, Queued
<1>10. Faithful'
  <2> SUFFICES ASSUME walk.calm, N = C, ~w.truncated
               PROVE  /\ \A n \in Inner \cap Nodes(g) :
                            n \in walk.visited \cup Nodes(Tail(walk.queue))
                      /\ \A v \in walk.visited :
                           /\ \A c \in Folders : live.parent[c] = v => c \in Nodes(g)
                           /\ \A c \in Projects : live.parent[c] = v => c \in Nodes(g)
    BY <1>1, <1>7, <1>8 DEF Faithful, Queued, calm
  <2>1. ~walk.truncated /\ \A c \in C : Found(c, g)
    BY <1>5 DEF g
  <2>2. /\ \A n \in Inner \cap Nodes(walk.found) : n \in walk.visited \cup Nodes(walk.queue)
        /\ \A v \in walk.visited :
              /\ \A c \in Folders : live.parent[c] = v => c \in Nodes(walk.found)
              /\ \/ v = p
                 \/ \A c \in Projects : live.parent[c] = v => c \in Nodes(walk.found)
    BY <1>1, <2>1 DEF WalkInv, Faithful, Queued, p
  <2>3. \A c \in C : c \in Nodes(g)
    BY <2>1 DEF Found, Nodes
  <2>4. Inner \cap Projects = {}
    BY FetchAssumption DEF Inner
  <2>5. \A n \in Inner \cap Nodes(g) : n \in walk.visited \cup Nodes(Tail(walk.queue))
    BY <1>1, <1>2, <1>8, <2>2, <2>4
  <2> QED BY <1>8, <2>2, <2>3, <2>5 DEF C, Children
<1> QED BY <1>7, <1>8, <1>9, <1>10 DEF WalkInv

LEMMA WalkStep ==
  ASSUME FetchTypeOK, WalkInv, [Next]_vars
  PROVE  WalkInv'
<1>1. CASE BeginWalk \/ WalkFolders \/ WalkProjects
  BY <1>1, WalkBegins, FoldersWalked, ProjectsWalked
<1>2. CASE walk' = NoWalk
  <2>1. NoWalk \in Walks
    BY DEF NoWalk, Walks
  <2> QED BY <1>2, <2>1 DEF WalkInv, FoundIsTree, WalkOrder, Faithful, NoWalk, Queued, Nodes
<1>3. CASE Change
  <2>1. /\ walk' = [walk EXCEPT !.calm = walk.calm /\ (walk.found = <<>> \/ live'.parent = live.parent)]
        /\ walk \in Walks
    BY <1>3 DEF Change, WalkInv
  <2>2. /\ walk' \in Walks /\ walk'.queue = walk.queue /\ walk'.visited = walk.visited
        /\ walk'.found = walk.found /\ walk'.truncated = walk.truncated
        /\ walk'.projects = walk.projects
        /\ walk'.calm => walk.calm /\ (walk.found = <<>> \/ live'.parent = live.parent)
    BY <2>1 DEF Walks
  <2>3. WalkOrder'
    BY <2>2 DEF WalkInv, WalkOrder, Queued
  <2>4. Faithful'
    BY <2>2 DEF WalkInv, Faithful, Queued
  <2> QED BY <2>2, <2>3, <2>4 DEF WalkInv
<1>4. CASE UNCHANGED <<walk, live>>
  BY <1>4 DEF WalkInv, WalkOrder, Faithful, Queued
<1>5. \/ BeginWalk \/ WalkFolders \/ WalkProjects \/ walk' = NoWalk \/ Change
      \/ UNCHANGED <<walk, live>>
  BY DEF Next, Step, NotWanted, FetchPlain, FetchPrincipals, FetchFirewallRules,
         FetchNetworkTags, FetchResourceTypes, KillInCache, EndWalk, Fail, Finish, Begin, vars
<1> QED BY <1>1, <1>2, <1>3, <1>4, <1>5

\* A walk that ended with nothing left out is the hierarchy.
Whole(tree, calm) ==
  /\ \A i \in 2..Len(tree) : \E j \in 1..(i - 1) : tree[j].node = tree[i].parent
  /\ Cardinality(Nodes(tree)) = Len(tree)
  /\ calm => \E parent \in Trees :
                /\ Nodes(tree) = {Root} \cup Attached(parent)
                /\ \A i \in 2..Len(tree) : parent[tree[i].node] = tree[i].parent

LEMMA WalkIsWhole ==
  ASSUME FetchTypeOK, WalkInv,
         walk.found # <<>>, walk.queue = <<>>, ~walk.truncated, ~walk.projects
  PROVE  Whole(walk.found, walk.calm)
<1> DEFINE f == walk.found
           n == Len(f)
           S == Nodes(f)
<1>1. f \in Seq(Entry) /\ n \in Nat /\ 1 \in 1..n /\ \A i \in 1..n : f[i] \in Entry
  BY EmptySeq DEF WalkInv, Walks
<1>2. FoundIsTree(f)
  BY DEF WalkInv
<1>3. Cardinality(S) = n
  <2> DEFINE at == [i \in 1..n |-> f[i].node]
  <2>1. at \in Bijection(1..n, S)
    <3>1. at \in [1..n -> S]
      BY DEF Nodes
    <3>2. \A a, b \in 1..n : at[a] = at[b] => a = b
      BY <1>2 DEF FoundIsTree
    <3>3. \A s \in S : \E a \in 1..n : at[a] = s
      BY DEF Nodes
    <3> HIDE DEF at, S
    <3> QED BY <3>1, <3>2, <3>3 DEF Bijection, Injection, Surjection, IsInjective
  <2>2. ExistsBijection(1..n, S)
    BY <2>1 DEF ExistsBijection
  <2>3. IsFiniteSet(1..n) /\ Cardinality(1..n) = n
    <3>1. 1 \in Int /\ n \in Int /\ ~(1 > n) /\ n - 1 + 1 = n
      BY <1>1
    <3> HIDE DEF n
    <3> QED BY <3>1, FS_Interval
  <2> QED BY <2>2, <2>3, FS_Bijection
<1>4. ASSUME walk.calm
      PROVE  /\ S = {Root} \cup Attached(live.parent)
             /\ \A i \in 2..n : live.parent[f[i].node] = f[i].parent
  <2>1. /\ \A i \in 2..n : live.parent[f[i].node] = f[i].parent
        /\ \A m \in Inner \cap S : m \in walk.visited \cup Nodes(<<>>)
        /\ \A v \in walk.visited :
              /\ \A c \in Folders : live.parent[c] = v => c \in S
              /\ \A c \in Projects : live.parent[c] = v => c \in S
    BY <1>4 DEF WalkInv, Faithful, Queued
  <2>2. /\ live.parent \in Trees
        /\ live.parent \in [Folders \cup Projects -> Folders \cup {Root, Nowhere}]
    BY FetchAssumption DEF FetchTypeOK
  <2>3. Nodes(<<>>) = {}
    BY DEF Nodes
  <2>4. Root \in S /\ S \subseteq Inner \cup Projects
    BY <1>1, <1>2 DEF Nodes, FoundIsTree, Entry
  <2>5. \A i \in 2..n : f[i].node \in Attached(live.parent)
    <3> SUFFICES ASSUME NEW i \in 2..n PROVE f[i].node \in Attached(live.parent)
      OBVIOUS
    <3>1. i \in 1..n /\ i # 1
      OBVIOUS
    <3>2. f[i].node # f[1].node
      BY <1>1, <1>2, <3>1 DEF FoundIsTree
    <3>3. f[i].node \in Folders \cup Projects
      BY <1>1, <1>2, <3>1, <3>2 DEF FoundIsTree, Entry, Inner
    <3>4. PICK j \in 1..(i - 1) : f[j].node = f[i].parent
      BY <1>2 DEF FoundIsTree
    <3>5. j \in 1..n
      BY <1>1
    <3>6. f[i].parent # Nowhere
      BY <1>1, <3>4, <3>5, FetchAssumption DEF Entry, Inner
    <3> QED BY <2>1, <3>3, <3>6 DEF Attached
  <2>6. S \subseteq {Root} \cup Attached(live.parent)
    <3>1. \A i \in 1..n : i = 1 \/ i \in 2..n
      BY <1>1
    <3>2. f[1].node = Root
      BY <1>1, <1>2 DEF FoundIsTree
    <3> QED BY <2>5, <3>1, <3>2 DEF Nodes
  <2>7. ASSUME NEW c \in Folders \cup Projects, live.parent[c] \in S PROVE c \in S
    <3>1. live.parent[c] \in Inner
      BY <2>2, <2>4, <2>7, FetchAssumption DEF Inner
    <3>2. live.parent[c] \in walk.visited
      BY <2>1, <2>3, <2>7, <3>1
    <3> QED BY <2>1, <3>2
  <2> HIDE DEF S
  <2>8. Rooted(live.parent)
    BY <2>2, FetchAssumption
  <2>9. Attached(live.parent) \subseteq S
    BY <2>4, <2>7, <2>8 DEF Rooted, Inner
  <2> QED BY <2>1, <2>4, <2>6, <2>9
<1>5. live.parent \in Trees
  BY DEF FetchTypeOK
<1> QED BY <1>2, <1>3, <1>4, <1>5 DEF Whole, FoundIsTree

\* From the end of the walk to the end of the capture, the walk stays as it is.
LEMMA WalkedOutStep ==
  ASSUME FetchTypeOK, WalkInv, WalkedOut, [Next]_vars
  PROVE  WalkedOut'
<1> DEFINE rh == "resource_hierarchy"
<1>0. /\ cap.data \in Data /\ cap.step \in 1..19 /\ rh \in Range(Categories)
      /\ {"principals", "iam_bindings"} \subseteq Range(Categories)
  BY Places DEF FetchTypeOK
<1>1. ASSUME cap'.data = Nothing PROVE WalkedOut'
  BY <1>0, <1>1 DEF WalkedOut, Nothing, Uncaptured
<1>2. ASSUME NEW data \in Data, Stepping, Proceed(data), data[rh] = cap.data[rh], walk' = walk
      PROVE  WalkedOut'
  BY <1>0, <1>2, ProceedTyped, SMTT(30) DEF WalkedOut
<1>3. ASSUME NEW c \in Range(Categories), c # rh, Stepping, walk' = walk,
             NEW r \in [at : Nat, of : SUBSET (Tags \cup Members), captured : BOOLEAN],
             Proceed([cap.data EXCEPT ![c] = r])
      PROVE  WalkedOut'
  <2>1. [cap.data EXCEPT ![c] = r] \in Data
    BY <1>0, DataTyped
  <2>2. [cap.data EXCEPT ![c] = r][rh] = cap.data[rh]
    BY <1>0, <1>3 DEF Data
  <2> QED BY <1>2, <1>3, <2>1, <2>2
<1>4. ASSUME NEW c, c \in {"firewall_rules", "network_tags", "resource_types"} \/ c \in Plain,
             Stepping, Category = c
      PROVE  c \in Range(Categories) /\ c # rh
  BY <1>4, OneOn DEF Plain
<1>5. CASE NotWanted
  BY <1>0, <1>2, <1>5 DEF NotWanted
<1>6. CASE FetchPlain
  BY <1>3, <1>4, <1>6, ReadTyped DEF FetchPlain
<1>7. CASE FetchPrincipals
  <2> DEFINE pair == [cap.data EXCEPT !["principals"] = Read(live.members),
                         !["iam_bindings"] = IF Wants(cap.request, "iam_bindings")
                                             THEN Read(live.members) ELSE @]
  <2>1. Read(live.members) \in [at : Nat, of : SUBSET (Tags \cup Members), captured : BOOLEAN]
    BY ReadTyped DEF FetchTypeOK
  <2>2. pair \in Data /\ pair[rh] = cap.data[rh]
    BY <1>0, <2>1 DEF Data
  <2> HIDE DEF pair
  <2>3. Proceed(IF Category = "principals" THEN pair ELSE cap.data)
    BY <1>7 DEF FetchPrincipals, pair
  <2>4. Stepping /\ walk' = walk
    BY <1>7 DEF FetchPrincipals
  <2> QED BY <1>0, <1>2, <2>2, <2>3, <2>4
<1>8. CASE FetchFirewallRules
  <2>1. Read(live.tags) \in [at : Nat, of : SUBSET (Tags \cup Members), captured : BOOLEAN]
    BY ReadTyped DEF FetchTypeOK
  <2> QED BY <1>3, <1>4, <1>8, <2>1 DEF FetchFirewallRules
<1>9. CASE FetchNetworkTags
  <2>1. PICK ofInstances \in SUBSET Tags :
          Proceed([cap.data EXCEPT ![Category] =
                      Read(cap.data["firewall_rules"].of \cup ofInstances)])
    BY <1>9 DEF FetchNetworkTags
  <2>2. cap.data["firewall_rules"].of \cup ofInstances \in SUBSET (Tags \cup Members)
    BY <1>0, Places DEF Data
  <2>3. Read(cap.data["firewall_rules"].of \cup ofInstances)
           \in [at : Nat, of : SUBSET (Tags \cup Members), captured : BOOLEAN]
    BY <2>2, ReadTyped
  <2> QED BY <1>3, <1>4, <1>9, <2>1, <2>3 DEF FetchNetworkTags
<1>10. CASE FetchResourceTypes
  <2>1. cache'.at \in Nat
    BY <1>10 DEF FetchResourceTypes, FetchTypeOK
  <2>2. [at |-> cache'.at, of |-> {}, captured |-> TRUE]
          \in [at : Nat, of : SUBSET (Tags \cup Members), captured : BOOLEAN]
    BY <2>1
  <2> QED BY <1>3, <1>4, <1>10, <2>2 DEF FetchResourceTypes
<1>11. CASE EndWalk
  <2>1. /\ walk.found # <<>> /\ walk.queue = <<>> /\ walk' = walk /\ Stepping /\ Category = rh
        /\ Proceed(IF walk.truncated THEN cap.data ELSE [cap.data EXCEPT ![rh] = Read({})])
    BY <1>11 DEF EndWalk, Walking
  <2>2. ~walk.projects
    BY <2>1 DEF WalkInv, WalkOrder
  <2>3. CASE walk.truncated
    BY <1>0, <1>2, <2>1, <2>3
  <2>4. CASE ~walk.truncated
    <3>1. [cap.data EXCEPT ![rh] = Read({})] \in Data
      BY <1>0, ReadTyped, DataTyped
    <3>2. Proceed([cap.data EXCEPT ![rh] = Read({})])
      BY <2>1, <2>4
    <3>3. cap.step = 8
      BY <2>1, OneOn, PlaceOf
    <3>4. cap'.step > 8
      BY <2>1, <3>1, <3>2, <3>3, ProceedTyped
    <3> QED BY <2>1, <2>2, <2>4, <3>4 DEF WalkedOut
  <2> QED BY <2>3, <2>4
<1>12. CASE KillInCache \/ Fail \/ Finish
  BY <1>1, <1>12 DEF KillInCache, Fail, Finish, NoCapture
<1>13. ASSUME NEW request \in Requests, Begin(request) PROVE WalkedOut'
  <2>1. cap'.data = Nothing
    BY <1>13 DEF Begin, NoCapture
  <2> QED BY <1>1, <2>1
<1>14. CASE BeginWalk \/ WalkFolders \/ WalkProjects
  <2>1. Stepping /\ Category = rh /\ cap' = cap
    BY <1>14 DEF BeginWalk, WalkFolders, WalkProjects, Walking
  <2>2. cap.step = 8
    BY <2>1, OneOn, PlaceOf
  <2> QED BY <2>1, <2>2 DEF WalkedOut
<1>15. CASE Change
  <2>1. walk' = [walk EXCEPT !.calm = walk.calm /\ (walk.found = <<>> \/ live'.parent = live.parent)]
        /\ walk \in Walks /\ cap' = cap
    BY <1>15 DEF Change, WalkInv
  <2>2. /\ walk'.queue = walk.queue /\ walk'.found = walk.found
        /\ walk'.truncated = walk.truncated /\ walk'.projects = walk.projects
    BY <2>1 DEF Walks
  <2> QED BY <2>1, <2>2 DEF WalkedOut
<1>16. CASE UNCHANGED vars
  BY <1>16 DEF vars, WalkedOut
<1> QED
  BY <1>5, <1>6, <1>7, <1>8, <1>9, <1>10, <1>11, <1>12, <1>13, <1>14, <1>15, <1>16
     DEF Next, Step

-----------------------------------------------------------------------------
(* The capture as a whole.                                                 *)

LEMMA WholeStep ==
  ASSUME FetchTypeOK, WalkInv, WalkedOut, HierarchyIsWhole, [Next]_vars
  PROVE  HierarchyIsWhole'
<1>1. CASE Finish
  <2>1. /\ snapshot'.data = cap.data /\ snapshot'.tree = walk.found
        /\ snapshot'.calm = walk.calm
    BY <1>1 DEF Finish
  <2>2. cap.data["resource_hierarchy"].captured => Whole(walk.found, walk.calm)
    BY WalkIsWhole DEF WalkedOut
  <2> QED BY <2>1, <2>2 DEF HierarchyIsWhole, Whole
<1>2. CASE snapshot' = snapshot
  BY <1>2 DEF HierarchyIsWhole
<1>3. Finish \/ snapshot' = snapshot
  BY DEF Next, Step, NotWanted, FetchPlain, FetchPrincipals, FetchFirewallRules,
         FetchNetworkTags, FetchResourceTypes, KillInCache, BeginWalk, WalkFolders,
         WalkProjects, EndWalk, Fail, Begin, Change, vars
<1> QED BY <1>1, <1>2, <1>3

LEMMA FetchTypeStep ==
  ASSUME FetchTypeOK, WalkInv, [Next]_vars
  PROVE  FetchTypeOK'
<1> DEFINE Caps == [busy : BOOLEAN, request : {{}} \cup Requests, step : 1..19, stamp : Nat,
                    data : Data]
           Snapshots == [stamp : Nat, data : Data, tree : Seq(Entry), calm : BOOLEAN]
           Reading == [at : Nat, of : SUBSET (Tags \cup Members), captured : BOOLEAN]
           Caches == [there : BOOLEAN, good : BOOLEAN, at : Nat]
           Lives == [parent : Trees, tags : SUBSET Tags, members : SUBSET Members]
<1>0. /\ cap \in Caps /\ snapshot \in Snapshots /\ cache \in Caches /\ live \in Lives
      /\ clock \in Nat /\ walk \in Walks /\ cap.data \in Data
  BY DEF FetchTypeOK
<1>1. walk' \in Walks
  BY WalkStep DEF WalkInv
<1>2. NoCapture \in Caps
  <2>1. Nothing \in Data
    BY DEF Nothing, Data, Uncaptured
  <2> QED BY <2>1 DEF NoCapture
<1>3. ASSUME NEW data \in Data, Stepping, Proceed(data) PROVE cap' \in Caps
  BY <1>3, ProceedTyped
<1>4. ASSUME NEW r \in Reading, Stepping, Proceed([cap.data EXCEPT ![Category] = r])
      PROVE  cap' \in Caps
  BY <1>0, <1>3, <1>4, OneOn, DataTyped
<1>5. live' \in Lives /\ clock' \in Nat
  <2>1. CASE Change
    <3>1. \/ \E tree \in Trees : live' = [live EXCEPT !.parent = tree]
          \/ \E tags \in SUBSET Tags : live' = [live EXCEPT !.tags = tags]
          \/ \E members \in SUBSET Members : live' = [live EXCEPT !.members = members]
      BY <2>1 DEF Change
    <3>2. live' \in Lives
      BY <1>0, <3>1
    <3>3. clock' \in Nat
      BY <1>0, <2>1 DEF Change
    <3> QED BY <3>2, <3>3
  <2>2. CASE UNCHANGED <<live, clock>>
    BY <1>0, <2>2
  <2>3. Change \/ UNCHANGED <<live, clock>>
    BY DEF Next, Step, NotWanted, FetchPlain, FetchPrincipals, FetchFirewallRules,
           FetchNetworkTags, FetchResourceTypes, KillInCache, BeginWalk, WalkFolders,
           WalkProjects, EndWalk, Fail, Finish, Begin, vars
  <2> QED BY <2>1, <2>2, <2>3
<1>6. cache' \in Caches
  <2>1. ASSUME NEW good \in BOOLEAN, cache' = [there |-> TRUE, good |-> good, at |-> clock]
        PROVE  cache' \in Caches
    BY <1>0, <2>1
  <2>2. CASE KillInCache \/ FetchResourceTypes
    <3>1. cache' = cache \/ \E good \in BOOLEAN :
                                cache' = [there |-> TRUE, good |-> good, at |-> clock]
      BY <2>2 DEF KillInCache, FetchResourceTypes
    <3> QED BY <1>0, <2>1, <3>1
  <2>3. CASE cache' = cache
    BY <1>0, <2>3
  <2>4. KillInCache \/ FetchResourceTypes \/ cache' = cache
    BY DEF Next, Step, NotWanted, FetchPlain, FetchPrincipals, FetchFirewallRules,
           FetchNetworkTags, BeginWalk, WalkFolders, WalkProjects, EndWalk, Fail,
           Finish, Begin, Change, vars
  <2> QED BY <2>2, <2>3, <2>4
<1>7. snapshot' \in Snapshots
  <2>1. CASE Finish
    <3>1. cap.stamp \in Nat /\ walk.found \in Seq(Entry) /\ walk.calm \in BOOLEAN
      BY <1>0 DEF Walks
    <3>2. snapshot' = [stamp |-> cap.stamp, data |-> cap.data, tree |-> walk.found,
                       calm |-> walk.calm]
      BY <2>1 DEF Finish
    <3> QED BY <1>0, <3>1, <3>2
  <2>2. CASE snapshot' = snapshot
    BY <1>0, <2>2
  <2>3. Finish \/ snapshot' = snapshot
    BY DEF Next, Step, NotWanted, FetchPlain, FetchPrincipals, FetchFirewallRules,
           FetchNetworkTags, FetchResourceTypes, KillInCache, BeginWalk, WalkFolders,
           WalkProjects, EndWalk, Fail, Begin, Change, vars
  <2> QED BY <2>1, <2>2, <2>3
<1>8. cap' \in Caps
  <2>1. CASE NotWanted
    BY <1>0, <1>3, <2>1 DEF NotWanted
  <2>2. CASE FetchPlain
    BY <1>4, <2>2, ReadTyped DEF FetchPlain
  <2>3. CASE FetchPrincipals
    <3> DEFINE pair == [cap.data EXCEPT !["principals"] = Read(live.members),
                           !["iam_bindings"] = IF Wants(cap.request, "iam_bindings")
                                               THEN Read(live.members) ELSE @]
    <3>1. Read(live.members) \in Reading
      BY <1>0, ReadTyped
    <3>2. pair \in Data
      BY <1>0, <3>1 DEF Data
    <3> HIDE DEF pair
    <3>3. Proceed(IF Category = "principals" THEN pair ELSE cap.data)
      BY <2>3 DEF FetchPrincipals, pair
    <3>4. Stepping
      BY <2>3 DEF FetchPrincipals
    <3> QED BY <1>0, <1>3, <3>2, <3>3, <3>4
  <2>4. CASE FetchFirewallRules
    <3>1. Read(live.tags) \in Reading
      BY <1>0, ReadTyped
    <3> QED BY <1>4, <2>4, <3>1 DEF FetchFirewallRules
  <2>5. CASE FetchNetworkTags
    <3>1. PICK ofInstances \in SUBSET Tags :
            Proceed([cap.data EXCEPT ![Category] =
                        Read(cap.data["firewall_rules"].of \cup ofInstances)])
      BY <2>5 DEF FetchNetworkTags
    <3>2. cap.data["firewall_rules"].of \cup ofInstances \in SUBSET (Tags \cup Members)
      BY <1>0, Places DEF Data
    <3>3. Read(cap.data["firewall_rules"].of \cup ofInstances) \in Reading
      BY <3>2, ReadTyped
    <3> QED BY <1>4, <2>5, <3>1, <3>3 DEF FetchNetworkTags
  <2>6. CASE FetchResourceTypes
    <3>1. [at |-> cache'.at, of |-> {}, captured |-> TRUE] \in Reading
      BY <1>6
    <3> QED BY <1>4, <2>6, <3>1 DEF FetchResourceTypes
  <2>7. CASE EndWalk
    <3>1. Read({}) \in Reading
      BY ReadTyped
    <3>2. [cap.data EXCEPT ![Category] = Read({})] \in Data
      BY <1>0, <2>7, <3>1, OneOn, DataTyped DEF EndWalk, Walking
    <3> QED BY <1>0, <1>3, <2>7, <3>2 DEF EndWalk, Walking
  <2>8. ASSUME NEW request \in Requests, Begin(request) PROVE cap' \in Caps
    BY <1>0, <1>2, <2>8 DEF Begin
  <2>9. CASE KillInCache \/ Fail \/ Finish
    BY <1>2, <2>9 DEF KillInCache, Fail, Finish
  <2>10. CASE BeginWalk \/ WalkFolders \/ WalkProjects \/ Change \/ UNCHANGED vars
    <3>1. cap' = cap
      BY <2>10 DEF BeginWalk, WalkFolders, WalkProjects, Change, vars
    <3> QED BY <1>0, <3>1
  <2> QED BY <2>1, <2>2, <2>3, <2>4, <2>5, <2>6, <2>7, <2>8, <2>9, <2>10 DEF Next, Step
<1> QED BY <1>1, <1>5, <1>6, <1>7, <1>8 DEF FetchTypeOK

LEMMA FetchInductive == Spec => []FetchInv
<1>1. FetchInv /\ [Next]_vars => FetchInv'
  <2> SUFFICES ASSUME FetchInv, [Next]_vars PROVE FetchInv'
    OBVIOUS
  <2>1. WalkInv
    BY DEF FetchInv, FetchTypeOK, WalkInv
  <2>2. FetchTypeOK' /\ WalkInv'
    BY <2>1, FetchTypeStep, WalkStep DEF FetchInv
  <2>3. Derived' /\ DerivedAgree'
    BY DerivedStep DEF FetchInv
  <2>4. WalkedOut' /\ HierarchyIsWhole'
    BY <2>1, WalkedOutStep, WholeStep DEF FetchInv
  <2> QED BY <2>2, <2>3, <2>4 DEF FetchInv, WalkInv
<1> QED BY <1>1, FetchInit, PTL DEF Spec

\* A hierarchy that is captured is a tree whatever moved while it was walked,
\* and the whole estate's if nothing did (fetch.py, the walk of the hierarchy).
THEOREM HierarchyIsCaptured == Spec => []HierarchyIsWhole
<1>1. FetchInv => HierarchyIsWhole
  BY DEF FetchInv
<1> QED BY <1>1, FetchInductive, PTL

\* Members of captured bindings are captured principals, and tags of captured
\* rules captured tags, whatever changed between the calls (fetch.py, the one
\* pass over the bindings and the tags taken from the rules already read).
THEOREM DerivedTablesAgree == Spec => []DerivedAgree
<1>1. FetchInv => DerivedAgree
  BY DEF FetchInv
<1> QED BY <1>1, FetchInductive, PTL
=============================================================================
