------------------------- MODULE LocalCatalogProofs -------------------------
(***************************************************************************)
(* LocalCatalog for every number of processes, bundles and commands: what  *)
(* CatalogInv says holds in every reachable state, and with it the six     *)
(* invariants of the run.                                                  *)
(*                                                                         *)
(* Each part of CatalogInv has a lemma with one step per action that can   *)
(* disturb it; the steps that leave its variables alone are taken together.*)
(***************************************************************************)
EXTENDS LocalCatalog, FiniteSetTheorems, TLAPS

USE CatalogAssumption

------------------------------------------------------------------------------
(* Types.                                                                   *)

(* What a process holds when it starts a command has its type.              *)
LEMMA BlankType == ASSUME NEW r \in 0..MaxCommands PROVE [Blank EXCEPT !.run = r] \in Held
BY DEF Blank, Held

\* A bundle's directory has a content, is clean or not, and holds bytecode or not.
LEMMA DirectoryFields ==
  ASSUME NEW d \in Directory
  PROVE  d.content \in Contents /\ d.clean \in BOOLEAN /\ d.cached \in BOOLEAN
BY DEF Directory

\* What is noted of a run's bundle stays a note (CheckFiles, Load, Edit).
LEMMA LoadedFields ==
  /\ [runs |-> FALSE, clean |-> TRUE, cached |-> FALSE, touched |-> FALSE] \in Loaded
  /\ \A l \in Loaded, b, c \in BOOLEAN :
       [l EXCEPT !.runs = TRUE, !.cached = c, !.clean = b] \in Loaded
  /\ \A l \in Loaded : [l EXCEPT !.touched = TRUE] \in Loaded
<1>1. [runs |-> FALSE, clean |-> TRUE, cached |-> FALSE, touched |-> FALSE] \in Loaded
  BY DEF Loaded
<1>2. ASSUME NEW l \in Loaded, NEW b \in BOOLEAN, NEW c \in BOOLEAN
      PROVE  [l EXCEPT !.runs = TRUE, !.cached = c, !.clean = b] \in Loaded
  BY DEF Loaded
<1>3. ASSUME NEW l \in Loaded PROVE [l EXCEPT !.touched = TRUE] \in Loaded
  BY DEF Loaded
<1> QED
  BY <1>1, <1>2, <1>3

\* A command that ends leaves an exit code and forgets what it held (End).
LEMMA EndType ==
  ASSUME TypeOK, NEW p \in Procs, NEW from \in Places,
         NEW command \in {"install", "login", "run", "declined", "report"}, NEW code \in 0..2,
         End(p, from, command, code)
  PROVE  /\ pc' \in [Procs -> Places]
         /\ held' \in [Procs -> Held]
         /\ exit' \in [Procs -> Ending \cup {Nothing}]
<1>1. [Blank EXCEPT !.run = 0] \in Held
  BY BlankType
<1>2. [command |-> command, code |-> code, run |-> held[p].run] \in Ending
  BY DEF TypeOK, Held, Ending
<1> QED
  BY <1>1, <1>2 DEF End, Go, HoldRun, TypeOK, Places

\* A command that begins holds its run and nothing else (Begin).
LEMMA BeginType ==
  ASSUME TypeOK, NEW p \in Procs, NEW at \in Places, NEW r \in 0..MaxCommands, Begin(p, at, r)
  PROVE  TypeOK'
<1>1. [Blank EXCEPT !.run = r] \in Held
  BY BlankType
<1> QED
  BY <1>1 DEF Begin, Go, HoldRun, TypeOK, files, tokens, reports

\* Installing keeps every file and process in its type.
LEMMA InstallType == ASSUME TypeOK, NEW p \in Procs, Install(p) PROVE TypeOK'
<1> USE DEF files, tokens, reports, history
<1>1. CASE Begin(p, "fetch", 0)
  BY <1>1, BeginType DEF Places
<1>2. CASE InstallFetched(p)
  <2>1. CASE End(p, "fetch", "install", 1) /\ UNCHANGED staging
    <3>1. /\ pc' \in [Procs -> Places] /\ held' \in [Procs -> Held]
          /\ exit' \in [Procs -> Ending \cup {Nothing}]
      BY <2>1, EndType DEF Places
    <3> QED
      BY <1>2, <2>1, <3>1 DEF InstallFetched, TypeOK
  <2>2. ASSUME NEW c \in Contents, Go(p, "fetch", "exists"),
               staging' = [staging EXCEPT ![p] = [content |-> c, clean |-> TRUE, cached |-> FALSE]],
               UNCHANGED <<held, exit>>
        PROVE  TypeOK'
    BY <1>2, <2>2 DEF InstallFetched, TypeOK, Go, Places, Directory
  <2> QED
    BY <1>2, <2>1, <2>2 DEF InstallFetched
<1>3. CASE DestinationExists(p)
  BY <1>3 DEF DestinationExists, TypeOK, Go, Places
<1>4. ASSUME NEW from \in Places, InstallFails(p, from),
             UNCHANGED <<tokens, reports, now, begun, loaded>>
      PROVE  TypeOK'
  <2>1. /\ pc' \in [Procs -> Places] /\ held' \in [Procs -> Held]
        /\ exit' \in [Procs -> Ending \cup {Nothing}]
    BY <1>4, EndType DEF InstallFails
  <2> QED
    BY <1>4, <2>1 DEF InstallFails, TypeOK
<1>5. CASE Retire(p)
  BY <1>5, <1>4 DEF Retire, TypeOK, Go, Places
<1>6. ASSUME NEW from \in {"place", "swap"}, Place(p, from, "clean") PROVE TypeOK'
  BY <1>6, <1>4 DEF Place, TypeOK, Go, Places
<1>7. CASE CleanUp(p)
  <2>1. /\ pc' \in [Procs -> Places] /\ held' \in [Procs -> Held]
        /\ exit' \in [Procs -> Ending \cup {Nothing}]
    BY <1>7, EndType DEF CleanUp, Places
  <2> QED
    BY <1>7, <2>1 DEF CleanUp, TypeOK
<1> QED
  BY <1>1, <1>2, <1>3, <1>5, <1>6, <1>7 DEF Install

\* Logging in keeps the token files numbers, empty or torn.
LEMMA LoginType == ASSUME TypeOK, NEW p \in Procs, Login(p) PROVE TypeOK'
<1> USE DEF files, tokens, reports, history
<1>1. CASE Begin(p, "ask", 0)
  BY <1>1, BeginType DEF Places
<1>2. CASE LoginAnswered(p)
  <2>1. CASE End(p, "ask", "login", 1)
    <3>1. /\ pc' \in [Procs -> Places] /\ held' \in [Procs -> Held]
          /\ exit' \in [Procs -> Ending \cup {Nothing}]
      BY <2>1, EndType DEF Places
    <3> QED
      BY <1>2, <3>1 DEF LoginAnswered, TypeOK
  <2>2. ASSUME NEW e \in Expiry, Go(p, "ask", "open"), held' = [held EXCEPT ![p].expiry = e],
               UNCHANGED exit
        PROVE  TypeOK'
    <3>1. held' \in [Procs -> Held]
      BY <2>2 DEF TypeOK, Held, Expiry
    <3> QED
      BY <1>2, <2>2, <3>1 DEF LoginAnswered, TypeOK, Go, Places
  <2> QED
    BY <1>2, <2>1, <2>2 DEF LoginAnswered
<1>3. CASE OpenTemporary(p)
  <2>1. PICK i \in Inodes : /\ held' = [held EXCEPT ![p].inode = i]
                            /\ temporary' = i /\ inodes' = [inodes EXCEPT ![i] = Empty]
    BY <1>3 DEF OpenTemporary
  <2>2. held' \in [Procs -> Held]
    BY <2>1 DEF TypeOK, Held, Inodes
  <2> QED
    BY <1>3, <2>1, <2>2 DEF OpenTemporary, TypeOK, Go, Places
<1>4. CASE WriteToken(p)
  <2>1. held[p].expiry \in Expiry \cup {Empty, Torn}
    BY DEF TypeOK, Held, Expiry, Empty
  <2> QED
    BY <1>4, <2>1 DEF WriteToken, TypeOK, Go, Places
<1>5. CASE ReplaceToken(p)
  <2>1. /\ pc' \in [Procs -> Places] /\ held' \in [Procs -> Held]
        /\ exit' \in [Procs -> Ending \cup {Nothing}]
    BY <1>5, EndType DEF ReplaceToken, Places
  <2> QED
    BY <1>5, <2>1 DEF ReplaceToken, TypeOK
<1> QED
  BY <1>1, <1>2, <1>3, <1>4, <1>5 DEF Login

\* A run keeps its process' state typed; its record is typed because a run that
\* reaches its record has a status and a number.
LEMMA RunType == ASSUME TypeOK, CountedIsRecorded, CheckedIsSigned, NEW p \in Procs, Run(p) PROVE TypeOK'
<1> USE DEF files, tokens, reports, history
<1>1. ASSUME NEW from \in Places, NEW code \in 0..2, Refuse(p, from, code) PROVE TypeOK'
  <2>1. /\ pc' \in [Procs -> Places] /\ held' \in [Procs -> Held]
        /\ exit' \in [Procs -> Ending \cup {Nothing}]
    BY <1>1, EndType DEF Refuse
  <2> QED
    BY <1>1, <2>1 DEF Refuse, TypeOK
<1>2. CASE BeginRun(p)
  <2>1. PICK at \in {"refused", "entitle", "running"} :
          \/ at # "refused" /\ Begin(p, at, begun + 1)
          \/ /\ begun < MaxCommands /\ begun' = begun + 1
             /\ End(p, "idle", "run", 2)
             /\ UNCHANGED <<files, tokens, reports, now, history>>
    BY <1>2 DEF BeginRun, Start
  <2>2. CASE at # "refused" /\ Begin(p, at, begun + 1)
    <3>1. begun + 1 \in 0..MaxCommands
      BY <2>2 DEF Begin, TypeOK
    <3> QED
      BY <2>2, <3>1, BeginType DEF Places
  <2>3. CASE begun < MaxCommands /\ begun' = begun + 1 /\ End(p, "idle", "run", 2)
             /\ UNCHANGED <<files, tokens, reports, now, history>>
    <3>1. /\ pc' \in [Procs -> Places] /\ held' \in [Procs -> Held]
          /\ exit' \in [Procs -> Ending \cup {Nothing}]
      BY <2>3, EndType DEF Places
    <3> QED
      BY <2>3, <3>1 DEF TypeOK
  <2> QED
    BY <2>1, <2>2, <2>3
<1>3. CASE ReadToken(p)
  BY <1>3, <1>1 DEF ReadToken, TypeOK, Go, Places
<1>4. CASE ReadManifest(p)
  <2>1. ASSUME destination # Nothing, held' = [held EXCEPT ![p].content = destination.content]
        PROVE  held' \in [Procs -> Held]
    <3>1. destination.content \in Contents
      BY <2>1, DirectoryFields DEF TypeOK
    <3> QED
      BY <2>1, <3>1 DEF TypeOK, Held
  <2> QED
    BY <1>4, <1>1, <2>1 DEF ReadManifest, TypeOK, Go, Places
<1>5. CASE CheckFiles(p)
  <2>1. CASE Refuse(p, "check", 1)
    BY <2>1, <1>1 DEF Places
  <2>2. CASE ~Refuse(p, "check", 1)
    <3>1. loaded' \in [Procs -> Loaded \cup {Nothing}]
      BY <1>5, <2>2, LoadedFields DEF CheckFiles, TypeOK
    <3>2. pc' \in [Procs -> Places]
      BY <1>5, <2>2 DEF CheckFiles, Go, TypeOK, Places
    <3>3. UNCHANGED <<held, exit, files, tokens, reports, now, begun>>
      BY <1>5, <2>2 DEF CheckFiles
    <3> QED
      BY <3>1, <3>2, <3>3 DEF TypeOK
  <2> QED
    BY <2>1, <2>2
<1>6. CASE Load(p)
  <2>1. ASSUME destination # Nothing, pc[p] = "load", NEW cached \in {FALSE, destination.cached},
               loaded' = [loaded EXCEPT ![p].runs = TRUE, ![p].cached = cached,
                                        ![p].clean = destination.clean /\ ~cached]
        PROVE  loaded' \in [Procs -> Loaded \cup {Nothing}]
    <3>1. loaded[p] \in Loaded
      BY <2>1 DEF TypeOK, CheckedIsSigned
    <3>2. cached \in BOOLEAN /\ (destination.clean /\ ~cached) \in BOOLEAN
      BY <2>1, DirectoryFields DEF TypeOK
    <3>3. [loaded[p] EXCEPT !.runs = TRUE, !.cached = cached,
                            !.clean = destination.clean /\ ~cached] \in Loaded
      BY <3>1, <3>2, LoadedFields
    <3> QED
      BY <2>1, <3>3 DEF TypeOK
  <2>2. CASE Refuse(p, "load", 1)
    BY <2>2, <1>1 DEF Places
  <2>3. CASE ~Refuse(p, "load", 1)
    <3>1. loaded' \in [Procs -> Loaded \cup {Nothing}]
      BY <1>6, <2>1, <2>3 DEF Load, Go
    <3>2. pc' \in [Procs -> Places]
      BY <1>6, <2>3 DEF Load, Go, TypeOK, Places
    <3>3. UNCHANGED <<held, exit, files, tokens, reports, now, begun>>
      BY <1>6, <2>3 DEF Load
    <3> QED
      BY <3>1, <3>2, <3>3 DEF TypeOK
  <2> QED
    BY <2>2, <2>3
<1>7. CASE Product(p)
  <2>1. ASSUME NEW s \in {"succeeded", "failed"}, held' = [held EXCEPT ![p].status = s]
        PROVE  held' \in [Procs -> Held]
    BY <2>1 DEF TypeOK, Held
  <2> QED
    BY <1>7, <1>1, <2>1 DEF Product, TypeOK, Go, Places
<1>8. CASE WriteRecord(p)
  <2>1. held[p].run \in RunIds /\ held[p].status \in {"succeeded", "failed"}
    BY <1>8 DEF WriteRecord, CountedIsRecorded, KnowsItsRun, TypeOK, Held
  <2>2. [status |-> held[p].status, clientReportId |-> MintReportId(held[p].run)] \in Record
    BY <2>1 DEF Record, MintReportId, RunIds
  <2>3. records' \in [RunIds -> Record \cup {Nothing}]
    BY <1>8, <2>2 DEF WriteRecord, TypeOK
  <2>4. PICK code \in {0, 1} : End(p, "record", "run", code)
    BY <1>8 DEF WriteRecord
  <2>5. /\ pc' \in [Procs -> Places] /\ held' \in [Procs -> Held]
        /\ exit' \in [Procs -> Ending \cup {Nothing}]
    BY <2>4, EndType DEF Places
  <2> QED
    BY <1>8, <2>3, <2>5 DEF WriteRecord, TypeOK
<1> QED
  BY <1>2, <1>3, <1>4, <1>5, <1>6, <1>7, <1>8 DEF Run

\* What is counted is a run and the number in its record.
LEMMA ReportType == ASSUME TypeOK, CountedIsRecorded, NEW p \in Procs, Report(p) PROVE TypeOK'
<1> USE DEF files, tokens, reports, history
<1>1. CASE BeginReport(p)
  <2>1. PICK r \in 0..MaxCommands : Begin(p, "confirm", r)
    BY <1>1 DEF BeginReport, RunIds
  <2> QED
    BY <2>1, BeginType DEF Places
<1>2. CASE Confirm(p)
  <2>1. ASSUME NEW code \in {0, 2}, End(p, "confirm", "declined", code)
        PROVE  /\ pc' \in [Procs -> Places] /\ held' \in [Procs -> Held]
               /\ exit' \in [Procs -> Ending \cup {Nothing}]
    BY <2>1, EndType DEF Places
  <2> QED
    BY <1>2, <2>1 DEF Confirm, TypeOK, Go, Places
<1>3. CASE Send(p)
  <2>1. held[p].run \in RunIds /\ records[held[p].run] # Nothing
    BY <1>3 DEF Send, CountedIsRecorded, KnowsItsRun
  <2>2. <<held[p].run, ReportId(held[p].run)>> \in RunIds \X Nat
    BY <2>1 DEF ReportId, TypeOK, Record
  <2>3. counted' \in SUBSET (RunIds \X Nat)
    BY <1>3, <2>2 DEF Send, TypeOK
  <2>4. ASSUME End(p, "send", "report", 1)
        PROVE  /\ pc' \in [Procs -> Places] /\ held' \in [Procs -> Held]
               /\ exit' \in [Procs -> Ending \cup {Nothing}]
    BY <2>4, EndType DEF Places
  <2> QED
    BY <1>3, <2>3, <2>4 DEF Send, TypeOK, Go, Places
<1>4. CASE WriteReceipt(p)
  <2>1. pc[p] = "receipt" /\ \E code \in {0, 1} : End(p, "receipt", "report", code)
    BY <1>4 DEF WriteReceipt, End, Go
  <2>2. held[p].run \in RunIds
    BY <2>1 DEF CountedIsRecorded, KnowsItsRun
  <2>3. /\ pc' \in [Procs -> Places] /\ held' \in [Procs -> Held]
        /\ exit' \in [Procs -> Ending \cup {Nothing}]
    BY <2>1, EndType DEF Places
  <2> QED
    BY <1>4, <2>2, <2>3 DEF WriteReceipt, TypeOK
<1> QED
  BY <1>1, <1>2, <1>3, <1>4 DEF Report

(* Every step keeps the types.                                              *)
LEMMA NextType == TypeOK /\ CountedIsRecorded /\ CheckedIsSigned /\ [Next]_vars => TypeOK'
<1> SUFFICES ASSUME TypeOK, CountedIsRecorded, CheckedIsSigned, [Next]_vars PROVE TypeOK' OBVIOUS
<1> USE DEF files, tokens, reports, history
<1>1. ASSUME NEW p \in Procs, Killed(p) PROVE TypeOK'
  <2>1. [Blank EXCEPT !.run = 0] \in Held
    BY BlankType
  <2> QED
    BY <1>1, <2>1 DEF Killed, Go, HoldRun, TypeOK, Places
<1>2. CASE Edit
  <2>1. destination' \in Directory
    BY <1>2 DEF Edit, TypeOK, Directory
  <2>2. ASSUME NEW p \in Procs, loaded[p] # Nothing
        PROVE  [loaded[p] EXCEPT !.touched = TRUE] \in Loaded
    BY <2>2, LoadedFields DEF TypeOK
  <2>3. loaded' \in [Procs -> Loaded \cup {Nothing}]
    BY <1>2, <2>2 DEF Edit, TypeOK
  <2> QED
    BY <1>2, <2>1, <2>3 DEF Edit, TypeOK
<1>3. CASE Tick
  BY <1>3 DEF Tick, TypeOK
<1>4. CASE UNCHANGED vars
  BY <1>4 DEF vars, TypeOK
<1> QED
  BY <1>1, <1>2, <1>3, <1>4, InstallType, LoginType, RunType, ReportType DEF Next

(* The initial states have the types.                                       *)
LEMMA InitType == Init => TypeOK
<1> SUFFICES ASSUME Init PROVE TypeOK OBVIOUS
<1>1. Blank \in Held
  BY DEF Blank, Held
<1> QED
  BY <1>1 DEF Init, TypeOK, Places, Empty

------------------------------------------------------------------------------
(* What a command leaves alone. Each keeps to its own places.               *)

InstallPlaces == {"idle", "fetch", "exists", "retire", "place", "swap", "clean"}
LoginPlaces   == {"idle", "ask", "open", "write", "replace"}
RunPlaces     == {"idle", "entitle", "manifest", "check", "load", "running", "record"}
ReportPlaces  == {"idle", "confirm", "send", "receipt"}

Within(p, places) == /\ pc[p] \in places /\ pc'[p] \in places
                     /\ \A q \in Procs \ {p} : pc'[q] = pc[q]

\* An install touches neither the token nor any record.
LEMMA InstallFrame ==
  ASSUME TypeOK, NEW p \in Procs, Install(p)
  PROVE  /\ Within(p, InstallPlaces)
         /\ UNCHANGED <<tokens, reports, overlapped>>
         /\ \A q \in Procs \ {p} : held'[q] = held[q] /\ exit'[q] = exit[q]
         /\ exit'[p] = Nothing \/ exit'[p] = exit[p] \/ exit'[p].command = "install"
         /\ loaded' = loaded \/ loaded' = [loaded EXCEPT ![p] = Nothing]
<1> USE DEF Within, InstallPlaces, Go, HoldRun, TypeOK
<1>1. CASE Begin(p, "fetch", 0)
  BY <1>1 DEF Begin
<1>2. CASE InstallFetched(p)
  BY <1>2 DEF InstallFetched, End, history
<1>3. CASE DestinationExists(p)
  BY <1>3 DEF DestinationExists, history
<1>4. CASE Retire(p)
  BY <1>4 DEF Retire, InstallFails, End, history
<1>5. CASE Place(p, "place", "clean") \/ Place(p, "swap", "clean")
  BY <1>5 DEF Place, InstallFails, End
<1>6. CASE CleanUp(p)
  BY <1>6 DEF CleanUp, End, history
<1> QED
  BY <1>1, <1>2, <1>3, <1>4, <1>5, <1>6 DEF Install

\* A login touches neither a bundle nor any record.
LEMMA LoginFrame ==
  ASSUME TypeOK, NEW p \in Procs, Login(p)
  PROVE  /\ Within(p, LoginPlaces)
         /\ UNCHANGED <<files, reports, swapDied>>
         /\ \A q \in Procs \ {p} : held'[q] = held[q] /\ exit'[q] = exit[q]
         /\ exit'[p] = Nothing \/ exit'[p] = exit[p] \/ exit'[p].command = "login"
         /\ loaded' = loaded \/ loaded' = [loaded EXCEPT ![p] = Nothing]
<1> USE DEF Within, LoginPlaces, Go, HoldRun, TypeOK
<1>1. CASE Begin(p, "ask", 0)
  BY <1>1 DEF Begin
<1>2. CASE LoginAnswered(p)
  BY <1>2 DEF LoginAnswered, End, history
<1>3. CASE OpenTemporary(p)
  BY <1>3 DEF OpenTemporary
<1>4. CASE WriteToken(p)
  BY <1>4 DEF WriteToken, history
<1>5. CASE ReplaceToken(p)
  BY <1>5 DEF ReplaceToken, End, history
<1> QED
  BY <1>1, <1>2, <1>3, <1>4, <1>5 DEF Login

\* A run reads the bundle and the token and writes neither.
LEMMA RunFrame ==
  ASSUME TypeOK, NEW p \in Procs, Run(p)
  PROVE  /\ Within(p, RunPlaces)
         /\ UNCHANGED <<files, tokens, receipts, counted, overlapped, swapDied>>
         /\ \A q \in Procs \ {p} : held'[q] = held[q] /\ exit'[q] = exit[q] /\ loaded'[q] = loaded[q]
<1> USE DEF Within, RunPlaces, Go, HoldRun, TypeOK
<1>1. ASSUME NEW from \in RunPlaces, NEW code, Refuse(p, from, code)
      PROVE  /\ Within(p, RunPlaces)
             /\ UNCHANGED <<files, tokens, reports, history>>
             /\ \A q \in Procs \ {p} : held'[q] = held[q] /\ exit'[q] = exit[q]
  BY <1>1 DEF Refuse, End
<1>2. CASE BeginRun(p)
  <2>1. PICK at \in {"refused", "entitle", "running"} :
          \/ at # "refused" /\ Begin(p, at, begun + 1)
          \/ /\ End(p, "idle", "run", 2)
             /\ UNCHANGED <<files, tokens, reports, now, history>>
    BY <1>2 DEF BeginRun, Start
  <2> QED
    BY <2>1 DEF Begin, End, reports, history
<1>3. CASE ReadToken(p)
  BY <1>3, <1>1 DEF ReadToken, reports, history
<1>4. CASE ReadManifest(p)
  BY <1>4, <1>1 DEF ReadManifest, reports, history
<1>5. CASE CheckFiles(p)
  BY <1>5, <1>1 DEF CheckFiles, reports, history
<1>6. CASE Load(p)
  BY <1>6, <1>1 DEF Load, reports, history
<1>7. CASE Product(p)
  BY <1>7, <1>1 DEF Product, reports, history
<1>8. CASE WriteRecord(p)
  <2>1. PICK code \in {0, 1} : End(p, "record", "run", code)
    BY <1>8 DEF WriteRecord
  <2> QED
    BY <1>8, <2>1 DEF WriteRecord, End, history
<1> QED
  BY <1>2, <1>3, <1>4, <1>5, <1>6, <1>7, <1>8 DEF Run

\* A report touches neither a bundle, a token nor a record.
LEMMA ReportFrame ==
  ASSUME TypeOK, NEW p \in Procs, Report(p)
  PROVE  /\ Within(p, ReportPlaces)
         /\ UNCHANGED <<files, tokens, records, overlapped, swapDied>>
         /\ \A q \in Procs \ {p} : held'[q] = held[q] /\ exit'[q] = exit[q]
         /\ loaded' = loaded \/ loaded' = [loaded EXCEPT ![p] = Nothing]
<1> USE DEF Within, ReportPlaces, Go, HoldRun, TypeOK
<1>1. CASE BeginReport(p)
  BY <1>1 DEF BeginReport, Begin, reports
<1>2. CASE Confirm(p)
  BY <1>2 DEF Confirm, End, history, reports
<1>3. CASE Send(p)
  BY <1>3 DEF Send, End, history
<1>4. CASE WriteReceipt(p)
  BY <1>4 DEF WriteReceipt, End, history
<1> QED
  BY <1>1, <1>2, <1>3, <1>4 DEF Report

------------------------------------------------------------------------------
(* Each part of the invariant is kept.                                      *)

\* Nothing but a whole signed bundle is staged, and a version that was installed
\* is missing only inside a swap, or after one that was broken off (install_bundle).
LEMMA FilesNext ==
  ASSUME CatalogInv, [Next]_vars
  PROVE  StagedIsSigned' /\ VersionSurvives'
<1> USE DEF CatalogInv, StagedIsSigned, VersionSurvives
<1>t. TypeOK /\ TypeOK'
  BY NextType
<1>1. ASSUME NEW p \in Procs, Install(p) PROVE StagedIsSigned' /\ VersionSurvives'
  <2> USE DEF Go, TypeOK
  <2>1. CASE Begin(p, "fetch", 0)
    BY <1>t, <2>1 DEF Begin, files
  <2>2. CASE InstallFetched(p)
    <3>1. \A c \in Contents : [content |-> c, clean |-> TRUE, cached |-> FALSE] \in Directory
      BY DEF Directory
    <3> QED
      BY <1>t, <2>2, <3>1 DEF InstallFetched, End, history
  <2>3. CASE DestinationExists(p)
    BY <1>t, <2>3 DEF DestinationExists, files, history
  <2>4. CASE Retire(p)
    BY <1>t, <2>4 DEF Retire, InstallFails, End, history
  <2>5. ASSUME NEW from \in {"place", "swap"}, Place(p, from, "clean")
        PROVE  StagedIsSigned' /\ VersionSurvives'
    <3>1. CASE destination' # Nothing
      BY <1>t, <2>5, <3>1 DEF Place, InstallFails, End
    <3>2. CASE destination' = Nothing
      <4>1. InstallFails(p, from) /\ destination = Nothing /\ swapDied' = (swapDied \/ from = "swap")
        BY <1>t, <2>5, <3>2 DEF Place, InstallFails
      <4> QED
        BY <1>t, <2>5, <4>1 DEF InstallFails, End
    <3> QED
      BY <3>1, <3>2
  <2>6. CASE CleanUp(p)
    BY <1>t, <2>6 DEF CleanUp, End, history
  <2> QED
    BY <1>1, <2>1, <2>2, <2>3, <2>4, <2>5, <2>6 DEF Install
<1>2. ASSUME NEW p \in Procs, Login(p) \/ Run(p) \/ Report(p)
      PROVE  StagedIsSigned' /\ VersionSurvives'
  <2>1. /\ UNCHANGED <<files, swapDied>>
        /\ pc[p] \notin {"exists", "retire", "place", "swap"}
        /\ pc'[p] \notin {"exists", "retire", "place", "swap"}
        /\ \A q \in Procs \ {p} : pc'[q] = pc[q]
    BY <1>t, <1>2, LoginFrame, RunFrame, ReportFrame
       DEF Within, LoginPlaces, RunPlaces, ReportPlaces
  <2> QED
    BY <2>1 DEF files
<1>3. ASSUME NEW p \in Procs, Killed(p) PROVE StagedIsSigned' /\ VersionSurvives'
  BY <1>t, <1>3 DEF Killed, Go, files, TypeOK
<1>4. CASE Edit
  <2>1. destination' # Nothing
    <3>1. destination \in Directory /\ Nothing \notin Directory
      BY <1>4, <1>t DEF Edit, TypeOK
    <3>2. [destination EXCEPT !.clean = FALSE] \in Directory
      BY <3>1 DEF Directory
    <3>3. [destination EXCEPT !.cached = TRUE] \in Directory
      BY <3>1 DEF Directory
    <3> QED
      BY <1>4, <3>1, <3>2, <3>3 DEF Edit
  <2> QED
    BY <1>4, <2>1 DEF Edit
<1>5. CASE Tick \/ UNCHANGED vars
  BY <1>5 DEF Tick, vars, files, history
<1> QED
  BY <1>1, <1>2, <1>3, <1>4, <1>5 DEF CatalogInv, Next

\* A run's code is as it was signed, or its edit was seen between the run's own
\* check and its load, or it is bytecode (verify_installed, prepare_pro_run).
LEMMA LoadNext ==
  ASSUME CatalogInv, [Next]_vars
  PROVE  CheckedIsSigned' /\ EditsAreRefused'
<1> USE DEF CatalogInv, CheckedIsSigned, EditsAreRefused
<1>t. TypeOK /\ TypeOK'
  BY NextType
<1>1. ASSUME NEW p \in Procs, Install(p) PROVE CheckedIsSigned' /\ EditsAreRefused'
  <2>1. destination' # Nothing => destination' = destination \/ destination'.clean
    <3> USE DEF files, Go
    <3>1. CASE Begin(p, "fetch", 0) \/ InstallFetched(p) \/ DestinationExists(p) \/ CleanUp(p)
      BY <3>1 DEF Begin, InstallFetched, DestinationExists, CleanUp
    <3>2. CASE Retire(p)
      BY <3>2 DEF Retire, InstallFails
    <3>3. ASSUME NEW from \in {"place", "swap"}, Place(p, from, "clean")
          PROVE  destination' # Nothing => destination' = destination \/ destination'.clean
      BY <3>3 DEF Place, InstallFails, StagedIsSigned
    <3> QED
      BY <1>1, <3>1, <3>2, <3>3 DEF Install
  <2>2. /\ pc[p] # "load" /\ pc'[p] # "load"
        /\ \A q \in Procs \ {p} : pc'[q] = pc[q]
        /\ loaded' = loaded \/ loaded' = [loaded EXCEPT ![p] = Nothing]
    BY <1>t, <1>1, InstallFrame DEF Within, InstallPlaces
  <2> QED
    BY <1>t, <2>1, <2>2 DEF TypeOK
<1>2. ASSUME NEW p \in Procs, Login(p) \/ Report(p) PROVE CheckedIsSigned' /\ EditsAreRefused'
  <2>1. /\ UNCHANGED destination
        /\ pc[p] # "load" /\ pc'[p] # "load"
        /\ \A q \in Procs \ {p} : pc'[q] = pc[q]
        /\ loaded' = loaded \/ loaded' = [loaded EXCEPT ![p] = Nothing]
    BY <1>t, <1>2, LoginFrame, ReportFrame DEF Within, LoginPlaces, ReportPlaces, files
  <2> QED
    BY <1>t, <2>1 DEF TypeOK
<1>3. ASSUME NEW p \in Procs, Run(p) PROVE CheckedIsSigned' /\ EditsAreRefused'
  <2>1. /\ UNCHANGED destination
        /\ \A q \in Procs \ {p} : pc'[q] = pc[q] /\ loaded'[q] = loaded[q]
    BY <1>t, <1>3, RunFrame DEF Within, files
  <2>2. SUFFICES /\ pc'[p] = "load" => /\ loaded'[p] # Nothing
                                       /\ destination # Nothing => destination.clean \/ loaded'[p].touched
                 /\ loaded'[p] # Nothing /\ loaded'[p].runs =>
                      loaded'[p].clean \/ loaded'[p].touched \/ loaded'[p].cached
    BY <2>1
  <2> USE DEF Go, TypeOK, history
  <2>3. ASSUME NEW from, NEW code, Refuse(p, from, code)
        PROVE  pc'[p] # "load" /\ loaded'[p] = loaded[p]
    BY <1>t, <2>3 DEF Refuse, End
  <2>4. CASE BeginRun(p)
    <3>1. PICK at \in {"refused", "entitle", "running"} :
            \/ at # "refused" /\ Begin(p, at, begun + 1)
            \/ /\ End(p, "idle", "run", 2)
               /\ UNCHANGED <<files, tokens, reports, now, history>>
      BY <2>4 DEF BeginRun, Start
    <3> QED
      BY <1>t, <3>1 DEF Begin, End
  <2>5. CASE ReadToken(p)
    BY <1>t, <2>3, <2>5 DEF ReadToken
  <2>6. CASE ReadManifest(p)
    BY <1>t, <2>3, <2>6 DEF ReadManifest
  <2>7. CASE CheckFiles(p)
    <3>1. [runs |-> FALSE, clean |-> TRUE, cached |-> FALSE, touched |-> FALSE] \in Loaded
      BY LoadedFields
    <3>2. CASE Refuse(p, "check", 1)
      BY <2>3, <3>2
    <3>3. CASE ~Refuse(p, "check", 1)
      <4>1. /\ destination.clean
            /\ loaded' = [loaded EXCEPT ![p] = [runs |-> FALSE, clean |-> TRUE, cached |-> FALSE,
                                                touched |-> FALSE]]
        BY <2>7, <3>3 DEF CheckFiles, Intact
      <4>2. /\ destination.clean
            /\ loaded'[p] = [runs |-> FALSE, clean |-> TRUE, cached |-> FALSE, touched |-> FALSE]
        BY <1>t, <4>1
      <4>3. ~loaded'[p].runs
        BY <4>2
      <4> QED
        BY <1>t, <3>1, <4>2, <4>3
    <3> QED
      BY <3>2, <3>3
  <2>8. CASE Load(p)
    <3>1. CASE Refuse(p, "load", 1)
      BY <2>3, <3>1
    <3>2. CASE ~Refuse(p, "load", 1)
      <4>1. destination # Nothing /\ pc[p] = "load" /\ pc'[p] = "running"
        BY <1>t, <2>8, <3>2 DEF Load
      <4>2. PICK cached \in {FALSE, destination.cached} :
              loaded' = [loaded EXCEPT ![p].runs = TRUE, ![p].cached = cached,
                                       ![p].clean = destination.clean /\ ~cached]
        BY <1>t, <2>8, <3>2 DEF Load
      <4>3. loaded[p] \in Loaded
        BY <1>t, <4>1
      <4>4. /\ loaded'[p].cached = cached /\ loaded'[p].touched = loaded[p].touched
            /\ loaded'[p].clean = (destination.clean /\ ~cached)
        BY <1>t, <4>2, <4>3 DEF Loaded
      <4>5. cached \in BOOLEAN
        BY <1>t, <4>1, DirectoryFields
      <4> QED
        BY <4>1, <4>4, <4>5
    <3> QED
      BY <3>1, <3>2
  <2>9. CASE Product(p)
    BY <1>t, <2>3, <2>9 DEF Product
  <2>10. CASE WriteRecord(p)
    BY <1>t, <2>10 DEF WriteRecord, End
  <2> QED
    BY <1>3, <2>4, <2>5, <2>6, <2>7, <2>8, <2>9, <2>10 DEF Run
<1>4. ASSUME NEW p \in Procs, Killed(p) PROVE CheckedIsSigned' /\ EditsAreRefused'
  BY <1>t, <1>4 DEF Killed, Go, files, TypeOK
<1>5. CASE Edit /\ destination.clean /\ destination' = [destination EXCEPT !.clean = FALSE]
           /\ loaded' = [p \in Procs |-> IF loaded[p] # Nothing /\ pc[p] = "load"
                                         THEN [loaded[p] EXCEPT !.touched = TRUE] ELSE loaded[p]]
  <2>1. \A p \in Procs : loaded[p] # Nothing /\ pc[p] = "load" => loaded'[p] # Nothing /\ loaded'[p].touched
    <3> SUFFICES ASSUME NEW p \in Procs, loaded[p] # Nothing, pc[p] = "load"
                 PROVE  loaded'[p] # Nothing /\ loaded'[p].touched
      OBVIOUS
    <3>1. loaded[p] \in Loaded /\ loaded'[p] = [loaded[p] EXCEPT !.touched = TRUE]
      BY <1>t, <1>5 DEF Edit, TypeOK
    <3>2. [loaded[p] EXCEPT !.touched = TRUE] \in Loaded
      BY <3>1, LoadedFields
    <3>3. [loaded[p] EXCEPT !.touched = TRUE].touched
      BY <3>1 DEF Loaded
    <3> QED
      BY <3>1, <3>2, <3>3
  <2>2. \A p \in Procs : loaded[p] = Nothing \/ pc[p] # "load" => loaded'[p] = loaded[p]
    BY <1>5 DEF Edit
  <2>3. pc' = pc
    BY <1>5 DEF Edit
  <2> QED
    BY <2>1, <2>2, <2>3
<1>6. CASE Edit /\ destination' = [destination EXCEPT !.cached = TRUE] /\ UNCHANGED loaded
  <2>1. /\ UNCHANGED <<pc, loaded>>
        /\ destination # Nothing /\ destination \in Directory
    BY <1>t, <1>6 DEF Edit, TypeOK
  <2>2. destination'.clean = destination.clean
    BY <1>6, <2>1 DEF Directory
  <2> QED
    BY <2>1, <2>2
<1>7. CASE Tick \/ UNCHANGED vars
  BY <1>7 DEF Tick, vars, files, history
<1> QED
  BY <1>1, <1>2, <1>3, <1>4, <1>5, <1>6, <1>7 DEF Next, Edit

\* As long as no two logins were in store_token at once, the token's file is whole
\* and the one login there has the temporary file for itself.
LEMMA TokenNext ==
  ASSUME TypeOK, TypeOK', TemporaryIsOwned, [Next]_vars
  PROVE  TemporaryIsOwned'
<1> USE DEF TemporaryIsOwned, Storing
<1>1. ASSUME NEW p \in Procs, Install(p) \/ Run(p) \/ Report(p) PROVE TemporaryIsOwned'
  <2>1. /\ UNCHANGED <<tokens, overlapped>>
        /\ pc[p] \notin {"open", "write", "replace"} /\ pc'[p] \notin {"open", "write", "replace"}
        /\ \A q \in Procs \ {p} : pc'[q] = pc[q] /\ held'[q] = held[q]
    BY <1>1, InstallFrame, RunFrame, ReportFrame
       DEF Within, InstallPlaces, RunPlaces, ReportPlaces
  <2> QED
    BY <2>1 DEF tokens
<1>2. ASSUME NEW p \in Procs, Login(p) PROVE TemporaryIsOwned'
  <2> USE DEF Go, TypeOK
  <2>1. CASE Begin(p, "ask", 0)
    BY <2>1 DEF Begin, HoldRun, tokens
  <2>2. CASE LoginAnswered(p)
    <3>1. CASE End(p, "ask", "login", 1)
      BY <2>2, <3>1 DEF LoginAnswered, End, HoldRun, tokens, history
    <3>2. ASSUME NEW e \in Expiry, held' = [held EXCEPT ![p].expiry = e], Go(p, "ask", "open")
          PROVE  TemporaryIsOwned'
      <4>1. held'[p].expiry = e
        BY <3>2 DEF Held
      <4> QED
        BY <2>2, <3>2, <4>1 DEF LoginAnswered, tokens, history
    <3> QED
      BY <2>2, <3>1, <3>2 DEF LoginAnswered
  <2>3. CASE OpenTemporary(p)
    <3>1. PICK i \in Inodes :
            /\ IF temporary # Nothing THEN i = temporary
               ELSE i # token /\ \A q \in Procs : pc[q] \in Storing => held[q].inode # i
            /\ held' = [held EXCEPT ![p].inode = i]
            /\ temporary' = i
            /\ inodes' = [inodes EXCEPT ![i] = Empty]
      BY <2>3 DEF OpenTemporary
    <3>2. /\ held'[p].inode = i /\ held'[p].expiry = held[p].expiry
          /\ \A q \in Procs \ {p} : held'[q] = held[q] /\ pc'[q] = pc[q]
      BY <2>3, <3>1 DEF Held, OpenTemporary
    <3>3. pc[p] = "open" /\ pc'[p] = "write" /\ token' = token
      BY <2>3 DEF OpenTemporary
    <3>4. \A q \in Procs : pc'[q] \in {"open", "write"} => held'[q].expiry \in Expiry
      BY <3>2, <3>3
    <3>5. CASE overlapped'
      BY <3>4, <3>5
    <3>6. CASE ~overlapped'
      <4>1. ~overlapped /\ \A q \in Procs : pc[q] \notin Storing
        BY <2>3, <3>6 DEF OpenTemporary
      <4>2. inodes'[temporary'] = Empty
        BY <3>1
      <4>3. token' # Nothing => token' # temporary' /\ inodes'[token'] \in Expiry
        BY <3>1, <3>3, <4>1
      <4> QED
        BY <3>1, <3>2, <3>3, <3>4, <4>1, <4>2, <4>3
    <3> QED
      BY <3>5, <3>6
  <2>4. CASE WriteToken(p)
    <3>1. PICK content \in {held[p].expiry} \cup
                           (IF inodes[held[p].inode] = Empty THEN {} ELSE {Torn}) :
            inodes' = [inodes EXCEPT ![held[p].inode] = content]
      BY <2>4 DEF WriteToken
    <3>2. /\ pc[p] = "write" /\ pc'[p] = "replace"
          /\ \A q \in Procs \ {p} : pc'[q] = pc[q]
          /\ UNCHANGED <<held, token, temporary, overlapped>>
      BY <2>4 DEF WriteToken, history
    <3>3. ASSUME ~overlapped
          PROVE  /\ inodes'[temporary] \in Expiry
                 /\ token # Nothing => inodes'[token] = inodes[token]
      BY <3>1, <3>2, <3>3
    <3> QED
      BY <3>2, <3>3
  <2>5. CASE ReplaceToken(p)
    BY <2>5 DEF ReplaceToken, End, HoldRun, history
  <2> QED
    BY <1>2, <2>1, <2>2, <2>3, <2>4, <2>5 DEF Login
<1>3. ASSUME NEW p \in Procs, Killed(p) PROVE TemporaryIsOwned'
  BY <1>3 DEF Killed, Go, HoldRun, tokens, TypeOK
<1>4. CASE Edit \/ Tick \/ UNCHANGED vars
  BY <1>4 DEF Edit, Tick, vars, tokens, history
<1> QED
  BY <1>1, <1>2, <1>3, <1>4 DEF Next

\* A record that is there stays as it is, and the server counts a run under its one
\* id only (write_record, send_report).
LEMMA RecordsStay ==
  ASSUME TypeOK, TypeOK', [Next]_vars
  PROVE  /\ \A r \in RunIds : records[r] # Nothing => records'[r] = records[r]
         /\ counted \subseteq counted'
<1>1. ASSUME NEW p \in Procs, Install(p) \/ Login(p) \/ Report(p) \/ Killed(p)
      PROVE  records' = records
  BY <1>1, InstallFrame, LoginFrame, ReportFrame DEF Killed, reports
<1>2. ASSUME NEW p \in Procs, Install(p) \/ Login(p) \/ Run(p) \/ Killed(p)
      PROVE  counted' = counted
  BY <1>2, InstallFrame, LoginFrame, RunFrame DEF Killed, reports
<1>3. ASSUME NEW p \in Procs, Report(p) PROVE counted \subseteq counted'
  <2> USE DEF reports
  <2>1. CASE BeginReport(p)
    BY <2>1 DEF BeginReport, Begin
  <2>2. CASE Confirm(p)
    BY <2>2 DEF Confirm
  <2>3. CASE Send(p)
    BY <2>3 DEF Send
  <2>4. CASE WriteReceipt(p)
    BY <2>4 DEF WriteReceipt
  <2> QED
    BY <1>3, <2>1, <2>2, <2>3, <2>4 DEF Report
<1>4. ASSUME NEW p \in Procs, Run(p), ~WriteRecord(p) PROVE records' = records
  <2> USE DEF reports
  <2>1. CASE BeginRun(p)
    BY <2>1 DEF BeginRun, Begin
  <2>2. CASE ReadToken(p) \/ ReadManifest(p)
    BY <2>2 DEF ReadToken, ReadManifest, Refuse
  <2>3. CASE CheckFiles(p) \/ Load(p) \/ Product(p)
    BY <2>3 DEF CheckFiles, Load, Product, Refuse
  <2> QED
    BY <1>4, <2>1, <2>2, <2>3 DEF Run
<1>5. ASSUME NEW p \in Procs, WriteRecord(p), NEW r \in RunIds, records[r] # Nothing
      PROVE  records'[r] = records[r]
  BY <1>5 DEF WriteRecord, TypeOK
<1>6. CASE Edit \/ Tick \/ UNCHANGED vars
  BY <1>6 DEF Edit, Tick, vars, reports
<1> QED
  BY <1>1, <1>2, <1>3, <1>4, <1>5, <1>6 DEF Next

\* What a process knows of its run, what the server counted and what an exit code
\* said stay true, and each step adds only what is true.
LEMMA RecordNext ==
  ASSUME CatalogInv, [Next]_vars
  PROVE  CountedIsRecorded' /\ ExitZeroIsTrue'
<1> DEFINE TrueExit(p) == exit[p] # Nothing /\ exit[p].code = 0 => ExitIsTrue(exit[p])
<1>t. TypeOK /\ TypeOK' /\ CountedIsRecorded /\ ExitZeroIsTrue
  BY NextType DEF CatalogInv
<1>a. /\ \A r \in RunIds : records[r] # Nothing => records'[r] = records[r]
      /\ counted \subseteq counted'
  BY <1>t, RecordsStay
<1>b. \A r \in RunIds : records[r] # Nothing => Minted(r)' = Minted(r)
  BY <1>a DEF Minted
<1>c. \A c \in counted : c[1] \in RunIds /\ records'[c[1]] # Nothing /\ c = Minted(c[1])'
  BY <1>t, <1>a, <1>b DEF TypeOK, CountedIsRecorded
<1>d. \A r \in receipts : Minted(r)' \in counted'
  <2>1. ASSUME NEW r \in receipts PROVE r \in RunIds /\ records[r] # Nothing
    BY <1>t DEF TypeOK, CountedIsRecorded, Minted
  <2> QED
    BY <1>t, <1>a, <1>b, <2>1 DEF CountedIsRecorded
<1>e. ASSUME NEW e, ExitIsTrue(e) PROVE ExitIsTrue(e)'
  BY <1>a, <1>e DEF ExitIsTrue
<1>f. ASSUME NEW q \in Procs, pc'[q] = pc[q] \/ pc'[q] = "idle", held'[q] = held[q] \/ pc'[q] = "idle"
      PROVE  KnowsItsRun(q)'
  <2>1. KnowsItsRun(q)
    BY <1>t DEF CountedIsRecorded
  <2> QED
    BY <1>a, <1>b, <1>f, <2>1 DEF KnowsItsRun
<1>g. ASSUME NEW q \in Procs, exit'[q] = exit[q] \/ exit'[q] = Nothing PROVE TrueExit(q)'
  BY <1>t, <1>e, <1>g DEF ExitZeroIsTrue
<1>1. ASSUME NEW p \in Procs, Install(p) \/ Login(p)
      PROVE  CountedIsRecorded' /\ ExitZeroIsTrue'
  <2>1. /\ UNCHANGED reports
        /\ \A q \in Procs \ {p} : pc'[q] = pc[q] /\ held'[q] = held[q] /\ exit'[q] = exit[q]
        /\ pc'[p] \in InstallPlaces \cup LoginPlaces
        /\ \/ exit'[p] = Nothing \/ exit'[p] = exit[p]
           \/ exit'[p].command = "install" \/ exit'[p].command = "login"
    BY <1>t, <1>1, InstallFrame, LoginFrame DEF Within
  <2>2. KnowsItsRun(p)'
    BY <2>1 DEF KnowsItsRun, InstallPlaces, LoginPlaces
  <2>3. \A q \in Procs : KnowsItsRun(q)'
    BY <1>f, <2>1, <2>2
  <2>4. TrueExit(p)'
    BY <1>g, <2>1 DEF ExitIsTrue
  <2>5. \A q \in Procs : TrueExit(q)'
    BY <1>g, <2>1, <2>4
  <2> QED
    BY <1>c, <1>d, <2>1, <2>3, <2>5 DEF CountedIsRecorded, ExitZeroIsTrue, reports
<1>2. ASSUME NEW p \in Procs, Run(p)
      PROVE  CountedIsRecorded' /\ ExitZeroIsTrue'
  <2>1. /\ UNCHANGED <<receipts, counted>>
        /\ \A q \in Procs \ {p} : pc'[q] = pc[q] /\ held'[q] = held[q] /\ exit'[q] = exit[q]
    BY <1>t, <1>2, RunFrame DEF Within
  <2>2. SUFFICES KnowsItsRun(p)' /\ TrueExit(p)'
    BY <1>c, <1>d, <1>f, <1>g, <2>1 DEF CountedIsRecorded, ExitZeroIsTrue
  <2>3. KnowsItsRun(p)
    BY <1>t DEF CountedIsRecorded
  <2> USE DEF Go, HoldRun, TypeOK
  <2>4. ASSUME NEW from, NEW code \in {1, 2}, Refuse(p, from, code)
        PROVE  KnowsItsRun(p)' /\ TrueExit(p)'
    <3>1. pc'[p] = "idle" /\ exit'[p] = [command |-> "run", code |-> code, run |-> held[p].run]
      BY <1>t, <2>4 DEF Refuse, End
    <3> QED
      BY <1>f, <3>1
  <2>5. CASE BeginRun(p)
    <3>1. PICK at \in {"refused", "entitle", "running"} :
            \/ at # "refused" /\ Begin(p, at, begun + 1)
            \/ End(p, "idle", "run", 2)
      BY <2>5 DEF BeginRun, Start
    <3>2. CASE Begin(p, at, begun + 1)
      <4>1. /\ held'[p].run = begun + 1 /\ begun + 1 \in RunIds
            /\ exit'[p] = Nothing /\ pc'[p] = at
        BY <1>t, <3>2 DEF Begin, Blank, RunIds
      <4> QED
        BY <1>g, <3>1, <4>1 DEF KnowsItsRun
    <3>3. CASE End(p, "idle", "run", 2)
      <4>1. pc'[p] = "idle" /\ exit'[p] = [command |-> "run", code |-> 2, run |-> held[p].run]
        BY <1>t, <3>3 DEF End
      <4> QED
        BY <1>f, <4>1
    <3> QED
      BY <3>1, <3>2, <3>3
  <2>6. CASE ReadToken(p)
    BY <1>t, <1>g, <2>3, <2>4, <2>6 DEF ReadToken, KnowsItsRun
  <2>7. CASE ReadManifest(p)
    <3>1. CASE Refuse(p, "manifest", 1)
      BY <2>4, <3>1
    <3>2. CASE ~Refuse(p, "manifest", 1)
      <4>1. /\ pc[p] = "manifest" /\ pc'[p] = "check" /\ exit'[p] = exit[p]
            /\ held'[p].run = held[p].run
        BY <1>t, <2>7, <3>2 DEF ReadManifest, Held
      <4> QED
        BY <1>g, <2>3, <4>1 DEF KnowsItsRun
    <3> QED
      BY <3>1, <3>2
  <2>8. CASE CheckFiles(p) \/ Load(p)
    <3>1. CASE Refuse(p, "check", 1) \/ Refuse(p, "load", 1)
      BY <2>4, <3>1
    <3>2. CASE ~(Refuse(p, "check", 1) \/ Refuse(p, "load", 1))
      <4>1. /\ pc[p] \in {"check", "load"} /\ pc'[p] \in {"load", "running"}
            /\ exit'[p] = exit[p] /\ held'[p] = held[p]
        BY <1>t, <2>8, <3>2 DEF CheckFiles, Load
      <4> QED
        BY <1>g, <2>3, <4>1 DEF KnowsItsRun
    <3> QED
      BY <3>1, <3>2
  <2>9. CASE Product(p)
    <3>1. CASE Refuse(p, "running", 2)
      BY <2>4, <3>1
    <3>2. ASSUME NEW s \in {"succeeded", "failed"}, Go(p, "running", "record"),
                 held' = [held EXCEPT ![p].status = s], exit' = exit
          PROVE  KnowsItsRun(p)' /\ TrueExit(p)'
      <4>1. /\ pc[p] = "running" /\ pc'[p] = "record" /\ exit'[p] = exit[p]
            /\ held'[p].run = held[p].run /\ held'[p].status = s
        BY <1>t, <3>2 DEF Held
      <4> QED
        BY <1>g, <2>3, <4>1 DEF KnowsItsRun
    <3> QED
      BY <2>9, <3>1, <3>2 DEF Product
  <2>10. CASE WriteRecord(p)
    <3>1. pc[p] = "record" /\ held[p].run \in RunIds
      BY <2>3, <2>10 DEF WriteRecord, KnowsItsRun
    <3>2. PICK code \in {0, 1} :
            /\ End(p, "record", "run", code)
            /\ code = 0 => /\ held[p].status = "succeeded"
                           /\ records' = [records EXCEPT ![held[p].run] =
                                  [status |-> held[p].status,
                                   clientReportId |-> MintReportId(held[p].run)]]
      BY <2>10 DEF WriteRecord
    <3>3. pc'[p] = "idle" /\ exit'[p] = [command |-> "run", code |-> code, run |-> held[p].run]
      BY <1>t, <3>2 DEF End
    <3>4. [status |-> held[p].status, clientReportId |-> MintReportId(held[p].run)] \in Record
          \/ held[p].status # "succeeded"
      BY <3>1 DEF Record, MintReportId, RunIds
    <3>5. code = 0 => ExitIsTrue(exit[p])'
      BY <1>t, <3>1, <3>2, <3>3, <3>4 DEF ExitIsTrue
    <3> QED
      BY <1>f, <3>3, <3>5
  <2> QED
    BY <1>2, <2>5, <2>6, <2>7, <2>8, <2>9, <2>10 DEF Run
<1>3. ASSUME NEW p \in Procs, Report(p)
      PROVE  CountedIsRecorded' /\ ExitZeroIsTrue'
  <2>1. /\ records' = records
        /\ \A q \in Procs \ {p} : pc'[q] = pc[q] /\ held'[q] = held[q] /\ exit'[q] = exit[q]
    BY <1>t, <1>3, ReportFrame DEF Within
  <2>2. \A r : Minted(r)' = Minted(r)
    BY <2>1 DEF Minted
  <2>3. SUFFICES /\ KnowsItsRun(p)' /\ TrueExit(p)'
                 /\ \A c \in counted' \ counted : records[c[1]] # Nothing /\ c = Minted(c[1])
                 /\ \A r \in receipts' \ receipts : Minted(r) \in counted
    BY <1>a, <1>c, <1>d, <1>f, <1>g, <2>1, <2>2 DEF CountedIsRecorded, ExitZeroIsTrue
  <2>4. KnowsItsRun(p)
    BY <1>t DEF CountedIsRecorded
  <2> USE DEF Go, HoldRun, TypeOK
  <2>5. CASE BeginReport(p)
    <3>1. PICK r \in RunIds : records[r] # Nothing /\ Begin(p, "confirm", r)
      BY <2>5 DEF BeginReport
    <3>2. /\ pc'[p] = "confirm" /\ held'[p].run = r /\ exit'[p] = Nothing
          /\ UNCHANGED <<counted, receipts>>
      BY <1>t, <3>1 DEF Begin, Blank, reports
    <3> QED
      BY <1>g, <2>1, <3>1, <3>2 DEF KnowsItsRun
  <2>6. CASE Confirm(p)
    <3>1. UNCHANGED <<counted, receipts>>
      BY <2>6 DEF Confirm, reports
    <3>2. CASE Go(p, "confirm", "send") /\ UNCHANGED <<held, exit>>
      BY <1>t, <1>g, <2>1, <2>2, <2>4, <3>1, <3>2 DEF KnowsItsRun
    <3>3. ASSUME NEW code, End(p, "confirm", "declined", code)
          PROVE  KnowsItsRun(p)' /\ TrueExit(p)'
      <4>1. pc'[p] = "idle" /\ exit'[p].command = "declined"
        BY <1>t, <3>3 DEF End
      <4> QED
        BY <1>f, <4>1 DEF ExitIsTrue
    <3> QED
      BY <2>6, <3>1, <3>2, <3>3 DEF Confirm
  <2>7. CASE Send(p)
    <3>1. pc[p] = "send" /\ held[p].run \in RunIds /\ records[held[p].run] # Nothing
      BY <2>4, <2>7 DEF Send, KnowsItsRun
    <3>2. <<held[p].run, ReportId(held[p].run)>> = Minted(held[p].run)
      BY DEF ReportId, Minted
    <3>3. receipts' = receipts /\ counted' \subseteq counted \cup {Minted(held[p].run)}
      BY <2>7, <3>2 DEF Send
    <3>4. Minted(held[p].run)[1] = held[p].run
      BY DEF Minted
    <3>5. CASE End(p, "send", "report", 1)
      <4>1. pc'[p] = "idle" /\ exit'[p] = [command |-> "report", code |-> 1, run |-> held[p].run]
        BY <1>t, <3>5 DEF End
      <4> QED
        BY <1>f, <3>1, <3>3, <3>4, <4>1
    <3>6. CASE ~End(p, "send", "report", 1)
      <4>1. /\ pc'[p] = "receipt" /\ UNCHANGED <<held, exit>>
            /\ counted' = counted \cup {Minted(held[p].run)}
        BY <1>t, <2>7, <3>2, <3>6 DEF Send
      <4> QED
        BY <1>g, <2>1, <2>2, <3>1, <3>3, <3>4, <4>1 DEF KnowsItsRun
    <3> QED
      BY <3>5, <3>6
  <2>8. CASE WriteReceipt(p)
    <3>1. PICK code \in {0, 1} :
            /\ End(p, "receipt", "report", code)
            /\ receipts' \subseteq receipts \cup {held[p].run}
      BY <2>8 DEF WriteReceipt
    <3>2. /\ pc[p] = "receipt" /\ pc'[p] = "idle"
          /\ exit'[p] = [command |-> "report", code |-> code, run |-> held[p].run]
      BY <1>t, <3>1 DEF End
    <3>3. Minted(held[p].run) \in counted
      BY <2>4, <3>2 DEF KnowsItsRun
    <3>4. counted' = counted
      BY <2>8 DEF WriteReceipt
    <3>5. Minted(held[p].run)[1] = held[p].run
      BY DEF Minted
    <3>6. ExitIsTrue(exit[p])'
      BY <3>2, <3>3, <3>4, <3>5 DEF ExitIsTrue
    <3> QED
      BY <1>f, <3>1, <3>2, <3>3, <3>4, <3>6
  <2> QED
    BY <1>3, <2>5, <2>6, <2>7, <2>8 DEF Report
<1>4. ASSUME NEW p \in Procs, Killed(p) PROVE CountedIsRecorded' /\ ExitZeroIsTrue'
  <2>1. /\ UNCHANGED reports /\ pc'[p] = "idle" /\ exit'[p] = Nothing
        /\ \A q \in Procs \ {p} : pc'[q] = pc[q] /\ held'[q] = held[q] /\ exit'[q] = exit[q]
    BY <1>t, <1>4 DEF Killed, Go, HoldRun, TypeOK
  <2> QED
    BY <1>c, <1>d, <1>f, <1>g, <2>1 DEF CountedIsRecorded, ExitZeroIsTrue, reports
<1>5. CASE Edit \/ Tick \/ UNCHANGED vars
  <2>1. UNCHANGED <<pc, held, exit, reports>>
    BY <1>5 DEF Edit, Tick, vars
  <2> QED
    BY <1>c, <1>d, <1>f, <1>g, <2>1 DEF CountedIsRecorded, ExitZeroIsTrue, reports
<1> QED
  BY <1>1, <1>2, <1>3, <1>4, <1>5 DEF Next

------------------------------------------------------------------------------
(* The theorems.                                                            *)

(* They satisfy the whole invariant.                                        *)
LEMMA InitInv == Init => CatalogInv
<1> SUFFICES ASSUME Init PROVE CatalogInv OBVIOUS
<1>1. TypeOK
  BY InitType
<1>2. StagedIsSigned /\ VersionSurvives /\ CheckedIsSigned /\ EditsAreRefused
  BY DEF Init, StagedIsSigned, VersionSurvives, CheckedIsSigned, EditsAreRefused
<1>3. TemporaryIsOwned
  BY DEF Init, TemporaryIsOwned, Storing
<1>4. CountedIsRecorded /\ ExitZeroIsTrue
  BY DEF Init, CountedIsRecorded, KnowsItsRun, ExitZeroIsTrue
<1> QED
  BY <1>1, <1>2, <1>3, <1>4 DEF CatalogInv

\* The inductive invariant, in every reachable state, whatever the processes, the
\* bundles the server offers and the commands begun.
THEOREM CatalogInvariance == Spec => []CatalogInv
<1>1. CatalogInv /\ [Next]_vars => CatalogInv'
  <2> SUFFICES ASSUME CatalogInv, [Next]_vars PROVE CatalogInv' OBVIOUS
  <2>1. TypeOK'
    BY NextType DEF CatalogInv
  <2>2. TemporaryIsOwned'
    BY <2>1, TokenNext DEF CatalogInv
  <2> QED
    BY <2>1, <2>2, FilesNext, LoadNext, RecordNext DEF CatalogInv
<1> QED
  BY <1>1, InitInv, PTL DEF Spec

\* Files, tokens and records have their shapes, whoever wrote them last.
THEOREM CatalogTypes == Spec => []TypeOK
<1>1. CatalogInv => TypeOK
  BY DEF CatalogInv
<1> QED
  BY <1>1, CatalogInvariance, PTL

\* An installation that fails leaves a version in place, unless an installer ended
\* between its two renames (install_bundle).
THEOREM VersionsSurvive == Spec => []VersionSurvives
<1>1. CatalogInv => VersionSurvives
  BY DEF CatalogInv
<1> QED
  BY <1>1, CatalogInvariance, PTL

\* Code that runs is as it was signed, was edited after its run's own check, or is
\* bytecode the check does not look at (verify_installed); any number of installs
\* in between changes nothing.
THEOREM EditsRefused == Spec => []EditsAreRefused
<1>1. CatalogInv => EditsAreRefused
  BY DEF CatalogInv
<1> QED
  BY <1>1, CatalogInvariance, PTL

\* Only two logins in store_token at once leave a broken token at the final name.
THEOREM TokensWhole == Spec => []TokenIsWhole
<1>1. CatalogInv => TokenIsWhole
  BY DEF CatalogInv, TemporaryIsOwned, TokenIsWhole, Expiry, Empty, Torn
<1> QED
  BY <1>1, CatalogInvariance, PTL

\* A run is counted at most once, and a receipt means that it was (send_report).
THEOREM CountedOnce == Spec => []ReportedOnce
<1>1. CatalogInv => ReportedOnce
  <2> SUFFICES ASSUME CatalogInv, NEW r \in RunIds
               PROVE  LET ids == {c \in counted : c[1] = r}
                      IN  Cardinality(ids) <= 1 /\ (r \in receipts => ids # {})
    BY DEF ReportedOnce
  <2> DEFINE ids == {c \in counted : c[1] = r}
  <2>1. ids \in SUBSET {Minted(r)}
    BY DEF CatalogInv, CountedIsRecorded
  <2>2. Cardinality(ids) <= 1
    <3>1. IsFiniteSet({Minted(r)}) /\ Cardinality({Minted(r)}) = 1
      BY FS_Singleton
    <3> QED
      BY <2>1, <3>1, FS_Subset
  <2>3. r \in receipts => Minted(r) \in ids
    BY DEF CatalogInv, CountedIsRecorded, Minted
  <2> QED
    BY <2>2, <2>3
<1> QED
  BY <1>1, CatalogInvariance, PTL

\* Exit code 0 of a run or of a report means that what it says is on record.
THEOREM ExitsTrue == Spec => []ExitZeroIsTrue
<1>1. CatalogInv => ExitZeroIsTrue
  BY DEF CatalogInv
<1> QED
  BY <1>1, CatalogInvariance, PTL

==============================================================================
