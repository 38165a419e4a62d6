---------------------------- MODULE LocalCatalog ----------------------------
(***************************************************************************)
(* The Python catalog on one machine: `ketqat pro install`, `pro login`,   *)
(* `catalog run` and `report`, as concurrent processes that share the      *)
(* files under $KETQAT_HOME.  Each action is one system call that another  *)
(* process can see (a rename, an open, a close, a read), together with     *)
(* everything the process does before its next one.                        *)
(*                                                                         *)
(* A bundle's directory is [content, clean, cached]: which signed bundle it *)
(* holds, whether the files outside __pycache__ still hash to the manifest *)
(* beside them, and whether there is bytecode under __pycache__, where the *)
(* interpreter looks for it and no check does.  A token file is an inode    *)
(* whose content is the token's expiry time, or Empty, or Torn.             *)
(* A record keeps its run's status and the clientReportId minted with it.  *)
(***************************************************************************)
EXTENDS Integers, FiniteSets

CONSTANTS Procs,       \* processes, each running one command at a time
          Contents,    \* signed bundles the server may serve for the version
          MaxCommands, \* bound: commands begun
          MaxTime,     \* bound: the clock
          Nothing      \* an absent file or directory

VARIABLES
  pc,        \* where each process stands
  held,      \* what it read, fetched or began with
  exit,      \* [command, code, run] of its last command
  destination, staging, retired,   \* pro/<product>/<version>, .staging-*, .replaced-*
  token, temporary, inodes,        \* entitlement.token, .entitlement.token.tmp, their contents
  records, receipts,               \* runs/<id>/record.json and report.json
  counted,   \* external: <<run, clientReportId>> accepted by the server
  now, begun,
  (* history *)
  loaded,    \* what each process' run executes: as signed, or cached bytecode
  overlapped,\* two logins were in store_token at once
  swapDied   \* an installer ended between its two renames

files    == <<destination, staging, retired>>
tokens   == <<token, temporary, inodes>>
reports  == <<records, receipts, counted>>
history  == <<loaded, overlapped, swapDied>>
vars == <<pc, held, exit, files, tokens, reports, now, begun, history>>

Places == {"idle", "fetch", "exists", "retire", "place", "swap", "clean",
           "ask", "open", "write", "replace", "entitle", "manifest", "check",
           "load", "running", "record", "confirm", "send", "receipt"}
RunIds  == 1..MaxCommands
Inodes  == 1..3
Expiry  == 1..MaxTime+1
Empty   == 0     \* a token file truncated and not yet written
Torn    == -1    \* two tokens over each other
Directory == [content : Contents, clean : BOOLEAN, cached : BOOLEAN]
Record  == [status : {"succeeded", "failed"}, clientReportId : Nat]

(* What a process holds: the run it is about and its status, the bundle its *)
(* check has read, the token it stores and the open file.                   *)
Held == [run : 0..MaxCommands, status : {"none", "succeeded", "failed"},
         content : Contents \cup {Nothing}, expiry : 0..MaxTime+1, inode : 0..3]
Ending == [command : {"install", "login", "run", "declined", "report"}, code : 0..2,
           run : 0..MaxCommands]
Loaded == [runs : BOOLEAN, clean : BOOLEAN, cached : BOOLEAN, touched : BOOLEAN]

ASSUME CatalogAssumption ==
  /\ MaxCommands \in Nat /\ MaxTime \in Nat
  /\ Nothing \notin Contents /\ Nothing \notin Inodes
  /\ Nothing \notin Directory /\ Nothing \notin Record
  /\ Nothing \notin Ending /\ Nothing \notin Loaded

Blank == [run |-> 0, status |-> "none", content |-> Nothing, expiry |-> 0, inode |-> 0]

Init == /\ pc = [p \in Procs |-> "idle"]
        /\ held = [p \in Procs |-> Blank]
        /\ exit = [p \in Procs |-> Nothing]
        /\ destination = Nothing
        /\ staging = [p \in Procs |-> Nothing]
        /\ retired = [p \in Procs |-> Nothing]
        /\ token = Nothing /\ temporary = Nothing
        /\ inodes = [i \in Inodes |-> Empty]
        /\ records = [r \in RunIds |-> Nothing]
        /\ receipts = {} /\ counted = {}
        /\ now = 0 /\ begun = 0
        /\ loaded = [p \in Procs |-> Nothing]
        /\ overlapped = FALSE /\ swapDied = FALSE

Go(p, from, to) == pc[p] = from /\ pc' = [pc EXCEPT ![p] = to]
HoldRun(p, r)     == held' = [held EXCEPT ![p] = [Blank EXCEPT !.run = r]]

(* The command ends with the exit code the shell sees; an exception that no *)
(* handler of cli.run names is a traceback, code 1.                         *)
End(p, from, command, code) ==
  /\ Go(p, from, "idle") /\ HoldRun(p, 0)
  /\ exit' = [exit EXCEPT ![p] = [command |-> command, code |-> code, run |-> held[p].run]]

Begin(p, at, run) ==
  /\ Go(p, "idle", at) /\ HoldRun(p, run)
  /\ begun < MaxCommands /\ begun' = begun + 1
  /\ exit' = [exit EXCEPT ![p] = Nothing]
  /\ loaded' = [loaded EXCEPT ![p] = Nothing]
  /\ UNCHANGED <<files, tokens, reports, now, overlapped, swapDied>>

-----------------------------------------------------------------------------
(* ketqat pro install: fetch, verify, stage, swap.                          *)

(* A response that fails verify_payload, or none, writes nothing.           *)
InstallFetched(p) ==
  /\ \/ \E c \in Contents :
          /\ Go(p, "fetch", "exists")
          /\ staging' = [staging EXCEPT ![p] = [content |-> c, clean |-> TRUE, cached |-> FALSE]]
          /\ UNCHANGED <<held, exit>>
     \/ End(p, "fetch", "install", 1) /\ UNCHANGED staging
  /\ UNCHANGED <<destination, retired, tokens, reports, now, begun, history>>

DestinationExists(p) ==
  /\ Go(p, "exists", IF destination = Nothing THEN "place" ELSE "retire")
  /\ UNCHANGED <<held, exit, files, tokens, reports, now, begun, history>>

(* Variant: the failure handler removes the destination as well. *)
InstallFails_RemovesBoth(p, from) ==
  /\ End(p, from, "install", 1)
  /\ staging' = [staging EXCEPT ![p] = Nothing]
  /\ destination' = Nothing
  /\ UNCHANGED retired

(* Any failure removes the staging directory and is raised.                 *)
InstallFails(p, from) ==
  /\ End(p, from, "install", 1)
  /\ staging' = [staging EXCEPT ![p] = Nothing]
  /\ UNCHANGED <<destination, retired>>

Retire(p) ==
  /\ \/ /\ destination # Nothing
        /\ Go(p, "retire", "swap")
        /\ retired' = [retired EXCEPT ![p] = destination]
        /\ destination' = Nothing
        /\ UNCHANGED <<held, exit, staging>>
     \/ InstallFails(p, "retire")
  /\ UNCHANGED <<tokens, reports, now, begun, history>>

(* staging.rename(destination): a directory does not replace a non-empty    *)
(* one. A failure or an interrupt here does not put the old version back.   *)
Place(p, from, to) ==
  /\ \/ /\ destination = Nothing
        /\ Go(p, from, to)
        /\ destination' = staging[p]
        /\ staging' = [staging EXCEPT ![p] = Nothing]
        /\ UNCHANGED <<held, exit, retired, swapDied>>
     \/ InstallFails(p, from) /\ swapDied' = (swapDied \/ (from = "swap" /\ destination = Nothing))
  /\ UNCHANGED <<tokens, reports, now, begun, loaded, overlapped>>

CleanUp(p) ==
  /\ End(p, "clean", "install", 0)
  /\ retired' = [retired EXCEPT ![p] = Nothing]
  /\ UNCHANGED <<destination, staging, tokens, reports, now, begun, history>>

Install(p) == \/ Begin(p, "fetch", 0)
              \/ InstallFetched(p) \/ DestinationExists(p) \/ Retire(p)
              \/ Place(p, "place", "clean") \/ Place(p, "swap", "clean")
              \/ CleanUp(p)

-----------------------------------------------------------------------------
(* ketqat pro login: fetch, verify, then store_token through one fixed      *)
(* temporary name.                                                          *)

Storing == {"write", "replace"}

LoginAnswered(p) ==
  /\ \/ \E e \in Expiry : e > now /\ Go(p, "ask", "open") /\ held' = [held EXCEPT ![p].expiry = e] /\ UNCHANGED exit
     \/ End(p, "ask", "login", 1)
  /\ UNCHANGED <<files, tokens, reports, now, begun, history>>

(* Variant: the token file itself is opened and written. *)
OpenTemporary_InPlace(p) ==
  /\ Go(p, "open", "write")
  /\ \E i \in Inodes :
       /\ IF token # Nothing THEN i = token ELSE i # temporary
       /\ held' = [held EXCEPT ![p].inode = i]
       /\ token' = i
       /\ inodes' = [inodes EXCEPT ![i] = Empty]
  /\ overlapped' = (overlapped \/ \E q \in Procs : pc[q] \in Storing)
  /\ UNCHANGED <<exit, files, temporary, reports, now, begun, loaded, swapDied>>

(* O_CREAT | O_TRUNC: a temporary file that is there is emptied and shared. *)
OpenTemporary(p) ==
  /\ Go(p, "open", "write")
  /\ \E i \in Inodes :
       /\ IF temporary # Nothing THEN i = temporary
          ELSE i # token /\ \A q \in Procs : pc[q] \in Storing => held[q].inode # i
       /\ held' = [held EXCEPT ![p].inode = i]
       /\ temporary' = i
       /\ inodes' = [inodes EXCEPT ![i] = Empty]
  /\ overlapped' = (overlapped \/ \E q \in Procs : pc[q] \in Storing)
  /\ UNCHANGED <<exit, files, token, reports, now, begun, loaded, swapDied>>

(* One write at offset 0 when the stream is closed: over a longer token, the *)
(* rest of that token stays.                                                *)
WriteToken(p) ==
  /\ Go(p, "write", "replace")
  /\ \E content \in {held[p].expiry} \cup
                    (IF inodes[held[p].inode] = Empty THEN {} ELSE {Torn}) :
       inodes' = [inodes EXCEPT ![held[p].inode] = content]
  /\ UNCHANGED <<held, exit, files, token, temporary, reports, now, begun, history>>

ReplaceToken(p) ==
  /\ \/ /\ temporary # Nothing
        /\ token' = temporary /\ temporary' = Nothing
        /\ End(p, "replace", "login", 0)
     \/ temporary = Nothing /\ End(p, "replace", "login", 1) /\ UNCHANGED <<token, temporary>>
  /\ UNCHANGED <<files, inodes, reports, now, begun, history>>

Login(p) == \/ Begin(p, "ask", 0)
            \/ LoginAnswered(p) \/ OpenTemporary(p) \/ WriteToken(p) \/ ReplaceToken(p)

-----------------------------------------------------------------------------
(* ketqat catalog run.  A request is what the catalog and the declared      *)
(* inputs make of the command line.                                         *)

Requests == [tier : {"free", "pro"}, version : {"current", "supported", "retired", "unknown"},
             sdkSuffices : BOOLEAN, parameters : {"valid", "invalid"}, implemented : BOOLEAN]

(* Catalog.resolve, Product.version, the SDK floor.                         *)
Resolves(q) == q.version \in {"current", "supported"} /\ q.sdkSuffices

(* Where run goes: a Pro product is entitled first, a Free one must be      *)
(* implemented.                                                             *)
Start(q) == IF ~Resolves(q) \/ q.parameters = "invalid" THEN "refused"
            ELSE IF q.tier = "pro" THEN "entitle"
            ELSE IF q.implemented THEN "running" ELSE "refused"

BeginRun(p) ==
  \E at \in {Start(q) : q \in Requests} :
    \/ at # "refused" /\ Begin(p, at, begun + 1)
    \/ /\ at = "refused"
       /\ begun < MaxCommands /\ begun' = begun + 1
       /\ End(p, "idle", "run", 2)
       /\ UNCHANGED <<files, tokens, reports, now, history>>

Refuse(p, from, code) == /\ End(p, from, "run", code)
                         /\ UNCHANGED <<files, tokens, reports, now, begun, history>>

(* require_valid: present, verified, not expired.                           *)
ReadToken(p) ==
  LET content == IF token = Nothing THEN Empty ELSE inodes[token]
      valid == content \in Expiry /\ now < content
  IN  \/ /\ Go(p, "entitle", "manifest") /\ valid
         /\ UNCHANGED <<held, exit, files, tokens, reports, now, begun, history>>
      \/ Refuse(p, "entitle", 1) /\ ~valid

(* verify_installed, first half: bundle.json and its signature.             *)
ReadManifest(p) ==
  \/ /\ Go(p, "manifest", "check") /\ destination # Nothing
     /\ held' = [held EXCEPT ![p].content = destination.content]
     /\ UNCHANGED <<exit, files, tokens, reports, now, begun, history>>
  \/ Refuse(p, "manifest", 1) /\ destination = Nothing

(* Second half: the paths present and their hashes, against that manifest.   *)
(* Whatever lies under __pycache__ is left out of both.                      *)
Intact_ManifestOnly(content) == destination # Nothing /\ destination.content = content
Intact(content) == destination # Nothing /\ destination.content = content /\ destination.clean

CheckFiles(p) ==
  \/ /\ Go(p, "check", "load") /\ Intact(held[p].content)
     /\ loaded' = [loaded EXCEPT ![p] = [runs |-> FALSE, clean |-> TRUE, cached |-> FALSE, touched |-> FALSE]]
     /\ UNCHANGED <<held, exit, files, tokens, reports, now, begun, overlapped, swapDied>>
  \/ Refuse(p, "check", 1) /\ ~Intact(held[p].content)

(* exec_module reads the entry point again, from whatever is there now: its  *)
(* source, or cached bytecode of it or of a module it imports that the       *)
(* interpreter takes for current. It writes no bytecode itself, and may also *)
(* not import, or define no run.                                             *)
Load(p) ==
  \/ /\ destination # Nothing
     /\ Go(p, "load", "running")
     /\ \E cached \in {FALSE, destination.cached} :
          loaded' = [loaded EXCEPT ![p].runs = TRUE, ![p].cached = cached,
                                   ![p].clean = destination.clean /\ ~cached]
     /\ UNCHANGED <<held, exit, files, tokens, reports, now, begun, overlapped, swapDied>>
  \/ Refuse(p, "load", 1)

(* implementation.run: a result, a failure, or a ParameterError, which is   *)
(* re-raised without a record.                                              *)
Product(p) ==
  \/ \E s \in {"succeeded", "failed"} :
       /\ Go(p, "running", "record") /\ held' = [held EXCEPT ![p].status = s]
       /\ UNCHANGED <<exit, files, tokens, reports, now, begun, history>>
  \/ Refuse(p, "running", 2)

MintReportId_Missing(run) == Nothing   \* variant
MintReportId(run) == run

(* Variant: a failing write is ignored. *)
WriteRecord_Lenient(p) ==
  /\ pc[p] = "record"
  /\ \/ records' = [records EXCEPT ![held[p].run] = [status |-> held[p].status,
                                    clientReportId |-> MintReportId(held[p].run)]]
     \/ UNCHANGED records
  /\ End(p, "record", "run", IF held[p].status = "succeeded" THEN 0 ELSE 1)
  /\ UNCHANGED <<files, tokens, receipts, counted, now, begun, history>>

(* write_record, then --output; either may fail on the file system.         *)
WriteRecord(p) ==
  /\ pc[p] = "record"
  /\ LET r == held[p].run
         ok == held[p].status = "succeeded"
     IN  \/ /\ records[r] = Nothing
            /\ records' = [records EXCEPT ![r] = [status |-> held[p].status,
                                                  clientReportId |-> MintReportId(r)]]
            /\ \E code \in (IF ok THEN {0, 1} ELSE {1}) : End(p, "record", "run", code)
         \/ UNCHANGED records /\ End(p, "record", "run", 1)
  /\ UNCHANGED <<files, tokens, receipts, counted, now, begun, history>>

Run(p) == \/ BeginRun(p) \/ ReadToken(p) \/ ReadManifest(p) \/ CheckFiles(p) \/ Load(p)
          \/ Product(p) \/ WriteRecord(p)

-----------------------------------------------------------------------------
(* ketqat report.                                                           *)

BeginReport(p) == \E r \in RunIds : records[r] # Nothing /\ Begin(p, "confirm", r)

(* No terminal is a usage error; "no" is not.                               *)
Confirm(p) ==
  \/ /\ Go(p, "confirm", "send")
     /\ UNCHANGED <<held, exit, files, tokens, reports, now, begun, history>>
  \/ \E code \in {0, 2} : /\ End(p, "confirm", "declined", code)
                          /\ UNCHANGED <<files, tokens, reports, now, begun, history>>

ReportId_PerSend(run) == begun   \* variant: minted when the report is sent
ReportId(run) == records[run].clientReportId

(* The request may be lost, refused, or accepted, and its answer lost.      *)
Send(p) ==
  /\ pc[p] = "send"
  /\ \/ /\ counted' = counted \cup {<<held[p].run, ReportId(held[p].run)>>}
        /\ \/ Go(p, "send", "receipt") /\ UNCHANGED <<held, exit>>
           \/ End(p, "send", "report", 1)
     \/ UNCHANGED counted /\ End(p, "send", "report", 1)
  /\ UNCHANGED <<files, tokens, records, receipts, now, begun, history>>

WriteReceipt(p) ==
  /\ \/ End(p, "receipt", "report", 0) /\ receipts' = receipts \cup {held[p].run}
     \/ UNCHANGED receipts /\ End(p, "receipt", "report", 1)
  /\ UNCHANGED <<files, tokens, records, counted, now, begun, history>>

Report(p) == BeginReport(p) \/ Confirm(p) \/ Send(p) \/ WriteReceipt(p)

-----------------------------------------------------------------------------
(* A process may be killed anywhere; its files stay as they are.            *)
Killed(p) ==
  /\ pc[p] # "idle"
  /\ Go(p, pc[p], "idle") /\ HoldRun(p, 0)
  /\ exit' = [exit EXCEPT ![p] = Nothing]
  /\ swapDied' = (swapDied \/ pc[p] = "swap")
  /\ UNCHANGED <<files, tokens, reports, now, begun, loaded, overlapped>>

(* The user edits an installed file, or has bytecode written under           *)
(* __pycache__ (by a tool that compiles the directory, say).                 *)
Edit ==
  /\ destination # Nothing
  /\ \/ /\ destination.clean
        /\ destination' = [destination EXCEPT !.clean = FALSE]
        /\ loaded' = [p \in Procs |-> IF loaded[p] # Nothing /\ pc[p] = "load"
                                      THEN [loaded[p] EXCEPT !.touched = TRUE] ELSE loaded[p]]
     \/ /\ ~destination.cached
        /\ destination' = [destination EXCEPT !.cached = TRUE]
        /\ UNCHANGED loaded
  /\ UNCHANGED <<pc, held, exit, staging, retired, tokens, reports, now, begun, overlapped, swapDied>>

Tick == /\ now < MaxTime /\ now' = now + 1
        /\ UNCHANGED <<pc, held, exit, files, tokens, reports, begun, history>>

Next == \/ \E p \in Procs : Install(p) \/ Login(p) \/ Run(p) \/ Report(p) \/ Killed(p)
        \/ Edit \/ Tick

Spec == Init /\ [][Next]_vars

-----------------------------------------------------------------------------
(* Files, tokens and records have their shapes, whoever wrote them last: in *)
(* particular every record carries the report id minted with it.            *)
TypeOK ==
  /\ pc \in [Procs -> Places]
  /\ held \in [Procs -> Held]
  /\ exit \in [Procs -> Ending \cup {Nothing}]
  /\ loaded \in [Procs -> Loaded \cup {Nothing}]
  /\ destination \in Directory \cup {Nothing}
  /\ staging \in [Procs -> Directory \cup {Nothing}]
  /\ retired \in [Procs -> Directory \cup {Nothing}]
  /\ token \in Inodes \cup {Nothing} /\ temporary \in Inodes \cup {Nothing}
  /\ inodes \in [Inodes -> Expiry \cup {Empty, Torn}]
  /\ records \in [RunIds -> Record \cup {Nothing}]
  /\ receipts \in SUBSET RunIds /\ counted \in SUBSET (RunIds \X Nat)
  /\ now \in 0..MaxTime /\ begun \in 0..MaxCommands

(* An installation that fails, whatever runs beside it, leaves the old      *)
(* version or a new one in place: once a version was there, it is missing   *)
(* only between the two renames, or when an installer ended between them.   *)
VersionSurvives ==
  destination = Nothing /\ (\E p \in Procs : retired[p] # Nothing)
     => swapDied \/ \E p \in Procs : pc[p] = "swap"

(* "A file edited after installation is refused rather than executed", as    *)
(* far as it goes: code that runs is as it was signed, unless it was edited  *)
(* after this run's own check of it, or is bytecode under __pycache__, which *)
(* verify_installed excludes from the paths it compares and hashes, so that  *)
(* the docstring does not hold of it.  Reinstallations that swap the         *)
(* directory in between do not break this: only a verified bundle, without   *)
(* bytecode, is ever swapped in.                                             *)
EditsAreRefused ==
  \A p \in Procs :
    loaded[p] # Nothing /\ loaded[p].runs =>
      loaded[p].clean \/ loaded[p].touched \/ loaded[p].cached

(* A half-written or mixed token is at the final name only if two logins    *)
(* met in store_token; no crash of a single login leaves one there.         *)
TokenIsWhole ==
  token # Nothing /\ inodes[token] \in {Empty, Torn} => overlapped

(* However often, and by however many processes, a run is reported, through *)
(* lost answers and crashes, the server counts it once; and a receipt on    *)
(* disk means that it did.                                                  *)
ReportedOnce ==
  \A r \in RunIds : LET ids == {c \in counted : c[1] = r}
                    IN  Cardinality(ids) <= 1 /\ (r \in receipts => ids # {})

(* What an exit claims: of a run, that its success is on record; of a       *)
(* report, that the server has it.                                          *)
ExitIsTrue(e) ==
  /\ e.command = "run" => /\ e.run \in RunIds /\ records[e.run] # Nothing
                          /\ records[e.run].status = "succeeded"
  /\ e.command = "report" => \E c \in counted : c[1] = e.run

(* Exit code 0 of a run means its success is on record, and of a report     *)
(* that the server has it, whatever the other processes do meanwhile.       *)
ExitZeroIsTrue ==
  \A p \in Procs : exit[p] # Nothing /\ exit[p].code = 0 => ExitIsTrue(exit[p])

-----------------------------------------------------------------------------
(* The inductive invariants.                                                *)

(* What is staged is a whole signed bundle and nothing else, and is there    *)
(* until it is placed.                                                       *)
StagedIsSigned ==
  \A p \in Procs : /\ staging[p] # Nothing => staging[p].clean /\ ~staging[p].cached
                   /\ pc[p] \in {"exists", "retire", "place", "swap"} => staging[p] # Nothing

(* A process about to load has checked, and what it will find is what it    *)
(* checked, another signed bundle, or a bundle whose edit was noticed here. *)
CheckedIsSigned ==
  \A p \in Procs : pc[p] = "load" =>
    loaded[p] # Nothing /\ (destination # Nothing => destination.clean \/ loaded[p].touched)

(* As long as logins have not met, the temporary file is the one storing    *)
(* process' own, empty until it has written, and not the token's file.      *)
TemporaryIsOwned ==
  /\ \A p \in Procs : pc[p] \in {"open", "write"} => held[p].expiry \in Expiry
  /\ overlapped \/
     /\ \A p, q \in Procs : pc[p] \in Storing /\ pc[q] \in Storing => p = q
     /\ \A p \in Procs :
          /\ pc[p] \in Storing => temporary \in Inodes /\ held[p].inode = temporary
          /\ pc[p] = "write"   => inodes[temporary] = Empty
          /\ pc[p] = "replace" => inodes[temporary] \in Expiry
     /\ token # Nothing => token # temporary /\ inodes[token] \in Expiry

(* The server counts a run under the one id in its record, and a process    *)
(* that is past its send, and a receipt, are about a counted run.           *)
Minted(r) == <<r, records[r].clientReportId>>

KnowsItsRun(p) ==
  /\ pc[p] \in {"entitle", "manifest", "check", "load", "running", "record",
                "confirm", "send", "receipt"} => held[p].run \in RunIds
  /\ pc[p] = "record" => held[p].status # "none"
  /\ pc[p] \in {"confirm", "send", "receipt"} => records[held[p].run] # Nothing
  /\ pc[p] = "receipt" => Minted(held[p].run) \in counted

CountedIsRecorded ==
  /\ \A p \in Procs : KnowsItsRun(p)
  /\ \A c \in counted : records[c[1]] # Nothing /\ c = Minted(c[1])
  /\ \A r \in receipts : Minted(r) \in counted

CatalogInv == /\ TypeOK /\ StagedIsSigned /\ VersionSurvives /\ CheckedIsSigned
              /\ EditsAreRefused /\ TemporaryIsOwned /\ CountedIsRecorded /\ ExitZeroIsTrue
=============================================================================
