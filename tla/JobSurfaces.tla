---------------------------- MODULE JobSurfaces -----------------------------
(***************************************************************************)
(* The ways a caller reaches the execution queue from outside: the engine  *)
(* CLI's `job` commands over KetQatClient, the MCP submit and cancel tools *)
(* over the same client, the Python CLI's `job` and `publish`.  Every one  *)
(* of them enqueues or asks; none executes.  A request is one HTTP         *)
(* exchange, which may be lost on its way there or back; nobody retries.   *)
(*                                                                         *)
(* external: the control plane (job rows, owners, cancellation) and the    *)
(* worker plane that moves a job, from WorkerPlane: an expired lease puts a *)
(* running job back in the queue.                                          *)
(***************************************************************************)
EXTENDS Integers, Sequences, FiniteSets

CONSTANTS Commands,     \* command processes and tool calls
          Tokens,       \* identities; a variable may hold one
          Timeout, Interval,  \* waitFor's, in ticks
          MaxJobs, MaxMoves   \* bounds: jobs queued, transitions of one job

ASSUME SurfacesAssumption == /\ Timeout \in Nat /\ Interval \in Nat \ {0}
                             /\ MaxJobs \in Nat /\ MaxMoves \in Nat
                             /\ IsFiniteSet(Tokens)

VARIABLES
  pc, kind,       \* per command: place, what it is
  asked,          \* what it was started with: [values, parses, confirmed]; confirmed is
                  \* the absence of --dry-run for a publish
  target,         \* the job it is about
  answer,         \* what came back: the job's status, "created", "missing"
  told,           \* waitFor: the statuses passed to onStatusChange
  left, rest,     \* waitFor: ticks to the deadline, ticks left to sleep
  exit,           \* [code, shown]: exit code and the status printed, if any
  jobs            \* external: rows [owner, by, status, cancel, past]

local == <<kind, asked, target>>
vars == <<pc, local, answer, told, left, rest, exit, jobs>>

Submits   == {"submit", "submit --wait", "mcp submit", "py submit", "publish"}
Waits     == {"submit --wait", "watch"}

(* What waitFor stops at, and, external, the states a job never leaves.     *)
TERMINAL_JOB_STATUSES == {"SUCCEEDED", "FAILED", "CANCELLED", "TIMED_OUT"}
Final == {"SUCCEEDED", "FAILED", "CANCELLED", "TIMED_OUT"}

Unasked == [values |-> {}, parses |-> FALSE, confirmed |-> FALSE]

Init == /\ pc = [c \in Commands |-> "idle"] /\ kind = [c \in Commands |-> "none"]
        /\ asked = [c \in Commands |-> Unasked] /\ target = [c \in Commands |-> 0]
        /\ answer = [c \in Commands |-> "none"] /\ told = [c \in Commands |-> <<>>]
        /\ left = [c \in Commands |-> 0] /\ rest = [c \in Commands |-> 0]
        /\ exit = [c \in Commands |-> [code |-> -1, shown |-> "none"]]
        /\ jobs = <<>>

Go(c, place) == pc' = [pc EXCEPT ![c] = place]
Ends(c, code, shown) == Go(c, "done") /\ exit' = [exit EXCEPT ![c] = [code |-> code, shown |-> shown]]

(* resolveApiToken, in both languages: blank variables do not count, and    *)
(* two different values are an error.  The set of tokens a command acts     *)
(* under has one member or none.                                            *)
Token(values) == IF Cardinality(values) = 1 THEN values ELSE {}

(* The environment is read afresh by each command.  `parses` stands for the  *)
(* local checks of what is to be sent: the circuit parses, the shots are    *)
(* not negative, the result's hash and is_demo pass.                        *)
Asked == [values : SUBSET Tokens, parses : BOOLEAN, confirmed : BOOLEAN]

Starts(c, k, a, id) ==
  /\ pc[c] = "idle" /\ Go(c, "asking")
  /\ kind' = [kind EXCEPT ![c] = k] /\ asked' = [asked EXCEPT ![c] = a]
  /\ target' = [target EXCEPT ![c] = id]
  /\ left' = [left EXCEPT ![c] = IF k = "watch" THEN Timeout ELSE 0]
  /\ UNCHANGED <<answer, told, rest, exit, jobs>>

(* Nothing was sent.                                                        *)
Refuses(c, code) ==
  /\ pc[c] = "idle" /\ Ends(c, code, "none")
  /\ UNCHANGED <<local, answer, told, left, rest, jobs>>

(* `job submit`: the client is built before the circuit is read; no token   *)
(* is an error of configuration, 2, a circuit that does not parse is 1.     *)
JobSubmit(c) ==
  \E k \in {"submit", "submit --wait"}, a \in Asked :
    /\ a.confirmed
    /\ IF Token(a.values) = {} THEN Refuses(c, 2)
       ELSE IF ~a.parses THEN Refuses(c, 1) ELSE Starts(c, k, a, 0)

(* `job watch`, `job status` and `job cancel` name a job.                   *)
JobAsk(c) ==
  \E k \in {"watch", "status", "cancel"}, a \in Asked, id \in 1..MaxJobs :
    /\ a.confirmed /\ a.parses
    /\ IF Token(a.values) = {} THEN Refuses(c, 2) ELSE Starts(c, k, a, id)

(* The tool parses first, asks for `confirmed` next; it always returns.     *)
SubmitTool(c) ==
  \E a \in Asked : IF a.parses /\ a.confirmed /\ Token(a.values) # {}
                   THEN Starts(c, "mcp submit", a, 0) ELSE Refuses(c, 0)

(* The Python `job submit` refuses without --confirm by 2, otherwise by 1.  *)
PySubmit(c) ==
  \E a \in Asked : IF a.parses /\ a.confirmed /\ Token(a.values) # {}
                   THEN Starts(c, "py submit", a, 0)
                   ELSE Refuses(c, IF a.confirmed THEN 1 ELSE 2)

(* `publish` checks the result, stops there under --dry-run, and needs a    *)
(* token only to send.                                                      *)
CheckPublishable(a) == a.parses

PublishResult(c) ==
  \E a \in Asked :
    IF ~CheckPublishable(a) THEN Refuses(c, 1)
    ELSE IF ~a.confirmed THEN Refuses(c, 0)
    ELSE IF Token(a.values) = {} THEN Refuses(c, 1)
    ELSE Starts(c, "publish", a, 0)

(* Python's `job status` and `job cancel`: one exchange, and 1 for whatever *)
(* went wrong before it or in it.                                           *)
PyAsk(c) ==
  \E k \in {"status", "cancel"}, a \in Asked, id \in 1..MaxJobs :
    /\ a.confirmed /\ a.parses
    /\ IF Token(a.values) = {} THEN Refuses(c, 1) ELSE Starts(c, k, a, id)

Begin(c) == PyAsk(c) \/ JobSubmit(c) \/ JobAsk(c) \/ SubmitTool(c) \/ PySubmit(c) \/ PublishResult(c)

Owner(c) == CHOOSE t \in Token(asked[c].values) : TRUE
Owns(c)  == target[c] \in DOMAIN jobs /\ jobs[target[c]].owner = Owner(c)
            /\ jobs[target[c]].status # "IMPORTED"

Moved(row, status) == [row EXCEPT !.status = status, !.past = Append(@, status)]

(* external: the control plane.  Somebody else's job is a 404, and so is an *)
(* imported run, which is a row of its own and never moves.                 *)
Serve(c) ==
  /\ pc[c] = "asking"
  /\ IF kind[c] \in Submits /\ target[c] = 0
     THEN /\ Len(jobs) < MaxJobs
          /\ LET first == IF kind[c] = "publish" THEN "IMPORTED" ELSE "QUEUED"
             IN  jobs' = Append(jobs, [owner |-> Owner(c), by |-> c, status |-> first,
                                       cancel |-> FALSE, past |-> <<first>>])
          /\ answer' = [answer EXCEPT ![c] = "created"]
          /\ target' = [target EXCEPT ![c] = Len(jobs) + 1]
     ELSE IF ~Owns(c) THEN answer' = [answer EXCEPT ![c] = "missing"] /\ UNCHANGED <<jobs, target>>
     ELSE LET row == jobs[target[c]]
              now == IF kind[c] # "cancel" \/ row.status \in Final THEN row
                     ELSE IF row.status = "QUEUED" THEN Moved(row, "CANCELLED")
                     ELSE [row EXCEPT !.cancel = TRUE]
          IN  /\ jobs' = [jobs EXCEPT ![target[c]] = now]
              /\ answer' = [answer EXCEPT ![c] = now.status] /\ UNCHANGED target
  /\ Go(c, "answered")
  /\ UNCHANGED <<kind, asked, told, left, rest, exit>>

(* A lost exchange repeated by itself.                                      *)
Lost_Resubmits(c) ==
  /\ pc[c] = "answered" /\ Go(c, "asking")
  /\ target' = [target EXCEPT ![c] = IF kind[c] \in Submits THEN 0 ELSE @]
  /\ answer' = [answer EXCEPT ![c] = "none"]
  /\ UNCHANGED <<kind, asked, told, left, rest, exit, jobs>>

(* The request or its answer is lost, or the service is failing: request()  *)
(* throws and the command ends, whatever the server has already done.       *)
Lost(c) ==
  /\ pc[c] \in {"asking", "answered"} /\ Ends(c, 1, "none")
  /\ answer' = [answer EXCEPT ![c] = "none"]
  /\ UNCHANGED <<local, told, left, rest, jobs>>

(* A command of one exchange prints what came back.                         *)
ReadAnswer(c) ==
  /\ pc[c] = "answered" /\ kind[c] \notin Waits
  /\ IF answer[c] = "missing" THEN Ends(c, 1, "none") ELSE Ends(c, 0, answer[c])
  /\ answer' = [answer EXCEPT ![c] = "none"]
  /\ UNCHANGED <<local, told, left, rest, jobs>>

(* `job submit --wait`: the job exists, and waitFor begins with a deadline. *)
BeginWait(c) ==
  /\ pc[c] = "answered" /\ answer[c] = "created" /\ kind[c] \in Waits
  /\ left' = [left EXCEPT ![c] = Timeout]
  /\ Go(c, "asking")
  /\ UNCHANGED <<local, answer, told, rest, exit, jobs>>

(* What a finished wait exits with.  A watch that stopped early says so     *)
(* with 2; `submit --wait` has one answer for all that is not a success.    *)
WaitExit(c, status) ==
  IF status = "SUCCEEDED" THEN 0
  ELSE IF kind[c] = "watch" /\ status \notin TERMINAL_JOB_STATUSES THEN 2 ELSE 1

Heard(c, status) == told[c] # <<>> /\ told[c][Len(told[c])] = status

Tells_EveryPoll(c, status) == told' = [told EXCEPT ![c] = Append(@, status)]

Tells(c, status) == told' = IF Heard(c, status) THEN told
                            ELSE [told EXCEPT ![c] = Append(@, status)]

(* The deadline set again by every poll.                                    *)
Poll_NewDeadline(c) ==
  /\ pc[c] = "answered" /\ kind[c] \in Waits /\ answer[c] # "created"
  /\ IF answer[c] = "missing" THEN Ends(c, 1, "none") /\ UNCHANGED <<told, rest, left>>
     ELSE /\ Tells(c, answer[c])
          /\ IF answer[c] \in TERMINAL_JOB_STATUSES \/ Timeout < Interval
             THEN Ends(c, WaitExit(c, answer[c]), answer[c]) /\ UNCHANGED <<rest, left>>
             ELSE /\ Go(c, "sleeping") /\ rest' = [rest EXCEPT ![c] = Interval]
                  /\ left' = [left EXCEPT ![c] = Timeout] /\ UNCHANGED exit
  /\ answer' = [answer EXCEPT ![c] = "none"]
  /\ UNCHANGED <<local, jobs>>

(* waitFor: one poll's answer.  The deadline is looked at only here.        *)
Poll(c) ==
  /\ pc[c] = "answered" /\ kind[c] \in Waits /\ answer[c] # "created"
  /\ IF answer[c] = "missing" THEN Ends(c, 1, "none") /\ UNCHANGED <<told, rest>>
     ELSE /\ Tells(c, answer[c])
          /\ IF answer[c] \in TERMINAL_JOB_STATUSES \/ left[c] < Interval
             THEN Ends(c, WaitExit(c, answer[c]), answer[c]) /\ UNCHANGED rest
             ELSE Go(c, "sleeping") /\ rest' = [rest EXCEPT ![c] = Interval] /\ UNCHANGED exit
  /\ answer' = [answer EXCEPT ![c] = "none"]
  /\ UNCHANGED <<local, left, jobs>>

Wake(c) == /\ pc[c] = "sleeping" /\ rest[c] = 0 /\ Go(c, "asking")
           /\ UNCHANGED <<local, answer, told, left, rest, exit, jobs>>

Tick == /\ \E c \in Commands : pc[c] # "done" /\ left[c] + rest[c] > 0
        /\ left' = [c \in Commands |-> IF pc[c] = "done" \/ left[c] = 0 THEN 0 ELSE left[c] - 1]
        /\ rest' = [c \in Commands |-> IF rest[c] = 0 THEN 0 ELSE rest[c] - 1]
        /\ UNCHANGED <<pc, local, answer, told, exit, jobs>>

(* external: the worker plane moves a job.                                  *)
JobMoves(id) ==
  /\ Len(jobs[id].past) <= MaxMoves
  /\ \E status \in CASE jobs[id].status = "QUEUED"  -> {"RUNNING"}
                     [] jobs[id].status = "RUNNING" -> {"SUCCEEDED", "FAILED", "TIMED_OUT", "QUEUED"}
                                                  \cup (IF jobs[id].cancel THEN {"CANCELLED"} ELSE {})
                     [] OTHER -> {} :
       jobs' = [jobs EXCEPT ![id] = Moved(@, status)]
  /\ UNCHANGED <<pc, local, answer, told, left, rest, exit>>

Next == \/ \E c \in Commands : \/ Begin(c) \/ Serve(c) \/ Lost(c) \/ ReadAnswer(c)
                               \/ BeginWait(c) \/ Poll(c) \/ Wake(c)
        \/ Tick
        \/ \E id \in DOMAIN jobs : JobMoves(id)

(* The event loop runs what is ready and the clock goes on; an exchange     *)
(* settles one way or the other (fetch's own limits); a job need not move.  *)
Fairness == /\ \A c \in Commands : /\ WF_vars(Serve(c) \/ Lost(c)) /\ WF_vars(ReadAnswer(c))
                                   /\ WF_vars(BeginWait(c) \/ Poll(c)) /\ WF_vars(Wake(c))
            /\ WF_vars(Tick)

Spec == Init /\ [][Next]_vars /\ Fairness

-----------------------------------------------------------------------------
(* Each row has a command of its own that asked for it: the circuit parsed, *)
(* the person agreed where agreement is asked, and the owner is the only    *)
(* identity the environment named when the command began.  No exchange that *)
(* was lost left a second row behind.                                       *)
SubmittedOnce ==
  /\ \A i, j \in DOMAIN jobs : jobs[i].by = jobs[j].by => i = j
  /\ \A i \in DOMAIN jobs : LET a == asked[jobs[i].by] IN
       a.parses /\ a.confirmed /\ a.values = {jobs[i].owner}

(* A job's history without some of its entries: what polling can see.       *)
Thinned(short, long) ==
  \E at \in [DOMAIN short -> DOMAIN long] :
    /\ \A i \in DOMAIN short : short[i] = long[at[i]]
    /\ \A i, j \in DOMAIN short : i < j => at[i] < at[j]

(* What `job watch` prints is so: its transitions happened, in that order,  *)
(* none printed twice in a row; success and failure are the job's last      *)
(* word; and a job it calls still running had not ended.                    *)
WatchIsTrue ==
  \A c \in Commands : kind[c] = "watch" /\ told[c] # <<>> =>
    LET row == jobs[target[c]] IN
    /\ Thinned(told[c], row.past)
    /\ \A i \in 2..Len(told[c]) : told[c][i] # told[c][i - 1]
    /\ exit[c].code = 0 => row.status = "SUCCEEDED"
    /\ exit[c].code = 1 /\ exit[c].shown # "none" => row.status \in Final \ {"SUCCEEDED"}
    /\ exit[c].code = 2 => exit[c].shown \notin Final

(* A command that sent a request comes to an end, whatever the job does:    *)
(* waitFor is bounded by its deadline even if the job never moves again.    *)
CommandsEnd == \A c \in Commands : pc[c] = "asking" ~> pc[c] = "done"

-----------------------------------------------------------------------------
(* The inductive invariant.                                                 *)

Statuses == {"QUEUED", "RUNNING", "IMPORTED"} \cup Final
Kinds    == Submits \cup Waits \cup {"none", "status", "cancel"}
Answers  == Statuses \cup {"none", "created", "missing"}
Rows     == [owner : Tokens, by : Commands, status : Statuses, cancel : BOOLEAN, past : Seq(Statuses)]
Exits    == [code : -1..2, shown : Answers]

(* Each command's state and each row has its shape, and a row's status is   *)
(* the last entry of its history.                                           *)
TypeOK ==
  /\ pc \in [Commands -> {"idle", "asking", "answered", "sleeping", "done"}]
  /\ kind \in [Commands -> Kinds] /\ asked \in [Commands -> Asked]
  /\ target \in [Commands -> 0..MaxJobs] /\ answer \in [Commands -> Answers]
  /\ told \in [Commands -> Seq(Statuses)] /\ exit \in [Commands -> Exits]
  /\ left \in [Commands -> 0..Timeout] /\ rest \in [Commands -> 0..Interval]
  /\ jobs \in Seq(Rows)
  /\ \A i \in DOMAIN jobs : jobs[i].past # <<>> /\ jobs[i].past[Len(jobs[i].past)] = jobs[i].status

(* A command under way passed its own checks, there is an answer where one  *)
(* is to be read, and a row's command still points at it.                   *)
RowsAreAsked ==
  /\ \A c \in Commands : pc[c] = "answered" => answer[c] # "none"
  /\ \A c \in Commands : pc[c] \notin {"idle", "done"} =>
       asked[c].parses /\ asked[c].confirmed /\ Token(asked[c].values) # {}
  /\ \A i \in DOMAIN jobs : LET c == jobs[i].by IN
       /\ pc[c] # "idle" /\ target[c] = i
       /\ asked[c].parses /\ asked[c].confirmed /\ asked[c].values = {jobs[i].owner}

(* What a watch will have printed once it reads the answer it was given.    *)
Telling(c) == IF answer[c] \in Statuses /\ ~Heard(c, answer[c]) THEN Append(told[c], answer[c]) ELSE told[c]

(* A watch's answer is from its job's history, even when the job has moved  *)
(* on since, and a last word in it is still the job's.                      *)
Knows(c) ==
  /\ pc[c] = "idle" => kind[c] = "none" /\ told[c] = <<>> /\ exit[c] = [code |-> -1, shown |-> "none"]
  /\ answer[c] \in Statuses => pc[c] = "answered"
  /\ kind[c] = "watch" =>
       /\ pc[c] # "done" => exit[c] = [code |-> -1, shown |-> "none"]
       /\ Telling(c) # <<>> => target[c] \in DOMAIN jobs /\ Thinned(Telling(c), jobs[target[c]].past)
       /\ \A i \in 2..Len(told[c]) : told[c][i] # told[c][i - 1]
       /\ answer[c] \in Final => jobs[target[c]].status = answer[c]

(* What a watch exits with is what it last read.                            *)
ExitsOnWhatItRead(c) == kind[c] = "watch" /\ pc[c] = "done" =>
  /\ exit[c].code \in 0..2 /\ (exit[c].shown = "none" => exit[c].code = 1)
  /\ exit[c].shown # "none" =>
       /\ told[c] # <<>>
       /\ exit[c].code = 0 <=> exit[c].shown = "SUCCEEDED"
       /\ exit[c].code = 2 <=> exit[c].shown \notin Final
       /\ exit[c].shown \in Final => jobs[target[c]].status = exit[c].shown

WatchKnows == \A c \in Commands : Knows(c) /\ ExitsOnWhatItRead(c)

SurfacesInv == TypeOK /\ RowsAreAsked /\ WatchKnows
=============================================================================
