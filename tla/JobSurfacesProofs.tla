------------------------- MODULE JobSurfacesProofs --------------------------
(***************************************************************************)
(* JobSurfaces for every number of commands, identities and jobs: what     *)
(* SurfacesInv says holds in every reachable state, and the two invariants *)
(* of the run with it.  That commands come to an end is TLC's.             *)
(***************************************************************************)
EXTENDS JobSurfaces, SequenceTheorems, FiniteSetTheorems, TLAPS

------------------------------------------------------------------------------
(* Histories.                                                               *)

\* A job that moves on does not change what was seen of it.
LEMMA ThinnedGrows ==
  ASSUME NEW S, NEW short \in Seq(S), NEW long \in Seq(S), NEW x \in S, Thinned(short, long)
  PROVE  Thinned(short, Append(long, x))
<1>1. PICK at \in [DOMAIN short -> DOMAIN long] :
        /\ \A i \in DOMAIN short : short[i] = long[at[i]]
        /\ \A i, j \in DOMAIN short : i < j => at[i] < at[j]
  BY DEF Thinned
<1>2. /\ DOMAIN long = 1..Len(long) /\ DOMAIN Append(long, x) = 1..(Len(long) + 1) /\ Len(long) \in Nat
      /\ \A i \in 1..Len(long) : Append(long, x)[i] = long[i]
  BY LenProperties, AppendProperties
<1>3. at \in [DOMAIN short -> DOMAIN Append(long, x)]
  BY <1>1, <1>2
<1>4. \A i \in DOMAIN short : short[i] = Append(long, x)[at[i]]
  BY <1>1, <1>2
<1> QED
  BY <1>1, <1>3, <1>4 DEF Thinned

\* The job's present status can be told after what was told, unless it was
\* told last.
LEMMA ThinnedExtends ==
  ASSUME NEW S, NEW short \in Seq(S), NEW long \in Seq(S), long # <<>>,
         short # <<>> => Thinned(short, long) /\ short[Len(short)] # long[Len(long)]
  PROVE  Thinned(Append(short, long[Len(long)]), long)
<1> DEFINE n == Len(short)
           m == Len(long)
           told1 == Append(short, long[m])
<1>1. /\ n \in Nat /\ DOMAIN short = 1..n
      /\ m \in Nat /\ m > 0 /\ DOMAIN long = 1..m /\ long[m] \in S
      /\ n = 0 <=> short = <<>>
  BY LenProperties, EmptySeq, ElementOfSeq
<1>2. /\ DOMAIN told1 = 1..(n + 1) /\ told1[n + 1] = long[m]
      /\ \A i \in 1..n : told1[i] = short[i]
  BY <1>1, LenProperties, AppendProperties
<1>3. CASE n = 0
  <2> DEFINE at == [i \in 1..(n + 1) |-> m]
  <2>1. at \in [DOMAIN told1 -> DOMAIN long]
    BY <1>1, <1>2
  <2>2. \A i \in DOMAIN told1 : told1[i] = long[at[i]]
    BY <1>1, <1>2, <1>3
  <2>3. \A i, j \in DOMAIN told1 : i < j => at[i] < at[j]
    BY <1>1, <1>2, <1>3
  <2> HIDE DEF at, told1
  <2>4. Thinned(told1, long)
    BY <2>1, <2>2, <2>3 DEF Thinned
  <2> QED
    BY <2>4 DEF told1
<1>4. CASE n > 0
  <2>1. Thinned(short, long) /\ short[n] # long[m]
    BY <1>1, <1>4
  <2>2. PICK at \in [1..n -> 1..m] :
          /\ \A i \in 1..n : short[i] = long[at[i]]
          /\ \A i, j \in 1..n : i < j => at[i] < at[j]
    BY <2>1, <1>1 DEF Thinned
  <2>3. at[n] < m
    BY <2>1, <2>2, <1>1, <1>4
  <2>4. \A i \in 1..n : at[i] <= at[n]
    BY <2>2, <1>1, <1>4
  <2> DEFINE more == [i \in 1..(n + 1) |-> IF i = n + 1 THEN m ELSE at[i]]
  <2>5. more \in [DOMAIN told1 -> DOMAIN long]
    BY <1>1, <1>2, <2>2
  <2>6. \A i \in DOMAIN told1 : told1[i] = long[more[i]]
    BY <1>1, <1>2, <2>2
  <2>7. \A i, j \in DOMAIN told1 : i < j => more[i] < more[j]
    BY <1>1, <1>2, <2>2, <2>3, <2>4
  <2> HIDE DEF more, told1
  <2>8. Thinned(told1, long)
    BY <2>5, <2>6, <2>7 DEF Thinned
  <2> QED
    BY <2>8 DEF told1
<1> QED
  BY <1>1, <1>3, <1>4

------------------------------------------------------------------------------
(* Types.                                                                   *)

\* The one identity of an environment that names one.
LEMMA TokenIsOne ==
  ASSUME NEW values \in SUBSET Tokens, Token(values) # {}
  PROVE  \E t \in Tokens : values = {t} /\ Token(values) = {t}
<1>1. Cardinality(values) = 1 /\ Token(values) = values
  BY DEF Token
<1>2. IsFiniteSet(values)
  BY SurfacesAssumption, FS_Subset
<1>3. PICK t : values = {t}
  BY <1>1, <1>2, FS_Singleton
<1> QED
  BY <1>1, <1>3

\* A command's owner is that identity.
LEMMA OwnerIsToken ==
  ASSUME TypeOK, NEW c \in Commands, Token(asked[c].values) # {}
  PROVE  Owner(c) \in Tokens /\ asked[c].values = {Owner(c)}
<1>1. asked[c].values \in SUBSET Tokens
  BY DEF TypeOK, Asked
<1>2. PICK t \in Tokens : asked[c].values = {t} /\ Token(asked[c].values) = {t}
  BY <1>1, TokenIsOne
<1> QED
  BY <1>2 DEF Owner

\* A row's fields.
LEMMA RowFields ==
  ASSUME TypeOK, NEW i \in DOMAIN jobs
  PROVE  /\ jobs[i] \in Rows /\ DOMAIN jobs = 1..Len(jobs) /\ Len(jobs) \in Nat
         /\ jobs[i].owner \in Tokens /\ jobs[i].by \in Commands /\ jobs[i].status \in Statuses
         /\ jobs[i].past \in Seq(Statuses) /\ jobs[i].past # <<>>
         /\ jobs[i].past[Len(jobs[i].past)] = jobs[i].status
<1>1. jobs \in Seq(Rows) /\ DOMAIN jobs = 1..Len(jobs) /\ Len(jobs) \in Nat
  BY LenProperties DEF TypeOK
<1>2. jobs[i] \in Rows
  BY <1>1, ElementOfSeq
<1> QED
  BY <1>1, <1>2 DEF TypeOK, Rows

\* What a row may become: the same history, or one entry more unless it has
\* ended or was imported.
MayBecome(old, new) ==
  /\ new \in Rows /\ new.owner = old.owner /\ new.by = old.by
  /\ \/ new.status = old.status /\ new.past = old.past
     \/ /\ old.status \notin Final \cup {"IMPORTED"}
        /\ new.past = Append(old.past, new.status)

\* Moved adds its status to the row's history.
LEMMA MovedIsNext ==
  ASSUME NEW row \in Rows, NEW status \in Statuses, row.status \notin Final \cup {"IMPORTED"}
  PROVE  MayBecome(row, Moved(row, status))
<1>1. row.past \in Seq(Statuses)
  BY DEF Rows
<1>2. Append(row.past, status) \in Seq(Statuses)
  BY <1>1, AppendProperties
<1> QED
  BY <1>2 DEF MayBecome, Moved, Rows

\* The control plane's table: unchanged, one row changed, or one row more.
LEMMA TableSteps ==
  ASSUME TypeOK, RowsAreAsked, [Next]_vars
  PROVE  \/ UNCHANGED jobs
         \/ \E id \in DOMAIN jobs, row \in Rows :
              MayBecome(jobs[id], row) /\ jobs' = [jobs EXCEPT ![id] = row]
         \/ \E c \in Commands, first \in {"IMPORTED", "QUEUED"} :
              /\ Serve(c) /\ kind[c] \in Submits /\ target[c] = 0 /\ target'[c] = Len(jobs) + 1
              /\ jobs' = Append(jobs, [owner |-> Owner(c), by |-> c, status |-> first,
                                       cancel |-> FALSE, past |-> <<first>>])
<1>1. ASSUME NEW c \in Commands, Serve(c), kind[c] \in Submits, target[c] = 0
      PROVE  \E first \in {"IMPORTED", "QUEUED"} :
              /\ Serve(c) /\ kind[c] \in Submits /\ target[c] = 0 /\ target'[c] = Len(jobs) + 1
              /\ jobs' = Append(jobs, [owner |-> Owner(c), by |-> c, status |-> first,
                                       cancel |-> FALSE, past |-> <<first>>])
  BY <1>1 DEF Serve, TypeOK
<1>2. ASSUME NEW c \in Commands, Serve(c), ~(kind[c] \in Submits /\ target[c] = 0), Owns(c)
      PROVE  \E id \in DOMAIN jobs, row \in Rows :
               MayBecome(jobs[id], row) /\ jobs' = [jobs EXCEPT ![id] = row]
  <2> DEFINE old == jobs[target[c]]
             now == IF kind[c] # "cancel" \/ old.status \in Final THEN old
                    ELSE IF old.status = "QUEUED" THEN Moved(old, "CANCELLED")
                    ELSE [old EXCEPT !.cancel = TRUE]
  <2>1. target[c] \in DOMAIN jobs /\ old.status # "IMPORTED"
    BY <1>2 DEF Owns
  <2>2. old \in Rows
    BY <2>1, RowFields
  <2>3. MayBecome(old, now)
    <3>1. MayBecome(old, old)
      BY <2>2 DEF MayBecome
    <3>2. old.status = "QUEUED" => MayBecome(old, Moved(old, "CANCELLED"))
      BY <2>2, MovedIsNext DEF Statuses, Final
    <3>3. MayBecome(old, [old EXCEPT !.cancel = TRUE])
      BY <2>2 DEF MayBecome, Rows
    <3> QED
      BY <3>1, <3>2, <3>3
  <2>4. jobs' = [jobs EXCEPT ![target[c]] = now]
    BY <1>2 DEF Serve
  <2> HIDE DEF now
  <2> QED
    BY <2>1, <2>3, <2>4 DEF MayBecome
<1>3. ASSUME NEW c \in Commands, Serve(c), ~(kind[c] \in Submits /\ target[c] = 0), ~Owns(c)
      PROVE  UNCHANGED jobs
  BY <1>3 DEF Serve
<1>4. ASSUME NEW id \in DOMAIN jobs, JobMoves(id)
      PROVE  \E i \in DOMAIN jobs, row \in Rows :
               MayBecome(jobs[i], row) /\ jobs' = [jobs EXCEPT ![i] = row]
  <2>1. jobs[id] \in Rows
    BY RowFields
  <2>2. PICK status \in Statuses : /\ jobs[id].status \in {"QUEUED", "RUNNING"}
                                   /\ jobs' = [jobs EXCEPT ![id] = Moved(jobs[id], status)]
    BY <1>4 DEF JobMoves, Statuses, Final
  <2>3. MayBecome(jobs[id], Moved(jobs[id], status))
    BY <2>1, <2>2, MovedIsNext DEF Final
  <2> QED
    BY <2>2, <2>3 DEF MayBecome
<1>5. ASSUME NEW c \in Commands, Begin(c) PROVE UNCHANGED jobs
  BY <1>5 DEF Begin, PyAsk, JobSubmit, JobAsk, SubmitTool, PySubmit, PublishResult, Starts, Refuses
<1> QED
  BY <1>1, <1>2, <1>3, <1>4, <1>5 DEF Next, vars, Lost, ReadAnswer, BeginWait, Poll, Wake, Tick

\* The table keeps its shape.
LEMMA TableType ==
  ASSUME TypeOK, RowsAreAsked, [Next]_vars
  PROVE  /\ jobs' \in Seq(Rows)
         /\ \A i \in DOMAIN jobs' : /\ jobs'[i].past # <<>>
                                    /\ jobs'[i].past[Len(jobs'[i].past)] = jobs'[i].status
<1>0. jobs \in Seq(Rows) /\ DOMAIN jobs = 1..Len(jobs) /\ Len(jobs) \in Nat
  BY LenProperties DEF TypeOK
<1>1. CASE UNCHANGED jobs
  BY <1>1 DEF TypeOK
<1>2. ASSUME NEW id \in DOMAIN jobs, NEW row \in Rows,
             MayBecome(jobs[id], row), jobs' = [jobs EXCEPT ![id] = row]
      PROVE  /\ jobs' \in Seq(Rows)
             /\ \A i \in DOMAIN jobs' : /\ jobs'[i].past # <<>>
                                        /\ jobs'[i].past[Len(jobs'[i].past)] = jobs'[i].status
  <2>1. /\ jobs' \in Seq(Rows) /\ DOMAIN jobs' = DOMAIN jobs
        /\ \A i \in DOMAIN jobs : jobs'[i] = IF i = id THEN row ELSE jobs[i]
    BY <1>0, <1>2, ExceptSeq
  <2>2. row.past # <<>> /\ row.past[Len(row.past)] = row.status
    <3>1. jobs[id].past \in Seq(Statuses) /\ jobs[id].past # <<>>
          /\ jobs[id].past[Len(jobs[id].past)] = jobs[id].status
      BY RowFields
    <3>2. row.status \in Statuses
      BY DEF Rows
    <3>3. CASE row.past = Append(jobs[id].past, row.status)
      BY <3>1, <3>2, <3>3, AppendProperties
    <3> QED
      BY <1>2, <3>1, <3>3 DEF MayBecome
  <2> QED
    BY <2>1, <2>2, RowFields
<1>3. ASSUME NEW c \in Commands, NEW first \in {"IMPORTED", "QUEUED"}, Serve(c),
             jobs' = Append(jobs, [owner |-> Owner(c), by |-> c, status |-> first,
                                   cancel |-> FALSE, past |-> <<first>>])
      PROVE  /\ jobs' \in Seq(Rows)
             /\ \A i \in DOMAIN jobs' : /\ jobs'[i].past # <<>>
                                        /\ jobs'[i].past[Len(jobs'[i].past)] = jobs'[i].status
  <2> DEFINE row == [owner |-> Owner(c), by |-> c, status |-> first, cancel |-> FALSE, past |-> <<first>>]
  <2>1. Owner(c) \in Tokens
    BY <1>3, OwnerIsToken DEF Serve, RowsAreAsked
  <2>2. first \in Statuses /\ <<first>> \in Seq(Statuses) /\ <<first>> # <<>> /\ <<first>>[Len(<<first>>)] = first
    BY DEF Statuses
  <2>3. row \in Rows /\ row.past # <<>> /\ row.past[Len(row.past)] = row.status
    BY <2>1, <2>2 DEF Rows
  <2> HIDE DEF row
  <2>4. /\ jobs' \in Seq(Rows) /\ DOMAIN jobs' = 1..(Len(jobs) + 1)
        /\ \A i \in 1..Len(jobs) : jobs'[i] = jobs[i]
        /\ jobs'[Len(jobs) + 1] = row
    BY <1>0, <1>3, <2>3, AppendProperties, LenProperties DEF row
  <2>5. \A i \in DOMAIN jobs' : i \in DOMAIN jobs \/ i = Len(jobs) + 1
    BY <1>0, <2>4
  <2> QED
    BY <1>0, <2>3, <2>4, <2>5, RowFields
<1> QED
  BY <1>1, <1>2, <1>3, TableSteps

\* Rows stay, with their owner and their command; a last word stays, and so
\* does a history.
LEMMA RowsStay ==
  ASSUME TypeOK, RowsAreAsked, [Next]_vars, NEW i \in DOMAIN jobs
  PROVE  /\ i \in DOMAIN jobs'
         /\ jobs'[i].owner = jobs[i].owner /\ jobs'[i].by = jobs[i].by
         /\ jobs[i].status \in Final => jobs'[i].status = jobs[i].status
         /\ \A s \in Seq(Statuses) : Thinned(s, jobs[i].past) => Thinned(s, jobs'[i].past)
<1>0. jobs \in Seq(Rows) /\ DOMAIN jobs = 1..Len(jobs) /\ Len(jobs) \in Nat
  BY LenProperties DEF TypeOK
<1>1. CASE UNCHANGED jobs
  BY <1>1
<1>2. ASSUME NEW id \in DOMAIN jobs, NEW row \in Rows,
             MayBecome(jobs[id], row), jobs' = [jobs EXCEPT ![id] = row]
      PROVE  /\ i \in DOMAIN jobs'
             /\ jobs'[i].owner = jobs[i].owner /\ jobs'[i].by = jobs[i].by
             /\ jobs[i].status \in Final => jobs'[i].status = jobs[i].status
             /\ \A s \in Seq(Statuses) : Thinned(s, jobs[i].past) => Thinned(s, jobs'[i].past)
  <2>1. /\ DOMAIN jobs' = DOMAIN jobs
        /\ jobs'[i] = IF i = id THEN row ELSE jobs[i]
    BY <1>0, <1>2, ExceptSeq
  <2>2. jobs[id].past \in Seq(Statuses) /\ row.status \in Statuses
    BY RowFields DEF Rows
  <2>3. \A s \in Seq(Statuses) : Thinned(s, jobs[id].past) => Thinned(s, row.past)
    BY <1>2, <2>2, ThinnedGrows DEF MayBecome
  <2> QED
    BY <1>2, <2>1, <2>3 DEF MayBecome
<1>3. ASSUME NEW c \in Commands, NEW first \in {"IMPORTED", "QUEUED"}, Serve(c),
             jobs' = Append(jobs, [owner |-> Owner(c), by |-> c, status |-> first,
                                   cancel |-> FALSE, past |-> <<first>>])
      PROVE  i \in DOMAIN jobs' /\ jobs'[i] = jobs[i]
  <2> DEFINE row == [owner |-> Owner(c), by |-> c, status |-> first, cancel |-> FALSE, past |-> <<first>>]
  <2> HIDE DEF row
  <2>1. jobs' \in Seq(Rows) /\ jobs' = Append(jobs, row)
    BY <1>3, TableType DEF row
  <2> QED
    BY <1>0, <2>1, LenProperties
<1> QED
  BY <1>1, <1>2, <1>3, TableSteps

\* The initial states have their types.
LEMMA InitTypes == Init => TypeOK
<1> SUFFICES ASSUME Init PROVE TypeOK
  OBVIOUS
<1>1. Unasked \in Asked
  BY DEF Unasked, Asked
<1>2. <<>> \in Seq(Statuses) /\ <<>> \in Seq(Rows) /\ DOMAIN <<>> = {}
  BY EmptySeq
<1>3. [code |-> -1, shown |-> "none"] \in Exits
  BY DEF Exits, Answers
<1> QED
  BY <1>1, <1>2, <1>3, SurfacesAssumption DEF Init, TypeOK, Kinds, Answers

\* A command that begins passed its checks, under an identity, or refused.
Started(c) ==
  \E k \in Kinds \ {"none"}, a \in Asked, id \in 0..MaxJobs :
    /\ a.parses /\ a.confirmed /\ Token(a.values) # {}
    /\ k \in Submits => id = 0
    /\ Starts(c, k, a, id)
Refused(c) == \E code \in 0..2 : Refuses(c, code)

\* Every way to begin is one of the two.
LEMMA BeginSteps == ASSUME NEW c \in Commands, Begin(c) PROVE Started(c) \/ Refused(c)
<1>0. (Refuses(c, 0) \/ Refuses(c, 1) \/ Refuses(c, 2)) => Refused(c)
  <2>1. 0 \in 0..2 /\ 1 \in 0..2 /\ 2 \in 0..2
    OBVIOUS
  <2> QED
    BY <2>1, Zenon DEF Refused
<1>1. 0 \in 0..MaxJobs /\ 1..MaxJobs \subseteq 0..MaxJobs
  BY SurfacesAssumption
<1>2. {"submit", "submit --wait", "mcp submit", "py submit", "publish", "watch", "status", "cancel"} \subseteq Kinds
  BY DEF Kinds, Submits, Waits
<1>3. {"watch", "status", "cancel"} \cap Submits = {}
  BY DEF Submits
<1>4. CASE PyAsk(c)
  <2>1. PICK k \in {"status", "cancel"}, a \in Asked, id \in 1..MaxJobs :
          /\ a.confirmed /\ a.parses
          /\ IF Token(a.values) = {} THEN Refuses(c, 1) ELSE Starts(c, k, a, id)
    BY <1>4 DEF PyAsk
  <2>2. CASE Token(a.values) = {}
    BY <1>0, <2>1, <2>2
  <2>3. CASE Token(a.values) # {}
    BY <2>1, <2>3, <1>1, <1>2, <1>3 DEF Started
  <2> QED
    BY <2>2, <2>3
<1>5. CASE JobSubmit(c)
  <2>1. PICK k \in {"submit", "submit --wait"}, a \in Asked :
          /\ a.confirmed
          /\ IF Token(a.values) = {} THEN Refuses(c, 2)
             ELSE IF ~a.parses THEN Refuses(c, 1) ELSE Starts(c, k, a, 0)
    BY <1>5 DEF JobSubmit
  <2>2. CASE Token(a.values) = {} \/ ~a.parses
    BY <1>0, <2>1, <2>2
  <2>3. CASE Token(a.values) # {} /\ a.parses
    BY <2>1, <2>3, <1>1, <1>2 DEF Started
  <2> QED
    BY <2>2, <2>3
<1>6. CASE JobAsk(c)
  <2>1. PICK k \in {"watch", "status", "cancel"}, a \in Asked, id \in 1..MaxJobs :
          /\ a.confirmed /\ a.parses
          /\ IF Token(a.values) = {} THEN Refuses(c, 2) ELSE Starts(c, k, a, id)
    BY <1>6 DEF JobAsk
  <2>2. CASE Token(a.values) = {}
    BY <1>0, <2>1, <2>2
  <2>3. CASE Token(a.values) # {}
    BY <2>1, <2>3, <1>1, <1>2, <1>3 DEF Started
  <2> QED
    BY <2>2, <2>3
<1>7. CASE SubmitTool(c)
  <2>1. PICK a \in Asked : IF a.parses /\ a.confirmed /\ Token(a.values) # {}
                           THEN Starts(c, "mcp submit", a, 0) ELSE Refuses(c, 0)
    BY <1>7 DEF SubmitTool
  <2>2. CASE a.parses /\ a.confirmed /\ Token(a.values) # {}
    BY <2>1, <2>2, <1>1, <1>2 DEF Started
  <2> QED
    BY <1>0, <2>1, <2>2
<1>8. CASE PySubmit(c)
  <2>1. PICK a \in Asked : IF a.parses /\ a.confirmed /\ Token(a.values) # {}
                           THEN Starts(c, "py submit", a, 0)
                           ELSE Refuses(c, IF a.confirmed THEN 1 ELSE 2)
    BY <1>8 DEF PySubmit
  <2>2. CASE a.parses /\ a.confirmed /\ Token(a.values) # {}
    BY <2>1, <2>2, <1>1, <1>2 DEF Started
  <2>3. CASE ~(a.parses /\ a.confirmed /\ Token(a.values) # {})
    BY <1>0, <2>1, <2>3
  <2> QED
    BY <2>2, <2>3
<1>9. CASE PublishResult(c)
  <2>1. PICK a \in Asked :
          IF ~CheckPublishable(a) THEN Refuses(c, 1)
          ELSE IF ~a.confirmed THEN Refuses(c, 0)
          ELSE IF Token(a.values) = {} THEN Refuses(c, 1)
          ELSE Starts(c, "publish", a, 0)
    BY <1>9 DEF PublishResult
  <2>2. CASE a.parses /\ a.confirmed /\ Token(a.values) # {}
    BY <2>1, <2>2, <1>1, <1>2 DEF Started, CheckPublishable
  <2>3. CASE ~(a.parses /\ a.confirmed /\ Token(a.values) # {})
    BY <1>0, <2>1, <2>3 DEF CheckPublishable
  <2> QED
    BY <2>2, <2>3
<1> QED
  BY <1>4, <1>5, <1>6, <1>7, <1>8, <1>9 DEF Begin

\* Types of a command that begins or refuses.
LEMMA BeginTypes == ASSUME TypeOK, NEW c \in Commands, Begin(c) PROVE TypeOK'
<1>1. ASSUME NEW k \in Kinds, NEW a \in Asked, NEW id \in 0..MaxJobs, Starts(c, k, a, id)
      PROVE  TypeOK'
  BY <1>1, SurfacesAssumption DEF Starts, Go, TypeOK
<1>2. ASSUME NEW code \in 0..2, Refuses(c, code) PROVE TypeOK'
  <2>1. [code |-> code, shown |-> "none"] \in Exits
    BY DEF Exits, Answers
  <2> QED
    BY <1>2, <2>1 DEF Refuses, Ends, Go, TypeOK, local
<1> QED
  BY <1>1, <1>2, BeginSteps DEF Started, Refused

\* What the control plane answers.
LEMMA ServeTypes ==
  ASSUME TypeOK, RowsAreAsked, NEW c \in Commands, Serve(c)
  PROVE  /\ pc' = [pc EXCEPT ![c] = "answered"]
         /\ target' \in [Commands -> 0..MaxJobs] /\ answer' \in [Commands -> Answers]
<1>1. CASE kind[c] \in Submits /\ target[c] = 0
  <2>1. Len(jobs) + 1 \in 0..MaxJobs
    BY <1>1, LenProperties, SurfacesAssumption DEF Serve, TypeOK
  <2>2. "created" \in Answers
    BY DEF Answers
  <2> QED
    BY <1>1, <2>1, <2>2 DEF Serve, Go, TypeOK
<1>2. CASE ~(kind[c] \in Submits /\ target[c] = 0) /\ Owns(c)
  <2> DEFINE old == jobs[target[c]]
             now == IF kind[c] # "cancel" \/ old.status \in Final THEN old
                    ELSE IF old.status = "QUEUED" THEN Moved(old, "CANCELLED")
                    ELSE [old EXCEPT !.cancel = TRUE]
  <2>1. old \in Rows /\ old.status \in Statuses
    BY <1>2, RowFields DEF Owns
  <2>2. now.status \in Answers
    BY <2>1 DEF Rows, Moved, Answers, Statuses, Final
  <2>3. answer' = [answer EXCEPT ![c] = now.status] /\ UNCHANGED target
    BY <1>2 DEF Serve
  <2> HIDE DEF now
  <2> QED
    BY <2>2, <2>3, <1>2 DEF Serve, Go, TypeOK
<1>3. CASE ~(kind[c] \in Submits /\ target[c] = 0) /\ ~Owns(c)
  BY <1>3 DEF Serve, Go, TypeOK, Answers
<1> QED
  BY <1>1, <1>2, <1>3

\* What a wait has told stays a sequence of statuses.
LEMMA ToldType ==
  ASSUME TypeOK, NEW c \in Commands, NEW status \in Statuses, Tells(c, status)
  PROVE  told' \in [Commands -> Seq(Statuses)]
<1>1. Append(told[c], status) \in Seq(Statuses)
  BY AppendProperties DEF TypeOK
<1> QED
  BY <1>1 DEF Tells, TypeOK

\* One poll's answer.
LEMMA PollTypes == ASSUME TypeOK, RowsAreAsked, NEW c \in Commands, Poll(c) PROVE TypeOK'
<1>0. answer[c] \in Answers /\ answer[c] \notin {"none", "created"} /\ "none" \in Answers
  BY DEF TypeOK, Answers, RowsAreAsked, Poll
<1>1. CASE answer[c] = "missing"
  <2>1. [code |-> 1, shown |-> "none"] \in Exits
    BY DEF Exits, Answers
  <2> QED
    BY <1>0, <1>1, <2>1 DEF Poll, Ends, Go, TypeOK, local
<1>2. CASE answer[c] \in Statuses
  <2>1. [code |-> WaitExit(c, answer[c]), shown |-> answer[c]] \in Exits
    BY <1>0 DEF Exits, WaitExit
  <2>2. told' \in [Commands -> Seq(Statuses)]
    BY <1>2, ToldType DEF Poll, Statuses, Final
  <2>3. Interval \in 0..Interval
    BY SurfacesAssumption
  <2> QED
    BY <1>0, <1>2, <2>1, <2>2, <2>3 DEF Poll, Ends, Go, TypeOK, local, Statuses, Final
<1> QED
  BY <1>0, <1>1, <1>2 DEF Answers

\* Every step keeps the types.
LEMMA StepTypes == TypeOK /\ RowsAreAsked /\ [Next]_vars => TypeOK'
<1> SUFFICES ASSUME TypeOK, RowsAreAsked, [Next]_vars PROVE TypeOK'
  OBVIOUS
<1>0. /\ jobs' \in Seq(Rows)
      /\ \A i \in DOMAIN jobs' : /\ jobs'[i].past # <<>>
                                 /\ jobs'[i].past[Len(jobs'[i].past)] = jobs'[i].status
  BY TableType
<1>1. ASSUME NEW c \in Commands, Begin(c) PROVE TypeOK'
  BY <1>1, BeginTypes
<1>2. ASSUME NEW c \in Commands, Serve(c) PROVE TypeOK'
  BY <1>2, <1>0, ServeTypes DEF Serve, Go, TypeOK
<1>3. ASSUME NEW c \in Commands, Lost(c) PROVE TypeOK'
  <2>1. [code |-> 1, shown |-> "none"] \in Exits /\ "none" \in Answers
    BY DEF Exits, Answers
  <2> QED
    BY <1>3, <2>1 DEF Lost, Ends, Go, TypeOK, local
<1>4. ASSUME NEW c \in Commands, ReadAnswer(c) PROVE TypeOK'
  <2>1. /\ [code |-> 1, shown |-> "none"] \in Exits /\ "none" \in Answers
        /\ [code |-> 0, shown |-> answer[c]] \in Exits
    BY DEF Exits, Answers, TypeOK
  <2> QED
    BY <1>4, <2>1 DEF ReadAnswer, Ends, Go, TypeOK, local
<1>5. ASSUME NEW c \in Commands, BeginWait(c) PROVE TypeOK'
  BY <1>5, SurfacesAssumption DEF BeginWait, Go, TypeOK, local
<1>6. ASSUME NEW c \in Commands, Poll(c) PROVE TypeOK'
  BY <1>6, PollTypes
<1>7. ASSUME NEW c \in Commands, Wake(c) PROVE TypeOK'
  BY <1>7 DEF Wake, Go, TypeOK, local
<1>8. CASE Tick
  BY <1>8, SurfacesAssumption DEF Tick, TypeOK, local
<1>9. ASSUME NEW id \in DOMAIN jobs, JobMoves(id) PROVE TypeOK'
  BY <1>9, <1>0 DEF JobMoves, TypeOK, local
<1>10. CASE UNCHANGED vars
  BY <1>10 DEF vars, local, TypeOK
<1> QED
  BY <1>1, <1>2, <1>3, <1>4, <1>5, <1>6, <1>7, <1>8, <1>9, <1>10 DEF Next

------------------------------------------------------------------------------
(* The rows and their commands.                                             *)

\* The control plane always answers something.
LEMMA AnswerIsGiven == ASSUME TypeOK, NEW c \in Commands, Serve(c) PROVE answer'[c] # "none"
<1>1. CASE kind[c] \in Submits /\ target[c] = 0
  BY <1>1 DEF Serve, TypeOK
<1>2. CASE ~(kind[c] \in Submits /\ target[c] = 0) /\ Owns(c)
  <2> DEFINE old == jobs[target[c]]
             now == IF kind[c] # "cancel" \/ old.status \in Final THEN old
                    ELSE IF old.status = "QUEUED" THEN Moved(old, "CANCELLED")
                    ELSE [old EXCEPT !.cancel = TRUE]
  <2>1. old \in Rows /\ old.status \in Statuses
    BY <1>2, RowFields DEF Owns
  <2>2. now.status # "none"
    BY <2>1 DEF Rows, Moved, Statuses, Final
  <2>3. answer' = [answer EXCEPT ![c] = now.status]
    BY <1>2 DEF Serve
  <2> HIDE DEF now
  <2> QED
    BY <2>2, <2>3 DEF TypeOK
<1>3. CASE ~(kind[c] \in Submits /\ target[c] = 0) /\ ~Owns(c)
  BY <1>3 DEF Serve, TypeOK
<1> QED
  BY <1>1, <1>2, <1>3

\* Everything but RowsAreAsked's table: commands that are under way passed
\* their checks and keep what they were started with.
LEMMA CommandsKeep ==
  ASSUME TypeOK, RowsAreAsked, [Next]_vars, NEW c \in Commands
  PROVE  /\ pc'[c] \notin {"idle", "done"} =>
              asked'[c].parses /\ asked'[c].confirmed /\ Token(asked'[c].values) # {}
         /\ pc'[c] = "answered" => answer'[c] # "none"
         /\ pc[c] # "idle" => /\ pc'[c] # "idle" /\ UNCHANGED <<asked[c], kind[c]>>
                              /\ target[c] # 0 => target'[c] = target[c]
<1> USE DEF TypeOK, RowsAreAsked, local, Go, Ends
<1>1. ASSUME NEW d \in Commands, Started(d)
      PROVE  /\ pc'[c] \notin {"idle", "done"} =>
                  asked'[c].parses /\ asked'[c].confirmed /\ Token(asked'[c].values) # {}
             /\ pc'[c] = "answered" => answer'[c] # "none"
             /\ pc[c] # "idle" => /\ pc'[c] # "idle" /\ UNCHANGED <<asked[c], kind[c]>>
                                  /\ target[c] # 0 => target'[c] = target[c]
  BY <1>1 DEF Started, Starts
<1>2. ASSUME NEW d \in Commands, Refused(d)
      PROVE  /\ pc'[c] \notin {"idle", "done"} =>
                  asked'[c].parses /\ asked'[c].confirmed /\ Token(asked'[c].values) # {}
             /\ pc'[c] = "answered" => answer'[c] # "none"
             /\ pc[c] # "idle" => /\ pc'[c] # "idle" /\ UNCHANGED <<asked[c], kind[c]>>
                                  /\ target[c] # 0 => target'[c] = target[c]
  BY <1>2 DEF Refused, Refuses
<1>3. ASSUME NEW d \in Commands, Serve(d)
      PROVE  /\ pc'[c] \notin {"idle", "done"} =>
                  asked'[c].parses /\ asked'[c].confirmed /\ Token(asked'[c].values) # {}
             /\ pc'[c] = "answered" => answer'[c] # "none"
             /\ pc[c] # "idle" => /\ pc'[c] # "idle" /\ UNCHANGED <<asked[c], kind[c]>>
                                  /\ target[c] # 0 => target'[c] = target[c]
  <2>1. answer'[d] # "none"
    BY <1>3, AnswerIsGiven
  <2>2. target[c] # 0 => target'[c] = target[c]
    BY <1>3 DEF Serve
  <2> QED
    BY <1>3, <2>1, <2>2 DEF Serve
<1>4. ASSUME NEW d \in Commands, Lost(d) \/ ReadAnswer(d) \/ BeginWait(d) \/ Poll(d) \/ Wake(d)
      PROVE  /\ pc'[c] \notin {"idle", "done"} =>
                  asked'[c].parses /\ asked'[c].confirmed /\ Token(asked'[c].values) # {}
             /\ pc'[c] = "answered" => answer'[c] # "none"
             /\ pc[c] # "idle" => /\ pc'[c] # "idle" /\ UNCHANGED <<asked[c], kind[c]>>
                                  /\ target[c] # 0 => target'[c] = target[c]
  BY <1>4 DEF Lost, ReadAnswer, BeginWait, Poll, Wake
<1>5. CASE Tick \/ (\E id \in DOMAIN jobs : JobMoves(id)) \/ UNCHANGED vars
  BY <1>5 DEF Tick, JobMoves, vars
<1> QED
  BY <1>1, <1>2, <1>3, <1>4, <1>5, BeginSteps DEF Next

\* RowsAreAsked is kept: a new row is its command's, and no other command's.
LEMMA RowsStep == TypeOK /\ RowsAreAsked /\ [Next]_vars => RowsAreAsked'
<1> SUFFICES ASSUME TypeOK, RowsAreAsked, [Next]_vars PROVE RowsAreAsked'
  OBVIOUS
<1>0. DOMAIN jobs = 1..Len(jobs) /\ Len(jobs) \in Nat /\ jobs \in Seq(Rows)
  BY LenProperties DEF TypeOK
<1>1. ASSUME NEW i \in DOMAIN jobs
      PROVE  LET c == jobs'[i].by IN
             /\ pc'[c] # "idle" /\ target'[c] = i
             /\ asked'[c].parses /\ asked'[c].confirmed /\ asked'[c].values = {jobs'[i].owner}
  <2>1. jobs'[i].by = jobs[i].by /\ jobs'[i].owner = jobs[i].owner /\ jobs[i].by \in Commands /\ i # 0
    BY <1>0, RowsStay, RowFields
  <2> QED
    BY <2>1, CommandsKeep DEF RowsAreAsked
<1>2. ASSUME NEW i \in DOMAIN jobs', i \notin DOMAIN jobs
      PROVE  LET c == jobs'[i].by IN
             /\ pc'[c] # "idle" /\ target'[c] = i
             /\ asked'[c].parses /\ asked'[c].confirmed /\ asked'[c].values = {jobs'[i].owner}
  <2>1. ~ UNCHANGED jobs
    BY <1>2
  <2>2. ASSUME NEW id \in DOMAIN jobs, NEW row \in Rows, jobs' = [jobs EXCEPT ![id] = row] PROVE FALSE
    BY <1>2, <2>2
  <2>3. PICK c \in Commands, first \in {"IMPORTED", "QUEUED"} :
          /\ Serve(c) /\ kind[c] \in Submits /\ target[c] = 0 /\ target'[c] = Len(jobs) + 1
          /\ jobs' = Append(jobs, [owner |-> Owner(c), by |-> c, status |-> first,
                                   cancel |-> FALSE, past |-> <<first>>])
    BY <2>1, <2>2, TableSteps
  <2> DEFINE row == [owner |-> Owner(c), by |-> c, status |-> first, cancel |-> FALSE, past |-> <<first>>]
  <2>4. row.by = c /\ row.owner = Owner(c)
    OBVIOUS
  <2>5. jobs' \in Seq(Rows) /\ jobs' = Append(jobs, row)
    BY <2>3, TableType
  <2> HIDE DEF row
  <2>6. i = Len(jobs) + 1 /\ jobs'[i] = row
    BY <1>0, <1>2, <2>5, LenProperties
  <2>7. /\ asked[c].parses /\ asked[c].confirmed /\ Token(asked[c].values) # {}
        /\ asked[c].values = {Owner(c)} /\ UNCHANGED asked
    BY <2>3, OwnerIsToken DEF Serve, RowsAreAsked
  <2>8. pc'[c] # "idle"
    BY <2>3 DEF Serve, Go, TypeOK
  <2> QED
    BY <2>3, <2>4, <2>6, <2>7, <2>8
<1>3. \A c \in Commands :
        /\ pc'[c] \notin {"idle", "done"} =>
             asked'[c].parses /\ asked'[c].confirmed /\ Token(asked'[c].values) # {}
        /\ pc'[c] = "answered" => answer'[c] # "none"
  BY CommandsKeep
<1> QED
  BY <1>1, <1>2, <1>3 DEF RowsAreAsked

------------------------------------------------------------------------------
(* Watching.                                                                *)

\* A command's state changes by its own steps.
LEMMA CommandFrame ==
  ASSUME TypeOK, [Next]_vars, NEW c \in Commands
  PROVE  \/ Started(c) \/ Refused(c) \/ Serve(c) \/ Lost(c) \/ ReadAnswer(c)
         \/ BeginWait(c) \/ Poll(c) \/ Wake(c)
         \/ UNCHANGED <<pc[c], kind[c], target[c], answer[c], told[c], exit[c]>>
<1>1. ASSUME NEW d \in Commands, d # c, Started(d)
      PROVE  UNCHANGED <<pc[c], kind[c], target[c], answer[c], told[c], exit[c]>>
  BY <1>1 DEF Started, Starts, Go, TypeOK
<1>2. ASSUME NEW d \in Commands, d # c, Refused(d)
      PROVE  UNCHANGED <<pc[c], kind[c], target[c], answer[c], told[c], exit[c]>>
  BY <1>2 DEF Refused, Refuses, Ends, Go, TypeOK, local
<1>3. ASSUME NEW d \in Commands, d # c, Serve(d)
      PROVE  UNCHANGED <<pc[c], kind[c], target[c], answer[c], told[c], exit[c]>>
  BY <1>3 DEF Serve, Go, TypeOK
<1>4. ASSUME NEW d \in Commands, d # c, Lost(d) \/ ReadAnswer(d) \/ BeginWait(d) \/ Poll(d) \/ Wake(d)
      PROVE  UNCHANGED <<pc[c], kind[c], target[c], answer[c], told[c], exit[c]>>
  BY <1>4 DEF Lost, ReadAnswer, BeginWait, Poll, Wake, Tells, Ends, Go, TypeOK, local
<1>5. CASE Tick \/ (\E id \in DOMAIN jobs : JobMoves(id)) \/ UNCHANGED vars
  BY <1>5 DEF Tick, JobMoves, vars, local
<1> QED
  BY <1>1, <1>2, <1>3, <1>4, <1>5, BeginSteps DEF Next

\* A status that is told or about to be told is in Telling.
LEMMA TellingIsMore ==
  ASSUME TypeOK, NEW c \in Commands, told[c] # <<>> \/ answer[c] \in Statuses
  PROVE  Telling(c) # <<>>
<1>1. CASE Telling(c) = told[c]
  BY <1>1 DEF Telling, Heard
<1>2. CASE Telling(c) = Append(told[c], answer[c]) /\ answer[c] \in Statuses
  BY <1>2, AppendProperties DEF TypeOK
<1> QED
  BY <1>1, <1>2 DEF Telling

\* What is known of a command is still so when only its job has moved.
LEMMA KnownStays ==
  ASSUME TypeOK, RowsAreAsked, [Next]_vars, NEW c \in Commands, Knows(c), ExitsOnWhatItRead(c),
         UNCHANGED <<pc[c], kind[c], target[c], answer[c], told[c], exit[c]>>
  PROVE  Knows(c)' /\ ExitsOnWhatItRead(c)'
<1>1. Telling(c)' = Telling(c) /\ Telling(c) \in Seq(Statuses)
  BY AppendProperties DEF Telling, Heard, TypeOK
<1>2. target[c] \in DOMAIN jobs =>
        /\ target[c] \in DOMAIN jobs'
        /\ Thinned(Telling(c), jobs[target[c]].past) => Thinned(Telling(c), jobs'[target[c]].past)
        /\ jobs[target[c]].status \in Final => jobs'[target[c]].status = jobs[target[c]].status
  BY <1>1, RowsStay
<1>3. kind[c] = "watch" /\ answer[c] \in Final => Telling(c) # <<>>
  BY TellingIsMore DEF Statuses
<1>4. kind[c] = "watch" /\ told[c] # <<>> => Telling(c) # <<>>
  BY TellingIsMore
<1>5. Knows(c)'
  BY <1>1, <1>2, <1>3 DEF Knows
<1>6. ExitsOnWhatItRead(c)'
  BY <1>2, <1>4 DEF Knows, ExitsOnWhatItRead
<1> QED
  BY <1>5, <1>6

\* An answer from the control plane is the last entry of the job's history.
LEMMA ServedIsKnown ==
  ASSUME TypeOK, RowsAreAsked, [Next]_vars, NEW c \in Commands, Knows(c), Serve(c)
  PROVE  Knows(c)' /\ ExitsOnWhatItRead(c)'
<1>1. pc[c] = "asking" /\ pc'[c] = "answered" /\ UNCHANGED <<kind, told, exit>>
  BY DEF Serve, Go, TypeOK
<1>2. Telling(c) = told[c]
  BY <1>1 DEF Telling, Knows
<1>3. SUFFICES ASSUME kind[c] = "watch" PROVE Knows(c)'
  BY <1>1 DEF Knows, ExitsOnWhatItRead
<1>4. CASE Owns(c)
  <2> DEFINE t == target[c]
  <2>1. t \in DOMAIN jobs /\ jobs[t].past \in Seq(Statuses) /\ jobs[t].past # <<>>
        /\ jobs[t].past[Len(jobs[t].past)] = jobs[t].status /\ jobs[t] \in Rows
        /\ jobs[t].status \in Statuses /\ DOMAIN jobs = 1..Len(jobs) /\ jobs \in Seq(Rows)
    BY <1>4, RowFields DEF Owns, TypeOK
  <2>2. jobs' = [jobs EXCEPT ![t] = jobs[t]] /\ answer' = [answer EXCEPT ![c] = jobs[t].status]
        /\ target' = target
    BY <1>3, <1>4 DEF Serve, Submits
  <2>3. jobs'[t] = jobs[t] /\ t \in DOMAIN jobs'
    BY <2>1, <2>2, ExceptSeq
  <2>4. answer'[c] = jobs[t].status
    BY <2>2 DEF TypeOK
  <2>5. Telling(c)' = IF Heard(c, jobs[t].status) THEN told[c] ELSE Append(told[c], jobs[t].status)
    BY <1>1, <2>1, <2>4 DEF Telling, Heard
  <2>6. told[c] # <<>> => Thinned(told[c], jobs[t].past)
    BY <1>2, <1>3 DEF Knows
  <2>7. Thinned(Telling(c)', jobs[t].past)
    <3>1. CASE Heard(c, jobs[t].status)
      BY <2>5, <2>6, <3>1 DEF Heard
    <3>2. CASE ~Heard(c, jobs[t].status)
      <4>1. told[c] # <<>> => told[c][Len(told[c])] # jobs[t].past[Len(jobs[t].past)]
        BY <2>1, <3>2 DEF Heard
      <4>2. told[c] \in Seq(Statuses)
        BY DEF TypeOK
      <4>3. Thinned(Append(told[c], jobs[t].past[Len(jobs[t].past)]), jobs[t].past)
        BY <2>1, <2>6, <4>1, <4>2, ThinnedExtends
      <4> QED
        BY <2>1, <2>5, <3>2, <4>3
    <3> QED
      BY <3>1, <3>2
  <2> QED
    BY <1>1, <1>3, <2>2, <2>3, <2>4, <2>7 DEF Knows
<1>5. CASE ~Owns(c)
  <2>1. answer'[c] = "missing" /\ UNCHANGED <<jobs, target>>
    BY <1>3, <1>5 DEF Serve, Submits, TypeOK
  <2>2. Telling(c)' = told[c]
    BY <1>1, <2>1 DEF Telling, Statuses, Final
  <2> QED
    BY <1>1, <1>2, <1>3, <2>1, <2>2 DEF Knows, Statuses, Final
<1> QED
  BY <1>4, <1>5

\* A poll tells what it was answered, if that is news, and ends on a last word.
LEMMA PolledIsKnown ==
  ASSUME TypeOK, RowsAreAsked, [Next]_vars, NEW c \in Commands, Knows(c), Poll(c)
  PROVE  Knows(c)' /\ ExitsOnWhatItRead(c)'
<1>1. /\ pc[c] = "answered" /\ pc'[c] \in {"done", "sleeping"} /\ UNCHANGED <<kind, jobs, target>>
      /\ answer'[c] = "none" /\ answer[c] \in Statuses \cup {"missing"}
  BY DEF Poll, Ends, Go, TypeOK, local, RowsAreAsked, Answers
<1>2. SUFFICES ASSUME kind[c] = "watch" PROVE Knows(c)' /\ ExitsOnWhatItRead(c)'
  BY <1>1 DEF Knows, ExitsOnWhatItRead, Statuses, Final
<1>3. Telling(c)' = told'[c]
  BY <1>1 DEF Telling, Statuses, Final
<1>4. CASE answer[c] = "missing"
  <2>1. pc'[c] = "done" /\ exit'[c] = [code |-> 1, shown |-> "none"] /\ told' = told
    BY <1>4 DEF Poll, Ends, Go, TypeOK
  <2>2. Telling(c) = told[c]
    BY <1>4 DEF Telling, Statuses, Final
  <2> QED
    BY <1>1, <1>2, <1>3, <2>1, <2>2 DEF Knows, ExitsOnWhatItRead, Statuses, Final
<1>5. CASE answer[c] \in Statuses
  <2>1. told'[c] = Telling(c)
    BY <1>5 DEF Poll, Tells, Telling, TypeOK, Statuses, Final
  <2>2. told[c] \in Seq(Statuses) /\ Len(told[c]) \in Nat
    BY LenProperties DEF TypeOK
  <2>3. Telling(c) # <<>>
    BY <1>5, <2>2, AppendProperties DEF Telling, Heard
  <2>4. \A i \in 2..Len(told'[c]) : told'[c][i] # told'[c][i - 1]
    <3>1. CASE Heard(c, answer[c])
      BY <1>2, <2>1, <3>1 DEF Knows, Telling
    <3>2. CASE ~Heard(c, answer[c])
      <4>1. told'[c] = Append(told[c], answer[c])
        BY <1>5, <2>1, <3>2 DEF Telling
      <4>2. /\ Len(told'[c]) = Len(told[c]) + 1 /\ told'[c][Len(told[c]) + 1] = answer[c]
            /\ \A i \in 1..Len(told[c]) : told'[c][i] = told[c][i]
        BY <1>5, <2>2, <4>1, AppendProperties
      <4>3. \A i \in 2..Len(told[c]) : told[c][i] # told[c][i - 1]
        BY <1>2 DEF Knows
      <4>4. Len(told[c]) >= 1 => told[c][Len(told[c])] # answer[c]
        BY <2>2, <3>2, EmptySeq DEF Heard
      <4> QED
        BY <2>2, <4>2, <4>3, <4>4
    <3> QED
      BY <3>1, <3>2
  <2>5. /\ pc'[c] # "done" => exit'[c] = exit[c]
        /\ pc'[c] = "done" => exit'[c] = [code |-> WaitExit(c, answer[c]), shown |-> answer[c]]
    BY <1>5 DEF Poll, Ends, Go, TypeOK, Statuses, Final
  <2>6. Knows(c)'
    BY <1>1, <1>2, <1>3, <2>1, <2>4, <2>5 DEF Knows, Statuses, Final
  <2>7. /\ WaitExit(c, answer[c]) \in 0..2
        /\ WaitExit(c, answer[c]) = 0 <=> answer[c] = "SUCCEEDED"
        /\ WaitExit(c, answer[c]) = 2 <=> answer[c] \notin Final
    BY <1>2 DEF WaitExit, TERMINAL_JOB_STATUSES, Final
  <2>8. answer[c] \in Final => jobs[target[c]].status = answer[c]
    BY <1>2 DEF Knows
  <2>9. answer[c] # "none"
    BY <1>5 DEF Statuses, Final
  <2>10. ExitsOnWhatItRead(c)'
    <3>1. SUFFICES ASSUME pc'[c] = "done" PROVE ExitsOnWhatItRead(c)'
      BY DEF ExitsOnWhatItRead
    <3>2. exit'[c].code = WaitExit(c, answer[c]) /\ exit'[c].shown = answer[c]
      BY <2>5, <3>1
    <3> QED
      BY <1>1, <2>1, <2>3, <2>7, <2>8, <2>9, <3>2 DEF ExitsOnWhatItRead
  <2> QED
    BY <2>6, <2>10
<1> QED
  BY <1>1, <1>4, <1>5

\* What was told is thinned too, whatever is still to be told.
LEMMA ToldIsThinned ==
  ASSUME TypeOK, NEW c \in Commands, Knows(c), kind[c] = "watch", told[c] # <<>>
  PROVE  Thinned(told[c], jobs[target[c]].past) /\ target[c] \in DOMAIN jobs
<1>1. told[c] \in Seq(Statuses) /\ DOMAIN told[c] = 1..Len(told[c]) /\ Len(told[c]) \in Nat
  BY LenProperties DEF TypeOK
<1>2. CASE Telling(c) = told[c]
  BY <1>2 DEF Knows
<1>3. CASE Telling(c) # told[c]
  <2>1. Telling(c) = Append(told[c], answer[c]) /\ answer[c] \in Statuses
    BY <1>3 DEF Telling
  <2>2. /\ Telling(c) # <<>> /\ DOMAIN Telling(c) = 1..(Len(told[c]) + 1)
        /\ \A i \in 1..Len(told[c]) : Telling(c)[i] = told[c][i]
    BY <1>1, <2>1, AppendProperties, LenProperties
  <2>3. Thinned(Telling(c), jobs[target[c]].past) /\ target[c] \in DOMAIN jobs
    BY <2>2 DEF Knows
  <2>4. PICK at \in [DOMAIN Telling(c) -> DOMAIN jobs[target[c]].past] :
          /\ \A i \in DOMAIN Telling(c) : Telling(c)[i] = jobs[target[c]].past[at[i]]
          /\ \A i, j \in DOMAIN Telling(c) : i < j => at[i] < at[j]
    BY <2>3 DEF Thinned
  <2> DEFINE less == [i \in DOMAIN told[c] |-> at[i]]
  <2>5. /\ less \in [DOMAIN told[c] -> DOMAIN jobs[target[c]].past]
        /\ \A i \in DOMAIN told[c] : told[c][i] = jobs[target[c]].past[less[i]]
        /\ \A i, j \in DOMAIN told[c] : i < j => less[i] < less[j]
    BY <1>1, <2>2, <2>4
  <2> HIDE DEF less
  <2> QED
    BY <2>3, <2>5 DEF Thinned
<1> QED
  BY <1>2, <1>3

\* WatchKnows is kept.
LEMMA WatchStep == TypeOK /\ RowsAreAsked /\ WatchKnows /\ [Next]_vars => WatchKnows'
<1> SUFFICES ASSUME TypeOK, RowsAreAsked, WatchKnows, [Next]_vars, NEW c \in Commands
             PROVE  Knows(c)' /\ ExitsOnWhatItRead(c)'
  BY DEF WatchKnows
<1>0. Knows(c) /\ ExitsOnWhatItRead(c)
  BY DEF WatchKnows
<1>1. CASE UNCHANGED <<pc[c], kind[c], target[c], answer[c], told[c], exit[c]>>
  BY <1>0, <1>1, KnownStays
<1>2. CASE Started(c)
  <2>1. pc[c] = "idle" /\ pc'[c] = "asking" /\ UNCHANGED <<told, answer, exit, jobs>>
    BY <1>2 DEF Started, Starts, Go, TypeOK
  <2>2. Telling(c)' = <<>>
    BY <1>0, <2>1 DEF Knows, Telling
  <2> QED
    BY <1>0, <2>1, <2>2, EmptySeq DEF Knows, ExitsOnWhatItRead, Statuses, Final
<1>3. CASE Refused(c)
  BY <1>0, <1>3 DEF Refused, Refuses, Ends, Go, TypeOK, Knows, local, ExitsOnWhatItRead, Statuses, Final
<1>4. CASE Serve(c)
  BY <1>0, <1>4, ServedIsKnown
<1>5. CASE Poll(c)
  BY <1>0, <1>5, PolledIsKnown
<1>6. CASE Lost(c)
  <2>1. /\ pc[c] # "idle" /\ pc'[c] = "done" /\ answer'[c] = "none" /\ UNCHANGED <<kind, told, target, jobs>>
        /\ exit'[c] = [code |-> 1, shown |-> "none"]
    BY <1>6 DEF Lost, Ends, Go, TypeOK, local
  <2>2. \/ /\ Telling(c)' = told[c]
           /\ told[c] # <<>> => Thinned(told[c], jobs[target[c]].past) /\ target[c] \in DOMAIN jobs
        \/ kind[c] # "watch"
    <3>1. Telling(c)' = told[c]
      BY <2>1 DEF Telling, Statuses, Final
    <3>2. ASSUME told[c] # <<>>, kind[c] = "watch"
          PROVE  Thinned(told[c], jobs[target[c]].past) /\ target[c] \in DOMAIN jobs
      BY <1>0, <3>2, ToldIsThinned
    <3> QED
      BY <3>1, <3>2
  <2> QED
    BY <1>0, <2>1, <2>2 DEF Knows, ExitsOnWhatItRead, Statuses, Final
<1>7. CASE ReadAnswer(c)
  BY <1>0, <1>7 DEF ReadAnswer, Ends, Go, TypeOK, local, Knows, ExitsOnWhatItRead, Waits, Statuses, Final
<1>8. CASE BeginWait(c)
  <2>1. /\ pc[c] = "answered" /\ pc'[c] = "asking" /\ answer[c] = "created"
        /\ UNCHANGED <<kind, told, target, jobs, answer, exit>>
    BY <1>8 DEF BeginWait, Go, TypeOK, local
  <2> QED
    BY <1>0, <2>1 DEF Knows, Telling, Heard, ExitsOnWhatItRead, Statuses, Final
<1>9. CASE Wake(c)
  <2>1. /\ pc[c] = "sleeping" /\ pc'[c] = "asking" /\ UNCHANGED <<kind, told, target, jobs, answer, exit>>
    BY <1>9 DEF Wake, Go, TypeOK, local
  <2> QED
    BY <1>0, <2>1 DEF Knows, Telling, Heard, ExitsOnWhatItRead
<1> QED
  BY <1>1, <1>2, <1>3, <1>4, <1>5, <1>6, <1>7, <1>8, <1>9, CommandFrame

------------------------------------------------------------------------------
(* The theorems.                                                            *)

\* Types, the rows' commands and what watches know, together, are inductive.
THEOREM SurfacesInvariance == Spec => []SurfacesInv
<1>1. Init => SurfacesInv
  <2> SUFFICES ASSUME Init PROVE SurfacesInv
    OBVIOUS
  <2>1. TypeOK
    BY InitTypes
  <2>2. RowsAreAsked
    BY DEF Init, RowsAreAsked
  <2>3. ASSUME NEW c \in Commands PROVE Knows(c) /\ ExitsOnWhatItRead(c)
    BY DEF Init, Knows, ExitsOnWhatItRead, Statuses, Final
  <2> QED
    BY <2>1, <2>2, <2>3 DEF SurfacesInv, WatchKnows
<1>2. SurfacesInv /\ [Next]_vars => SurfacesInv'
  BY StepTypes, RowsStep, WatchStep DEF SurfacesInv
<1> QED
  BY <1>1, <1>2, PTL DEF Spec

\* Every row was asked for once, by a command that passed its own checks under
\* the one identity its environment named (no surface retries an exchange).
THEOREM SubmissionsOnce == Spec => []SubmittedOnce
<1>1. SurfacesInv => SubmittedOnce
  BY DEF SurfacesInv, RowsAreAsked, SubmittedOnce
<1> QED
  BY <1>1, SurfacesInvariance, PTL

\* What `job watch` prints happened, in that order, and its exit code is the
\* job's last word or says there is none yet (waitFor, watchExit).
THEOREM WatchesTrue == Spec => []WatchIsTrue
<1>1. SurfacesInv => WatchIsTrue
  <2> SUFFICES ASSUME SurfacesInv, NEW c \in Commands, kind[c] = "watch", told[c] # <<>>
               PROVE  /\ Thinned(told[c], jobs[target[c]].past)
                      /\ \A i \in 2..Len(told[c]) : told[c][i] # told[c][i - 1]
                      /\ exit[c].code = 0 => jobs[target[c]].status = "SUCCEEDED"
                      /\ exit[c].code = 1 /\ exit[c].shown # "none" =>
                           jobs[target[c]].status \in Final \ {"SUCCEEDED"}
                      /\ exit[c].code = 2 => exit[c].shown \notin Final
    BY DEF WatchIsTrue
  <2>1. TypeOK /\ Knows(c) /\ ExitsOnWhatItRead(c)
    BY DEF SurfacesInv, WatchKnows
  <2>2. Thinned(told[c], jobs[target[c]].past)
    BY <2>1, ToldIsThinned
  <2>3. pc[c] # "done" => exit[c].code = -1
    BY <2>1 DEF Knows
  <2> QED
    BY <2>1, <2>2, <2>3 DEF Knows, ExitsOnWhatItRead, Final
<1> QED
  BY <1>1, SurfacesInvariance, PTL
=============================================================================
