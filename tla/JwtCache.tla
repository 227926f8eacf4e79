-------------------------------- MODULE JwtCache --------------------------------
(***************************************************************************)
(* The JWT generator (pkgs/jwt-generator): the cache file of one           *)
(* configuration and the runs of the program that use it, one after        *)
(* another or two at a time in processes of their own.  A run opens the    *)
(* file, generates in batches the JWTs it lacks, saves each worker's share *)
(* in three writes at the place where Stat saw the file's end, and reads   *)
(* the JWTs back.  It can crash between two writes or within the first of  *)
(* them, and the clear-cache command can remove the file at any time.      *)
(*                                                                         *)
(* A file is a sequence of cells, of sizes such that no write begins or    *)
(* ends, unless cut short, within one: cell 1 is bytes 0 to 9, cell 2      *)
(* bytes 10 to 19, cell 3 byte 20; a JWT is its first ten bytes, the next  *)
(* one and the rest, and then comes its newline.                           *)
(***************************************************************************)
EXTENDS Integers, Sequences, FiniteSetsExt

CONSTANTS
  Procs,       \* processes
  Amounts,     \* numbers of JWTs a run may ask for (config.ReqTarget)
  NumCPU,      \* runtime.NumCPU(): workers of a batch
  BatchSize,   \* batchSize (1000000 in the code)
  MaxRuns,     \* bound: runs of the program
  MaxMishaps   \* bound: crashes, failures and clear-cache commands, all together

ASSUME JwtCacheAssumption ==
  /\ Amounts \subseteq Nat \ {0}
  /\ {NumCPU, BatchSize} \subseteq Nat \ {0}
  /\ {MaxRuns, MaxMishaps} \subseteq Nat

VARIABLES
  disk,     \* the files there were; a process keeps its file when it is removed
  dir,      \* the file that has the cache's name, 0 if none
  run,      \* the run in each process, or its last one
  runs,     \* how many runs there were
  shared,   \* two of them have run at the same time
  crashes,  \* how many of them crashed or failed to write
  others    \* how many other mishaps there were

vars == <<disk, dir, run, runs, shared, crashes, others>>

Cpus == 1 .. NumCPU

\* A run: its number, what it asked for, and that no other process ran beside
\* it; the variables of Generate (retrying), cache (fd, and mem for count),
\* batchGenSave (jobs not delivered yet, saving) and save (at).
NoRun == [pc |-> "ended", tag |-> 0, req |-> 0, alone |-> TRUE,
          retrying |-> FALSE, fd |-> 0, mem |-> 0,
          jobs |-> <<>>, saving |-> 0, at |-> 0]

File(p) == disk[run[p].fd]

-------------------------------------------------------------------------------
(* Files. *)

Zeros    == <<"zeros", 0>>
Newline  == <<"newline", 0>>
Count(n) == <<"count", n>>
Jwt(tag) == << <<"first", tag>>, <<"next", tag>>, <<"rest", tag>> >>

\* The tokens of one save: n JWTs, a newline after each, four cells together.
Tokens(tag, n) ==
  [k \in 1 .. 4 * n |-> Append(Jwt(tag), Newline)[((k - 1) % 4) + 1]]

\* WriteAt: over what is there, and with zeros where nothing was.
WriteAt(f, cells, at) ==
  [k \in 1 .. Max({Len(f), at + Len(cells)}) |->
     IF k - at \in DOMAIN cells THEN cells[k - at]
     ELSE IF k <= Len(f) THEN f[k] ELSE Zeros]

Ends(f) == {k \in DOMAIN f : f[k] = Newline}

EndsInLine(f) == f # <<>> /\ f[Len(f)] # Newline

\* What bufio.ScanLines yields: a last line needs no newline, unless empty.
Lines(f) ==
  LET end(k) == CHOOSE e \in Ends(f) \cup {0, Len(f) + 1} :
                  Cardinality({x \in Ends(f) \cup {0} : x < e}) = k
  IN  [k \in 1 .. Cardinality(Ends(f)) + IF EndsInLine(f) THEN 1 ELSE 0 |->
         SubSeq(f, end(k - 1) + 1, end(k) - 1)]

\* The lines after the header's.
JwtLines(f) == IF f = <<>> THEN <<>> ELSE Tail(Lines(f))

IsWhole(l) == \E tag \in 1 .. MaxRuns : l = Jwt(tag)

\* newCache: an empty file has no JWTs, or the first 20 bytes hold the count.
\* (Fault: the header has to be followed by its newline.)
ReadableIfEnded(f) == f # <<>> => f[1][1] = "count" /\ f[3] = Newline

Readable(f) == f # <<>> => f[1][1] = "count"

Counted(f) == IF f = <<>> \/ f[1][1] # "count" THEN 0 ELSE f[1][2]

-------------------------------------------------------------------------------
Init ==
  /\ disk = <<>>
  /\ dir = 0
  /\ run = [p \in Procs |-> NoRun]
  /\ runs = 0 /\ shared = FALSE /\ crashes = 0 /\ others = 0

Active(p) == run[p].pc # "ended"

Goto(p, pc) == run' = [run EXCEPT ![p].pc = pc]

\* The run of p ends, with an error or not.
End(p) == run' = [run EXCEPT ![p] = NoRun]

CanMishap == crashes + others < MaxMishaps

\* A new run of the program makes the directory and calls Generate.
StartRun(p, n) ==
  /\ ~Active(p)
  /\ runs < MaxRuns
  /\ runs' = runs + 1
  /\ LET beside == {q \in Procs : Active(q)} IN
     /\ shared' = (shared \/ beside # {})
     /\ run' = [q \in Procs |->
          IF q = p THEN [NoRun EXCEPT !.pc = "open", !.tag = runs', !.req = n,
                                      !.alone = beside = {}]
          ELSE IF q \in beside THEN [run[q] EXCEPT !.alone = FALSE] ELSE run[q]]
  /\ UNCHANGED <<disk, dir, crashes, others>>

\* The file is opened, and created if there is none.
Open(p) ==
  /\ run[p].pc = "open"
  /\ IF dir = 0 THEN disk' = Append(disk, <<>>) /\ dir' = Len(disk')
                ELSE UNCHANGED <<disk, dir>>
  /\ run' = [run EXCEPT ![p].pc = "read", ![p].fd = dir']
  /\ UNCHANGED <<runs, shared, crashes, others>>

\* The signing key cannot be read, or the file not opened or not removed.
OpenFails(p) ==
  /\ run[p].pc \in {"open", "remove"}
  /\ CanMishap
  /\ others' = others + 1
  /\ End(p)
  /\ UNCHANGED <<disk, dir, runs, shared, crashes>>

\* batchGenSave, called with r: unless enough are counted, the next batch is
\* shared out among the workers, the first of which takes the remainder; an
\* empty share will be skipped.  (Faults: the difference is swapped; every worker
\* takes one more; the remainder is dropped.)
LimitSwapped(r) == Min({r.mem - r.req, BatchSize})

Limit(r) == Min({r.req - r.mem, BatchSize})

ShareRoundedUp(n, k)   == n \div NumCPU + 1
ShareRoundedDown(n, k) == n \div NumCPU

Share(n, k) == n \div NumCPU + IF k = 1 THEN n % NumCPU ELSE 0

BatchGenSave(r) ==
  IF r.mem >= r.req THEN [r EXCEPT !.pc = "get"]
  ELSE [r EXCEPT !.pc = "collect",
                 !.jobs = [k \in {c \in Cpus : Share(Limit(r), c) # 0} |-> Share(Limit(r), k)]]

\* The count is read, and generation begins.
Read(p) ==
  /\ run[p].pc = "read"
  /\ Readable(File(p))
  /\ run' = [run EXCEPT ![p] = BatchGenSave([run[p] EXCEPT !.mem = Counted(File(p))])]
  /\ UNCHANGED <<disk, dir, runs, shared, crashes, others>>

\* A header that cannot be read: remove the file and try once more.
Corrupt(p) ==
  /\ run[p].pc = "read"
  /\ ~Readable(File(p))
  /\ IF run[p].retrying THEN End(p) ELSE Goto(p, "remove")
  /\ UNCHANGED <<disk, dir, runs, shared, crashes, others>>

\* os.Remove removes whatever has the name by now, and fails if nothing has.
RemoveFile(p) ==
  /\ run[p].pc = "remove"
  /\ IF dir = 0 THEN End(p)
                ELSE run' = [run EXCEPT ![p].pc = "open", ![p].retrying = TRUE]
  /\ dir' = 0
  /\ UNCHANGED <<disk, runs, shared, crashes, others>>

\* The collecting loop receives a worker's tokens, in any order of the workers,
\* and saves them: with Stat, to write where the file ends now, or at byte 10 of
\* an empty one.  (Fault: over the last line's newline.)
EndLessNewline(f) == IF f = <<>> THEN 1 ELSE Len(f) - 1

EndOf(f) == IF f = <<>> THEN 1 ELSE Len(f)

Collect(p, k) ==
  /\ run[p].pc = "collect"
  /\ k \in DOMAIN run[p].jobs
  /\ run' = [run EXCEPT ![p].pc = "tokens",
                        ![p].saving = run[p].jobs[k],
                        ![p].at = EndOf(File(p)),
                        ![p].jobs = [c \in DOMAIN run[p].jobs \ {k} |-> run[p].jobs[c]]]
  /\ UNCHANGED <<disk, dir, runs, shared, crashes, others>>

\* Signing failed in a worker, or the user cancelled: the batch is given up,
\* with what was saved of it in the file.
GiveUp(p) ==
  /\ run[p].pc = "collect"
  /\ DOMAIN run[p].jobs # {}
  /\ CanMishap
  /\ others' = others + 1
  /\ End(p)
  /\ UNCHANGED <<disk, dir, runs, shared, crashes>>

\* All workers delivered: go round again if this was not the last batch.
\* (Fault: there is only one batch.)
OneBatch(p) == TRUE

AllGenerated(p) == run[p].mem = run[p].req

BatchDone(p) ==
  /\ run[p].pc = "collect"
  /\ DOMAIN run[p].jobs = {}
  /\ IF AllGenerated(p) THEN Goto(p, "get")
                         ELSE run' = [run EXCEPT ![p] = BatchGenSave(run[p])]
  /\ UNCHANGED <<disk, dir, runs, shared, crashes, others>>

\* save: the tokens.  Another process sees the file before the write or after
\* it, never in its middle, as POSIX has it; only a crash cuts it short.
Write(p, cells, at) == disk' = [disk EXCEPT ![run[p].fd] = WriteAt(File(p), cells, at)]

NewTokens(p) == Tokens(run[p].tag, run[p].saving)

SaveTokens(p) ==
  /\ run[p].pc = "tokens"
  /\ Write(p, NewTokens(p), run[p].at)
  /\ Goto(p, "count")
  /\ UNCHANGED <<dir, runs, shared, crashes, others>>

\* The count, 20 bytes over the file's beginning, then the newline after it.
\* (Fault: the empty piece after the last newline is counted as well.)
CountOfPieces(p) == run[p].mem + run[p].saving + 1

NewCount(p) == run[p].mem + run[p].saving

SaveCount(p) ==
  /\ run[p].pc = "count"
  /\ Write(p, <<Count(NewCount(p)), Zeros>>, 0)
  /\ Goto(p, "newline")
  /\ UNCHANGED <<dir, runs, shared, crashes, others>>

SaveNewline(p) ==
  /\ run[p].pc = "newline"
  /\ Write(p, <<Newline>>, 2)
  /\ run' = [run EXCEPT ![p].pc = "collect", ![p].mem = NewCount(p),
                        ![p].saving = 0, ![p].at = 0]
  /\ UNCHANGED <<dir, runs, shared, crashes, others>>

\* get and retrieve: if the count covers them, the JWTs are read back line by
\* line, as many as were asked for; the lines may end too soon.  The run ends.
Given(p) ==
  LET lines == JwtLines(File(p))
  IN  IF Counted(File(p)) < run[p].req THEN <<>>
      ELSE SubSeq(lines, 1, Min({run[p].req, Len(lines)}))

Retrieve(p) ==
  /\ run[p].pc = "get"
  /\ End(p)
  /\ UNCHANGED <<disk, dir, runs, shared, crashes, others>>

\* The process is killed, or a write of save fails and the run ends with its
\* error: the same file is left, with the beginning of the tokens.
Crash(p) ==
  /\ Active(p)
  /\ CanMishap
  /\ crashes' = crashes + 1
  /\ IF run[p].pc = "tokens"
       THEN \E k \in 0 .. Len(NewTokens(p)) - 1 :
              Write(p, SubSeq(NewTokens(p), 1, k), IF k = 0 THEN 0 ELSE run[p].at)
       ELSE UNCHANGED disk
  /\ End(p)
  /\ UNCHANGED <<dir, runs, shared, others>>

\* clear-cache removes the directory.
ClearCache ==
  /\ dir # 0
  /\ CanMishap
  /\ others' = others + 1
  /\ dir' = 0
  /\ UNCHANGED <<disk, run, runs, shared, crashes>>

RunStep(p) ==
  \/ Open(p) \/ Read(p) \/ Corrupt(p) \/ RemoveFile(p)
  \/ \E k \in Cpus : Collect(p, k)
  \/ BatchDone(p) \/ SaveTokens(p) \/ SaveCount(p) \/ SaveNewline(p)
  \/ Retrieve(p)

Next ==
  \/ ClearCache
  \/ \E p \in Procs :
       \/ \E n \in Amounts : StartRun(p, n)
       \/ RunStep(p) \/ OpenFails(p) \/ GiveUp(p) \/ Crash(p)

\* A run that has begun goes on by itself; nothing has to fail.  It is enough
\* that one of the processes does.
Spec == Init /\ [][Next]_vars /\ WF_vars(\E p \in Procs : RunStep(p))

-------------------------------------------------------------------------------
\* The types of the files and of the runs' variables.
TypeOK ==
  /\ dir \in 0 .. Len(disk)
  /\ \A f \in DOMAIN disk : \A k \in DOMAIN disk[f] :
       disk[f][k] \in {"zeros", "newline", "count", "first", "next", "rest"} \X Nat
  /\ \A p \in Procs :
       /\ run[p].pc \in {"open", "read", "remove", "collect",
                         "tokens", "count", "newline", "get", "ended"}
       /\ run[p].req \in Amounts \cup {0}
       /\ {run[p].tag, run[p].mem, run[p].saving, run[p].at} \subseteq Nat
       /\ \A k \in DOMAIN run[p].jobs : k \in Cpus /\ run[p].jobs[k] \in Nat
       /\ {run[p].alone, run[p].retrying} \subseteq BOOLEAN
       /\ run[p].fd \in 0 .. Len(disk)
  /\ shared \in BOOLEAN
  /\ runs <= MaxRuns /\ crashes + others <= MaxMishaps

\* What the file is worth after a crash is only known if no two runs ever wrote to
\* it at the same time: with a crash among them, writers can be left behind who
\* append at places that are no whole number of JWTs apart, over each other's newlines.
Orderly == crashes = 0 \/ ~shared

\* The count a later run will trust never promises more JWTs than the file has
\* lines for, whatever writes were cut short or never done, or, if none was, done
\* over those of other processes.  The first line may still be part of the header's.
CountNeverAhead ==
  Orderly => \A f \in DOMAIN disk : Counted(disk[f]) <= Len(Lines(disk[f]))

Cached == IF dir = 0 THEN 0 ELSE Counted(disk[dir])

\* What was once counted stays: no crash, failed write or recovery of a corrupt
\* file makes a later run find fewer JWTs than an earlier one had saved; only
\* clear-cache and two processes at a time do.
CountedStays ==
  [][\/ Cached <= Cached'
     \/ others' # others
     \/ \E p \in Procs : Active(p) /\ ~run[p].alone]_vars

\* Once generation succeeded the requests get every JWT they were promised, even
\* if clear-cache removes the file meanwhile, but for one after a crash that kept
\* the newline from the file; and unless another process ran at the same time.
ServedInFull ==
  [][\A p \in Procs : Retrieve(p) /\ run[p].alone /\ Orderly =>
       Len(Given(p)) >= run[p].req - IF crashes > 0 THEN 1 ELSE 0]_vars

\* Batches add up: a run generates the JWTs it lacked and not one more.
NeverOvergenerates ==
  \A p \in Procs :
    /\ run[p].saving > 0 => NewCount(p) <= run[p].req
    /\ run[p].pc = "get" => run[p].mem >= run[p].req

\* Processes that write over each other spoil no line; only the first is, as in
\* every file.  A crash or failed write spoils one more, where the next save begins.
Spoilt(lines) == {k \in DOMAIN lines : ~IsWhole(lines[k])}

SpoiltLines ==
  Orderly => \A f \in DOMAIN disk : Cardinality(Spoilt(JwtLines(disk[f]))) <= crashes + 1

\* Every run comes to its end, however the processes take turns and whatever
\* they find or take from each other: the file is removed at most once, and every
\* batch brings the count nearer to the amount.
RunsEnd == []<>(\A p \in Procs : ~Active(p))

\* README.md promises that the JWTs are saved on disk and streamed from there
\* to the requests: without any crash, every JWT handed out is a whole one.
StreamedWhole ==
  [][\A p \in Procs : Retrieve(p) /\ crashes = 0 =>
       \A k \in DOMAIN Given(p) : IsWhole(Given(p)[k])]_vars
===============================================================================
