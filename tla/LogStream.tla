------------------------------ MODULE LogStream ------------------------------
(***************************************************************************)
(* How a log file is tailed for one browser (syte/log_stream.py): a        *)
(* snapshot of the file, the offset at which tailing begins, and polls     *)
(* that read what was appended, in threads, while deploys, builds and      *)
(* processes go on writing.  A file is a sequence of halves of lines: a    *)
(* process may write a line in two pieces.  A half is <<generation, n>>;   *)
(* a new generation begins when the file is deleted or truncated.          *)
(***************************************************************************)
EXTENDS Naturals, FiniteSets

CONSTANTS
    LogHalves,    \* bound on the halves of a generation
    LogCuts,      \* bound on truncations
    LogRounds     \* rounds of polling (4500, or 7200 for a preview)

ASSUME LogStreamAssumption == LogHalves \in Nat /\ LogCuts \in Nat /\ LogRounds \in Nat

VARIABLES
    logFile,      \* generation, number of halves
    logReader,    \* where the generator is suspended, its offset, the round, and what
                  \* the size the thread that reads has found
    logRequest,   \* whether the route passes its request, and whether the client is there
    logSnapshot,  \* history: halves sent by the snapshot
    logTail,      \* history: halves sent since then, with how often
    logBase       \* history: where tailing began

logVars == <<logFile, logReader, logRequest, logSnapshot, logTail, logBase>>

Halves == (0..LogCuts) \X (1..LogHalves)
Sizes == 0..LogHalves

LogTypeOK ==
    /\ logFile \in [gen : 0..LogCuts, size : Sizes]
    /\ logReader \in [pc : {"snapshot", "stat", "poll", "size", "read", "ended"}, offset : Sizes,
                      round : 0..LogRounds, found : Sizes]
    /\ logRequest \in [passed : BOOLEAN, there : BOOLEAN]
    /\ logSnapshot \subseteq Halves
    /\ logTail \in [Halves -> 0..LogCuts + 1]
    /\ logBase \in [gen : 0..LogCuts, size : Sizes]

LogInit ==
    /\ \E n \in Sizes : logFile = [gen |-> 0, size |-> n]
    /\ \E live, passed \in BOOLEAN :
          /\ logReader = [pc |-> IF live THEN "stat" ELSE "snapshot", offset |-> 0, round |-> 0,
                          found |-> 0]
          /\ logRequest = [passed |-> passed, there |-> TRUE]
    /\ logSnapshot = {}
    /\ logTail = [h \in Halves |-> 0]
    /\ logBase = [gen |-> 0, size |-> 0]

-----------------------------------------------------------------------------
(* Writers and the client *)

\* A piece of a line, or a line.
LogWrite ==
    /\ \E n \in 1..2 : logFile' = [logFile EXCEPT !.size = @ + n] /\ logFile.size + n <= LogHalves
    /\ UNCHANGED <<logReader, logRequest, logSnapshot, logTail, logBase>>

LogCut ==
    /\ logFile.gen < LogCuts /\ logFile.size > 0
    /\ logFile' = [gen |-> logFile.gen + 1, size |-> 0]
    /\ UNCHANGED <<logReader, logRequest, logSnapshot, logTail, logBase>>

\* The response is cancelled at the frame or the sleep it is suspended at when
\* nobody reads it any more.
LogLeave ==
    /\ logRequest.there
    /\ logRequest' = [logRequest EXCEPT !.there = FALSE]
    /\ logReader' = [logReader EXCEPT !.pc = "ended"]
    /\ UNCHANGED <<logFile, logSnapshot, logTail, logBase>>

-----------------------------------------------------------------------------
(* The generator *)

Piece(from, to) == {logFile.gen} \X (from + 1 .. to)

\* get_logs: the last lines of the file, in a thread.
LogSnapshot ==
    /\ logReader.pc = "snapshot"
    /\ \E from \in 0..logFile.size : logSnapshot' = Piece(from, logFile.size)
    /\ logReader' = [logReader EXCEPT !.pc = "stat"]
    /\ UNCHANGED <<logFile, logRequest, logTail, logBase>>

\* _stat_size, a second look at the file: what was written since the snapshot
\* is in neither.
LogStat ==
    /\ logReader.pc = "stat"
    /\ logReader' = [logReader EXCEPT !.pc = "poll", !.offset = logFile.size]
    /\ logBase' = logFile
    /\ UNCHANGED <<logFile, logRequest, logSnapshot, logTail>>

\* _check_disconnect: is_disconnected() is not awaited, and the coroutine it
\* returns counts as true.
Disconnected == logRequest.passed

LogPoll ==
    /\ logReader.pc = "poll"
    /\ logReader' = [logReader EXCEPT !.pc = IF Disconnected \/ logReader.round = LogRounds
                                             THEN "ended" ELSE "size",
                                      !.round = IF @ < LogRounds THEN @ + 1 ELSE @]
    /\ UNCHANGED <<logFile, logRequest, logSnapshot, logTail, logBase>>

\* A file smaller than the offset is a new one.
StartOffset == IF logFile.size < logReader.offset THEN 0 ELSE logReader.offset

\* _read_new_lines, first part, in a thread.
LogSize ==
    /\ logReader.pc = "size"
    /\ logReader' = [logReader EXCEPT !.offset = StartOffset, !.found = logFile.size,
                                      !.pc = IF logFile.size <= StartOffset THEN "poll" ELSE "read"]
    /\ UNCHANGED <<logFile, logRequest, logSnapshot, logTail, logBase>>

\* (mutant) the size that was found before the read
TellSize == logReader.found

\* f.tell() after the read: the end, or the place it sought beyond the end.
Tell == IF logFile.size < logReader.offset THEN logReader.offset ELSE logFile.size

\* Second part: everything from the offset on, also what was appended meanwhile.
LogRead ==
    /\ logReader.pc = "read"
    /\ LET new == Piece(logReader.offset, logFile.size) IN
       logTail' = [h \in Halves |-> IF h \in new /\ logTail[h] < 2 THEN logTail[h] + 1
                                    ELSE logTail[h]]
    /\ logReader' = [logReader EXCEPT !.offset = Tell, !.pc = "poll"]
    /\ UNCHANGED <<logFile, logRequest, logSnapshot, logBase>>

LogQuiet == logReader.pc = "ended" /\ UNCHANGED logVars

LogReaderStep == LogSnapshot \/ LogStat \/ LogPoll \/ LogSize \/ LogRead

LogNext == LogWrite \/ LogCut \/ LogLeave \/ LogReaderStep \/ LogQuiet

LogSpec == LogInit /\ [][LogNext]_logVars

-----------------------------------------------------------------------------
(* Properties *)

\* As long as the file is only appended to, what the tail has sent is what
\* lies between the place where tailing began and the offset, once and
\* without a hole, whatever is appended between the stat and the read, and
\* nothing the snapshot has sent comes again.
TailExact ==
    logFile.gen = 0 /\ logReader.pc \notin {"snapshot", "stat"}
    => LET sent == Piece(logBase.size, logReader.offset) IN
       /\ \A h \in Halves : logTail[h] = IF h \in sent THEN 1 ELSE 0
       /\ logSnapshot \cap sent = {}

\* "polls the log files twice a second for ~37 minutes ... Aborts promptly
\* when request has disconnected": a stream ends when the client left or the
\* rounds are over, and for no other reason.
TailsUntilDisconnect ==
    logReader.pc = "ended" => ~logRequest.there \/ logReader.round = LogRounds

=============================================================================
