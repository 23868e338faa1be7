-------------------------------- MODULE LogKit --------------------------------
(***************************************************************************)
(* The log writer (logkit.go): repeated lines are counted instead of       *)
(* written, more lines a second than the limit are dropped and counted,    *)
(* and both counts are reported later.  The file is rotated by size.       *)
(*                                                                         *)
(* All happens under one mutex; the timer that reports repetitions waits   *)
(* for it as well, and may have fired when it is stopped.                  *)
(***************************************************************************)
EXTENDS Integers, FiniteSets

CONSTANTS
    Lines,        \* texts of lines, their time stamps left out
    FloodPerSec,  \* floodPerSec
    DupTicks,     \* seconds of dupWindow
    MaxFileSize,  \* lines of a file
    MaxBackups,   \* maxBackups
    LastSecond,   \* bound: the clock stops here
    MaxWrites     \* bound: lines written

NoLine == "none"

\* An empty line is never taken for a repetition.
\* A file, of ten megabytes, holds what one write brings: its line and two reports.
ASSUME LogAssumption ==
    /\ NoLine \notin Lines
    /\ MaxFileSize \in Nat /\ MaxFileSize >= 3
    /\ MaxBackups \in Nat

VARIABLES
    lgNow,                \* the clock, in seconds
    lgMsg, lgTime, lgCount, \* lastMsg, lastTime, lastCount
    lgTimer,              \* none, armed, or the number of timers that have fired and wait
    lgSec, lgSecCount, lgSecDrop, \* sec, secCnt, secDrop
    lgFile,               \* lines in the file; -1 when it could not be opened
    lgBackups,            \* the seconds that name archives
    lgWritten, lgShown, lgFolded, lgDropped \* history: lines written; shown, reported as folded, as dropped

logVars == <<lgNow, lgMsg, lgTime, lgCount, lgTimer, lgSec, lgSecCount, lgSecDrop, lgFile, lgBackups,
             lgWritten, lgShown, lgFolded, lgDropped>>

LogInit ==
    /\ lgNow = 0
    /\ lgMsg = NoLine /\ lgTime = 0 /\ lgCount = 0 /\ lgTimer = [armed |-> FALSE, fired |-> 0]
    /\ lgSec = -1 /\ lgSecCount = 0 /\ lgSecDrop = 0
    /\ lgFile = 0 /\ lgBackups = {}
    /\ lgWritten = 0 /\ lgShown = 0 /\ lgFolded = 0 /\ lgDropped = 0

-----------------------------------------------------------------------------
\* emitLocked of n lines: a full file is archived under its second, and the
\* oldest archives go; when the new one cannot be opened there is no file any
\* more.
Largest(n, set) == {s \in set : Cardinality({t \in set : t > s}) < n}

Emitted(n) ==
    \/ lgFile = -1 /\ UNCHANGED <<lgFile, lgBackups>>
    \/ /\ lgFile # -1 /\ lgFile + n <= MaxFileSize
       /\ lgFile' = lgFile + n /\ UNCHANGED lgBackups
    \/ /\ lgFile # -1 /\ lgFile + n > MaxFileSize
       /\ \/ lgFile' = lgFile + n - MaxFileSize /\ lgBackups' = Largest(MaxBackups, lgBackups \cup {lgNow})
          \/ lgFile' = -1 /\ lgBackups' = lgBackups \cup {lgNow}

\* Stop does not call back a timer that has fired.
Stopped == [lgTimer EXCEPT !.armed = FALSE]

\* What was folded into the last line, ...
Folding == IF lgCount > 1 THEN lgCount - 1 ELSE 0

\* Deviation: only the timer reports it.
FoldedByTimer == IF lgTimer.armed THEN 0 ELSE Folding

\* ... which flushDupLocked reports.
Folded == Folding

\* How many lines floodLocked reports, and whether it drops this one.
Turned == lgNow # lgSec
Reported == IF Turned THEN lgSecDrop ELSE 0
SecCount == IF Turned THEN 1 ELSE lgSecCount + 1
One(b) == IF b THEN 1 ELSE 0

-----------------------------------------------------------------------------
\* Write of a line like the last one, within the window: it is counted.
Repeat(m) ==
    /\ lgWritten < MaxWrites
    /\ m = lgMsg /\ lgNow - lgTime < DupTicks
    /\ lgCount' = lgCount + 1 /\ lgWritten' = lgWritten + 1
    /\ UNCHANGED <<lgNow, lgMsg, lgTime, lgTimer, lgSec, lgSecCount, lgSecDrop, lgFile, lgBackups,
                   lgShown, lgFolded, lgDropped>>

\* Write of another: the count of the last is reported, the timer begins anew,
\* and the line is shown unless there were too many in this second.
WriteLine(m) ==
    /\ lgWritten < MaxWrites
    /\ ~(m = lgMsg /\ lgNow - lgTime < DupTicks)
    /\ lgMsg' = m /\ lgTime' = lgNow /\ lgCount' = 1
    /\ lgTimer' = [Stopped EXCEPT !.armed = TRUE]
    /\ lgSec' = lgNow /\ lgSecCount' = SecCount
    /\ LET drop == SecCount > FloodPerSec IN
       /\ lgSecDrop' = (IF Turned THEN 0 ELSE lgSecDrop) + One(drop)
       /\ Emitted(One(Folded > 0) + One(Reported > 0) + One(~drop))
       /\ lgShown' = lgShown + One(~drop)
    /\ lgFolded' = lgFolded + Folded /\ lgDropped' = lgDropped + Reported
    /\ lgWritten' = lgWritten + 1
    /\ UNCHANGED lgNow

\* The timer fires, and later has the mutex: whatever line is the last by then.
TimerFires ==
    /\ lgTimer.armed
    /\ lgTimer' = [armed |-> FALSE, fired |-> lgTimer.fired + 1]
    /\ UNCHANGED <<lgNow, lgMsg, lgTime, lgCount, lgSec, lgSecCount, lgSecDrop, lgFile, lgBackups,
                   lgWritten, lgShown, lgFolded, lgDropped>>

TimerReports ==
    /\ lgTimer.fired > 0
    /\ lgTimer' = [armed |-> FALSE, fired |-> lgTimer.fired - 1]
    /\ lgMsg' = NoLine /\ lgCount' = 0
    /\ lgFolded' = lgFolded + Folded /\ Emitted(One(Folded > 0))
    /\ UNCHANGED <<lgNow, lgTime, lgSec, lgSecCount, lgSecDrop, lgWritten, lgShown, lgDropped>>

LogTick ==
    /\ lgNow < LastSecond /\ lgNow' = lgNow + 1
    /\ UNCHANGED <<lgMsg, lgTime, lgCount, lgTimer, lgSec, lgSecCount, lgSecDrop, lgFile, lgBackups,
                   lgWritten, lgShown, lgFolded, lgDropped>>

LogNext == LogTick \/ TimerFires \/ TimerReports \/ \E m \in Lines : Repeat(m) \/ WriteLine(m)

LogSpec == LogInit /\ [][LogNext]_logVars

-----------------------------------------------------------------------------
\* A line that was forgotten has no count; there are no more archives than are kept.
LogTypeOK ==
    /\ lgMsg \in Lines \cup {NoLine} /\ (lgMsg = NoLine <=> lgCount = 0)
    /\ lgFile \in -1 .. MaxFileSize
    /\ Cardinality(lgBackups) <= MaxBackups + One(lgFile = -1)

\* No line goes without a trace: each was shown, reported in a count, or is in a
\* count that is still to be reported, whatever repetitions, floods, late timers
\* and rotations there are (logkit.go, Write).
NoLineUncounted ==
    lgWritten = lgShown + (lgFolded + Folding) + (lgDropped + lgSecDrop)
=============================================================================
