------------------------------- MODULE Logger -------------------------------
(***************************************************************************)
(* The log that main and every worker share (src/io/logger.cpp, logger.h): *)
(* a level, a console and a file.  writeLog holds logMutex_ while it       *)
(* writes the line to both.                                                *)
(*                                                                         *)
(* Two kinds of writers do not take the mutex: the signal handler          *)
(* (src/main.cpp), which interrupts whatever thread it likes, and the      *)
(* places that use std::cout themselves (src/io/io_uring.cpp).             *)
(*                                                                         *)
(* A line is a thread's n-th call.  On the console it is two pieces, the   *)
(* text in its colours and the end of line, as the stream puts them out    *)
(* one by one.  Time, thread id, place in the source and colours are left  *)
(* out; what becomes of a format and its arguments is not.                 *)
(***************************************************************************)
EXTENDS Integers, FiniteSets, SequencesExt

CONSTANTS
  Main, Workers,   \* the threads
  NoOne,           \* no thread
  Threshold,       \* main's argument for setLogLevel
  MaxCalls,        \* bound: calls of log in all
  MaxStrays,       \* bound: writes to the console outside the mutex
  Pieces, Values,  \* what formats and arguments are made of
  MaxPieces        \* bound: the length of both

DEBUG == 0
INFO == 1
ERROR == 3
Levels == DEBUG .. ERROR

(* What formatHelper looks for, and what it puts around what is left over.  *)
Hole == "{}"
Blank == " "

Threads == Workers \cup {Main}

ASSUME LoggerAssumption ==
  /\ NoOne \notin Threads
  /\ Main \notin Workers
  /\ Hole \in Pieces
  /\ Threshold \in Levels
  /\ {MaxCalls, MaxStrays, MaxPieces} \subseteq Nat

VARIABLES
  main,       \* how far main is
  logLevel,   \* logLevel_
  logFile,    \* logFile_: "none", "good", "failed" (every write is lost) or "closed"
  mutex,      \* who holds logMutex_
  at,         \* where each thread is in a call of log
  calls,      \* the levels of the calls each thread has made
  asked,      \* the format and the arguments of each thread's last call
  text,       \* oss: what formatHelper made of them
  handler,    \* the thread a signal handler interrupts
  console,    \* what std::cout was given, in order
  disk        \* the lines in the log file

vars == <<main, logLevel, logFile, mutex, at, calls, asked, text, handler,
          console, disk>>

Part(t, n, p) == [by |-> t, n |-> n, part |-> p]
IsStray(p) == p.part = "stray"
CallsLeft == MapThenSumSet(LAMBDA t : Len(calls[t]), Threads) < MaxCalls
StraysLeft == Len(SelectSeq(console, IsStray)) < MaxStrays
Nothing == <<<<>>, <<>>>>   \* a message without text or arguments

-----------------------------------------------------------------------------
(* formatHelper: the text before the first hole, the first argument, and    *)
(* the same again for what is behind the hole and the other arguments.  An  *)
(* argument that finds no hole is dropped; those after it follow the text.  *)

FirstHole(f) == SelectInSeq(f, LAMBDA p : p = Hole)
Listed(args) == FlattenSeq([i \in DOMAIN args |-> <<args[i], Blank>>])
AllLeft(args) == <<Blank>> \o Listed(args)   \* a variant
Leftovers(args) == IF Len(args) > 1 THEN <<Blank>> \o Listed(Tail(args)) ELSE <<>>

Messages == BoundedSeq(Pieces, MaxPieces) \X BoundedSeq(Values, MaxPieces)

formatHelper[fa \in Messages] ==
  LET format == fa[1]  args == fa[2]  pos == FirstHole(format)
  IN  IF args = <<>> THEN format
      ELSE IF pos = 0 THEN format \o Leftovers(args)
      ELSE SubSeq(format, 1, pos - 1) \o <<Head(args)>> \o
           formatHelper[<<SubSeq(format, pos + 1, Len(format)), Tail(args)>>]

-----------------------------------------------------------------------------
(* Variants of definitions below, as a slip in the code would make them.    *)

LocksAnyway == TRUE
PassesOnlyAbove(l) == l > logLevel
EndsEarly == mutex' = NoOne

-----------------------------------------------------------------------------
(* A thread a signal handler interrupts does nothing until it returns.      *)
Goes(t, from, to) ==
  /\ handler # t
  /\ at[t] = from
  /\ at' = [at EXCEPT ![t] = to]

Puts(p) == console' = Append(console, p)

HandlerLogs ==
  /\ handler # NoOne
  /\ mutex = NoOne
  /\ Puts(Part(handler, 0, "stray"))
  /\ handler' = NoOne
  /\ UNCHANGED <<main, logLevel, logFile, mutex, at, calls, asked, text, disk>>

(* main sets the level and the file before it logs anything and before      *)
(* there are workers, and starts them after its first line.                 *)
SetLogLevel ==
  /\ main = "level"
  /\ handler # Main
  /\ logLevel' = Threshold
  /\ main' = "file"
  /\ UNCHANGED <<logFile, mutex, at, calls, asked, text, handler, console, disk>>

(* The file opens, or it does not and is given up.                          *)
SetLogFile ==
  /\ main = "file"
  /\ handler # Main
  /\ logFile' \in {"good", "none"}
  /\ main' = "first"
  /\ UNCHANGED <<logLevel, mutex, at, calls, asked, text, handler, console, disk>>

(* create_directories throws, or later the first thread cannot be created:  *)
(* main's handler logs the exception and main returns.                      *)
MainFails ==
  /\ main \in {"file", "first"}
  /\ CallsLeft
  /\ Goes(Main, "outside", "wanting")
  /\ main' = "failed"
  /\ calls' = [calls EXCEPT ![Main] = Append(@, ERROR)]
  /\ UNCHANGED <<logLevel, logFile, mutex, asked, text, handler, console, disk>>

StartsWorkers ==
  /\ main = "first"
  /\ handler # Main
  /\ at[Main] = "outside"
  /\ calls[Main] # <<>>
  /\ main' = "serving"
  /\ UNCHANGED <<logLevel, logFile, mutex, at, calls, asked, text, handler,
                 console, disk>>

(* ~Logger, at exit.                                                        *)
Ends ==
  /\ main = "failed"
  /\ handler # Main
  /\ at[Main] = "outside"
  /\ main' = "over"
  /\ logFile' = IF logFile = "none" THEN "none" ELSE "closed"
  /\ UNCHANGED <<logLevel, mutex, at, calls, asked, text, handler, console, disk>>

-----------------------------------------------------------------------------
(* log, logMessage and writeLog.                                            *)

Passes(l) == l >= logLevel

Running(t) == IF t = Main THEN main \in {"first", "serving"}
                          ELSE main = "serving"

(* Bound: only main's first call has a format worth formatting.             *)
Said(t) == IF main = "first" /\ calls[t] = <<>> THEN Messages ELSE {Nothing}

(* log and logMessage drop what is below the level, before they take the    *)
(* mutex.                                                                   *)
Log(t, l) ==
  /\ Running(t)
  /\ CallsLeft
  /\ Goes(t, "outside", IF Passes(l) THEN "wanting" ELSE "outside")
  /\ calls' = [calls EXCEPT ![t] = Append(@, l)]
  /\ \E message \in Said(t) :
       LET said == IF Passes(l) THEN message ELSE Nothing
       IN  /\ asked' = [asked EXCEPT ![t] = said]
           /\ text' = [text EXCEPT ![t] = formatHelper[said]]
  /\ UNCHANGED <<main, logLevel, logFile, mutex, handler, console, disk>>

MayLock == mutex = NoOne

Locks(t) ==
  /\ Goes(t, "wanting", "text")
  /\ MayLock
  /\ mutex' = t
  /\ UNCHANGED <<main, logLevel, logFile, calls, asked, text, handler, console, disk>>

PutsText(t) ==
  /\ Goes(t, "text", "end")
  /\ Puts(Part(t, Len(calls[t]), "text"))
  /\ UNCHANGED <<main, logLevel, logFile, mutex, calls, asked, text, handler, disk>>

(* The lock is held for the file as well.                                   *)
HoldsOn == UNCHANGED mutex

PutsEnd(t) ==
  /\ Goes(t, "end", "file")
  /\ Puts(Part(t, Len(calls[t]), "end"))
  /\ HoldsOn
  /\ UNCHANGED <<main, logLevel, logFile, calls, asked, text, handler, disk>>

Unlocks == mutex' = NoOne

(* The line goes to the file if it is open, and is flushed.  A write that   *)
(* fails leaves the file open and the stream failed, and nobody notices.    *)
Returns(t, status) ==
  /\ Goes(t, "file", "outside")
  /\ disk' = IF status = "good" THEN Append(disk, <<t, Len(calls[t])>>) ELSE disk
  /\ Unlocks
  /\ asked' = [asked EXCEPT ![t] = Nothing]
  /\ text' = [text EXCEPT ![t] = <<>>]
  /\ logFile' = status
  /\ UNCHANGED <<main, logLevel, calls, handler, console>>

PutsFile(t) == Returns(t, logFile)

PutFails(t) == logFile = "good" /\ Returns(t, "failed")

Call(t) == Locks(t) \/ PutsText(t) \/ PutsEnd(t) \/ PutsFile(t)

-----------------------------------------------------------------------------
(* The signal handler interrupts a thread, wherever it is.                  *)
Signal(t) ==
  /\ handler = NoOne
  /\ t = Main \/ Running(t)
  /\ main # "over"
  /\ StraysLeft
  /\ handler' = t
  /\ UNCHANGED <<main, logLevel, logFile, mutex, at, calls, asked, text, console, disk>>

HandlerPuts ==
  /\ handler # NoOne
  /\ Puts(Part(handler, 0, "stray"))
  /\ handler' = NoOne
  /\ UNCHANGED <<main, logLevel, logFile, mutex, at, calls, asked, text, disk>>

(* queueInit and the registration of the buffers say so on std::cout.       *)
Announces(w) ==
  /\ Running(w)
  /\ handler # w
  /\ at[w] = "outside"
  /\ calls[w] = <<>>
  /\ StraysLeft
  /\ Puts(Part(w, 0, "stray"))
  /\ UNCHANGED <<main, logLevel, logFile, mutex, at, calls, asked, text, handler, disk>>

-----------------------------------------------------------------------------
Init ==
  /\ main = "level"
  /\ logLevel = INFO
  /\ logFile = "none"
  /\ mutex = NoOne
  /\ at = [t \in Threads |-> "outside"]
  /\ calls = [t \in Threads |-> <<>>]
  /\ asked = [t \in Threads |-> Nothing]
  /\ text = [t \in Threads |-> <<>>]
  /\ handler = NoOne
  /\ console = <<>>
  /\ disk = <<>>

Next ==
  \/ SetLogLevel \/ SetLogFile \/ MainFails \/ StartsWorkers \/ Ends
  \/ \E t \in Threads, l \in {DEBUG, INFO} : Log(t, l)
  \/ \E t \in Threads : Call(t) \/ PutFails(t) \/ Signal(t)
  \/ HandlerPuts
  \/ \E w \in Workers : Announces(w)

Spec == Init /\ [][Next]_vars

(* Threads and handlers run. Nobody has to log anything, and the mutex is   *)
(* handed to anyone: a thread gets it once the others' calls have ended.    *)
Fairness ==
  /\ \A t \in Threads : WF_vars(Call(t))
  /\ WF_vars(HandlerPuts)

FairSpec == Spec /\ Fairness

-----------------------------------------------------------------------------
(* The values, and who holds the mutex where.                               *)
TypeOK ==
  /\ main \in {"level", "file", "first", "serving", "failed", "over"}
  /\ logLevel \in {INFO, Threshold}
  /\ logFile \in {"good", "none", "failed", "closed"}
  /\ {mutex, handler} \subseteq Threads \cup {NoOne}
  /\ at \in [Threads -> {"outside", "wanting", "text", "end", "file"}]
  /\ calls \in [Threads -> Seq(Levels)]
  /\ asked \in [Threads -> Messages \cup {Nothing}]
  /\ console \in Seq([by : Threads, n : Nat, part : {"text", "end", "stray"}])
  /\ disk \in Seq(Threads \X Nat)
  /\ \A t \in Threads : (at[t] \in {"text", "end", "file"}) = (mutex = t)

(* A line is on the console in one piece, and in order: once its text is    *)
(* there, nothing but what ignores the mutex comes before its end.          *)
EndOf(p) == [p EXCEPT !.part = "end"]
LinesWhole ==
  \A i \in DOMAIN console :
    console[i].part = "text" =>
      \E k \in i + 1 .. Len(console) + 1 :
        /\ \A j \in i + 1 .. k - 1 : IsStray(console[j])
        /\ k \in DOMAIN console => console[k] = EndOf(console[i])

(* The file has the console's lines, in the console's order, whole, and     *)
(* without those that are not the log's; it ends where a write failed.      *)
IsText(p) == p.part = "text"
Texts == {i \in DOMAIN console : IsText(console[i])}
Rank(i) == Cardinality({j \in Texts : j <= i})
BeingWritten == IF \E t \in Threads : at[t] \in {"end", "file"} THEN 1 ELSE 0
FileFollowsConsole ==
  /\ Len(disk) <= Cardinality(Texts)
  /\ \A i \in Texts :
       Rank(i) <= Len(disk) => disk[Rank(i)] = <<console[i].by, console[i].n>>
  /\ logFile = "good" => Len(disk) = Cardinality(Texts) - BeingWritten

(* What a thread logs at the level that is set or above is shown, once and  *)
(* in the order of its calls, and nothing below that level is.              *)
TextsBy(t) == {i \in Texts : console[i].by = t}
Due(t) == {n \in DOMAIN calls[t] : calls[t][n] >= Threshold}
Pending(t) == IF at[t] \in {"wanting", "text"} THEN {Len(calls[t])} ELSE {}
EachShownOnce ==
  \A t \in Threads :
    /\ \A i, j \in TextsBy(t) : i < j => console[i].n < console[j].n
    /\ {console[i].n : i \in TextsBy(t)} = Due(t) \ Pending(t)

(* The i-th hole of a format shows the i-th argument, whatever the          *)
(* arguments look like, a hole without an argument shows itself, and of the *)
(* arguments without a hole the first is lost and the rest follow.          *)
HolesUpTo(f, i) == Cardinality({j \in 1 .. i : f[j] = Hole})
Filled(f, args) ==
  [i \in DOMAIN f |-> IF f[i] = Hole /\ HolesUpTo(f, i) <= Len(args)
                      THEN args[HolesUpTo(f, i)] ELSE f[i]]
Surplus(f, args) == SubSeq(args, HolesUpTo(f, Len(f)) + 2, Len(args))
FormattedByPlace ==
  \A t \in Threads :
    LET f == asked[t][1]  args == asked[t][2]  more == Surplus(f, args)
    IN  text[t] = Filled(f, args) \o
          IF more = <<>> THEN <<>>
          ELSE <<Blank>> \o [i \in 1 .. 2 * Len(more) |->
                             IF i % 2 = 1 THEN more[(i + 1) \div 2] ELSE Blank]

(* Every call of log returns: whatever interrupts a thread that holds the   *)
(* mutex, no thread waits for it for ever.                                  *)
CallsReturn == \A t \in Threads : at[t] # "outside" ~> at[t] = "outside"
=============================================================================
