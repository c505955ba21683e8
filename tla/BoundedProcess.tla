---------------------------- MODULE BoundedProcess ----------------------------
(***************************************************************************)
(* run_bounded_process and run_bounded_process_cancellable                 *)
(* (src-tauri/src/bounded_process.rs): a program is run with a time limit, *)
(* a limit on what it prints and a look at a cancellation.  Two threads    *)
(* read its streams while the caller polls it; the caller then joins the   *)
(* readers, which end at the end of a stream: when no process holds the    *)
(* pipe any more, and not when the program has ended.                      *)
(*                                                                         *)
(* Programs run one after the other; a new one finds the variables of the  *)
(* last one and sets all of them.                                          *)
(*                                                                         *)
(* Faults: "spawn" the program cannot be started, "monitor" a call of the  *)
(* caller or of a reader on the process or its pipes fails, "thread" a     *)
(* reader cannot be started, "exit" the program reports a failure, "child" *)
(* the program starts a process of its own.                                *)
(***************************************************************************)
EXTENDS Naturals

CONSTANTS
    OutputLimit,     \* what is kept of a stream at most
    MaxOutput,       \* bound: what a program writes to a stream
    ProcessFaults

ASSUME BoundedProcessAssumption ==
    /\ OutputLimit \in Nat
    /\ MaxOutput \in Nat

VARIABLES
    cancelled,  \* what should_cancel reads
    watched,    \* whether it is asked
    program,    \* the program that was started
    written,    \* what it wrote to a stream
    holders,    \* who can still write to it
    reader,     \* the thread that reads it
    taken,      \* what it has read
    late,       \* the time is over
    monitor,    \* where the caller is
    verdict     \* what its loop ended with, then what it answers

processVars == <<watched, program, written, holders, reader, taken, late, monitor, verdict>>

Streams == {"stdout", "stderr"}
Exits == {"succeeded", "exitedWithError"}
Programs == {"none", "running", "killed"} \union Exits
ReaderErrors == {"OutputLimit", "Io"}
Readers == {"none", "reading", "whole"} \union ReaderErrors
Stops == {"Cancelled", "Timeout", "Io"}
Verdicts == {"none", "OutputLimit", "panic"} \union Exits \union Stops
Monitors == {"idle", "spawn", "poll", "kill", "joinStdout", "joinStderr", "answered"}

ProcessInit ==
    /\ cancelled = FALSE
    /\ watched = FALSE
    /\ program = "none"
    /\ written = [s \in Streams |-> 0]
    /\ holders = [s \in Streams |-> {}]
    /\ reader = [s \in Streams |-> "none"]
    /\ taken = [s \in Streams |-> 0]
    /\ late = FALSE
    /\ monitor = "idle"
    /\ verdict = "none"

-----------------------------------------------------------------------------
(* The call.                                                               *)

Call(cancellable) ==
    /\ monitor = "idle"
    /\ monitor' = "spawn"
    /\ watched' = cancellable
    /\ verdict' = "none"
    /\ UNCHANGED <<cancelled, program, written, holders, reader, taken, late>>

Spawn ==
    /\ monitor = "spawn"
    /\ program' = "running"
    /\ written' = [s \in Streams |-> 0]
    /\ holders' = [s \in Streams |-> {"program"}]
    /\ reader' = [s \in Streams |-> "reading"]
    /\ taken' = [s \in Streams |-> 0]
    /\ late' = FALSE
    /\ monitor' = "poll"
    /\ UNCHANGED <<cancelled, watched, verdict>>

SpawnFails ==
    /\ monitor = "spawn"
    /\ "spawn" \in ProcessFaults
    /\ monitor' = "answered"
    /\ verdict' = "Io"
    /\ program' = "none"
    /\ UNCHANGED <<cancelled, watched, written, holders, reader, taken, late>>

\* thread::spawn panics: the caller unwinds, and nothing ends the program
ReaderIsNotStarted ==
    /\ monitor = "spawn"
    /\ "thread" \in ProcessFaults
    /\ program' = "running"
    /\ monitor' = "answered"
    /\ verdict' = "panic"
    /\ UNCHANGED <<cancelled, watched, written, holders, reader, taken, late>>

\* the loop looks at the exit, the cancellation and the time, in this order
Poll ==
    /\ monitor = "poll"
    /\ \/ /\ program \in Exits
          /\ monitor' = "joinStdout"
          /\ verdict' = program
       \/ /\ program = "running"
          /\ watched /\ cancelled
          /\ monitor' = "kill"
          /\ verdict' = "Cancelled"
       \/ /\ program = "running"
          /\ ~(watched /\ cancelled) /\ late
          /\ monitor' = "kill"
          /\ verdict' = "Timeout"
       \/ /\ "monitor" \in ProcessFaults
          /\ monitor' = "kill"
          /\ verdict' = "Io"
    /\ UNCHANGED <<cancelled, watched, program, written, holders, reader, taken, late>>

Kills ==
    /\ monitor = "kill"
    /\ monitor' = "joinStdout"

\* mutant: the program is left to end by itself
NotKilled ==
    /\ Kills
    /\ UNCHANGED <<cancelled, watched, program, written, holders, reader, taken, late, verdict>>

\* kill and wait; the program may have ended since the poll
Kill ==
    /\ Kills
    /\ program' = IF program = "running" THEN "killed" ELSE program
    /\ holders' = [s \in Streams |-> holders[s] \ {"program"}]
    /\ UNCHANGED <<cancelled, watched, written, reader, taken, late, verdict>>

\* join_reader: an error of a reader is answered before the verdict of the loop, and one of
\* stdout without a look at stderr
Join(s, here, next) ==
    /\ monitor = here
    /\ reader[s] # "reading"
    /\ \/ /\ reader[s] = "whole"
          /\ monitor' = next
          /\ UNCHANGED verdict
       \/ /\ reader[s] \in ReaderErrors
          /\ monitor' = "answered"
          /\ verdict' = reader[s]
    /\ UNCHANGED <<cancelled, watched, program, written, holders, reader, taken, late>>

\* the caller has the answer: nothing else is kept of the call
Taken ==
    /\ monitor = "answered"
    /\ monitor' = "idle"
    /\ watched' = FALSE /\ late' = FALSE /\ program' = "none" /\ verdict' = "none"
    /\ written' = [s \in Streams |-> 0] /\ taken' = [s \in Streams |-> 0]
    /\ holders' = [s \in Streams |-> {}]
    /\ reader' = [s \in Streams |-> "none"]
    /\ UNCHANGED cancelled

JoinReaders == Join("stdout", "joinStdout", "joinStderr") \/ Join("stderr", "joinStderr", "answered")

-----------------------------------------------------------------------------
(* read_bounded, on a thread of each stream.                               *)

\* one more than the limit is read to notice the excess; the pipe is closed at an error
Read(s) ==
    /\ reader[s] = "reading"
    /\ taken[s] < written[s]
    /\ taken' = [taken EXCEPT ![s] = @ + 1]
    /\ reader' = [reader EXCEPT ![s] = IF taken[s] = OutputLimit THEN "OutputLimit" ELSE @]
    /\ UNCHANGED <<cancelled, watched, program, written, holders, late, monitor, verdict>>

\* mutant: the reader ends with the program
EndWithProgram(s) ==
    /\ reader[s] = "reading"
    /\ "program" \notin holders[s]
    /\ reader' = [reader EXCEPT ![s] = "whole"]
    /\ UNCHANGED <<cancelled, watched, program, written, holders, taken, late, monitor, verdict>>

EndOfStream(s) ==
    /\ reader[s] = "reading"
    /\ holders[s] = {} /\ taken[s] = written[s]
    /\ reader' = [reader EXCEPT ![s] = "whole"]
    /\ UNCHANGED <<cancelled, watched, program, written, holders, taken, late, monitor, verdict>>

ReadFails(s) ==
    /\ reader[s] = "reading"
    /\ "monitor" \in ProcessFaults
    /\ reader' = [reader EXCEPT ![s] = "Io"]
    /\ UNCHANGED <<cancelled, watched, program, written, holders, taken, late, monitor, verdict>>

-----------------------------------------------------------------------------
(* The program, and the time.                                              *)

\* a write to a stream that is read by no one fails
Write(s) ==
    /\ holders[s] # {} /\ reader[s] = "reading"
    /\ written[s] < MaxOutput
    /\ written' = [written EXCEPT ![s] = @ + 1]
    /\ UNCHANGED <<cancelled, watched, program, holders, reader, taken, late, monitor, verdict>>

\* a process that inherits both streams
StartChild ==
    /\ "child" \in ProcessFaults
    /\ program = "running" /\ holders["stdout"] = {"program"}
    /\ holders' = [s \in Streams |-> holders[s] \union {"child"}]
    /\ UNCHANGED <<cancelled, watched, program, written, reader, taken, late, monitor, verdict>>

ChildEnds ==
    /\ \E s \in Streams : "child" \in holders[s]
    /\ holders' = [s \in Streams |-> holders[s] \ {"child"}]
    /\ UNCHANGED <<cancelled, watched, program, written, reader, taken, late, monitor, verdict>>

Exit ==
    /\ program = "running"
    /\ \/ program' = "succeeded"
       \/ "exit" \in ProcessFaults /\ program' = "exitedWithError"
    /\ holders' = [s \in Streams |-> holders[s] \ {"program"}]
    /\ UNCHANGED <<cancelled, watched, written, reader, taken, late, monitor, verdict>>

TimeIsOver ==
    /\ monitor = "poll"
    /\ ~late
    /\ late' = TRUE
    /\ UNCHANGED <<cancelled, watched, program, written, holders, reader, taken, monitor, verdict>>

\* the caller, its readers and the clock, which are fair
RunStep ==
    \/ Spawn \/ SpawnFails \/ ReaderIsNotStarted \/ Poll \/ Kill \/ JoinReaders \/ TimeIsOver
    \/ \E s \in Streams : Read(s) \/ EndOfStream(s) \/ ReadFails(s)

\* the program, which need not end
ProgramStep == StartChild \/ ChildEnds \/ Exit \/ \E s \in Streams : Write(s)

ProcessNext == RunStep \/ ProgramStep

-----------------------------------------------------------------------------
ProcessTypeOK ==
    /\ cancelled \in BOOLEAN
    /\ watched \in BOOLEAN
    /\ program \in Programs
    /\ written \in [Streams -> Nat]
    /\ holders \in [Streams -> SUBSET {"program", "child"}]
    /\ reader \in [Streams -> Readers]
    /\ taken \in [Streams -> Nat]
    /\ late \in BOOLEAN
    /\ monitor \in Monitors
    /\ verdict \in Verdicts

(* An exit is answered only with everything that was written to the two        *)
(* streams, by the program or by a process it left behind, within the limit;   *)
(* and an error leaves no program behind, unless a thread could not be started *)
(* (run_bounded_process_cancellable).                                          *)
OutputIsWhole ==
    monitor = "answered" =>
        /\ verdict \in Exits =>
               /\ program = verdict
               /\ \A s \in Streams : /\ holders[s] = {}
                                     /\ taken[s] = written[s]
                                     /\ taken[s] =< OutputLimit
        /\ program = "running" => verdict = "panic"
=============================================================================
