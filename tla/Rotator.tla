------------------------------- MODULE Rotator -------------------------------
(***************************************************************************)
(* The rotating log file (internal/logging/rotate.go) of the one process   *)
(* that has a --log-file: on macOS the service. The files are path, path.1 *)
(* and so on, the oldest last. Write holds r.mu from the size test to the  *)
(* end; a rotation is several system calls, any of which may fail or be    *)
(* the last one of the process. A failed one leaves a closed file behind,  *)
(* and every later line is lost.                                           *)
(***************************************************************************)
EXTENDS Syscalls, SequencesExt

CONSTANTS
    Logger,       \* the process that has a log file
    Backups,      \* 3 in the code
    Limit,        \* bytes: 10 MiB in the code
    Length,       \* of each line, in the order in which they are written
    MaxLines,     \* bound: lines written
    Keep          \* bytes that rotation never gives up

VARIABLES
    there,        \* numbers of the files that exist; 0 is the current one
    text,         \* what each of them holds
    open, size,   \* r.file is open; r.size
    turn,         \* how far a rotation has come, 0 outside one
    line,         \* the line that is being written
    lines         \* lines so far

logvars == <<there, text, open, size, turn, line, lines>>

Files == 0..Backups
Line == [id : 1..MaxLines, len : Nat]
NoLine == [id |-> 0, len |-> 0]

(* The bytes of some lines, one by one: a line and a place in it.            *)
Bytes(s) == Cardinality(UNION { {i} \X (1..s[i].len) : i \in DOMAIN s })

(* The log as a reader sees it, the oldest file first.                       *)
Joined(t) == LET from[i \in Files] == IF i = 0 THEN t[0] ELSE t[i] \o from[i - 1]
             IN from[Backups]
Log == INSTANCE AppendLog WITH log <- Joined(text)

-----------------------------------------------------------------------------
(* Open: the file is created, or continued at its end.                       *)
SizeZero == 0                              \* Mutant: what the file holds is not counted
SizeFound == Bytes(text[0])

OpenLog(p) ==
    /\ \/ /\ p # Logger /\ NoFault
          /\ Goto(p, "openLog", "new")
          /\ UNCHANGED logvars
       \/ /\ p = Logger /\ NoFault
          /\ Goto(p, "openLog", "new")
          /\ there' = there \cup {0}
          /\ open' = TRUE /\ size' = SizeFound
          /\ UNCHANGED <<text, turn, line, lines>>
       \/ /\ p = Logger /\ Fault
          /\ Goto(p, "openLog", "idle")
          /\ UNCHANGED logvars

(* Write, up to the size test. The daemon logs while it runs.                *)
WriteLine ==
    /\ at[Logger] = "running" /\ turn = 0 /\ lines < MaxLines
    /\ LET n == Length[lines + 1] IN
       /\ lines' = lines + 1
       /\ line' = [id |-> lines + 1, len |-> n]
       /\ \/ open /\ size + n > Limit /\ open' = FALSE /\ turn' = 1
          \/ open /\ size + n <= Limit /\ turn' = Backups + 2 /\ UNCHANGED open
          \/ ~open /\ turn' = 0 /\ UNCHANGED open
    /\ UNCHANGED <<there, text, size>>

GiveUp == turn' = 0 /\ UNCHANGED <<there, text, open, size>>

(* The renames, from the oldest file on; a file that is missing is no error. *)
OrderUp == [k \in 1..Backups |-> k]        \* Mutant: from the newest file on
Order == [k \in 1..Backups |-> Backups + 1 - k]

Rename ==
    /\ turn \in 1..Backups
    /\ LET dst == Order[turn]
           src == dst - 1
       IN \/ /\ src \in there /\ NoFault
             /\ there' = (there \ {src}) \cup {dst}
             /\ text' = [text EXCEPT ![dst] = text[src], ![src] = <<>>]
             /\ turn' = turn + 1 /\ UNCHANGED <<open, size>>
          \/ /\ src \notin there /\ NoFault
             /\ turn' = turn + 1 /\ UNCHANGED <<there, text, open, size>>
          \/ Fault /\ GiveUp
    /\ UNCHANGED <<line, lines>>

OpenNew ==
    /\ turn = Backups + 1
    /\ \/ /\ 0 \notin there /\ NoFault
          /\ there' = there \cup {0}
          /\ open' = TRUE /\ size' = 0
          /\ turn' = Backups + 2 /\ UNCHANGED text
       \/ /\ (0 \in there /\ NoFault) \/ Fault
          /\ GiveUp
    /\ UNCHANGED <<line, lines>>

(* The line itself; a failed write may leave a part of it.                   *)
Put ==
    /\ turn = Backups + 2
    /\ \E n \in 0..line.len :
       /\ IF n = line.len THEN NoFault ELSE Fault
       /\ text' = IF n = 0 THEN text ELSE [text EXCEPT ![0] = Append(@, [line EXCEPT !.len = n])]
       /\ size' = size + n
    /\ turn' = 0
    /\ UNCHANGED <<there, open, line, lines>>

RotatorStep == ((WriteLine /\ NoFault) \/ Rename \/ OpenNew \/ Put) /\ UNCHANGED at

(* The deferred Close waits for a write that is under way.                   *)
CloseLog(p) ==
    /\ Goto(p, "closeLog", "idle") /\ NoFault
    /\ p = Logger => turn = 0
    /\ open' = (open /\ p # Logger)
    /\ UNCHANGED <<there, text, size, turn, line, lines>>

RotatorDies(p) ==
    /\ open' = (open /\ p # Logger)
    /\ turn' = IF p = Logger THEN 0 ELSE turn
    /\ UNCHANGED <<there, text, size, line, lines>>

RotatorFirst ==
    /\ there = {} /\ text = [i \in Files |-> <<>>]
    /\ open = FALSE /\ size = 0 /\ turn = 0 /\ line = NoLine /\ lines = 0
=============================================================================
