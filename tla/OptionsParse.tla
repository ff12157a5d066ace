----------------------------- MODULE OptionsParse -----------------------------
(***************************************************************************)
(* The command line parser (src/options/parse.go: Parse, remainder).       *)
(*                                                                         *)
(* Parse walks the arguments with an index i: an empty argument is         *)
(* skipped, the first one not starting with '-' ends the options, "--"     *)
(* ends them and is dropped, -c and -p may take the next argument as their *)
(* value.  What is left is joined into CmdLine, and a client gets log      *)
(* files named after the port.  Each loop iteration is one step.           *)
(*                                                                         *)
(* An argument is a string from Tokens; DashTokens are those whose first   *)
(* byte is '-'.  CmdLine is kept as the sequence remainder joins           *)
(* (EscapeArg is not under src/), a log name as the pair of its prefix and *)
(* the port.                                                               *)
(***************************************************************************)
EXTENDS Naturals, Sequences, FiniteSets

CONSTANTS
    Tokens,       \* the arguments a command line may contain
    DashTokens,   \* those starting with '-'
    MaxArgs,      \* the longest command line
    DefaultPort   \* Port before Parse

ASSUME DashTokens \subseteq Tokens /\ "" \notin DashTokens

VARIABLES
    args,         \* the command line
    i,            \* the loop index
    stopped,      \* the loop has ended
    o,            \* the option variables: client, repl, port, unattended, version, help
    CmdLine,      \* the arguments after the options
    Errlog,       \* the error log name, <<>> until set
    Outlog,       \* the output log name, <<>> until set
    panicked,     \* Parse panicked on an index out of range
    applied,      \* (ghost) indices whose argument was taken as an option
    valued        \* (ghost) indices whose argument was taken as a value

vars == <<args, i, stopped, o, CmdLine, Errlog, Outlog, panicked, applied, valued>>

-----------------------------------------------------------------------------

\* arg[0] == '-' for a non-empty argument.
Dash(a) == a \in DashTokens

\* -c reads args[i+1][0], which is out of range for "".
ClientPanics == i + 1 <= Len(args) /\ args[i + 1] = ""

\* -c: the local host, or the next argument if it does not start with '-'.
ClientAt ==
    IF i + 1 <= Len(args) /\ ~Dash(args[i + 1])
    THEN [j |-> i + 1, o |-> [o EXCEPT !.client = args[i + 1]], v |-> {i + 1}]
    ELSE [j |-> i, o |-> [o EXCEPT !.client = "127.0.0.1"], v |-> {}]

\* Variant of PortAt that reads the value without stepping over it.
PortAtNoSkip ==
    IF i + 1 <= Len(args)
    THEN [j |-> i, o |-> [o EXCEPT !.port = args[i + 1]], v |-> {i + 1}]
    ELSE [j |-> i, o |-> o, v |-> {}]

\* Variant of PortAt that steps over a value even when there is none.
PortAtAlwaysSkip ==
    IF i + 1 <= Len(args)
    THEN [j |-> i + 1, o |-> [o EXCEPT !.port = args[i + 1]], v |-> {i + 1}]
    ELSE [j |-> i + 1, o |-> o, v |-> {}]

\* -p: the next argument, if there is one, is the port.
PortAt ==
    IF i + 1 <= Len(args)
    THEN [j |-> i + 1, o |-> [o EXCEPT !.port = args[i + 1]], v |-> {i + 1}]
    ELSE [j |-> i, o |-> o, v |-> {}]

\* The switch on the option a at i: the index it leaves i at (before the
\* loop's i++), the options it sets and the indices it reads as values.
OptionAt(a) ==
    CASE a \in {"-c", "-client"}     -> ClientAt
      [] a \in {"-p", "-port"}       -> PortAt
      [] a \in {"-r", "-repl"}       -> [j |-> i, o |-> [o EXCEPT !.repl = TRUE], v |-> {}]
      [] a \in {"-u", "-unattended"} -> [j |-> i, o |-> [o EXCEPT !.unattended = TRUE], v |-> {}]
      [] a \in {"-v", "-version"}    -> [j |-> i, o |-> [o EXCEPT !.version = TRUE], v |-> {}]
      [] OTHER                       -> [j |-> i, o |-> [o EXCEPT !.help = TRUE], v |-> {}]

\* After the loop, from index j: CmdLine = remainder(args[j:]), and a
\* client's log files are named after the port.
Finish(j) ==
    /\ stopped' = TRUE
    /\ CmdLine' = SubSeq(args, j, Len(args))
    /\ IF o.client # ""
       THEN Errlog' = <<"error", o.port>> /\ Outlog' = <<"output", o.port>>
       ELSE UNCHANGED <<Errlog, Outlog>>
    /\ UNCHANGED <<i, o, panicked, applied, valued>>

\* The loop ends: at the end of args, or at a non-option (break).
Stop ==
    /\ ~stopped
    /\ \/ i > Len(args) /\ Finish(i)
       \/ i <= Len(args) /\ args[i] # "" /\ ~Dash(args[i]) /\ Finish(i)
    /\ UNCHANGED args

\* case "--": i++ and break loop; the rest is the command line.
EndOfOptions ==
    /\ ~stopped
    /\ i <= Len(args)
    /\ args[i] = "--"
    /\ Finish(i + 1)
    /\ UNCHANGED args

\* An empty argument: continue.
SkipEmpty ==
    /\ ~stopped
    /\ i <= Len(args)
    /\ args[i] = ""
    /\ i' = i + 1
    /\ UNCHANGED <<args, stopped, o, CmdLine, Errlog, Outlog, panicked, applied, valued>>

\* An option: the switch, then i++.
Option ==
    /\ ~stopped
    /\ i <= Len(args)
    /\ Dash(args[i])
    /\ args[i] # "--"
    /\ ~(args[i] \in {"-c", "-client"} /\ ClientPanics)
    /\ LET r == OptionAt(args[i])
       IN /\ i' = r.j + 1
          /\ o' = r.o
          /\ valued' = valued \cup r.v
    /\ applied' = applied \cup {i}
    /\ UNCHANGED <<args, stopped, CmdLine, Errlog, Outlog, panicked>>

\* -c followed by "": the index panics and Parse never returns.
ClientPanic ==
    /\ ~stopped
    /\ i <= Len(args)
    /\ args[i] \in {"-c", "-client"}
    /\ ClientPanics
    /\ panicked' = TRUE
    /\ stopped' = TRUE
    /\ UNCHANGED <<args, i, o, CmdLine, Errlog, Outlog, applied, valued>>

Init ==
    /\ args \in UNION {[1 .. n -> Tokens] : n \in 0 .. MaxArgs}
    /\ i = 1
    /\ stopped = FALSE
    /\ o = [client |-> "", repl |-> FALSE, port |-> DefaultPort,
            unattended |-> FALSE, version |-> FALSE, help |-> FALSE]
    /\ CmdLine = <<>>
    /\ Errlog = <<>>
    /\ Outlog = <<>>
    /\ panicked = FALSE
    /\ applied = {}
    /\ valued = {}

Next ==
    \/ Stop \/ EndOfOptions \/ SkipEmpty \/ Option \/ ClientPanic
    \/ stopped /\ UNCHANGED vars

Spec == Init /\ [][Next]_vars

-----------------------------------------------------------------------------
(* Properties.                                                             *)

TypeOK ==
    /\ i \in 1 .. Len(args) + 1
    /\ o.port \in Tokens \cup {DefaultPort}
    /\ applied \cup valued \subseteq 1 .. Len(args)

\* Parse never panics, whatever the command line.
NoPanic == ~panicked

\* Every argument before CmdLine is used once: as an option, as the value
\* of the -c or -p just before it, as a skipped "" or as the "--" that
\* ends the options; an argument read as a value is never also applied
\* as an option, and CmdLine is exactly the arguments after them.
ArgsAccounted ==
    stopped /\ ~panicked =>
        LET n == Len(args) - Len(CmdLine)
        IN /\ CmdLine = SubSeq(args, n + 1, Len(args))
           /\ applied \cap valued = {}
           /\ \A j \in valued : j - 1 \in applied /\ args[j - 1] \in {"-c", "-client", "-p", "-port"}
           /\ \A j \in 1 .. n :
                j \in applied \cup valued \/ args[j] = "" \/ (j = n /\ args[j] = "--")

=============================================================================
