------------------------------ MODULE CommandLine ------------------------------
(***************************************************************************)
(* The batch command of the command line (crates/rdap-cli): arguments and  *)
(* the configuration file decide the format and the concurrency, the lines *)
(* of a file become queries, and the results of the batch executor are     *)
(* printed as they arrive.  Its batch is Batch: run_batch is the consumer. *)
(* A behaviour is such a launch, or a batch of another caller ("library").  *)
(*                                                                         *)
(* A line is a record: "mark" says what parse_query looks at, "reads"      *)
(* whether the rest is the number or address the mark announces.           *)
(***************************************************************************)
EXTENDS Batch, Ordered

CONSTANTS
    Files,           \* contents of the query file: sequences of lines
    Settings,        \* contents of ~/.rdapify/config.toml
    AskedConcurrency \* values of --concurrency

Marks == {"ip", "asn", "ns", "domain", "blank", "comment"}

ASSUME FilesAssumption == Files \subseteq Seq([mark : Marks, reads : BOOLEAN])

Unreadable == <<[mark |-> "unreadable", reads |-> FALSE]>>
Formats == {"json", "text", "csv", "pretty"}
NoFormat == "none"
NoConcurrency == -1

VARIABLES
    launch,     \* arguments and surroundings; NoLaunch once they are used
    phase,
    format,
    header,     \* whether the CSV header is on stdout
    rows,       \* results on stdout
    ok_count, err_count,
    exit        \* exit code

cli == <<launch, phase, format, header, rows, ok_count, err_count, exit>>
cliVars == <<vars, cli>>
NoLaunch == [file |-> <<>>]

-----------------------------------------------------------------------------
(* load_cli_config: the file counts as a whole or not at all. *)
Defaults == [format |-> NoFormat, concurrency |-> 50]

load_cli_config(settings) ==
    IF settings.readable /\ settings.concurrency # NoConcurrency
    THEN [format |-> settings.format, concurrency |-> settings.concurrency]
    ELSE Defaults

(* The first flag in this order, then the setting. *)
Priority == <<"json", "text", "csv", "pretty">>

resolve_format(flags, preferred) ==
    IF flags # {}
    THEN Priority[CHOOSE i \in 1 .. 4 : /\ Priority[i] \in flags
                                       /\ \A j \in 1 .. i - 1 : Priority[j] \notin flags]
    ELSE IF preferred \in Formats THEN preferred ELSE "pretty"

(* 50 given by hand is taken for the default of the flag. *)
ResolvedConcurrency(flag, cfg) == IF flag = 50 THEN cfg.concurrency ELSE flag

(* BatchExecutor clamps the concurrency to 1. *)
PoolOf(l) ==
    LET c == ResolvedConcurrency(l.concurrency, load_cli_config(l.settings))
    IN  IF c = 0 THEN 1 ELSE c

(* A mark whose rest does not read makes the line a domain name. *)
parse_query(line) ==
    CASE line.mark \in {"ip", "asn"} /\ line.reads -> line.mark
      [] line.mark = "ns" -> "ns"
      [] OTHER -> "domain"

IsQuery(line) == line.mark \notin {"blank", "comment"}
Queries(file) ==
    LET lines == Filtered(file, {i \in DOMAIN file : IsQuery(file[i])})
    IN  [i \in DOMAIN lines |-> parse_query(lines[i])]

(* Total is what the file asks for, and the pool what the launch asks for. *)
Launches ==
    {l \in [flags : SUBSET Formats, settings : Settings, concurrency : AskedConcurrency,
            file : Files \cup {Unreadable}, builds : BOOLEAN] : PoolOf(l) = Concurrency}

LaunchInit ==
    /\ Init
    /\ header = FALSE /\ rows = 0 /\ ok_count = 0 /\ err_count = 0 /\ exit = 0
    /\ \/ phase = "library" /\ launch = NoLaunch /\ format = "pretty"
       \/ /\ phase = "launched" /\ ~ordered
          /\ launch \in Launches
          /\ format = resolve_format(launch.flags, load_cli_config(launch.settings).format)

-----------------------------------------------------------------------------
Exit(code) == exit' = code /\ phase' = "exited"

(* The file is read before the client is built. *)
RefuseFile ==
    /\ phase = "launched" /\ launch.file = Unreadable
    /\ Exit(1)
    /\ UNCHANGED <<vars, launch, format, header, rows, ok_count, err_count>>

NothingToDo ==
    /\ phase = "launched" /\ launch.file # Unreadable /\ Queries(launch.file) = <<>>
    /\ Exit(0)
    /\ UNCHANGED <<vars, launch, format, header, rows, ok_count, err_count>>

Streams(l) == l.file # Unreadable /\ Queries(l.file) # <<>>

RefuseClient ==
    /\ phase = "launched" /\ Streams(launch) /\ ~launch.builds
    /\ Exit(1)
    /\ UNCHANGED <<vars, launch, format, header, rows, ok_count, err_count>>

BeginBatch ==
    /\ phase = "launched" /\ Streams(launch) /\ launch.builds
    /\ Len(Queries(launch.file)) = Total
    /\ header' = (format = "csv")
    /\ launch' = NoLaunch
    /\ phase' = "streaming"
    /\ UNCHANGED <<vars, format, rows, ok_count, err_count, exit>>

(* print_batch_item prints to stdout; print_batch_error does so in the       *)
(* formats for machines, and to stderr otherwise.                            *)
OnStdout(failed) == ~failed \/ format \in {"json", "csv"}

(* Mutant: the command stops at the first error. *)
ReportUntilError ==
    LET failed == Head(channel) \in Failing IN
    /\ phase = "streaming" /\ Receive(None)
    /\ rows' = IF OnStdout(failed) THEN rows + 1 ELSE rows
    /\ err_count' = IF failed THEN err_count + 1 ELSE err_count
    /\ ok_count' = IF failed THEN ok_count ELSE ok_count + 1
    /\ IF failed THEN Exit(0) ELSE UNCHANGED <<phase, exit>>
    /\ UNCHANGED <<launch, format, header>>

Report ==
    LET failed == Head(channel) \in Failing IN
    /\ phase = "streaming" /\ Receive(None)
    /\ rows' = IF OnStdout(failed) THEN rows + 1 ELSE rows
    /\ err_count' = IF failed THEN err_count + 1 ELSE err_count
    /\ ok_count' = IF failed THEN ok_count ELSE ok_count + 1
    /\ UNCHANGED <<launch, phase, format, header, exit>>

(* The stream is at its end; failed queries do not change the exit code. *)
Summary ==
    /\ phase = "streaming" /\ EndOfStream
    /\ Exit(0)
    /\ UNCHANGED <<launch, format, header, rows, ok_count, err_count>>

Command == RefuseFile \/ NothingToDo \/ RefuseClient \/ BeginBatch \/ Report \/ Summary

BatchRuns == phase \in {"library", "streaming"} /\ Producer /\ UNCHANGED cli
Consumes ==
    /\ \/ phase = "library" /\ (ReceiveNext \/ EndOfStream \/ DropStream)
       \/ phase \in {"library", "streaming"} /\ Handled
    /\ UNCHANGED cli

LaunchNext == Command \/ BatchRuns \/ Consumes

LaunchSpec == LaunchInit /\ [][LaunchNext]_cliVars

-----------------------------------------------------------------------------
(* When the command is over, every query of the file is in the summary once, *)
(* as many have failed as did, in a format for machines each has its row on   *)
(* stdout, and the exit code tells whether the batch was run at all: nothing  *)
(* is printed for a file or a client that is refused.                         *)
CommandReports ==
    phase = "exited" =>
        IF launch = NoLaunch
        THEN /\ exit = 0
             /\ ok_count + err_count = Total /\ err_count = Cardinality(Failing)
             /\ rows = IF format \in {"json", "csv"} THEN Total ELSE ok_count
             /\ producer = "done" /\ errors = err_count
        ELSE /\ ~header /\ rows = 0 /\ dispatched = 0
             /\ exit = 1 <=> (launch.file = Unreadable
                              \/ \E i \in 1 .. Len(launch.file) : IsQuery(launch.file[i]))
=============================================================================
