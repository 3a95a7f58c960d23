-------------------------------- MODULE MCBatch --------------------------------
(* For TLC: a batch of the command line, a batch of another caller, or a     *)
(* round of availability checks.                                             *)
EXTENDS CommandLine, Availability

Query(mark, reads) == [mark |-> mark, reads |-> reads]
Comment == Query("comment", FALSE)
Blank == Query("blank", FALSE)

MCFiles ==
    {<<>>, <<Blank, Comment>>,
     <<Comment, Query("domain", TRUE), Query("ip", FALSE), Blank, Query("ip", TRUE),
       Query("asn", TRUE), Query("asn", FALSE), Query("ns", TRUE)>>}

MCSettings ==
    [readable : BOOLEAN, format : Formats \cup {NoFormat},
     concurrency : {Concurrency, 50, NoConcurrency}]

MCAskedConcurrency == {Concurrency, 50}
MCAskedLimits == {NoLimit, 0, 3}

everything == <<cliVars, checkVars>>

Idle == "idle"

MCInit ==
    /\ LaunchInit
    /\ \/ CheckInit /\ phase = "library" /\ ordered
       \/ /\ limit = 1 /\ base = 0 /\ tasks = {} /\ available = <<>> /\ panicked = {}
          /\ output = [i \in Checks |-> NoAnswer] /\ said = output
          /\ checking = Idle

MCNext ==
    \/ checking # Idle /\ CheckNext /\ UNCHANGED cliVars
    \/ checking = Idle /\ LaunchNext /\ UNCHANGED checkVars

(* The fairness of Batch, for whoever runs it; and the command goes on. *)
MCSpec ==
    /\ MCInit /\ [][MCNext]_everything
    /\ WF_everything(checking = Idle /\ BatchRuns /\ UNCHANGED checkVars)
    /\ WF_everything(checking = Idle /\ phase = "library" /\ ReceiveNext /\ UNCHANGED <<cli, checkVars>>)
    /\ WF_everything(checking = Idle /\ Command /\ UNCHANGED checkVars)
    /\ WF_everything(checking = Idle /\ Handled /\ UNCHANGED <<cli, checkVars>>)
=============================================================================
