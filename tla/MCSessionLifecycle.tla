-------------------------- MODULE MCSessionLifecycle --------------------------
(* Instances of SessionLifecycle for TLC.                                   *)
EXTENDS SessionLifecycle, TLC

\* The service lists the receipts of a managed command and sets its deadline.
ManagedCommand == [key |-> "t", mode |-> "managed", deadline |-> NoTime]

\* An explicit command lists them itself and may set the deadline too.
ExplicitCommand == [ManagedCommand EXCEPT !.mode = "explicit"]
DatedCommand == [ExplicitCommand EXCEPT !.deadline = 2]

OneCommand == {ManagedCommand}
ExplicitOnly == {ExplicitCommand}
DatedToo == {ManagedCommand, DatedCommand}

\* An attempt that succeeds with durable evidence, one whose evidence is still on its
\* way, one that lost some of it, and a failure that may be retried.
Durable == [status |-> "completed", durability |-> "durable",
            declaresLoss |-> FALSE, retryable |-> FALSE]
Undecided == [Durable EXCEPT !.durability = "pending"]
Lossy == [Durable EXCEPT !.declaresLoss = TRUE]
RetryableFailure == [status |-> "failed", durability |-> "failed",
                     declaresLoss |-> FALSE, retryable |-> TRUE]

AllResults == {Durable, Undecided, Lossy, RetryableFailure}
NoLoss == {Durable, RetryableFailure}
Answers == {Durable, Undecided}

\* Operation keys are only compared.
OperationSymmetry == Permutations(OperationKeys)
===============================================================================
