--------------------------- MODULE SessionLifecycle ---------------------------
(***************************************************************************)
(* The lifecycle core of BKN Trace (sessionsvc/service.go over the MariaDB *)
(* session store): conversations, their interactions, the operations an    *)
(* interaction calls, one receipt per attempt, and the revisions that seal *)
(* what is known of the evidence.                                          *)
(*                                                                         *)
(* Every mutating call is one database transaction that locks the          *)
(* conversation row before it reads anything else, so a call is one        *)
(* action.  What does not serialise is time: tx.Now() is read when the     *)
(* transaction begins, before it waits for the lock, so an action sees a   *)
(* clock that may be up to MaxLockWait old.  A pass of the reaper is not   *)
(* one action: it lists candidates from a snapshot and locks them later,   *)
(* one by one; what it does to one takes effect where that one is locked.  *)
(*                                                                         *)
(* Random identifiers are named by the unique key the schema gives their   *)
(* row: a conversation by its key and generation, an interaction by its    *)
(* ordinal, an operation by its operation key, a receipt by its attempt.   *)
(* A call that is refused, or answered from an earlier one without a       *)
(* write, changes no row and is not an action.  Every interaction keeps    *)
(* the lease token and epoch it was started with, so the token check is    *)
(* the check that the caller is the one who started the interaction.       *)
(***************************************************************************)
EXTENDS Integers, Sequences, FiniteSets

CONSTANTS
    Keys,                \* owner and external conversation key
    RequestKeys,         \* idempotency keys of CreateNewGeneration
    StartKeys,           \* idempotency keys of StartInteraction
    Commands,            \* terminal commands of clients, see NoCommand
    OperationKeys,
    AgentNames,          \* agent_name of StartInteraction, Undeclared included
    Undeclared,
    Inputs,              \* modes of an operation's input envelope
    Results,             \* how attempts finish, see FinishOperationAttempt
    Outcomes,            \* terminal statuses callers ask for
    OneShots,            \* whether conversations are one-shot: a set of BOOLEAN
    SystemPartial,       \* whether collection may be unlicensed: a set of BOOLEAN
    Claims,              \* whether a manifest has claims: a set of BOOLEAN
    MaxOperationsPerInteraction,
    LeaseDurations,      \* leases a start may ask for
    RenewalDuration,     \* lease given by every accepted operation call
    AssemblyTimeout,
    IdleTTL,
    MaxLockWait,         \* how old tx.Now() may be once the locks are held
    Replicas,            \* processes that run the reaper
    MaxGenerations,      \* bound: conversations per key
    MaxOrdinals,         \* bound: interactions per conversation
    MaxAttempts,         \* bound: attempts per operation
    MaxLeaseVersion,     \* bound: replayed calls renew the lease only below it
    LastCall,            \* bound: no call is made after it
    MaxClock,            \* bound: the clock stops there
    NoTime

ConversationIds == Keys \X (1..MaxGenerations)
InteractionIds == ConversationIds \X (1..MaxOrdinals)
OperationIds == InteractionIds \X OperationKeys
ReceiptIds == OperationIds \X (1..MaxAttempts)

ASSUME SessionAssumption ==
    /\ MaxGenerations \in Nat /\ MaxOrdinals \in Nat /\ MaxAttempts \in Nat \ {0}
    /\ MaxLeaseVersion \in Nat /\ LastCall \in Nat /\ MaxClock \in Nat
    /\ LeaseDurations \subseteq Nat \ {0}
    /\ RenewalDuration \in Nat \ {0}
    /\ AssemblyTimeout \in Nat
    /\ IdleTTL \in Nat
    /\ MaxLockWait \in Nat
    /\ MaxOperationsPerInteraction \in Nat
    /\ IsFiniteSet(OperationKeys)
    /\ Results \subseteq [status : {"completed", "failed"},
                          durability : {"pending", "durable", "failed"},
                          declaresLoss : BOOLEAN, retryable : BOOLEAN]
    /\ OneShots \subseteq BOOLEAN /\ SystemPartial \subseteq BOOLEAN /\ Claims \subseteq BOOLEAN
    /\ Commands \subseteq [key : STRING, mode : {"explicit", "managed"},
                           deadline : Nat \union {NoTime}]
    /\ \A command \in Commands :
          command.mode = "managed" => command.deadline = NoTime
    /\ Undeclared \in AgentNames
    /\ Inputs \subseteq {"inline", "referenced", "omitted"}
    /\ Outcomes \subseteq {"completed", "failed", "canceled", "handed_off", "abandoned"}
    /\ NoTime \notin Nat

VARIABLES
    clock,
    conversation,   \* rows of bkn_trace_conversations
    requested,      \* generation a CreateNewGeneration request made, 0 when unused
    interaction,    \* rows of bkn_trace_interactions
    operation,      \* rows of bkn_trace_operations
    receipt,        \* rows of bkn_trace_receipts
    revisions,      \* assembly revisions of an interaction, oldest first
    outbox,         \* newest projection appended for each aggregate
    executions,     \* history: how often a caller was told to execute an attempt
    reaper          \* candidates a reaper listed and has not revisited

rows == <<conversation, requested, interaction, operation, receipt, revisions,
          outbox, executions>>
vars == <<clock, rows, reaper>>

-------------------------------------------------------------------------------
(* Rows.                                                                   *)

NoConversation ==
    [status |-> "absent", oneShot |-> FALSE, agent |-> Undeclared,
     updatedAt |-> 0, rowVersion |-> 0]

NoManifest == [receipts |-> <<>>, deadline |-> NoTime,
               systemPartial |-> FALSE, claims |-> FALSE]

\* What identifies the terminal command that won: its key, and the deadline the
\* client itself asked for (the rest of the command is in the row).
NoCommand == [key |-> "none", mode |-> "none", deadline |-> NoTime]

NoInteraction ==
    [status |-> "absent", evidence |-> "not_applicable", startKey |-> "none",
     leaseExpiresAt |-> 0, leaseVersion |-> 0, rowVersion |-> 0,
     manifest |-> NoManifest, command |-> NoCommand]

NoOperation ==
    [attempt |-> 0, status |-> "absent", retryable |-> FALSE,
     input |-> "inline", rowVersion |-> 0]

NoReceipt ==
    [status |-> "absent", durability |-> "pending", required |-> FALSE,
     partial |-> FALSE, artifact |-> FALSE, rowVersion |-> 0]

\* The fields of a row that readers of the projection see.
ConversationDoc(row) == [status |-> row.status, rowVersion |-> row.rowVersion]
InteractionDoc(row) == [status |-> row.status, evidence |-> row.evidence,
                        rowVersion |-> row.rowVersion]
OperationDoc(row) == [attempt |-> row.attempt, status |-> row.status,
                      retryable |-> row.retryable, rowVersion |-> row.rowVersion]
ReceiptDoc(row) == [status |-> row.status, durability |-> row.durability,
                    artifact |-> row.artifact, rowVersion |-> row.rowVersion]

Init ==
    /\ clock = 0
    /\ conversation = [c \in ConversationIds |-> NoConversation]
    /\ requested = [k \in Keys |-> [q \in RequestKeys |-> 0]]
    /\ interaction = [i \in InteractionIds |-> NoInteraction]
    /\ operation = [o \in OperationIds |-> NoOperation]
    /\ receipt = [r \in ReceiptIds |-> NoReceipt]
    /\ revisions = [i \in InteractionIds |-> <<>>]
    /\ outbox = [conversation |-> [c \in ConversationIds |-> ConversationDoc(NoConversation)],
                 interaction |-> [i \in InteractionIds |-> InteractionDoc(NoInteraction)],
                 operation |-> [o \in OperationIds |-> OperationDoc(NoOperation)],
                 receipt |-> [r \in ReceiptIds |-> ReceiptDoc(NoReceipt)]]
    /\ executions = [r \in ReceiptIds |-> 0]
    /\ reaper = [p \in Replicas |-> [pass |-> "idle", now |-> 0, todo |-> {}]]

\* The times tx.Now() can have for a call that gets its locks now.
Nows == IF clock <= LastCall
        THEN {t \in 0..clock : clock - t <= MaxLockWait}
        ELSE {}

Active(i) == interaction[i].status = "active"
Terminal(i) == interaction[i].status \notin {"absent", "active"}
HasActiveInteraction(c) == \E n \in 1..MaxOrdinals : Active(<<c, n>>)

Generations(k) == {g \in 1..MaxGenerations : conversation[<<k, g>>].status # "absent"}
Ordinals(c) == {n \in 1..MaxOrdinals : interaction[<<c, n>>].status # "absent"}
Operations(i) == {o \in OperationIds : o[1] = i /\ operation[o].status # "absent"}
Receipts(i) == {r \in ReceiptIds : r[1][1] = i /\ receipt[r].status # "absent"}
Current(o) == <<o, operation[o].attempt>>

\* FindCurrentConversation (ORDER BY generation DESC) and MAX(...) + 1.
Newest(k, g) ==
    /\ conversation[<<k, g>>].status # "absent"
    /\ \A h \in 1..MaxGenerations : h > g => conversation[<<k, h>>].status = "absent"

NextGeneration(k, g) ==
    /\ \A h \in 1..MaxGenerations : h >= g => conversation[<<k, h>>].status = "absent"
    /\ g > 1 => conversation[<<k, g - 1>>].status # "absent"

NextOrdinal(c, n) ==
    /\ \A m \in 1..MaxOrdinals : m >= n => interaction[<<c, m>>].status = "absent"
    /\ n > 1 => interaction[<<c, n - 1>>].status # "absent"

-------------------------------------------------------------------------------
(* Conversations.                                                          *)

NewConversation(oneShot, now) ==
    [NoConversation EXCEPT !.status = "active", !.oneShot = oneShot,
                           !.updatedAt = now, !.rowVersion = 1]

Ended(row, status, now) ==
    [row EXCEPT !.status = status, !.updatedAt = now, !.rowVersion = @ + 1]

EnsureCurrentConversation(k, oneShot, now) ==
    /\ \A g \in 1..MaxGenerations :
          Newest(k, g) => conversation[<<k, g>>].status # "active"
    /\ \E g \in 1..MaxGenerations :
          LET row == NewConversation(oneShot, now) IN
          /\ NextGeneration(k, g)
          /\ conversation' = [conversation EXCEPT ![<<k, g>>] = row]
          /\ outbox' = [outbox EXCEPT !.conversation[<<k, g>>] = ConversationDoc(row)]
    /\ UNCHANGED <<clock, requested, interaction, operation, receipt, revisions,
                   executions, reaper>>

\* Fault: the previous generation is closed only when it is one-shot.
MustCloseOneShot(k, g) == g > 1 /\ conversation[<<k, g - 1>>].status = "active"
                                /\ conversation[<<k, g - 1>>].oneShot

MustClose(k, g) == g > 1 /\ conversation[<<k, g - 1>>].status = "active"

\* Fault: the idempotency record names the generation after the one created.
RecordNextGeneration(k, q, g) == requested' = [requested EXCEPT ![k][q] = g + 1]

SaveIdempotency(k, q, g) == requested' = [requested EXCEPT ![k][q] = g]

\* Closes the newest generation if it is still active, then opens the next one.
CreateNewGeneration(k, q, oneShot, now) ==
    /\ requested[k][q] = 0
    /\ \E g \in 1..MaxGenerations :
          LET row == NewConversation(oneShot, now)
              last == <<k, g - 1>>
              closing == MustClose(k, g)
              opened == [conversation EXCEPT ![<<k, g>>] = row]
              shown == [outbox EXCEPT !.conversation[<<k, g>>] = ConversationDoc(row)]
              closed == Ended(conversation[last], "closed", now)
          IN
          /\ NextGeneration(k, g)
          /\ closing => ~HasActiveInteraction(last)
          /\ conversation' = IF closing THEN [opened EXCEPT ![last] = closed] ELSE opened
          /\ outbox' = IF closing
                       THEN [shown EXCEPT !.conversation[last] = ConversationDoc(closed)]
                       ELSE shown
          /\ SaveIdempotency(k, q, g)
    /\ UNCHANGED <<clock, interaction, operation, receipt, revisions, executions, reaper>>

CloseConversation(c, now) ==
    LET row == Ended(conversation[c], "closed", now) IN
    /\ conversation[c].status = "active"
    /\ ~HasActiveInteraction(c)
    /\ conversation' = [conversation EXCEPT ![c] = row]
    /\ outbox' = [outbox EXCEPT !.conversation[c] = ConversationDoc(row)]
    /\ UNCHANGED <<clock, requested, interaction, operation, receipt, revisions,
                   executions, reaper>>

-------------------------------------------------------------------------------
(* Interactions.                                                           *)

\* A start also declares the conversation's agent name when it has none yet.
StartInteraction(c, key, agent, lease, now) ==
    LET declares == conversation[c].agent = Undeclared /\ agent # Undeclared
        named == [conversation[c] EXCEPT !.agent = agent, !.updatedAt = now,
                                         !.rowVersion = @ + 1]
        row == [NoInteraction EXCEPT !.status = "active", !.startKey = key,
                    !.leaseExpiresAt = now + lease, !.leaseVersion = 1,
                    !.rowVersion = 1]
    IN
    /\ conversation[c].status = "active"
    /\ agent # Undeclared => conversation[c].agent \in {Undeclared, agent}
    /\ \A n \in 1..MaxOrdinals : interaction[<<c, n>>].startKey # key
    /\ ~HasActiveInteraction(c)
    /\ \E n \in 1..MaxOrdinals :
          LET i == <<c, n>>
              shown == [outbox EXCEPT !.interaction[i] = InteractionDoc(row)]
          IN
          /\ NextOrdinal(c, n)
          /\ interaction' = [interaction EXCEPT ![i] = row]
          /\ conversation' = IF declares THEN [conversation EXCEPT ![c] = named]
                                         ELSE conversation
          /\ outbox' = IF declares
                       THEN [shown EXCEPT !.conversation[c] = ConversationDoc(named)]
                       ELSE shown
    /\ UNCHANGED <<clock, requested, operation, receipt, revisions, executions, reaper>>

\* Fault: durable evidence counts as complete whatever it lost.
VerdictByDurability(row) ==
    IF ~row.required THEN "neutral"
    ELSE IF row.durability = "pending" THEN "pending"
    ELSE IF row.durability = "failed" THEN "partial"
    ELSE "neutral"

\* A receipt that settles the evidence of a manifest on its own: while it is
\* pending nothing is decided, and what it lost is lost for the interaction.
Verdict(row) ==
    IF ~row.required THEN "neutral"
    ELSE IF row.durability = "pending" THEN "pending"
    ELSE IF row.durability = "failed" \/ row.partial THEN "partial"
    ELSE "neutral"

\* The receipts are consulted in the order of the manifest; the first that is not
\* neutral decides.
EvidenceAtTermination(manifest, rcpts, now) ==
    LET decisive == {n \in DOMAIN manifest.receipts :
                        Verdict(rcpts[manifest.receipts[n]]) # "neutral"}
        first == CHOOSE n \in decisive : \A m \in decisive : n <= m
    IN
    IF manifest.systemPartial THEN "partial"
    ELSE IF manifest.receipts = <<>> /\ ~manifest.claims THEN "not_applicable"
    ELSE IF decisive = {} THEN "complete"
    ELSE IF Verdict(rcpts[manifest.receipts[first]]) = "pending"
            /\ (manifest.deadline = NoTime \/ manifest.deadline > now)
         THEN "assembling"
         ELSE "partial"

\* The receipts of an interaction in the order of their random identifiers, or in
\* the order the client wrote them.
Orders(S) ==
    {f \in [1..Cardinality(S) -> S] : \A r \in S : \E n \in DOMAIN f : f[n] = r}

HasRequiredPendingReceipt(S) ==
    \E r \in S : receipt[r].required /\ receipt[r].durability = "pending"

Revision(evidence, trigger) == [completeness |-> evidence, trigger |-> trigger]

\* Fault: only complete evidence is sealed.
SealComplete(i, row, sealing, trigger) ==
    revisions' = IF sealing /\ row.evidence = "complete"
                 THEN [revisions EXCEPT ![i] = Append(@, Revision(row.evidence, trigger))]
                 ELSE revisions

\* freezeAssemblyRevision, when the evidence is decided.
Seal(i, row, sealing, trigger) ==
    revisions' = IF sealing
                 THEN [revisions EXCEPT ![i] = Append(@, Revision(row.evidence, trigger))]
                 ELSE revisions

\* Fault: the end of the conversation is not projected.
EndUnprojected(c, closing, shown, now) ==
    /\ conversation' = IF closing
          THEN [conversation EXCEPT ![c] = Ended(@, "closed", now)] ELSE conversation
    /\ outbox' = shown

\* The conversation of an interaction that ended goes with it when closing holds.
EndConversation(c, closing, shown, now) ==
    LET closed == Ended(conversation[c], "closed", now) IN
    /\ conversation' = IF closing
          THEN [conversation EXCEPT ![c] = closed] ELSE conversation
    /\ outbox' = IF closing
          THEN [shown EXCEPT !.conversation[c] = ConversationDoc(closed)] ELSE shown

\* The interaction ends: its row, its revision, and its conversation with it.
Finish(i, row, sealing, trigger, closing, now) ==
    /\ interaction' = [interaction EXCEPT ![i] = row]
    /\ Seal(i, row, sealing, trigger)
    /\ EndConversation(i[1], closing,
                       [outbox EXCEPT !.interaction[i] = InteractionDoc(row)], now)

\* Fault: only the client's own deadline counts.
AskedDeadline(i, asked, now) == asked

\* The deadline of a manifest: the client's, or one from now if the manifest leaves
\* a required receipt open.
AssemblerDeadline(i, asked, now) ==
    IF asked = NoTime /\ HasRequiredPendingReceipt(Receipts(i))
    THEN now + AssemblyTimeout
    ELSE asked

\* command is the client's: its key, whether it lists the manifest itself
\* ("explicit") or leaves that to the service ("managed"), and its own deadline.
TerminateInteraction(i, status, command, systemPartial, claims, now) ==
    /\ Active(i)
    /\ interaction[i].leaseExpiresAt > now
    /\ \E order \in Orders(Receipts(i)) :
          LET manifest == [receipts |-> order,
                           deadline |-> AssemblerDeadline(i, command.deadline, now),
                           systemPartial |-> systemPartial, claims |-> claims]
              evidence == EvidenceAtTermination(manifest, receipt, now)
              row == [interaction[i] EXCEPT
                         !.status = status, !.evidence = evidence,
                         !.manifest = manifest, !.command = command,
                         !.leaseVersion = @ + 1, !.rowVersion = @ + 1]
              trigger == IF manifest.deadline # NoTime /\ manifest.deadline <= now
                         THEN "deadline" ELSE "completion"
          IN Finish(i, row, evidence \in {"complete", "partial"}, trigger,
                    conversation[i[1]].oneShot, now)
    /\ UNCHANGED <<clock, requested, operation, receipt, executions, reaper>>

\* What decides whether a repeated explicit command is recognised: the manifest is
\* hashed after its deadline was filled in, and the repetition fills in its own.
ExplicitReplayMatches(i, now) ==
    AssemblerDeadline(i, interaction[i].command.deadline, now)
        = interaction[i].manifest.deadline

-------------------------------------------------------------------------------
(* Operations.  Every accepted call renews the lease of its interaction.   *)

\* Fault: whoever holds a live lease may call, also after the interaction ended.
MayCallWithLease(i, now) ==
    /\ conversation[i[1]].status = "active"
    /\ interaction[i].leaseExpiresAt > now

MayCall(i, now) ==
    /\ conversation[i[1]].status = "active"
    /\ Active(i)
    /\ interaction[i].leaseExpiresAt > now

Renewed(i, now) ==
    [interaction[i] EXCEPT !.leaseExpiresAt = now + RenewalDuration,
                           !.leaseVersion = @ + 1, !.rowVersion = @ + 1]

IssuedReceipt(required, artifact) ==
    [NoReceipt EXCEPT !.status = "pending", !.required = required,
                      !.artifact = artifact, !.rowVersion = 1]

\* EnsureOperation, a key the interaction has not seen.
CreateOperation(o, required, input, now) ==
    LET i == o[1]
        op == [NoOperation EXCEPT !.attempt = 1, !.status = "pending",
                                  !.input = input, !.rowVersion = 1]
        rcpt == IssuedReceipt(required, input = "referenced")
        row == [Renewed(i, now) EXCEPT !.evidence = "assembling", !.rowVersion = @ + 1]
    IN
    /\ MayCall(i, now)
    /\ operation[o].status = "absent"
    /\ Cardinality(Operations(i)) < MaxOperationsPerInteraction
    /\ operation' = [operation EXCEPT ![o] = op]
    /\ receipt' = [receipt EXCEPT ![<<o, 1>>] = rcpt]
    /\ interaction' = [interaction EXCEPT ![i] = row]
    /\ executions' = [executions EXCEPT ![<<o, 1>>] = @ + 1]
    /\ outbox' = [outbox EXCEPT !.operation[o] = OperationDoc(op),
                                !.receipt[<<o, 1>>] = ReceiptDoc(rcpt),
                                !.interaction[i] = InteractionDoc(row)]
    /\ UNCHANGED <<clock, conversation, requested, revisions, reaper>>

\* payloadEnvelopeEqual: an omitted input equals nothing, not even itself.
InputMatches(o) == operation[o].input # "omitted"

\* EnsureOperation, a replay: nothing but the lease.
ReplayOperation(o, now) ==
    LET i == o[1] IN
    /\ MayCall(i, now)
    /\ operation[o].status \in {"pending", "completed", "failed"}
    /\ InputMatches(o)
    /\ interaction[i].leaseVersion < MaxLeaseVersion
    /\ interaction' = [interaction EXCEPT ![i] = Renewed(i, now)]
    /\ UNCHANGED <<clock, conversation, requested, operation, receipt, revisions,
                   outbox, executions, reaper>>

\* Fault: an attempt that is being executed can be claimed again.
ClaimableWhileRunning(o) == operation[o].status \in {"ready", "pending"} /\ InputMatches(o)

Claimable(o) == operation[o].status = "ready" /\ InputMatches(o)

\* EnsureOperation, a retry that was made ready: the caller gets it to execute.
\* The receipt takes the input's artifact without a new version or projection.
ClaimReadyAttempt(o, now) ==
    LET i == o[1]
        r == Current(o)
        op == [operation[o] EXCEPT !.status = "pending", !.rowVersion = @ + 1]
    IN
    /\ MayCall(i, now)
    /\ Claimable(o)
    /\ operation' = [operation EXCEPT ![o] = op]
    /\ receipt' = [receipt EXCEPT ![r].artifact = @ \/ op.input = "referenced"]
    /\ interaction' = [interaction EXCEPT ![i] = Renewed(i, now)]
    /\ executions' = [executions EXCEPT ![r] = @ + 1]
    /\ outbox' = [outbox EXCEPT !.operation[o] = OperationDoc(op)]
    /\ UNCHANGED <<clock, conversation, requested, revisions, reaper>>

MayRetry(o) == receipt[Current(o)].status = "failed" /\ operation[o].retryable

StartOperationAttempt(o, now) ==
    LET i == o[1]
        op == [operation[o] EXCEPT !.attempt = @ + 1, !.status = "ready",
                                   !.retryable = FALSE, !.rowVersion = @ + 1]
        next == <<o, op.attempt>>
        rcpt == IssuedReceipt(receipt[Current(o)].required, FALSE)
    IN
    /\ MayCall(i, now)
    /\ operation[o].status # "absent"
    /\ operation[o].attempt < MaxAttempts
    /\ MayRetry(o)
    /\ operation' = [operation EXCEPT ![o] = op]
    /\ receipt' = [receipt EXCEPT ![next] = rcpt]
    /\ interaction' = [interaction EXCEPT ![i] = Renewed(i, now)]
    /\ outbox' = [outbox EXCEPT !.operation[o] = OperationDoc(op),
                                !.receipt[next] = ReceiptDoc(rcpt)]
    /\ UNCHANGED <<clock, conversation, requested, revisions, executions, reaper>>

InManifest(i, r) ==
    \E n \in DOMAIN interaction[i].manifest.receipts : interaction[i].manifest.receipts[n] = r

MayFinish(r) ==
    /\ operation[r[1]].attempt = r[2]
    /\ operation[r[1]].status \notin {"absent", "ready"}
    /\ receipt[r].status = "pending"

\* Fault: what a late receipt makes of the evidence is taken even if it is undecided.
RejudgedAnyway(i, r, evidence) == Terminal(i) /\ InManifest(i, r)

Rejudged(i, r, evidence) ==
    Terminal(i) /\ InManifest(i, r) /\ evidence # "assembling"

\* CompleteOperationAttempt and FailOperationAttempt.  An attempt may finish after
\* its interaction: the evidence is then judged again and, once it is decided,
\* sealed in a further revision.
FinishOperationAttempt(r, result, now) ==
    LET o == r[1]
        i == o[1]
        op == [operation[o] EXCEPT
                  !.status = result.status, !.rowVersion = @ + 1,
                  !.retryable = IF result.status = "failed"
                                THEN result.retryable /\ result.durability = "failed" ELSE @]
        rcpt == [receipt[r] EXCEPT
                  !.status = result.status, !.durability = result.durability,
                  !.artifact = op.input = "referenced",
                  !.partial = result.declaresLoss \/ result.durability = "failed" \/ op.input = "omitted",
                  !.rowVersion = @ + 1]
        rcpts == [receipt EXCEPT ![r] = rcpt]
        evidence == EvidenceAtTermination(interaction[i].manifest, rcpts, now)
        row == [interaction[i] EXCEPT !.evidence = evidence, !.rowVersion = @ + 1]
        shown == [outbox EXCEPT !.operation[o] = OperationDoc(op),
                                !.receipt[r] = ReceiptDoc(rcpt)]
    IN
    /\ Active(i) => interaction[i].leaseExpiresAt > now
    /\ MayFinish(r)
    /\ operation' = [operation EXCEPT ![o] = op]
    /\ receipt' = rcpts
    /\ IF Rejudged(i, r, evidence)
       THEN /\ interaction' = [interaction EXCEPT ![i] = row]
            /\ Seal(i, row, TRUE, "late_receipt")
            /\ outbox' = [shown EXCEPT !.interaction[i] = InteractionDoc(row)]
       ELSE /\ UNCHANGED <<interaction, revisions>>
            /\ outbox' = shown
    /\ UNCHANGED <<clock, conversation, requested, executions, reaper>>

-------------------------------------------------------------------------------
(* The reaper: each pass lists its candidates from a snapshot, then locks   *)
(* and revisits them one by one, with the clock it read when it began.     *)

\* Fault: an interaction that called nothing is not looked at.
ExpiredWithOperations == {i \in InteractionIds :
    Active(i) /\ interaction[i].leaseExpiresAt <= clock /\ Operations(i) # {}}

Expired == {i \in InteractionIds : Active(i) /\ interaction[i].leaseExpiresAt <= clock}

Idle == {c \in ConversationIds :
            /\ conversation[c].status = "active"
            /\ conversation[c].oneShot
            /\ conversation[c].updatedAt + IdleTTL <= clock
            /\ Ordinals(c) = {}}

AssemblyDue == {i \in InteractionIds :
            /\ interaction[i].evidence = "assembling"
            /\ interaction[i].manifest.deadline # NoTime
            /\ interaction[i].manifest.deadline <= clock}

Passes == {"abandon", "expire", "assemble"}

\* A candidate and the lease version it was listed with, 0 where that is not read.
Candidates(pass) ==
    CASE pass = "abandon" -> {<<i, interaction[i].leaseVersion>> : i \in Expired}
      [] pass = "expire" -> {<<c, 0>> : c \in Idle}
      [] pass = "assemble" -> {<<i, 0>> : i \in AssemblyDue}

ReaperList(p, pass) ==
    /\ reaper[p].pass = "idle"
    /\ Candidates(pass) # {}
    /\ reaper' = [reaper EXCEPT ![p] = [pass |-> pass, now |-> clock,
                                        todo |-> Candidates(pass)]]
    /\ UNCHANGED <<clock, rows>>

\* A candidate is done with; the pass ends with its last one.
Revisited(p, candidate) ==
    LET rest == reaper[p].todo \ {candidate} IN
    reaper' = [reaper EXCEPT ![p] =
        IF rest = {} THEN [pass |-> "idle", now |-> 0, todo |-> {}]
                     ELSE [reaper[p] EXCEPT !.todo = rest]]

\* Fault: the revisit trusts the listing as to the lease.
StillActive(i, leaseVersion, now) == Active(i)

StillExpired(i, leaseVersion, now) ==
    /\ Active(i)
    /\ interaction[i].leaseVersion = leaseVersion
    /\ interaction[i].leaseExpiresAt <= now

\* The manifest is derived now, the deadline is now, and whatever is pending counts
\* as lost; a decided evidence is sealed even when there was none to collect.
Abandon(i, now) ==
    \E order \in Orders(Receipts(i)) :
        LET manifest == [NoManifest EXCEPT !.receipts = order,
                !.deadline = IF HasRequiredPendingReceipt(Receipts(i)) THEN now ELSE NoTime]
            evidence == EvidenceAtTermination(manifest, receipt, now)
            row == [interaction[i] EXCEPT
                       !.status = "abandoned", !.evidence = evidence,
                       !.manifest = manifest,
                       !.command = [NoCommand EXCEPT !.key = "lease-expired",
                                                     !.mode = "reaper"],
                       !.leaseVersion = @ + 1, !.rowVersion = @ + 1]
            c == i[1]
        IN Finish(i, row, evidence # "assembling", "lease_expired",
                  conversation[c].oneShot /\ conversation[c].status = "active", now)

AbandonExpiredInteraction(p) ==
    /\ reaper[p].pass = "abandon"
    /\ \E candidate \in reaper[p].todo :
          LET i == candidate[1] IN
          /\ IF StillExpired(i, candidate[2], reaper[p].now)
             THEN Abandon(i, reaper[p].now)
             ELSE UNCHANGED <<conversation, interaction, revisions, outbox>>
          /\ Revisited(p, candidate)
    /\ UNCHANGED <<clock, requested, operation, receipt, executions>>

\* Fault: an interaction that started since the listing is overlooked.
StillUntouched(c, now) ==
    /\ conversation[c].oneShot
    /\ conversation[c].status = "active"
    /\ conversation[c].updatedAt + IdleTTL <= now

StillIdle(c, now) ==
    /\ conversation[c].oneShot
    /\ conversation[c].status = "active"
    /\ conversation[c].updatedAt + IdleTTL <= now
    /\ ~HasActiveInteraction(c)

ExpireIdleConversation(p) ==
    /\ reaper[p].pass = "expire"
    /\ \E candidate \in reaper[p].todo :
          LET c == candidate[1]
              row == Ended(conversation[c], "expired", reaper[p].now)
          IN
          /\ IF StillIdle(c, reaper[p].now)
             THEN /\ conversation' = [conversation EXCEPT ![c] = row]
                  /\ outbox' = [outbox EXCEPT !.conversation[c] = ConversationDoc(row)]
             ELSE UNCHANGED <<conversation, outbox>>
          /\ Revisited(p, candidate)
    /\ UNCHANGED <<clock, requested, interaction, operation, receipt, revisions, executions>>

StillDue(i, now) ==
    /\ interaction[i].evidence = "assembling"
    /\ interaction[i].manifest.deadline # NoTime
    /\ interaction[i].manifest.deadline <= now

AssembleDueInteraction(p) ==
    /\ reaper[p].pass = "assemble"
    /\ \E candidate \in reaper[p].todo :
          LET i == candidate[1]
              row == [interaction[i] EXCEPT !.evidence = "partial", !.rowVersion = @ + 1]
          IN
          /\ IF StillDue(i, reaper[p].now)
             THEN /\ interaction' = [interaction EXCEPT ![i] = row]
                  /\ Seal(i, row, TRUE, "deadline")
                  /\ outbox' = [outbox EXCEPT !.interaction[i] = InteractionDoc(row)]
             ELSE UNCHANGED <<interaction, revisions, outbox>>
          /\ Revisited(p, candidate)
    /\ UNCHANGED <<clock, conversation, requested, operation, receipt, executions>>

Tick ==
    /\ clock < MaxClock
    /\ clock' = clock + 1
    /\ UNCHANGED <<rows, reaper>>

-------------------------------------------------------------------------------
ConversationCall(now) ==
    \/ \E k \in Keys, oneShot \in OneShots :
          \/ EnsureCurrentConversation(k, oneShot, now)
          \/ \E q \in RequestKeys : CreateNewGeneration(k, q, oneShot, now)
    \/ \E c \in ConversationIds : CloseConversation(c, now)

InteractionCall(now) ==
    \/ \E c \in ConversationIds, key \in StartKeys, agent \in AgentNames,
          lease \in LeaseDurations : StartInteraction(c, key, agent, lease, now)
    \/ \E i \in InteractionIds, status \in Outcomes, command \in Commands,
          systemPartial \in SystemPartial, claims \in Claims :
          TerminateInteraction(i, status, command, systemPartial, claims, now)

OperationCall(now) ==
    \/ \E o \in OperationIds :
          \/ \E required \in BOOLEAN, input \in Inputs :
                CreateOperation(o, required, input, now)
          \/ ReplayOperation(o, now)
          \/ ClaimReadyAttempt(o, now)
          \/ StartOperationAttempt(o, now)
    \/ \E r \in ReceiptIds, result \in Results : FinishOperationAttempt(r, result, now)

Reap(p) ==
    \/ \E pass \in Passes : ReaperList(p, pass)
    \/ AbandonExpiredInteraction(p)
    \/ ExpireIdleConversation(p)
    \/ AssembleDueInteraction(p)

Next ==
    \/ \E now \in Nows :
          ConversationCall(now) \/ InteractionCall(now) \/ OperationCall(now)
    \/ \E p \in Replicas : Reap(p)
    \/ Tick

Spec == Init /\ [][Next]_vars

\* The clock never stops, and the reaper's ticker runs its three passes in turn for
\* ever: a pass that finds candidates again and again gets its turn (strong
\* fairness), a listed candidate is revisited.  No caller is obliged to anything.
Fairness ==
    /\ WF_vars(Tick)
    /\ \A p \in Replicas :
          /\ \A pass \in Passes : SF_vars(ReaperList(p, pass))
          /\ WF_vars(AbandonExpiredInteraction(p))
          /\ WF_vars(ExpireIdleConversation(p))
          /\ WF_vars(AssembleDueInteraction(p))

FairSpec == Spec /\ Fairness

-------------------------------------------------------------------------------
(* Properties.                                                             *)

Evidence == {"not_applicable", "assembling", "complete", "partial"}
MaybeTime == Nat \union {NoTime}

ConversationRows ==
    [status : {"absent", "active", "closed", "expired"}, oneShot : BOOLEAN,
     agent : AgentNames, updatedAt : Nat, rowVersion : Nat]

Manifests == [receipts : Seq(ReceiptIds), deadline : MaybeTime,
              systemPartial : BOOLEAN, claims : BOOLEAN]

CommandKeys == {command.key : command \in Commands} \union {"none", "lease-expired"}
Terminations == [key : CommandKeys, mode : {"none", "explicit", "managed", "reaper"},
                 deadline : MaybeTime]

InteractionRows ==
    [status : {"absent", "active", "abandoned"} \union Outcomes, evidence : Evidence,
     startKey : StartKeys \union {"none"}, leaseExpiresAt : Nat, leaseVersion : Nat,
     rowVersion : Nat, manifest : Manifests, command : Terminations]

OperationRows ==
    [attempt : 0..MaxAttempts,
     status : {"absent", "ready", "pending", "completed", "failed"},
     retryable : BOOLEAN, input : Inputs \union {"inline"}, rowVersion : Nat]

ReceiptRows ==
    [status : {"absent", "pending", "completed", "failed"},
     durability : {"pending", "durable", "failed"}, required : BOOLEAN,
     partial : BOOLEAN, artifact : BOOLEAN, rowVersion : Nat]

Revisions == [completeness : Evidence,
              trigger : {"completion", "deadline", "late_receipt", "lease_expired"}]

\* What a pass may have listed.
Listed(pass) == IF pass = "expire" THEN ConversationIds \X Nat ELSE InteractionIds \X Nat
Listings(pass) == [pass : {pass}, now : 0..clock, todo : SUBSET Listed(pass)]

\* Types of the rows and of the reaper's memory; what is read of the clock lies behind it.
TypeOK ==
    /\ clock \in 0..MaxClock
    /\ conversation \in [ConversationIds -> ConversationRows]
    /\ \A c \in ConversationIds : conversation[c].updatedAt <= clock
    /\ requested \in [Keys -> [RequestKeys -> 0..MaxGenerations]]
    /\ interaction \in [InteractionIds -> InteractionRows]
    /\ operation \in [OperationIds -> OperationRows]
    /\ receipt \in [ReceiptIds -> ReceiptRows]
    /\ revisions \in [InteractionIds -> Seq(Revisions)]
    /\ executions \in [ReceiptIds -> Nat]
    /\ DOMAIN reaper = Replicas
    /\ \A p \in Replicas : \E pass \in Passes \union {"idle"} : reaper[p] \in Listings(pass)

\* A key has one current conversation: once a newer generation exists no older one is
\* active, whichever of ensure, new generation, close, one-shot end and expiry ran in
\* between (FindCurrentConversation only ever looks at the newest).
OnlyNewestGenerationActive ==
    \A k \in Keys, g \in 1..MaxGenerations :
        conversation[<<k, g>>].status = "active" => Newest(k, g)

\* An active interaction is the only one of its conversation and its conversation is
\* still active: neither close, nor a new generation, nor the idle pass that listed
\* the conversation earlier may end it underneath (service.go CloseConversation,
\* CreateNewGeneration, ExpireIdleOneShotConversations).
ActiveInteractionIsHosted ==
    \A i \in InteractionIds : Active(i) =>
        /\ conversation[i[1]].status = "active"
        /\ \A n \in 1..MaxOrdinals : Active(<<i[1], n>>) => n = i[2]

\* The reaper abandons an interaction only if its lease has run out as it stands when
\* it is ended: a renewal between the listing and the revisit saves it
\* (AbandonExpiredInteractions compares the lease version).
OnlyLapsedAreAbandoned ==
    [][\A i \in InteractionIds :
          Active(i) /\ interaction'[i].command.mode = "reaper"
            => interaction[i].leaseExpiresAt <= clock]_vars

\* The rows as the readers of a trace see them.
Standing == [c \in ConversationIds |->
    IF conversation[c].status \in {"absent", "active"} THEN conversation[c].status ELSE "over"]
Stage == [i \in InteractionIds |->
    IF Terminal(i) THEN "ended" ELSE interaction[i].status]
Reports == [r \in ReceiptIds |->
    IF receipt[r].status = "absent" THEN "absent" ELSE Verdict(receipt[r])]
Limited == [i \in InteractionIds |-> interaction[i].manifest.systemPartial]
Told == [i \in InteractionIds |-> IF Terminal(i) THEN interaction[i].evidence ELSE "none"]
Recorded == [i \in InteractionIds |->
    [n \in 1..Len(revisions[i]) |-> revisions[i][n].completeness]]

Promise == INSTANCE SessionPromise WITH
    KeyOf <- [c \in ConversationIds |-> c[1]], Host <- [i \in InteractionIds |-> i[1]],
    Owner <- [r \in ReceiptIds |-> r[1][1]],
    conversation <- Standing, interaction <- Stage, report <- Reports,
    limited <- Limited, verdict <- Told, sealed <- Recorded

\* Leases, replays, stale clocks, deadlines and the reaper's old lists, in any order,
\* amount to the promise: the verdict on an interaction's evidence follows from what its
\* receipts say, decisions are never taken back by a late receipt or a passed deadline,
\* and each is sealed (TerminateInteraction, finishOperationAttempt and the reaper).
KeepsPromise == Promise!Spec

\* What readers are told of the evidence is what the newest revision sealed; there is
\* no revision before the end of the interaction and none that is undecided.
DecisionsAreSealed ==
    \A i \in InteractionIds :
        IF ~Terminal(i) THEN revisions[i] = <<>>
        ELSE IF revisions[i] = <<>>
             THEN interaction[i].evidence \in {"assembling", "not_applicable"}
             ELSE interaction[i].evidence = revisions[i][Len(revisions[i])].completeness

\* Complete evidence means that every required receipt of the interaction, not only of
\* its manifest, is finished, durable and without a loss.
CompleteMeansDurable ==
    \A i \in InteractionIds : Terminal(i) /\ interaction[i].evidence = "complete" =>
        \A r \in Receipts(i) : receipt[r].required =>
            /\ receipt[r].status # "pending"
            /\ receipt[r].durability = "durable"
            /\ ~receipt[r].partial

\* The manifest of a terminal interaction lists every receipt it has or will ever have:
\* no operation or attempt slips in behind the end.
ManifestCoversReceipts ==
    \A i \in InteractionIds : Terminal(i) => \A r \in Receipts(i) : InManifest(i, r)

\* A caller is told to execute an attempt exactly once: never while it is only ready,
\* and not again by a replay of the same ensure call.
ExecutedOnce ==
    \A o \in OperationIds, n \in 1..MaxAttempts :
        executions[<<o, n>>] =
            IF n < operation[o].attempt THEN 1
            ELSE IF n = operation[o].attempt /\ operation[o].status \notin {"absent", "ready"}
                 THEN 1 ELSE 0

\* The newest projection of a row says what the row says.  An interaction's lease
\* renewals are not projected, so its version may lag.
ProjectionCurrent ==
    /\ \A c \in ConversationIds :
          outbox.conversation[c] = ConversationDoc(conversation[c])
    /\ \A i \in InteractionIds :
          /\ outbox.interaction[i].status = interaction[i].status
          /\ outbox.interaction[i].evidence = interaction[i].evidence
          /\ outbox.interaction[i].rowVersion <= interaction[i].rowVersion
    /\ \A o \in OperationIds : outbox.operation[o] = OperationDoc(operation[o])
    /\ \A r \in ReceiptIds :
          /\ outbox.receipt[r].status = receipt[r].status
          /\ outbox.receipt[r].durability = receipt[r].durability

\* A client that repeats its explicit terminal command gets the committed result, as
\* the lifecycle test asserts ("expected idempotent terminal replay").
ExplicitReplayAccepted ==
    \A i \in InteractionIds : Terminal(i) /\ interaction[i].command.mode = "explicit" =>
        \A now \in Nows : ExplicitReplayMatches(i, now)

\* No interaction stays active for ever when its caller has gone away.
InteractionsEnd == \A i \in InteractionIds : Active(i) ~> Terminal(i)

\* The evidence of an ended interaction is eventually decided, also when required
\* receipts never arrive.
EvidenceIsDecided ==
    \A i \in InteractionIds :
        Terminal(i) /\ interaction[i].evidence = "assembling"
            ~> interaction[i].evidence \in {"complete", "partial"}
===============================================================================
