---------------------------- MODULE SessionPromise ----------------------------
(***************************************************************************)
(* What the lifecycle core promises the readers of a trace, with no lease, *)
(* no clock, no reaper and no deadline in sight.  A key has one active     *)
(* conversation and that has one active interaction; nothing is added to   *)
(* an interaction that ended; and the verdict on its evidence is at any    *)
(* time what its receipts say: complete when none of them is missing or    *)
(* lossy, undecided only while one is awaited, and settled as partial by   *)
(* losing patience or by a loss.  Every decision is sealed, in order, and  *)
(* stays on record.                                                        *)
(***************************************************************************)
EXTENDS Sequences

CONSTANTS
    ConversationIds,
    KeyOf,          \* the key of each conversation
    InteractionIds,
    Host,           \* the conversation of each interaction
    ReceiptIds,
    Owner           \* the interaction of each receipt

VARIABLES
    conversation,   \* "absent", "active" or "over"
    interaction,    \* "absent", "active" or "ended"
    report,         \* of a receipt: "absent", "pending", "neutral" or "partial"
    limited,        \* whether the evidence of an interaction may not be collected in full
    verdict,        \* on the evidence of an interaction, "none" until it has ended
    sealed          \* the verdicts put on record for an interaction, oldest first

vars == <<conversation, interaction, report, limited, verdict, sealed>>

Init ==
    /\ conversation = [c \in ConversationIds |-> "absent"]
    /\ interaction = [i \in InteractionIds |-> "absent"]
    /\ report = [r \in ReceiptIds |-> "absent"]
    /\ limited = [i \in InteractionIds |-> FALSE]
    /\ verdict = [i \in InteractionIds |-> "none"]
    /\ sealed = [i \in InteractionIds |-> <<>>]

Busy(c) == \E i \in InteractionIds : Host[i] = c /\ interaction[i] = "active"

\* A new conversation takes the place of the one its key has, which must not be busy.
Open(c) ==
    LET replaced == {d \in ConversationIds : KeyOf[d] = KeyOf[c] /\ conversation[d] = "active"} IN
    /\ conversation[c] = "absent"
    /\ \A d \in replaced : ~Busy(d)
    /\ conversation' = [d \in ConversationIds |->
                           IF d = c THEN "active"
                           ELSE IF d \in replaced THEN "over" ELSE conversation[d]]
    /\ UNCHANGED <<interaction, report, limited, verdict, sealed>>

Close(c) ==
    /\ conversation[c] = "active"
    /\ ~Busy(c)
    /\ conversation' = [conversation EXCEPT ![c] = "over"]
    /\ UNCHANGED <<interaction, report, limited, verdict, sealed>>

Start(i) ==
    /\ interaction[i] = "absent"
    /\ conversation[Host[i]] = "active"
    /\ ~Busy(Host[i])
    /\ interaction' = [interaction EXCEPT ![i] = "active"]
    /\ UNCHANGED <<conversation, report, limited, verdict, sealed>>

\* An attempt is made; a receipt that is not required has nothing to say.
Issue(r) ==
    /\ interaction[Owner[r]] = "active"
    /\ report[r] = "absent"
    /\ \E said \in {"pending", "neutral"} : report' = [report EXCEPT ![r] = said]
    /\ UNCHANGED <<conversation, interaction, limited, verdict, sealed>>

\* What the receipts of an interaction say, and the verdicts this leaves open.
Said(i, reports) == {reports[r] : r \in {s \in ReceiptIds : Owner[s] = i}} \ {"absent"}

Verdicts(said, limits) ==
    IF limits THEN {"partial"}
    ELSE IF said = {} THEN {"not_applicable", "complete"}
    ELSE IF said = {"neutral"} THEN {"complete"}
    ELSE IF "pending" \in said THEN {"assembling", "partial"}
    ELSE {"partial"}

Decided == {"complete", "partial"}

\* A decision is put on record, and that there was nothing to decide may be.
Judge(i, v) ==
    /\ verdict' = [verdict EXCEPT ![i] = v]
    /\ \/ v # "assembling" /\ sealed' = [sealed EXCEPT ![i] = Append(@, v)]
       \/ v \notin Decided /\ UNCHANGED sealed

\* An interaction ends, and with it, perhaps, its conversation.
End(i) ==
    /\ interaction[i] = "active"
    /\ interaction' = [interaction EXCEPT ![i] = "ended"]
    /\ \E limits \in BOOLEAN :
          /\ limited' = [limited EXCEPT ![i] = limits]
          /\ \E v \in Verdicts(Said(i, report), limits) : Judge(i, v)
    /\ \/ UNCHANGED conversation
       \/ conversation' = [conversation EXCEPT ![Host[i]] = "over"]
    /\ UNCHANGED report

\* An attempt finishes.  When its interaction has ended, the evidence is judged again;
\* what was decided stands if it still cannot be.
Answer(r) ==
    LET i == Owner[r] IN
    /\ \/ report[r] = "neutral" /\ UNCHANGED report
       \/ /\ report[r] = "pending"
          /\ \E said \in {"pending", "neutral", "partial"} :
                report' = [report EXCEPT ![r] = said]
    /\ \/ interaction[i] # "ended" /\ UNCHANGED <<verdict, sealed>>
       \/ /\ interaction[i] = "ended"
          /\ "pending" \in Said(i, report')
          /\ UNCHANGED <<verdict, sealed>>
       \/ /\ interaction[i] = "ended"
          /\ \E v \in Verdicts(Said(i, report'), limited[i]) \intersect Decided : Judge(i, v)
    /\ UNCHANGED <<conversation, interaction, limited>>

\* The receipts are no longer waited for.
LosePatience(i) ==
    /\ verdict[i] = "assembling"
    /\ Judge(i, "partial")
    /\ UNCHANGED <<conversation, interaction, report, limited>>

Next ==
    \/ \E c \in ConversationIds : Open(c) \/ Close(c)
    \/ \E i \in InteractionIds : Start(i) \/ End(i) \/ LosePatience(i)
    \/ \E r \in ReceiptIds : Issue(r) \/ Answer(r)

Spec == Init /\ [][Next]_vars
===============================================================================
