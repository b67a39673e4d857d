---------------------------- MODULE WdkTransfer -----------------------------
(***************************************************************************)
(* executeTransfer of wdk-settlement.provider.ts for one escrow, with      *)
(* ensureAttempt, markSubmissionAttempted and waitForReceiptOutcome of     *)
(* wdk-execution-truth.ts, run by concurrent calls that may die between    *)
(* any two of their awaits, over the wdkTransferAttempt table and the      *)
(* chain.  It implements SettlementRail.                                   *)
(***************************************************************************)
EXTENDS Naturals, Sequences, FiniteSets

CONSTANTS Calls,       \* calls of executeTransfer in flight
          Operations,  \* the operationTypes
          Amounts,     \* <destination, amount> pairs callers may compute
          MaxAttempts  \* bound on the attempt rows of one operation

ASSUME AttemptsAssumption == MaxAttempts \in Nat \ {0}
ASSUME InputsAssumption == Operations # {} /\ Amounts # {}

VARIABLES
  rows,     \* WdkTransferAttempt rows of each operation, in createdAt order
  chain,    \* transactions broadcast for each operation; a hash is an index
  call,     \* the calls
  returned  \* <<operation, hash>> pairs a call returned as its txId

vars == <<rows, chain, call, returned>>

AttemptStatuses == {"PREPARED", "SUBMISSION_UNKNOWN", "SUBMITTED", "CONFIRMED", "REVERTED"}

PCs == {"idle", "create", "query", "resume", "disown", "replace", "mark", "transfer",
        "record", "wait", "confirm", "fail"}

Idle == [pc |-> "idle", op |-> CHOOSE o \in Operations : TRUE,
         amt |-> CHOOSE a \in Amounts : TRUE, id |-> 0, hash |-> 0]

TypeOK ==
  /\ rows \in [Operations -> Seq([status : AttemptStatuses, active : BOOLEAN,
                                  amt : Amounts, hash : Nat])]
  /\ chain \in [Operations -> Seq([state : {"pending", "mined", "failed"}, amt : Amounts])]
  /\ call \in [Calls -> [pc : PCs, op : Operations, amt : Amounts, id : Nat, hash : Nat]]
  /\ returned \subseteq Operations \X Nat

Init ==
  /\ rows = [o \in Operations |-> <<>>]
  /\ chain = [o \in Operations |-> <<>>]
  /\ call = [c \in Calls |-> Idle]
  /\ returned = {}

-----------------------------------------------------------------------------

Goto(c, pc) == call' = [call EXCEPT ![c].pc = pc]

\* The call throws, or its process dies.
Throw(c) == call' = [call EXCEPT ![c] = Idle]

Return(c, h) ==
  /\ returned' = returned \cup {<<call[c].op, h>>}
  /\ call' = [call EXCEPT ![c] = Idle]

\* updateStatus with expectedStatuses: a compare-and-set that throws when lost.
Owns(c, status) == rows[call[c].op][call[c].id].status = status

SetStatus(c, status) == rows' = [rows EXCEPT ![call[c].op][call[c].id].status = status]

NewRow(a) == [status |-> "PREPARED", active |-> TRUE, amt |-> a, hash |-> 0]

\* What ensureAttempt does next with the latest row's status.
AfterRead(status) ==
  CASE status = "SUBMITTED" -> "query"
    [] status = "PREPARED"  -> "mark"
    [] status = "REVERTED"  -> "replace"

ReadLatestAnyAmount(c, o, a) ==
  LET n == Len(rows[o])
  IN  /\ call[c].pc = "idle"
      /\ \/ /\ n = 0
            /\ call' = [call EXCEPT ![c] = [pc |-> "create", op |-> o, amt |-> a,
                                            id |-> 0, hash |-> 0]]
         \/ /\ n > 0
            /\ rows[o][n].status \in {"SUBMITTED", "PREPARED", "REVERTED"}
            /\ call' = [call EXCEPT ![c] = [pc |-> AfterRead(rows[o][n].status), op |-> o,
                                            amt |-> a, id |-> n, hash |-> rows[o][n].hash]]
      /\ UNCHANGED <<rows, chain, returned>>

\* ensureAttempt finds no row, or a row made for the same destination and amount
\* that it can go on from.
ReadLatest(c, o, a) ==
  LET n == Len(rows[o])
  IN  /\ call[c].pc = "idle"
      /\ \/ /\ n = 0
            /\ call' = [call EXCEPT ![c] = [pc |-> "create", op |-> o, amt |-> a,
                                            id |-> 0, hash |-> 0]]
         \/ /\ n > 0
            /\ rows[o][n].amt = a
            /\ rows[o][n].status \in {"SUBMITTED", "PREPARED", "REVERTED"}
            /\ call' = [call EXCEPT ![c] = [pc |-> AfterRead(rows[o][n].status), op |-> o,
                                            amt |-> a, id |-> n, hash |-> rows[o][n].hash]]
      /\ UNCHANGED <<rows, chain, returned>>

\* ensureAttempt: a CONFIRMED row answers with its hash.  SUBMISSION_UNKNOWN and a
\* row for another destination or amount throw, and change nothing.
ResumeConfirmed(c, o, a) ==
  LET n == Len(rows[o])
  IN  /\ call[c].pc = "idle"
      /\ n > 0
      /\ rows[o][n].amt = a
      /\ rows[o][n].status = "CONFIRMED"
      /\ returned' = returned \cup {<<o, rows[o][n].hash>>}
      /\ UNCHANGED <<rows, chain, call>>

\* create: activeKey is unique.
CreateAttempt(c) ==
  LET o == call[c].op
  IN  /\ call[c].pc = "create"
      /\ Len(rows[o]) < MaxAttempts
      /\ IF \E i \in DOMAIN rows[o] : rows[o][i].active
         THEN Throw(c) /\ UNCHANGED rows
         ELSE /\ rows' = [rows EXCEPT ![o] = Append(rows[o], NewRow(call[c].amt))]
              /\ call' = [call EXCEPT ![c].pc = "mark", ![c].id = Len(rows[o]) + 1]
      /\ UNCHANGED <<chain, returned>>

QueryReceiptRefusing(c) ==
  /\ call[c].pc = "query"
  /\ Throw(c)
  /\ UNCHANGED <<rows, chain, returned>>

\* ensureAttempt queries the receipt of the latest SUBMITTED row.
QueryReceipt(c) ==
  LET state == chain[call[c].op][call[c].hash].state
  IN  /\ call[c].pc = "query"
      /\ CASE state = "pending" -> Throw(c)
           [] state = "mined"   -> Goto(c, "resume")
           [] state = "failed"  -> Goto(c, "disown")
      /\ UNCHANGED <<rows, chain, returned>>

\* ensureAttempt, SUBMITTED with a good receipt.
ResumeMined(c) ==
  /\ call[c].pc = "resume"
  /\ IF Owns(c, "SUBMITTED")
     THEN SetStatus(c, "CONFIRMED") /\ Return(c, call[c].hash)
     ELSE Throw(c) /\ UNCHANGED <<rows, returned>>
  /\ UNCHANGED chain

\* ensureAttempt, SUBMITTED with a failed receipt.
DisownFailed(c) ==
  /\ call[c].pc = "disown"
  /\ IF Owns(c, "SUBMITTED")
     THEN SetStatus(c, "REVERTED") /\ Goto(c, "replace")
     ELSE Throw(c) /\ UNCHANGED rows
  /\ UNCHANGED <<chain, returned>>

\* replaceActive: one transaction hands activeKey from the reverted row to a new one.
ReplaceActive(c) ==
  LET o == call[c].op
      i == call[c].id
  IN  /\ call[c].pc = "replace"
      /\ Len(rows[o]) < MaxAttempts
      /\ IF rows[o][i].active /\ rows[o][i].status = "REVERTED"
         THEN /\ rows' = [rows EXCEPT ![o] = Append([rows[o] EXCEPT ![i].active = FALSE],
                                                    NewRow(call[c].amt))]
              /\ call' = [call EXCEPT ![c].pc = "mark", ![c].id = Len(rows[o]) + 1]
         ELSE Throw(c) /\ UNCHANGED rows
      /\ UNCHANGED <<chain, returned>>

MarkWithoutCompare(c) ==
  /\ call[c].pc = "mark"
  /\ SetStatus(c, "SUBMISSION_UNKNOWN")
  /\ Goto(c, "transfer")
  /\ UNCHANGED <<chain, returned>>

\* markSubmissionAttempted, the durable commit before the wallet is asked.
MarkSubmissionAttempted(c) ==
  /\ call[c].pc = "mark"
  /\ IF Owns(c, "PREPARED")
     THEN SetStatus(c, "SUBMISSION_UNKNOWN") /\ Goto(c, "transfer")
     ELSE Throw(c) /\ UNCHANGED rows
  /\ UNCHANGED <<chain, returned>>

TransferErrorIsUnsent(c) ==
  LET o == call[c].op
  IN  /\ call[c].pc = "transfer"
      /\ chain' = [chain EXCEPT ![o] = Append(chain[o], [state |-> "pending",
                                                        amt |-> call[c].amt])]
      /\ \/ /\ call' = [call EXCEPT ![c].pc = "record", ![c].hash = Len(chain[o]) + 1]
            /\ UNCHANGED rows
         \/ SetStatus(c, "PREPARED") /\ Throw(c)
      /\ UNCHANGED returned

\* sourceAccount.transfer broadcasts; its answer may be lost, and it may fail
\* without broadcasting.
Transfer(c) ==
  LET o == call[c].op
  IN  /\ call[c].pc = "transfer"
      /\ chain' = [chain EXCEPT ![o] = Append(chain[o], [state |-> "pending",
                                                        amt |-> call[c].amt])]
      /\ \/ call' = [call EXCEPT ![c].pc = "record", ![c].hash = Len(chain[o]) + 1]
         \/ Throw(c)
      /\ UNCHANGED <<rows, returned>>

\* updateStatus SUBMITTED, with the hash.
RecordHash(c) ==
  /\ call[c].pc = "record"
  /\ IF Owns(c, "SUBMISSION_UNKNOWN")
     THEN /\ rows' = [rows EXCEPT ![call[c].op][call[c].id].status = "SUBMITTED",
                                  ![call[c].op][call[c].id].hash = call[c].hash]
          /\ Goto(c, "wait")
     ELSE Throw(c) /\ UNCHANGED rows
  /\ UNCHANGED <<chain, returned>>

WaitTakesHashAsDone(c) ==
  /\ call[c].pc = "wait"
  /\ Goto(c, IF chain[call[c].op][call[c].hash].state = "failed" THEN "fail" ELSE "confirm")
  /\ UNCHANGED <<rows, chain, returned>>

\* waitForReceiptOutcome: a receipt, or the end of the bounded wait.
WaitForReceipt(c) ==
  LET state == chain[call[c].op][call[c].hash].state
  IN  /\ call[c].pc = "wait"
      /\ CASE state = "pending" -> Throw(c)
           [] state = "mined"   -> Goto(c, "confirm")
           [] state = "failed"  -> Goto(c, "fail")
      /\ UNCHANGED <<rows, chain, returned>>

\* executeTransfer, CONFIRMED.  A call that lost the row to a retry throws.
ConfirmOwn(c) ==
  /\ call[c].pc = "confirm"
  /\ IF Owns(c, "SUBMITTED")
     THEN SetStatus(c, "CONFIRMED") /\ Return(c, call[c].hash)
     ELSE Throw(c) /\ UNCHANGED <<rows, returned>>
  /\ UNCHANGED chain

\* executeTransfer, REVERTED: it throws either way.
FailOwn(c) ==
  /\ call[c].pc = "fail"
  /\ IF Owns(c, "SUBMITTED") THEN SetStatus(c, "REVERTED") ELSE UNCHANGED rows
  /\ Throw(c)
  /\ UNCHANGED <<chain, returned>>

\* An await rejects, or the process dies.
Crash(c) ==
  /\ call[c].pc # "idle"
  /\ Throw(c)
  /\ UNCHANGED <<rows, chain, returned>>

-----------------------------------------------------------------------------

\* The operation's record as the escrow service sees it, and the transfers the
\* chain has made.
AttemptOf(o) ==
  IF rows[o] = <<>> THEN "none"
  ELSE CASE rows[o][Len(rows[o])].status = "SUBMISSION_UNKNOWN" -> "unknown"
         [] rows[o][Len(rows[o])].status = "SUBMITTED"          -> "submitted"
         [] rows[o][Len(rows[o])].status = "CONFIRMED"          -> "confirmed"
         [] OTHER                                               -> "none"

Delivered(o) == \E h \in DOMAIN chain[o] : chain[o][h].state = "mined"

Rail == INSTANCE SettlementRail
          WITH attempt <- [o \in Operations |-> AttemptOf(o)],
               landed  <- {o \in Operations : Delivered(o)}

\* The chain executes a transaction, which fails unless the account can pay it.
Mine(o, h) ==
  /\ chain[o][h].state = "pending"
  /\ Rail!Payable(o)
  /\ chain' = [chain EXCEPT ![o][h].state = "mined"]
  /\ UNCHANGED <<rows, call, returned>>

Fail(o, h) ==
  /\ chain[o][h].state = "pending"
  /\ chain' = [chain EXCEPT ![o][h].state = "failed"]
  /\ UNCHANGED <<rows, call, returned>>

Step(c) ==
  \/ CreateAttempt(c) \/ QueryReceipt(c) \/ ResumeMined(c) \/ DisownFailed(c)
  \/ ReplaceActive(c) \/ MarkSubmissionAttempted(c) \/ Transfer(c) \/ RecordHash(c)
  \/ WaitForReceipt(c) \/ ConfirmOwn(c) \/ FailOwn(c)

Begin(c) ==
  \E o \in Operations, a \in Amounts : ReadLatest(c, o, a) \/ ResumeConfirmed(c, o, a)

Next ==
  \/ \E c \in Calls : Begin(c) \/ Step(c) \/ Crash(c)
  \/ \E o \in Operations : \E h \in DOMAIN chain[o] : Mine(o, h) \/ Fail(o, h)

Spec == Init /\ [][Next]_vars

-----------------------------------------------------------------------------

Live(o) == {h \in DOMAIN chain[o] : chain[o][h].state # "failed"}

\* For each logical operation at most one transaction is ever pending or mined:
\* no retry, no crash, no lost answer and no concurrent call sends a second
\* transfer while the first may still deliver.
OneLiveTransfer == \A o \in Operations : \A g, h \in Live(o) : g = h

\* A txId is returned to the escrow service only for a transfer that was mined
\* ("Submission != Confirmation").
ReturnedIsMined ==
  \A p \in returned : p[2] \in DOMAIN chain[p[1]] /\ chain[p[1]][p[2]].state = "mined"

\* Every transaction of an operation pays the same destination and amount, so a
\* retry with a different split never adds to what was paid.
OneAmount == \A o \in Operations : \A g, h \in DOMAIN chain[o] : chain[o][g].amt = chain[o][h].amt

\* The provider keeps the promise the escrow handlers rely on.
ImplementsRail == Rail!RailSpec

\* A call that keeps being retried with the amount of the operation's row.
Retry(o) ==
  \E c \in Calls, a \in Amounts :
     /\ rows[o] # <<>> /\ a = rows[o][Len(rows[o])].amt
     /\ (ReadLatest(c, o, a) \/ ResumeConfirmed(c, o, a))

\* The server runs its calls on; the caller retries the operation, and is not
\* killed at the same await for ever.
Fairness ==
  /\ \A c \in Calls : WF_vars(Step(c))
  /\ \A o \in Operations :
       /\ SF_vars(Retry(o))
       /\ SF_vars(\E c \in Calls : call[c].op = o /\ QueryReceipt(c))
       /\ SF_vars(\E c \in Calls : call[c].op = o /\ ResumeMined(c))

FairSpec == Spec /\ Fairness

\* "Retry will reconcile automatically once the transaction is mined": a
\* submitted transfer that was mined is in the end answered with its hash.
RetryReconciles ==
  \A o \in Operations :
     (AttemptOf(o) = "submitted" /\ Delivered(o)) ~> (\E p \in returned : p[1] = o)

=============================================================================
