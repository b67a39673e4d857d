------------------------- MODULE WdkTransferProofs --------------------------
(***************************************************************************)
(* Theorems about WdkTransfer, for any calls, operations, amounts and number*)
(* of attempts: one live transfer per operation, success only for mined    *)
(* transfers, and that the provider implements SettlementRail, which       *)
(* DirectEscrow is built on.                                               *)
(***************************************************************************)
EXTENDS WdkTransfer, TLAPS

\* Every leaf that names no prover is tried with SMT, with Zenon and with SMT again.
USE SMTT(60), ZenonT(30), SMTT(61), SMTT(62)

RowType == [status : AttemptStatuses, active : BOOLEAN, amt : Amounts, hash : Nat]
TxType == [state : {"pending", "mined", "failed"}, amt : Amounts]
CallType == [pc : PCs, op : Operations, amt : Amounts, id : Nat, hash : Nat]

Last(o) == rows[o][Len(rows[o])]

\* Statuses in which a row has its hash.
Hashed == {"SUBMITTED", "CONFIRMED", "REVERTED"}

\* Only the latest row is active, every earlier one reverted, and a row's status
\* tells the truth about its transaction.
RowsOK(o) ==
  \A i \in DOMAIN rows[o] :
     /\ rows[o][i].active <=> i = Len(rows[o])
     /\ i < Len(rows[o]) => rows[o][i].status = "REVERTED"
     /\ rows[o][i].status \in Hashed => rows[o][i].hash \in DOMAIN chain[o]
     /\ rows[o][i].status = "CONFIRMED" => chain[o][rows[o][i].hash].state = "mined"
     /\ rows[o][i].status = "REVERTED" => chain[o][rows[o][i].hash].state = "failed"
     /\ rows[o][i].amt = rows[o][1].amt

\* A transaction that may deliver is the one of the latest row.
LiveOK(o) ==
  \A h \in Live(o) :
     /\ Len(rows[o]) > 0
     /\ Last(o).status \in {"SUBMISSION_UNKNOWN", "SUBMITTED", "CONFIRMED"}
     /\ Last(o).status \in Hashed => h = Last(o).hash

ChainOK(o) ==
  /\ \A g, h \in Live(o) : g = h
  /\ \A h \in DOMAIN chain[o] : Len(rows[o]) > 0 /\ chain[o][h].amt = rows[o][1].amt

OpOK(o) == RowsOK(o) /\ LiveOK(o) /\ ChainOK(o)

\* What a call has learnt stays true: the row it works on, its hash and receipt.
Knows(c) ==
  LET o == call[c].op
      i == call[c].id
  IN  /\ call[c].pc \notin {"idle", "create"} =>
            /\ i \in DOMAIN rows[o]
            /\ call[c].amt = rows[o][1].amt
      /\ call[c].pc \in {"query", "resume", "disown", "wait", "confirm", "fail"} =>
            /\ rows[o][i].status \in Hashed
            /\ call[c].hash = rows[o][i].hash
      /\ call[c].pc \in {"resume", "confirm"} => chain[o][call[c].hash].state = "mined"
      /\ call[c].pc \in {"disown", "fail"} => chain[o][call[c].hash].state = "failed"

Sends(c) == call[c].pc \in {"transfer", "record"}

\* The call between its durable commit and the write of the hash owns the row
\* alone, and only its own transaction can be live.
SenderOK(c) ==
  Sends(c) =>
     /\ call[c].id = Len(rows[call[c].op])
     /\ rows[call[c].op][call[c].id].status = "SUBMISSION_UNKNOWN"
     /\ call[c].pc = "transfer" => Live(call[c].op) = {}
     /\ call[c].pc = "record" => /\ call[c].hash \in DOMAIN chain[call[c].op]
                                 /\ Live(call[c].op) \subseteq {call[c].hash}
     /\ \A d \in Calls \ {c} : Sends(d) => call[d].op # call[c].op

Inv ==
  /\ TypeOK
  /\ \A o \in Operations : OpOK(o)
  /\ \A c \in Calls : Knows(c) /\ SenderOK(c)
  /\ ReturnedIsMined

-----------------------------------------------------------------------------

LEMMA IdleType == Idle \in CallType
  BY InputsAssumption DEF Idle, CallType, PCs

\* What the table and the chain may do behind a call's back.
Grows(o) ==
  /\ DOMAIN rows[o] \subseteq DOMAIN rows'[o]
  /\ DOMAIN chain[o] \subseteq DOMAIN chain'[o]
  /\ \A i \in DOMAIN rows[o] :
        /\ rows'[o][i].amt = rows[o][i].amt
        /\ rows[o][i].status \in Hashed =>
              rows'[o][i].status \in Hashed /\ rows'[o][i].hash = rows[o][i].hash
  /\ \A h \in DOMAIN chain[o] :
        /\ chain'[o][h].amt = chain[o][h].amt
        /\ chain[o][h].state # "pending" => chain'[o][h].state = chain[o][h].state

\* What a step leaves of an operation whose rows and transactions it does not
\* touch, and of a call it does not touch.
LEMMA OpStays ==
  ASSUME NEW o \in Operations, OpOK(o), rows'[o] = rows[o], chain'[o] = chain[o]
  PROVE  OpOK(o)' /\ Grows(o)
<1>1. Live(o)' = Live(o) /\ Last(o)' = Last(o)
  BY DEF Live, Last
<1>2. RowsOK(o)'
  BY ZenonT(60) DEF OpOK, RowsOK
<1>3. LiveOK(o)'
  BY <1>1, ZenonT(60) DEF OpOK, LiveOK
<1>4. ChainOK(o)'
  BY <1>1, ZenonT(60) DEF OpOK, ChainOK
<1>5. Grows(o)
  BY ZenonT(60) DEF Grows
<1> QED
  BY <1>2, <1>3, <1>4, <1>5, ZenonT(60) DEF OpOK

LEMMA InitInv == Init => Inv
<1> SUFFICES ASSUME Init PROVE Inv
  OBVIOUS
<1>1. TypeOK
  BY IdleType DEF Init, TypeOK, CallType
<1>2. \A o \in Operations : OpOK(o)
  BY DEF Init, OpOK, RowsOK, LiveOK, ChainOK, Live
<1>3. \A c \in Calls : Knows(c) /\ SenderOK(c)
  BY DEF Init, Knows, SenderOK, Sends, Idle
<1>4. ReturnedIsMined
  BY DEF Init, ReturnedIsMined
<1> QED
  BY <1>1, <1>2, <1>3, <1>4 DEF Inv

\* A call that does not move keeps what it knows.
LEMMA KnowsFrame ==
  ASSUME Inv, NEW c \in Calls, call'[c] = call[c], Grows(call[c].op)
  PROVE  Knows(c)'
<1> DEFINE o == call[c].op  i == call[c].id
<1>0. call[c] \in CallType /\ Knows(c) /\ OpOK(o)
  BY DEF Inv, TypeOK, CallType
<1>1. rows[o] \in Seq(RowType) /\ chain[o] \in Seq(TxType)
  BY <1>0, ZenonT(60) DEF Inv, TypeOK, CallType, RowType, TxType
<1>2. call[c].pc \notin {"idle", "create"} =>
        i \in DOMAIN rows'[o] /\ call[c].amt = rows'[o][1].amt
  <2> SUFFICES ASSUME call[c].pc \notin {"idle", "create"}
               PROVE  i \in DOMAIN rows'[o] /\ call[c].amt = rows'[o][1].amt
    OBVIOUS
  <2>1. i \in DOMAIN rows[o] /\ call[c].amt = rows[o][1].amt
    BY <1>0, ZenonT(60) DEF Knows
  <2>2. 1 \in DOMAIN rows[o]
    BY <1>1, <2>1
  <2> QED
    BY <2>1, <2>2, ZenonT(60) DEF Grows
<1>3. call[c].pc \in {"query", "resume", "disown", "wait", "confirm", "fail"} =>
        /\ rows'[o][i].status \in Hashed
        /\ call[c].hash = rows'[o][i].hash
        /\ call[c].hash \in DOMAIN chain[o]
  BY <1>0, ZenonT(60) DEF Knows, Grows, OpOK, RowsOK
<1>4. call[c].pc \in {"resume", "confirm"} => chain'[o][call[c].hash].state = "mined"
  BY <1>0, <1>3, ZenonT(60) DEF Knows, Grows
<1>5. call[c].pc \in {"disown", "fail"} => chain'[o][call[c].hash].state = "failed"
  BY <1>0, <1>3, ZenonT(60) DEF Knows, Grows
<1> QED
  BY <1>2, <1>3, <1>4, <1>5, ZenonT(60) DEF Knows

\* A sender is undisturbed while its row stands and no other call starts to send.
LEMMA SenderFrame ==
  ASSUME Inv, NEW c \in Calls, call'[c] = call[c],
         Sends(c) => /\ rows'[call[c].op] = rows[call[c].op]
                     /\ DOMAIN chain[call[c].op] \subseteq DOMAIN chain'[call[c].op]
                     /\ Live(call[c].op)' \subseteq Live(call[c].op),
         \A d \in Calls \ {c} : /\ Sends(c)
                                /\ Sends(d)'
                                => \/ Sends(d) /\ call'[d].op = call[d].op
                                   \/ call'[d].op # call[c].op
  PROVE  SenderOK(c)'
<1> SUFFICES ASSUME Sends(c) PROVE SenderOK(c)'
  BY DEF SenderOK, Sends
<1>1. /\ call[c].id = Len(rows[call[c].op])
      /\ rows[call[c].op][call[c].id].status = "SUBMISSION_UNKNOWN"
      /\ call[c].pc = "transfer" => Live(call[c].op) = {}
      /\ call[c].pc = "record" => /\ call[c].hash \in DOMAIN chain[call[c].op]
                                  /\ Live(call[c].op) \subseteq {call[c].hash}
  BY ZenonT(60) DEF Inv, SenderOK
<1>2. \A d \in Calls \ {c} : Sends(d)' => call'[d].op # call[c].op
  BY DEF Inv, SenderOK
<1> QED
  BY <1>1, <1>2 DEF SenderOK

\* A step of call c that touches at most the rows and transactions of operation o.
LEMMA StepFrame ==
  ASSUME Inv, NEW c \in Calls, NEW o \in Operations, TypeOK',
         \A d \in Calls \ {c} : call'[d] = call[d],
         \A q \in Operations \ {o} : rows'[q] = rows[q] /\ chain'[q] = chain[q],
         Grows(o), OpOK(o)', Knows(c)', SenderOK(c)', ReturnedIsMined',
         \A d \in Calls \ {c} : Sends(d) /\ call[d].op = o =>
                                    rows'[o] = rows[o] /\ chain'[o] = chain[o]
  PROVE  Inv'
<1>1. \A q \in Operations : Grows(q)
  BY DEF Grows
<1>2. \A q \in Operations : OpOK(q)'
  <2> SUFFICES ASSUME NEW q \in Operations, q # o PROVE OpOK(q)'
    OBVIOUS
  <2>1. OpOK(q) /\ rows'[q] = rows[q] /\ chain'[q] = chain[q]
    BY DEF Inv
  <2> QED
    BY <2>1, OpStays, ZenonT(60)
<1>3. \A d \in Calls \ {c} : Knows(d)' /\ SenderOK(d)'
  <2> SUFFICES ASSUME NEW d \in Calls \ {c} PROVE Knows(d)' /\ SenderOK(d)'
    OBVIOUS
  <2>1. call'[d] = call[d] /\ call[d].op \in Operations
    BY DEF Inv, TypeOK
  <2>2. Knows(d)'
    BY <1>1, <2>1, KnowsFrame
  <2>3. Sends(d) => rows'[call[d].op] = rows[call[d].op] /\ chain'[call[d].op] = chain[call[d].op]
    BY <2>1
  <2>4. ASSUME Sends(d), NEW e \in Calls \ {d}, Sends(e)'
        PROVE  \/ Sends(e) /\ call'[e].op = call[e].op
               \/ call'[e].op # call[d].op
    <3>1. CASE e = c
      BY <2>1, <2>4, <3>1 DEF SenderOK, Sends
    <3>2. CASE e # c
      BY <2>4, <3>2 DEF Sends
    <3> QED
      BY <3>1, <3>2
  <2>5. SenderOK(d)'
    BY <2>1, <2>3, <2>4, SenderFrame, ZenonT(60) DEF Live
  <2> QED
    BY <2>2, <2>5
<1> QED
  BY <1>2, <1>3 DEF Inv

\* What was returned as mined stays mined.
LEMMA ReturnedFrame ==
  ASSUME Inv, \A o \in Operations : Grows(o), returned' = returned
  PROVE  ReturnedIsMined'
<1> SUFFICES ASSUME NEW p \in returned
             PROVE  p[2] \in DOMAIN chain'[p[1]] /\ chain'[p[1]][p[2]].state = "mined"
  BY DEF ReturnedIsMined
<1>1. p[1] \in Operations /\ p[2] \in DOMAIN chain[p[1]] /\ chain[p[1]][p[2]].state = "mined"
  BY DEF Inv, TypeOK, ReturnedIsMined
<1> QED
  BY <1>1 DEF Grows

LEMMA Still ==
  ASSUME rows' = rows, chain' = chain, NEW o \in Operations
  PROVE  Grows(o)
  BY DEF Grows

\* A step that leaves the table and the chain alone.
LEMMA QuietStep ==
  ASSUME Inv, NEW c \in Calls, rows' = rows, chain' = chain,
         NEW x \in CallType, call' = [call EXCEPT ![c] = x],
         returned' \subseteq Operations \X Nat, ReturnedIsMined',
         Knows(c)', ~Sends(c)'
  PROVE  Inv'
<1>1. call \in [Calls -> CallType] /\ call' \in [Calls -> CallType]
  BY DEF Inv, TypeOK, CallType
<1>2. TypeOK'
  BY <1>1, ZenonT(60) DEF Inv, TypeOK, CallType
<1>3. PICK o \in Operations : TRUE
  BY InputsAssumption
<1>4. OpOK(o)'
  BY OpStays, ZenonT(60) DEF Inv
<1>5. SenderOK(c)'
  BY DEF SenderOK
<1> QED
  BY <1>1, <1>2, <1>4, <1>5, Still, StepFrame

LEMMA ThrowInv ==
  ASSUME Inv, NEW c \in Calls, Throw(c), UNCHANGED <<rows, chain, returned>>
  PROVE  Inv'
<1>1. call' = [call EXCEPT ![c] = Idle] /\ call'[c] = Idle
  BY DEF Inv, TypeOK, Throw
<1>2. Knows(c)' /\ ~Sends(c)'
  BY <1>1 DEF Knows, Sends, Idle
<1>3. ReturnedIsMined' /\ returned' \subseteq Operations \X Nat
  BY Still, ReturnedFrame, ZenonT(60) DEF Inv, TypeOK
<1> QED
  BY <1>1, <1>2, <1>3, IdleType, QuietStep, ZenonT(60)

\* The reads: ensureAttempt's findLatest and the two receipt queries.
LEMMA ReadLatestInv ==
  ASSUME Inv, NEW c \in Calls, NEW o \in Operations, NEW a \in Amounts, ReadLatest(c, o, a)
  PROVE  Inv'
<1>0. rows[o] \in Seq(RowType) /\ OpOK(o)
  BY ZenonT(60) DEF Inv, TypeOK, RowType
<1>1. rows' = rows /\ chain' = chain /\ returned' = returned
  BY DEF ReadLatest
<1>2. ReturnedIsMined' /\ returned' \subseteq Operations \X Nat
  BY <1>1, Still, ReturnedFrame, ZenonT(60) DEF Inv, TypeOK
<1>3. CASE Len(rows[o]) = 0
  <2> DEFINE x == [pc |-> "create", op |-> o, amt |-> a, id |-> 0, hash |-> 0]
  <2>1. call' = [call EXCEPT ![c] = x] /\ call'[c] = x
    BY <1>3 DEF ReadLatest, Inv, TypeOK
  <2>2. x \in CallType
    BY DEF CallType, PCs
  <2>3. Knows(c)' /\ ~Sends(c)'
    BY <2>1 DEF Knows, Sends
  <2> HIDE DEF x
  <2> QED
    BY <1>1, <1>2, <2>1, <2>2, <2>3, QuietStep, ZenonT(60)
<1>4. CASE Len(rows[o]) # 0
  <2> DEFINE n == Len(rows[o])
             x == [pc |-> AfterRead(rows[o][n].status), op |-> o, amt |-> a,
                   id |-> n, hash |-> rows[o][n].hash]
  <2>1. /\ rows[o][n].amt = a
        /\ rows[o][n].status \in {"SUBMITTED", "PREPARED", "REVERTED"}
        /\ call' = [call EXCEPT ![c] = x]
        /\ call'[c] = x
    BY <1>4 DEF ReadLatest, Inv, TypeOK
  <2>2. n \in DOMAIN rows[o] /\ n \in Nat /\ rows[o][n] \in RowType
    BY <1>0, <1>4
  <2>3. rows[o][1].amt = a
    BY <1>0, <2>1, <2>2, ZenonT(60) DEF OpOK, RowsOK
  <2>4. /\ AfterRead(rows[o][n].status) \in {"query", "mark", "replace"}
        /\ AfterRead(rows[o][n].status) = "query" => rows[o][n].status = "SUBMITTED"
    BY <2>1 DEF AfterRead
  <2>5. x \in CallType
    BY <2>2, <2>4 DEF CallType, PCs, RowType
  <2>6. ~Sends(c)'
    BY <2>1, <2>4 DEF Sends
  <2>7. Knows(c)'
    <3>1. /\ call'[c].op = o /\ call'[c].id = n /\ call'[c].amt = a
          /\ call'[c].hash = rows[o][n].hash
          /\ call'[c].pc \in {"query", "mark", "replace"}
          /\ call'[c].pc = "query" => rows[o][n].status \in Hashed
      BY <2>1, <2>4 DEF Hashed
    <3> QED
      BY <1>1, <2>2, <2>3, <3>1, ZenonT(60) DEF Knows
  <2> HIDE DEF x
  <2> QED
    BY <1>1, <1>2, <2>1, <2>5, <2>6, <2>7, QuietStep, ZenonT(60)
<1> QED
  BY <1>3, <1>4

LEMMA Unmoved ==
  ASSUME Inv, rows' = rows, chain' = chain, call' = call
  PROVE  /\ \A o \in Operations : OpOK(o)'
         /\ \A c \in Calls : Knows(c)' /\ SenderOK(c)'
<1>1. \A o \in Operations : OpOK(o)'
  BY OpStays, ZenonT(60) DEF Inv
<1>2. \A c \in Calls : Knows(c)'
  BY ZenonT(60) DEF Inv, Knows
<1>3. \A c \in Calls : SenderOK(c)'
  <2> SUFFICES ASSUME NEW c \in Calls PROVE SenderOK(c)'
    OBVIOUS
  <2>1. SenderOK(c)
    BY DEF Inv
  <2> QED
    BY <2>1, ZenonT(60) DEF SenderOK, Sends, Live
<1> QED
  BY <1>1, <1>2, <1>3

LEMMA ResumeConfirmedInv ==
  ASSUME Inv, NEW c \in Calls, NEW o \in Operations, NEW a \in Amounts, ResumeConfirmed(c, o, a)
  PROVE  Inv'
<1> DEFINE n == Len(rows[o])
<1>0. rows[o] \in Seq(RowType) /\ OpOK(o) /\ call[c] \in CallType
  BY ZenonT(60) DEF Inv, TypeOK, RowType, CallType
<1>1. /\ rows' = rows /\ chain' = chain /\ call' = call
      /\ returned' = returned \cup {<<o, rows[o][n].hash>>}
      /\ n > 0 /\ rows[o][n].status = "CONFIRMED"
  BY DEF ResumeConfirmed
<1>2. n \in DOMAIN rows[o] /\ rows[o][n].hash \in Nat
  <2>1. n \in DOMAIN rows[o] /\ rows[o][n] \in RowType
    BY <1>0, <1>1
  <2> QED
    BY <2>1 DEF RowType
<1>3. rows[o][n].hash \in DOMAIN chain[o] /\ chain[o][rows[o][n].hash].state = "mined"
  BY <1>0, <1>1, <1>2, ZenonT(60) DEF OpOK, RowsOK, Hashed
<1>4. TypeOK'
  <2>1. returned' \subseteq Operations \X Nat
    BY <1>1, <1>2 DEF Inv, TypeOK
  <2> QED
    BY <1>1, <2>1, ZenonT(60) DEF Inv, TypeOK
<1>5. ReturnedIsMined'
  BY <1>1, <1>3 DEF Inv, ReturnedIsMined
<1>6. \A q \in Operations : OpOK(q)'
  BY <1>1, Unmoved
<1>7. \A d \in Calls : Knows(d)' /\ SenderOK(d)'
  BY <1>1, Unmoved
<1> QED
  BY <1>4, <1>5, <1>6, <1>7 DEF Inv

\* A receipt tells the call which way to go.
LEMMA GotoInv ==
  ASSUME Inv, NEW c \in Calls, NEW p \in PCs \ {"transfer", "record"}, Goto(c, p),
         UNCHANGED <<rows, chain, returned>>,
         call'[c].pc = p => Knows(c)'
  PROVE  Inv'
<1> DEFINE x == [call[c] EXCEPT !.pc = p]
<1>1. call' = [call EXCEPT ![c] = x] /\ x \in CallType /\ call'[c] = x /\ x.pc = p
  BY ZenonT(60) DEF Inv, TypeOK, CallType, Goto
<1>2. ReturnedIsMined' /\ returned' \subseteq Operations \X Nat
  BY Still, ReturnedFrame, ZenonT(60) DEF Inv, TypeOK
<1>3. Knows(c)' /\ ~Sends(c)'
  BY <1>1, ZenonT(60) DEF Sends
<1> HIDE DEF x
<1> QED
  BY <1>1, <1>2, <1>3, QuietStep, ZenonT(60)

LEMMA GotoEffect ==
  ASSUME Inv, NEW c \in Calls, NEW p \in PCs, Goto(c, p)
  PROVE  /\ call' \in [Calls -> CallType]
         /\ \A d \in Calls \ {c} : call'[d] = call[d]
         /\ call'[c].pc = p /\ call'[c].op = call[c].op /\ call'[c].amt = call[c].amt
         /\ call'[c].id = call[c].id /\ call'[c].hash = call[c].hash
  BY ZenonT(60) DEF Inv, TypeOK, CallType, Goto

LEMMA ReceiptInv ==
  ASSUME Inv, NEW c \in Calls, QueryReceipt(c) \/ WaitForReceipt(c)
  PROVE  Inv'
<1> DEFINE o == call[c].op  state == chain[o][call[c].hash].state
<1>0. /\ o \in Operations /\ OpOK(o) /\ Knows(c) /\ chain[o] \in Seq(TxType)
      /\ call[c].pc \in {"query", "wait"}
      /\ UNCHANGED <<rows, chain, returned>>
  BY ZenonT(60) DEF Inv, TypeOK, TxType, QueryReceipt, WaitForReceipt
<1>1. call[c].id \in DOMAIN rows[o] /\ call[c].hash \in DOMAIN chain[o]
  BY <1>0, ZenonT(60) DEF Knows, OpOK, RowsOK
<1>2. state \in {"pending", "mined", "failed"}
  <2>1. chain[o][call[c].hash] \in TxType
    BY <1>0, <1>1
  <2> QED
    BY <2>1 DEF TxType
<1>3. CASE state = "pending"
  <2>1. Throw(c)
    BY <1>3 DEF QueryReceipt, WaitForReceipt
  <2> QED
    BY <1>0, <2>1, ThrowInv
<1>4. CASE state # "pending"
  <2>1. PICK p \in {"resume", "disown", "confirm", "fail"} :
           /\ Goto(c, p)
           /\ p \in {"resume", "confirm"} => state = "mined"
           /\ p \in {"disown", "fail"} => state = "failed"
    BY <1>2, <1>4, ZenonT(60) DEF QueryReceipt, WaitForReceipt
  <2>2. p \in PCs \ {"transfer", "record"}
    BY DEF PCs
  <2>3. Knows(c)'
    BY <1>0, <2>1, <2>2, GotoEffect, ZenonT(60) DEF Knows
  <2> QED
    BY <1>0, <2>1, <2>2, <2>3, GotoInv
<1> QED
  BY <1>3, <1>4

\* The table after the status of row i of operation o was set to s.
StatusSet(o, i, s) ==
  /\ rows' \in [Operations -> Seq(RowType)]
  /\ \A q \in Operations \ {o} : rows'[q] = rows[q]
  /\ Len(rows'[o]) = Len(rows[o]) /\ DOMAIN rows'[o] = DOMAIN rows[o]
  /\ \A j \in DOMAIN rows[o] \ {i} : rows'[o][j] = rows[o][j]
  /\ rows'[o][i].status = s
  /\ rows'[o][i].active = rows[o][i].active
  /\ rows'[o][i].amt = rows[o][i].amt
  /\ rows'[o][i].hash = rows[o][i].hash

\* A compare-and-set on the status of row i of operation o.
LEMMA StatusEffect ==
  ASSUME Inv, NEW o \in Operations, NEW i \in DOMAIN rows[o], NEW s \in AttemptStatuses,
         rows' = [rows EXCEPT ![o][i].status = s]
  PROVE  StatusSet(o, i, s)
<1>1. rows \in [Operations -> Seq(RowType)]
  BY ZenonT(60) DEF Inv, TypeOK, RowType
<1>2. rows[o] \in Seq(RowType) /\ rows[o][i] \in RowType
  BY <1>1
<1> DEFINE x == [rows[o][i] EXCEPT !.status = s]
           t == [rows[o] EXCEPT ![i] = x]
<1>3. x \in RowType /\ x.status = s /\ x.active = rows[o][i].active
      /\ x.amt = rows[o][i].amt /\ x.hash = rows[o][i].hash
  BY <1>2, ZenonT(60) DEF RowType
<1>4. rows' = [rows EXCEPT ![o] = t]
  OBVIOUS
<1> HIDE DEF x
<1>5. /\ t \in Seq(RowType) /\ Len(t) = Len(rows[o]) /\ DOMAIN t = DOMAIN rows[o]
      /\ t[i] = x /\ \A j \in DOMAIN rows[o] \ {i} : t[j] = rows[o][j]
  BY <1>2, <1>3
<1> HIDE DEF t
<1>6. rows'[o] = t /\ \A q \in Operations \ {o} : rows'[q] = rows[q]
  BY <1>1, <1>4
<1>7. rows' \in [Operations -> Seq(RowType)]
  BY <1>1, <1>4, <1>5
<1> QED
  BY <1>3, <1>5, <1>6, <1>7 DEF StatusSet

\* The ways a row's status moves, each told by the chain.
Moves(o, i, s) ==
  \/ /\ rows[o][i].status = "PREPARED" /\ s = "SUBMISSION_UNKNOWN"
  \/ /\ rows[o][i].status = "SUBMITTED" /\ s = "CONFIRMED"
     /\ chain[o][rows[o][i].hash].state = "mined"
  \/ /\ rows[o][i].status = "SUBMITTED" /\ s = "REVERTED"
     /\ chain[o][rows[o][i].hash].state = "failed"

LEMMA StatusMoves ==
  ASSUME Inv, NEW o \in Operations, NEW i \in DOMAIN rows[o], NEW s \in AttemptStatuses,
         Moves(o, i, s), StatusSet(o, i, s), chain' = chain
  PROVE  /\ i = Len(rows[o])
         /\ \A d \in Calls : Sends(d) => call[d].op # o
         /\ s \in {"SUBMISSION_UNKNOWN", "REVERTED"} => Live(o) = {}
         /\ Grows(o)
         /\ OpOK(o)'
<1>0. OpOK(o) /\ rows[o] \in Seq(RowType)
  BY ZenonT(60) DEF Inv, TypeOK, RowType
<1>1. i = Len(rows[o])
  <2>1. rows[o][i].status # "REVERTED"
    BY DEF Moves
  <2>2. i < Len(rows[o]) => rows[o][i].status = "REVERTED"
    BY <1>0, ZenonT(60) DEF OpOK, RowsOK
  <2>3. i \in 1 .. Len(rows[o]) /\ Len(rows[o]) \in Nat
    BY <1>0
  <2> QED
    BY <2>1, <2>2, <2>3
<1>2. \A d \in Calls : Sends(d) => call[d].op # o
  BY <1>1, ZenonT(60) DEF Inv, SenderOK, Moves
<1>3. s \in {"SUBMISSION_UNKNOWN", "REVERTED"} => Live(o) = {}
  <2>1. \A h \in Live(o) : chain[o][h].state # "failed"
    BY DEF Live
  <2>2. \A h \in Live(o) : \/ Last(o).status = "SUBMITTED" /\ h = Last(o).hash
                           \/ Last(o).status \in {"SUBMISSION_UNKNOWN", "CONFIRMED"}
    BY <1>0 DEF OpOK, LiveOK, Hashed
  <2> QED
    BY <1>1, <2>1, <2>2, ZenonT(60) DEF Moves, Last
<1>4. Grows(o)
  BY <1>0, ZenonT(60) DEF StatusSet, Grows, Hashed, Moves
<1>5. RowsOK(o)'
  <2> SUFFICES ASSUME NEW j \in DOMAIN rows[o]
               PROVE  /\ rows'[o][j].active <=> j = Len(rows[o])
                      /\ j < Len(rows[o]) => rows'[o][j].status = "REVERTED"
                      /\ rows'[o][j].status \in Hashed => rows'[o][j].hash \in DOMAIN chain[o]
                      /\ rows'[o][j].status = "CONFIRMED" =>
                            chain[o][rows'[o][j].hash].state = "mined"
                      /\ rows'[o][j].status = "REVERTED" =>
                            chain[o][rows'[o][j].hash].state = "failed"
                      /\ rows'[o][j].amt = rows'[o][1].amt
    BY ZenonT(60) DEF StatusSet, RowsOK
  <2>1. 1 \in DOMAIN rows[o]
    BY <1>0
  <2>2. rows'[o][1].amt = rows[o][1].amt
    BY <2>1 DEF StatusSet
  <2>3. CASE j = i
    <3>1. /\ rows'[o][i].status = s /\ rows'[o][i].active = rows[o][i].active
          /\ rows'[o][i].amt = rows[o][i].amt /\ rows'[o][i].hash = rows[o][i].hash
      BY DEF StatusSet
    <3>2. rows'[o][i].active <=> i = Len(rows[o])
      <4>1. rows[o][i].active <=> i = Len(rows[o])
        BY <1>0, ZenonT(60) DEF OpOK, RowsOK
      <4> QED
        BY <3>1, <4>1
    <3>3. rows[o][i].amt = rows[o][1].amt
      BY <1>0, ZenonT(60) DEF OpOK, RowsOK
    <3>4. rows[o][i].status = "SUBMITTED" => rows[o][i].hash \in DOMAIN chain[o]
      BY <1>0, ZenonT(60) DEF OpOK, RowsOK, Hashed
    <3>5. s \in Hashed => rows[o][i].status = "SUBMITTED"
      BY <1>1, ZenonT(60) DEF Moves, Hashed
    <3>6. /\ s = "CONFIRMED" => chain[o][rows[o][i].hash].state = "mined"
          /\ s = "REVERTED" => chain[o][rows[o][i].hash].state = "failed"
      BY <1>1, ZenonT(60) DEF Moves
    <3> QED
      BY <1>1, <2>2, <2>3, <3>1, <3>2, <3>3, <3>4, <3>5, <3>6
  <2>4. CASE j # i
    BY <1>0, <1>1, <2>2, <2>4, ZenonT(60) DEF StatusSet, OpOK, RowsOK
  <2> QED
    BY <2>3, <2>4, ZenonT(60)
<1>6. LiveOK(o)'
  <2>1. Live(o)' = Live(o)
    BY DEF Live
  <2>2. rows'[o][i].status = s /\ rows'[o][i].hash = rows[o][i].hash /\ Len(rows'[o]) = Len(rows[o])
    BY DEF StatusSet
  <2> SUFFICES ASSUME NEW h \in Live(o)
               PROVE  /\ Len(rows'[o]) > 0
                      /\ rows'[o][i].status \in {"SUBMISSION_UNKNOWN", "SUBMITTED", "CONFIRMED"}
                      /\ rows'[o][i].status \in Hashed => h = rows'[o][i].hash
    BY <1>1, <2>1, <2>2 DEF LiveOK, Last
  <2>3. s = "CONFIRMED" /\ rows[o][i].status = "SUBMITTED"
    BY <1>3 DEF Moves
  <2>4. Len(rows[o]) > 0 /\ h = rows[o][i].hash
    BY <1>0, <1>1, <2>3 DEF OpOK, LiveOK, Last, Hashed
  <2> QED
    BY <2>2, <2>3, <2>4
<1>7. ChainOK(o)'
  <2>1. Live(o)' = Live(o) /\ 1 \in DOMAIN rows[o]
    BY <1>0 DEF Live
  <2> QED
    BY <1>0, <2>1 DEF StatusSet, OpOK, ChainOK
<1> QED
  BY <1>1, <1>2, <1>3, <1>4, <1>5, <1>6, <1>7, ZenonT(60) DEF OpOK

\* A call answers with the hash of a transaction that was mined.
LEMMA ReturnMined ==
  ASSUME Inv, NEW c \in Calls, NEW h \in DOMAIN chain[call[c].op], Return(c, h),
         chain[call[c].op][h].state = "mined", chain' = chain
  PROVE  /\ ReturnedIsMined' /\ returned' \subseteq Operations \X Nat
         /\ call' \in [Calls -> CallType]
         /\ \A d \in Calls \ {c} : call'[d] = call[d]
         /\ Knows(c)' /\ ~Sends(c)'
<1>0. call \in [Calls -> CallType] /\ call[c].op \in Operations
  BY DEF Inv, TypeOK, CallType
<1>1. call' = [call EXCEPT ![c] = Idle] /\ returned' = returned \cup {<<call[c].op, h>>}
  BY DEF Return
<1>2. call'[c] = Idle /\ call' \in [Calls -> CallType] /\ \A d \in Calls \ {c} : call'[d] = call[d]
  BY <1>0, <1>1, IdleType
<1>3. Knows(c)' /\ ~Sends(c)'
  BY <1>2 DEF Knows, Sends, Idle
<1>4. ReturnedIsMined'
  BY <1>1 DEF Inv, ReturnedIsMined
<1>5. h \in Nat
  BY <1>0 DEF Inv, TypeOK
<1> QED
  BY <1>1, <1>2, <1>3, <1>4 DEF Inv, TypeOK

LEMMA ConfirmInv ==
  ASSUME Inv, NEW c \in Calls, ResumeMined(c) \/ ConfirmOwn(c)
  PROVE  Inv'
<1> SUFFICES ASSUME NEW o, NEW i, o = call[c].op, i = call[c].id PROVE Inv'
  OBVIOUS
<1>0. /\ o \in Operations /\ OpOK(o) /\ Knows(c) /\ call[c].pc \in {"resume", "confirm"}
      /\ chain' = chain
  BY DEF Inv, TypeOK, ResumeMined, ConfirmOwn
<1>1. /\ i \in DOMAIN rows[o] /\ call[c].hash = rows[o][i].hash
      /\ rows[o][i].hash \in DOMAIN chain[o] /\ chain[o][rows[o][i].hash].state = "mined"
  BY <1>0, ZenonT(60) DEF Knows, OpOK, RowsOK
<1>2. CASE ~Owns(c, "SUBMITTED")
  <2>1. Throw(c) /\ UNCHANGED <<rows, chain, returned>>
    BY <1>2 DEF ResumeMined, ConfirmOwn
  <2> QED
    BY <2>1, ThrowInv
<1>3. CASE Owns(c, "SUBMITTED")
  <2>1. SetStatus(c, "CONFIRMED") /\ Return(c, call[c].hash) /\ rows[o][i].status = "SUBMITTED"
    BY <1>3, ZenonT(60) DEF ResumeMined, ConfirmOwn, Owns
  <2>2. rows' = [rows EXCEPT ![o][i].status = "CONFIRMED"]
    BY <2>1, ZenonT(60) DEF SetStatus
  <2>3. Moves(o, i, "CONFIRMED") /\ "CONFIRMED" \in AttemptStatuses
    BY <1>1, <2>1, ZenonT(60) DEF Moves, AttemptStatuses
  <2>4. StatusSet(o, i, "CONFIRMED")
    BY <1>0, <1>1, <2>2, <2>3, StatusEffect, ZenonT(60)
  <2>5. /\ \A d \in Calls : Sends(d) => call[d].op # o
        /\ Grows(o) /\ OpOK(o)'
    BY <1>0, <1>1, <2>3, <2>4, StatusMoves, ZenonT(60)
  <2>6. rows' \in [Operations -> Seq(RowType)] /\ \A q \in Operations \ {o} : rows'[q] = rows[q]
    BY <2>4, ZenonT(60) DEF StatusSet
  <2>7. /\ ReturnedIsMined' /\ returned' \subseteq Operations \X Nat
        /\ call' \in [Calls -> CallType]
        /\ \A d \in Calls \ {c} : call'[d] = call[d]
        /\ Knows(c)' /\ ~Sends(c)'
    BY <1>0, <1>1, <2>1, ReturnMined, ZenonT(60)
  <2>8. TypeOK'
    BY <1>0, <2>6, <2>7, ZenonT(60) DEF Inv, TypeOK, CallType, RowType
  <2>9. SenderOK(c)'
    BY <2>7 DEF SenderOK
  <2> QED
    BY <1>0, <2>5, <2>6, <2>7, <2>8, <2>9, StepFrame, ZenonT(60)
<1> QED
  BY <1>2, <1>3

LEMMA RowStays ==
  ASSUME Inv, NEW o \in Operations, NEW i \in DOMAIN rows[o], Grows(o)
  PROVE  i \in DOMAIN rows'[o] /\ rows'[o][1].amt = rows[o][1].amt
<1>1. rows[o] \in Seq(RowType)
  BY ZenonT(60) DEF Inv, TypeOK, RowType
<1>2. 1 \in DOMAIN rows[o]
  BY <1>1
<1> QED
  BY <1>2 DEF Grows

LEMMA ThrowEffect ==
  ASSUME Inv, NEW c \in Calls, Throw(c)
  PROVE  /\ call' \in [Calls -> CallType]
         /\ \A d \in Calls \ {c} : call'[d] = call[d]
         /\ Knows(c)' /\ ~Sends(c)'
<1>1. call' = [call EXCEPT ![c] = Idle] /\ call \in [Calls -> CallType]
  BY DEF Inv, TypeOK, CallType, Throw
<1>2. call'[c] = Idle /\ call' \in [Calls -> CallType] /\ \A d \in Calls \ {c} : call'[d] = call[d]
  BY <1>1, IdleType
<1> QED
  BY <1>2 DEF Knows, Sends, Idle

\* The three other compare-and-sets on a row.
LEMMA RevertInv ==
  ASSUME Inv, NEW c \in Calls, DisownFailed(c) \/ FailOwn(c)
  PROVE  Inv'
<1> SUFFICES ASSUME NEW o, NEW i, o = call[c].op, i = call[c].id PROVE Inv'
  OBVIOUS
<1>0. /\ o \in Operations /\ OpOK(o) /\ Knows(c) /\ call[c].pc \in {"disown", "fail"}
      /\ chain' = chain /\ returned' = returned
  BY DEF Inv, TypeOK, DisownFailed, FailOwn
<1>1. /\ i \in DOMAIN rows[o] /\ call[c].amt = rows[o][1].amt
      /\ rows[o][i].hash \in DOMAIN chain[o] /\ chain[o][rows[o][i].hash].state = "failed"
  BY <1>0, ZenonT(60) DEF Knows, OpOK, RowsOK
<1>2. CASE ~Owns(c, "SUBMITTED")
  <2>1. Throw(c) /\ UNCHANGED <<rows, chain, returned>>
    BY <1>2, ZenonT(60) DEF DisownFailed, FailOwn
  <2> QED
    BY <2>1, ThrowInv
<1>3. CASE Owns(c, "SUBMITTED")
  <2>1. SetStatus(c, "REVERTED") /\ rows[o][i].status = "SUBMITTED"
    BY <1>3, ZenonT(60) DEF DisownFailed, FailOwn, Owns
  <2>2. rows' = [rows EXCEPT ![o][i].status = "REVERTED"]
    BY <2>1, ZenonT(60) DEF SetStatus
  <2>3. Moves(o, i, "REVERTED") /\ "REVERTED" \in AttemptStatuses
    BY <1>1, <2>1, ZenonT(60) DEF Moves, AttemptStatuses
  <2>4. StatusSet(o, i, "REVERTED")
    BY <1>0, <1>1, <2>2, <2>3, StatusEffect, ZenonT(60)
  <2>5. /\ \A d \in Calls : Sends(d) => call[d].op # o
        /\ Grows(o) /\ OpOK(o)'
    BY <1>0, <1>1, <2>3, <2>4, StatusMoves, ZenonT(60)
  <2>6. rows' \in [Operations -> Seq(RowType)] /\ \A q \in Operations \ {o} : rows'[q] = rows[q]
    BY <2>4, ZenonT(60) DEF StatusSet
  <2>7. /\ call' \in [Calls -> CallType]
        /\ \A d \in Calls \ {c} : call'[d] = call[d]
        /\ Knows(c)' /\ ~Sends(c)'
    <3>1. CASE Throw(c)
      BY <3>1, ThrowEffect
    <3>2. CASE Goto(c, "replace")
      BY <1>0, <1>1, <2>5, <3>2, GotoEffect, RowStays, ZenonT(60) DEF Knows, Sends, PCs
    <3> QED
      BY <1>3, <3>1, <3>2 DEF DisownFailed, FailOwn
  <2>8. TypeOK'
    BY <1>0, <2>6, <2>7, ZenonT(60) DEF Inv, TypeOK, CallType, RowType
  <2>9. SenderOK(c)' /\ \A q \in Operations : Grows(q)
    BY <1>0, <2>5, <2>6, <2>7, OpStays, ZenonT(60) DEF Inv, SenderOK
  <2>10. ReturnedIsMined'
    BY <1>0, <2>9, ReturnedFrame
  <2> QED
    BY <1>0, <2>5, <2>6, <2>7, <2>8, <2>9, <2>10, StepFrame, ZenonT(60)
<1> QED
  BY <1>2, <1>3

LEMMA MarkInv ==
  ASSUME Inv, NEW c \in Calls, MarkSubmissionAttempted(c)
  PROVE  Inv'
<1> SUFFICES ASSUME NEW o, NEW i, o = call[c].op, i = call[c].id PROVE Inv'
  OBVIOUS
<1>0. /\ o \in Operations /\ OpOK(o) /\ Knows(c) /\ call[c].pc = "mark"
      /\ chain' = chain /\ returned' = returned
  BY DEF Inv, TypeOK, MarkSubmissionAttempted
<1>1. i \in DOMAIN rows[o] /\ call[c].amt = rows[o][1].amt
  BY <1>0, ZenonT(60) DEF Knows
<1>2. CASE ~Owns(c, "PREPARED")
  <2>1. Throw(c) /\ UNCHANGED <<rows, chain, returned>>
    BY <1>2 DEF MarkSubmissionAttempted
  <2> QED
    BY <2>1, ThrowInv
<1>3. CASE Owns(c, "PREPARED")
  <2>1. /\ SetStatus(c, "SUBMISSION_UNKNOWN") /\ rows[o][i].status = "PREPARED"
        /\ Goto(c, "transfer")
    BY <1>3 DEF MarkSubmissionAttempted, Owns
  <2>2. rows' = [rows EXCEPT ![o][i].status = "SUBMISSION_UNKNOWN"]
    BY <2>1, ZenonT(60) DEF SetStatus
  <2>3. Moves(o, i, "SUBMISSION_UNKNOWN") /\ "SUBMISSION_UNKNOWN" \in AttemptStatuses
    BY <1>1, <2>1 DEF Moves, AttemptStatuses
  <2>4. StatusSet(o, i, "SUBMISSION_UNKNOWN")
    BY <1>0, <1>1, <2>2, <2>3, StatusEffect, ZenonT(60)
  <2>5. /\ \A d \in Calls : Sends(d) => call[d].op # o
        /\ Grows(o) /\ OpOK(o)' /\ i = Len(rows[o]) /\ Live(o) = {}
    BY <1>0, <1>1, <2>3, <2>4, StatusMoves, ZenonT(60)
  <2>6. /\ rows' \in [Operations -> Seq(RowType)]
        /\ \A q \in Operations \ {o} : rows'[q] = rows[q]
        /\ Len(rows'[o]) = Len(rows[o]) /\ rows'[o][i].status = "SUBMISSION_UNKNOWN"
    BY <2>4, ZenonT(60) DEF StatusSet
  <2>7. /\ call' \in [Calls -> CallType]
        /\ \A d \in Calls \ {c} : call'[d] = call[d]
        /\ call'[c].pc = "transfer" /\ call'[c].op = o /\ call'[c].id = i
        /\ call'[c].amt = call[c].amt
    BY <2>1, GotoEffect, ZenonT(60) DEF PCs
  <2>8. TypeOK'
    BY <1>0, <2>6, <2>7, ZenonT(60) DEF Inv, TypeOK, CallType, RowType
  <2>9. Knows(c)'
    BY <1>0, <1>1, <2>5, <2>7, RowStays, ZenonT(60) DEF Knows
  <2>10. SenderOK(c)'
    BY <1>0, <2>5, <2>6, <2>7, ZenonT(60) DEF SenderOK, Sends, Live
  <2>11. \A q \in Operations : Grows(q)
    BY <1>0, <2>5, <2>6, OpStays, ZenonT(60) DEF Inv
  <2>12. ReturnedIsMined'
    BY <1>0, <2>11, ReturnedFrame
  <2> QED
    BY <1>0, <2>5, <2>6, <2>7, <2>8, <2>9, <2>10, <2>12, StepFrame, ZenonT(60)
<1> QED
  BY <1>2, <1>3

-----------------------------------------------------------------------------
(* Steps that add a row or a transaction, and the theorems on safety.      *)

\* The table after a new row for amount a became operation o's active one.
RowAdded(o, a) ==
  /\ rows' \in [Operations -> Seq(RowType)]
  /\ \A q \in Operations \ {o} : rows'[q] = rows[q]
  /\ Len(rows'[o]) = Len(rows[o]) + 1
  /\ \A j \in DOMAIN rows[o] : /\ rows'[o][j].status = rows[o][j].status
                               /\ rows'[o][j].amt = rows[o][j].amt
                               /\ rows'[o][j].hash = rows[o][j].hash
                               /\ rows'[o][j].active = FALSE
  /\ rows'[o][Len(rows[o]) + 1] = NewRow(a)

\* Call c went on to pc with row n, or with hash n; the other calls stand.
AtRow(c, p, n) ==
  /\ call' \in [Calls -> CallType]
  /\ \A d \in Calls \ {c} : call'[d] = call[d]
  /\ call'[c].pc = p /\ call'[c].id = n /\ call'[c].op = call[c].op
  /\ call'[c].amt = call[c].amt /\ call'[c].hash = call[c].hash

AtHash(c, p, n) ==
  /\ call' \in [Calls -> CallType]
  /\ \A d \in Calls \ {c} : call'[d] = call[d]
  /\ call'[c].pc = p /\ call'[c].hash = n /\ call'[c].op = call[c].op
  /\ call'[c].amt = call[c].amt /\ call'[c].id = call[c].id

LEMMA CallAtRow ==
  ASSUME call \in [Calls -> CallType], NEW c \in Calls, NEW p \in PCs, NEW n \in Nat,
         call' = [call EXCEPT ![c].pc = p, ![c].id = n]
  PROVE  AtRow(c, p, n)
  BY ZenonT(60) DEF CallType, AtRow

LEMMA CallAtHash ==
  ASSUME call \in [Calls -> CallType], NEW c \in Calls, NEW p \in PCs, NEW n \in Nat,
         call' = [call EXCEPT ![c].pc = p, ![c].hash = n]
  PROVE  AtHash(c, p, n)
  BY ZenonT(60) DEF CallType, AtHash

\* The rows t are the rows s with activeKey given up.
Deactivated(s, t) ==
  /\ t \in Seq(RowType) /\ Len(t) = Len(s)
  /\ \A j \in DOMAIN s : /\ t[j].status = s[j].status
                         /\ t[j].amt = s[j].amt
                         /\ t[j].hash = s[j].hash
                         /\ t[j].active = FALSE

LEMMA AppendEffect ==
  ASSUME Inv, NEW o \in Operations, NEW a \in Amounts, NEW t, Deactivated(rows[o], t),
         rows' = [rows EXCEPT ![o] = Append(t, NewRow(a))]
  PROVE  RowAdded(o, a)
<1>0. /\ t \in Seq(RowType) /\ Len(t) = Len(rows[o])
      /\ \A j \in DOMAIN rows[o] : /\ t[j].status = rows[o][j].status
                                    /\ t[j].amt = rows[o][j].amt
                                    /\ t[j].hash = rows[o][j].hash
                                    /\ t[j].active = FALSE
  BY DEF Deactivated
<1>1. rows \in [Operations -> Seq(RowType)] /\ rows[o] \in Seq(RowType)
  BY ZenonT(60) DEF Inv, TypeOK, RowType
<1>2. NewRow(a) \in RowType
  BY DEF NewRow, RowType, AttemptStatuses
<1> DEFINE u == Append(t, NewRow(a))
<1>3. /\ u \in Seq(RowType) /\ Len(u) = Len(rows[o]) + 1 /\ u[Len(rows[o]) + 1] = NewRow(a)
      /\ \A j \in DOMAIN rows[o] : u[j] = t[j]
  BY <1>0, <1>1, <1>2
<1>4. rows' = [rows EXCEPT ![o] = u]
  OBVIOUS
<1> HIDE DEF u
<1>5. rows'[o] = u /\ rows' \in [Operations -> Seq(RowType)]
      /\ \A q \in Operations \ {o} : rows'[q] = rows[q]
  BY <1>1, <1>3, <1>4, ZenonT(60)
<1> QED
  BY <1>0, <1>3, <1>5 DEF RowAdded

\* A row is added only when nothing of the operation can still deliver.
LEMMA RowAddedMoves ==
  ASSUME Inv, NEW o \in Operations, NEW a \in Amounts, RowAdded(o, a), chain' = chain,
         Len(rows[o]) > 0 => Last(o).status = "REVERTED" /\ a = rows[o][1].amt
  PROVE  /\ \A d \in Calls : Sends(d) => call[d].op # o
         /\ Live(o) = {}
         /\ rows'[o][1].amt = a
         /\ Grows(o)
         /\ OpOK(o)'
<1>a. OpOK(o) /\ rows[o] \in Seq(RowType)
  BY ZenonT(60) DEF Inv, TypeOK, RowType
<1>b. rows'[o] \in Seq(RowType) /\ Len(rows'[o]) = Len(rows[o]) + 1
  BY DEF RowAdded
<1>0. /\ OpOK(o) /\ rows[o] \in Seq(RowType) /\ Len(rows[o]) \in Nat
      /\ DOMAIN rows[o] = 1 .. Len(rows[o])
      /\ rows'[o] \in Seq(RowType) /\ DOMAIN rows'[o] = 1 .. Len(rows[o]) + 1
  BY <1>a, <1>b
<1>1. Live(o) = {}
  BY <1>0 DEF OpOK, LiveOK
<1>2. \A d \in Calls : Sends(d) => call[d].op # o
  <2> SUFFICES ASSUME NEW d \in Calls, Sends(d), call[d].op = o PROVE FALSE
    OBVIOUS
  <2>1. /\ call[d].id \in DOMAIN rows[o] /\ call[d].id = Len(rows[o])
        /\ Last(o).status = "SUBMISSION_UNKNOWN"
    BY ZenonT(60) DEF Inv, SenderOK, Sends, Knows, Last
  <2>2. Len(rows[o]) > 0
    BY <1>0, <2>1
  <2> QED
    BY <2>1, <2>2
<1>3. rows'[o][1].amt = a
  <2>1. CASE Len(rows[o]) = 0
    BY <2>1 DEF RowAdded, NewRow
  <2>2. CASE Len(rows[o]) # 0
    <3>1. 1 \in DOMAIN rows[o] /\ a = rows[o][1].amt
      BY <1>0, <2>2
    <3> QED
      BY <3>1 DEF RowAdded
  <2> QED
    BY <2>1, <2>2
<1>4. Grows(o)
  BY <1>0 DEF RowAdded, Grows, Hashed
<1>5. RowsOK(o)'
  <2> SUFFICES ASSUME NEW j \in DOMAIN rows'[o]
               PROVE  /\ rows'[o][j].active <=> j = Len(rows'[o])
                      /\ j < Len(rows'[o]) => rows'[o][j].status = "REVERTED"
                      /\ rows'[o][j].status \in Hashed => rows'[o][j].hash \in DOMAIN chain[o]
                      /\ rows'[o][j].status = "CONFIRMED" =>
                            chain[o][rows'[o][j].hash].state = "mined"
                      /\ rows'[o][j].status = "REVERTED" =>
                            chain[o][rows'[o][j].hash].state = "failed"
                      /\ rows'[o][j].amt = rows'[o][1].amt
    BY ZenonT(60) DEF RowsOK
  <2>1. CASE j = Len(rows[o]) + 1
    <3>1. rows'[o][j] = NewRow(a) /\ Len(rows'[o]) = j
      BY <2>1, ZenonT(60) DEF RowAdded
    <3> QED
      BY <1>3, <3>1 DEF NewRow, Hashed
  <2>2. CASE j # Len(rows[o]) + 1
    <3>1. j \in DOMAIN rows[o] /\ j < Len(rows'[o]) /\ 0 < Len(rows[o])
      BY <1>0, <2>2 DEF RowAdded
    <3>2. rows[o][j].status = "REVERTED" /\ rows[o][j].amt = a
      <4>1. j = Len(rows[o]) \/ j < Len(rows[o])
        BY <1>0, <3>1
      <4> QED
        BY <1>0, <3>1, <4>1, ZenonT(60) DEF OpOK, RowsOK, Last
    <3>3. rows[o][j].hash \in DOMAIN chain[o] /\ chain[o][rows[o][j].hash].state = "failed"
      BY <1>0, <3>1, <3>2, ZenonT(60) DEF OpOK, RowsOK, Hashed
    <3>4. /\ rows'[o][j].status = "REVERTED" /\ rows'[o][j].amt = a
          /\ rows'[o][j].hash = rows[o][j].hash /\ rows'[o][j].active = FALSE
      BY <3>1, <3>2 DEF RowAdded
    <3> QED
      BY <1>3, <3>1, <3>3, <3>4
  <2> QED
    BY <2>1, <2>2, ZenonT(60)
<1>6. LiveOK(o)'
  BY <1>1 DEF LiveOK, Live
<1>7. ChainOK(o)'
  BY <1>0, <1>1, <1>3 DEF OpOK, ChainOK, Live, RowAdded
<1> QED
  BY <1>1, <1>2, <1>3, <1>4, <1>5, <1>6, <1>7 DEF OpOK

\* create and replaceActive, and the call that goes on to markSubmissionAttempted.
LEMMA AddInv ==
  ASSUME Inv, NEW c \in Calls, NEW o \in Operations, NEW a \in Amounts, o = call[c].op,
         a = call[c].amt, RowAdded(o, a), UNCHANGED <<chain, returned>>,
         Len(rows[o]) > 0 => Last(o).status = "REVERTED" /\ a = rows[o][1].amt,
         AtRow(c, "mark", Len(rows[o]) + 1)
  PROVE  Inv'
<1>0. rows[o] \in Seq(RowType) /\ Len(rows[o]) \in Nat /\ call \in [Calls -> CallType]
  <2>1. rows \in [Operations -> Seq(RowType)] /\ call \in [Calls -> CallType]
    BY ZenonT(60) DEF Inv, TypeOK, RowType, CallType
  <2> QED
    BY <2>1
<1>1. /\ \A d \in Calls : Sends(d) => call[d].op # o
      /\ rows'[o][1].amt = a /\ Grows(o) /\ OpOK(o)'
  BY RowAddedMoves
<1>2. /\ rows' \in [Operations -> Seq(RowType)]
      /\ \A q \in Operations \ {o} : rows'[q] = rows[q]
      /\ DOMAIN rows'[o] = 1 .. Len(rows[o]) + 1
  <2>1. /\ rows' \in [Operations -> Seq(RowType)]
        /\ \A q \in Operations \ {o} : rows'[q] = rows[q]
        /\ Len(rows'[o]) = Len(rows[o]) + 1
    BY ZenonT(60) DEF RowAdded
  <2> QED
    BY <2>1
<1>3. /\ call' \in [Calls -> CallType]
      /\ \A d \in Calls \ {c} : call'[d] = call[d]
      /\ call'[c].pc = "mark" /\ call'[c].op = o /\ call'[c].id = Len(rows[o]) + 1
      /\ call'[c].amt = a
  BY DEF AtRow
<1>4. TypeOK'
  BY <1>2, <1>3, ZenonT(60) DEF Inv, TypeOK, CallType, RowType
<1>5. Knows(c)' /\ SenderOK(c)'
  BY <1>1, <1>2, <1>3 DEF Knows, SenderOK, Sends
<1>6. \A q \in Operations : Grows(q)
  BY <1>1, <1>2, ZenonT(60) DEF Grows
<1>7. ReturnedIsMined'
  BY <1>6, ReturnedFrame
<1> QED
  BY <1>1, <1>2, <1>3, <1>4, <1>5, <1>7, StepFrame

LEMMA CreateAttemptInv ==
  ASSUME Inv, NEW c \in Calls, CreateAttempt(c)
  PROVE  Inv'
<1> SUFFICES ASSUME NEW o, NEW a, o = call[c].op, a = call[c].amt PROVE Inv'
  OBVIOUS
<1>0. o \in Operations /\ a \in Amounts /\ OpOK(o) /\ chain' = chain /\ returned' = returned
  BY DEF Inv, TypeOK, CreateAttempt
<1>a. rows \in [Operations -> Seq(RowType)] /\ call \in [Calls -> CallType]
  BY ZenonT(60) DEF Inv, TypeOK, RowType, CallType
<1>b. rows[o] \in Seq(RowType)
  BY <1>0, <1>a
<1>1. CASE \E i \in DOMAIN rows[o] : rows[o][i].active
  <2>1. Throw(c) /\ UNCHANGED <<rows, chain, returned>>
    BY <1>0, <1>1, ZenonT(60) DEF CreateAttempt
  <2> QED
    BY <2>1, ThrowInv
<1>2. CASE ~ \E i \in DOMAIN rows[o] : rows[o][i].active
  <2>1. Len(rows[o]) = 0
    <3> SUFFICES ASSUME Len(rows[o]) # 0 PROVE FALSE
      OBVIOUS
    <3>1. Len(rows[o]) \in DOMAIN rows[o]
      BY <1>b
    <3> QED
      BY <1>0, <1>2, <3>1, ZenonT(60) DEF OpOK, RowsOK
  <2>2. /\ rows' = [rows EXCEPT ![o] = Append(rows[o], NewRow(a))]
        /\ call' = [call EXCEPT ![c].pc = "mark", ![c].id = Len(rows[o]) + 1]
    BY <1>2, ZenonT(60) DEF CreateAttempt
  <2>3. Deactivated(rows[o], rows[o])
    <3>1. \A j \in DOMAIN rows[o] : FALSE
      BY <1>b, <2>1
    <3> QED
      BY <1>b, <3>1 DEF Deactivated
  <2>4. RowAdded(o, a)
    BY <1>0, <2>2, <2>3, AppendEffect, ZenonT(60)
  <2>5. "mark" \in PCs /\ Len(rows[o]) + 1 \in Nat
    BY <1>b DEF PCs
  <2>6. AtRow(c, "mark", Len(rows[o]) + 1)
    BY <1>a, <2>2, <2>5, CallAtRow, ZenonT(60)
  <2> QED
    BY <1>0, <2>1, <2>4, <2>6, AddInv
<1> QED
  BY <1>1, <1>2

\* replaceActive's first update takes activeKey from the only row that has it.
Inactive(s, i) == [s EXCEPT ![i].active = FALSE]

LEMMA InactiveRow ==
  ASSUME NEW s \in Seq(RowType), NEW i \in DOMAIN s,
         \A j \in DOMAIN s : s[j].active <=> j = i
  PROVE  Deactivated(s, Inactive(s, i))
<1>1. \A j \in DOMAIN s : s[j] \in RowType /\ s[j].active \in BOOLEAN
  <2>1. \A j \in DOMAIN s : s[j] \in RowType
    OBVIOUS
  <2> QED
    BY <2>1 DEF RowType
<1> DEFINE x == [s[i] EXCEPT !.active = FALSE]
           t == [s EXCEPT ![i] = x]
<1>2. /\ x \in RowType /\ x.active = FALSE /\ x.status = s[i].status
      /\ x.amt = s[i].amt /\ x.hash = s[i].hash
  BY <1>1, ZenonT(60) DEF RowType
<1>3. Inactive(s, i) = t
  BY DEF Inactive
<1> HIDE DEF x
<1>4. /\ t \in Seq(RowType) /\ Len(t) = Len(s) /\ t[i] = x
      /\ \A j \in DOMAIN s \ {i} : t[j] = s[j]
  BY <1>2
<1> HIDE DEF t
<1> QED
  BY <1>1, <1>2, <1>3, <1>4 DEF Deactivated

LEMMA ReplaceActiveInv ==
  ASSUME Inv, NEW c \in Calls, ReplaceActive(c)
  PROVE  Inv'
<1> SUFFICES ASSUME NEW o, NEW a, NEW i, o = call[c].op, a = call[c].amt, i = call[c].id
             PROVE  Inv'
  OBVIOUS
<1>0. /\ o \in Operations /\ a \in Amounts /\ OpOK(o) /\ chain' = chain /\ returned' = returned
      /\ call[c].pc = "replace" /\ Knows(c)
  BY ZenonT(60) DEF Inv, TypeOK, ReplaceActive
<1>a. rows \in [Operations -> Seq(RowType)] /\ call \in [Calls -> CallType]
  BY ZenonT(60) DEF Inv, TypeOK, RowType, CallType
<1>b. rows[o] \in Seq(RowType) /\ i \in DOMAIN rows[o] /\ a = rows[o][1].amt
  BY <1>0, <1>a DEF Knows
<1>1. CASE ~(rows[o][i].active /\ rows[o][i].status = "REVERTED")
  <2>1. Throw(c) /\ UNCHANGED <<rows, chain, returned>>
    BY <1>0, <1>1, ZenonT(60) DEF ReplaceActive
  <2> QED
    BY <2>1, ThrowInv
<1>2. CASE rows[o][i].active /\ rows[o][i].status = "REVERTED"
  <2>1. i = Len(rows[o]) /\ Last(o).status = "REVERTED"
    BY <1>0, <1>b, <1>2, ZenonT(60) DEF OpOK, RowsOK, Last
  <2> DEFINE t == Inactive(rows[o], i)
  <2>2. /\ rows' = [rows EXCEPT ![o] = Append(t, NewRow(a))]
        /\ call' = [call EXCEPT ![c].pc = "mark", ![c].id = Len(rows[o]) + 1]
    BY <1>2, ZenonT(60) DEF ReplaceActive, Inactive
  <2>3. Deactivated(rows[o], t)
    <3>1. \A j \in DOMAIN rows[o] : rows[o][j].active <=> j = i
      BY <1>0, <2>1, ZenonT(60) DEF OpOK, RowsOK
    <3> QED
      BY <1>b, <3>1, InactiveRow, ZenonT(60)
  <2> HIDE DEF t
  <2>4. RowAdded(o, a)
    BY <1>0, <2>2, <2>3, AppendEffect, ZenonT(60)
  <2>5. "mark" \in PCs /\ Len(rows[o]) + 1 \in Nat
    BY <1>b DEF PCs
  <2>6. AtRow(c, "mark", Len(rows[o]) + 1)
    BY <1>a, <2>2, <2>5, CallAtRow, ZenonT(60)
  <2> QED
    BY <1>0, <1>b, <2>1, <2>4, <2>6, AddInv, ZenonT(60)
<1> QED
  BY <1>1, <1>2, ZenonT(60)

\* The chain after a transaction for amount a was broadcast for operation o.
TxAdded(o, a) ==
  /\ chain' \in [Operations -> Seq(TxType)]
  /\ \A q \in Operations \ {o} : chain'[q] = chain[q]
  /\ Len(chain'[o]) = Len(chain[o]) + 1
  /\ \A h \in DOMAIN chain[o] : chain'[o][h] = chain[o][h]
  /\ chain'[o][Len(chain[o]) + 1].state = "pending"
  /\ chain'[o][Len(chain[o]) + 1].amt = a

LEMMA BroadcastEffect ==
  ASSUME Inv, NEW o \in Operations, NEW a \in Amounts,
         chain' = [chain EXCEPT ![o] = Append(chain[o], [state |-> "pending", amt |-> a])]
  PROVE  TxAdded(o, a)
<1>1. chain \in [Operations -> Seq(TxType)]
  BY ZenonT(60) DEF Inv, TypeOK, TxType
<1> DEFINE x == [state |-> "pending", amt |-> a]
           u == Append(chain[o], x)
<1>2. x \in TxType /\ x.state = "pending" /\ x.amt = a
  BY DEF TxType
<1>3. chain' = [chain EXCEPT ![o] = u]
  OBVIOUS
<1> HIDE DEF x
<1>4. /\ u \in Seq(TxType) /\ Len(u) = Len(chain[o]) + 1 /\ u[Len(chain[o]) + 1] = x
      /\ \A h \in DOMAIN chain[o] : u[h] = chain[o][h]
  BY <1>1, <1>2
<1> HIDE DEF u
<1>5. chain'[o] = u /\ chain' \in [Operations -> Seq(TxType)]
      /\ \A q \in Operations \ {o} : chain'[q] = chain[q]
  BY <1>1, <1>3, <1>4
<1> QED
  BY <1>2, <1>4, <1>5 DEF TxAdded

\* A broadcast from the operation's durable commit leaves one live transaction.
LEMMA TxAddedMoves ==
  ASSUME Inv, NEW o \in Operations, NEW a \in Amounts, TxAdded(o, a), rows' = rows,
         Len(rows[o]) > 0, a = rows[o][1].amt, Last(o).status = "SUBMISSION_UNKNOWN",
         Live(o) = {}
  PROVE  /\ Grows(o) /\ OpOK(o)'
         /\ Live(o)' \subseteq {Len(chain[o]) + 1}
         /\ Len(chain[o]) + 1 \in DOMAIN chain'[o] /\ Len(chain[o]) + 1 \in Nat
<1>a. OpOK(o) /\ chain[o] \in Seq(TxType)
  BY ZenonT(60) DEF Inv, TypeOK, TxType
<1>b. chain'[o] \in Seq(TxType) /\ Len(chain'[o]) = Len(chain[o]) + 1
  BY DEF TxAdded
<1>0. /\ DOMAIN chain[o] = 1 .. Len(chain[o]) /\ Len(chain[o]) \in Nat
      /\ DOMAIN chain'[o] = 1 .. Len(chain[o]) + 1
  BY <1>a, <1>b
<1>1. \A h \in DOMAIN chain'[o] : h \in DOMAIN chain[o] \/ h = Len(chain[o]) + 1
  BY <1>0
<1>2. Grows(o)
  BY <1>0 DEF TxAdded, Grows
<1>3. Live(o)' \subseteq {Len(chain[o]) + 1}
  BY <1>1 DEF Live, TxAdded
<1>4. RowsOK(o)'
  <2>1. /\ DOMAIN chain[o] \subseteq DOMAIN chain'[o]
        /\ \A h \in DOMAIN chain[o] : chain'[o][h] = chain[o][h]
    BY <1>0 DEF TxAdded
  <2>2. \A i \in DOMAIN rows[o] :
          /\ rows[o][i].status = "CONFIRMED" => chain'[o][rows[o][i].hash].state = "mined"
          /\ rows[o][i].status = "REVERTED" => chain'[o][rows[o][i].hash].state = "failed"
    BY <1>a, <2>1, ZenonT(60) DEF OpOK, RowsOK, Hashed
  <2> QED
    BY <1>a, <2>1, <2>2, ZenonT(60) DEF OpOK, RowsOK
<1>5. LiveOK(o)'
  BY DEF LiveOK, Last, Hashed
<1>6. ChainOK(o)'
  BY <1>a, <1>1, <1>3 DEF OpOK, ChainOK, TxAdded
<1> QED
  BY <1>0, <1>2, <1>3, <1>4, <1>5, <1>6 DEF OpOK

LEMMA TransferInv ==
  ASSUME Inv, NEW c \in Calls, Transfer(c)
  PROVE  Inv'
<1> SUFFICES ASSUME NEW o, NEW a, NEW i, o = call[c].op, a = call[c].amt, i = call[c].id
             PROVE  Inv'
  OBVIOUS
<1>0. /\ o \in Operations /\ a \in Amounts /\ rows' = rows /\ returned' = returned
      /\ call[c].pc = "transfer" /\ Knows(c) /\ SenderOK(c)
  BY DEF Inv, TypeOK, Transfer
<1>a. /\ rows \in [Operations -> Seq(RowType)] /\ call \in [Calls -> CallType]
      /\ chain \in [Operations -> Seq(TxType)]
  BY ZenonT(60) DEF Inv, TypeOK, RowType, CallType, TxType
<1>b. rows[o] \in Seq(RowType) /\ chain[o] \in Seq(TxType) /\ Len(chain[o]) + 1 \in Nat
  BY <1>0, <1>a
<1>1. /\ i \in DOMAIN rows[o] /\ a = rows[o][1].amt /\ i = Len(rows[o])
      /\ Last(o).status = "SUBMISSION_UNKNOWN" /\ Live(o) = {}
      /\ \A d \in Calls \ {c} : Sends(d) => call[d].op # o
  BY <1>0, ZenonT(60) DEF Knows, SenderOK, Sends, Last
<1>2. TxAdded(o, a)
  <2>1. chain' = [chain EXCEPT ![o] = Append(chain[o], [state |-> "pending", amt |-> a])]
    BY ZenonT(60) DEF Transfer
  <2> QED
    BY <1>0, <2>1, BroadcastEffect, ZenonT(60)
<1>3. Len(rows[o]) > 0
  BY <1>b, <1>1
<1>4. /\ Grows(o) /\ OpOK(o)' /\ Live(o)' \subseteq {Len(chain[o]) + 1}
      /\ Len(chain[o]) + 1 \in DOMAIN chain'[o]
  BY <1>0, <1>1, <1>2, <1>3, TxAddedMoves, ZenonT(60)
<1>5. /\ chain' \in [Operations -> Seq(TxType)]
      /\ \A q \in Operations \ {o} : chain'[q] = chain[q]
  BY <1>2, ZenonT(60) DEF TxAdded
<1>6. ReturnedIsMined'
  <2>1. \A q \in Operations : Grows(q)
    BY <1>0, <1>4, <1>5, ZenonT(60) DEF Grows
  <2> QED
    BY <1>0, <2>1, ReturnedFrame
<1>7. CASE call' = [call EXCEPT ![c].pc = "record", ![c].hash = Len(chain[o]) + 1]
  <2>1. "record" \in PCs
    BY DEF PCs
  <2>2. AtHash(c, "record", Len(chain[o]) + 1)
    BY <1>a, <1>b, <1>7, <2>1, CallAtHash, ZenonT(60)
  <2>3. /\ call' \in [Calls -> CallType]
        /\ \A d \in Calls \ {c} : call'[d] = call[d]
        /\ call'[c].pc = "record" /\ call'[c].hash = Len(chain[o]) + 1
        /\ call'[c].op = o /\ call'[c].amt = a /\ call'[c].id = i
    BY <2>2 DEF AtHash
  <2>4. TypeOK'
    BY <1>0, <1>5, <2>3, ZenonT(60) DEF Inv, TypeOK, CallType, TxType
  <2>5. Knows(c)' /\ SenderOK(c)'
    BY <1>0, <1>1, <1>4, <2>3, ZenonT(60) DEF Knows, SenderOK, Sends, Last
  <2> QED
    BY <1>0, <1>1, <1>4, <1>5, <1>6, <2>3, <2>4, <2>5, StepFrame, ZenonT(60)
<1>8. CASE Throw(c)
  <2>1. /\ call' \in [Calls -> CallType]
        /\ \A d \in Calls \ {c} : call'[d] = call[d]
        /\ Knows(c)' /\ ~Sends(c)'
    BY <1>8, ThrowEffect
  <2>4. TypeOK'
    BY <1>0, <1>5, <2>1, ZenonT(60) DEF Inv, TypeOK, CallType, TxType
  <2>5. Knows(c)' /\ SenderOK(c)'
    BY <2>1 DEF SenderOK
  <2> QED
    BY <1>0, <1>1, <1>4, <1>5, <1>6, <2>1, <2>4, <2>5, StepFrame, ZenonT(60)
<1>9. \/ call' = [call EXCEPT ![c].pc = "record", ![c].hash = Len(chain[o]) + 1]
      \/ Throw(c)
  BY DEF Transfer
<1> QED
  BY <1>7, <1>8, <1>9

\* The table after row i of operation o became SUBMITTED with hash h.
HashSet(o, i, h) ==
  /\ rows' \in [Operations -> Seq(RowType)]
  /\ \A q \in Operations \ {o} : rows'[q] = rows[q]
  /\ Len(rows'[o]) = Len(rows[o]) /\ DOMAIN rows'[o] = DOMAIN rows[o]
  /\ \A j \in DOMAIN rows[o] \ {i} : rows'[o][j] = rows[o][j]
  /\ rows'[o][i].status = "SUBMITTED" /\ rows'[o][i].hash = h
  /\ rows'[o][i].amt = rows[o][i].amt /\ rows'[o][i].active = rows[o][i].active

LEMMA HashEffect ==
  ASSUME Inv, NEW o \in Operations, NEW i \in DOMAIN rows[o], NEW h \in Nat,
         rows' = [rows EXCEPT ![o][i].status = "SUBMITTED", ![o][i].hash = h]
  PROVE  HashSet(o, i, h)
<1>1. rows \in [Operations -> Seq(RowType)]
  BY ZenonT(60) DEF Inv, TypeOK, RowType
<1>2. rows[o] \in Seq(RowType) /\ rows[o][i] \in RowType
  BY <1>1
<1> DEFINE x == [rows[o][i] EXCEPT !.status = "SUBMITTED", !.hash = h]
           t == [rows[o] EXCEPT ![i] = x]
<1>3. x \in RowType /\ x.status = "SUBMITTED" /\ x.active = rows[o][i].active
      /\ x.amt = rows[o][i].amt /\ x.hash = h
  BY <1>2, ZenonT(60) DEF RowType, AttemptStatuses
<1>4. rows' = [rows EXCEPT ![o] = t]
  BY <1>1, <1>2, ZenonT(60)
<1> HIDE DEF x
<1>5. /\ t \in Seq(RowType) /\ Len(t) = Len(rows[o]) /\ DOMAIN t = DOMAIN rows[o]
      /\ t[i] = x /\ \A j \in DOMAIN rows[o] \ {i} : t[j] = rows[o][j]
  BY <1>2, <1>3
<1> HIDE DEF t
<1>6. rows'[o] = t /\ \A q \in Operations \ {o} : rows'[q] = rows[q]
  BY <1>1, <1>4, ZenonT(60)
<1>7. rows' \in [Operations -> Seq(RowType)]
  BY <1>1, <1>4, <1>5, ZenonT(60)
<1> QED
  BY <1>3, <1>5, <1>6, <1>7 DEF HashSet

LEMMA RecordHashInv ==
  ASSUME Inv, NEW c \in Calls, RecordHash(c)
  PROVE  Inv'
<1> SUFFICES ASSUME NEW o, NEW i, NEW h, o = call[c].op, i = call[c].id, h = call[c].hash
             PROVE  Inv'
  OBVIOUS
<1>0. /\ o \in Operations /\ h \in Nat /\ chain' = chain /\ returned' = returned
      /\ call[c].pc = "record" /\ Knows(c) /\ SenderOK(c) /\ OpOK(o)
  BY ZenonT(60) DEF Inv, TypeOK, RecordHash
<1>a. rows \in [Operations -> Seq(RowType)]
  BY ZenonT(60) DEF Inv, TypeOK, RowType
<1>b. rows[o] \in Seq(RowType)
  BY <1>0, <1>a
<1>1. /\ i \in DOMAIN rows[o] /\ call[c].amt = rows[o][1].amt /\ i = Len(rows[o])
      /\ rows[o][i].status = "SUBMISSION_UNKNOWN"
      /\ h \in DOMAIN chain[o] /\ Live(o) \subseteq {h}
      /\ \A d \in Calls \ {c} : Sends(d) => call[d].op # o
  BY <1>0, ZenonT(60) DEF Knows, SenderOK, Sends
<1>2. Goto(c, "wait") /\ HashSet(o, i, h)
  <2>1. /\ Goto(c, "wait")
        /\ rows' = [rows EXCEPT ![o][i].status = "SUBMITTED", ![o][i].hash = h]
    BY <1>1, ZenonT(60) DEF RecordHash, Owns
  <2> QED
    BY <1>0, <1>1, <2>1, HashEffect, ZenonT(60)
<1>3. /\ rows' \in [Operations -> Seq(RowType)]
      /\ \A q \in Operations \ {o} : rows'[q] = rows[q]
      /\ rows'[o][i].status = "SUBMITTED" /\ rows'[o][i].hash = h
      /\ DOMAIN rows'[o] = DOMAIN rows[o]
  BY <1>2, ZenonT(60) DEF HashSet
<1>4. /\ call' \in [Calls -> CallType]
      /\ \A d \in Calls \ {c} : call'[d] = call[d]
      /\ call'[c].pc = "wait" /\ call'[c].op = o /\ call'[c].id = i
      /\ call'[c].amt = call[c].amt /\ call'[c].hash = h
  BY <1>2, GotoEffect DEF PCs
<1>5. Grows(o)
  BY <1>0, <1>1, <1>2, ZenonT(60) DEF HashSet, Grows, Hashed
<1>6. rows'[o][1].amt = rows[o][1].amt /\ Len(rows'[o]) = Len(rows[o]) /\ Len(rows[o]) > 0
  <2>1. 1 \in DOMAIN rows[o] /\ Len(rows[o]) > 0
    BY <1>b, <1>1
  <2> QED
    BY <1>2, <1>5, <2>1, ZenonT(60) DEF Grows, HashSet
<1>7. OpOK(o)'
  <2>1. RowsOK(o)'
    <3> SUFFICES ASSUME NEW j \in DOMAIN rows'[o]
                 PROVE  /\ rows'[o][j].active <=> j = Len(rows'[o])
                        /\ j < Len(rows'[o]) => rows'[o][j].status = "REVERTED"
                        /\ rows'[o][j].status \in Hashed => rows'[o][j].hash \in DOMAIN chain[o]
                        /\ rows'[o][j].status = "CONFIRMED" =>
                              chain[o][rows'[o][j].hash].state = "mined"
                        /\ rows'[o][j].status = "REVERTED" =>
                              chain[o][rows'[o][j].hash].state = "failed"
                        /\ rows'[o][j].amt = rows'[o][1].amt
      BY <1>0, ZenonT(60) DEF RowsOK
    <3>0. /\ rows[o][j].active <=> j = Len(rows[o])
          /\ j < Len(rows[o]) => rows[o][j].status = "REVERTED"
          /\ rows[o][j].status \in Hashed => rows[o][j].hash \in DOMAIN chain[o]
          /\ rows[o][j].status = "CONFIRMED" => chain[o][rows[o][j].hash].state = "mined"
          /\ rows[o][j].status = "REVERTED" => chain[o][rows[o][j].hash].state = "failed"
          /\ rows[o][j].amt = rows[o][1].amt
      BY <1>0, <1>3, ZenonT(60) DEF OpOK, RowsOK
    <3>1. CASE j = i
      <4>1. /\ rows'[o][i].status = "SUBMITTED" /\ rows'[o][i].hash = h
            /\ rows'[o][i].amt = rows[o][i].amt /\ rows'[o][i].active = rows[o][i].active
        BY <1>2, ZenonT(60) DEF HashSet
      <4> QED
        BY <1>b, <1>1, <1>6, <3>0, <3>1, <4>1, ZenonT(60)
    <3>2. CASE j # i
      <4>1. rows'[o][j] = rows[o][j]
        BY <1>2, <1>3, <3>2, ZenonT(60) DEF HashSet
      <4> QED
        BY <1>6, <3>0, <4>1, ZenonT(60)
    <3> QED
      BY <3>1, <3>2, ZenonT(60)
  <2>2. LiveOK(o)'
    BY <1>0, <1>1, <1>3, <1>6, ZenonT(60) DEF LiveOK, Live, Last
  <2>3. ChainOK(o)'
    <3>1. Live(o)' = Live(o)
      BY <1>0 DEF Live
    <3> QED
      BY <1>0, <1>6, <3>1, ZenonT(60) DEF OpOK, ChainOK
  <2> QED
    BY <2>1, <2>2, <2>3 DEF OpOK
<1>8. TypeOK'
  BY <1>0, <1>3, <1>4, ZenonT(60) DEF Inv, TypeOK, CallType, RowType
<1>9. Knows(c)' /\ SenderOK(c)'
  BY <1>1, <1>3, <1>4, <1>6, ZenonT(60) DEF Knows, SenderOK, Sends, Hashed
<1>10. ReturnedIsMined'
  <2>1. \A q \in Operations : Grows(q)
    BY <1>0, <1>3, <1>5, OpStays, ZenonT(60) DEF Inv
  <2> QED
    BY <1>0, <2>1, ReturnedFrame
<1> QED
  BY <1>0, <1>1, <1>3, <1>4, <1>5, <1>7, <1>8, <1>9, <1>10, StepFrame, ZenonT(60)

\* The chain after transaction h of operation o was executed with outcome s.
TxSet(o, h, s) ==
  /\ chain' \in [Operations -> Seq(TxType)]
  /\ \A q \in Operations \ {o} : chain'[q] = chain[q]
  /\ DOMAIN chain'[o] = DOMAIN chain[o]
  /\ \A g \in DOMAIN chain[o] \ {h} : chain'[o][g] = chain[o][g]
  /\ chain'[o][h].state = s /\ chain'[o][h].amt = chain[o][h].amt

LEMMA TxEffect ==
  ASSUME Inv, NEW o \in Operations, NEW h \in DOMAIN chain[o], NEW s \in {"mined", "failed"},
         chain' = [chain EXCEPT ![o][h].state = s]
  PROVE  TxSet(o, h, s)
<1>1. chain \in [Operations -> Seq(TxType)]
  BY ZenonT(60) DEF Inv, TypeOK, TxType
<1>2. chain[o] \in Seq(TxType) /\ chain[o][h] \in TxType
  BY <1>1
<1> DEFINE x == [chain[o][h] EXCEPT !.state = s]
           t == [chain[o] EXCEPT ![h] = x]
<1>3. x \in TxType /\ x.state = s /\ x.amt = chain[o][h].amt
  BY <1>2 DEF TxType
<1>4. chain' = [chain EXCEPT ![o] = t]
  OBVIOUS
<1> HIDE DEF x
<1>5. /\ t \in Seq(TxType) /\ DOMAIN t = DOMAIN chain[o]
      /\ t[h] = x /\ \A g \in DOMAIN chain[o] \ {h} : t[g] = chain[o][g]
  BY <1>2, <1>3
<1> HIDE DEF t
<1>6. chain'[o] = t /\ \A q \in Operations \ {o} : chain'[q] = chain[q]
  BY <1>1, <1>4
<1>7. chain' \in [Operations -> Seq(TxType)]
  BY ZenonT(60), <1>1, <1>4, <1>5
<1> QED
  BY <1>3, <1>5, <1>6, <1>7 DEF TxSet

\* The chain decides the fate of a pending transaction behind every call's back.
LEMMA ExecuteInv ==
  ASSUME Inv, NEW o \in Operations, NEW h \in DOMAIN chain[o], NEW s \in {"mined", "failed"},
         chain[o][h].state = "pending", TxSet(o, h, s), UNCHANGED <<rows, call, returned>>
  PROVE  Inv'
<1>0. OpOK(o)
  BY DEF Inv
<1>1. /\ chain' \in [Operations -> Seq(TxType)]
      /\ \A q \in Operations \ {o} : chain'[q] = chain[q]
      /\ DOMAIN chain'[o] = DOMAIN chain[o]
  BY DEF TxSet
<1>2. \A g \in DOMAIN chain[o] :
         /\ chain'[o][g].amt = chain[o][g].amt
         /\ chain[o][g].state # "pending" => chain'[o][g].state = chain[o][g].state
         /\ chain'[o][g].state # "failed" => chain[o][g].state # "failed"
  BY DEF TxSet
<1>3. \A q \in Operations : Grows(q) /\ Live(q)' \subseteq Live(q)
  <2> SUFFICES ASSUME NEW q \in Operations PROVE Grows(q) /\ Live(q)' \subseteq Live(q)
    OBVIOUS
  <2>1. CASE q = o
    BY <1>1, <1>2, <2>1 DEF Grows, Live
  <2>2. CASE q # o
    BY <1>1, <2>2 DEF Grows, Live
  <2> QED
    BY <2>1, <2>2
<1>4. RowsOK(o)'
  <2>1. \A i \in DOMAIN rows[o] :
          /\ rows[o][i].status = "CONFIRMED" => chain'[o][rows[o][i].hash].state = "mined"
          /\ rows[o][i].status = "REVERTED" => chain'[o][rows[o][i].hash].state = "failed"
    BY <1>0, <1>2, ZenonT(60) DEF OpOK, RowsOK, Hashed
  <2> QED
    BY <1>0, <1>1, <2>1, ZenonT(60) DEF OpOK, RowsOK
<1>5. LiveOK(o)' /\ ChainOK(o)'
  BY <1>0, <1>1, <1>2, <1>3, ZenonT(60) DEF OpOK, LiveOK, ChainOK, Last
<1>6. \A q \in Operations \ {o} : OpOK(q)'
  BY <1>1, OpStays, ZenonT(60) DEF Inv
<1>7. \A c \in Calls : Knows(c)'
  <2> SUFFICES ASSUME NEW c \in Calls PROVE Knows(c)'
    OBVIOUS
  <2>1. call'[c] = call[c] /\ call[c].op \in Operations
    BY DEF Inv, TypeOK
  <2> QED
    BY <1>3, <2>1, KnowsFrame
<1>8. \A c \in Calls : SenderOK(c)'
  <2> SUFFICES ASSUME NEW c \in Calls PROVE SenderOK(c)'
    OBVIOUS
  <2>1. call' = call /\ rows' = rows /\ call[c].op \in Operations
    BY DEF Inv, TypeOK
  <2>2. /\ DOMAIN chain[call[c].op] \subseteq DOMAIN chain'[call[c].op]
        /\ Live(call[c].op)' \subseteq Live(call[c].op)
    BY <1>3, <2>1 DEF Grows
  <2> QED
    BY <2>1, <2>2, SenderFrame DEF Sends
<1>9. ReturnedIsMined'
  BY <1>3, ReturnedFrame
<1>10. TypeOK'
  BY <1>1, ZenonT(60) DEF Inv, TypeOK, TxType
<1> QED
  BY <1>4, <1>5, <1>6, <1>7, <1>8, <1>9, <1>10, ZenonT(60) DEF Inv, OpOK

LEMMA NextInv ==
  ASSUME Inv, [Next]_vars
  PROVE  Inv'
<1>1. ASSUME NEW c \in Calls, NEW o \in Operations, NEW a \in Amounts, ReadLatest(c, o, a)
      PROVE  Inv'
  BY <1>1, ReadLatestInv
<1>2. ASSUME NEW c \in Calls, NEW o \in Operations, NEW a \in Amounts, ResumeConfirmed(c, o, a)
      PROVE  Inv'
  BY <1>2, ResumeConfirmedInv
<1>3. ASSUME NEW c \in Calls, Step(c) PROVE Inv'
  BY <1>3, CreateAttemptInv, ReceiptInv, ConfirmInv, RevertInv, ReplaceActiveInv, MarkInv,
     TransferInv, RecordHashInv DEF Step
<1>4. ASSUME NEW c \in Calls, Crash(c) PROVE Inv'
  BY <1>4, ThrowInv DEF Crash
<1>5. ASSUME NEW o \in Operations, NEW h \in DOMAIN chain[o], Mine(o, h) PROVE Inv'
  <2>1. /\ chain[o][h].state = "pending" /\ UNCHANGED <<rows, call, returned>>
        /\ chain' = [chain EXCEPT ![o][h].state = "mined"]
    BY <1>5 DEF Mine
  <2>2. TxSet(o, h, "mined")
    BY <2>1, TxEffect, ZenonT(60)
  <2> QED
    BY <2>1, <2>2, ExecuteInv, ZenonT(60)
<1>6. ASSUME NEW o \in Operations, NEW h \in DOMAIN chain[o], Fail(o, h) PROVE Inv'
  <2>1. /\ chain[o][h].state = "pending" /\ UNCHANGED <<rows, call, returned>>
        /\ chain' = [chain EXCEPT ![o][h].state = "failed"]
    BY <1>6 DEF Fail
  <2>2. TxSet(o, h, "failed")
    BY <2>1, TxEffect, ZenonT(60)
  <2> QED
    BY <2>1, <2>2, ExecuteInv, ZenonT(60)
<1>7. CASE UNCHANGED vars
  <2>1. rows' = rows /\ chain' = chain /\ call' = call /\ returned' = returned
    BY <1>7 DEF vars
  <2>2. TypeOK' /\ ReturnedIsMined'
    BY <2>1, ZenonT(60) DEF Inv, TypeOK, ReturnedIsMined
  <2> QED
    BY <2>1, <2>2, Unmoved DEF Inv
<1> QED
  BY <1>1, <1>2, <1>3, <1>4, <1>5, <1>6, <1>7 DEF Next, Begin

\* The inductive invariant holds in every reachable state: only the latest row of
\* an operation is active, its status tells the truth about its transaction, and
\* between the durable commit and the hash one call owns the operation alone.
THEOREM TransferInvariance == Spec => []Inv
<1>1. Init => Inv
  BY InitInv
<1>2. Inv /\ [Next]_vars => Inv'
  BY NextInv
<1> QED
  BY <1>1, <1>2, PTL DEF Spec

\* For each logical operation executeTransfer never has two transactions that are
\* pending or mined, whatever calls run, crash, retry or lose their answers.
THEOREM TransferAtMostOnce == Spec => []OneLiveTransfer
<1>1. Inv => OneLiveTransfer
  BY DEF Inv, OneLiveTransfer, OpOK, ChainOK
<1> QED
  BY <1>1, TransferInvariance, PTL

\* A hash executeTransfer returned to the escrow service is of a mined transfer.
THEOREM SuccessIsMined == Spec => []ReturnedIsMined
<1>1. Inv => ReturnedIsMined
  BY DEF Inv
<1> QED
  BY <1>1, TransferInvariance, PTL

\* All transactions of one logical operation pay the same destination and amount.
THEOREM AmountIsFixed == Spec => []OneAmount
<1>1. Inv => OneAmount
  BY DEF Inv, OneAmount, OpOK, ChainOK
<1> QED
  BY <1>1, TransferInvariance, PTL

\* Every variable keeps its type.
THEOREM TransferTypes == Spec => []TypeOK
<1>1. Inv => TypeOK
  BY DEF Inv
<1> QED
  BY <1>1, TransferInvariance, PTL

-----------------------------------------------------------------------------
(* WdkTransfer implements SettlementRail.                                  *)

\* The record AttemptOf shows of an operation whose rows are s.
RecordOf(s) ==
  IF s = <<>> THEN "none"
  ELSE CASE s[Len(s)].status = "SUBMISSION_UNKNOWN" -> "unknown"
         [] s[Len(s)].status = "SUBMITTED"          -> "submitted"
         [] s[Len(s)].status = "CONFIRMED"          -> "confirmed"
         [] OTHER                                   -> "none"

LEMMA RecordOfRows ==
  ASSUME NEW o \in Operations
  PROVE  AttemptOf(o) = RecordOf(rows[o]) /\ AttemptOf(o)' = RecordOf(rows'[o])
  BY DEF AttemptOf, RecordOf

LEMMA RecordByLast ==
  ASSUME NEW s \in Seq(RowType)
  PROVE  /\ Len(s) = 0 => RecordOf(s) = "none"
         /\ Len(s) > 0 =>
              /\ s[Len(s)].status = "SUBMISSION_UNKNOWN" => RecordOf(s) = "unknown"
              /\ s[Len(s)].status = "SUBMITTED" => RecordOf(s) = "submitted"
              /\ s[Len(s)].status = "CONFIRMED" => RecordOf(s) = "confirmed"
              /\ s[Len(s)].status \in {"PREPARED", "REVERTED"} => RecordOf(s) = "none"
<1>1. (s = <<>>) <=> (Len(s) = 0)
  OBVIOUS
<1>2. Len(s) > 0 => ~(Len(s) = 0)
  OBVIOUS
<1> QED
  BY <1>1, <1>2 DEF RecordOf

\* A step changes the record of operation o alone, to a, and the transfers made
\* for it, to d.
Shows(o, a, d) ==
  /\ \A q \in Operations \ {o} : AttemptOf(q)' = AttemptOf(q) /\ Delivered(q)' = Delivered(q)
  /\ AttemptOf(o)' = a
  /\ Delivered(o)' = d

LEMMA RailState ==
  ASSUME NEW o \in Operations, NEW a, NEW d \in BOOLEAN, Shows(o, a, d)
  PROVE  /\ [q \in Operations |-> AttemptOf(q)]'
               = [[q \in Operations |-> AttemptOf(q)] EXCEPT ![o] = a]
         /\ {q \in Operations : Delivered(q)}'
               = IF d THEN {q \in Operations : Delivered(q)} \cup {o}
                 ELSE {q \in Operations : Delivered(q)} \ {o}
<1>1. \A q \in Operations : q # o => /\ AttemptOf(q)' = AttemptOf(q)
                                     /\ Delivered(q)' = Delivered(q)
  BY DEF Shows
<1>2. AttemptOf(o)' = a /\ Delivered(o)' = d
  BY DEF Shows
<1> QED
  BY <1>1, <1>2, ZenonT(60)

\* Only the rows of operation o, or its transactions, changed.
LEMMA ShowsOthers ==
  ASSUME NEW o \in Operations, NEW a, NEW d,
         \A q \in Operations \ {o} : rows'[q] = rows[q] /\ chain'[q] = chain[q],
         AttemptOf(o)' = a, Delivered(o)' = d
  PROVE  Shows(o, a, d)
  BY RecordOfRows, ZenonT(60) DEF Shows, Delivered

RailAttempt == [q \in Operations |-> AttemptOf(q)]
RailLanded == {q \in Operations : Delivered(q)}

LEMMA RailRecords ==
  ASSUME NEW o \in Operations, NEW a, Shows(o, a, Delivered(o))
  PROVE  RailAttempt' = [RailAttempt EXCEPT ![o] = a] /\ RailLanded' = RailLanded
<1>1. Delivered(o) \in BOOLEAN
  BY DEF Delivered
<1>2. /\ RailAttempt' = [RailAttempt EXCEPT ![o] = a]
      /\ RailLanded' = IF Delivered(o) THEN RailLanded \cup {o} ELSE RailLanded \ {o}
  BY <1>1, RailState DEF RailAttempt, RailLanded
<1>3. (o \in RailLanded) <=> Delivered(o)
  BY DEF RailLanded
<1> QED
  BY <1>2, <1>3

LEMMA RailStutters ==
  ASSUME NEW o \in Operations, Shows(o, AttemptOf(o), Delivered(o))
  PROVE  UNCHANGED Rail!railVars
<1>1. RailAttempt' = [RailAttempt EXCEPT ![o] = AttemptOf(o)] /\ RailLanded' = RailLanded
  BY RailRecords
<1>2. RailAttempt' = RailAttempt
  BY <1>1, ZenonT(60) DEF RailAttempt
<1> QED
  BY <1>1, <1>2 DEF Rail!railVars, RailAttempt, RailLanded

LEMMA QuietStutters ==
  ASSUME rows' = rows, chain' = chain
  PROVE  UNCHANGED Rail!railVars
  BY DEF Rail!railVars, AttemptOf, Delivered

LEMMA AddedStutters ==
  ASSUME Inv, NEW o \in Operations, NEW a \in Amounts, RowAdded(o, a), chain' = chain,
         Len(rows[o]) > 0 => Last(o).status = "REVERTED"
  PROVE  UNCHANGED Rail!railVars
<1>1. rows \in [Operations -> Seq(RowType)]
  BY ZenonT(60) DEF Inv, TypeOK, RowType
<1>2. /\ rows' \in [Operations -> Seq(RowType)]
      /\ \A q \in Operations \ {o} : rows'[q] = rows[q]
      /\ Len(rows'[o]) = Len(rows[o]) + 1
      /\ rows'[o][Len(rows[o]) + 1].status = "PREPARED"
  BY DEF RowAdded, NewRow
<1>3. /\ rows[o] \in Seq(RowType) /\ rows'[o] \in Seq(RowType) /\ Len(rows[o]) \in Nat
      /\ Len(rows'[o]) > 0 /\ (Len(rows[o]) = 0 \/ Len(rows[o]) > 0)
  BY <1>1, <1>2
<1>4. AttemptOf(o) = "none"
  BY <1>3, RecordOfRows, RecordByLast DEF Last
<1>5. AttemptOf(o)' = "none"
  BY <1>2, <1>3, RecordOfRows, RecordByLast
<1>6. Delivered(o)' = Delivered(o)
  BY DEF Delivered
<1> QED
  BY <1>2, <1>4, <1>5, <1>6, ShowsOthers, RailStutters

LEMMA BroadcastStutters ==
  ASSUME Inv, NEW o \in Operations, NEW a \in Amounts, TxAdded(o, a), rows' = rows
  PROVE  UNCHANGED Rail!railVars
<1>1. chain \in [Operations -> Seq(TxType)]
  BY ZenonT(60) DEF Inv, TypeOK, TxType
<1>2. /\ chain' \in [Operations -> Seq(TxType)]
      /\ \A q \in Operations \ {o} : chain'[q] = chain[q]
      /\ Len(chain'[o]) = Len(chain[o]) + 1
      /\ \A h \in DOMAIN chain[o] : chain'[o][h] = chain[o][h]
      /\ chain'[o][Len(chain[o]) + 1].state = "pending"
  BY DEF TxAdded
<1>3. /\ \A h \in DOMAIN chain'[o] : h \in DOMAIN chain[o] \/ h = Len(chain[o]) + 1
      /\ DOMAIN chain[o] \subseteq DOMAIN chain'[o]
  BY <1>1, <1>2
<1>4. Delivered(o)' = Delivered(o)
  BY <1>2, <1>3 DEF Delivered
<1>5. AttemptOf(o)' = AttemptOf(o)
  BY DEF AttemptOf
<1> QED
  BY <1>2, <1>4, <1>5, ShowsOthers, RailStutters

\* A row of the operation is the latest one, and moves to status s.
LEMMA StatusShows ==
  ASSUME Inv, NEW o \in Operations, NEW i \in DOMAIN rows[o], i = Len(rows[o]), NEW s,
         rows' \in [Operations -> Seq(RowType)],
         \A q \in Operations \ {o} : rows'[q] = rows[q],
         Len(rows'[o]) = Len(rows[o]), rows'[o][i].status = s, chain' = chain
  PROVE  /\ s = "SUBMISSION_UNKNOWN" => Shows(o, "unknown", Delivered(o))
         /\ s = "SUBMITTED" => Shows(o, "submitted", Delivered(o))
         /\ s = "CONFIRMED" => Shows(o, "confirmed", Delivered(o))
         /\ s = "REVERTED" => Shows(o, "none", Delivered(o))
         /\ Len(rows[o]) > 0
         /\ Delivered(o) \in BOOLEAN
<1>1. rows \in [Operations -> Seq(RowType)]
  BY ZenonT(60) DEF Inv, TypeOK, RowType
<1>2. rows'[o] \in Seq(RowType) /\ Len(rows[o]) > 0
  BY <1>1
<1>3. Delivered(o)' = Delivered(o) /\ Delivered(o) \in BOOLEAN
  BY DEF Delivered
<1>4. /\ s = "SUBMISSION_UNKNOWN" => AttemptOf(o)' = "unknown"
      /\ s = "SUBMITTED" => AttemptOf(o)' = "submitted"
      /\ s = "CONFIRMED" => AttemptOf(o)' = "confirmed"
      /\ s = "REVERTED" => AttemptOf(o)' = "none"
  BY <1>2, RecordOfRows, RecordByLast
<1> QED
  BY <1>2, <1>3, <1>4, ShowsOthers

\* The compare-and-sets on an attempt row are the rail's submit, confirm and revert.
LEMMA StatusRails ==
  ASSUME Inv, NEW o \in Operations, NEW i \in DOMAIN rows[o], NEW s \in AttemptStatuses,
         Moves(o, i, s), StatusSet(o, i, s), chain' = chain
  PROVE  Rail!RailNext
<1>1. /\ i = Len(rows[o])
      /\ s \in {"SUBMISSION_UNKNOWN", "REVERTED"} => Live(o) = {}
  BY StatusMoves, ZenonT(60)
<1>2. /\ rows' \in [Operations -> Seq(RowType)]
      /\ \A q \in Operations \ {o} : rows'[q] = rows[q]
      /\ Len(rows'[o]) = Len(rows[o]) /\ rows'[o][i].status = s
  BY DEF StatusSet
<1>3. /\ s = "SUBMISSION_UNKNOWN" => Shows(o, "unknown", Delivered(o))
      /\ s = "CONFIRMED" => Shows(o, "confirmed", Delivered(o))
      /\ s = "REVERTED" => Shows(o, "none", Delivered(o))
      /\ Len(rows[o]) > 0
  BY <1>1, <1>2, StatusShows
<1>4. rows[o] \in Seq(RowType)
  <2>1. rows \in [Operations -> Seq(RowType)]
    BY ZenonT(60) DEF Inv, TypeOK, RowType
  <2> QED
    BY <2>1
<1>5. RailAttempt[o] = AttemptOf(o) /\ (o \in RailLanded <=> Delivered(o))
  BY DEF RailAttempt, RailLanded
<1>6. CASE rows[o][i].status = "PREPARED" /\ s = "SUBMISSION_UNKNOWN"
  <2>1. AttemptOf(o) = "none"
    BY <1>1, <1>3, <1>4, <1>6, RecordOfRows, RecordByLast
  <2>2. RailAttempt' = [RailAttempt EXCEPT ![o] = "unknown"] /\ RailLanded' = RailLanded
    BY <1>3, <1>6, RailRecords
  <2>3. Rail!RailSubmit(o)
    BY <1>5, <2>1, <2>2 DEF Rail!RailSubmit, RailAttempt, RailLanded
  <2> QED
    BY <2>3 DEF Rail!RailNext
<1>7. CASE /\ rows[o][i].status = "SUBMITTED" /\ s = "CONFIRMED"
           /\ chain[o][rows[o][i].hash].state = "mined"
  <2>1. AttemptOf(o) = "submitted"
    BY <1>1, <1>3, <1>4, <1>7, RecordOfRows, RecordByLast
  <2>2. rows[o][i].hash \in DOMAIN chain[o]
    BY <1>7, ZenonT(60) DEF Inv, OpOK, RowsOK, Hashed
  <2>3. Delivered(o)
    BY <1>7, <2>2 DEF Delivered
  <2>4. RailAttempt' = [RailAttempt EXCEPT ![o] = "confirmed"] /\ RailLanded' = RailLanded
    BY <1>3, <1>7, RailRecords
  <2>5. Rail!RailConfirm(o)
    BY <1>5, <2>1, <2>3, <2>4 DEF Rail!RailConfirm, RailAttempt, RailLanded
  <2> QED
    BY <2>5 DEF Rail!RailNext
<1>8. CASE rows[o][i].status = "SUBMITTED" /\ s = "REVERTED"
  <2>1. AttemptOf(o) = "submitted"
    BY <1>1, <1>3, <1>4, <1>8, RecordOfRows, RecordByLast
  <2>2. ~Delivered(o)
    BY <1>1, <1>8 DEF Delivered, Live
  <2>3. RailAttempt' = [RailAttempt EXCEPT ![o] = "none"] /\ RailLanded' = RailLanded
    BY <1>3, <1>8, RailRecords
  <2>4. Rail!RailReverted(o)
    BY <1>5, <2>1, <2>2, <2>3 DEF Rail!RailReverted, RailAttempt, RailLanded
  <2> QED
    BY <2>4 DEF Rail!RailNext
<1> QED
  BY <1>6, <1>7, <1>8, ZenonT(60) DEF Moves

LEMMA CasRails ==
  ASSUME Inv, NEW c \in Calls,
         \/ ResumeMined(c) \/ ConfirmOwn(c) \/ DisownFailed(c) \/ FailOwn(c)
         \/ MarkSubmissionAttempted(c)
  PROVE  Rail!RailNext \/ UNCHANGED Rail!railVars
<1> SUFFICES ASSUME NEW o, NEW i, o = call[c].op, i = call[c].id
             PROVE  Rail!RailNext \/ UNCHANGED Rail!railVars
  OBVIOUS
<1>0. /\ o \in Operations /\ OpOK(o) /\ Knows(c) /\ chain' = chain
      /\ call[c].pc \in {"resume", "confirm", "disown", "fail", "mark"}
  BY DEF Inv, TypeOK, ResumeMined, ConfirmOwn, DisownFailed, FailOwn, MarkSubmissionAttempted
<1>1. i \in DOMAIN rows[o]
  BY <1>0, ZenonT(60) DEF Knows
<1>2. CASE rows' = rows
  BY <1>0, <1>2, QuietStutters
<1>3. CASE rows' # rows
  <2>1. PICK s \in {"CONFIRMED", "REVERTED", "SUBMISSION_UNKNOWN"} :
          /\ SetStatus(c, s)
          /\ s = "CONFIRMED" => call[c].pc \in {"resume", "confirm"} /\ Owns(c, "SUBMITTED")
          /\ s = "REVERTED" => call[c].pc \in {"disown", "fail"} /\ Owns(c, "SUBMITTED")
          /\ s = "SUBMISSION_UNKNOWN" => Owns(c, "PREPARED")
    <3>1. CASE ResumeMined(c) \/ ConfirmOwn(c)
      BY <1>3, <3>1 DEF ResumeMined, ConfirmOwn
    <3>2. CASE DisownFailed(c) \/ FailOwn(c)
      BY <1>3, <3>2 DEF DisownFailed, FailOwn
    <3>3. CASE MarkSubmissionAttempted(c)
      BY <1>3, <3>3 DEF MarkSubmissionAttempted
    <3> QED
      BY <3>1, <3>2, <3>3
  <2>2. rows' = [rows EXCEPT ![o][i].status = s] /\ s \in AttemptStatuses
    BY <2>1, ZenonT(60) DEF SetStatus, AttemptStatuses
  <2>3. StatusSet(o, i, s)
    BY <1>0, <1>1, <2>2, StatusEffect, ZenonT(60)
  <2>4. Moves(o, i, s)
    BY <1>0, <2>1, ZenonT(60) DEF Moves, Owns, Knows
  <2> QED
    BY <1>0, <1>1, <2>2, <2>3, <2>4, StatusRails, ZenonT(60)
<1> QED
  BY <1>2, <1>3

LEMMA AddRails ==
  ASSUME Inv, NEW c \in Calls, CreateAttempt(c) \/ ReplaceActive(c)
  PROVE  UNCHANGED Rail!railVars
<1> SUFFICES ASSUME NEW o, NEW a, NEW i, o = call[c].op, a = call[c].amt, i = call[c].id
             PROVE  UNCHANGED Rail!railVars
  OBVIOUS
<1>0. o \in Operations /\ a \in Amounts /\ OpOK(o) /\ chain' = chain /\ Knows(c)
  BY ZenonT(60) DEF Inv, TypeOK, CreateAttempt, ReplaceActive
<1>a. rows \in [Operations -> Seq(RowType)]
  BY ZenonT(60) DEF Inv, TypeOK, RowType
<1>b. rows[o] \in Seq(RowType) /\ Len(rows[o]) \in Nat
  BY <1>0, <1>a
<1>1. CASE rows' = rows
  BY <1>0, <1>1, QuietStutters
<1>2. CASE rows' # rows /\ CreateAttempt(c)
  <2>1. /\ rows' = [rows EXCEPT ![o] = Append(rows[o], NewRow(a))]
        /\ ~ \E j \in DOMAIN rows[o] : rows[o][j].active
    BY <1>2, ZenonT(60) DEF CreateAttempt
  <2>2. Len(rows[o]) = 0
    <3> SUFFICES ASSUME Len(rows[o]) # 0 PROVE FALSE
      OBVIOUS
    <3>1. Len(rows[o]) \in DOMAIN rows[o]
      BY <1>b
    <3> QED
      BY <1>0, <2>1, <3>1, ZenonT(60) DEF OpOK, RowsOK
  <2>3. Deactivated(rows[o], rows[o])
    <3>1. \A j \in DOMAIN rows[o] : FALSE
      BY <1>b, <2>2
    <3> QED
      BY <1>b, <3>1 DEF Deactivated
  <2>4. RowAdded(o, a)
    BY <1>0, <2>1, <2>3, AppendEffect, ZenonT(60)
  <2> QED
    BY <1>0, <2>2, <2>4, AddedStutters
<1>3. CASE rows' # rows /\ ReplaceActive(c)
  <2>1. /\ rows' = [rows EXCEPT ![o] = Append(Inactive(rows[o], i), NewRow(a))]
        /\ rows[o][i].active /\ rows[o][i].status = "REVERTED" /\ call[c].pc = "replace"
    BY <1>3, ZenonT(60) DEF ReplaceActive, Inactive
  <2>2. i \in DOMAIN rows[o]
    BY <1>0, <2>1, ZenonT(60) DEF Knows
  <2>3. /\ Last(o).status = "REVERTED"
        /\ \A j \in DOMAIN rows[o] : rows[o][j].active <=> j = i
    BY <1>0, <2>1, <2>2, ZenonT(60) DEF OpOK, RowsOK, Last
  <2>4. Deactivated(rows[o], Inactive(rows[o], i))
    BY <1>b, <2>2, <2>3, InactiveRow, ZenonT(60)
  <2>5. RowAdded(o, a)
    BY <1>0, <2>1, <2>4, AppendEffect, ZenonT(60)
  <2> QED
    BY <1>0, <2>3, <2>5, AddedStutters
<1> QED
  BY <1>1, <1>2, <1>3

LEMMA SendRails ==
  ASSUME Inv, NEW c \in Calls, Transfer(c)
  PROVE  UNCHANGED Rail!railVars
<1> SUFFICES ASSUME NEW o, NEW a, o = call[c].op, a = call[c].amt
             PROVE  UNCHANGED Rail!railVars
  OBVIOUS
<1>1. o \in Operations /\ a \in Amounts /\ rows' = rows
  BY DEF Inv, TypeOK, Transfer
<1>2. chain' = [chain EXCEPT ![o] = Append(chain[o], [state |-> "pending", amt |-> a])]
  BY ZenonT(60) DEF Transfer
<1>3. TxAdded(o, a)
  BY <1>1, <1>2, BroadcastEffect, ZenonT(60)
<1> QED
  BY <1>1, <1>3, BroadcastStutters

LEMMA RecordRails ==
  ASSUME Inv, NEW c \in Calls, RecordHash(c)
  PROVE  Rail!RailNext
<1> SUFFICES ASSUME NEW o, NEW i, NEW h, o = call[c].op, i = call[c].id, h = call[c].hash
             PROVE  Rail!RailNext
  OBVIOUS
<1>0. /\ o \in Operations /\ h \in Nat /\ chain' = chain
      /\ call[c].pc = "record" /\ Knows(c) /\ SenderOK(c)
  BY ZenonT(60) DEF Inv, TypeOK, RecordHash
<1>1. i \in DOMAIN rows[o] /\ i = Len(rows[o]) /\ rows[o][i].status = "SUBMISSION_UNKNOWN"
  BY <1>0, ZenonT(60) DEF Knows, SenderOK, Sends
<1>2. rows' = [rows EXCEPT ![o][i].status = "SUBMITTED", ![o][i].hash = h]
  BY <1>1, ZenonT(60) DEF RecordHash, Owns
<1>3. HashSet(o, i, h)
  BY <1>0, <1>1, <1>2, HashEffect, ZenonT(60)
<1>4. /\ rows' \in [Operations -> Seq(RowType)]
      /\ \A q \in Operations \ {o} : rows'[q] = rows[q]
      /\ Len(rows'[o]) = Len(rows[o]) /\ rows'[o][i].status = "SUBMITTED"
  BY <1>3, ZenonT(60) DEF HashSet
<1>5. Shows(o, "submitted", Delivered(o)) /\ Len(rows[o]) > 0
  BY <1>0, <1>1, <1>4, StatusShows, ZenonT(60)
<1>6. AttemptOf(o) = "unknown"
  <2>1. rows \in [Operations -> Seq(RowType)]
    BY ZenonT(60) DEF Inv, TypeOK, RowType
  <2>2. rows[o] \in Seq(RowType)
    BY <1>0, <2>1, ZenonT(60)
  <2> QED
    BY <1>0, <1>1, <1>5, <2>2, RecordOfRows, RecordByLast, ZenonT(60)
<1>7. RailAttempt' = [RailAttempt EXCEPT ![o] = "submitted"] /\ RailLanded' = RailLanded
  BY <1>0, <1>5, RailRecords, ZenonT(60)
<1>8. RailAttempt[o] = AttemptOf(o)
  BY <1>0, ZenonT(60) DEF RailAttempt
<1>9. Rail!RailPending(o)
  BY <1>6, <1>7, <1>8, ZenonT(60) DEF Rail!RailPending, RailAttempt, RailLanded
<1> QED
  BY <1>0, <1>9, ZenonT(60) DEF Rail!RailNext

\* The chain executes the live transaction of an operation that was submitted and
\* of which nothing was delivered before.
LEMMA MineRails ==
  ASSUME Inv, NEW o \in Operations, NEW h \in DOMAIN chain[o], Mine(o, h)
  PROVE  Rail!RailNext
<1>0. /\ OpOK(o) /\ rows' = rows /\ chain[o][h].state = "pending" /\ Rail!Payable(o)
      /\ chain' = [chain EXCEPT ![o][h].state = "mined"]
  BY DEF Inv, Mine
<1>1. TxSet(o, h, "mined")
  BY <1>0, TxEffect, ZenonT(60)
<1>2. h \in Live(o)
  BY <1>0 DEF Live
<1>3. AttemptOf(o) \in {"unknown", "submitted"}
  <2>1. rows \in [Operations -> Seq(RowType)]
    BY ZenonT(60) DEF Inv, TypeOK, RowType
  <2>2. rows[o] \in Seq(RowType)
    BY <2>1
  <2>3. /\ Len(rows[o]) > 0
        /\ Last(o).status \in {"SUBMISSION_UNKNOWN", "SUBMITTED", "CONFIRMED"}
        /\ Last(o).status \in Hashed => h = Last(o).hash
    BY <1>0, <1>2 DEF OpOK, LiveOK
  <2>4. Len(rows[o]) \in DOMAIN rows[o]
    BY <2>2, <2>3
  <2>5. Last(o).status # "CONFIRMED"
    BY <1>0, <2>3, <2>4, ZenonT(60) DEF OpOK, RowsOK, Last, Hashed
  <2> QED
    BY <2>2, <2>3, <2>5, RecordOfRows, RecordByLast DEF Last
<1>4. ~Delivered(o)
  <2> SUFFICES ASSUME NEW g \in DOMAIN chain[o], chain[o][g].state = "mined" PROVE FALSE
    BY DEF Delivered
  <2>1. g \in Live(o)
    BY DEF Live
  <2> QED
    BY <1>0, <1>2, <2>1 DEF OpOK, ChainOK
<1>5. Delivered(o)'
  BY <1>1 DEF Delivered, TxSet
<1>6. Shows(o, AttemptOf(o), TRUE)
  <2>1. AttemptOf(o)' = AttemptOf(o) /\ Delivered(o)' = TRUE
    BY <1>0, <1>5 DEF AttemptOf, Delivered
  <2>2. \A q \in Operations \ {o} : rows'[q] = rows[q] /\ chain'[q] = chain[q]
    BY <1>0, <1>1 DEF TxSet
  <2> QED
    BY <2>1, <2>2, ShowsOthers, ZenonT(60)
<1>7. RailAttempt' = RailAttempt /\ RailLanded' = RailLanded \cup {o}
  <2>1. /\ RailAttempt' = [RailAttempt EXCEPT ![o] = AttemptOf(o)]
        /\ RailLanded' = RailLanded \cup {o}
    BY <1>6, RailState, ZenonT(60) DEF RailAttempt, RailLanded
  <2> QED
    BY <2>1, ZenonT(60) DEF RailAttempt
<1>8. RailAttempt[o] = AttemptOf(o) /\ o \notin RailLanded
  BY <1>4 DEF RailAttempt, RailLanded
<1>9. Rail!RailLand(o)
  BY <1>0, <1>3, <1>7, <1>8 DEF Rail!RailLand, RailAttempt, RailLanded
<1> QED
  BY <1>9 DEF Rail!RailNext

LEMMA FailStutters ==
  ASSUME Inv, NEW o \in Operations, NEW h \in DOMAIN chain[o], Fail(o, h)
  PROVE  UNCHANGED Rail!railVars
<1>0. /\ rows' = rows /\ chain[o][h].state = "pending"
      /\ chain' = [chain EXCEPT ![o][h].state = "failed"]
  BY DEF Fail
<1>1. TxSet(o, h, "failed")
  BY <1>0, TxEffect, ZenonT(60)
<1>2. /\ \A q \in Operations \ {o} : rows'[q] = rows[q] /\ chain'[q] = chain[q]
      /\ DOMAIN chain'[o] = DOMAIN chain[o]
      /\ \A g \in DOMAIN chain[o] : (chain'[o][g].state = "mined") <=> (chain[o][g].state = "mined")
  BY <1>0, <1>1 DEF TxSet
<1>3. AttemptOf(o)' = AttemptOf(o) /\ Delivered(o)' = Delivered(o)
  BY <1>0, <1>2 DEF AttemptOf, Delivered
<1> QED
  BY <1>2, <1>3, ShowsOthers, RailStutters

LEMMA NextRails ==
  ASSUME Inv, [Next]_vars
  PROVE  [Rail!RailNext]_(Rail!railVars)
<1>1. ASSUME NEW c \in Calls, Begin(c) \/ QueryReceipt(c) \/ WaitForReceipt(c) \/ Crash(c)
      PROVE  rows' = rows /\ chain' = chain
  BY <1>1, ZenonT(60) DEF Begin, ReadLatest, ResumeConfirmed, QueryReceipt, WaitForReceipt, Crash
<1>2. ASSUME NEW c \in Calls, Begin(c) \/ Step(c) \/ Crash(c)
      PROVE  Rail!RailNext \/ UNCHANGED Rail!railVars
  BY <1>1, <1>2, QuietStutters, CasRails, AddRails, SendRails, RecordRails DEF Step
<1>3. ASSUME NEW o \in Operations, NEW h \in DOMAIN chain[o], Mine(o, h) \/ Fail(o, h)
      PROVE  Rail!RailNext \/ UNCHANGED Rail!railVars
  BY <1>3, MineRails, FailStutters
<1>4. CASE UNCHANGED vars
  BY <1>4, QuietStutters DEF vars
<1> QED
  BY <1>2, <1>3, <1>4 DEF Next

LEMMA InitRails == Init => Rail!RailInit
<1> SUFFICES ASSUME Init PROVE Rail!RailInit
  OBVIOUS
<1>1. \A o \in Operations : AttemptOf(o) = "none" /\ ~Delivered(o)
  BY DEF Init, AttemptOf, Delivered
<1> QED
  BY <1>1 DEF Rail!RailInit

\* executeTransfer, run by any number of calls that may die between any two
\* awaits, implements SettlementRail: the promise DirectEscrow's handlers use.
THEOREM TransferImplementsRail == Spec => ImplementsRail
<1>1. Init => Rail!RailInit
  BY InitRails
<1>2. Inv /\ [Next]_vars => [Rail!RailNext]_(Rail!railVars)
  BY NextRails
<1> QED
  BY <1>1, <1>2, TransferInvariance, PTL DEF Spec, ImplementsRail, Rail!RailSpec

=============================================================================
