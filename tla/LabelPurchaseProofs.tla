------------------------ MODULE LabelPurchaseProofs ------------------------
(***************************************************************************)
(* What holds of the purchases of a label for any number of handlers, keys,*)
(* quotes, channels and carriers, and any number of requests, runs,        *)
(* restarts and database errors.                                           *)
(***************************************************************************)
EXTENDS LabelPurchase, TLAPS

\* A thread holds the row it has reserved until it settles it; up to the call
\* the operation has not been performed.
BeforeCall(t) == pc[t] \in {"verify", "call"} \/ (t # AutoRun /\ pc[t] \in {"read", "insert"})
Holds(t) == BeforeCall(t) \/ pc[t] \in {"complete", "fail", "fail_uncovered"}

HeldRowsPending ==
    \A t \in Threads : Holds(t) => ledger[Row(t)] = "pending" /\ hash[Row(t)] = Content(t)
HoldersDistinct ==
    \A s, t \in Threads : Holds(s) /\ Holds(t) /\ Row(s) = Row(t) => s = t
CallsCounted ==
    /\ \A r \in Rows : ledger[r] = "none" => calls[r] = 0
    /\ \A t \in Threads : BeforeCall(t) => calls[Row(t)] = 0
    /\ \A t \in Threads : pc[t] = "complete" => calls[Row(t)] = 1
LabelsRequested ==
    \A k \in Keys : label[k] # "none" => hash[<<"place", k>>] \in Quotes \X Channels

LedgerInv ==
    /\ HeldRowsPending /\ HoldersDistinct /\ CallsCounted /\ LabelsRequested
    /\ OneCallPerKey

\* The ledger is empty when the server starts.
LEMMA LedgerInit == Init => TypeOK /\ LedgerInv
  <1> SUFFICES ASSUME Init PROVE TypeOK /\ LedgerInv
    OBVIOUS
  <1> USE PurchaseAssumption
  <1>1. TypeOK
    <2>1. /\ req \in [Threads -> [op : {"place", "print"}, key : Keys \cup {None},
                           quote : Quotes \cup {None}, channel : Channels \cup {None}]]
          /\ pc = [t \in Threads |-> "idle"]
      BY DEF Init, NoRequest
    <2>2. \A t \in Threads :
             pc[t] \notin PurchasePc \cup {"select", "fail_uncovered", "result"}
      BY <2>1 DEF PurchasePc
    <2>3. /\ 0 \in 0..MaxStarts /\ 0 \in 0..MaxCrashes /\ 0 \in 0..MaxDbErrors
      OBVIOUS
    <2>4. /\ ledger \in [Rows -> {"none", "pending", "completed", "failed"}]
          /\ hash \in [Rows -> (Quotes \X Channels) \cup {None}]
          /\ choice \in [Quotes -> Keys \cup {None}]
          /\ label \in [Keys -> {"none", "open", "confirmed", "refused"}]
          /\ calls \in [Rows -> Nat]
      BY DEF Init
    <2> QED BY ZenonT(60), <2>1, <2>2, <2>3, <2>4 DEF Init, TypeOK, Threads
  <1>2. LedgerInv
    BY DEF Init, LedgerInv, HeldRowsPending, HoldersDistinct, CallsCounted, LabelsRequested,
           OneCallPerKey, Holds, BeforeCall
  <1> QED BY <1>1, <1>2

\* A thread in a step of a purchase has a complete request, which names a row of the ledger.
LEMMA RowTyped ==
    ASSUME TypeOK, NEW t \in Threads,
           pc[t] \in PurchasePc \cup {"select", "fail_uncovered", "result"}
    PROVE  /\ Row(t) \in Rows /\ Content(t) \in Quotes \X Channels
           /\ req[t].key \in Keys /\ req[t].op \in {"place", "print"}
           /\ req[t].quote \in Quotes /\ req[t].channel \in Channels
  BY DEF TypeOK, Row, Content, Rows, Requests

\* Every step of the handlers, the run and SHEIN keeps the types.
LEMMA TypeStep == TypeOK /\ LedgerInv /\ [Next]_vars => TypeOK'
  <1> SUFFICES ASSUME TypeOK, LedgerInv, [Next]_vars PROVE TypeOK'
    OBVIOUS
  <1> USE PurchaseAssumption
  <1> USE DEF Threads
  <1>1. CASE UNCHANGED vars
    BY <1>1 DEF TypeOK, vars, rows, choices, jobVars, shein, history
  <1>2. ASSUME NEW t \in Threads, Reserve(t) PROVE TypeOK'
    <2>1. pc[t] = "reserve" /\ Row(t) \in Rows /\ Content(t) \in Quotes \X Channels
      BY <1>2, RowTyped DEF Reserve, PurchasePc
    <2>2. /\ ledger' \in [Rows -> {"none", "pending", "completed", "failed"}]
          /\ hash' \in [Rows -> (Quotes \X Channels) \cup {None}]
      BY <1>2, <2>1 DEF TypeOK, Reserve, rows
    <2>3. CASE (Goto(t, "verify") \/ (t = AutoRun /\ Goto(t, "result"))) /\ UNCHANGED job
      BY <1>2, <2>1, <2>2, <2>3
         DEF TypeOK, Reserve, PurchasePc, RunPc, Goto, choices, shein, history, jobRest
    <2>4. CASE GiveUp(t)
      BY <1>2, <2>1, <2>2, <2>4
         DEF TypeOK, Reserve, PurchasePc, RunPc, GiveUp, Answer, Serve, NoRequest, choices,
             shein, history, jobRest
    <2> QED BY <1>2, <2>3, <2>4 DEF Reserve
  <1>3. ASSUME NEW t \in Threads, Verify(t) PROVE TypeOK'
    BY SMTT(30), <1>3, RowTyped
       DEF TypeOK, Verify, AfterVerify, PurchasePc, RunPc, Requests, Goto, Answer, Serve,
           NoRequest, rows, choices, shein, history, jobVars
  <1>4. ASSUME NEW t \in Threads, ReadChoice(t) PROVE TypeOK'
    BY <1>4, RowTyped
       DEF TypeOK, ReadChoice, AfterChoice, PurchasePc, RunPc, Requests, Goto, GiveUp, Answer,
           Serve, NoRequest, rows, choices, shein, history, jobRest
  <1>5. ASSUME NEW t \in Threads, InsertChoice(t) PROVE TypeOK'
    BY <1>5, RowTyped
       DEF TypeOK, InsertChoice, AfterChoice, PurchasePc, RunPc, Requests, Goto, rows,
           choices, shein, history, jobVars
  <1>6. ASSUME NEW t \in Threads, Call(t) PROVE TypeOK'
    <2>1. pc[t] = "call" /\ Row(t) \in Rows /\ req[t].key \in Keys
      BY <1>6, RowTyped DEF Call, PurchasePc
    <2>2. calls' \in [Rows -> Nat] /\ label' \in [Keys -> {"none", "open", "confirmed", "refused"}]
      BY <1>6, <2>1 DEF TypeOK, Call
    <2>3. lost' \in BOOLEAN
      BY <1>6 DEF TypeOK, Call
    <2> QED BY <1>6, <2>1, <2>2, <2>3
               DEF TypeOK, Call, PurchasePc, RunPc, Goto, rows, choices, jobVars, counters
  <1>7. ASSUME NEW t \in Threads, Complete(t) PROVE TypeOK'
    BY <1>7, RowTyped
       DEF TypeOK, Complete, AfterSale, PurchasePc, RunPc, Requests, Goto, rows, choices,
           shein, history, jobVars
  <1>8. ASSUME NEW t \in Threads, Fail(t) PROVE TypeOK'
    BY SMTT(30), <1>8, RowTyped
       DEF TypeOK, Fail, MarkFailed, PurchasePc, RunPc, Requests, Goto, GiveUp, Answer, Serve,
           NoRequest, rows, choices, shein, history, jobRest
  <1>9. ASSUME NEW t \in Threads, DbError(t) PROVE TypeOK'
    BY SMTT(30), <1>9
       DEF TypeOK, DbError, Unrecorded, PurchasePc, RunPc, Requests, Goto, GiveUp, Answer,
           Serve, NoRequest, rows, choices, shein, history, jobRest
  <1>10. ASSUME NEW q \in OperatorQuotes, QuoteManually(q) PROVE TypeOK'
    BY <1>10 DEF TypeOK, QuoteManually, Quotes, rows, choices, shein, history, jobVars
  <1>11. ASSUME NEW h \in Handlers, RequestOperation(h) PROVE TypeOK'
    BY <1>11
       DEF TypeOK, RequestOperation, Serve, Requests, Quotes, Keys, PurchasePc, RunPc, rows,
           choices, shein, history, jobVars
  <1>12. ASSUME NEW k \in Keys, CarrierAnswers(k) PROVE TypeOK'
    BY <1>12 DEF TypeOK, CarrierAnswers, rows, choices, history, jobVars
  <1>13. ASSUME NEW k \in Keys, RecordLabel(k) PROVE TypeOK'
    BY <1>13
       DEF TypeOK, RecordLabel, ChannelOf, LedgerInv, LabelsRequested, rows, choices, shein,
           history
  <1>14. CASE RunStep
    <2> USE DEF TypeOK, PurchasePc, RunPc, Requests, Goto, GiveUp, Answer, Serve, NoRequest, rows, choices, shein, history, jobRest, jobVars
    <2>1. CASE StartRun BY <2>1 DEF StartRun
    <2>2. CASE LoadOrder BY SMTT(30), <2>2 DEF LoadOrder, RejectedAutoJobCarriers
    <2>3. CASE TakeQuote BY <2>3 DEF TakeQuote, Quotable, AutoKey, AutoKeys, Keys, Quotes
    <2>4. CASE SetAutoJobSelection BY <2>4 DEF SetAutoJobSelection
    <2>5. CASE SetAutoJobResult BY <2>5 DEF SetAutoJobResult
    <2>6. CASE CheckOrder BY <2>6 DEF CheckOrder
    <2>7. CASE RejectAutoJobCarrier
      <3>1. req[AutoRun].channel \in Channels /\ CodeCarrier[req[AutoRun].channel] \in Carriers
        BY <2>7 DEF RejectAutoJobCarrier
      <3> QED BY <2>7, <3>1 DEF RejectAutoJobCarrier, counters
    <2>8. CASE PrintAndHandOver BY <2>8 DEF PrintAndHandOver
    <2>9. CASE RunFails BY <2>9 DEF RunFails
    <2> QED BY <1>14, <2>1, <2>2, <2>3, <2>4, <2>5, <2>6, <2>7, <2>8, <2>9 DEF RunStep
  <1>15. CASE Crash
    BY <1>15
       DEF TypeOK, Crash, PurchasePc, RunPc, NoRequest, Unrecorded, rows, choices, shein,
           history, jobVars
  <1> QED
    BY <1>1, <1>2, <1>3, <1>4, <1>5, <1>6, <1>7, <1>8, <1>9, <1>10, <1>11, <1>12, <1>13,
       <1>14, <1>15 DEF Next, PurchaseStep

\* A step that leaves the ledger and SHEIN alone, and after which no thread
\* holds or is about to perform anything it did not before.
LEMMA QuietStep ==
    ASSUME LedgerInv, UNCHANGED <<rows, calls>>,
           \A k \in Keys : label'[k] # "none" => label[k] # "none",
           \A t \in Threads : Holds(t)' =>
               /\ Holds(t) /\ Row(t)' = Row(t) /\ Content(t)' = Content(t)
               /\ BeforeCall(t)' => BeforeCall(t)
               /\ pc'[t] = "complete" => pc[t] = "complete"
    PROVE  LedgerInv'
  <1> USE DEF LedgerInv, rows
  <1>1. HeldRowsPending'
    BY DEF HeldRowsPending
  <1>2. HoldersDistinct'
    BY DEF HoldersDistinct
  <1>3. CallsCounted'
    BY DEF CallsCounted, Holds
  <1>4. LabelsRequested' /\ OneCallPerKey'
    BY DEF LabelsRequested, OneCallPerKey
  <1> QED BY <1>1, <1>2, <1>3, <1>4

\* Every step keeps the ledger invariant: a row is worked on by the thread that reserved it.
LEMMA LedgerStep == TypeOK /\ LedgerInv /\ [Next]_vars => LedgerInv'
  <1> SUFFICES ASSUME TypeOK, LedgerInv, [Next]_vars PROVE LedgerInv'
    OBVIOUS
  <1> USE PurchaseAssumption
  <1> USE DEF Threads
  <1>1. CASE UNCHANGED vars
    BY <1>1, QuietStep DEF vars, rows, shein, Holds, BeforeCall, Row, Content
  <1>2. ASSUME NEW t \in Threads, Reserve(t) PROVE LedgerInv'
    <2>1. pc[t] = "reserve" /\ Row(t) \in Rows /\ Content(t) \in Quotes \X Channels /\ ~Holds(t)
      BY <1>2, RowTyped DEF Reserve, PurchasePc, Holds, BeforeCall
    <2>2. CASE Free(Row(t))
      <3>1. /\ ledger' = [ledger EXCEPT ![Row(t)] = "pending"]
            /\ hash' = [hash EXCEPT ![Row(t)] = Content(t)]
            /\ pc' = [pc EXCEPT ![t] = "verify"] /\ req' = req
            /\ UNCHANGED <<label, calls>>
        BY <1>2, <2>2 DEF Reserve, Goto, shein
      <3>2. \A s \in Threads : s # t =>
               /\ Holds(s)' = Holds(s) /\ BeforeCall(s)' = BeforeCall(s)
               /\ pc'[s] = pc[s]
        BY <3>1 DEF TypeOK, Holds, BeforeCall
      <3>3. /\ \A s \in Threads : Row(s)' = Row(s) /\ Content(s)' = Content(s)
            /\ \A s \in Threads : Holds(s) => Row(s) # Row(t)
            /\ calls[Row(t)] = 0
        BY <2>1, <2>2, <3>1 DEF Row, Content, LedgerInv, HeldRowsPending, CallsCounted, Free
      <3>4. HeldRowsPending'
        <4> SUFFICES ASSUME NEW s \in Threads, Holds(s)'
                     PROVE ledger'[Row(s)'] = "pending" /\ hash'[Row(s)'] = Content(s)'
          BY DEF HeldRowsPending
        <4>1. CASE s = t BY <2>1, <3>1, <3>3, <4>1 DEF TypeOK
        <4>2. CASE s # t
          BY <2>1, <3>1, <3>2, <3>3, <4>2 DEF TypeOK, LedgerInv, HeldRowsPending
        <4> QED BY <4>1, <4>2
      <3>5. HoldersDistinct'
        BY <3>2, <3>3 DEF LedgerInv, HoldersDistinct
      <3>6. CallsCounted'
        <4>1. \A r \in Rows : ledger'[r] = "none" => calls'[r] = 0
          BY <3>1, <3>3 DEF TypeOK, LedgerInv, CallsCounted
        <4>2. \A s \in Threads : BeforeCall(s)' => calls'[Row(s)'] = 0
          BY <3>1, <3>2, <3>3 DEF LedgerInv, CallsCounted
        <4>3. \A s \in Threads : pc'[s] = "complete" => calls'[Row(s)'] = 1
          BY <3>1, <3>3 DEF TypeOK, LedgerInv, CallsCounted
        <4> QED BY <4>1, <4>2, <4>3 DEF CallsCounted
      <3>7. LabelsRequested' /\ OneCallPerKey'
        BY <2>1, <3>1 DEF TypeOK, LedgerInv, LabelsRequested, OneCallPerKey, Rows
      <3> QED BY <3>4, <3>5, <3>6, <3>7 DEF LedgerInv
    <2>3. CASE ~Free(Row(t))
      <3>1. UNCHANGED <<rows, calls, label>>
            /\ pc'[t] \in {"result", "idle"}
            /\ \A s \in Threads : s # t => pc'[s] = pc[s] /\ req'[s] = req[s]
        BY <1>2, <2>3 DEF Reserve, TypeOK, Goto, GiveUp, Answer, Serve, shein
      <3> QED BY <3>1, QuietStep DEF Holds, BeforeCall, Row, Content
    <2> QED BY <2>2, <2>3
  <1>3. ASSUME NEW t \in Threads, Verify(t) \/ ReadChoice(t) \/ InsertChoice(t) PROVE LedgerInv'
    <2>1. /\ UNCHANGED <<rows, calls, label>>
          /\ \A s \in Threads : s # t => pc'[s] = pc[s] /\ req'[s] = req[s]
          /\ pc'[t] = "idle" \/ (req' = req /\ pc'[t] \in {"reserve", "fail", "insert", "read", "call"})
          /\ t = AutoRun /\ pc[t] # "verify" => pc'[t] \in {"insert", "reserve", "idle"}
          /\ pc[t] \in {"verify", "read", "insert"}
      BY <1>3 DEF Verify, ReadChoice, InsertChoice, AfterVerify, AfterChoice, TypeOK, Goto, GiveUp,
                  Answer, Serve, shein
    <2> QED BY <2>1, QuietStep DEF Holds, BeforeCall, Row, Content
  <1>4. ASSUME NEW t \in Threads, Call(t) PROVE LedgerInv'
    <2>1. /\ pc[t] = "call" /\ Row(t) \in Rows /\ req[t].key \in Keys
          /\ Content(t) \in Quotes \X Channels
      BY <1>4, RowTyped DEF Call, PurchasePc
    <2>2. /\ calls' = [calls EXCEPT ![Row(t)] = @ + 1]
          /\ rows' = rows /\ req' = req
          /\ pc' \in [Threads -> {"idle"} \cup PurchasePc \cup RunPc]
          /\ pc'[t] \in {"complete", "fail", "fail_uncovered"}
          /\ \A s \in Threads : s # t => pc'[s] = pc[s]
          /\ label' # label => req[t].op = "place" /\ label' = [label EXCEPT ![req[t].key] = "open"]
      BY <1>4 DEF Call, Goto, TypeOK, PurchasePc, RunPc
    <2>3. Holds(t) /\ BeforeCall(t) /\ calls[Row(t)] = 0 /\ ledger[Row(t)] = "pending"
          /\ hash[Row(t)] = Content(t)
      BY <2>1 DEF Holds, BeforeCall, LedgerInv, CallsCounted, HeldRowsPending
    <2>4. \A s \in Threads :
             /\ Row(s)' = Row(s) /\ Content(s)' = Content(s)
             /\ s # t => (Holds(s)' <=> Holds(s)) /\ (BeforeCall(s)' <=> BeforeCall(s))
             /\ s # t /\ Holds(s) => Row(s) # Row(t)
      BY <2>2, <2>3 DEF Holds, BeforeCall, Row, Content, LedgerInv, HoldersDistinct
    <2>5. HeldRowsPending' /\ HoldersDistinct'
      BY <2>2, <2>3, <2>4 DEF rows, LedgerInv, HeldRowsPending, HoldersDistinct
    <2>6. CallsCounted'
      <3>1. \A r \in Rows : ledger'[r] = "none" => calls'[r] = 0
        BY <2>1, <2>2, <2>3 DEF TypeOK, rows, LedgerInv, CallsCounted
      <3>2. \A s \in Threads : BeforeCall(s)' => calls'[Row(s)'] = 0
        BY <2>1, <2>2, <2>4 DEF TypeOK, LedgerInv, CallsCounted, Holds, BeforeCall
      <3>3. \A s \in Threads : pc'[s] = "complete" => calls'[Row(s)'] = 1
        BY <2>1, <2>2, <2>3, <2>4 DEF TypeOK, LedgerInv, CallsCounted, Holds
      <3> QED BY <3>1, <3>2, <3>3 DEF CallsCounted
    <2>7. LabelsRequested'
      BY ZenonT(60), <2>1, <2>2, <2>3 DEF TypeOK, rows, LedgerInv, LabelsRequested, Row
    <2>8. OneCallPerKey'
      BY <2>1, <2>2, <2>3 DEF TypeOK, LedgerInv, OneCallPerKey
    <2> QED BY <2>5, <2>6, <2>7, <2>8 DEF LedgerInv
  <1>5. ASSUME NEW t \in Threads, Complete(t) \/ Fail(t) PROVE LedgerInv'
    <2>1. /\ pc[t] \in {"complete", "fail", "fail_uncovered"} /\ Row(t) \in Rows
          /\ Holds(t)
      BY <1>5, RowTyped DEF Complete, Fail, PurchasePc, Holds
    <2>2. \E settled \in {"completed", "failed"} : ledger' = [ledger EXCEPT ![Row(t)] = settled]
      BY <1>5 DEF Complete, Fail, MarkFailed
    <2>3. /\ UNCHANGED <<hash, calls, label>>
          /\ pc'[t] \in {"result", "idle", "reject"}
          /\ \A s \in Threads : s # t => pc'[s] = pc[s] /\ req'[s] = req[s]
      BY <1>5 DEF Complete, Fail, AfterSale, TypeOK, Goto, GiveUp, Answer, Serve, shein
    <2>4. /\ ~Holds(t)' /\ ~BeforeCall(t)'
          /\ \A s \in Threads : s # t =>
             /\ (Holds(s)' <=> Holds(s)) /\ (BeforeCall(s)' <=> BeforeCall(s))
             /\ Row(s)' = Row(s) /\ Content(s)' = Content(s)
             /\ Holds(s) => Row(s) # Row(t)
      BY <2>1, <2>3 DEF Holds, BeforeCall, Row, Content, LedgerInv, HoldersDistinct
    <2>5. HeldRowsPending' /\ HoldersDistinct'
      BY <2>1, <2>2, <2>3, <2>4 DEF TypeOK, LedgerInv, HeldRowsPending, HoldersDistinct
    <2>6. CallsCounted'
      BY <2>1, <2>2, <2>3, <2>4 DEF TypeOK, LedgerInv, CallsCounted, Holds
    <2>7. LabelsRequested' /\ OneCallPerKey'
      BY <2>3 DEF LedgerInv, LabelsRequested, OneCallPerKey
    <2> QED BY <2>5, <2>6, <2>7 DEF LedgerInv
  <1>6. ASSUME NEW t \in Threads, DbError(t) PROVE LedgerInv'
    <2>1. /\ UNCHANGED <<rows, calls, label>>
          /\ \A s \in Threads : s # t => pc'[s] = pc[s] /\ req'[s] = req[s]
          /\ \/ pc'[t] \in {"idle", "reject"}
             \/ t # AutoRun /\ pc[t] \in {"read", "insert"} /\ pc'[t] = "fail" /\ req' = req
      BY <1>6 DEF DbError, TypeOK, Goto, GiveUp, Answer, Serve, shein
    <2> QED BY <2>1, QuietStep DEF Holds, BeforeCall, Row, Content
  <1>7. ASSUME NEW q \in OperatorQuotes, QuoteManually(q) PROVE LedgerInv'
    BY <1>7, QuietStep DEF QuoteManually, rows, shein, Holds, BeforeCall, Row, Content
  <1>8. ASSUME NEW h \in Handlers, RequestOperation(h) PROVE LedgerInv'
    <2>1. /\ UNCHANGED <<rows, calls, label>> /\ pc'[h] = "reserve"
          /\ \A s \in Threads : s # h => pc'[s] = pc[s] /\ req'[s] = req[s]
      BY <1>8 DEF RequestOperation, Serve, TypeOK, shein
    <2> QED BY <2>1, QuietStep DEF Holds, BeforeCall, Row, Content
  <1>9. ASSUME NEW k \in Keys, CarrierAnswers(k) PROVE LedgerInv'
    <2>1. UNCHANGED <<rows, calls, pc, req>> /\ \A l \in Keys : label'[l] # "none" => label[l] # "none"
      BY <1>9 DEF CarrierAnswers, TypeOK
    <2> QED BY <2>1, QuietStep DEF rows, Holds, BeforeCall, Row, Content
  <1>10. ASSUME NEW k \in Keys, RecordLabel(k) PROVE LedgerInv'
    BY <1>10, QuietStep DEF RecordLabel, rows, shein, Holds, BeforeCall, Row, Content
  <1>11. CASE RunStep
    <2>1. /\ UNCHANGED <<rows, calls, label>>
          /\ \A s \in Threads : s # AutoRun => pc'[s] = pc[s] /\ req'[s] = req[s]
          /\ pc'[AutoRun] \in {"idle", "load", "quote", "select", "read", "confirm", "confirm_stored",
                               "reject", "reject_stored", "print"}
      <3> USE DEF TypeOK, Goto, GiveUp, Answer, Serve, shein
      <3>1. CASE StartRun BY <3>1 DEF StartRun
      <3>2. CASE LoadOrder BY <3>2 DEF LoadOrder
      <3>3. CASE TakeQuote BY <3>3 DEF TakeQuote
      <3>4. CASE SetAutoJobSelection BY <3>4 DEF SetAutoJobSelection
      <3>5. CASE SetAutoJobResult BY <3>5 DEF SetAutoJobResult
      <3>6. CASE CheckOrder BY <3>6 DEF CheckOrder
      <3>7. CASE RejectAutoJobCarrier BY <3>7 DEF RejectAutoJobCarrier
      <3>8. CASE PrintAndHandOver BY <3>8 DEF PrintAndHandOver
      <3>9. CASE RunFails BY <3>9 DEF RunFails
      <3> QED
        BY <1>11, <3>1, <3>2, <3>3, <3>4, <3>5, <3>6, <3>7, <3>8, <3>9 DEF RunStep
    <2> QED BY <2>1, QuietStep DEF Holds, BeforeCall, Row, Content
  <1>12. CASE Crash
    <2>1. UNCHANGED <<rows, calls, label>> /\ \A s \in Threads : pc'[s] = "idle"
      BY <1>12 DEF Crash, shein
    <2> QED BY <2>1, QuietStep DEF Holds, BeforeCall, Row, Content
  <1> QED
    BY <1>1, <1>2, <1>3, <1>4, <1>5, <1>6, <1>7, <1>8, <1>9, <1>10, <1>11, <1>12
    DEF Next, PurchaseStep

\* Types and the invariant of the ledger hold of every execution.
THEOREM LedgerInvariant == Spec => [](TypeOK /\ LedgerInv)
  <1>1. TypeOK /\ LedgerInv /\ [Next]_vars => (TypeOK /\ LedgerInv)'
    BY TypeStep, LedgerStep
  <1> QED BY <1>1, LedgerInit, PTL DEF Spec

\* The state stays within its types: the request a thread serves is complete
\* whenever a step of the purchase reads it.
THEOREM PurchaseTypeCorrect == Spec => []TypeOK
  BY LedgerInvariant, PTL

\* SHEIN receives an operation at most once under one Idempotency-Key, from
\* any number of handlers and runs, across restarts and database errors.
THEOREM CalledOnce == Spec => []OneCallPerKey
  <1>1. TypeOK /\ LedgerInv => OneCallPerKey
    BY DEF LedgerInv
  <1> QED BY <1>1, LedgerInvariant, PTL

-----------------------------------------------------------------------------
(* The ledger implements IdempotentOperations: every step claims, performs  *)
(* or settles one operation, or leaves all of them alone.                  *)

\* The initial states refine.
LEMMA LedgerInitRefined == Init => Ledger!Init
  BY DEF Init, Ledger!Init

\* Every step of the purchases is a step of the ledger's promise, or a stutter.
LEMMA LedgerStepRefined ==
    TypeOK /\ LedgerInv /\ [Next]_vars =>
        [Ledger!Next]_<<ledger, calls>>
  <1> SUFFICES ASSUME TypeOK, LedgerInv, [Next]_vars
               PROVE  Ledger!Next \/ UNCHANGED <<ledger, calls>>
    OBVIOUS
  <1> USE DEF Threads
  <1>1. CASE UNCHANGED <<ledger, calls>>
    BY <1>1
  <1>2. ASSUME NEW t \in Threads, Reserve(t) PROVE Ledger!Next \/ UNCHANGED <<ledger, calls>>
    <2>1. PICK r \in Rows : r = Row(t)
      BY <1>2, RowTyped DEF Reserve, PurchasePc
    <2>2. CASE Free(Row(t))
      <3>1. ledger[r] = "none" /\ ledger' = [ledger EXCEPT ![r] = "pending"] /\ calls' = calls
        BY <1>2, <2>1, <2>2 DEF Reserve, Free, shein
      <3>2. Ledger!Claim(r)
        BY <3>1 DEF Ledger!Claim
      <3> QED BY <3>2 DEF Ledger!Next
    <2>3. CASE ~Free(Row(t))
      BY <1>2, <2>3 DEF Reserve, rows, shein
    <2> QED BY <2>2, <2>3
  <1>3. ASSUME NEW t \in Threads, Call(t) PROVE Ledger!Next
    <2>1. PICK r \in Rows : r = Row(t)
      BY <1>3, RowTyped DEF Call, PurchasePc
    <2>2. /\ BeforeCall(t) /\ ledger' = ledger
          /\ calls' = [calls EXCEPT ![r] = @ + 1]
      BY <1>3, <2>1 DEF Call, BeforeCall, rows
    <2>3. ledger[r] = "pending" /\ calls[r] = 0
      BY <2>1, <2>2 DEF Holds, LedgerInv, HeldRowsPending, CallsCounted
    <2>4. calls' = [calls EXCEPT ![r] = 1]
      BY <2>2, <2>3
    <2>5. Ledger!Perform(r)
      BY <2>2, <2>3, <2>4 DEF Ledger!Perform
    <2> QED BY <2>5 DEF Ledger!Next
  <1>4. ASSUME NEW t \in Threads, Complete(t) \/ Fail(t) PROVE Ledger!Next
    <2>1. PICK r \in Rows : r = Row(t)
      BY <1>4, RowTyped DEF Complete, Fail, PurchasePc
    <2>2. Holds(t) /\ calls' = calls
      BY <1>4 DEF Complete, Fail, Holds, shein
    <2>3. ledger[r] = "pending"
      BY <2>1, <2>2 DEF LedgerInv, HeldRowsPending
    <2>4. \/ ledger' = [ledger EXCEPT ![r] = "failed"]
          \/ ledger' = [ledger EXCEPT ![r] = "completed"] /\ calls[r] = 1
      BY <1>4, <2>1 DEF Complete, Fail, MarkFailed, LedgerInv, CallsCounted
    <2>5. Ledger!Settle(r)
      BY <2>2, <2>3, <2>4 DEF Ledger!Settle
    <2> QED BY <2>5 DEF Ledger!Next
  <1>5. ASSUME NEW t \in Threads, Verify(t) \/ ReadChoice(t) \/ InsertChoice(t) \/ DbError(t)
        PROVE  UNCHANGED <<ledger, calls>>
    BY <1>5 DEF Verify, ReadChoice, InsertChoice, DbError, rows, shein
  <1>6. CASE RunStep
    BY <1>6 DEF RunStep, StartRun, LoadOrder, TakeQuote, SetAutoJobSelection, SetAutoJobResult,
                CheckOrder, RejectAutoJobCarrier, PrintAndHandOver, RunFails, rows, shein
  <1>7. ASSUME NEW q \in OperatorQuotes, QuoteManually(q) PROVE UNCHANGED <<ledger, calls>>
    BY <1>7 DEF QuoteManually, rows, shein
  <1>8. ASSUME NEW h \in Handlers, RequestOperation(h) PROVE UNCHANGED <<ledger, calls>>
    BY <1>8 DEF RequestOperation, rows, shein
  <1>9. ASSUME NEW k \in Keys, CarrierAnswers(k) \/ RecordLabel(k) PROVE UNCHANGED <<ledger, calls>>
    BY <1>9 DEF CarrierAnswers, RecordLabel, rows, shein
  <1>10. CASE Crash \/ UNCHANGED vars
    BY <1>10 DEF Crash, vars, rows, shein
  <1> QED
    BY <1>1, <1>2, <1>3, <1>4, <1>5, <1>6, <1>7, <1>8, <1>9, <1>10
    DEF Next, PurchaseStep, RunStep

\* The operation ledger of the code implements the abstract one.
THEOREM LedgerImplemented == Spec => ImplementsLedger
  <1>1. TypeOK /\ LedgerInv /\ [Next]_vars =>
            [Ledger!Next]_<<ledger, calls>>
    BY LedgerStepRefined
  <1> QED BY <1>1, LedgerInitRefined, LedgerInvariant, PTL DEF Spec, ImplementsLedger, Ledger!Spec

-----------------------------------------------------------------------------
(* A pending purchase is in somebody's hands                               *)

PendingHeld ==
    crashes = 0 /\ dbErrors = 0 => \A k \in Keys :
        ledger[<<"place", k>>] = "pending" => \E t \in Threads : Row(t) = <<"place", k>> /\ Holds(t)

\* A pending purchase keeps its thread, unless a restart or a database error comes.
LEMMA PendingStep == TypeOK /\ LedgerInv /\ PendingHeld /\ [Next]_vars => PendingHeld'
  <1> SUFFICES ASSUME TypeOK, LedgerInv, PendingHeld, [Next]_vars,
                      crashes' = 0, dbErrors' = 0,
                      NEW k \in Keys, ledger'[<<"place", k>>] = "pending"
               PROVE  \E t \in Threads : Row(t)' = <<"place", k>> /\ Holds(t)'
    BY DEF PendingHeld
  <1> DEFINE row == <<"place", k>>
  <1> USE PurchaseAssumption
  <1> USE DEF Threads
  <1>1. crashes = 0 /\ dbErrors = 0
    <2>1. crashes <= crashes' /\ dbErrors <= dbErrors' /\ crashes \in Nat /\ dbErrors \in Nat
      BY DEF TypeOK, Next, PurchaseStep, RunStep, Reserve, Verify, ReadChoice, InsertChoice, Call,
             Complete, Fail, DbError, QuoteManually, RequestOperation, CarrierAnswers, RecordLabel,
             StartRun, LoadOrder, TakeQuote, SetAutoJobSelection, SetAutoJobResult, CheckOrder,
             RejectAutoJobCarrier, PrintAndHandOver, RunFails, Crash, vars, history, counters
    <2> QED BY SMTT(30), <2>1
  <1>2. CASE ledger[row] # "pending"
    <2>1. PICK t \in Threads : Reserve(t) \/ Complete(t) \/ Fail(t)
      BY <1>2 DEF Next, PurchaseStep, RunStep, Verify, ReadChoice, InsertChoice, Call, DbError,
         QuoteManually, RequestOperation, CarrierAnswers, RecordLabel, StartRun, LoadOrder, TakeQuote,
         SetAutoJobSelection, SetAutoJobResult, CheckOrder, RejectAutoJobCarrier, PrintAndHandOver,
         RunFails, Crash, vars, rows
    <2>2. Reserve(t)
      <3>1. ASSUME Complete(t) \/ Fail(t) PROVE FALSE
        <4>1. ledger' = [ledger EXCEPT ![Row(t)] = "completed"]
              \/ ledger' = [ledger EXCEPT ![Row(t)] = "failed"]
          BY <3>1 DEF Complete, Fail, MarkFailed
        <4>2. row \in Rows
          BY DEF Rows
        <4> QED BY <1>2, <4>1, <4>2 DEF TypeOK
      <3> QED BY <2>1, <3>1
    <2>3. Row(t) = row /\ pc' = [pc EXCEPT ![t] = "verify"] /\ req' = req
      <3>1. pc[t] = "reserve" /\ Row(t) \in Rows
        BY <2>2, RowTyped DEF Reserve, PurchasePc
      <3>2. Row(t) = row
        <4>1. row \in Rows
          BY DEF Rows
        <4> QED BY <1>2, <2>2, <3>1, <4>1 DEF TypeOK, Reserve, rows
      <3> QED BY <1>2, <2>2, <3>2 DEF Reserve, Goto, rows
    <2> QED BY SMTT(30), <2>3 DEF TypeOK, Row, Holds, BeforeCall
  <1>3. CASE ledger[row] = "pending"
    <2>1. PICK t \in Threads : Row(t) = row /\ Holds(t)
      BY <1>1, <1>3 DEF PendingHeld
    <2>2. CASE pc'[t] = pc[t] /\ req'[t] = req[t]
      BY <2>1, <2>2 DEF Row, Holds, BeforeCall
    <2>3. ASSUME NEW s \in Threads, PurchaseStep(s), s # t PROVE pc'[t] = pc[t] /\ req'[t] = req[t]
      BY <2>3 DEF TypeOK, PurchaseStep, Reserve, Verify, ReadChoice, InsertChoice, Call, Complete,
                  Fail, Goto, GiveUp, Answer, Serve
    <2>4. ASSUME PurchaseStep(t) PROVE Row(t)' = row /\ Holds(t)'
      <3>1. ~Reserve(t)
        BY <2>1 DEF Reserve, Holds, BeforeCall
      <3>2. CASE Verify(t)
        BY <2>1, <3>2 DEF TypeOK, Verify, AfterVerify, Goto, Row, Holds, BeforeCall
      <3>3. CASE ReadChoice(t) \/ InsertChoice(t)
        BY <2>1, <3>3
           DEF TypeOK, ReadChoice, InsertChoice, AfterChoice, Goto, Row, Holds, BeforeCall
      <3>4. CASE Call(t)
        BY <2>1, <3>4 DEF TypeOK, Call, Goto, Row, Holds, BeforeCall
      <3>5. ~Complete(t) /\ ~Fail(t)
        BY <2>1 DEF TypeOK, Complete, Fail, MarkFailed, Rows
      <3> QED BY <2>4, <3>1, <3>2, <3>3, <3>4, <3>5 DEF PurchaseStep
    <2>5. ASSUME NEW s \in Threads, DbError(s) PROVE FALSE
      BY <1>1, <2>5 DEF DbError
    <2>6. ASSUME RunStep PROVE pc'[t] = pc[t] /\ req'[t] = req[t]
      <3>1. pc[AutoRun] \in (RunPc \ {"fail_uncovered"}) \cup {"idle", "read", "insert", "reserve"}
        BY <2>6 DEF RunStep, StartRun, LoadOrder, TakeQuote, SetAutoJobSelection, SetAutoJobResult,
                    CheckOrder, RejectAutoJobCarrier, PrintAndHandOver, RunFails, RunPc
      <3>2. t # AutoRun
        BY <2>1, <3>1 DEF Holds, BeforeCall, RunPc
      <3> QED
        BY <2>6, <3>2 DEF TypeOK, RunStep, StartRun, LoadOrder, TakeQuote, SetAutoJobSelection,
           SetAutoJobResult, CheckOrder, RejectAutoJobCarrier, PrintAndHandOver, RunFails,
           Goto, GiveUp, Answer, Serve
    <2>7. ASSUME NEW h \in Handlers, RequestOperation(h) PROVE pc'[t] = pc[t] /\ req'[t] = req[t]
      BY <2>1, <2>7 DEF TypeOK, RequestOperation, Serve, Holds, BeforeCall
    <2>8. ASSUME Crash PROVE FALSE
      BY <1>1, <2>8 DEF Crash
    <2>9. ASSUME \/ \E q \in OperatorQuotes : QuoteManually(q)
                 \/ \E l \in Keys : CarrierAnswers(l) \/ RecordLabel(l)
                 \/ UNCHANGED vars
          PROVE  pc'[t] = pc[t] /\ req'[t] = req[t]
      BY <2>9 DEF QuoteManually, CarrierAnswers, RecordLabel, vars
    <2> QED BY <2>1, <2>2, <2>3, <2>4, <2>5, <2>6, <2>7, <2>8, <2>9 DEF Next
  <1> QED BY <1>2, <1>3

\* A pending purchase is being worked on, whatever the handlers and runs do,
\* while there has been no restart and no database error.
THEOREM PurchasesInProgress == Spec => []PendingPurchaseInProgress
  <1>1. Init => PendingHeld
    BY DEF Init, PendingHeld, Rows
  <1>2. PendingHeld => PendingPurchaseInProgress
    BY DEF PendingHeld, PendingPurchaseInProgress, InProgress, Holds, BeforeCall
  <1>3. TypeOK /\ LedgerInv /\ PendingHeld /\ [Next]_vars => PendingHeld'
    BY PendingStep
  <1> QED BY <1>1, <1>2, <1>3, LedgerInvariant, PTL DEF Spec

-----------------------------------------------------------------------------
(* The automatic run: what it buys, and what it may not buy                *)

\* The steps of a run between the choice of a channel and the result of the
\* purchase; those with nothing placed; those that serve a request of its own.
BuyingPc == {"select", "read", "insert", "reserve", "verify", "call", "complete", "fail",
             "fail_uncovered", "result"}
UnplacedPc == BuyingPc \cup {"load", "quote"}
OwnRequestPc == BuyingPc \cup {"confirm", "reject"}

ManualRequests ==
    \A h \in Handlers : pc[h] \in PurchasePc =>
        req[h].key \in ManualKeys /\ req[h].quote \in OperatorQuotes
OwnRequest ==
    pc[AutoRun] \in OwnRequestPc =>
        /\ req[AutoRun].op = "place"
        /\ req[AutoRun].quote \in AutoQuotes /\ req[AutoRun].channel \in Quotable
        /\ req[AutoRun].key = AutoKey(req[AutoRun].quote, req[AutoRun].channel)
RejectedExcluded == pc[AutoRun] \in OwnRequestPc \cup {"quote"} => rejected \subseteq excluded
UncoveredRejected == \A c \in uncovered : CodeCarrier[c] \in rejected
RunHasJob == pc[AutoRun] # "idle" => job = "open"
NothingPlaced == pc[AutoRun] \in UnplacedPc => placed = None
PlacedServed ==
    /\ pc[AutoRun] \in {"confirm", "confirm_stored", "reject_stored", "print"} =>
          placed = req[AutoRun].key
    /\ pc[AutoRun] = "reject" => placed \in {None, req[AutoRun].key}
    /\ pc[AutoRun] \in {"confirm_stored", "reject_stored", "print"} => placed # None

RunInv ==
    /\ ManualRequests /\ OwnRequest /\ RejectedExcluded /\ UncoveredRejected /\ RunHasJob
    /\ NothingPlaced /\ PlacedServed

\* No request is served and no job is open when the server starts.
LEMMA RunInit == Init => RunInv
  BY PurchaseAssumption
  DEF Init, RunInv, ManualRequests, OwnRequest, RejectedExcluded, UncoveredRejected, RunHasJob,
      NothingPlaced, PlacedServed, Threads, PurchasePc, BuyingPc, UnplacedPc, OwnRequestPc

\* A handler serves the request of its client until it answers.
LEMMA ManualRequestsStep == TypeOK /\ RunInv /\ [Next]_vars => ManualRequests'
  <1> SUFFICES ASSUME TypeOK, RunInv, [Next]_vars, NEW h \in Handlers, pc'[h] \in PurchasePc
               PROVE  req'[h].key \in ManualKeys /\ req'[h].quote \in OperatorQuotes
    BY DEF ManualRequests
  <1> USE PurchaseAssumption DEF Threads
  <1>1. CASE pc[h] \in PurchasePc /\ req'[h] = req[h]
    BY <1>1 DEF RunInv, ManualRequests
  <1>2. ASSUME NEW t \in Threads, PurchaseStep(t) \/ DbError(t)
        PROVE  pc[h] \in PurchasePc /\ req'[h] = req[h]
    <2>1. CASE t # h
      BY <1>2, <2>1 DEF TypeOK, PurchaseStep, Reserve, Verify, ReadChoice, InsertChoice, Call,
         Complete, Fail, DbError, Goto, GiveUp, Answer, Serve
    <2>2. CASE t = h
      BY <1>2, <2>2 DEF TypeOK, PurchaseStep, Reserve, Verify, ReadChoice, InsertChoice, Call,
         Complete, Fail, DbError, Unrecorded, Goto, GiveUp, Answer, Serve, PurchasePc
    <2> QED BY <2>1, <2>2
  <1>3. ASSUME NEW g \in Handlers, RequestOperation(g)
        PROVE  \/ pc[h] \in PurchasePc /\ req'[h] = req[h]
               \/ req'[h].key \in ManualKeys /\ req'[h].quote \in OperatorQuotes
    BY <1>3 DEF TypeOK, RequestOperation, Serve
  <1>4. ASSUME RunStep PROVE pc[h] \in PurchasePc /\ req'[h] = req[h]
    BY <1>4 DEF TypeOK, RunStep, StartRun, LoadOrder, TakeQuote, SetAutoJobSelection,
       SetAutoJobResult, CheckOrder, RejectAutoJobCarrier, PrintAndHandOver, RunFails,
       Goto, GiveUp, Answer, Serve
  <1>5. ~Crash
    BY DEF Crash, PurchasePc
  <1>6. ASSUME \/ \E q \in OperatorQuotes : QuoteManually(q)
               \/ \E k \in Keys : CarrierAnswers(k) \/ RecordLabel(k)
               \/ UNCHANGED vars
        PROVE  pc[h] \in PurchasePc /\ req'[h] = req[h]
    BY <1>6 DEF QuoteManually, CarrierAnswers, RecordLabel, vars
  <1> QED BY <1>1, <1>2, <1>3, <1>4, <1>5, <1>6 DEF Next

\* The run buys under the key of its quote and channel.
LEMMA OwnKey ==
    ASSUME RunInv, pc[AutoRun] \in OwnRequestPc
    PROVE  req[AutoRun].quote \in AutoQuotes /\ req[AutoRun].key \in AutoKeys
  BY SMTT(30) DEF RunInv, OwnRequest, Quotable, AutoKey, AutoKeys

\* What the others do leaves the run and its job alone; the label the watch
\* records goes to a job that is not open.
RunUntouched ==
    /\ pc'[AutoRun] = pc[AutoRun] /\ req'[AutoRun] = req[AutoRun]
    /\ UNCHANGED <<excluded, rejected, uncovered, jobQuote>>
    /\ UNCHANGED <<job, placed>> \/ pc[AutoRun] = "idle"

LEMMA OthersLeaveRun ==
    ASSUME TypeOK, RunInv,
           \/ \E t \in Handlers : PurchaseStep(t) \/ DbError(t) \/ RequestOperation(t)
           \/ \E q \in OperatorQuotes : QuoteManually(q)
           \/ \E k \in Keys : CarrierAnswers(k) \/ RecordLabel(k)
           \/ UNCHANGED vars
    PROVE  RunUntouched
  <1> USE PurchaseAssumption DEF Threads, jobVars, jobRest, history, counters
  <1>1. ASSUME NEW t \in Handlers, PurchaseStep(t) \/ DbError(t) \/ RequestOperation(t)
        PROVE RunUntouched
    BY <1>1 DEF RunUntouched, TypeOK, PurchaseStep, Reserve, Verify, ReadChoice, InsertChoice, Call,
         Complete, Fail, DbError, Unrecorded, RequestOperation, Goto, GiveUp, Answer, Serve
  <1>2. ASSUME NEW k \in Keys, RecordLabel(k) PROVE RunUntouched
    BY <1>2 DEF RunUntouched, RecordLabel, RunInv, RunHasJob
  <1>3. ASSUME \/ \E q \in OperatorQuotes : QuoteManually(q)
               \/ \E k \in Keys : CarrierAnswers(k)
               \/ UNCHANGED vars
        PROVE  RunUntouched
    BY <1>3 DEF RunUntouched, QuoteManually, CarrierAnswers, vars
  <1> QED BY <1>1, <1>2, <1>3

\* Every step keeps what is said of the run.
LEMMA RunInvStep == TypeOK /\ RunInv /\ [Next]_vars => RunInv'
  <1> SUFFICES ASSUME TypeOK, RunInv, [Next]_vars PROVE RunInv'
    OBVIOUS
  <1>0. ManualRequests'
    BY ManualRequestsStep
  <1> DEFINE Rest == /\ OwnRequest /\ RejectedExcluded /\ UncoveredRejected /\ RunHasJob
                     /\ NothingPlaced /\ PlacedServed
  <1> SUFFICES Rest'
    BY <1>0 DEF RunInv
  <1> USE PurchaseAssumption
  <1> USE DEF Threads, RunInv, OwnRequest, RejectedExcluded, UncoveredRejected, RunHasJob,
              NothingPlaced, PlacedServed, Quotable, BuyingPc, UnplacedPc, OwnRequestPc, history, counters
  <1>1. CASE RunUntouched
    BY <1>1 DEF RunUntouched
  <1>2. ASSUME PurchaseStep(AutoRun) \/ DbError(AutoRun) PROVE Rest'
    <2> USE DEF TypeOK, Goto, GiveUp, Answer, Serve, NoRequest, jobVars, jobRest
    <2>1. CASE Reserve(AutoRun) BY <2>1 DEF Reserve
    <2>2. CASE Verify(AutoRun) BY <2>2 DEF Verify, AfterVerify
    <2>3. CASE ReadChoice(AutoRun) BY <2>3 DEF ReadChoice, AfterChoice
    <2>4. CASE InsertChoice(AutoRun) BY <2>4 DEF InsertChoice, AfterChoice
    <2>5. CASE Call(AutoRun) BY <2>5 DEF Call
    <2>6. CASE Complete(AutoRun) BY <2>6 DEF Complete, AfterSale
    <2>7. CASE Fail(AutoRun) BY <2>7 DEF Fail
    <2>8. CASE DbError(AutoRun) BY <2>8 DEF DbError, Unrecorded
    <2> QED BY <1>2, <2>1, <2>2, <2>3, <2>4, <2>5, <2>6, <2>7, <2>8 DEF PurchaseStep
  <1>3. ASSUME RunStep PROVE Rest'
    <2> USE DEF TypeOK, Goto, GiveUp, Answer, Serve, NoRequest, jobVars, jobRest
    <2>1. CASE StartRun BY <2>1 DEF StartRun, HasPurchase
    <2>2. CASE LoadOrder BY <2>2 DEF LoadOrder, RejectedAutoJobCarriers
    <2>3. CASE TakeQuote BY <2>3 DEF TakeQuote
    <2>4. CASE SetAutoJobSelection BY <2>4 DEF SetAutoJobSelection
    <2>5. CASE SetAutoJobResult BY <2>5 DEF SetAutoJobResult
    <2>6. CASE CheckOrder
      <3>1. CASE pc[AutoRun] = "confirm"
        <4>1. req[AutoRun].key # None
          BY <3>1, OwnKey DEF Keys
        <4> QED BY <2>6, <3>1, <4>1 DEF CheckOrder
      <3>2. CASE pc[AutoRun] = "confirm_stored"
        BY <2>6, <3>2 DEF CheckOrder
      <3> QED BY <2>6, <3>1, <3>2 DEF CheckOrder
    <2>7. CASE RejectAutoJobCarrier BY <2>7 DEF RejectAutoJobCarrier
    <2>8. CASE PrintAndHandOver BY <2>8 DEF PrintAndHandOver
    <2>9. CASE RunFails BY <2>9 DEF RunFails
    <2> QED BY <1>3, <2>1, <2>2, <2>3, <2>4, <2>5, <2>6, <2>7, <2>8, <2>9 DEF RunStep
  <1>4. CASE Crash
    BY <1>4 DEF TypeOK, Crash, jobVars
  <1> QED BY <1>1, <1>2, <1>3, <1>4, OthersLeaveRun DEF Next

\* Types, the ledger and the run hold of every execution.
THEOREM RunInvariant == Spec => [](TypeOK /\ LedgerInv /\ RunInv)
  <1>1. TypeOK /\ RunInv /\ [Next]_vars => RunInv'
    BY RunInvStep
  <1> QED BY <1>1, RunInit, LedgerInvariant, PTL DEF Spec

\* SHEIN is called by nothing but the call of a purchase, for the row the thread holds.
LEMMA CallerKnown ==
    ASSUME TypeOK, [Next]_vars, NEW k \in Keys, calls'[<<"place", k>>] > calls[<<"place", k>>]
    PROVE  \E t \in Threads : Call(t) /\ Row(t) = <<"place", k>>
  <1>1. <<"place", k>> \in Rows /\ calls[<<"place", k>>] \in Nat
    BY DEF TypeOK, Rows
  <1>2. calls' # calls
    BY SMTT(30), <1>1
  <1>3. PICK t \in Threads : Call(t)
    BY <1>2 DEF Next, PurchaseStep, RunStep, Reserve, Verify, ReadChoice, InsertChoice, Complete,
       Fail, DbError, QuoteManually, RequestOperation, CarrierAnswers, RecordLabel, StartRun,
       LoadOrder, TakeQuote, SetAutoJobSelection, SetAutoJobResult, CheckOrder,
       RejectAutoJobCarrier, PrintAndHandOver, RunFails, Crash, vars, shein
  <1>4. Row(t) = <<"place", k>>
    BY <1>1, <1>3, RowTyped DEF TypeOK, Call, PurchasePc
  <1> QED BY <1>3, <1>4

\* What is bought under a key of the run is bought by the run.
LEMMA AutoKeyBuyer ==
    ASSUME TypeOK, RunInv, NEW t \in Threads, pc[t] \in PurchasePc, req[t].key \in AutoKeys
    PROVE  t = AutoRun
  BY PurchaseAssumption DEF Threads, RunInv, ManualRequests

\* No channel of a carrier that does not serve the address is bought again,
\* whatever the number of runs, quotes and restarts, when the code of the
\* channel that was refused names its carrier: the exclusion is stored under
\* the name the code gives, a run loads it before it chooses, and it chooses
\* among the channels whose carriers, by all their names, are not excluded.
THEOREM RejectedNeverBought == Spec => RejectedNotBoughtAgain
  <1>1. ASSUME TypeOK, RunInv, [Next]_vars,
               NEW k \in AutoKeys, calls'[<<"place", k>>] > calls[<<"place", k>>],
               NEW c \in uncovered, CodeCarrier[c] = QuotedCarrier[c]
        PROVE  QuotedCarrier[k[2]] # QuotedCarrier[c]
    <2>1. PICK t \in Threads : Call(t) /\ Row(t) = <<"place", k>>
      BY <1>1, CallerKnown DEF Keys
    <2>2. pc[t] = "call" /\ req[t].key = k
      BY <2>1 DEF Call, Row
    <2>3. t = AutoRun
      BY <1>1, <2>2, AutoKeyBuyer DEF PurchasePc
    <2>4. req[AutoRun].channel \in Quotable /\ rejected \subseteq excluded
          /\ k = AutoKey(req[AutoRun].quote, req[AutoRun].channel)
      BY <1>1, <2>2, <2>3 DEF RunInv, OwnRequest, RejectedExcluded, OwnRequestPc, BuyingPc
    <2>5. QuotedCarrier[c] \in rejected
      BY <1>1 DEF RunInv, UncoveredRejected
    <2> QED BY <2>4, <2>5 DEF AutoKey, Quotable
  <1>2. TypeOK /\ LedgerInv /\ RunInv /\ [Next]_vars =>
            [\A k \in AutoKeys, c \in uncovered :
                calls'[<<"place", k>>] > calls[<<"place", k>>] /\ CodeCarrier[c] = QuotedCarrier[c]
                   => QuotedCarrier[k[2]] # QuotedCarrier[c]]_vars
    BY <1>1
  <1> QED BY <1>2, RunInvariant, PTL DEF Spec, RejectedNotBoughtAgain

-----------------------------------------------------------------------------
(* The choice of a quote                                                   *)

\* A purchase is chosen before it is made, by the run before it is reserved.
ChosenPc == BuyingPc \ {"select", "read", "insert"}
OwnChoice ==
    /\ pc[AutoRun] = "insert" => choice[req[AutoRun].quote] = None
    /\ pc[AutoRun] \in ChosenPc \cup {"confirm", "reject"} =>
          choice[req[AutoRun].quote] = req[AutoRun].key
    /\ pc[AutoRun] \in OwnRequestPc \ {"select"} => jobQuote = req[AutoRun].quote
HandlerChoice ==
    \A h \in Handlers : pc[h] = "call" /\ req[h].op = "place" => choice[req[h].quote] # None
HandlerBuys == \A h \in Handlers : pc[h] \in {"read", "insert"} => req[h].op = "place"
\* A choice the operators made is that of a purchase of the quote, reserved
\* before it was chosen.
ChoiceBacked ==
    /\ \A q \in OperatorQuotes : choice[q] \in ManualKeys \cup {None}
    /\ \A q \in Quotes : choice[q] \in ManualKeys =>
          ledger[<<"place", choice[q]>>] # "none" /\ QuoteOf(choice[q]) = q

RowsRequested == \A r \in Rows : ledger[r] # "none" => hash[r] \in Quotes \X Channels
ChoiceInv ==
    /\ OwnChoice /\ HandlerChoice /\ HandlerBuys /\ ChoiceBacked /\ RowsRequested
    /\ PurchaseLeavesChoice

\* No quote has a choice when the server starts.
LEMMA ChoiceInit == Init => ChoiceInv
  BY PurchaseAssumption
  DEF Init, ChoiceInv, OwnChoice, HandlerChoice, HandlerBuys, ChoiceBacked, RowsRequested,
      PurchaseLeavesChoice, Threads, Rows, Keys, Quotes, BuyingPc, ChosenPc, OwnRequestPc

\* Only an insert writes a choice, and only where there is none.
LEMMA ChoiceWritten ==
    ASSUME TypeOK, [Next]_vars
    PROVE  choice' = choice \/ \E t \in Threads : InsertChoice(t)
  BY DEF Next, PurchaseStep, RunStep, Reserve, Verify, ReadChoice, Call, Complete,
     Fail, DbError, QuoteManually, RequestOperation, CarrierAnswers, RecordLabel, StartRun,
     LoadOrder, TakeQuote, SetAutoJobSelection, SetAutoJobResult, CheckOrder,
     RejectAutoJobCarrier, PrintAndHandOver, RunFails, Crash, vars, choices

LEMMA ChoiceStays ==
    ASSUME TypeOK, [Next]_vars, NEW q \in Quotes, choice[q] # None
    PROVE  choice'[q] = choice[q]
  <1>1. CASE choice' = choice
    BY <1>1
  <1>2. ASSUME NEW t \in Threads, InsertChoice(t) PROVE choice'[q] = choice[q]
    BY <1>2 DEF TypeOK, InsertChoice
  <1> QED BY <1>1, <1>2, ChoiceWritten

\* The handlers choose for the quotes of the operators only.
LEMMA AutoChoiceOwn ==
    ASSUME TypeOK, RunInv, [Next]_vars, ~InsertChoice(AutoRun), NEW q \in AutoQuotes
    PROVE  choice'[q] = choice[q]
  <1>1. ASSUME NEW h \in Handlers, InsertChoice(h) PROVE choice'[q] = choice[q]
    <2>1. req[h].quote \in OperatorQuotes
      BY <1>1 DEF InsertChoice, RunInv, ManualRequests, PurchasePc
    <2> QED BY <1>1, <2>1, PurchaseAssumption DEF InsertChoice, TypeOK, Quotes
  <1> QED BY <1>1, ChoiceWritten DEF Threads

\* The run buys what its quote was chosen for.
LEMMA OwnChoiceStep == TypeOK /\ RunInv /\ ChoiceInv /\ [Next]_vars => OwnChoice'
  <1> SUFFICES ASSUME TypeOK, RunInv, ChoiceInv, [Next]_vars PROVE OwnChoice'
    OBVIOUS
  <1> USE PurchaseAssumption
  <1> USE DEF Threads, ChoiceInv, OwnChoice, BuyingPc, ChosenPc, OwnRequestPc
  <1>0. pc[AutoRun] \in OwnRequestPc => /\ req[AutoRun].quote \in Quotes
                                        /\ req[AutoRun].quote \in AutoQuotes
                                        /\ req[AutoRun].key # None
    BY OwnKey DEF Quotes, Keys
  <1>1. CASE RunUntouched
    <2>1. ~InsertChoice(AutoRun)
      BY <1>1 DEF TypeOK, RunUntouched, InsertChoice, AfterChoice, Goto
    <2> QED BY <1>0, <1>1, <2>1, AutoChoiceOwn DEF RunUntouched
  <1>2. ASSUME PurchaseStep(AutoRun) \/ DbError(AutoRun) PROVE OwnChoice'
    <2> USE DEF TypeOK, Goto, GiveUp, Answer, Serve, NoRequest, jobVars, jobRest, choices
    <2>1. CASE Reserve(AutoRun) BY <2>1 DEF Reserve
    <2>2. CASE Verify(AutoRun) BY <2>2 DEF Verify, AfterVerify
    <2>3. CASE ReadChoice(AutoRun) BY <1>0, <2>3 DEF ReadChoice, AfterChoice, OpenTo
    <2>4. CASE InsertChoice(AutoRun) BY <1>0, <2>4 DEF InsertChoice, AfterChoice
    <2>5. CASE Call(AutoRun) BY <2>5 DEF Call
    <2>6. CASE Complete(AutoRun) BY <2>6 DEF Complete, AfterSale
    <2>7. CASE Fail(AutoRun) BY <2>7 DEF Fail
    <2>8. CASE DbError(AutoRun) BY <2>8 DEF DbError, Unrecorded
    <2> QED BY <1>2, <2>1, <2>2, <2>3, <2>4, <2>5, <2>6, <2>7, <2>8 DEF PurchaseStep
  <1>3. ASSUME RunStep PROVE OwnChoice'
    <2> USE DEF TypeOK, Goto, GiveUp, Answer, Serve, NoRequest, jobVars, jobRest, choices
    <2>1. CASE StartRun BY <2>1 DEF StartRun
    <2>2. CASE LoadOrder BY <2>2 DEF LoadOrder
    <2>3. CASE TakeQuote BY <2>3 DEF TakeQuote
    <2>4. CASE SetAutoJobSelection BY <2>4 DEF SetAutoJobSelection
    <2>5. CASE SetAutoJobResult BY <2>5 DEF SetAutoJobResult
    <2>6. CASE CheckOrder BY <2>6 DEF CheckOrder
    <2>7. CASE RejectAutoJobCarrier BY <2>7 DEF RejectAutoJobCarrier
    <2>8. CASE PrintAndHandOver BY <2>8 DEF PrintAndHandOver
    <2>9. CASE RunFails BY <2>9 DEF RunFails
    <2> QED BY <1>3, <2>1, <2>2, <2>3, <2>4, <2>5, <2>6, <2>7, <2>8, <2>9 DEF RunStep
  <1>4. CASE Crash
    BY <1>4 DEF TypeOK, Crash
  <1> QED BY <1>1, <1>2, <1>3, <1>4, OthersLeaveRun DEF Next

\* A handler comes to the call of a purchase through the choice of its quote.
LEMMA HandlerChoiceStep == TypeOK /\ ChoiceInv /\ [Next]_vars => HandlerChoice'
  <1> SUFFICES ASSUME TypeOK, ChoiceInv, [Next]_vars,
                      NEW h \in Handlers, pc'[h] = "call", req'[h].op = "place"
               PROVE  choice'[req'[h].quote] # None
    BY DEF HandlerChoice
  <1> USE PurchaseAssumption DEF Threads
  <1>1. CASE pc[h] = "call" /\ req'[h] = req[h]
    <2>1. req[h].quote \in Quotes
      BY <1>1, RowTyped DEF PurchasePc
    <2> QED BY <1>1, <2>1, ChoiceStays DEF ChoiceInv, HandlerChoice
  <1>2. ASSUME NEW t \in Threads, PurchaseStep(t) \/ DbError(t)
        PROVE  (pc[h] = "call" /\ req'[h] = req[h]) \/ choice'[req'[h].quote] # None
    <2>1. CASE t # h
      BY <1>2, <2>1 DEF TypeOK, PurchaseStep, Reserve, Verify, ReadChoice, InsertChoice, Call,
         Complete, Fail, DbError, Goto, GiveUp, Answer, Serve
    <2>2. CASE t = h /\ (ReadChoice(t) \/ InsertChoice(t))
      <3>1. req[h].quote \in Quotes /\ req[h].key # None
        BY <2>2, RowTyped DEF ReadChoice, InsertChoice, PurchasePc
      <3> QED BY <2>2, <3>1 DEF TypeOK, ReadChoice, InsertChoice, OpenTo, Goto, choices
    <2>3. CASE t = h /\ ~ReadChoice(t) /\ ~InsertChoice(t)
      BY <1>2, <2>3
         DEF TypeOK, PurchaseStep, Reserve, Verify, AfterVerify, Call, Complete, AfterSale,
         Fail, DbError, Goto, GiveUp, Answer, Serve
    <2> QED BY <2>1, <2>2, <2>3
  <1>3. ASSUME \/ RunStep \/ \E g \in Handlers : RequestOperation(g)
               \/ \E q \in OperatorQuotes : QuoteManually(q)
               \/ \E k \in Keys : CarrierAnswers(k) \/ RecordLabel(k)
               \/ UNCHANGED vars
        PROVE  pc[h] = "call" /\ req'[h] = req[h]
    <2>1. CASE RunStep
      BY <2>1 DEF TypeOK, RunStep, StartRun, LoadOrder, TakeQuote, SetAutoJobSelection,
         SetAutoJobResult, CheckOrder, RejectAutoJobCarrier, PrintAndHandOver, RunFails,
         Goto, GiveUp, Answer, Serve
    <2>2. CASE ~RunStep
      BY <1>3, <2>2
         DEF TypeOK, RequestOperation, Serve, QuoteManually, CarrierAnswers, RecordLabel, vars
    <2> QED BY <2>1, <2>2
  <1>4. ~Crash
    BY DEF Crash
  <1> QED BY <1>1, <1>2, <1>3, <1>4 DEF Next

\* Handlers look for a choice when they buy, never when they print.
LEMMA HandlerBuysStep == TypeOK /\ ChoiceInv /\ [Next]_vars => HandlerBuys'
  <1> SUFFICES ASSUME TypeOK, ChoiceInv, [Next]_vars,
                      NEW h \in Handlers, pc'[h] \in {"read", "insert"}
               PROVE  req'[h].op = "place"
    BY DEF HandlerBuys
  <1> USE PurchaseAssumption DEF Threads
  <1>1. CASE pc[h] \in {"read", "insert"} /\ req'[h] = req[h]
    BY <1>1 DEF ChoiceInv, HandlerBuys
  <1>2. ASSUME NEW t \in Threads, PurchaseStep(t) \/ DbError(t)
        PROVE  (pc[h] \in {"read", "insert"} /\ req'[h] = req[h]) \/ req'[h].op = "place"
    <2>1. CASE t # h
      BY <1>2, <2>1 DEF TypeOK, PurchaseStep, Reserve, Verify, ReadChoice, InsertChoice, Call,
         Complete, Fail, DbError, Goto, GiveUp, Answer, Serve
    <2>2. CASE t = h /\ Verify(t)
      <3>1. req[h].op \in {"place", "print"}
        BY <2>2, RowTyped DEF Verify, PurchasePc, Row, Rows
      <3> QED BY <2>2, <3>1 DEF TypeOK, Verify, AfterVerify, Goto, Answer, Serve
    <2>3. CASE t = h /\ ~Verify(t)
      BY <1>2, <2>3
         DEF TypeOK, PurchaseStep, Reserve, ReadChoice, InsertChoice, AfterChoice, Call, Complete,
         AfterSale, Fail, DbError, Goto, GiveUp, Answer, Serve
    <2> QED BY <2>1, <2>2, <2>3
  <1>3. ASSUME \/ RunStep \/ \E g \in Handlers : RequestOperation(g)
               \/ \E q \in OperatorQuotes : QuoteManually(q)
               \/ \E k \in Keys : CarrierAnswers(k) \/ RecordLabel(k)
               \/ UNCHANGED vars
        PROVE  pc[h] \in {"read", "insert"} /\ req'[h] = req[h]
    <2>1. CASE RunStep
      BY <2>1 DEF TypeOK, RunStep, StartRun, LoadOrder, TakeQuote, SetAutoJobSelection,
         SetAutoJobResult, CheckOrder, RejectAutoJobCarrier, PrintAndHandOver, RunFails,
         Goto, GiveUp, Answer, Serve
    <2>2. CASE ~RunStep
      BY <1>3, <2>2
         DEF TypeOK, RequestOperation, Serve, QuoteManually, CarrierAnswers, RecordLabel, vars
    <2> QED BY <2>1, <2>2
  <1>4. ~Crash
    BY DEF Crash
  <1> QED BY <1>1, <1>2, <1>3, <1>4 DEF Next

\* The ledger is written by reserving and by settling a row.
LEMMA LedgerWritten ==
    ASSUME [Next]_vars
    PROVE  UNCHANGED rows \/ \E t \in Threads : Reserve(t) \/ Complete(t) \/ Fail(t)
  BY DEF Next, PurchaseStep, RunStep, Verify, ReadChoice, InsertChoice, Call,
     DbError, QuoteManually, RequestOperation, CarrierAnswers, RecordLabel, StartRun,
     LoadOrder, TakeQuote, SetAutoJobSelection, SetAutoJobResult, CheckOrder,
     RejectAutoJobCarrier, PrintAndHandOver, RunFails, Crash, vars

\* What is requested under a key does not change once its row is taken, and
\* the row stays taken.
LEMMA ContentStays ==
    ASSUME TypeOK, [Next]_vars, NEW r \in Rows, ledger[r] # "none"
    PROVE  hash'[r] = hash[r] /\ ledger'[r] # "none"
  <1>1. ASSUME NEW t \in Threads, Reserve(t) PROVE hash'[r] = hash[r] /\ ledger'[r] # "none"
    BY SMTT(30), <1>1 DEF TypeOK, Reserve, Free, rows
  <1>2. ASSUME NEW t \in Threads, Complete(t) \/ Fail(t)
        PROVE  hash'[r] = hash[r] /\ ledger'[r] # "none"
    BY SMTT(30), <1>2 DEF TypeOK, Complete, Fail, MarkFailed
  <1> QED BY <1>1, <1>2, LedgerWritten DEF rows

\* A row that is taken says what was requested.
LEMMA RowsRequestedStep == TypeOK /\ LedgerInv /\ ChoiceInv /\ [Next]_vars => RowsRequested'
  <1> SUFFICES ASSUME TypeOK, LedgerInv, ChoiceInv, [Next]_vars, NEW r \in Rows, ledger'[r] # "none"
               PROVE  hash'[r] \in Quotes \X Channels
    BY DEF RowsRequested
  <1>1. CASE ledger[r] # "none"
    BY <1>1, ContentStays DEF ChoiceInv, RowsRequested
  <1>2. CASE ledger[r] = "none"
    <2>1. ASSUME NEW t \in Threads, Complete(t) \/ Fail(t) PROVE ledger'[r] = ledger[r]
      <3>1. Holds(t)
        BY <2>1 DEF Complete, Fail, Holds
      <3>2. Row(t) # r
        BY <1>2, <3>1 DEF LedgerInv, HeldRowsPending
      <3> QED BY <2>1, <3>2 DEF TypeOK, Complete, Fail, MarkFailed
    <2>2. ASSUME NEW t \in Threads, Reserve(t) PROVE hash'[r] \in Quotes \X Channels
      <3>1. Content(t) \in Quotes \X Channels /\ Row(t) \in Rows
        BY <2>2, RowTyped DEF Reserve, PurchasePc
      <3>2. ledger'[r] # ledger[r]
        BY <1>2
      <3>3. ledger' = [ledger EXCEPT ![Row(t)] = "pending"] /\ hash' = [hash EXCEPT ![Row(t)] = Content(t)]
        BY <2>2, <3>2 DEF Reserve, rows
      <3> QED BY <3>1, <3>2, <3>3 DEF TypeOK
    <2> QED BY <1>2, <2>1, <2>2, LedgerWritten DEF rows
  <1> QED BY <1>1, <1>2

\* A choice of the operators is written by a handler that has reserved the
\* purchase it chooses for.
LEMMA ChoiceBackedStep ==
    TypeOK /\ LedgerInv /\ RunInv /\ ChoiceInv /\ [Next]_vars => ChoiceBacked'
  <1> SUFFICES ASSUME TypeOK, LedgerInv, RunInv, ChoiceInv, [Next]_vars PROVE ChoiceBacked'
    OBVIOUS
  <1> USE PurchaseAssumption
  <1>1. ASSUME NEW k \in ManualKeys, ledger[<<"place", k>>] # "none"
        PROVE  ledger'[<<"place", k>>] # "none" /\ QuoteOf(k)' = QuoteOf(k)
    <2>1. <<"place", k>> \in Rows
      BY DEF Rows, Keys
    <2> QED BY <1>1, <2>1, ContentStays DEF QuoteOf
  <1>2. CASE choice' = choice
    BY <1>1, <1>2 DEF ChoiceInv, ChoiceBacked
  <1>3. ASSUME InsertChoice(AutoRun) PROVE ChoiceBacked'
    <2>1. req[AutoRun].quote \in AutoQuotes /\ req[AutoRun].key \in AutoKeys
      BY <1>3, OwnKey DEF InsertChoice, OwnRequestPc, BuyingPc
    <2>2. choice' = [choice EXCEPT ![req[AutoRun].quote] =
                        IF @ = None THEN req[AutoRun].key ELSE @]
      BY <1>3 DEF InsertChoice
    <2>3. \A q \in Quotes : choice'[q] = choice[q] \/ (q \in AutoQuotes /\ choice'[q] \in AutoKeys)
      BY <2>1, <2>2 DEF TypeOK
    <2> QED BY <1>1, <2>3 DEF ChoiceInv, ChoiceBacked, Quotes
  <1>4. ASSUME NEW h \in Handlers, InsertChoice(h) PROVE ChoiceBacked'
    <2>1. /\ req[h].key \in ManualKeys /\ req[h].quote \in OperatorQuotes
          /\ req[h].op = "place"
      BY <1>4 DEF InsertChoice, RunInv, ManualRequests, PurchasePc, ChoiceInv, HandlerBuys
    <2>2. PICK k \in ManualKeys : k = req[h].key
      BY <2>1
    <2>3. ledger[<<"place", k>>] = "pending" /\ QuoteOf(k) = req[h].quote
      BY <1>4, <2>1, <2>2 DEF InsertChoice, LedgerInv, HeldRowsPending, Holds, BeforeCall, Threads,
         Row, Content, QuoteOf
    <2>4. choice' = [choice EXCEPT ![req[h].quote] = IF @ = None THEN k ELSE @]
      BY <1>4, <2>2 DEF InsertChoice
    <2>5. \A q \in Quotes : choice'[q] = choice[q] \/ (q = QuoteOf(k) /\ choice'[q] = k)
      BY <2>3, <2>4 DEF TypeOK
    <2>6. ledger'[<<"place", k>>] # "none" /\ QuoteOf(k)' = QuoteOf(k)
      BY <1>1, <2>3
    <2> QED BY <1>1, <2>1, <2>3, <2>5, <2>6 DEF ChoiceInv, ChoiceBacked, Quotes
  <1> QED BY <1>2, <1>3, <1>4, ChoiceWritten DEF Threads

\* PurchaseLeavesChoice of one key.
Backed(k) ==
    LET q == QuoteOf(k) IN
        \/ choice[q] = k
        \/ {k, choice[q]} \subseteq ManualKeys /\ QuoteOf(choice[q]) = q

\* What is sold has left a choice, and the choice stays.
LEMMA RecordedStep ==
    TypeOK /\ LedgerInv /\ RunInv /\ ChoiceInv /\ [Next]_vars => PurchaseLeavesChoice'
  <1> SUFFICES ASSUME TypeOK, LedgerInv, RunInv, ChoiceInv, [Next]_vars,
                      NEW k \in Keys, calls'[<<"place", k>>] > 0
               PROVE  Backed(k)'
    BY DEF PurchaseLeavesChoice, Backed
  <1> DEFINE row == <<"place", k>>
             q == QuoteOf(k)
  <1>0. row \in Rows /\ calls[row] \in Nat
    BY DEF TypeOK, Rows
  <1>1. ledger[row] # "none" /\ hash[row] \in Quotes \X Channels /\ Backed(k)
    <2>1. CASE calls[row] > 0
      BY <1>0, <2>1 DEF ChoiceInv, PurchaseLeavesChoice, Backed, LedgerInv,
         CallsCounted, RowsRequested
    <2>2. CASE ~(calls[row] > 0)
      <3>1. PICK t \in Threads : Call(t) /\ Row(t) = row
        BY <1>0, <2>2, CallerKnown
      <3>2. ledger[row] = "pending" /\ hash[row] = Content(t) /\ req[t].op = "place"
            /\ req[t].key = k /\ pc[t] = "call"
        BY <3>1 DEF Call, Row, LedgerInv, HeldRowsPending, Holds, BeforeCall
      <3>3. Content(t) \in Quotes \X Channels /\ req[t].quote \in Quotes /\ q = req[t].quote
        BY <3>2, RowTyped DEF PurchasePc, QuoteOf, Content
      <3>4. CASE t = AutoRun
        BY <3>2, <3>3, <3>4 DEF ChoiceInv, OwnChoice, ChosenPc, BuyingPc, Backed
      <3>5. CASE t \in Handlers
        <4>1. choice[q] # None /\ q \in OperatorQuotes /\ k \in ManualKeys
          BY <3>2, <3>3, <3>5 DEF ChoiceInv, HandlerChoice, RunInv, ManualRequests, PurchasePc
        <4> QED BY <3>2, <3>3, <4>1 DEF ChoiceInv, ChoiceBacked, Backed
      <3> QED BY <3>1, <3>2, <3>3, <3>4, <3>5 DEF Threads
    <2> QED BY <2>1, <2>2
  <1>2. q \in Quotes /\ QuoteOf(k)' = q
    BY <1>0, <1>1, ContentStays DEF QuoteOf
  <1>3. choice[q] # None
    BY <1>1, PurchaseAssumption DEF Keys, Backed
  <1>4. choice'[q] = choice[q]
    BY <1>2, <1>3, ChoiceStays
  <1>5. CASE choice[q] = k
    BY <1>2, <1>4, <1>5 DEF Backed
  <1>6. CASE {k, choice[q]} \subseteq ManualKeys /\ QuoteOf(choice[q]) = q
    <2> DEFINE first == <<"place", choice[q]>>
    <2>1. first \in Rows /\ ledger[first] # "none" /\ hash[first] = hash[<<"place", choice[q]>>]
      BY <1>2, <1>6 DEF ChoiceInv, ChoiceBacked, Rows, Keys
    <2>2. hash'[<<"place", choice[q]>>] = hash[<<"place", choice[q]>>]
      BY <2>1, ContentStays
    <2> QED BY <1>2, <1>4, <1>6, <2>2 DEF QuoteOf, Backed
  <1> QED BY <1>1, <1>5, <1>6 DEF Backed

\* Types, the ledger, the run and the choices hold of every execution.
THEOREM ChoiceInvariant == Spec => [](TypeOK /\ LedgerInv /\ RunInv /\ ChoiceInv)
  <1>1. TypeOK /\ LedgerInv /\ RunInv /\ ChoiceInv /\ [Next]_vars => ChoiceInv'
    BY OwnChoiceStep, HandlerChoiceStep, HandlerBuysStep, ChoiceBackedStep,
       RowsRequestedStep, RecordedStep
    DEF ChoiceInv
  <1> QED BY <1>1, ChoiceInit, RunInvariant, PTL DEF Spec

\* Whatever was bought, across restarts and failures, left its own choice
\* behind or, in a race of the operators for one quote, the choice of the one
\* among them who was first.
THEOREM PurchasesRecorded == Spec => []PurchaseLeavesChoice
  <1>1. ChoiceInv => PurchaseLeavesChoice
    BY DEF ChoiceInv
  <1> QED BY <1>1, ChoiceInvariant, PTL

-----------------------------------------------------------------------------
(* The labels of the run: where a living one is, and what a dead one means *)

Sold(k) == calls[<<"place", k>>] > 0
Living(k) == label[k] \in {"open", "confirmed"}

LabelsCalled == \A k \in Keys : label[k] # "none" => Sold(k)
RefusalFinal ==
    pc[AutoRun] \in {"fail_uncovered", "reject", "reject_stored"} =>
        Sold(req[AutoRun].key) /\ ~Living(req[AutoRun].key)
RejectedChoicesDead ==
    \A q \in rejectedChoice : choice[q] # None /\ Sold(choice[q]) /\ ~Living(choice[q])
PlacedChosen ==
    placed # None =>
        \/ label[placed] = "confirmed"
        \/ jobQuote # None /\ choice[jobQuote] = placed
LivingHeld ==
    ~lost => \A k \in AutoKeys : Living(k) =>
        \/ placed = k
        \/ pc[AutoRun] \in {"complete", "result"} /\ req[AutoRun].key = k
        \/ placed # None /\ label[placed] = "confirmed"
LabelInv ==
    /\ LabelsCalled /\ RefusalFinal /\ RejectedChoicesDead /\ PlacedChosen
    /\ LivingHeld /\ NoSecondLabel

\* Nothing is sold or placed when the server starts.
LEMMA LabelInit == Init => LabelInv
  BY PurchaseAssumption
  DEF Init, LabelInv, LabelsCalled, RefusalFinal, RejectedChoicesDead, PlacedChosen, LivingHeld,
      NoSecondLabel, Living, Threads, Keys

\* SHEIN is never called less, and what it sold stays sold.
LEMMA SoldStays ==
    ASSUME TypeOK, [Next]_vars, NEW k \in Keys, Sold(k)
    PROVE  Sold(k)'
  <1>1. <<"place", k>> \in Rows /\ calls[<<"place", k>>] \in Nat
    BY DEF TypeOK, Rows
  <1>2. ASSUME NEW t \in Threads, Call(t) PROVE Sold(k)'
    <2>1. calls' = [calls EXCEPT ![Row(t)] = @ + 1] /\ Row(t) \in Rows
      BY <1>2, RowTyped DEF Call, PurchasePc
    <2> QED BY <1>1, <2>1 DEF TypeOK, Sold
  <1>3. calls' = calls \/ \E t \in Threads : Call(t)
    BY DEF Next, PurchaseStep, RunStep, Reserve, Verify, ReadChoice, InsertChoice, Complete,
       Fail, DbError, QuoteManually, RequestOperation, CarrierAnswers, RecordLabel, StartRun,
       LoadOrder, TakeQuote, SetAutoJobSelection, SetAutoJobResult, CheckOrder,
       RejectAutoJobCarrier, PrintAndHandOver, RunFails, Crash, vars, shein
  <1> QED BY <1>2, <1>3 DEF Sold

\* A label is sold by a call that has not been made before, and answered for once.
LEMMA CallSells ==
    ASSUME TypeOK, LedgerInv, LabelsCalled, NEW t \in Threads, Call(t), req[t].op = "place"
    PROVE  /\ req[t].key \in Keys /\ ~Sold(req[t].key) /\ Sold(req[t].key)'
           /\ label[req[t].key] = "none"
  <1>1. pc[t] = "call" /\ Row(t) \in Rows /\ req[t].key \in Keys /\ Row(t) = <<"place", req[t].key>>
    BY RowTyped DEF Call, Row, PurchasePc
  <1>2. calls[Row(t)] = 0
    BY <1>1 DEF LedgerInv, CallsCounted, BeforeCall
  <1>3. calls' = [calls EXCEPT ![Row(t)] = @ + 1] /\ req' = req
    BY DEF Call, Goto
  <1>4. Sold(req[t].key)'
    BY <1>1, <1>2, <1>3 DEF TypeOK, Sold
  <1> QED BY <1>1, <1>2, <1>4 DEF Sold, LabelsCalled

LEMMA LabelWritten ==
    ASSUME TypeOK, LedgerInv, LabelsCalled, [Next]_vars, NEW k \in Keys
    PROVE  \/ label'[k] = label[k]
           \/ /\ label[k] = "none" /\ label'[k] = "open" /\ ~Sold(k)
              /\ \E t \in Threads : Call(t) /\ req[t].op = "place" /\ req[t].key = k
           \/ label[k] = "open" /\ label'[k] \in {"confirmed", "refused"}
  <1>1. \/ label' = label
        \/ \E t \in Threads : Call(t)
        \/ \E l \in Keys : CarrierAnswers(l)
    BY DEF Next, PurchaseStep, RunStep, Reserve, Verify, ReadChoice, InsertChoice, Complete,
       Fail, DbError, QuoteManually, RequestOperation, RecordLabel, StartRun,
       LoadOrder, TakeQuote, SetAutoJobSelection, SetAutoJobResult, CheckOrder,
       RejectAutoJobCarrier, PrintAndHandOver, RunFails, Crash, vars, shein
  <1>2. ASSUME NEW t \in Threads, Call(t), label'[k] # label[k]
        PROVE  /\ label[k] = "none" /\ label'[k] = "open" /\ ~Sold(k)
               /\ req[t].op = "place" /\ req[t].key = k
    <2>1. req[t].op = "place" /\ label' = [label EXCEPT ![req[t].key] = "open"]
      BY <1>2 DEF Call
    <2>2. req[t].key = k
      BY <1>2, <2>1 DEF TypeOK
    <2> QED BY <1>2, <2>1, <2>2, CallSells DEF TypeOK
  <1>3. ASSUME NEW l \in Keys, CarrierAnswers(l), label'[k] # label[k]
        PROVE  label[k] = "open" /\ label'[k] \in {"confirmed", "refused"}
    BY <1>3 DEF CarrierAnswers, TypeOK
  <1> QED BY <1>1, <1>2, <1>3

\* What was sold and is not living never lives again; a confirmed label stays.
LEMMA DeadStays ==
    ASSUME TypeOK, LedgerInv, LabelsCalled, [Next]_vars, NEW k \in Keys, Sold(k), ~Living(k)
    PROVE  Sold(k)' /\ ~Living(k)'
  BY SoldStays, LabelWritten DEF Living

LEMMA ConfirmedStays ==
    ASSUME TypeOK, LedgerInv, LabelsCalled, [Next]_vars, NEW k \in Keys, label[k] = "confirmed"
    PROVE  label'[k] = "confirmed"
  BY LabelWritten

LEMMA LabelsCalledStep == TypeOK /\ LedgerInv /\ LabelsCalled /\ [Next]_vars => LabelsCalled'
  <1> SUFFICES ASSUME TypeOK, LedgerInv, LabelsCalled, [Next]_vars, NEW k \in Keys, label'[k] # "none"
               PROVE  Sold(k)'
    BY DEF LabelsCalled
  <1>1. CASE label[k] # "none"
    BY <1>1, SoldStays DEF LabelsCalled
  <1>2. CASE label[k] = "none"
    <2>1. PICK t \in Threads : Call(t) /\ req[t].op = "place" /\ req[t].key = k
      BY <1>2, LabelWritten
    <2>2. Sold(req[t].key)' /\ req' = req
      BY <2>1, CallSells DEF Call, Goto
    <2> QED BY <2>1, <2>2 DEF Sold
  <1> QED BY <1>1, <1>2

\* The job's purchase changes in four ways.
LEMMA JobWritten ==
    ASSUME TypeOK, [Next]_vars
    PROVE  \/ UNCHANGED <<placed, jobQuote>>
           \/ \E k \in Keys : RecordLabel(k)
           \/ SetAutoJobSelection \/ SetAutoJobResult \/ RejectAutoJobCarrier
  BY DEF Next, PurchaseStep, RunStep, Reserve, Verify, ReadChoice, InsertChoice, Call, Complete,
     Fail, DbError, QuoteManually, RequestOperation, CarrierAnswers, StartRun, LoadOrder, TakeQuote,
     CheckOrder, PrintAndHandOver, RunFails, Crash, vars, jobVars, jobRest

\* The run gives a purchase up only when there is no label, and none will come.
LEMMA RefusalStep ==
    TypeOK /\ LedgerInv /\ RunInv /\ LabelInv /\ [Next]_vars => RefusalFinal'
  <1> SUFFICES ASSUME TypeOK, LedgerInv, RunInv, LabelInv, [Next]_vars,
                      pc'[AutoRun] \in {"fail_uncovered", "reject", "reject_stored"}
               PROVE  Sold(req[AutoRun].key)' /\ ~Living(req[AutoRun].key)'
    BY DEF RefusalFinal
  <1> USE PurchaseAssumption DEF Threads
  <1>0. LabelsCalled
    BY DEF LabelInv
  <1>1. ASSUME NEW k \in Keys, k = req'[AutoRun].key, Sold(k), ~Living(k)
        PROVE  Sold(req[AutoRun].key)' /\ ~Living(req[AutoRun].key)'
    BY <1>0, <1>1, DeadStays DEF Sold, Living
  <1>2. CASE /\ pc[AutoRun] \in {"fail_uncovered", "reject", "reject_stored"}
             /\ req'[AutoRun] = req[AutoRun]
    <2>1. req[AutoRun].key \in Keys
      BY <1>2, OwnKey DEF OwnRequestPc, BuyingPc, Keys, RunInv, PlacedServed, TypeOK
    <2> QED BY <1>1, <1>2, <2>1 DEF LabelInv, RefusalFinal
  <1>3. CASE Call(AutoRun)
    <2>1. pc[AutoRun] = "call" /\ req[AutoRun].op = "place"
      BY <1>3 DEF Call, RunInv, OwnRequest, OwnRequestPc, BuyingPc
    <2>2. /\ req[AutoRun].key \in Keys /\ Sold(req[AutoRun].key)'
          /\ label[req[AutoRun].key] = "none"
      BY <1>0, <1>3, <2>1, CallSells
    <2>3. req' = req /\ label' = label
      BY <1>3, <2>1 DEF TypeOK, Call, Goto
    <2> QED BY <2>2, <2>3 DEF Sold, Living
  <1>4. CASE CheckOrder
    <2>1. req[AutoRun].key \in Keys
      BY <1>4, OwnKey DEF CheckOrder, OwnRequestPc, BuyingPc, Keys, RunInv, PlacedServed, TypeOK
    <2>2. label[req[AutoRun].key] = "refused" /\ req' = req
      BY <1>4 DEF TypeOK, CheckOrder, Refused, Goto, Answer, Serve
    <2> QED BY <1>0, <1>1, <2>1, <2>2 DEF LabelsCalled, Living
  <1>5. ASSUME PurchaseStep(AutoRun) \/ DbError(AutoRun), ~Call(AutoRun)
        PROVE  pc[AutoRun] \in {"fail_uncovered", "reject", "reject_stored"} /\ req'[AutoRun] = req[AutoRun]
    BY <1>5 DEF TypeOK, PurchaseStep, Reserve, Verify, AfterVerify, ReadChoice, InsertChoice,
       AfterChoice, Complete, AfterSale, Fail, DbError, Goto, GiveUp, Answer, Serve
  <1>6. ASSUME RunStep PROVE CheckOrder
    BY <1>6 DEF TypeOK, RunStep, StartRun, LoadOrder, TakeQuote, SetAutoJobSelection,
       SetAutoJobResult, RejectAutoJobCarrier, PrintAndHandOver, RunFails, Goto, GiveUp, Answer, Serve
  <1>7. ~Crash
    BY DEF Crash
  <1>8. RunUntouched => pc'[AutoRun] = pc[AutoRun] /\ req'[AutoRun] = req[AutoRun]
    BY DEF RunUntouched
  <1> QED BY <1>2, <1>3, <1>4, <1>5, <1>6, <1>7, <1>8, OthersLeaveRun DEF Next

\* The purchase of the job is confirmed, or is the one its quote was chosen for.
LEMMA PlacedChosenStep ==
    TypeOK /\ LedgerInv /\ RunInv /\ ChoiceInv /\ LabelInv /\ [Next]_vars => PlacedChosen'
  <1> SUFFICES ASSUME TypeOK, LedgerInv, RunInv, ChoiceInv, LabelInv, [Next]_vars
               PROVE  PlacedChosen'
    OBVIOUS
  <1> USE PurchaseAssumption DEF Threads
  <1>1. CASE UNCHANGED <<placed, jobQuote>>
    <2> SUFFICES ASSUME placed # None PROVE PlacedChosen'
      BY <1>1 DEF PlacedChosen
    <2>1. placed \in Keys
      BY DEF TypeOK
    <2>2. CASE label[placed] = "confirmed"
      BY <1>1, <2>1, <2>2, ConfirmedStays DEF LabelInv, PlacedChosen
    <2>3. CASE jobQuote # None /\ choice[jobQuote] = placed
      BY <1>1, <2>1, <2>3, ChoiceStays DEF TypeOK, PlacedChosen
    <2> QED BY <2>2, <2>3 DEF LabelInv, PlacedChosen
  <1>2. ASSUME NEW k \in Keys, RecordLabel(k) PROVE PlacedChosen'
    BY <1>2 DEF RecordLabel, PlacedChosen, shein
  <1>3. CASE SetAutoJobSelection
    BY <1>3 DEF SetAutoJobSelection, PlacedChosen, RunInv, NothingPlaced, UnplacedPc, BuyingPc
  <1>4. CASE SetAutoJobResult
    <2>1. /\ choice[req[AutoRun].quote] = req[AutoRun].key /\ jobQuote = req[AutoRun].quote
          /\ req[AutoRun].quote # None
      BY <1>4, OwnKey
         DEF SetAutoJobResult, ChoiceInv, OwnChoice, ChosenPc, OwnRequestPc, BuyingPc, Quotes
    <2> QED BY <1>4, <2>1 DEF SetAutoJobResult, PlacedChosen, choices
  <1>5. CASE RejectAutoJobCarrier
    BY <1>5 DEF RejectAutoJobCarrier, PlacedChosen
  <1> QED BY <1>1, <1>2, <1>3, <1>4, <1>5, JobWritten

\* A choice is marked rejected when its purchase is dead.
LEMMA RejectedDeadStep ==
    TypeOK /\ LedgerInv /\ RunInv /\ ChoiceInv /\ LabelInv /\ [Next]_vars => RejectedChoicesDead'
  <1> SUFFICES ASSUME TypeOK, LedgerInv, RunInv, ChoiceInv, LabelInv, [Next]_vars,
                      NEW q \in rejectedChoice'
               PROVE  (choice[q] # None /\ Sold(choice[q]) /\ ~Living(choice[q]))'
    BY DEF RejectedChoicesDead
  <1> USE PurchaseAssumption DEF Threads
  <1>1. CASE q \in rejectedChoice
    <2>1. q \in Quotes /\ choice[q] \in Keys /\ choice[q] # None /\ Sold(choice[q]) /\ ~Living(choice[q])
      BY <1>1 DEF LabelInv, RejectedChoicesDead, TypeOK
    <2>2. choice'[q] = choice[q]
      BY <2>1, ChoiceStays
    <2> QED BY <2>1, <2>2, DeadStays DEF LabelInv, Sold, Living
  <1>2. CASE q \notin rejectedChoice
    <2>1. RejectAutoJobCarrier
      BY <1>2 DEF Next, PurchaseStep, RunStep, Reserve, Verify, ReadChoice, InsertChoice, Call,
         Complete, Fail, DbError, QuoteManually, RequestOperation, CarrierAnswers, RecordLabel,
         StartRun, LoadOrder, TakeQuote, SetAutoJobSelection, SetAutoJobResult, CheckOrder,
         PrintAndHandOver, RunFails, Crash, vars, choices
    <2>2. /\ q = jobQuote /\ jobQuote # None /\ pc[AutoRun] \in {"reject", "reject_stored"}
          /\ UNCHANGED <<choice, calls, label>>
      BY <1>2, <2>1 DEF RejectAutoJobCarrier, shein
    <2>3. Sold(req[AutoRun].key) /\ ~Living(req[AutoRun].key)
      BY <2>2 DEF LabelInv, RefusalFinal
    <2>4. choice[jobQuote] = req[AutoRun].key /\ req[AutoRun].key # None
      <3>1. CASE pc[AutoRun] = "reject"
        BY <3>1, OwnKey DEF ChoiceInv, OwnChoice, ChosenPc, OwnRequestPc, BuyingPc, Keys
      <3>2. CASE pc[AutoRun] = "reject_stored"
        BY <2>3, <3>2 DEF RunInv, PlacedServed, LabelInv, PlacedChosen, Living
      <3> QED BY <2>2, <3>1, <3>2
    <2> QED BY SMTT(30), <2>2, <2>3, <2>4 DEF Sold, Living
  <1> QED BY <1>1, <1>2

\* Unless a sale was lost, a living label of the run is in its job or its hands.
LEMMA LivingHeldStep ==
    TypeOK /\ LedgerInv /\ RunInv /\ LabelInv /\ [Next]_vars => LivingHeld'
  <1> SUFFICES ASSUME TypeOK, LedgerInv, RunInv, LabelInv, [Next]_vars,
                      ~lost', NEW k \in AutoKeys, Living(k)'
               PROVE  \/ placed' = k
                      \/ pc'[AutoRun] \in {"complete", "result"} /\ req'[AutoRun].key = k
                      \/ placed' # None /\ label'[placed'] = "confirmed"
    BY SMTT(30) DEF LivingHeld
  <1> USE PurchaseAssumption DEF Threads
  <1>0. ~lost /\ k \in Keys /\ LabelsCalled
    <2>1. lost => lost'
      BY DEF Next, PurchaseStep, RunStep, Reserve, Verify, ReadChoice, InsertChoice, Call,
         Complete, Fail, DbError, QuoteManually, RequestOperation, CarrierAnswers, RecordLabel,
         StartRun, LoadOrder, TakeQuote, SetAutoJobSelection, SetAutoJobResult, CheckOrder,
         RejectAutoJobCarrier, PrintAndHandOver, RunFails, Crash, vars, history
    <2> QED BY <2>1 DEF Keys, LabelInv
  <1>1. CASE ~Living(k)
    <2>1. PICK t \in Threads : Call(t) /\ req[t].op = "place" /\ req[t].key = k
      BY <1>0, <1>1, LabelWritten DEF Living
    <2>2. t = AutoRun /\ pc[AutoRun] = "call"
      BY <2>1, AutoKeyBuyer DEF Call, PurchasePc
    <2>3. label'[k] # label[k]
      BY <1>1 DEF Living
    <2>4. pc'[AutoRun] = "complete" /\ req' = req
      BY <2>1, <2>2, <2>3 DEF TypeOK, Call, Goto
    <2> QED BY <2>1, <2>2, <2>4
  <1>2. CASE Living(k)
    <2>1. \/ placed = k
          \/ pc[AutoRun] \in {"complete", "result"} /\ req[AutoRun].key = k
          \/ placed # None /\ label[placed] = "confirmed"
      BY <1>0, <1>2 DEF LabelInv, LivingHeld
    <2>2. placed \in Keys /\ label[placed] = "confirmed" => label'[placed] = "confirmed"
      BY <1>0, ConfirmedStays
    <2>3. CASE UNCHANGED <<placed, jobQuote>>
      <3>1. CASE placed = k \/ (placed # None /\ label[placed] = "confirmed")
        BY <2>2, <2>3, <3>1 DEF TypeOK
      <3>2. CASE pc[AutoRun] \in {"complete", "result"} /\ req[AutoRun].key = k
        <4>1. CASE RunUntouched
          BY <3>2, <4>1 DEF RunUntouched
        <4>2. ASSUME PurchaseStep(AutoRun) \/ DbError(AutoRun)
              PROVE  pc'[AutoRun] = "result" /\ req' = req
          BY <3>2, <4>2 DEF TypeOK, PurchaseStep, Reserve, Verify, ReadChoice, InsertChoice, Call,
             Complete, AfterSale, Fail, DbError, Unrecorded, Goto
        <4>3. ASSUME RunStep PROVE SetAutoJobResult
          BY <3>2, <4>3
             DEF RunStep, StartRun, LoadOrder, TakeQuote, SetAutoJobSelection, CheckOrder,
             RejectAutoJobCarrier, PrintAndHandOver, RunFails
        <4>4. SetAutoJobResult => placed' = k
          BY <3>2 DEF SetAutoJobResult
        <4>5. ~Crash
          BY <3>2 DEF Crash, Unrecorded
        <4> QED BY <3>2, <4>1, <4>2, <4>3, <4>4, <4>5, OthersLeaveRun DEF Next
      <3> QED BY <2>1, <3>1, <3>2
    <2>4. ASSUME NEW l \in Keys, RecordLabel(l) PROVE placed' # None /\ label'[placed'] = "confirmed"
      BY <2>4 DEF RecordLabel, shein
    <2>5. CASE SetAutoJobSelection
      BY <2>1, <2>2, <2>5 DEF TypeOK, SetAutoJobSelection
    <2>6. CASE SetAutoJobResult
      BY <2>1, <2>6 DEF SetAutoJobResult, RunInv, NothingPlaced, UnplacedPc, BuyingPc, Keys
    <2>7. ~RejectAutoJobCarrier
      BY <1>0, <1>2, <2>1
         DEF RejectAutoJobCarrier, RunInv, PlacedServed, LabelInv, RefusalFinal, Living
    <2> QED BY <2>3, <2>4, <2>5, <2>6, <2>7, JobWritten
  <1> QED BY <1>1, <1>2

\* A label is bought when none is living.
LEMMA NoSecondLabelStep ==
    TypeOK /\ LedgerInv /\ RunInv /\ LabelInv /\ LivingHeld' /\ [Next]_vars => NoSecondLabel'
  <1> SUFFICES ASSUME TypeOK, LedgerInv, RunInv, LabelInv, [Next]_vars, ~lost',
                      NEW k \in AutoKeys, NEW l \in AutoKeys, Living(k)', Living(l)', k # l
               PROVE  FALSE
    BY DEF NoSecondLabel, Living
  <1> USE PurchaseAssumption DEF Threads
  <1>0. ~lost /\ k \in Keys /\ l \in Keys /\ LabelsCalled
    <2>1. lost => lost'
      BY DEF Next, PurchaseStep, RunStep, Reserve, Verify, ReadChoice, InsertChoice, Call,
         Complete, Fail, DbError, QuoteManually, RequestOperation, CarrierAnswers, RecordLabel,
         StartRun, LoadOrder, TakeQuote, SetAutoJobSelection, SetAutoJobResult, CheckOrder,
         RejectAutoJobCarrier, PrintAndHandOver, RunFails, Crash, vars, history
    <2> QED BY SMTT(30), <2>1 DEF Keys, LabelInv
  <1>1. ASSUME NEW m \in AutoKeys, NEW n \in AutoKeys, m # n, Living(m)', Living(n)', ~Living(m)
        PROVE  FALSE
    <2>1. m \in Keys /\ n \in Keys
      BY DEF Keys
    <2>2. PICK t \in Threads : Call(t) /\ req[t].op = "place" /\ req[t].key = m
      BY <1>0, <1>1, <2>1, LabelWritten DEF Living
    <2>3. t = AutoRun /\ pc[AutoRun] = "call"
      BY <2>2, AutoKeyBuyer DEF Call, PurchasePc
    <2>4. placed = None
      BY <2>3 DEF RunInv, NothingPlaced, UnplacedPc, BuyingPc
    <2>5. label' = [label EXCEPT ![m] = "open"]
      BY <1>1, <2>2 DEF Call, Living
    <2>6. Living(n)
      BY <1>1, <2>1, <2>5 DEF TypeOK, Living
    <2> QED BY <1>0, <2>1, <2>3, <2>4, <2>6 DEF LabelInv, LivingHeld
  <1>2. Living(k) /\ Living(l)
    BY <1>1
  <1> QED BY <1>0, <1>2 DEF LabelInv, NoSecondLabel, Living

\* Everything that is said of purchases, runs, choices and labels holds of every execution.
THEOREM LabelInvariant == Spec => [](TypeOK /\ LedgerInv /\ RunInv /\ ChoiceInv /\ LabelInv)
  <1>1. TypeOK /\ LedgerInv /\ RunInv /\ ChoiceInv /\ LabelInv /\ [Next]_vars => LabelInv'
    BY LabelsCalledStep, RefusalStep, PlacedChosenStep, RejectedDeadStep, LivingHeldStep,
       NoSecondLabelStep DEF LabelInv
  <1> QED BY <1>1, LabelInit, ChoiceInvariant, PTL DEF Spec

\* No choice is marked rejected whose label is waiting for the carrier or
\* confirmed: only dead purchases are given up, and they stay dead.
THEOREM RejectedChoicesHaveNoLabel == Spec => []LiveLabelNotRejected
  <1>1. LabelInv => LiveLabelNotRejected
    BY DEF LabelInv, RejectedChoicesDead, LiveLabelNotRejected, Living
  <1> QED BY <1>1, LabelInvariant, PTL

\* Unless SHEIN sold a label that was never recorded, an order has at most
\* one living label of its automatic runs, however many there are.
THEOREM OneLivingLabel == Spec => []NoSecondLabel
  <1>1. LabelInv => NoSecondLabel
    BY DEF LabelInv
  <1> QED BY <1>1, LabelInvariant, PTL
=============================================================================
