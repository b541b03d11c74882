--------------------------- MODULE LabelPurchase ---------------------------
(***************************************************************************)
(* Buying the shipping label of one order: the operation ledger that makes *)
(* a purchase idempotent, the snapshot of the choice made for a quote, the *)
(* job of the automatic run, the HTTP handlers of the operators, and SHEIN *)
(* as far as the program sees it.                                          *)
(*                                                                         *)
(* Handlers and the automatic run share the steps of a purchase, but not   *)
(* their order: a handler reserves the ledger row first and then records   *)
(* the choice, the automatic run records the choice first.  One action is  *)
(* one SQL statement or transaction, or one request to SHEIN.  That an     *)
(* order has one run at a time is the business of AutoFulfillment.         *)
(***************************************************************************)
EXTENDS Integers, FiniteSets

CONSTANTS
    Handlers,       \* HTTP handlers of place-express-order and print-express-info
    AutoRun,           \* the automatic run of the order
    ManualKeys,     \* Idempotency-Keys of the clients
    OperatorQuotes, \* preRequestIds of quotes the operators asked for
    AutoQuotes,     \* preRequestIds of quotes the automatic runs asked for
    Channels,       \* channels SHEIN may offer (expressChannelCode)
    Carriers,       \* what automaticCarrierKey may call a carrier
    QuotedCarrier,  \* the carrier of a channel by its code, express id and short name
    CodeCarrier,    \* ... and by its code alone
    None,           \* no key, quote or carrier
    Ops,            \* operations the operators request: "place", "print"
    MaxStarts,      \* bound on the requests of the operators and the runs of the job
    MaxCrashes,     \* bound on restarts of the server
    MaxDbErrors     \* bound on failed database calls

Threads == Handlers \cup {AutoRun}
Quotes == OperatorQuotes \cup AutoQuotes

\* The key of an automatic purchase is a hash of the quote and the channel.
AutoKey(q, c) == <<q, c>>
AutoKeys == AutoQuotes \X Channels
Keys == ManualKeys \cup AutoKeys
Rows == {"place", "print"} \X Keys

ASSUME PurchaseAssumption ==
    /\ AutoRun \notin Handlers
    /\ ManualKeys \cap AutoKeys = {} /\ OperatorQuotes \cap AutoQuotes = {}
    /\ None \notin Keys \cup Quotes \cup Channels \cup (Quotes \X Channels)
    /\ QuotedCarrier \in [Channels -> Carriers] /\ CodeCarrier \in [Channels -> Carriers]
    /\ Ops \subseteq {"place", "print"}
    /\ {MaxStarts, MaxCrashes, MaxDbErrors} \subseteq Nat

VARIABLES
    \* PostgreSQL
    ledger,         \* shein_go_api_operations: status of each row
    hash,           \* ... and what was requested under its key
    quoted,         \* shein_go_shipping_quotes
    choice,         \* shein_label_purchase_choices: the key buying each quote
    rejectedChoice, \* quotes whose choice is marked rejected
    job,            \* status of the order's job
    placed,         \* its place_request_id: the key of the purchase
    jobQuote,       \* its pre_request_id
    jobChannel,     \* its express_channel_code
    rejected,       \* its rejected_carriers
    \* SHEIN
    label,          \* the label bought under each key
    calls,          \* requests received for each row
    \* memory of the server
    pc, req,        \* next step of each thread, and the request it serves
    excluded,       \* carriers the current run will not buy
    \* history
    starts, crashes, dbErrors,
    uncovered,      \* channels recorded as not serving the address
    lost            \* SHEIN sold the automatic run a label it never recorded

rows == <<ledger, hash>>
choices == <<choice, rejectedChoice>>
jobVars == <<job, placed, jobQuote, jobChannel, rejected>>
shein == <<label, calls>>
history == <<starts, crashes, dbErrors, uncovered, lost>>
vars == <<rows, quoted, choices, jobVars, shein, pc, req, excluded, history>>

Requests == [op : {"place", "print"}, key : Keys, quote : Quotes, channel : Channels]
NoRequest == [op |-> "place", key |-> None, quote |-> None, channel |-> None]

\* Steps of a purchase, then those of a run only ("_stored": the run found a
\* purchase of an earlier one).
PurchasePc == {"reserve", "verify", "read", "insert", "call", "complete", "fail"}
RunPc == {"load", "quote", "select", "fail_uncovered", "result", "confirm",
          "confirm_stored", "reject", "reject_stored", "print"}

TypeOK ==
    /\ ledger \in [Rows -> {"none", "pending", "completed", "failed"}]
    /\ hash \in [Rows -> (Quotes \X Channels) \cup {None}]
    /\ quoted \subseteq Quotes
    /\ choice \in [Quotes -> Keys \cup {None}]
    /\ rejectedChoice \subseteq Quotes
    /\ job \in {"none", "open", "failed", "completed"}
    /\ placed \in Keys \cup {None}
    /\ jobQuote \in Quotes \cup {None} /\ jobChannel \in Channels \cup {None}
    /\ rejected \subseteq Carriers /\ excluded \subseteq Carriers
    /\ label \in [Keys -> {"none", "open", "confirmed", "refused"}]
    /\ calls \in [Rows -> Nat]
    /\ pc \in [Threads -> {"idle"} \cup PurchasePc \cup RunPc]
    /\ \A h \in Handlers : pc[h] \in {"idle"} \cup PurchasePc
    /\ req \in [Threads -> [op : {"place", "print"}, key : Keys \cup {None},
                           quote : Quotes \cup {None}, channel : Channels \cup {None}]]
    /\ \A t \in Threads :
          pc[t] \in PurchasePc \cup {"select", "fail_uncovered", "result"} => req[t] \in Requests
    /\ starts \in 0..MaxStarts /\ crashes \in 0..MaxCrashes /\ dbErrors \in 0..MaxDbErrors
    /\ uncovered \subseteq Channels /\ lost \in BOOLEAN

Init ==
    /\ ledger = [r \in Rows |-> "none"]
    /\ hash = [r \in Rows |-> None]
    /\ quoted = {}
    /\ choice = [q \in Quotes |-> None]
    /\ rejectedChoice = {}
    /\ job = "none" /\ placed = None /\ jobQuote = None /\ jobChannel = None
    /\ rejected = {} /\ excluded = {}
    /\ label = [k \in Keys |-> "none"]
    /\ calls = [r \in Rows |-> 0]
    /\ pc = [t \in Threads |-> "idle"]
    /\ req = [t \in Threads |-> NoRequest]
    /\ starts = 0 /\ crashes = 0 /\ dbErrors = 0 /\ uncovered = {} /\ lost = FALSE

-----------------------------------------------------------------------------

Goto(t, step) == pc' = [pc EXCEPT ![t] = step] /\ UNCHANGED req
Serve(t, step, request) ==
    /\ pc' = [pc EXCEPT ![t] = step]
    /\ req' = [req EXCEPT ![t] = request]

\* A handler answers its client; a run that stops on an error fails its job.
Answer(t) == Serve(t, "idle", NoRequest)
GiveUp(t) == Answer(t) /\ job' = IF t = AutoRun THEN "failed" ELSE job

Row(t) == <<req[t].op, req[t].key>>
Content(t) == <<req[t].quote, req[t].channel>>
QuoteOf(k) == LET content == hash[<<"place", k>>] IN content[1]
ChannelOf(k) == LET content == hash[<<"place", k>>] IN content[2]

\* Mutations: no choice is recorded; the row is completed before the request
\* is made.
StraightToCall(t) == "call"
CompleteFirst(t) == "complete"

\* The order of the steps: what follows the checks on a request, a recorded
\* choice, and a completed row.
AfterVerify(t) == IF t = AutoRun \/ req[t].op = "print" THEN "call" ELSE "read"
AfterChoice(t) == IF t = AutoRun THEN "reserve" ELSE "call"
AfterSale(t) == IF t = AutoRun THEN "result" ELSE "idle"

jobRest == <<placed, jobQuote, jobChannel, rejected>>
counters == <<starts, crashes, dbErrors>>

-----------------------------------------------------------------------------
(* The ledger: ReserveOperation, CompleteOperation, FailOperation          *)

\* Mutation: a failed operation may be tried again under its key.
FreeOrFailed(r) == ledger[r] \in {"none", "failed"}

Free(r) == ledger[r] = "none"

\* The insert takes a free row; otherwise the row answers for itself.  No row
\* is ever freed, so reading it in a second statement changes nothing.
Reserve(t) ==
    /\ pc[t] = "reserve"
    /\ IF Free(Row(t))
       THEN /\ ledger' = [ledger EXCEPT ![Row(t)] = "pending"]
            /\ hash' = [hash EXCEPT ![Row(t)] = Content(t)]
            /\ Goto(t, "verify")
            /\ UNCHANGED job
       ELSE /\ IF hash[Row(t)] = Content(t) /\ ledger[Row(t)] = "completed" /\ t = AutoRun
               THEN Goto(t, "result") /\ UNCHANGED job
               ELSE GiveUp(t)
            /\ UNCHANGED rows
    /\ UNCHANGED <<quoted, choices, jobRest, shein, excluded, history>>

\* Mutation: a refusal leaves the row as it is.
LeaveRow(t) == UNCHANGED ledger
MarkFailed(t) == ledger' = [ledger EXCEPT ![Row(t)] = "failed"]

Fail(t) ==
    /\ pc[t] \in {"fail", "fail_uncovered"}
    /\ MarkFailed(t)
    /\ IF pc[t] = "fail" THEN GiveUp(t) ELSE Goto(t, "reject") /\ UNCHANGED job
    /\ UNCHANGED <<hash, quoted, choices, jobRest, shein, excluded, history>>

Complete(t) ==
    /\ pc[t] = "complete"
    /\ ledger' = [ledger EXCEPT ![Row(t)] = "completed"]
    /\ Goto(t, AfterSale(t))
    /\ UNCHANGED <<hash, quoted, choices, jobVars, shein, excluded, history>>

\* Credentials, the binding of the warehouse, the stored quote and the policy
\* of the carrier, or whether the label may be printed.  A refused purchase
\* fails its row; a refused print does not.
Verify(t) ==
    /\ pc[t] = "verify"
    /\ \/ /\ req[t].op = "print" \/ req[t].quote \in quoted
          /\ Goto(t, AfterVerify(t))
       \/ Goto(t, "fail")
       \/ req[t].op = "print" /\ Answer(t)
    /\ UNCHANGED <<rows, quoted, choices, jobVars, shein, excluded, history>>

-----------------------------------------------------------------------------
(* ReserveLabelPurchaseSelection: read the choice of the quote, then insert *)

OpenTo(t) == choice[req[t].quote] = None

ReadChoice(t) ==
    /\ pc[t] = "read"
    /\ \/ OpenTo(t) /\ Goto(t, "insert") /\ UNCHANGED job
       \/ choice[req[t].quote] = req[t].key /\ Goto(t, AfterChoice(t)) /\ UNCHANGED job
       \/ /\ choice[req[t].quote] \notin {None, req[t].key}
          /\ IF t = AutoRun THEN GiveUp(t) ELSE Goto(t, "fail") /\ UNCHANGED job
    /\ UNCHANGED <<rows, quoted, choices, jobRest, shein, excluded, history>>

\* ON CONFLICT DO NOTHING, and no look at whether a row was inserted.
InsertChoice(t) ==
    /\ pc[t] = "insert"
    /\ choice' = [choice EXCEPT ![req[t].quote] = IF @ = None THEN req[t].key ELSE @]
    /\ Goto(t, AfterChoice(t))
    /\ UNCHANGED <<rows, quoted, rejectedChoice, jobVars, shein, excluded, history>>

-----------------------------------------------------------------------------
(* SHEIN                                                                   *)

\* The request reaches SHEIN, which sells the label or refuses; its answer may
\* be lost, which fails the row as a refusal does.  A refusal that says that
\* the carrier does not serve the address sends the run to another carrier.
Call(t) ==
    /\ pc[t] = "call"
    /\ calls' = [calls EXCEPT ![Row(t)] = @ + 1]
    /\ \/ /\ req[t].op = "place"
          /\ label' = [label EXCEPT ![req[t].key] = "open"]
          /\ \/ Goto(t, "complete") /\ UNCHANGED lost
             \/ Goto(t, "fail") /\ lost' = (lost \/ t = AutoRun)
       \/ /\ \/ req[t].op = "print" /\ Goto(t, "complete")
             \/ Goto(t, "fail")
             \/ t = AutoRun /\ Goto(t, "fail_uncovered")
          /\ UNCHANGED <<label, lost>>
    /\ UNCHANGED <<rows, quoted, choices, jobVars, excluded, counters, uncovered>>

\* The carrier confirms a purchase or turns it down.
CarrierAnswers(k) ==
    /\ label[k] = "open"
    /\ \E verdict \in {"confirmed", "refused"} : label' = [label EXCEPT ![k] = verdict]
    /\ UNCHANGED <<rows, quoted, choices, jobVars, calls, pc, req, excluded, history>>

-----------------------------------------------------------------------------
(* The operators: they ask for a quote, and buy or print under any key     *)

QuoteManually(q) ==
    /\ q \notin quoted
    /\ quoted' = quoted \cup {q}
    /\ UNCHANGED <<rows, choices, jobVars, shein, pc, req, excluded, history>>

RequestOperation(h) ==
    /\ pc[h] = "idle"
    /\ starts < MaxStarts /\ starts' = starts + 1
    /\ \E op \in Ops, k \in ManualKeys, q \in OperatorQuotes, c \in Channels :
          Serve(h, "reserve", [op |-> op, key |-> k, quote |-> q, channel |-> c])
    /\ UNCHANGED <<rows, quoted, choices, jobVars, shein, excluded,
                   crashes, dbErrors, uncovered, lost>>

-----------------------------------------------------------------------------
(* executeAutoFulfillment                                                  *)

\* Mutation: the run does not look at what the last one bought.
StartAfresh == FALSE
HasPurchase == placed # None

StartRun ==
    /\ pc[AutoRun] = "idle" /\ job # "completed"
    /\ starts < MaxStarts /\ starts' = starts + 1
    /\ job' = "open"
    /\ IF HasPurchase
       THEN Serve(AutoRun, "confirm_stored", [op |-> "place", key |-> placed,
                                           quote |-> jobQuote, channel |-> jobChannel])
       ELSE Goto(AutoRun, "load")
    /\ UNCHANGED <<rows, quoted, choices, jobRest, shein, excluded,
                   crashes, dbErrors, uncovered, lost>>

\* Mutation: the carriers excluded by earlier runs are not loaded.
NoRejectedCarriers == {}
RejectedAutoJobCarriers == rejected

\* The order is read again: the run goes on, or finds it already fulfilled.
LoadOrder ==
    /\ pc[AutoRun] = "load"
    /\ \/ /\ excluded' = RejectedAutoJobCarriers
          /\ Goto(AutoRun, "quote") /\ UNCHANGED job
       \/ job' = "completed" /\ Answer(AutoRun) /\ UNCHANGED excluded
    /\ UNCHANGED <<rows, quoted, choices, jobRest, shein, history>>

\* A quote is saved and a channel is taken whose carrier is not excluded;
\* SHEIN may answer with a quote it has given before.
Quotable == {c \in Channels : QuotedCarrier[c] \notin excluded}
TakeQuote ==
    /\ pc[AutoRun] = "quote"
    /\ \E q \in AutoQuotes, c \in Quotable :
          /\ quoted' = quoted \cup {q}
          /\ Serve(AutoRun, "select", [op |-> "place", key |-> AutoKey(q, c),
                                    quote |-> q, channel |-> c])
    /\ UNCHANGED <<rows, choices, jobVars, shein, excluded, history>>

SetAutoJobSelection ==
    /\ pc[AutoRun] = "select"
    /\ jobQuote' = req[AutoRun].quote /\ jobChannel' = req[AutoRun].channel
    /\ Goto(AutoRun, "read")
    /\ UNCHANGED <<rows, quoted, choices, job, placed, rejected, shein, excluded, history>>

SetAutoJobResult ==
    /\ pc[AutoRun] = "result"
    /\ placed' = req[AutoRun].key
    /\ Goto(AutoRun, "confirm")
    /\ UNCHANGED <<rows, quoted, choices, job, jobQuote, jobChannel, rejected,
                   shein, excluded, history>>

\* Mutation: a purchase the carrier has not confirmed yet counts as refused.
Unconfirmed(k) == label[k] \in {"open", "refused"}
Refused(k) == label[k] = "refused"

\* check-express-order: print, wait for another run, or look for another
\* carrier when this one does not serve the address.
CheckOrder ==
    /\ pc[AutoRun] \in {"confirm", "confirm_stored"}
    /\ LET k == req[AutoRun].key IN
          \/ label[k] = "confirmed" /\ Goto(AutoRun, "print")
          \/ label[k] = "open" /\ Answer(AutoRun)
          \/ Refused(k) /\ Goto(AutoRun, IF pc[AutoRun] = "confirm" THEN "reject" ELSE "reject_stored")
    /\ UNCHANGED <<rows, quoted, choices, jobVars, shein, excluded, history>>

\* One transaction marks the choice of the job, excludes the carrier (as the
\* code of the channel names it) and clears the purchase; the run asks for new
\* quotes.
RejectAutoJobCarrier ==
    /\ pc[AutoRun] \in {"reject", "reject_stored"}
    /\ req[AutoRun].channel # None
    /\ uncovered' = uncovered \cup {req[AutoRun].channel}
    /\ rejectedChoice' = rejectedChoice \cup ({jobQuote} \ {None})
    /\ rejected' = rejected \cup {CodeCarrier[req[AutoRun].channel]}
    /\ placed' = None /\ jobQuote' = None /\ jobChannel' = None
    /\ IF pc[AutoRun] = "reject"
       THEN excluded' = excluded \cup {CodeCarrier[req[AutoRun].channel]}
            /\ Serve(AutoRun, "quote", NoRequest)
       ELSE Serve(AutoRun, "load", NoRequest) /\ UNCHANGED excluded
    /\ UNCHANGED <<rows, quoted, choice, job, shein, counters, lost>>

\* The label is printed (under a key of this attempt alone) and handed over.
PrintAndHandOver ==
    /\ pc[AutoRun] = "print"
    /\ job' = "completed"
    /\ Answer(AutoRun)
    /\ UNCHANGED <<rows, quoted, choices, jobRest, shein, excluded, history>>

\* A statement or a request of the run fails before there is a purchase, or
\* when it is recorded.
RunFails ==
    /\ pc[AutoRun] \in {"load", "quote", "select", "read", "insert", "reserve", "confirm",
                     "confirm_stored", "reject", "reject_stored", "print"}
    /\ GiveUp(AutoRun)
    /\ UNCHANGED <<rows, quoted, choices, jobRest, shein, excluded, history>>

-----------------------------------------------------------------------------
(* The warehouse watch: a printable label, whoever bought it, is recorded  *)
(* in the job of an order which is not under way (EnsureWarehouseLedgerJob) *)

RecordLabel(k) ==
    /\ label[k] = "confirmed"
    /\ job \in {"none", "failed", "completed"}
    /\ job' = IF job = "none" THEN "completed" ELSE job
    /\ placed' = k /\ jobChannel' = ChannelOf(k)
    /\ UNCHANGED <<rows, quoted, choices, jobQuote, rejected, shein, pc, req, excluded, history>>

-----------------------------------------------------------------------------
(* Failures                                                                *)

\* A sale the run has not recorded yet is lost with it.
Unrecorded(t) == t = AutoRun /\ pc[t] \in {"complete", "result"}

DbError(t) ==
    /\ dbErrors < MaxDbErrors /\ dbErrors' = dbErrors + 1
    /\ \/ t # AutoRun /\ pc[t] \in {"reserve", "complete"} /\ Answer(t) /\ UNCHANGED job
       \/ t # AutoRun /\ pc[t] \in {"read", "insert"} /\ Goto(t, "fail") /\ UNCHANGED job
       \/ Unrecorded(t) /\ GiveUp(t)
       \/ pc[t] = "fail" /\ GiveUp(t)
       \/ pc[t] = "fail_uncovered" /\ Goto(t, "reject") /\ UNCHANGED job
    /\ lost' = (lost \/ Unrecorded(t))
    /\ UNCHANGED <<rows, quoted, choices, jobRest, shein, excluded, starts, crashes, uncovered>>

Crash ==
    /\ crashes < MaxCrashes /\ crashes' = crashes + 1
    /\ pc' = [t \in Threads |-> "idle"]
    /\ req' = [t \in Threads |-> NoRequest]
    /\ excluded' = {}
    /\ lost' = (lost \/ Unrecorded(AutoRun))
    /\ UNCHANGED <<rows, quoted, choices, jobVars, shein, starts, dbErrors, uncovered>>

-----------------------------------------------------------------------------

\* The steps of a purchase that handlers and the automatic run share.
PurchaseStep(t) ==
    \/ Reserve(t) \/ Verify(t) \/ ReadChoice(t) \/ InsertChoice(t)
    \/ Call(t) \/ Complete(t) \/ Fail(t)

RunStep ==
    \/ StartRun \/ LoadOrder \/ TakeQuote \/ SetAutoJobSelection
    \/ SetAutoJobResult \/ CheckOrder \/ RejectAutoJobCarrier
    \/ PrintAndHandOver \/ RunFails

Next ==
    \/ \E t \in Threads : PurchaseStep(t) \/ DbError(t)
    \/ \E q \in OperatorQuotes : QuoteManually(q)
    \/ \E h \in Handlers : RequestOperation(h)
    \/ \E k \in Keys : CarrierAnswers(k) \/ RecordLabel(k)
    \/ RunStep \/ Crash

Spec == Init /\ [][Next]_vars

-----------------------------------------------------------------------------
(* Properties                                                              *)

\* However often an operation is requested under one key (by two tabs, after a
\* failure, after a restart), SHEIN receives it at most once.
OneCallPerKey == \A r \in Rows : calls[r] <= 1

\* The ledger keeps the promise of IdempotentOperations.
Ledger == INSTANCE IdempotentOperations WITH
    Operations <- Rows,
    status <- ledger,
    performed <- calls

ImplementsLedger == Ledger!Spec

\* Every purchase that reached SHEIN left a choice for its quote, so that what
\* was paid can be compared with what was offered: its own choice or, for a
\* quote the operators bought under several keys at once, that of another of
\* their purchases of the quote.  A run's choice is always its own.
PurchaseLeavesChoice ==
    \A k \in Keys : calls[<<"place", k>>] > 0 =>
        LET q == QuoteOf(k) IN
            \/ choice[q] = k
            \/ {k, choice[q]} \subseteq ManualKeys /\ QuoteOf(choice[q]) = q

\* The choice of a quote "always stores the final operator-selected channel"
\* (README.md:36-37).  Not so when two requests read that there is none: the
\* channel of the second is bought, and that of the first is stored.
ChosenChannelIsBought ==
    \A k \in Keys : calls[<<"place", k>>] > 0 =>
        choice[QuoteOf(k)] # None /\ ChannelOf(choice[QuoteOf(k)]) = ChannelOf(k)

InProgress(r) ==
    \E t \in Threads :
        /\ Row(t) = r
        /\ pc[t] \in {"verify", "read", "insert", "call", "complete", "fail", "fail_uncovered"}

\* The row of a purchase is pending only while somebody works on it, unless a
\* restart or a database error came between: "the same operation is already in
\* progress" (server.go:263).  A refused print leaves its row pending for ever.
PendingPurchaseInProgress ==
    crashes = 0 /\ dbErrors = 0 => \A k \in Keys :
        ledger[<<"place", k>>] = "pending" => InProgress(<<"place", k>>)

\* The carrier of a channel that does not serve the address is excluded for
\* good: no later automatic purchase of the order is sent to any channel of
\* that carrier (docs/go-fulfillment.md:89-92).  This holds for a channel whose
\* code names its carrier.  One that is known by its id or short name only is
\* recorded under a name no channel is looked up by, and may be bought again.
RejectedNotBoughtAgain ==
    [][\A k \in AutoKeys, c \in uncovered :
          calls'[<<"place", k>>] > calls[<<"place", k>>] /\ CodeCarrier[c] = QuotedCarrier[c]
             => QuotedCarrier[k[2]] # QuotedCarrier[c]]_vars

\* The choice of a purchase is marked rejected only when there is no label:
\* what the order was shipped with is looked up among the other choices.
LiveLabelNotRejected ==
    \A q \in rejectedChoice : choice[q] # None =>
        label[choice[q]] \notin {"open", "confirmed"}

\* The runs of an order do not buy a second label beside a living one, as long
\* as no sale was lost between SHEIN's answer and the job.
NoSecondLabel ==
    ~lost => \A k, l \in AutoKeys :
        label[k] \in {"open", "confirmed"} /\ label[l] \in {"open", "confirmed"} => k = l
=============================================================================
