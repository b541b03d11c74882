---------------------------- MODULE InventoryCosts ----------------------------
(***************************************************************************)
(* The cost templates and inventory tickets of the profit-and-loss web     *)
(* application (pnl_web.py) in PostgreSQL.  A template has categories, a   *)
(* category has cost types, and each type says how its costs are computed; *)
(* a ticket refers to one template, or none, and has at most one entry for *)
(* each cost type.                                                         *)
(*                                                                         *)
(* A request is one READ COMMITTED transaction of several statements, each *)
(* of which sees what is committed when it starts.  What it writes is seen *)
(* by nobody before it commits, and the rows it has written are locked     *)
(* until then: the final writes of a request are one step with its commit. *)
(***************************************************************************)
EXTENDS Integers, FiniteSets

CONSTANTS
    Clients,              \* requests in flight at once
    Templates, Categories, Types, Tickets,  \* the ids the sequences hand out
    TemplateOf,           \* the template category k is created in
    CategoryOf,           \* the category type t is created in
    Default               \* INVENTORY_DEFAULT_TEMPLATE: the rows of the first template

Modes == {"direct_amount", "quantity_x_unit"}
Rows == Templates \cup Categories \cup Types \cup Tickets
Blank == "blank"     \* a ticket without a template
NoOne == "none"

ASSUME TreeAssumption ==
    /\ TemplateOf \in [Categories -> Templates]
    /\ CategoryOf \in [Types -> Categories]
    /\ Default \subseteq Templates \cup Categories \cup Types
ASSUME IdsAssumption ==   \* a row of one table is none of another
    /\ Templates \cap (Categories \cup Types \cup Tickets) = {}
    /\ Categories \cap (Types \cup Tickets) = {} /\ Types \cap Tickets = {}
    /\ Blank \notin Rows

Template(t) == TemplateOf[CategoryOf[t]]

\* What a client may give for a cost: an amount, a quantity and a unit
\* price, only one of these two, or only a note.
Payloads == {"amount", "product", "half", "note"}
\* What is stored: an amount alone, quantity * unit_price, or only a note.
Shapes == {"none", "amount", "product", "note"}

VARIABLES
    seeded,    \* the row of inventory_template_settings
    live,      \* the rows of the four tables
    born,      \* the ids given out so far
    mode,      \* calculation_mode of a type
    ticket,    \* cost_template_id of a ticket
    entry,     \* entry[i][t]: the cost entry of ticket i for type t
    pc, req,   \* where a request stands, and what it asks for
    held,      \* the tickets whose entry it has updated and not committed
    seeding,   \* it inserted the settings row and the first template
    seeds,     \* history: first templates committed
    raced      \* history: types whose mode changed while another request had read it

treeVars == <<seeded, live, born, seeds>>
dataVars == <<mode, ticket, entry, raced>>
vars == <<treeVars, dataVars, pc, req, held, seeding>>

Nothing == [op |-> NoOne]
SaveRequests ==
    [op : {"save"}, ticket : Tickets, template : Templates \cup {Blank},
     costs : UNION {[S -> Payloads] : S \in SUBSET Types}]
NormalizedRequests ==
    [op : {"save"}, ticket : Tickets, template : Templates \cup {Blank},
     costs : UNION {[S -> Shapes] : S \in SUBSET Types}]
PatchRequests == [op : {"patch"}, type : Types, previous : Modes, mode : Modes]

-----------------------------------------------------------------------------
Init ==
    /\ seeded = FALSE /\ live = {} /\ born = {} /\ seeds = 0
    /\ mode = [t \in Types |-> "quantity_x_unit"]
    /\ ticket = [i \in Tickets |-> Blank]
    /\ entry = [i \in Tickets |-> [t \in Types |-> "none"]]
    /\ raced = {}
    /\ pc = [c \in Clients |-> "idle"] /\ req = [c \in Clients |-> Nothing]
    /\ held = [c \in Clients |-> {}] /\ seeding = [c \in Clients |-> FALSE]

Goto(c, label) == pc' = [pc EXCEPT ![c] = label]
\* The transaction is over and its locks are released.
End(c) ==
    /\ Goto(c, "idle")
    /\ req' = [req EXCEPT ![c] = Nothing]
    /\ held' = [held EXCEPT ![c] = {}] /\ seeding' = [seeding EXCEPT ![c] = FALSE]

\* The rows a commit adds: x, and the first template if this request made it.
Commits(c, x) ==
    LET new == x \cup (IF seeding[c] THEN Default ELSE {}) IN
       /\ live' = live \cup new /\ born' = born \cup new
       /\ seeded' = (seeded \/ seeding[c])
       /\ seeds' = IF seeding[c] THEN seeds + 1 ELSE seeds

\* Mutant: the first template is made when the shop has none.
EnsureByTemplates(c) ==
    /\ pc[c] = "idle" /\ \A c2 \in Clients : ~seeding[c2]
    /\ seeding' = [seeding EXCEPT ![c] = live \cap Templates = {}]
    /\ Goto(c, "ready")
    /\ UNCHANGED <<treeVars, dataVars, req, held>>
\* ON CONFLICT DO NOTHING waits for a request that is inserting the same row.
EnsureInventoryTemplate(c) ==
    /\ pc[c] = "idle" /\ \A c2 \in Clients : ~seeding[c2]
    /\ seeding' = [seeding EXCEPT ![c] = ~seeded]
    /\ Goto(c, "ready")
    /\ UNCHANGED <<treeVars, dataVars, req, held>>

\* GET: the templates and tickets are only read.
FetchTemplates(c) ==
    /\ pc[c] = "ready"
    /\ Commits(c, {}) /\ End(c) /\ UNCHANGED dataVars

CreateTemplate(c) ==
    /\ pc[c] = "ready"
    /\ \E m \in Templates \ (born \cup Default) : Commits(c, {m})
    /\ End(c) /\ UNCHANGED dataVars

CreateCategory(c) ==
    /\ pc[c] = "idle"
    /\ \E k \in Categories \ (born \cup Default) :
          TemplateOf[k] \in live /\ live' = live \cup {k} /\ born' = born \cup {k}
    /\ UNCHANGED <<seeded, seeds, dataVars, pc, req, held, seeding>>

CreateType(c) ==
    /\ pc[c] = "idle"
    /\ \E t \in Types \ (born \cup Default), m \in Modes :
          /\ CategoryOf[t] \in live
          /\ live' = live \cup {t} /\ born' = born \cup {t}
          /\ mode' = [mode EXCEPT ![t] = m]
    /\ UNCHANGED <<seeded, seeds, ticket, entry, raced, pc, req, held, seeding>>

-----------------------------------------------------------------------------
(* POST and PUT of a ticket (save_inventory_ticket).                       *)
\* inventory_ticket_template_id: the template is there, or there is none.
BeginSave(c) ==
    /\ pc[c] = "ready"
    /\ \E r \in SaveRequests :
          /\ r.template = Blank \/ r.template \in live
          /\ r.template = Blank => DOMAIN r.costs = {}
          /\ \A t \in DOMAIN r.costs : t \in born
          /\ r.ticket \in born => r.ticket \in live
          /\ req' = [req EXCEPT ![c] = r]
    /\ Goto(c, "costs")
    /\ UNCHANGED <<treeVars, dataVars, held, seeding>>

\* normalize_inventory_costs: an entry with nothing in it is left out.
Shape(m, payload) ==
    IF payload = "note" THEN "note"
    ELSE IF m = "direct_amount" /\ payload = "amount" THEN "amount"
    ELSE IF m = "quantity_x_unit" /\ payload = "product" THEN "product"
    ELSE "none"

\* A type that is gone or belongs to another template is refused (400), and
\* so is a quantity without a unit price.
ReadModes(c) ==
    LET costs == req[c].costs IN
       /\ pc[c] = "costs"
       /\ \A t \in DOMAIN costs :
             /\ t \in live /\ Template(t) = req[c].template
             /\ mode[t] = "quantity_x_unit" => costs[t] # "half"
       /\ req' = [req EXCEPT ![c].costs =
                     [t \in DOMAIN costs |-> Shape(mode[t], costs[t])]]
       /\ Goto(c, "save")
       /\ UNCHANGED <<treeVars, dataVars, held, seeding>>

Entries(c) == [t \in Types |-> IF t \in DOMAIN req[c].costs THEN req[c].costs[t] ELSE "none"]

\* A request that has read the mode of a type and not committed.
UsesMode(c, t) ==
    \/ pc[c] = "save" /\ t \in DOMAIN req[c].costs
    \/ pc[c] \in {"convert", "patch"} /\ req[c].type = t
IsConverting(c, t) == pc[c] = "patch" /\ req[c].type = t

\* Mutant: a PUT keeps the entries the client did not send.
SaveTicketKeepsEntries(c) ==
    LET i == req[c].ticket IN
       /\ pc[c] = "save"
       /\ i \in live \/ i \notin born
       /\ req[c].template \in live \cup {Blank} /\ DOMAIN req[c].costs \subseteq live
       /\ \A c2 \in Clients \ {c} : i \notin held[c2]
       /\ ticket' = [ticket EXCEPT ![i] = req[c].template]
       /\ entry' = [entry EXCEPT ![i] =
                       [t \in Types |-> IF t \in DOMAIN req[c].costs THEN req[c].costs[t]
                                        ELSE entry[i][t]]]
       /\ raced' = raced
       /\ Commits(c, {i}) /\ End(c) /\ UNCHANGED mode
\* Mutant: the ticket is written by an upsert.
SaveTicketUpserts(c) ==
    LET i == req[c].ticket IN
       /\ pc[c] = "save"
       /\ req[c].template \in live \cup {Blank} /\ DOMAIN req[c].costs \subseteq live
       /\ \A c2 \in Clients \ {c} : i \notin held[c2]
       /\ ticket' = [ticket EXCEPT ![i] = req[c].template]
       /\ entry' = [entry EXCEPT ![i] = Entries(c)]
       /\ raced' = raced \cup {t \in DOMAIN req[c].costs :
                                  \E c2 \in Clients \ {c} : IsConverting(c2, t)}
       /\ Commits(c, {i}) /\ End(c) /\ UNCHANGED mode
\* The foreign keys fail for a template or type that is gone by now, and an
\* UPDATE of a ticket that is gone finds no row (404).  The DELETE of the old
\* entries waits for a request that is converting one of them.
SaveTicket(c) ==
    LET i == req[c].ticket IN
       /\ pc[c] = "save"
       /\ i \in live \/ i \notin born
       /\ req[c].template \in live \cup {Blank} /\ DOMAIN req[c].costs \subseteq live
       /\ \A c2 \in Clients \ {c} : i \notin held[c2]
       /\ ticket' = [ticket EXCEPT ![i] = req[c].template]
       /\ entry' = [entry EXCEPT ![i] = Entries(c)]
       /\ raced' = raced \cup {t \in DOMAIN req[c].costs :
                                  \E c2 \in Clients \ {c} : IsConverting(c2, t)}
       /\ Commits(c, {i}) /\ End(c) /\ UNCHANGED mode

DeleteTicket(c) ==
    /\ pc[c] = "idle"
    /\ \E i \in live \cap Tickets :
          /\ \A c2 \in Clients : i \notin held[c2]
          /\ live' = live \ {i}
          /\ ticket' = [ticket EXCEPT ![i] = Blank]
          /\ entry' = [entry EXCEPT ![i] = [t \in Types |-> "none"]]
    /\ UNCHANGED <<seeded, born, seeds, mode, raced, pc, req, held, seeding>>

-----------------------------------------------------------------------------
(* PATCH of a cost type: its mode, or only its name, which writes back the *)
(* mode that was read.                                                     *)
BeginPatchType(c) ==
    /\ pc[c] = "idle"
    /\ \E t \in live \cap Types, m \in Modes :
          req' = [req EXCEPT ![c] = [op |-> "patch", type |-> t, previous |-> mode[t], mode |-> m]]
    /\ Goto(c, "convert")
    /\ UNCHANGED <<treeVars, dataVars, held, seeding>>

\* UPDATE of the type's entries; it waits for one that holds an entry.
ConvertEntries(c) ==
    LET t == req[c].type
        changed == {i \in Tickets : entry[i][t] # "none"}
    IN /\ pc[c] = "convert"
       /\ IF req[c].previous = req[c].mode THEN UNCHANGED held
          ELSE /\ \A c2 \in Clients \ {c} :
                     pc[c2] = "patch" /\ req[c2].type = t => changed \cap held[c2] = {}
               /\ held' = [held EXCEPT ![c] = changed]
       /\ Goto(c, "patch")
       /\ UNCHANGED <<treeVars, dataVars, req, seeding>>

\* quantity 1 and the amount as unit price, or both NULL.
Converted(m, shape) ==
    IF shape = "amount" /\ m = "quantity_x_unit" THEN "product"
    ELSE IF shape = "product" /\ m = "direct_amount" THEN "amount"
    ELSE shape

\* Mutant: the entries keep quantity and unit price.
PatchTypeOnly(c) ==
    LET t == req[c].type IN
       /\ pc[c] = "patch"
       /\ mode' = IF t \in live THEN [mode EXCEPT ![t] = req[c].mode] ELSE mode
       /\ raced' = IF mode'[t] # mode[t] /\ \E c2 \in Clients \ {c} : UsesMode(c2, t)
                   THEN raced \cup {t} ELSE raced
       /\ End(c) /\ UNCHANGED <<treeVars, ticket, entry>>
PatchType(c) ==
    LET t == req[c].type IN
       /\ pc[c] = "patch"
       /\ entry' = [i \in Tickets |-> IF i \in held[c]
                       THEN [entry[i] EXCEPT ![t] = Converted(req[c].mode, @)] ELSE entry[i]]
       /\ mode' = IF t \in live THEN [mode EXCEPT ![t] = req[c].mode] ELSE mode
       /\ raced' = IF mode'[t] # mode[t] /\ \E c2 \in Clients \ {c} : UsesMode(c2, t)
                   THEN raced \cup {t} ELSE raced
       /\ End(c) /\ UNCHANGED <<treeVars, ticket>>

-----------------------------------------------------------------------------
(* DELETE of a template, category or type: ON DELETE CASCADE takes the     *)
(* rows below it and the entries of its types, ON DELETE SET NULL the      *)
(* template of a ticket.                                                   *)
Below(x) ==
    LET ks == {k \in Categories : k = x \/ TemplateOf[k] = x} IN
       {x} \cup ks \cup {t \in Types : CategoryOf[t] \in ks}

\* It waits for a request that is converting an entry it has to delete.
DeleteRows(c, x) ==
    /\ pc[c] = "idle"
    /\ \A c2 \in Clients : held[c2] # {} => req[c2].type \notin Below(x)
    /\ live' = live \ Below(x)
    /\ ticket' = [i \in Tickets |-> IF ticket[i] = x THEN Blank ELSE ticket[i]]
    /\ entry' = [i \in Tickets |->
                    [t \in Types |-> IF t \in Below(x) THEN "none" ELSE entry[i][t]]]
    /\ UNCHANGED <<seeded, born, seeds, mode, raced, pc, req, held, seeding>>
DeleteTemplate(c) == \E m \in live \cap Templates : DeleteRows(c, m)
DeleteCategory(c) == \E k \in live \cap Categories : DeleteRows(c, k)
DeleteType(c) == \E t \in live \cap Types : DeleteRows(c, t)

\* A check, a constraint, a deadlock or a lost connection ends the request:
\* everything it did is rolled back, the first template included.
Rollback(c) ==
    /\ pc[c] # "idle"
    /\ End(c) /\ UNCHANGED <<treeVars, dataVars>>

Next == \E c \in Clients :
    \/ EnsureInventoryTemplate(c) \/ FetchTemplates(c)
    \/ CreateTemplate(c) \/ CreateCategory(c) \/ CreateType(c)
    \/ BeginSave(c) \/ ReadModes(c) \/ SaveTicket(c) \/ DeleteTicket(c)
    \/ BeginPatchType(c) \/ ConvertEntries(c) \/ PatchType(c)
    \/ DeleteTemplate(c) \/ DeleteCategory(c) \/ DeleteType(c)
    \/ Rollback(c)

Spec == Init /\ [][Next]_vars

-----------------------------------------------------------------------------
TypeOK ==
    /\ seeded \in BOOLEAN /\ seeds \in Nat
    /\ live \subseteq born /\ born \subseteq Rows
    /\ mode \in [Types -> Modes]
    /\ ticket \in [Tickets -> Templates \cup {Blank}]
    /\ entry \in [Tickets -> [Types -> Shapes]]
    /\ raced \subseteq Types
    /\ pc \in [Clients -> {"idle", "ready", "costs", "save", "convert", "patch"}]
    /\ req \in [Clients -> SaveRequests \cup NormalizedRequests \cup PatchRequests \cup {Nothing}]
    /\ held \in [Clients -> SUBSET Tickets]
    /\ seeding \in [Clients -> BOOLEAN]

\* Whatever requests run at once, a cost entry belongs to a type that is
\* there, of the template its ticket refers to: the entries a save replaces,
\* the types it has checked before they were deleted and the template it
\* found leave none behind.
EntryOfTicketsTemplate ==
    \A i \in Tickets, t \in Types :
        entry[i][t] # "none" => i \in live /\ t \in live /\ ticket[i] = Template(t)

\* An entry has the form its type's mode asks for - an amount alone, or
\* quantity times unit price -, unless the mode was changed while another
\* request had already read it, which nothing in the code prevents.
EntryFollowsMode ==
    \A i \in Tickets, t \in live \cap Types :
        t \in raced \/ entry[i][t] \in {"none", "note", IF mode[t] = "direct_amount"
                                                        THEN "amount" ELSE "product"}

\* The first template is made once for a shop: not by two first requests at
\* once, not again after a rollback that did not happen, and not again when
\* the operator has deleted it.
SeededOnce == seeds <= 1

\* What was deleted is not brought back by a request that read it before.
DeletedStaysDeleted == [][\A x \in born : x \notin live => x \notin live']_vars
=============================================================================
