------------------------ MODULE InventoryCostsProofs ------------------------
(***************************************************************************)
(* What holds of the cost templates and inventory tickets for any number   *)
(* of requests, rows and cost types: a request in flight and the rows      *)
(* committed since it read them are related by the invariants below.       *)
(***************************************************************************)
EXTENDS InventoryCosts, TLAPS

\* What a request carries in each of its steps.
RequestsTyped ==
    \A c \in Clients :
        /\ pc[c] = "costs" => req[c] \in SaveRequests
        /\ pc[c] = "save" => req[c] \in NormalizedRequests
        /\ pc[c] \in {"convert", "patch"} => req[c] \in PatchRequests
\* It only names types that have been there, and after their check the types
\* of its template.
RequestsKnown ==
    \A c \in Clients :
        /\ pc[c] \in {"costs", "save"} => DOMAIN req[c].costs \subseteq born
        /\ pc[c] \in {"convert", "patch"} => req[c].type \in born
        /\ pc[c] = "save" =>
              \A t \in DOMAIN req[c].costs : Template(t) = req[c].template
\* Rows are locked by a request that changes a mode, between its two updates.
HeldByPatch ==
    \A c \in Clients :
        held[c] # {} => pc[c] = "patch" /\ req[c].previous # req[c].mode

\* The first template is made by one request at a time, and its rows are new.
SeedsCounted ==
    /\ seeds = IF seeded THEN 1 ELSE 0
    /\ \A c, c2 \in Clients : seeding[c] /\ seeding[c2] => c = c2
    /\ \A c \in Clients : seeding[c] => ~seeded
    /\ ~seeded => Default \cap born = {}

RequestInv == TypeOK /\ RequestsTyped /\ RequestsKnown /\ HeldByPatch
TreeInv == RequestInv /\ SeedsCounted /\ EntryOfTicketsTemplate

\* What a shape looks like in a mode.
Fits(m, shape) ==
    shape \in {"none", "note", IF m = "direct_amount" THEN "amount" ELSE "product"}
\* A request that has read the mode of a type whose mode has not changed
\* since knows it, and has locked every entry it has to convert.
Knows(c) ==
    /\ pc[c] = "save" => \A t \in DOMAIN req[c].costs :
          t \in raced \/ Fits(mode[t], req[c].costs[t])
    /\ pc[c] \in {"convert", "patch"} =>
          req[c].type \in raced \/ mode[req[c].type] = req[c].previous
    /\ pc[c] = "patch" /\ req[c].previous # req[c].mode =>
          \/ req[c].type \in raced
          \/ \A i \in Tickets : entry[i][req[c].type] # "none" => i \in held[c]
ModesKnown == \A c \in Clients : Knows(c)
ModeInv == TreeInv /\ ModesKnown /\ EntryFollowsMode

-----------------------------------------------------------------------------
\* The fields of a request.
LEMMA SaveFields ==
    ASSUME NEW r \in SaveRequests \cup NormalizedRequests
    PROVE  /\ r.ticket \in Tickets /\ r.template \in Templates \cup {Blank}
           /\ DOMAIN r.costs \subseteq Types
  BY DEF SaveRequests, NormalizedRequests

LEMMA NormalizedFields ==
    ASSUME NEW r \in NormalizedRequests, NEW t \in DOMAIN r.costs
    PROVE  r.costs[t] \in Shapes
  BY DEF NormalizedRequests

LEMMA PatchFields ==
    ASSUME NEW r \in PatchRequests
    PROVE  /\ r.type \in Types /\ r.previous \in Modes /\ r.mode \in Modes
  BY DEF PatchRequests

\* normalize_inventory_costs gives what its mode asks for.
LEMMA ShapeFits ==
    ASSUME NEW m \in Modes, NEW p
    PROVE  Shape(m, p) \in Shapes /\ Fits(m, Shape(m, p))
  BY DEF Shape, Shapes, Fits, Modes

LEMMA ConvertedFits ==
    ASSUME NEW m \in Modes, NEW m2 \in Modes, NEW s \in Shapes
    PROVE  /\ Converted(m, s) \in Shapes
           /\ Converted(m, s) = "none" <=> s = "none"
           /\ Fits(m2, s) /\ m # m2 => Fits(m, Converted(m, s))
  BY DEF Converted, Shapes, Fits, Modes

-----------------------------------------------------------------------------
\* A request that ends leaves nothing behind in the requests in flight.
LEMMA EndRequests ==
    ASSUME RequestInv, NEW c \in Clients, End(c), born \subseteq born'
    PROVE  /\ pc' \in [Clients -> {"idle", "ready", "costs", "save", "convert", "patch"}]
           /\ req' \in [Clients -> SaveRequests \cup NormalizedRequests \cup PatchRequests
                                      \cup {Nothing}]
           /\ held' \in [Clients -> SUBSET Tickets] /\ seeding' \in [Clients -> BOOLEAN]
           /\ RequestsTyped' /\ RequestsKnown' /\ HeldByPatch'
  <1>1. /\ pc' \in [Clients -> {"idle", "ready", "costs", "save", "convert", "patch"}]
        /\ req' \in [Clients -> SaveRequests \cup NormalizedRequests \cup PatchRequests
                                   \cup {Nothing}]
        /\ held' \in [Clients -> SUBSET Tickets] /\ seeding' \in [Clients -> BOOLEAN]
    BY DEF RequestInv, TypeOK, End, Goto
  <1>2. /\ \A d \in Clients \ {c} :
              pc'[d] = pc[d] /\ req'[d] = req[d] /\ held'[d] = held[d]
        /\ pc'[c] = "idle" /\ held'[c] = {}
    BY DEF RequestInv, TypeOK, End, Goto
  <1>3. RequestsTyped'
    BY <1>2 DEF RequestInv, RequestsTyped
  <1>4. RequestsKnown'
    BY <1>2 DEF RequestInv, RequestsKnown, Template
  <1>5. HeldByPatch'
    BY <1>2 DEF RequestInv, HeldByPatch
  <1> QED BY <1>1, <1>3, <1>4, <1>5

\* A step that leaves the requests in flight alone.
LEMMA SameRequests ==
    ASSUME RequestInv, UNCHANGED <<pc, req, held, seeding>>, born \subseteq born'
    PROVE  /\ pc' \in [Clients -> {"idle", "ready", "costs", "save", "convert", "patch"}]
           /\ req' \in [Clients -> SaveRequests \cup NormalizedRequests \cup PatchRequests
                                      \cup {Nothing}]
           /\ held' \in [Clients -> SUBSET Tickets] /\ seeding' \in [Clients -> BOOLEAN]
           /\ RequestsTyped' /\ RequestsKnown' /\ HeldByPatch'
  <1>1. RequestsTyped'
    BY DEF RequestInv, RequestsTyped
  <1>2. RequestsKnown'
    BY DEF RequestInv, RequestsKnown, Template
  <1>3. HeldByPatch'
    BY DEF RequestInv, HeldByPatch
  <1> QED BY <1>1, <1>2, <1>3 DEF RequestInv, TypeOK

\* What a commit adds was not there before.
LEMMA CommitRows ==
    ASSUME RequestInv, NEW c \in Clients, NEW x \in SUBSET Rows, Commits(c, x)
    PROVE  /\ seeded' \in BOOLEAN /\ seeds' \in Nat
           /\ live' \subseteq born' /\ born' \subseteq Rows
           /\ born \subseteq born'
  BY TreeAssumption DEF RequestInv, TypeOK, Commits, Rows

-----------------------------------------------------------------------------
LEMMA RequestInit == Init => RequestInv
  <1> SUFFICES ASSUME Init PROVE RequestInv
    OBVIOUS
  <1>1. TypeOK
    <2>1. /\ mode \in [Types -> Modes] /\ ticket \in [Tickets -> Templates \cup {Blank}]
          /\ entry \in [Tickets -> [Types -> Shapes]]
      BY DEF Init, Modes, Shapes
    <2>2. /\ pc \in [Clients -> {"idle", "ready", "costs", "save", "convert", "patch"}]
          /\ req \in [Clients -> SaveRequests \cup NormalizedRequests \cup PatchRequests
                                    \cup {Nothing}]
          /\ held \in [Clients -> SUBSET Tickets] /\ seeding \in [Clients -> BOOLEAN]
      BY DEF Init
    <2> QED BY <2>1, <2>2 DEF Init, TypeOK
  <1>2. \A c \in Clients : pc[c] = "idle" /\ held[c] = {}
    BY DEF Init
  <1> QED BY <1>1, <1>2 DEF RequestInv, RequestsTyped, RequestsKnown, HeldByPatch

\* Every step keeps the types of the state and what the requests carry.
LEMMA RequestStep == RequestInv /\ [Next]_vars => RequestInv'
  <1> SUFFICES ASSUME RequestInv, [Next]_vars PROVE RequestInv'
    OBVIOUS
  <1> USE TreeAssumption
  <1>s. CASE UNCHANGED vars
    <2>1. born \subseteq born' /\ UNCHANGED <<pc, req, held, seeding>>
      BY <1>s DEF vars, treeVars, dataVars
    <2>2. RequestsTyped' /\ RequestsKnown' /\ HeldByPatch'
      BY <2>1, SameRequests
    <2> QED BY <1>s, <2>2 DEF RequestInv, TypeOK, vars, treeVars, dataVars
  <1>n. CASE Next
    <2> SUFFICES ASSUME NEW c \in Clients,
                        \/ EnsureInventoryTemplate(c) \/ FetchTemplates(c)
                        \/ CreateTemplate(c) \/ CreateCategory(c) \/ CreateType(c)
                        \/ BeginSave(c) \/ ReadModes(c) \/ SaveTicket(c) \/ DeleteTicket(c)
                        \/ BeginPatchType(c) \/ ConvertEntries(c) \/ PatchType(c)
                        \/ DeleteTemplate(c) \/ DeleteCategory(c) \/ DeleteType(c)
                        \/ Rollback(c)
                 PROVE RequestInv'
      BY <1>n DEF Next
    <2>1. CASE EnsureInventoryTemplate(c)
      BY <2>1 DEF EnsureInventoryTemplate, Goto, RequestInv, TypeOK, RequestsTyped,
                  RequestsKnown, HeldByPatch, treeVars, dataVars, Template
    <2>2. CASE FetchTemplates(c)
      <3>1. Commits(c, {}) /\ End(c) /\ UNCHANGED dataVars
        BY <2>2 DEF FetchTemplates
      <3> QED BY <3>1, CommitRows, EndRequests DEF RequestInv, TypeOK, dataVars
    <2>3. CASE CreateTemplate(c)
      <3>1. PICK m \in Templates : Commits(c, {m})
        BY <2>3 DEF CreateTemplate
      <3>2. End(c) /\ UNCHANGED dataVars
        BY <2>3 DEF CreateTemplate
      <3>3. {m} \in SUBSET Rows
        BY DEF Rows
      <3> QED BY <3>1, <3>2, <3>3, CommitRows, EndRequests DEF RequestInv, TypeOK, dataVars
    <2>4. CASE CreateCategory(c)
      <3>1. /\ born \subseteq born' /\ UNCHANGED <<pc, req, held, seeding>>
            /\ live' \subseteq born' /\ born' \subseteq Rows
            /\ UNCHANGED <<seeded, seeds, dataVars>>
        BY <2>4 DEF CreateCategory, RequestInv, TypeOK, Rows
      <3> QED BY <3>1, SameRequests DEF RequestInv, TypeOK, dataVars
    <2>5. CASE CreateType(c)
      <3>1. /\ born \subseteq born' /\ UNCHANGED <<pc, req, held, seeding>>
            /\ live' \subseteq born' /\ born' \subseteq Rows
            /\ mode' \in [Types -> Modes]
            /\ UNCHANGED <<seeded, seeds, ticket, entry, raced>>
        BY <2>5 DEF CreateType, RequestInv, TypeOK, Rows
      <3> QED BY <3>1, SameRequests DEF RequestInv, TypeOK
    <2>6. CASE BeginSave(c)
      <3>1. PICK r \in SaveRequests :
               DOMAIN r.costs \subseteq born /\ req' = [req EXCEPT ![c] = r]
        BY <2>6, SaveFields DEF BeginSave
      <3>2. /\ pc' = [pc EXCEPT ![c] = "costs"]
            /\ UNCHANGED <<treeVars, dataVars, held, seeding>> /\ pc[c] = "ready"
        BY <2>6 DEF BeginSave, Goto
      <3>3. TypeOK'
        BY <3>1, <3>2 DEF RequestInv, TypeOK, treeVars, dataVars
      <3>4. RequestsTyped'
        BY <3>1, <3>2 DEF RequestInv, TypeOK, RequestsTyped
      <3>5. RequestsKnown'
        BY <3>1, <3>2 DEF RequestInv, TypeOK, RequestsKnown, Template, treeVars
      <3>6. HeldByPatch'
        BY <3>1, <3>2 DEF RequestInv, TypeOK, HeldByPatch
      <3> QED BY <3>3, <3>4, <3>5, <3>6 DEF RequestInv
    <2>7. CASE ReadModes(c)
      <3> DEFINE costs == req[c].costs
                 read == [t \in DOMAIN costs |-> Shape(mode[t], costs[t])]
                 r == [req[c] EXCEPT !.costs = read]
      <3>1. /\ req' = [req EXCEPT ![c] = r] /\ pc' = [pc EXCEPT ![c] = "save"]
            /\ UNCHANGED <<treeVars, dataVars, held, seeding>> /\ pc[c] = "costs"
            /\ \A t \in DOMAIN costs : Template(t) = req[c].template
        BY <2>7 DEF ReadModes, Goto
      <3>2. req[c] \in SaveRequests /\ DOMAIN costs \subseteq Types /\ DOMAIN costs \subseteq born
        BY <3>1, SaveFields DEF RequestInv, RequestsTyped, RequestsKnown
      <3>3. read \in [DOMAIN costs -> Shapes]
        BY <3>2, ShapeFits DEF RequestInv, TypeOK
      <3>4. r \in NormalizedRequests /\ r.costs = read /\ r.template = req[c].template
        BY SMTT(30), <3>2, <3>3 DEF SaveRequests, NormalizedRequests
      <3>5. TypeOK'
        BY <3>1, <3>4 DEF RequestInv, TypeOK, treeVars, dataVars
      <3>6. RequestsTyped'
        BY <3>1, <3>4 DEF RequestInv, TypeOK, RequestsTyped
      <3>7. RequestsKnown'
        BY <3>1, <3>2, <3>4 DEF RequestInv, TypeOK, RequestsKnown, Template, treeVars
      <3>8. HeldByPatch'
        BY <3>1 DEF RequestInv, TypeOK, HeldByPatch
      <3> QED BY <3>5, <3>6, <3>7, <3>8 DEF RequestInv
    <2>8. CASE SaveTicket(c)
      <3> DEFINE i == req[c].ticket
      <3>1. req[c] \in NormalizedRequests
        BY <2>8 DEF SaveTicket, RequestInv, RequestsTyped
      <3>2. /\ i \in Tickets /\ req[c].template \in Templates \cup {Blank}
            /\ {i} \in SUBSET Rows
        BY <3>1, SaveFields DEF Rows
      <3>6. Entries(c) \in [Types -> Shapes]
        <4>1. \A t \in DOMAIN req[c].costs : req[c].costs[t] \in Shapes
          BY <3>1, NormalizedFields
        <4> QED BY <4>1 DEF Entries, Shapes
      <3>3. /\ Commits(c, {i}) /\ End(c) /\ UNCHANGED mode
            /\ ticket' = [ticket EXCEPT ![i] = req[c].template]
            /\ entry' = [entry EXCEPT ![i] = Entries(c)]
        BY <2>8 DEF SaveTicket
      <3>4. raced' \subseteq Types
        BY <2>8, <3>1, SaveFields DEF SaveTicket, RequestInv, TypeOK
      <3>5. ticket' \in [Tickets -> Templates \cup {Blank}] /\ entry' \in [Tickets -> [Types -> Shapes]]
        BY <3>2, <3>3, <3>6 DEF RequestInv, TypeOK
      <3> QED BY <3>2, <3>3, <3>4, <3>5, CommitRows, EndRequests DEF RequestInv, TypeOK
    <2>9. CASE DeleteTicket(c)
      <3>1. PICK i \in Tickets :
               /\ live' = live \ {i} /\ ticket' = [ticket EXCEPT ![i] = Blank]
               /\ entry' = [entry EXCEPT ![i] = [t \in Types |-> "none"]]
        BY <2>9 DEF DeleteTicket
      <3>2. UNCHANGED <<seeded, born, seeds, mode, raced, pc, req, held, seeding>>
        BY <2>9 DEF DeleteTicket
      <3>3. [t \in Types |-> "none"] \in [Types -> Shapes]
        BY DEF Shapes
      <3> QED BY <3>1, <3>2, <3>3, SameRequests DEF RequestInv, TypeOK
    <2>10. CASE BeginPatchType(c)
      <3>1. PICK t \in live \cap Types, m \in Modes :
               req' = [req EXCEPT ![c] = [op |-> "patch", type |-> t,
                                          previous |-> mode[t], mode |-> m]]
        BY <2>10 DEF BeginPatchType
      <3>2. /\ pc' = [pc EXCEPT ![c] = "convert"] /\ pc[c] = "idle"
            /\ UNCHANGED <<treeVars, dataVars, held, seeding>>
        BY <2>10 DEF BeginPatchType, Goto
      <3>3. /\ [op |-> "patch", type |-> t, previous |-> mode[t], mode |-> m] \in PatchRequests
            /\ t \in born
        BY <3>1 DEF PatchRequests, RequestInv, TypeOK
      <3>4. TypeOK'
        BY <3>1, <3>2, <3>3 DEF RequestInv, TypeOK, treeVars, dataVars
      <3>5. RequestsTyped'
        BY <3>1, <3>2, <3>3 DEF RequestInv, TypeOK, RequestsTyped
      <3>6. RequestsKnown'
        BY <3>1, <3>2, <3>3 DEF RequestInv, TypeOK, RequestsKnown, Template, treeVars
      <3>7. HeldByPatch'
        BY <3>1, <3>2 DEF RequestInv, TypeOK, HeldByPatch
      <3> QED BY <3>4, <3>5, <3>6, <3>7 DEF RequestInv
    <2>11. CASE ConvertEntries(c)
      <3>1. /\ pc' = [pc EXCEPT ![c] = "patch"] /\ pc[c] = "convert"
            /\ UNCHANGED <<treeVars, dataVars, req, seeding>>
        BY <2>11 DEF ConvertEntries, Goto
      <3>2. \/ held' = held /\ req[c].previous = req[c].mode
            \/ /\ req[c].previous # req[c].mode
               /\ held' = [held EXCEPT ![c] = {i \in Tickets : entry[i][req[c].type] # "none"}]
        BY <2>11 DEF ConvertEntries
      <3>3. TypeOK'
        BY <3>1, <3>2 DEF RequestInv, TypeOK, treeVars, dataVars
      <3>4. RequestsTyped' /\ RequestsKnown'
        BY <3>1 DEF RequestInv, TypeOK, RequestsTyped, RequestsKnown, Template, treeVars
      <3>5. HeldByPatch'
        BY <3>1, <3>2 DEF RequestInv, TypeOK, HeldByPatch
      <3> QED BY <3>3, <3>4, <3>5 DEF RequestInv
    <2>12. CASE PatchType(c)
      <3> DEFINE t == req[c].type
      <3>1. req[c] \in PatchRequests /\ t \in Types /\ req[c].mode \in Modes
        BY <2>12, PatchFields DEF PatchType, RequestInv, RequestsTyped
      <3>2. End(c) /\ UNCHANGED <<treeVars, ticket>>
        BY <2>12 DEF PatchType
      <3>3. mode' \in [Types -> Modes] /\ raced' \subseteq Types
        BY <2>12, <3>1 DEF PatchType, RequestInv, TypeOK
      <3>4. entry' \in [Tickets -> [Types -> Shapes]]
        BY <2>12, <3>1, ConvertedFits DEF PatchType, RequestInv, TypeOK
      <3> QED BY <3>2, <3>3, <3>4, EndRequests DEF RequestInv, TypeOK, treeVars
    <2>13. ASSUME NEW x, DeleteRows(c, x) PROVE RequestInv'
      <3>1. /\ UNCHANGED <<seeded, born, seeds, mode, raced, pc, req, held, seeding>>
            /\ live' \subseteq live
            /\ ticket' \in [Tickets -> Templates \cup {Blank}]
            /\ entry' \in [Tickets -> [Types -> Shapes]]
        BY <2>13 DEF DeleteRows, RequestInv, TypeOK, Shapes
      <3> QED BY <3>1, SameRequests DEF RequestInv, TypeOK
    <2>14. CASE DeleteTemplate(c)
      BY <2>13, <2>14 DEF DeleteTemplate
    <2>15. CASE DeleteCategory(c)
      BY <2>13, <2>15 DEF DeleteCategory
    <2>16. CASE DeleteType(c)
      BY <2>13, <2>16 DEF DeleteType
    <2>17. CASE Rollback(c)
      <3>1. End(c) /\ UNCHANGED <<treeVars, dataVars>>
        BY <2>17 DEF Rollback
      <3> QED BY <3>1, EndRequests DEF RequestInv, TypeOK, treeVars, dataVars
    <2> QED BY <2>1, <2>2, <2>3, <2>4, <2>5, <2>6, <2>7, <2>8, <2>9, <2>10, <2>11, <2>12,
               <2>14, <2>15, <2>16, <2>17
  <1> QED BY <1>s, <1>n

-----------------------------------------------------------------------------
\* The request that made the first template commits it once, and no other does.
LEMMA CommitSeeds ==
    ASSUME RequestInv, SeedsCounted, NEW c \in Clients, NEW x, x \cap Default = {},
           Commits(c, x), End(c)
    PROVE  SeedsCounted'
  <1>1. /\ \A d \in Clients \ {c} : seeding'[d] = seeding[d]
        /\ seeding'[c] = FALSE
    BY DEF RequestInv, TypeOK, End
  <1>2. CASE seeding[c]
    <2>1. ~seeded /\ seeds = 0 /\ \A d \in Clients \ {c} : ~seeding[d]
      BY <1>2 DEF SeedsCounted, RequestInv, TypeOK
    <2>2. seeded' = TRUE /\ seeds' = 1
      BY <1>2, <2>1 DEF Commits, RequestInv, TypeOK
    <2>3. \A d \in Clients : ~seeding'[d]
      BY <1>1, <2>1
    <2> QED BY <2>2, <2>3 DEF SeedsCounted
  <1>3. CASE ~seeding[c]
    BY <1>1, <1>3 DEF SeedsCounted, Commits, RequestInv, TypeOK
  <1> QED BY <1>2, <1>3

LEMMA EndSeeds ==
    ASSUME RequestInv, SeedsCounted, NEW c \in Clients, UNCHANGED treeVars, End(c)
    PROVE  SeedsCounted'
  BY DEF RequestInv, TypeOK, End, SeedsCounted, treeVars

\* A row that is added on its own is none of the first template.
LEMMA SameSeeds ==
    ASSUME SeedsCounted, UNCHANGED <<seeded, seeds, seeding>>,
           born' \cap Default \subseteq born
    PROVE  SeedsCounted'
  BY DEF SeedsCounted

LEMMA SeedsStep ==
    ASSUME RequestInv, SeedsCounted, [Next]_vars
    PROVE  SeedsCounted'
  <1>s. CASE UNCHANGED vars
    BY <1>s, SameSeeds DEF vars, treeVars
  <1>n. CASE Next
    <2> SUFFICES ASSUME NEW c \in Clients,
                        \/ EnsureInventoryTemplate(c) \/ FetchTemplates(c)
                        \/ CreateTemplate(c) \/ CreateCategory(c) \/ CreateType(c)
                        \/ BeginSave(c) \/ ReadModes(c) \/ SaveTicket(c) \/ DeleteTicket(c)
                        \/ BeginPatchType(c) \/ ConvertEntries(c) \/ PatchType(c)
                        \/ DeleteTemplate(c) \/ DeleteCategory(c) \/ DeleteType(c)
                        \/ Rollback(c)
                 PROVE SeedsCounted'
      BY <1>n DEF Next
    <2>1. CASE EnsureInventoryTemplate(c)
      BY <2>1 DEF EnsureInventoryTemplate, SeedsCounted, RequestInv, TypeOK, treeVars
    <2>2. CASE FetchTemplates(c)
      BY <2>2, CommitSeeds DEF FetchTemplates
    <2>3. CASE CreateTemplate(c)
      <3>1. PICK m \in Templates \ (born \cup Default) : Commits(c, {m})
        BY <2>3 DEF CreateTemplate
      <3> QED BY <2>3, <3>1, CommitSeeds DEF CreateTemplate
    <2>4. CASE CreateCategory(c)
      BY <2>4, SameSeeds DEF CreateCategory
    <2>5. CASE CreateType(c)
      BY <2>5, SameSeeds DEF CreateType
    <2>6. CASE SaveTicket(c)
      <3>1. req[c].ticket \in Tickets
        BY <2>6, SaveFields DEF SaveTicket, RequestInv, RequestsTyped
      <3>2. {req[c].ticket} \cap Default = {}
        BY <3>1, TreeAssumption, IdsAssumption
      <3> QED BY <2>6, <3>2, CommitSeeds DEF SaveTicket
    <2>7. CASE DeleteTicket(c)
      BY SMTT(30), <2>7, SameSeeds DEF DeleteTicket
    <2>8. CASE BeginSave(c) \/ ReadModes(c) \/ BeginPatchType(c) \/ ConvertEntries(c)
      BY <2>8, SameSeeds DEF BeginSave, ReadModes, BeginPatchType, ConvertEntries, treeVars
    <2>9. CASE PatchType(c) \/ Rollback(c)
      BY <2>9, EndSeeds DEF PatchType, Rollback
    <2>10. CASE DeleteTemplate(c) \/ DeleteCategory(c) \/ DeleteType(c)
      <3>1. PICK x : DeleteRows(c, x)
        BY <2>10 DEF DeleteTemplate, DeleteCategory, DeleteType
      <3> QED BY <3>1, SameSeeds DEF DeleteRows
    <2> QED BY <2>1, <2>2, <2>3, <2>4, <2>5, <2>6, <2>7, <2>8, <2>9, <2>10
  <1> QED BY <1>s, <1>n

-----------------------------------------------------------------------------
\* Rows that are only added leave every entry with its type and ticket.
LEMMA SameEntries ==
    ASSUME EntryOfTicketsTemplate, UNCHANGED <<ticket, entry>>, live \subseteq live'
    PROVE  EntryOfTicketsTemplate'
  BY DEF EntryOfTicketsTemplate, Template

LEMMA EntriesStep ==
    ASSUME RequestInv, EntryOfTicketsTemplate, [Next]_vars
    PROVE  EntryOfTicketsTemplate'
  <1> USE TreeAssumption, IdsAssumption
  <1>s. CASE UNCHANGED vars
    BY <1>s, SameEntries DEF vars, treeVars, dataVars
  <1>n. CASE Next
    <2> SUFFICES ASSUME NEW c \in Clients,
                        \/ EnsureInventoryTemplate(c) \/ FetchTemplates(c)
                        \/ CreateTemplate(c) \/ CreateCategory(c) \/ CreateType(c)
                        \/ BeginSave(c) \/ ReadModes(c) \/ SaveTicket(c) \/ DeleteTicket(c)
                        \/ BeginPatchType(c) \/ ConvertEntries(c) \/ PatchType(c)
                        \/ DeleteTemplate(c) \/ DeleteCategory(c) \/ DeleteType(c)
                        \/ Rollback(c)
                 PROVE EntryOfTicketsTemplate'
      BY SMTT(30), <1>n DEF Next
    <2>1. CASE \/ EnsureInventoryTemplate(c) \/ BeginSave(c) \/ ReadModes(c)
               \/ BeginPatchType(c) \/ ConvertEntries(c) \/ Rollback(c)
      BY <2>1, SameEntries DEF EnsureInventoryTemplate, BeginSave, ReadModes,
            BeginPatchType, ConvertEntries, Rollback, treeVars, dataVars
    <2>2. CASE FetchTemplates(c) \/ CreateTemplate(c)
      <3>1. UNCHANGED dataVars /\ \E x : Commits(c, x)
        BY <2>2 DEF FetchTemplates, CreateTemplate
      <3> QED BY <3>1, SameEntries DEF Commits, dataVars
    <2>3. CASE CreateCategory(c) \/ CreateType(c)
      <3>1. /\ UNCHANGED <<ticket, entry>> /\ live \subseteq live'
        BY <2>3 DEF CreateCategory, CreateType, dataVars
      <3> QED BY <3>1, SameEntries
    <2>4. CASE SaveTicket(c)
      <3> DEFINE i == req[c].ticket
      <3>1. /\ req[c] \in NormalizedRequests /\ i \in Tickets
            /\ \A t \in DOMAIN req[c].costs : Template(t) = req[c].template
            /\ DOMAIN req[c].costs \subseteq live
        BY <2>4, SaveFields DEF SaveTicket, RequestInv, RequestsTyped, RequestsKnown
      <3>2. /\ live' = live \cup {i} \cup (IF seeding[c] THEN Default ELSE {})
            /\ ticket' = [ticket EXCEPT ![i] = req[c].template]
            /\ entry' = [entry EXCEPT ![i] = Entries(c)]
        BY <2>4 DEF SaveTicket, Commits
      <3> SUFFICES ASSUME NEW j \in Tickets, NEW t \in Types, entry'[j][t] # "none"
                   PROVE  j \in live' /\ t \in live' /\ ticket'[j] = Template(t)
        BY DEF EntryOfTicketsTemplate, Template
      <3>3. CASE j = i
        <4>1. t \in DOMAIN req[c].costs
          BY <3>1, <3>2, <3>3 DEF Entries, RequestInv, TypeOK
        <4> QED BY <3>1, <3>2, <3>3, <4>1 DEF RequestInv, TypeOK
      <3>4. CASE j # i
        BY <3>2, <3>4 DEF EntryOfTicketsTemplate, RequestInv, TypeOK
      <3> QED BY <3>3, <3>4
    <2>5. CASE DeleteTicket(c)
      <3>1. PICK i \in Tickets :
               /\ live' = live \ {i} /\ ticket' = [ticket EXCEPT ![i] = Blank]
               /\ entry' = [entry EXCEPT ![i] = [t \in Types |-> "none"]]
        BY <2>5 DEF DeleteTicket
      <3> SUFFICES ASSUME NEW j \in Tickets, NEW t \in Types, entry'[j][t] # "none"
                   PROVE  j \in live' /\ t \in live' /\ ticket'[j] = Template(t)
        BY DEF EntryOfTicketsTemplate, Template
      <3>2. j # i /\ entry[j][t] # "none" /\ ticket'[j] = ticket[j]
        BY <3>1 DEF RequestInv, TypeOK
      <3> QED BY <3>1, <3>2 DEF EntryOfTicketsTemplate
    <2>6. CASE PatchType(c)
      <3>1. req[c] \in PatchRequests /\ req[c].mode \in Modes
        BY <2>6, PatchFields DEF PatchType, RequestInv, RequestsTyped
      <3>2. \A i \in Tickets, t \in Types : entry'[i][t] # "none" => entry[i][t] # "none"
        BY <2>6, <3>1, ConvertedFits DEF PatchType, RequestInv, TypeOK
      <3>3. UNCHANGED <<live, ticket>>
        BY <2>6 DEF PatchType, treeVars
      <3> QED BY <3>2, <3>3 DEF EntryOfTicketsTemplate, Template
    <2>7. CASE DeleteTemplate(c) \/ DeleteCategory(c) \/ DeleteType(c)
      <3>1. PICK x \in Templates \cup Categories \cup Types : DeleteRows(c, x)
        BY <2>7 DEF DeleteTemplate, DeleteCategory, DeleteType
      <3> SUFFICES ASSUME NEW i \in Tickets, NEW t \in Types, entry'[i][t] # "none"
                   PROVE  i \in live' /\ t \in live' /\ ticket'[i] = Template(t)
        BY DEF EntryOfTicketsTemplate, Template
      <3>2. t \notin Below(x) /\ entry[i][t] # "none"
        BY <3>1 DEF DeleteRows, RequestInv, TypeOK
      <3>3. i \in live /\ t \in live /\ ticket[i] = Template(t)
        BY <3>2 DEF EntryOfTicketsTemplate
      <3>4. i \notin Below(x)
        BY DEF Below
      <3>5. Template(t) # x
        BY <3>2 DEF Below, Template
      <3> QED BY <3>1, <3>2, <3>3, <3>4, <3>5 DEF DeleteRows, RequestInv, TypeOK
    <2> QED BY <2>1, <2>2, <2>3, <2>4, <2>5, <2>6, <2>7
  <1> QED BY <1>s, <1>n

-----------------------------------------------------------------------------
\* The entries and the first template, for every number of requests.
THEOREM TreeInvariant == Spec => []TreeInv
  <1>1. Init => TreeInv
    <2> SUFFICES ASSUME Init PROVE TreeInv
      OBVIOUS
    <2>1. SeedsCounted /\ EntryOfTicketsTemplate
      BY DEF Init, SeedsCounted, EntryOfTicketsTemplate
    <2> QED BY <2>1, RequestInit DEF TreeInv
  <1>2. TreeInv /\ [Next]_vars => TreeInv'
    BY RequestStep, SeedsStep, EntriesStep DEF TreeInv
  <1> QED BY <1>1, <1>2, PTL DEF Spec

\* A request that was checked before a template, category or type was deleted
\* leaves no entry behind for it.
THEOREM EntriesBelongToTemplates == Spec => []EntryOfTicketsTemplate
  <1>1. TreeInv => EntryOfTicketsTemplate
    BY DEF TreeInv
  <1> QED BY <1>1, TreeInvariant, PTL

\* The first template is made at most once, whoever asks for it first.
THEOREM FirstTemplateOnce == Spec => []SeededOnce
  <1>1. TreeInv => SeededOnce
    BY DEF TreeInv, SeedsCounted, SeededOnce
  <1> QED BY <1>1, TreeInvariant, PTL

-----------------------------------------------------------------------------
\* Rows that were deleted stay deleted: a commit only adds rows that are new,
\* and the ticket it has found there.
THEOREM DeletedRowsStay == Spec => DeletedStaysDeleted
  <1>1. ASSUME TreeInv, [Next]_vars
        PROVE  [\A x \in born : x \notin live => x \notin live']_vars
    <2> SUFFICES ASSUME Next, NEW x \in born, x \notin live PROVE x \notin live'
      BY <1>1
    <2>1. PICK c \in Clients :
             \/ EnsureInventoryTemplate(c) \/ FetchTemplates(c)
             \/ CreateTemplate(c) \/ CreateCategory(c) \/ CreateType(c)
             \/ BeginSave(c) \/ ReadModes(c) \/ SaveTicket(c) \/ DeleteTicket(c)
             \/ BeginPatchType(c) \/ ConvertEntries(c) \/ PatchType(c)
             \/ DeleteTemplate(c) \/ DeleteCategory(c) \/ DeleteType(c)
             \/ Rollback(c)
      BY DEF Next
    <2>2. seeding[c] => x \notin Default
      BY <1>1 DEF TreeInv, SeedsCounted
    <2>3. CASE FetchTemplates(c) \/ CreateTemplate(c) \/ SaveTicket(c)
      <3>1. PICK new : Commits(c, new) /\ x \notin new
        <4>1. CASE FetchTemplates(c)
          BY <4>1 DEF FetchTemplates
        <4>2. CASE CreateTemplate(c)
          BY <4>2 DEF CreateTemplate
        <4>3. CASE SaveTicket(c)
          <5>1. Commits(c, {req[c].ticket}) /\ x \notin {req[c].ticket}
            BY <4>3 DEF SaveTicket
          <5> QED BY <5>1
        <4> QED BY <2>3, <4>1, <4>2, <4>3
      <3> QED BY <2>2, <3>1 DEF Commits
    <2>4. CASE CreateCategory(c) \/ CreateType(c)
      BY <2>4 DEF CreateCategory, CreateType
    <2>5. CASE DeleteTemplate(c) \/ DeleteCategory(c) \/ DeleteType(c)
      BY <2>5 DEF DeleteTemplate, DeleteCategory, DeleteType, DeleteRows
    <2>6. CASE DeleteTicket(c)
      BY <2>6 DEF DeleteTicket
    <2>7. CASE \/ EnsureInventoryTemplate(c) \/ BeginSave(c) \/ ReadModes(c)
               \/ BeginPatchType(c) \/ ConvertEntries(c) \/ PatchType(c) \/ Rollback(c)
      BY <2>7 DEF EnsureInventoryTemplate, BeginSave, ReadModes, BeginPatchType,
                  ConvertEntries, PatchType, Rollback, treeVars
    <2> QED BY <2>1, <2>3, <2>4, <2>5, <2>6, <2>7
  <1> QED BY <1>1, TreeInvariant, PTL DEF Spec, DeletedStaysDeleted

-----------------------------------------------------------------------------
\* An entry keeps the form of its mode while neither changes, or its type is
\* one that raced.
LEMMA SameForms ==
    ASSUME TreeInv, EntryFollowsMode, UNCHANGED entry, raced \subseteq raced',
           \A t \in live : mode'[t] = mode[t]
    PROVE  EntryFollowsMode'
  BY DEF TreeInv, EntryOfTicketsTemplate, EntryFollowsMode

\* What a request knows of a mode stays true in a step of another request, or
\* the type has raced.
LEMMA SameModes ==
    ASSUME TreeInv, NEW d \in Clients, Knows(d),
           pc'[d] = pc[d], req'[d] = req[d], held'[d] = held[d], raced \subseteq raced',
           \A t \in born : mode'[t] = mode[t] \/ t \in raced' \/ ~UsesMode(d, t),
           \A i \in Tickets, t \in Types : entry'[i][t] # "none" =>
              entry[i][t] # "none" \/ t \in raced' \/ ~IsConverting(d, t)
    PROVE  Knows(d)'
  <1>1. pc[d] = "save" => DOMAIN req[d].costs \subseteq born
    BY DEF TreeInv, RequestInv, RequestsKnown
  <1>2. pc[d] \in {"convert", "patch"} => req[d].type \in born /\ req[d].type \in Types
    BY PatchFields DEF TreeInv, RequestInv, RequestsKnown, RequestsTyped
  <1>3. pc'[d] = "save" => \A t \in DOMAIN req'[d].costs :
                 t \in raced' \/ Fits(mode'[t], req'[d].costs[t])
    <2> SUFFICES ASSUME pc[d] = "save", NEW t \in DOMAIN req[d].costs, t \notin raced'
                 PROVE  Fits(mode'[t], req[d].costs[t])
      OBVIOUS
    <2>1. UsesMode(d, t) /\ t \in born /\ t \notin raced
      BY <1>1 DEF UsesMode
    <2>2. Fits(mode[t], req[d].costs[t])
      BY <2>1 DEF Knows
    <2> QED BY <2>1, <2>2
  <1>4. pc'[d] \in {"convert", "patch"} =>
                 req'[d].type \in raced' \/ mode'[req'[d].type] = req'[d].previous
    BY <1>2 DEF Knows, UsesMode
  <1>5. pc'[d] = "patch" /\ req'[d].previous # req'[d].mode =>
                 \/ req'[d].type \in raced'
                 \/ \A i \in Tickets : entry'[i][req'[d].type] # "none" => i \in held'[d]
    BY <1>2 DEF Knows, IsConverting
  <1> QED BY <1>3, <1>4, <1>5 DEF Knows, Fits

\* A step of c that ends its request.
LEMMA EndModes ==
    ASSUME TreeInv, ModesKnown, NEW c \in Clients, End(c), raced \subseteq raced',
           \A d \in Clients \ {c} : \A t \in born :
              mode'[t] = mode[t] \/ t \in raced' \/ ~UsesMode(d, t),
           \A d \in Clients \ {c} : \A i \in Tickets, t \in Types : entry'[i][t] # "none" =>
              entry[i][t] # "none" \/ t \in raced' \/ ~IsConverting(d, t)
    PROVE  ModesKnown'
  <1>1. /\ pc'[c] = "idle"
        /\ \A d \in Clients \ {c} : pc'[d] = pc[d] /\ req'[d] = req[d] /\ held'[d] = held[d]
    BY DEF TreeInv, RequestInv, TypeOK, End, Goto
  <1>2. Knows(c)'
    BY <1>1 DEF Knows
  <1>3. \A d \in Clients \ {c} : Knows(d)'
    BY <1>1, SameModes DEF ModesKnown
  <1> QED BY <1>2, <1>3 DEF ModesKnown

\* A step of c that goes on and leaves the rows alone.
LEMMA OwnModes ==
    ASSUME TreeInv, ModesKnown, NEW c \in Clients, UNCHANGED dataVars, Knows(c)',
           \A d \in Clients \ {c} : pc'[d] = pc[d] /\ req'[d] = req[d] /\ held'[d] = held[d]
    PROVE  ModesKnown'
  <1>1. \A d \in Clients \ {c} : Knows(d)'
    BY SameModes DEF ModesKnown, dataVars
  <1> QED BY <1>1 DEF ModesKnown

\* A step between requests.
LEMMA IdleModes ==
    ASSUME TreeInv, ModesKnown, UNCHANGED <<pc, req, held, raced>>,
           \A t \in born : mode'[t] = mode[t],
           \A i \in Tickets, t \in Types : entry'[i][t] # "none" => entry[i][t] # "none"
    PROVE  ModesKnown'
  BY SameModes DEF ModesKnown

LEMMA ModesStep ==
    ASSUME TreeInv, ModesKnown, EntryFollowsMode, [Next]_vars
    PROVE  ModesKnown' /\ EntryFollowsMode'
  <1> USE TreeAssumption
  <1>s. CASE UNCHANGED vars
    BY <1>s, SameForms, IdleModes DEF vars, treeVars, dataVars
  <1>n. CASE Next
    <2> SUFFICES ASSUME NEW c \in Clients,
                        \/ EnsureInventoryTemplate(c) \/ FetchTemplates(c)
                        \/ CreateTemplate(c) \/ CreateCategory(c) \/ CreateType(c)
                        \/ BeginSave(c) \/ ReadModes(c) \/ SaveTicket(c) \/ DeleteTicket(c)
                        \/ BeginPatchType(c) \/ ConvertEntries(c) \/ PatchType(c)
                        \/ DeleteTemplate(c) \/ DeleteCategory(c) \/ DeleteType(c)
                        \/ Rollback(c)
                 PROVE ModesKnown' /\ EntryFollowsMode'
      BY <1>n DEF Next
    <2>0. /\ pc \in [Clients -> {"idle", "ready", "costs", "save", "convert", "patch"}]
          /\ DOMAIN req = Clients /\ DOMAIN held = Clients
          /\ req = [d \in Clients |-> req[d]] /\ held = [d \in Clients |-> held[d]]
      BY DEF TreeInv, RequestInv, TypeOK
    <2>1. CASE EnsureInventoryTemplate(c) \/ BeginSave(c)
      <3>1. /\ UNCHANGED dataVars /\ pc'[c] \in {"ready", "costs"}
            /\ \A d \in Clients \ {c} : pc'[d] = pc[d] /\ req'[d] = req[d] /\ held'[d] = held[d]
        BY <2>0, <2>1 DEF EnsureInventoryTemplate, BeginSave, Goto
      <3>2. Knows(c)'
        BY <3>1 DEF Knows
      <3> QED BY <3>1, <3>2, OwnModes, SameForms DEF dataVars
    <2>2. CASE FetchTemplates(c) \/ CreateTemplate(c) \/ Rollback(c)
      <3>1. UNCHANGED dataVars /\ End(c)
        BY <2>2 DEF FetchTemplates, CreateTemplate, Rollback
      <3> QED BY <3>1, EndModes, SameForms DEF dataVars
    <2>3. CASE CreateCategory(c)
      BY <2>3, IdleModes, SameForms DEF CreateCategory, dataVars
    <2>4. CASE CreateType(c)
      <3>1. PICK t \in Types \ (born \cup Default), m \in Modes : mode' = [mode EXCEPT ![t] = m]
        BY <2>4 DEF CreateType
      <3>2. UNCHANGED <<ticket, entry, raced, pc, req, held>>
        BY <2>4 DEF CreateType
      <3>3. /\ \A u \in born : mode'[u] = mode[u] /\ live \subseteq born
        BY <3>1 DEF TreeInv, RequestInv, TypeOK
      <3> QED BY <3>2, <3>3, IdleModes, SameForms DEF TreeInv, RequestInv, TypeOK
    <2>5. CASE ReadModes(c)
      <3>1. /\ UNCHANGED dataVars /\ pc'[c] = "save" /\ pc[c] = "costs"
            /\ \A d \in Clients \ {c} : pc'[d] = pc[d] /\ req'[d] = req[d] /\ held'[d] = held[d]
            /\ req'[c] = [req[c] EXCEPT !.costs =
                             [t \in DOMAIN req[c].costs |-> Shape(mode[t], req[c].costs[t])]]
        BY <2>0, <2>5 DEF ReadModes, Goto
      <3>2. req[c] \in SaveRequests /\ DOMAIN req[c].costs \subseteq Types
        BY <3>1, SaveFields DEF TreeInv, RequestInv, RequestsTyped
      <3>3. req'[c].costs = [t \in DOMAIN req[c].costs |-> Shape(mode[t], req[c].costs[t])]
        BY <3>1, <3>2 DEF SaveRequests
      <3>4. \A t \in DOMAIN req'[c].costs : Fits(mode'[t], req'[c].costs[t])
        <4> SUFFICES ASSUME NEW t \in DOMAIN req[c].costs
                     PROVE  Fits(mode[t], Shape(mode[t], req[c].costs[t]))
          BY <3>1, <3>3 DEF dataVars
        <4>1. mode[t] \in Modes
          BY <3>2 DEF TreeInv, RequestInv, TypeOK
        <4> QED BY <4>1, ShapeFits
      <3>5. Knows(c)'
        BY <3>1, <3>4 DEF Knows, Fits
      <3> QED BY <3>1, <3>5, OwnModes, SameForms DEF dataVars
    <2>6. CASE SaveTicket(c)
      <3> DEFINE i == req[c].ticket
      <3>1. /\ pc[c] = "save" /\ End(c) /\ mode' = mode /\ raced \subseteq raced'
            /\ \A d \in Clients \ {c} : \A t \in DOMAIN req[c].costs :
                  IsConverting(d, t) => t \in raced'
            /\ entry' = [entry EXCEPT ![i] = Entries(c)]
        BY <2>6 DEF SaveTicket
      <3>2. \A j \in Tickets, t \in Types : entry'[j][t] # "none" =>
               \/ entry[j][t] = entry'[j][t]
               \/ t \in DOMAIN req[c].costs /\ entry'[j][t] = req[c].costs[t]
        BY <3>1 DEF Entries, TreeInv, RequestInv, TypeOK
      <3>3. ModesKnown'
        BY <3>1, <3>2, EndModes
      <3>4. EntryFollowsMode'
        <4> SUFFICES ASSUME NEW j \in Tickets, NEW t \in live' \cap Types, t \notin raced'
                     PROVE  Fits(mode'[t], entry'[j][t])
          BY DEF EntryFollowsMode, Fits
        <4>1. CASE entry'[j][t] = "none"
          BY <4>1 DEF Fits
        <4>2. CASE entry'[j][t] # "none" /\ entry[j][t] = entry'[j][t]
          <5>1. t \in live
            BY <4>2 DEF TreeInv, EntryOfTicketsTemplate
          <5> QED BY <3>1, <4>2, <5>1 DEF EntryFollowsMode, Fits
        <4>3. CASE t \in DOMAIN req[c].costs /\ entry'[j][t] = req[c].costs[t]
          BY <3>1, <4>3 DEF ModesKnown, Knows
        <4> QED BY <3>2, <4>1, <4>2, <4>3
      <3> QED BY <3>3, <3>4
    <2>7. CASE DeleteTicket(c)
      <3>1. /\ UNCHANGED <<pc, req, held, raced, mode>> /\ live' \subseteq live
            /\ \A i \in Tickets, t \in Types : entry'[i][t] \in {"none", entry[i][t]}
        BY <2>7 DEF DeleteTicket, TreeInv, RequestInv, TypeOK
      <3> QED BY <3>1, IdleModes DEF EntryFollowsMode
    <2>8. CASE BeginPatchType(c)
      <3>1. PICK t \in live \cap Types, m \in Modes :
               req' = [req EXCEPT ![c] = [op |-> "patch", type |-> t,
                                          previous |-> mode[t], mode |-> m]]
        BY <2>8 DEF BeginPatchType
      <3>2. /\ UNCHANGED dataVars /\ pc'[c] = "convert"
            /\ \A d \in Clients \ {c} : pc'[d] = pc[d] /\ req'[d] = req[d] /\ held'[d] = held[d]
            /\ req'[c].type = t /\ req'[c].previous = mode[t]
        BY <2>0, <2>8, <3>1 DEF BeginPatchType, Goto
      <3>3. Knows(c)'
        BY <3>2 DEF Knows, dataVars
      <3> QED BY <3>2, <3>3, OwnModes, SameForms DEF dataVars
    <2>9. CASE ConvertEntries(c)
      <3>1. /\ UNCHANGED dataVars /\ pc'[c] = "patch" /\ pc[c] = "convert" /\ req' = req
            /\ \A d \in Clients \ {c} : pc'[d] = pc[d] /\ req'[d] = req[d] /\ held'[d] = held[d]
            /\ req[c].previous # req[c].mode =>
                  held'[c] = {i \in Tickets : entry[i][req[c].type] # "none"}
        BY <2>0, <2>9 DEF ConvertEntries, Goto
      <3>2. Knows(c)'
        BY <3>1 DEF Knows, ModesKnown, dataVars
      <3> QED BY <3>1, <3>2, OwnModes, SameForms DEF dataVars
    <2>10. CASE PatchType(c)
      <3> DEFINE t == req[c].type
                 m == req[c].mode
      <3>1. /\ pc[c] = "patch" /\ End(c) /\ live' = live
            /\ entry' = [i \in Tickets |-> IF i \in held[c]
                            THEN [entry[i] EXCEPT ![t] = Converted(m, @)] ELSE entry[i]]
            /\ mode' = IF t \in live THEN [mode EXCEPT ![t] = m] ELSE mode
            /\ raced \subseteq raced'
            /\ mode'[t] # mode[t] => \A d \in Clients \ {c} : UsesMode(d, t) => t \in raced'
        BY <2>10 DEF PatchType, treeVars
      <3>2. t \in Types /\ m \in Modes /\ req[c].previous \in Modes
        BY <3>1, PatchFields DEF TreeInv, RequestInv, RequestsTyped
      <3>3. \A i \in Tickets, u \in Types : u # t => entry'[i][u] = entry[i][u] /\ mode'[u] = mode[u]
        BY <3>1, <3>2 DEF TreeInv, RequestInv, TypeOK
      <3>4. \A i \in Tickets :
               entry'[i][t] = IF i \in held[c] THEN Converted(m, entry[i][t]) ELSE entry[i][t]
        BY <3>1, <3>2 DEF TreeInv, RequestInv, TypeOK
      <3>5. \A i \in Tickets : entry[i][t] \in Shapes
        BY <3>2 DEF TreeInv, RequestInv, TypeOK
      <3>6. \A i \in Tickets, u \in Types : entry'[i][u] # "none" => entry[i][u] # "none"
        BY <3>2, <3>3, <3>4, <3>5, ConvertedFits
      <3>7. \A u \in born : u # t => mode'[u] = mode[u]
        BY <3>1 DEF TreeInv, RequestInv, TypeOK
      <3>8. ModesKnown'
        BY <3>1, <3>6, <3>7, EndModes
      <3>9. EntryFollowsMode'
        <4> SUFFICES ASSUME NEW i \in Tickets, NEW u \in live' \cap Types, u \notin raced'
                     PROVE  Fits(mode'[u], entry'[i][u])
          BY DEF EntryFollowsMode, Fits
        <4>1. Fits(mode[u], entry[i][u])
          BY <3>1 DEF EntryFollowsMode, Fits
        <4>2. CASE u # t
          BY <3>3, <4>1, <4>2
        <4>3. CASE u = t /\ req[c].previous = m
          <5>1. mode[t] = m /\ held[c] = {}
            BY <3>1, <4>3 DEF TreeInv, RequestInv, HeldByPatch, ModesKnown, Knows
          <5>2. mode'[t] = m
            BY <3>1, <3>2, <4>3, <5>1 DEF TreeInv, RequestInv, TypeOK
          <5> QED BY <3>4, <4>1, <4>3, <5>1, <5>2
        <4>4. CASE u = t /\ req[c].previous # m
          <5>1. mode[t] = req[c].previous /\ (entry[i][t] # "none" => i \in held[c])
            BY <3>1, <4>4 DEF ModesKnown, Knows
          <5>2. mode'[t] = m
            BY <3>1, <3>2, <4>4 DEF TreeInv, RequestInv, TypeOK
          <5>3. CASE entry[i][t] = "none"
            BY <3>4, <3>5, <4>4, <5>3, <3>2, ConvertedFits DEF Fits
          <5>4. CASE entry[i][t] # "none"
            BY <3>2, <3>4, <3>5, <4>1, <4>4, <5>1, <5>2, <5>4, ConvertedFits
          <5> QED BY <5>3, <5>4
        <4> QED BY <4>2, <4>3, <4>4
      <3> QED BY <3>8, <3>9
    <2>11. CASE DeleteTemplate(c) \/ DeleteCategory(c) \/ DeleteType(c)
      <3>1. PICK x : DeleteRows(c, x)
        BY <2>11 DEF DeleteTemplate, DeleteCategory, DeleteType
      <3>2. /\ UNCHANGED <<pc, req, held, raced, mode>> /\ live' \subseteq live
            /\ \A i \in Tickets, t \in Types : entry'[i][t] \in {"none", entry[i][t]}
        BY <3>1 DEF DeleteRows, TreeInv, RequestInv, TypeOK
      <3> QED BY <3>2, IdleModes DEF EntryFollowsMode
    <2> QED BY <2>1, <2>2, <2>3, <2>4, <2>5, <2>6, <2>7, <2>8, <2>9, <2>10, <2>11
  <1> QED BY <1>s, <1>n

\* The invariant about the modes holds in every state: what a request that is
\* converting entries holds is what it found under the mode it read.
THEOREM ModeInvariant == Spec => []ModeInv
  <1>1. Init => ModesKnown /\ EntryFollowsMode
    BY DEF Init, ModesKnown, Knows, EntryFollowsMode
  <1>2. TreeInv /\ ModesKnown /\ EntryFollowsMode /\ [Next]_vars => ModesKnown' /\ EntryFollowsMode'
    BY ModesStep
  <1> QED BY <1>1, <1>2, TreeInvariant, PTL DEF Spec, ModeInv

\* An entry has the form of its type's mode unless the mode was changed while
\* another request had already read it: that is the only way to part them.
THEOREM EntriesFollowModes == Spec => []EntryFollowsMode
  <1>1. ModeInv => EntryFollowsMode
    BY DEF ModeInv
  <1> QED BY <1>1, ModeInvariant, PTL
=============================================================================
