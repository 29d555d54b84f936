---------------------------- MODULE ServicesProofs ----------------------------
(****************************************************************************)
(* What the services owe, for any number of requests at once, any crashes   *)
(* and every size of the tables.                                            *)
(*                                                                          *)
(* Each part has an inductive invariant of its own: what a handler that is  *)
(* under way has established, and what follows from it while requests wait  *)
(* for each other (OneRequest).  ServicesInv puts them together: the part   *)
(* in focus keeps its invariant, every other part its initial state.        *)
(****************************************************************************)
EXTENDS MCServices, RiderWalletProofs, FiniteSetTheorems

--------------------------------------------------------------------------------
(* Requests.                                                                *)

\* Requests that wait for each other are served one at a time.
OneRequest ==
    serial => \A v, w \in Slots : call[v] # Idle /\ call[w] # Idle => v = w

\* A handler starts or goes on, the others stay where they are; in a serial world
\* there are no others.
LEMMA HandlerMoves ==
    ASSUME NEW C, call \in [Slots -> C], OneRequest,
           NEW w \in Slots, NEW c \in C, MayStart(w) \/ call[w] # Idle, Continue(w, c)
    PROVE  /\ call' \in [Slots -> C]
           /\ OneRequest'
           /\ world' = world
           /\ call'[w] = c
           /\ \A v \in Slots \ {w} : call'[v] = call[v]
           /\ serial => \A v \in Slots \ {w} : call[v] = Idle
           /\ MayStart(w) /\ serial => \A v \in Slots : call[v] = Idle
  <1>1. /\ call' \in [Slots -> C]
        /\ world' = world
        /\ call'[w] = c
        /\ \A v \in Slots \ {w} : call'[v] = call[v]
    BY DEF Continue
  <1>2. MayStart(w) /\ serial => \A v \in Slots : call[v] = Idle
    BY DEF MayStart, AtRest
  <1>3. serial => \A v \in Slots \ {w} : call[v] = Idle
    BY <1>2 DEF OneRequest
  <1>4. OneRequest'
    <2> SUFFICES ASSUME serial', NEW u \in Slots, NEW v \in Slots, call'[u] # Idle, call'[v] # Idle
                 PROVE  u = v
      BY DEF OneRequest
    <2>1. serial
      BY <1>1 DEF serial
    <2> QED
      BY <1>1, <1>3, <2>1
  <1> QED
    BY <1>1, <1>2, <1>3, <1>4

\* Whoever crashes was under way, outside calm worlds.
LEMMA CrashMoves ==
    ASSUME NEW w, Crash(w)
    PROVE  ~ calm /\ call[w] # Idle /\ Continue(w, Idle)
  BY DEF Crash, Finish

--------------------------------------------------------------------------------
(* Files.                                                                   *)

FilesInv ==
    /\ FilesTypeOK
    /\ call \in [Slots -> {Idle} \cup FileCalls]
    /\ OneRequest
    /\ RowHasObject
    /\ \A w \in Slots : call[w].op = "row" => call[w].key \in object

LEMMA FilesInvInit == RequestsInit /\ FilesInit => FilesInv
  BY DEF RequestsInit, FilesInit, FilesInv, FilesTypeOK, RowHasObject, OneRequest, Idle

LEMMA FilesInvStep == FilesInv /\ FilesNext => FilesInv'
  <1> SUFFICES ASSUME FilesInv, FilesNext
               PROVE  FilesInv'
    OBVIOUS
  <1> DEFINE C == {Idle} \cup FileCalls
  <1>1. PICK w \in Slots :
           \/ Upload(w) \/ PutObject(w) \/ SaveFile(w)
           \/ Crash(w) /\ UNCHANGED fileVars
    BY DEF FilesNext
  <1>2. ASSUME NEW c \in C, Continue(w, c), MayStart(w) \/ call[w] # Idle,
               FilesTypeOK', RowHasObject', object \subseteq object',
               c.op = "row" => c.key \in object'
        PROVE  FilesInv'
    <2> HIDE DEF C
    <2>1. call \in [Slots -> C] /\ OneRequest
      BY DEF FilesInv, C
    <2>2. /\ call' \in [Slots -> C]
          /\ OneRequest'
          /\ call'[w] = c
          /\ \A v \in Slots \ {w} : call'[v] = call[v]
      BY <1>2, <2>1, HandlerMoves
    <2>3. \A v \in Slots : call'[v].op = "row" => call'[v].key \in object'
      BY <1>2, <2>2 DEF FilesInv
    <2> QED
      BY <1>2, <2>2, <2>3 DEF FilesInv, C
  <1>3. CASE Upload(w)
    <2>1. PICK k \in Keys : Continue(w, [op |-> "put", key |-> k])
      BY <1>3 DEF Upload
    <2>2. [op |-> "put", key |-> k] \in C
      BY DEF FileCalls
    <2> QED
      BY <1>2, <1>3, <2>1, <2>2 DEF Upload, fileVars, FilesInv, FilesTypeOK, RowHasObject
  <1>4. CASE PutObject(w)
    <2>1. call[w] \in FileCalls /\ call[w] # Idle
      BY <1>4 DEF PutObject, FilesInv, Idle
    <2>2. [call[w] EXCEPT !.op = "row"] \in C
      BY <2>1 DEF FileCalls
    <2> QED
      BY <1>2, <1>4, <2>1, <2>2 DEF PutObject, FilesInv, FilesTypeOK, RowHasObject, FileCalls
  <1>5. CASE SaveFile(w)
    <2>1. call[w] \in FileCalls /\ call[w] # Idle
      BY <1>5 DEF SaveFile, FilesInv, Idle
    <2> QED
      BY <1>2, <1>5, <2>1
      DEF SaveFile, Finish, Idle, FilesInv, FilesTypeOK, RowHasObject, FileCalls
  <1>6. CASE Crash(w) /\ UNCHANGED fileVars
    BY <1>2, <1>6, CrashMoves DEF Idle, fileVars, FilesInv, FilesTypeOK, RowHasObject
  <1> QED
    BY <1>1, <1>3, <1>4, <1>5, <1>6
--------------------------------------------------------------------------------
(* Catalogue.                                                               *)

\* Between the two writes of a request nobody disturbs, its price is in the row and
\* not yet in the history.
CatalogueInv ==
    /\ CatalogueTypeOK
    /\ call \in [Slots -> {Idle} \cup CatalogueCalls]
    /\ OneRequest
    /\ calm => /\ \A w \in Slots : call[w].op = "history" => call[w].price = price
               /\ \/ \E w \in Slots : call[w].op = "history"
                  \/ lastEntry = price

LEMMA CatalogueInvInit == RequestsInit /\ CatalogueInit => CatalogueInv
  BY DEF RequestsInit, CatalogueInit, CatalogueInv, CatalogueTypeOK, OneRequest, Idle

LEMMA CatalogueInvStep == CatalogueInv /\ CatalogueNext => CatalogueInv'
  <1> SUFFICES ASSUME CatalogueInv, CatalogueNext
               PROVE  CatalogueInv'
    OBVIOUS
  <1> DEFINE C == {Idle} \cup CatalogueCalls
  <1>1. PICK w \in Slots :
           \/ \E p \in Prices : SetPricing(w, p)
           \/ PricingUpdate(w) \/ PricingInsert(w) \/ PricingHistory(w)
           \/ Crash(w) /\ UNCHANGED catalogueVars
    BY DEF CatalogueNext
  <1>2. ASSUME NEW c \in C, Continue(w, c), MayStart(w) \/ call[w] # Idle,
               CatalogueTypeOK',
               calm => IF c.op = "history" THEN c.price = price' ELSE lastEntry' = price'
        PROVE  CatalogueInv'
    <2> HIDE DEF C
    <2>1. call \in [Slots -> C] /\ OneRequest
      BY DEF CatalogueInv, C
    <2>2. /\ call' \in [Slots -> C]
          /\ OneRequest'
          /\ call'[w] = c
          /\ world' = world
          /\ \A v \in Slots \ {w} : call'[v] = call[v]
          /\ serial => \A v \in Slots \ {w} : call[v] = Idle
      BY <1>2, <2>1, HandlerMoves
    <2>3. calm => serial /\ \A v \in Slots \ {w} : call'[v] = Idle
      BY <2>2 DEF calm, serial
    <2>4. calm' => /\ \A v \in Slots : call'[v].op = "history" => call'[v].price = price'
                   /\ \/ \E v \in Slots : call'[v].op = "history"
                      \/ lastEntry' = price'
      BY <1>2, <2>2, <2>3 DEF calm, Idle
    <2> QED
      BY <1>2, <2>2, <2>4 DEF CatalogueInv, C
  <1>3. ASSUME NEW p \in Prices, SetPricing(w, p)
        PROVE  CatalogueInv'
    <2> DEFINE c == [op |-> IF price = NoPrice THEN "stock" ELSE "reprice", price |-> p]
    <2>1. c \in C /\ c.op # "history"
      BY DEF CatalogueCalls
    <2>2. calm => serial /\ AtRest
      BY <1>3 DEF SetPricing, MayStart, calm, serial
    <2> QED
      BY <1>2, <1>3, <2>1, <2>2
      DEF SetPricing, catalogueVars, CatalogueInv, CatalogueTypeOK, AtRest, Idle
  <1>4. CASE call[w] # Idle
    <2>1. call[w] \in CatalogueCalls
      BY <1>4 DEF CatalogueInv
    <2>2. calm => serial /\ \A v \in Slots \ {w} : call[v] = Idle
      BY <1>4 DEF CatalogueInv, OneRequest, calm, serial
    <2>3. calm /\ call[w].op # "history" => lastEntry = price
      BY <2>2 DEF CatalogueInv, Idle
    <2>4. CASE PricingUpdate(w)
      <3>1. [call[w] EXCEPT !.op = "history"] \in C
        BY <2>1 DEF CatalogueCalls
      <3> QED
        BY <1>2, <1>4, <2>1, <2>4, <3>1
        DEF PricingUpdate, CatalogueInv, CatalogueTypeOK, CatalogueCalls
    <2>5. CASE PricingInsert(w)
      <3>1. [call[w] EXCEPT !.op = "history"] \in C
        BY <2>1 DEF CatalogueCalls
      <3>2. CASE price # NoPrice
        BY <1>2, <1>4, <2>3, <2>5, <3>2
        DEF PricingInsert, Finish, Idle, CatalogueInv, CatalogueTypeOK
      <3>3. CASE price = NoPrice
        BY <1>2, <1>4, <2>1, <2>5, <3>1, <3>3
        DEF PricingInsert, CatalogueInv, CatalogueTypeOK, CatalogueCalls
      <3> QED
        BY <3>2, <3>3
    <2>6. CASE PricingHistory(w)
      BY <1>2, <1>4, <2>1, <2>6
      DEF PricingHistory, Finish, Idle, CatalogueInv, CatalogueTypeOK, CatalogueCalls
    <2>7. CASE Crash(w) /\ UNCHANGED catalogueVars
      BY <1>2, <1>4, <2>7, CrashMoves
      DEF Idle, catalogueVars, CatalogueInv, CatalogueTypeOK
    <2>8. CASE \E p \in Prices : SetPricing(w, p)
      BY <1>3, <2>8
    <2> QED
      BY <1>1, <2>4, <2>5, <2>6, <2>7, <2>8
  <1>5. CASE call[w] = Idle
    BY <1>1, <1>3, <1>5
    DEF PricingUpdate, PricingInsert, PricingHistory, Crash, Idle
  <1> QED
    BY <1>4, <1>5

LEMMA CataloguePromises == CatalogueInv => CalmPriceIsRecorded
  BY DEF CatalogueInv, CalmPriceIsRecorded, AtRest, Idle

--------------------------------------------------------------------------------
(* Commission.                                                              *)

\* A request that is going to insert a rule has left none active in its scope.
\* While nobody races or fails, what the admin was told is an active rule of the
\* scope, unless the next one is on its way.
CommissionInv ==
    /\ CommissionTypeOK
    /\ call \in [Slots -> {Idle} \cup CommissionCalls]
    /\ OneRequest
    /\ serial =>
          /\ \A s \in Scopes : \A q, r \in ActiveRules(s) : q = r
          /\ \A w \in Slots : call[w].op = "commission" => ActiveRules(call[w].stationId) = {}
    /\ calm =>
          \A s \in Scopes : agreed[s] # NoPercent =>
             \/ \E w \in Slots : call[w].op = "commission" /\ call[w].stationId = s
             \/ \E r \in ActiveRules(s) : rule[r].commissionPercent = agreed[s]

LEMMA CommissionInvInit == RequestsInit /\ CommissionInit => CommissionInv
  BY DEF RequestsInit, CommissionInit, CommissionInv, CommissionTypeOK, OneRequest, Idle,
         ActiveRules, NoRule

\* Switching off the rules of a scope.
LEMMA SetCommissionKeeps ==
    ASSUME CommissionInv, NEW w \in Slots, NEW s \in Scopes, NEW percent \in Percents,
           SetCommission(w, s, percent)
    PROVE  CommissionInv'
  <1> DEFINE C == {Idle} \cup CommissionCalls
             c == [op |-> "commission", stationId |-> s, commissionPercent |-> percent]
  <1>1. c \in C /\ call \in [Slots -> C] /\ OneRequest /\ Continue(w, c) /\ MayStart(w)
    BY DEF CommissionCalls, CommissionInv, SetCommission
  <1>2. /\ call' \in [Slots -> C]
        /\ OneRequest'
        /\ call'[w] = c
        /\ world' = world
        /\ serial => \A v \in Slots \ {w} : call'[v] = Idle
        /\ serial => \A v \in Slots : call[v] = Idle
    <2> HIDE DEF C, c
    <2> QED
      BY <1>1, HandlerMoves
  <1>3. ASSUME NEW r \in Rules
        PROVE  /\ r \in ActiveRules(s) => rule[r] \in PlatformCommission
               /\ rule'[r] = IF r \in ActiveRules(s) THEN [rule[r] EXCEPT !.isActive = FALSE]
                                                     ELSE rule[r]
    BY DEF CommissionInv, CommissionTypeOK, ActiveRules, NoRule, SetCommission, Replaced
  <1>4. CommissionTypeOK'
    <2>1. ASSUME NEW r \in Rules
          PROVE  rule'[r] \in {NoRule} \cup PlatformCommission
      <3>1. CASE r \in ActiveRules(s)
        BY <1>3, <3>1 DEF PlatformCommission
      <3>2. CASE r \notin ActiveRules(s)
        BY <1>3, <3>2 DEF CommissionInv, CommissionTypeOK
      <3> QED
        BY <3>1, <3>2
    <2> QED
      BY <2>1 DEF SetCommission, CommissionInv, CommissionTypeOK
  <1>5. ActiveRules(s)' = {}
    BY <1>3 DEF ActiveRules, PlatformCommission
  <1>6. ASSUME NEW z \in Scopes, z # s
        PROVE  /\ ActiveRules(z)' = ActiveRules(z)
               /\ \A r \in ActiveRules(z) : rule'[r] = rule[r]
    BY <1>3, <1>6 DEF ActiveRules, PlatformCommission
  <1>7. agreed' = agreed
    BY DEF SetCommission
  <1>8. serial' =>
          /\ \A z \in Scopes : \A q, r \in ActiveRules(z)' : q = r
          /\ \A v \in Slots : call'[v].op = "commission" => ActiveRules(call[v].stationId)' = {}
    <2> SUFFICES ASSUME serial'
                 PROVE  /\ \A z \in Scopes : \A q, r \in ActiveRules(z)' : q = r
                        /\ \A v \in Slots : call'[v].op = "commission" =>
                                               ActiveRules(call[v].stationId)' = {}
      OBVIOUS
    <2>1. serial
      BY <1>2 DEF serial
    <2>2. \A z \in Scopes : \A q, r \in ActiveRules(z)' : q = r
      BY <1>5, <1>6, <2>1 DEF CommissionInv
    <2>3. \A v \in Slots : call'[v].op = "commission" => ActiveRules(call[v].stationId)' = {}
      <3>1. \A r \in Rules : ~ (rule'[r].isActive /\ rule'[r].stationId = s)
        BY <1>5 DEF ActiveRules
      <3> QED
        BY <1>2, <2>1, <3>1 DEF Idle, ActiveRules
    <2> QED
      BY <2>2, <2>3
  <1>9. calm' =>
          \A z \in Scopes : agreed'[z] # NoPercent =>
             \/ \E v \in Slots : call'[v].op = "commission" /\ call'[v].stationId = z
             \/ \E r \in ActiveRules(z)' : rule'[r].commissionPercent = agreed'[z]
    <2> SUFFICES ASSUME calm', NEW z \in Scopes, agreed'[z] # NoPercent, z # s
                 PROVE  \E r \in ActiveRules(z)' : rule'[r].commissionPercent = agreed'[z]
      BY <1>2
    <2>1. calm /\ serial
      BY <1>2 DEF calm, serial
    <2>2. \E r \in ActiveRules(z) : rule[r].commissionPercent = agreed[z]
      BY <1>2, <1>7, <2>1 DEF CommissionInv, Idle
    <2> QED
      BY <1>6, <1>7, <2>2
  <1> QED
    BY <1>2, <1>4, <1>8, <1>9 DEF CommissionInv

\* Inserting the new rule of a scope.
LEMMA CommissionSaveKeeps ==
    ASSUME CommissionInv, NEW w \in Slots, CommissionSave(w)
    PROVE  CommissionInv'
  <1> DEFINE C == {Idle} \cup CommissionCalls
  <1>1. call[w] # Idle /\ call[w] \in CommissionCalls /\ call[w].op = "commission"
    BY DEF CommissionSave, CommissionInv, Idle
  <1>2. PICK s \in Scopes, percent \in Percents :
           call[w].stationId = s /\ call[w].commissionPercent = percent
    BY <1>1 DEF CommissionCalls
  <1>3. /\ call' \in [Slots -> C]
        /\ OneRequest'
        /\ call'[w] = Idle
        /\ world' = world
        /\ serial => \A v \in Slots \ {w} : call'[v] = Idle /\ call[v] = Idle
    <2>1. Idle \in C /\ call \in [Slots -> C] /\ OneRequest /\ Continue(w, Idle)
      BY DEF CommissionInv, CommissionSave, Finish
    <2> HIDE DEF C
    <2> QED
      BY <1>1, <2>1, HandlerMoves
  <1>4. PICK n \in Rules :
           /\ rule[n] = NoRule
           /\ rule' = [rule EXCEPT ![n] =
                  [stationId |-> s, commissionPercent |-> percent, isActive |-> TRUE]]
    <2>1. \E r \in Rules :
             /\ \A q \in Rules : rule[q] = NoRule <=> q >= r
             /\ rule' = [rule EXCEPT ![r] =
                    [stationId |-> s, commissionPercent |-> percent, isActive |-> TRUE]]
      BY <1>2 DEF CommissionSave
    <2>2. \A r \in Rules : r >= r
      BY DEF Rules
    <2> QED
      BY <2>1, <2>2
  <1>5. agreed' = [agreed EXCEPT ![s] = percent]
    BY <1>2 DEF CommissionSave
  <1>6. CommissionTypeOK'
    BY <1>2, <1>4, <1>5 DEF CommissionInv, CommissionTypeOK, PlatformCommission
  <1>7. /\ ActiveRules(s)' = ActiveRules(s) \cup {n}
        /\ n \notin ActiveRules(s)
        /\ rule'[n].commissionPercent = percent
    <2>1. \A r \in Rules :
             rule'[r] = IF r = n THEN [stationId |-> s, commissionPercent |-> percent, isActive |-> TRUE]
                                 ELSE rule[r]
      BY <1>4 DEF CommissionInv, CommissionTypeOK
    <2>2. ~ rule[n].isActive /\ n \in Rules
      BY <1>4 DEF NoRule
    <2> QED
      BY <2>1, <2>2 DEF ActiveRules
  <1>8. ASSUME NEW z \in Scopes, z # s
        PROVE  /\ ActiveRules(z)' = ActiveRules(z)
               /\ \A r \in ActiveRules(z) : rule'[r] = rule[r]
    <2>1. \A r \in Rules :
             rule'[r] = IF r = n THEN [stationId |-> s, commissionPercent |-> percent, isActive |-> TRUE]
                                 ELSE rule[r]
      BY <1>4 DEF CommissionInv, CommissionTypeOK
    <2>2. ~ rule[n].isActive /\ n \in Rules
      BY <1>4 DEF NoRule
    <2> QED
      BY <1>8, <2>1, <2>2 DEF ActiveRules
  <1>9. serial' => \A z \in Scopes : \A q, r \in ActiveRules(z)' : q = r
    <2> SUFFICES ASSUME serial', NEW z \in Scopes
                 PROVE  \A q, r \in ActiveRules(z)' : q = r
      OBVIOUS
    <2>1. serial
      BY <1>3 DEF serial
    <2>2. CASE z = s
      <3>1. ActiveRules(s) = {}
        BY <1>1, <1>2, <2>1 DEF CommissionInv
      <3>2. \A q, r \in ActiveRules(s)' : q = r
        BY <1>7, <3>1
      <3> QED
        BY <2>2, <3>2 DEF ActiveRules
    <2>3. CASE z # s
      BY <1>8, <2>1, <2>3 DEF CommissionInv
    <2> QED
      BY <2>2, <2>3
  <1>10. calm' =>
           \A z \in Scopes : agreed'[z] # NoPercent =>
              \E r \in ActiveRules(z)' : rule'[r].commissionPercent = agreed'[z]
    <2> SUFFICES ASSUME calm', NEW z \in Scopes, agreed'[z] # NoPercent
                 PROVE  \E r \in ActiveRules(z)' : rule'[r].commissionPercent = agreed'[z]
      OBVIOUS
    <2>1. calm /\ serial
      BY <1>3 DEF calm, serial
    <2>2. CASE z = s
      <3>1. agreed'[s] = percent
        BY <1>2, <1>5 DEF CommissionInv, CommissionTypeOK
      <3>2. \E r \in ActiveRules(s)' : rule'[r].commissionPercent = agreed'[s]
        BY <1>7, <3>1
      <3> QED
        BY <2>2, <3>2 DEF ActiveRules
    <2>3. CASE z # s
      <3>1. agreed'[z] = agreed[z]
        BY <1>5, <2>3 DEF CommissionInv, CommissionTypeOK
      <3>2. \A v \in Slots : call[v].op = "commission" => v = w
        BY <1>3, <2>1 DEF Idle
      <3>3. \E r \in ActiveRules(z) : rule[r].commissionPercent = agreed[z]
        BY <1>2, <2>1, <2>3, <3>1, <3>2 DEF CommissionInv
      <3> QED
        BY <1>8, <2>3, <3>1, <3>3
    <2> QED
      BY <2>2, <2>3
  <1>11. serial' => \A v \in Slots : call'[v].op # "commission"
    BY <1>3 DEF serial, Idle
  <1> QED
    BY <1>3, <1>6, <1>9, <1>10, <1>11 DEF CommissionInv

LEMMA CommissionInvStep == CommissionInv /\ CommissionNext => CommissionInv'
  <1> SUFFICES ASSUME CommissionInv, CommissionNext
               PROVE  CommissionInv'
    OBVIOUS
  <1>1. PICK w \in Slots :
           \/ \E s \in Scopes, percent \in Percents : SetCommission(w, s, percent)
           \/ CommissionSave(w)
           \/ Crash(w) /\ UNCHANGED commissionVars
    BY DEF CommissionNext
  <1>2. CASE Crash(w) /\ UNCHANGED commissionVars
    <2> DEFINE C == {Idle} \cup CommissionCalls
    <2>1. call \in [Slots -> C] /\ Idle \in C /\ OneRequest
      BY DEF CommissionInv
    <2>2. /\ call' \in [Slots -> C]
          /\ OneRequest'
          /\ call'[w] = Idle
          /\ world' = world
          /\ ~ calm
          /\ \A v \in Slots \ {w} : call'[v] = call[v]
      <3> HIDE DEF C
      <3> QED
        BY <1>2, <2>1, HandlerMoves, CrashMoves
    <2>3. serial' =>
            /\ \A z \in Scopes : \A q, r \in ActiveRules(z)' : q = r
            /\ \A v \in Slots : call'[v].op = "commission" => ActiveRules(call[v].stationId)' = {}
      <3>1. ASSUME NEW v \in Slots, call'[v].op = "commission"
            PROVE  call'[v] = call[v]
        BY <2>2, <3>1 DEF Idle
      <3> QED
        BY <1>2, <2>2, <3>1
        DEF CommissionInv, ActiveRules, commissionVars, serial
    <2> QED
      BY <1>2, <2>2, <2>3 DEF CommissionInv, CommissionTypeOK, commissionVars, calm
  <1> QED
    BY <1>1, <1>2, SetCommissionKeeps, CommissionSaveKeeps

\* A scope without two active rules counts at most one, and a settlement finds what
\* the only one says.
LEMMA CommissionPromises == CommissionInv => SerialOneRule /\ CalmRuleStands
  <1> SUFFICES ASSUME CommissionInv
               PROVE  SerialOneRule /\ CalmRuleStands
    OBVIOUS
  <1>1. ASSUME serial, NEW s \in Scopes
        PROVE  Cardinality(ActiveRules(s)) <= 1
    <2>1. \A q, r \in ActiveRules(s) : q = r
      BY <1>1 DEF CommissionInv
    <2>2. CASE ActiveRules(s) = {}
      BY <2>2, FS_EmptySet
    <2>3. CASE \E r : ActiveRules(s) = {r}
      BY <2>3, FS_Singleton
    <2> QED
      BY <2>1, <2>2, <2>3
  <1>2. ASSUME calm, AtRest, NEW s \in Scopes \ {Platform}, agreed[s] # NoPercent
        PROVE  Found(s) = {agreed[s]}
    <2>1. PICK r \in ActiveRules(s) : rule[r].commissionPercent = agreed[s]
      BY <1>2 DEF CommissionInv, AtRest, Idle
    <2>2. serial
      BY <1>2 DEF calm, serial
    <2>3. ActiveRules(s) = {r}
      BY <2>1, <2>2 DEF CommissionInv
    <2> QED
      BY <2>1, <2>3 DEF Found
  <1> QED
    BY <1>1, <1>2 DEF SerialOneRule, CalmRuleStands

--------------------------------------------------------------------------------
(* Stations.                                                                *)

\* Stations are numbered from 1 without a gap, and a registration that has drawn a
\* code has seen all smaller ones; while nobody races, the code it has drawn stays
\* free and the strikes it has read stay what they are.
StationsInv ==
    /\ StationsTypeOK
    /\ call \in [Slots -> {Idle} \cup StationCalls]
    /\ OneRequest
    /\ \E n \in 0 .. NumStations : Known = 1 .. n
    /\ \A s \in Stations \ Known : reported[s] = 0
    /\ \A w \in Slots :
          /\ call[w].op = "saveStation" => call[w].code \in Stations /\ 1 .. (call[w].code - 1) \subseteq Known
          /\ call[w].op = "strike" => call[w].station \in Known /\ call[w].read < MaxStrikes
    /\ serial =>
          /\ \A w \in Slots :
                /\ call[w].op = "saveStation" => call[w].code \notin Known
                /\ call[w].op = "strike" =>
                      call[w].read = station[call[w].station].falseAvailabilityStrikes
          /\ \A s \in Known : station[s].falseAvailabilityStrikes = reported[s]

LEMMA StationsInvInit == RequestsInit /\ StationsInit => StationsInv
  <1> SUFFICES ASSUME RequestsInit, StationsInit
               PROVE  StationsInv
    OBVIOUS
  <1> USE StationsAssumption
  <1>1. Known = {}
    BY DEF StationsInit, Known
  <1>2. 0 \in 0 .. NumStations /\ Known = 1 .. 0
    BY <1>1
  <1>3. StationsTypeOK /\ \A s \in Stations \ Known : reported[s] = 0
    BY DEF StationsInit, StationsTypeOK
  <1>4. call \in [Slots -> {Idle} \cup StationCalls] /\ \A w \in Slots : call[w] = Idle
    BY DEF RequestsInit
  <1> QED
    BY <1>1, <1>2, <1>3, <1>4 DEF StationsInv, OneRequest, Idle

\* Counting the stations finds the first free number.
LEMMA FirstFree ==
    ASSUME NEW S, NEW n \in Nat, S = 1 .. n
    PROVE  /\ IsFiniteSet(S)
           /\ Cardinality(S) + 1 = n + 1
           /\ n + 1 \notin S
           /\ S \cup {n + 1} = 1 .. (n + 1)
  <1>1. IsFiniteSet(1 .. n) /\ Cardinality(1 .. n) = IF 1 > n THEN 0 ELSE n - 1 + 1
    BY FS_Interval
  <1>2. Cardinality(1 .. n) = n
    BY <1>1
  <1>3. 1 .. n \cup {n + 1} = 1 .. (n + 1)
    OBVIOUS
  <1> QED
    BY <1>1, <1>2, <1>3

\* The handler in w moves on to a state that does not concern the others.
LEMMA StationsInvAfter ==
    ASSUME StationsInv, NEW w \in Slots, NEW c \in {Idle} \cup StationCalls, Continue(w, c),
           MayStart(w) \/ call[w] # Idle,
           StationsTypeOK', Known \subseteq Known',
           \E n \in 0 .. NumStations : Known' = 1 .. n,
           \A s \in Stations \ Known' : reported'[s] = 0,
           c.op = "saveStation" => c.code \in Stations /\ 1 .. (c.code - 1) \subseteq Known',
           c.op = "strike" => c.station \in Known' /\ c.read < MaxStrikes,
           serial =>
               /\ c.op = "saveStation" => c.code \notin Known'
               /\ c.op = "strike" => c.read = station'[c.station].falseAvailabilityStrikes
               /\ \A s \in Known' : station'[s].falseAvailabilityStrikes = reported'[s]
    PROVE  StationsInv'
  <1> DEFINE C == {Idle} \cup StationCalls
  <1>1. /\ call' \in [Slots -> C]
        /\ OneRequest'
        /\ call'[w] = c
        /\ world' = world
        /\ \A v \in Slots \ {w} : call'[v] = call[v]
        /\ serial => \A v \in Slots \ {w} : call[v] = Idle
    <2>1. call \in [Slots -> C] /\ OneRequest /\ w \in Slots /\ c \in C
      BY DEF StationsInv
    <2>2. (MayStart(w) \/ call[w] # Idle) /\ Continue(w, c)
      OBVIOUS
    <2> HIDE DEF C
    <2> QED
      BY ONLY <2>1, <2>2, HandlerMoves
  <1>2. ASSUME NEW v \in Slots
        PROVE  /\ call'[v].op = "saveStation" =>
                     call'[v].code \in Stations /\ 1 .. (call'[v].code - 1) \subseteq Known'
               /\ call'[v].op = "strike" => call'[v].station \in Known' /\ call'[v].read < MaxStrikes
    <2>1. CASE v = w
      BY <1>1, <2>1
    <2>2. CASE v # w
      BY <1>1, <2>2 DEF StationsInv
    <2> QED
      BY <2>1, <2>2
  <1>3. serial' =>
          /\ \A v \in Slots :
                /\ call'[v].op = "saveStation" => call'[v].code \notin Known'
                /\ call'[v].op = "strike" =>
                      call'[v].read = station'[call'[v].station].falseAvailabilityStrikes
          /\ \A s \in Known' : station'[s].falseAvailabilityStrikes = reported'[s]
    <2>1. serial' => serial
      BY <1>1 DEF serial
    <2> QED
      BY <1>1, <2>1 DEF Idle
  <1> QED
    BY <1>1, <1>2, <1>3 DEF StationsInv

LEMMA StationsInvStep == StationsInv /\ StationsNext => StationsInv'
  <1> SUFFICES ASSUME StationsInv, StationsNext
               PROVE  StationsInv'
    OBVIOUS
  <1> USE StationsAssumption
  <1> DEFINE C == {Idle} \cup StationCalls
  <1>1. PICK n \in 0 .. NumStations : Known = 1 .. n
    BY DEF StationsInv
  <1>2. \A s \in Known : s \in Stations /\ station[s] \in GasStation
    BY DEF Known, StationsInv, StationsTypeOK
  <1>3. ASSUME NEW s \in Known, SetSignal(s)
        PROVE  StationsInv'
    <2>1. station[s] \in GasStation /\ s \in Stations
      BY <1>2
    <2>2. PICK row \in GasStation :
             /\ row.falseAvailabilityStrikes = station[s].falseAvailabilityStrikes
             /\ station' = [station EXCEPT ![s] = row]
      <3>1. CASE \E x \in StockStatus : station' = [station EXCEPT ![s].stockStatus = x]
        <4>1. PICK x \in StockStatus : station' = [station EXCEPT ![s].stockStatus = x]
          BY <3>1
        <4>2. [station[s] EXCEPT !.stockStatus = x] \in GasStation
          BY <2>1, <4>1 DEF GasStation
        <4> QED
          BY <2>1, <4>1, <4>2 DEF GasStation
      <3>2. CASE \E x \in BOOLEAN : station' = [station EXCEPT ![s].isActive = x]
        <4>1. PICK x \in BOOLEAN : station' = [station EXCEPT ![s].isActive = x]
          BY <3>2
        <4>2. [station[s] EXCEPT !.isActive = x] \in GasStation
          BY <2>1, <4>1 DEF GasStation
        <4> QED
          BY <2>1, <4>1, <4>2 DEF GasStation
      <3>3. CASE \E x \in StationReview \ {"PENDING"} : station' = [station EXCEPT ![s].status = x]
        <4>1. PICK x \in StationReview : station' = [station EXCEPT ![s].status = x]
          BY <3>3
        <4>2. [station[s] EXCEPT !.status = x] \in GasStation
          BY <2>1, <4>1 DEF GasStation
        <4> QED
          BY <2>1, <4>1, <4>2 DEF GasStation
      <3> QED
        BY <1>3, <3>1, <3>2, <3>3 DEF SetSignal
    <2>3. row # NoStation
      BY <2>2, <2>1 DEF GasStation, NoStation, StationReview
    <2>4. /\ call' = call /\ world' = world /\ reported' = reported
      BY <1>3 DEF SetSignal, NoRequest
    <2>5. StationsTypeOK'
      BY <2>1, <2>2, <2>4 DEF StationsInv, StationsTypeOK
    <2>6. Known' = Known
      BY <2>1, <2>2, <2>3 DEF Known, StationsInv, StationsTypeOK
    <2>7. \A z \in Stations :
             station'[z].falseAvailabilityStrikes = station[z].falseAvailabilityStrikes
      BY <2>1, <2>2 DEF StationsInv, StationsTypeOK
    <2>8. \A w \in Slots : call[w].op = "strike" => call[w].station \in Stations
      BY <1>2 DEF StationsInv
    <2>9. \A z \in Known : z \in Stations
      BY <1>2
    <2> QED
      BY <2>4, <2>5, <2>6, <2>7, <2>8, <2>9
      DEF StationsInv, OneRequest, serial
  <1>4. ASSUME NEW w \in Slots, CreateStation(w)
        PROVE  StationsInv'
    <2> DEFINE c == [op |-> "saveStation", code |-> n + 1]
    <2>1. GeneratedCode = n + 1 /\ n + 1 \notin Known /\ n + 1 \in Nat /\ n \in Nat
      BY <1>1, FirstFree DEF GeneratedCode
    <2>2. n + 1 \in Stations /\ MayStart(w) /\ Continue(w, c) /\ UNCHANGED stationVars
      BY <1>4, <2>1 DEF CreateStation
    <2>3. /\ c \in C /\ c.op = "saveStation" /\ c.op # "strike"
          /\ c.code = n + 1 /\ 1 .. (c.code - 1) \subseteq Known
      BY <1>1, <2>1 DEF StationCalls
    <2>4. Known' = Known /\ StationsTypeOK'
      BY <2>2 DEF stationVars, Known, StationsInv, StationsTypeOK
    <2> HIDE DEF c
    <2> QED
      BY <1>1, <2>1, <2>2, <2>3, <2>4, StationsInvAfter DEF stationVars, StationsInv
  <1>5. ASSUME NEW w \in Slots, NEW s \in Known, ReportFalseAvailability(w, s)
        PROVE  StationsInv'
    <2> DEFINE c == [op |-> "strike", station |-> s, read |-> station[s].falseAvailabilityStrikes]
    <2>1. MayStart(w) /\ Continue(w, c) /\ UNCHANGED stationVars /\ c.read < MaxStrikes
      BY <1>5 DEF ReportFalseAvailability
    <2>2. c \in C
      BY <1>2 DEF StationCalls, GasStation
    <2>3. Known' = Known /\ StationsTypeOK'
      BY <2>1 DEF stationVars, Known, StationsInv, StationsTypeOK
    <2> QED
      BY <1>1, <2>1, <2>2, <2>3, StationsInvAfter DEF stationVars, StationsInv
  <1>6. ASSUME NEW w \in Slots, CreateStationSave(w)
        PROVE  StationsInv'
    <2> DEFINE fresh == [status |-> "PENDING", isActive |-> TRUE,
                         stockStatus |-> "AVAILABLE", falseAvailabilityStrikes |-> 0]
    <2>1. PICK s \in Stations : s = call[w].code /\ 1 .. (s - 1) \subseteq Known
      BY <1>6 DEF CreateStationSave, StationsInv
    <2>2. /\ station' = IF s \in Known THEN station ELSE [station EXCEPT ![s] = fresh]
          /\ Continue(w, Idle) /\ call[w] # Idle
          /\ reported' = reported
      BY <1>6, <2>1 DEF CreateStationSave, Finish, Idle
    <2>3. fresh \in GasStation /\ fresh # NoStation
      BY DEF GasStation, NoStation, StationReview, StockStatus
    <2>4. StationsTypeOK'
      BY <2>1, <2>2, <2>3 DEF StationsInv, StationsTypeOK
    <2>5. Known' = Known \cup {s}
      BY <2>1, <2>2, <2>3 DEF Known, StationsInv, StationsTypeOK
    <2>6. \E m \in 0 .. NumStations : Known' = 1 .. m
      <3>1. CASE s \in Known
        BY <1>1, <2>5, <3>1
      <3>2. CASE s \notin Known
        <4>1. s = n + 1
          BY <1>1, <2>1, <3>2 DEF Stations
        <4>2. n + 1 \in 0 .. NumStations /\ n \in Nat
          BY <4>1 DEF Stations
        <4>3. Known' = 1 .. (n + 1)
          BY <1>1, <2>5, <4>1, <4>2, FirstFree
        <4> QED
          BY <4>2, <4>3
      <3> QED
        BY <3>1, <3>2
    <2>7. \A z \in Stations \ Known' : reported'[z] = 0
      BY <2>2, <2>5 DEF StationsInv
    <2>8. serial => \A z \in Known' : station'[z].falseAvailabilityStrikes = reported'[z]
      <3>1. ASSUME serial, NEW z \in Known'
            PROVE  station'[z].falseAvailabilityStrikes = reported'[z]
        <4>1. CASE z \in Known
          BY <1>2, <2>1, <2>2, <3>1, <4>1 DEF StationsInv, StationsTypeOK
        <4>2. CASE z \notin Known
          BY <2>1, <2>2, <2>5, <3>1, <4>2 DEF StationsInv, StationsTypeOK
        <4> QED
          BY <4>1, <4>2
      <3> QED
        BY <3>1
    <2>9. Idle \in C /\ Idle.op # "saveStation" /\ Idle.op # "strike"
      BY DEF Idle
    <2> QED
      BY <2>2, <2>4, <2>5, <2>6, <2>7, <2>8, <2>9, StationsInvAfter
  <1>7. ASSUME NEW w \in Slots, Strike(w)
        PROVE  StationsInv'
    <2>1. PICK s \in Known : s = call[w].station
      BY <1>7 DEF Strike, StationsInv
    <2>2. call[w].op = "strike" /\ call[w] # Idle /\ call[w] \in StationCalls
      BY <1>7 DEF Strike, Idle, StationsInv
    <2>3. call[w].read \in Nat /\ call[w].read < MaxStrikes
      BY <2>2 DEF StationsInv, StationCalls
    <2> DEFINE row == [station[s] EXCEPT !.stockStatus = "OUT_OF_STOCK",
                                         !.falseAvailabilityStrikes = call[w].read + 1]
    <2>4. /\ station' = [station EXCEPT ![s] = row]
          /\ reported' = [reported EXCEPT ![s] = @ + 1]
          /\ reported[s] < MaxStrikes
          /\ Continue(w, Idle)
      BY <1>2, <1>7, <2>1 DEF Strike, Finish, StationsInv, StationsTypeOK
    <2>5. /\ row \in GasStation /\ row # NoStation /\ s \in Stations
          /\ row.falseAvailabilityStrikes = call[w].read + 1
      <3>1. station[s] \in GasStation /\ s \in Stations
        BY <1>2
      <3>2. call[w].read + 1 \in 0 .. MaxStrikes
        BY <2>3
      <3>3. row \in GasStation /\ row.falseAvailabilityStrikes = call[w].read + 1
        BY <3>1, <3>2 DEF GasStation, StockStatus
      <3>4. \A z \in GasStation : z # NoStation
        BY DEF GasStation, NoStation, StationReview
      <3> QED
        BY <3>1, <3>3, <3>4
    <2> HIDE DEF row
    <2>6. StationsTypeOK'
      BY <2>4, <2>5 DEF StationsInv, StationsTypeOK
    <2>7. Known' = Known
      BY <2>4, <2>5 DEF Known, StationsInv, StationsTypeOK
    <2>8. \A z \in Stations \ Known' : reported'[z] = 0
      BY <2>4, <2>7 DEF StationsInv, StationsTypeOK
    <2>9. serial => \A z \in Known' : station'[z].falseAvailabilityStrikes = reported'[z]
      <3>1. ASSUME serial, NEW z \in Known
            PROVE  station'[z].falseAvailabilityStrikes = reported'[z]
        <4>1. z \in Stations /\ station[z].falseAvailabilityStrikes = reported[z]
          BY <1>2, <3>1 DEF StationsInv
        <4>2. CASE z = s
          BY <2>1, <2>2, <2>4, <2>5, <3>1, <4>1, <4>2 DEF StationsInv, StationsTypeOK
        <4>3. CASE z # s
          BY <2>4, <4>1, <4>3 DEF StationsInv, StationsTypeOK
        <4> QED
          BY <4>2, <4>3
      <3> QED
        BY <2>7, <3>1
    <2>10. Idle \in C /\ Idle.op # "saveStation" /\ Idle.op # "strike"
      BY DEF Idle
    <2> QED
      BY <1>1, <2>2, <2>4, <2>6, <2>7, <2>8, <2>9, <2>10, StationsInvAfter
  <1>8. ASSUME NEW w \in Slots, Crash(w), UNCHANGED stationVars
        PROVE  StationsInv'
    <2>1. Continue(w, Idle) /\ call[w] # Idle
      BY <1>8, CrashMoves
    <2>2. Known' = Known /\ StationsTypeOK'
      BY <1>8 DEF stationVars, Known, StationsInv, StationsTypeOK
    <2>3. Idle \in C /\ Idle.op # "saveStation" /\ Idle.op # "strike"
      BY DEF Idle
    <2> QED
      BY <1>1, <1>8, <2>1, <2>2, <2>3, StationsInvAfter DEF stationVars, StationsInv
  <1> QED
    BY <1>3, <1>4, <1>5, <1>6, <1>7, <1>8 DEF StationsNext

LEMMA StationsPromises == StationsInv => SerialCodeIsFree /\ SerialStrikesCounted
  BY DEF StationsInv, SerialCodeIsFree, SerialStrikesCounted

--------------------------------------------------------------------------------
(* Intake.                                                                  *)

\* Orders are numbered from 1 without a gap, and a request that has drawn a number
\* has seen all smaller ones; while nobody races the number stays free.  Whoever is
\* about to tell a customer of an order has stored it.
IntakeInv ==
    /\ IntakeTypeOK
    /\ call \in [Slots -> {Idle} \cup IntakeCalls]
    /\ OneRequest
    /\ \E n \in 0 .. NumOrders : Taken = 1 .. n
    /\ AnsweredHasOrder
    /\ \A w \in Slots :
          /\ call[w].op = "insertOrder" => 1 .. (call[w].number - 1) \subseteq Taken
          /\ call[w].op = "created" => OrdersOf(call[w].key) # {}
    /\ SerialNumberIsFree

LEMMA IntakeInvInit == RequestsInit /\ IntakeInit => IntakeInv
  <1> SUFFICES ASSUME RequestsInit, IntakeInit
               PROVE  IntakeInv
    OBVIOUS
  <1> USE IntakeAssumption
  <1>1. Taken = {} /\ answered = {}
    BY DEF IntakeInit, Taken
  <1>2. 0 \in 0 .. NumOrders /\ Taken = 1 .. 0
    BY <1>1
  <1>3. call \in [Slots -> {Idle} \cup IntakeCalls] /\ \A w \in Slots : call[w] = Idle
    BY DEF RequestsInit
  <1> QED
    BY <1>1, <1>2, <1>3
    DEF IntakeInv, IntakeTypeOK, AnsweredHasOrder, SerialNumberIsFree, OneRequest, Idle

\* The handler in w moves on; orders are added, never changed.
LEMMA IntakeInvAfter ==
    ASSUME IntakeInv, NEW w \in Slots, NEW c \in {Idle} \cup IntakeCalls, Continue(w, c),
           MayStart(w) \/ call[w] # Idle,
           IntakeTypeOK',
           \A t \in Taps : OrdersOf(t) \subseteq OrdersOf(t)',
           \A t \in answered' : OrdersOf(t)' # {},
           Taken \subseteq Taken',
           \E n \in 0 .. NumOrders : Taken' = 1 .. n,
           c.op = "insertOrder" => 1 .. (c.number - 1) \subseteq Taken',
           c.op = "created" => OrdersOf(c.key)' # {},
           serial /\ c.op = "insertOrder" => c.number \notin Taken'
    PROVE  IntakeInv'
  <1> DEFINE C == {Idle} \cup IntakeCalls
  <1>1. /\ call' \in [Slots -> C]
        /\ OneRequest'
        /\ call'[w] = c
        /\ world' = world
        /\ \A v \in Slots \ {w} : call'[v] = call[v]
        /\ serial => \A v \in Slots \ {w} : call[v] = Idle
    <2>1. call \in [Slots -> C] /\ OneRequest /\ w \in Slots /\ c \in C
      BY DEF IntakeInv
    <2>2. (MayStart(w) \/ call[w] # Idle) /\ Continue(w, c)
      OBVIOUS
    <2> HIDE DEF C
    <2> QED
      BY ONLY <2>1, <2>2, HandlerMoves
  <1>2. ASSUME NEW v \in Slots
        PROVE  /\ call'[v].op = "insertOrder" => 1 .. (call'[v].number - 1) \subseteq Taken'
               /\ call'[v].op = "created" => OrdersOf(call[v].key)' # {}
    <2>1. CASE v = w
      BY <1>1, <2>1 DEF OrdersOf
    <2>2. CASE v # w
      <3>1. call'[v] = call[v]
        BY <1>1, <2>2
      <3>2. call[v].op = "insertOrder" => 1 .. (call[v].number - 1) \subseteq Taken'
        BY DEF IntakeInv
      <3>3. ASSUME call[v].op = "created"
            PROVE  OrdersOf(call[v].key)' # {}
        <4>1. call[v] \in IntakeCalls /\ OrdersOf(call[v].key) # {}
          BY <3>3 DEF IntakeInv, Idle
        <4>2. PICK t \in Taps : t = call[v].key
          BY <3>3, <4>1 DEF IntakeCalls
        <4>3. OrdersOf(t)' # {}
          BY <4>1, <4>2
        <4> QED
          BY <3>1, <4>2, <4>3 DEF OrdersOf
      <3> QED
        BY <3>1, <3>2, <3>3
    <2> QED
      BY <2>1, <2>2
  <1>3. SerialNumberIsFree'
    <2>1. serial' => serial
      BY <1>1 DEF serial
    <2> QED
      BY <1>1, <2>1 DEF SerialNumberIsFree, Idle
  <1>4. AnsweredHasOrder'
    BY DEF AnsweredHasOrder
  <1> QED
    BY <1>1, <1>2, <1>3, <1>4 DEF IntakeInv

LEMMA IntakeInvStep == IntakeInv /\ IntakeNext => IntakeInv'
  <1> SUFFICES ASSUME IntakeInv, IntakeNext
               PROVE  IntakeInv'
    OBVIOUS
  <1> USE IntakeAssumption
  <1> DEFINE C == {Idle} \cup IntakeCalls
  <1>1. PICK n \in 0 .. NumOrders : Taken = 1 .. n
    BY DEF IntakeInv
  <1>2. PICK w \in Slots :
           \/ \E t \in Taps : CreateOrder(w, t)
           \/ InsertOrder(w) \/ CreateOrderAnswer(w)
           \/ Crash(w) /\ UNCHANGED intakeVars
    BY DEF IntakeNext
  <1>3. ASSUME UNCHANGED stored
        PROVE  Taken' = Taken /\ \A t : OrdersOf(t)' = OrdersOf(t)
    BY <1>3 DEF Taken, OrdersOf
  <1>4. Idle \in C /\ Idle.op # "insertOrder" /\ Idle.op # "created"
    BY DEF Idle
  <1>5. ASSUME NEW t \in Taps, CreateOrder(w, t)
        PROVE  IntakeInv'
    <2> DEFINE c == [op |-> "insertOrder", number |-> n + 1, key |-> t]
    <2>1. n \in Nat /\ NextNumber = n + 1 /\ n + 1 \notin Taken
      BY <1>1, FirstFree DEF NextNumber
    <2>2. n + 1 \in OrderNumbers /\ MayStart(w) /\ Continue(w, c) /\ UNCHANGED intakeVars
      BY <1>5, <2>1 DEF CreateOrder
    <2>3. /\ c \in C /\ c.op = "insertOrder" /\ c.op # "created"
          /\ c.number = n + 1 /\ 1 .. (c.number - 1) \subseteq Taken
      BY <1>1, <2>1, <2>2 DEF IntakeCalls
    <2>4. IntakeTypeOK' /\ Taken' = Taken /\ \A s : OrdersOf(s)' = OrdersOf(s)
      BY <1>3, <2>2 DEF intakeVars, IntakeInv, IntakeTypeOK
    <2>5. \A s \in answered' : OrdersOf(s)' # {}
      BY <2>2, <2>4 DEF intakeVars, IntakeInv, AnsweredHasOrder
    <2> HIDE DEF c
    <2> QED
      BY <1>1, <2>1, <2>2, <2>3, <2>4, <2>5, IntakeInvAfter
  <1>6. CASE InsertOrder(w)
    <2>1. call[w].op = "insertOrder" /\ call[w] # Idle /\ call[w] \in IntakeCalls
      BY <1>6 DEF InsertOrder, IntakeInv, Idle
    <2>2. PICK k \in OrderNumbers, t \in Taps :
             call[w].number = k /\ call[w].key = t /\ 1 .. (k - 1) \subseteq Taken
      BY <2>1 DEF IntakeInv, IntakeCalls
    <2>3. CASE k \in Taken
      <3>1. Continue(w, Idle) /\ UNCHANGED intakeVars
        BY <1>6, <2>2, <2>3 DEF InsertOrder, Finish, intakeVars
      <3>2. IntakeTypeOK' /\ Taken' = Taken /\ \A s : OrdersOf(s)' = OrdersOf(s)
        BY <1>3, <3>1 DEF intakeVars, IntakeInv, IntakeTypeOK
      <3>3. \A s \in answered' : OrdersOf(s)' # {}
        BY <3>1, <3>2 DEF intakeVars, IntakeInv, AnsweredHasOrder
      <3> QED
        BY <1>1, <1>4, <2>1, <3>1, <3>2, <3>3, IntakeInvAfter
    <2>4. CASE k \notin Taken
      <3> DEFINE c == [op |-> "created", key |-> t]
      <3>1. /\ stored' = [m \in Taken \cup {k} |-> IF m = k THEN t ELSE stored[m]]
            /\ Continue(w, c)
            /\ answered' = answered
        BY <1>6, <2>2, <2>4 DEF InsertOrder
      <3>2. /\ Taken' = Taken \cup {k}
            /\ \A m \in Taken : stored'[m] = stored[m]
            /\ stored'[k] = t
        BY <2>4, <3>1 DEF Taken
      <3>3. k = n + 1 /\ n + 1 \in 0 .. NumOrders /\ n \in Nat
        <4>1. k \in Nat /\ n \in Nat /\ k >= 1 /\ k <= NumOrders
          BY DEF OrderNumbers
        <4>2. k > n
          BY <1>1, <2>4, <4>1
        <4>3. ~ (k > n + 1)
          <5>1. k > n + 1 => n + 1 \in 1 .. (k - 1)
            BY <4>1
          <5>2. n + 1 \notin 1 .. n
            BY <4>1
          <5> QED
            BY <1>1, <2>2, <5>1, <5>2
        <4> QED
          BY <4>1, <4>2, <4>3
      <3>4. Taken' = 1 .. (n + 1)
        BY <1>1, <3>2, <3>3, FirstFree
      <3>5. \A s : OrdersOf(s) \subseteq OrdersOf(s)'
        BY <3>2 DEF OrdersOf
      <3>6. OrdersOf(t)' # {}
        BY <3>2 DEF OrdersOf
      <3>7. IntakeTypeOK'
        BY <2>2, <3>1, <3>2 DEF IntakeInv, IntakeTypeOK
      <3>8. \A s \in answered' : OrdersOf(s)' # {}
        BY <3>1, <3>5 DEF IntakeInv, AnsweredHasOrder
      <3>9. /\ c \in C /\ c.op # "insertOrder"
            /\ c.op = "created" => OrdersOf(t)' # {}
            /\ c.key = t
        BY <3>6 DEF IntakeCalls
      <3>10. OrdersOf(c.key)' # {}
        BY <3>6, <3>9 DEF OrdersOf
      <3> HIDE DEF c
      <3> QED
        BY <2>1, <3>1, <3>2, <3>3, <3>4, <3>5, <3>7, <3>8, <3>9, <3>10, IntakeInvAfter
    <2> QED
      BY <2>3, <2>4
  <1>7. CASE CreateOrderAnswer(w)
    <2>1. call[w].op = "created" /\ call[w] # Idle /\ call[w] \in IntakeCalls
      BY <1>7 DEF CreateOrderAnswer, IntakeInv, Idle
    <2>2. PICK t \in Taps : call[w].key = t /\ OrdersOf(t) # {}
      BY <2>1 DEF IntakeInv, IntakeCalls
    <2>3. answered' = answered \cup {t} /\ UNCHANGED stored /\ Continue(w, Idle)
      BY <1>7, <2>2 DEF CreateOrderAnswer, Finish
    <2>4. IntakeTypeOK' /\ Taken' = Taken /\ \A s : OrdersOf(s)' = OrdersOf(s)
      BY <1>3, <2>3 DEF IntakeInv, IntakeTypeOK
    <2>5. \A s \in answered' : OrdersOf(s)' # {}
      BY <2>2, <2>3, <2>4 DEF IntakeInv, AnsweredHasOrder
    <2> QED
      BY <1>1, <1>4, <2>1, <2>3, <2>4, <2>5, IntakeInvAfter
  <1>8. CASE Crash(w) /\ UNCHANGED intakeVars
    <2>1. Continue(w, Idle) /\ call[w] # Idle
      BY <1>8, CrashMoves
    <2>2. IntakeTypeOK' /\ Taken' = Taken /\ \A s : OrdersOf(s)' = OrdersOf(s)
      BY <1>3, <1>8 DEF intakeVars, IntakeInv, IntakeTypeOK
    <2>3. \A s \in answered' : OrdersOf(s)' # {}
      BY <1>8, <2>2 DEF intakeVars, IntakeInv, AnsweredHasOrder
    <2> QED
      BY <1>1, <1>4, <2>1, <2>2, <2>3, IntakeInvAfter
  <1> QED
    BY <1>2, <1>5, <1>6, <1>7, <1>8

LEMMA IntakePromises == IntakeInv => SerialNumberIsFree /\ AnsweredHasOrder
  BY DEF IntakeInv

--------------------------------------------------------------------------------
(* Customers.                                                               *)

\* A request that is about to make an address the default has taken the mark from
\* all others.  While nobody races or fails, the default is the address chosen
\* unless such a request is under way, and an address being changed is there.
MakesDefault(c) == c.op \in {"saveAddress", "setAddress"} /\ c.isDefault

Chosen == IF chosen = NoAddress THEN {} ELSE {chosen}

CustomersInv ==
    /\ CustomersTypeOK
    /\ call \in [Slots -> {Idle} \cup CustomerCalls]
    /\ OneRequest
    /\ \A w \in Slots :
          call[w].op \in {"change", "setAddress", "delete"} => address[call[w].address] # NotSavedYet
    /\ serial =>
          /\ \A a, b \in Defaults : a = b
          /\ \A w \in Slots : MakesDefault(call[w]) => Defaults = {}
    /\ calm =>
          /\ \A w \in Slots : call[w].op \in {"change", "setAddress"} => call[w].address \in Present
          /\ \/ \E w \in Slots : MakesDefault(call[w])
             \/ Defaults = Chosen

LEMMA CustomersInvInit == RequestsInit /\ CustomersInit => CustomersInv
  <1> SUFFICES ASSUME RequestsInit, CustomersInit
               PROVE  CustomersInv
    OBVIOUS
  <1>1. CustomersTypeOK /\ Defaults = {} /\ Chosen = {}
    BY DEF CustomersInit, CustomersTypeOK, Defaults, Present, Chosen
  <1>2. call \in [Slots -> {Idle} \cup CustomerCalls] /\ \A w \in Slots : call[w] = Idle
    BY DEF RequestsInit
  <1>3. ~ MakesDefault(Idle) /\ Idle.op = "idle"
    BY DEF MakesDefault, Idle
  <1> QED
    BY <1>1, <1>2, <1>3 DEF CustomersInv, OneRequest

\* The handler in w moves on; saved addresses stay saved.
LEMMA CustomersInvAfter ==
    ASSUME CustomersInv, NEW w \in Slots, NEW c \in {Idle} \cup CustomerCalls, Continue(w, c),
           MayStart(w) \/ call[w] # Idle,
           CustomersTypeOK',
           \A a \in Addresses : address[a] # NotSavedYet => address'[a] # NotSavedYet,
           c.op \in {"change", "setAddress", "delete"} => address'[c.address] # NotSavedYet,
           serial => /\ \A a, b \in Defaults' : a = b
                     /\ MakesDefault(c) => Defaults' = {},
           calm => /\ c.op \in {"change", "setAddress"} => c.address \in Present'
                   /\ MakesDefault(c) \/ Defaults' = Chosen'
    PROVE  CustomersInv'
  <1> DEFINE C == {Idle} \cup CustomerCalls
  <1>1. /\ call' \in [Slots -> C]
        /\ OneRequest'
        /\ call'[w] = c
        /\ world' = world
        /\ \A v \in Slots \ {w} : call'[v] = call[v]
        /\ serial => \A v \in Slots \ {w} : call[v] = Idle
    <2>1. call \in [Slots -> C] /\ OneRequest /\ w \in Slots /\ c \in C
      BY DEF CustomersInv
    <2>2. (MayStart(w) \/ call[w] # Idle) /\ Continue(w, c)
      OBVIOUS
    <2> HIDE DEF C
    <2> QED
      BY ONLY <2>1, <2>2, HandlerMoves
  <1>2. ASSUME NEW v \in Slots, call'[v].op \in {"change", "setAddress", "delete"}
        PROVE  address'[call'[v].address] # NotSavedYet
    <2>1. CASE v = w
      BY <1>1, <1>2, <2>1
    <2>2. CASE v # w
      <3>1. call'[v] = call[v] /\ call[v] \in CustomerCalls
        BY <1>1, <1>2, <2>2 DEF CustomersInv, Idle
      <3>2. call[v].address \in Addresses
        BY <1>2, <3>1 DEF CustomerCalls
      <3> QED
        BY <1>2, <3>1, <3>2 DEF CustomersInv
    <2> QED
      BY <2>1, <2>2
  <1>3. serial' => /\ serial
                   /\ \A v \in Slots : call'[v] = IF v = w THEN c ELSE Idle
    BY <1>1 DEF serial
  <1>4. calm' => calm /\ serial'
    BY <1>1 DEF calm, serial
  <1>5. ~ MakesDefault(Idle) /\ Idle.op \notin {"change", "setAddress"}
    BY DEF MakesDefault, Idle
  <1>6. serial' =>
          /\ \A a, b \in Defaults' : a = b
          /\ \A v \in Slots : MakesDefault(call'[v]) => Defaults' = {}
    BY <1>3, <1>5
  <1>7. calm' =>
          /\ \A v \in Slots : call'[v].op \in {"change", "setAddress"} => call'[v].address \in Present'
          /\ \/ \E v \in Slots : MakesDefault(call'[v])
             \/ Defaults' = Chosen'
    BY <1>3, <1>4, <1>5
  <1> QED
    BY <1>1, <1>2, <1>6, <1>7 DEF CustomersInv, MakesDefault

\* What marks of one address there are after a statement that changes it alone.
LEMMA OneAddressChanged ==
    ASSUME CustomersTypeOK, NEW a \in Addresses, NEW row \in Address,
           address' = [address EXCEPT ![a] = row]
    PROVE  /\ address' \in [Addresses -> {NotSavedYet} \cup Address]
           /\ \A b \in Addresses : address[b] # NotSavedYet => address'[b] # NotSavedYet
           /\ address'[a] # NotSavedYet
           /\ Present' = IF row.deleted THEN Present \ {a} ELSE Present \cup {a}
           /\ Defaults' = IF row.deleted \/ ~ row.isDefault THEN Defaults \ {a} ELSE Defaults \cup {a}
  <1>1. row # NotSavedYet
    BY DEF Address, NotSavedYet
  <1>2. \A b \in Addresses : address'[b] = IF b = a THEN row ELSE address[b]
    BY DEF CustomersTypeOK
  <1>3. address' \in [Addresses -> {NotSavedYet} \cup Address]
    BY DEF CustomersTypeOK
  <1> QED
    BY <1>1, <1>2, <1>3 DEF Present, Defaults

\* Taking the mark from all addresses.
LEMMA AllUndefaulted ==
    ASSUME CustomersTypeOK, address' = Undefaulted
    PROVE  /\ address' \in [Addresses -> {NotSavedYet} \cup Address]
           /\ \A b \in Addresses : address[b] # NotSavedYet <=> address'[b] # NotSavedYet
           /\ Present' = Present
           /\ Defaults' = {}
  <1>1. ASSUME NEW b \in Addresses
        PROVE  /\ address[b] = NotSavedYet => address'[b] = NotSavedYet
               /\ address[b] # NotSavedYet =>
                     /\ address'[b] \in Address
                     /\ address'[b] # NotSavedYet
                     /\ address'[b].deleted = address[b].deleted
                     /\ ~ address'[b].isDefault
    <2>1. address'[b] = [address[b] EXCEPT !.isDefault = FALSE]
      BY DEF Undefaulted
    <2>2. CASE address[b] = NotSavedYet
      BY <2>1, <2>2 DEF NotSavedYet
    <2>3. CASE address[b] # NotSavedYet
      <3>1. address[b] \in Address
        BY <2>3 DEF CustomersTypeOK
      <3>2. address'[b] \in Address /\ address'[b].deleted = address[b].deleted /\ ~ address'[b].isDefault
        BY <2>1, <3>1 DEF Address
      <3>3. \A row \in Address : row # NotSavedYet
        BY DEF Address, NotSavedYet
      <3> QED
        BY <2>3, <3>2, <3>3
    <2> QED
      BY <2>2, <2>3
  <1>2. address' \in [Addresses -> {NotSavedYet} \cup Address]
    <2>1. \A b \in Addresses : address'[b] \in {NotSavedYet} \cup Address
      BY <1>1
    <2> QED
      BY <2>1 DEF Undefaulted
  <1> QED
    BY <1>1, <1>2 DEF Present, Defaults

LEMMA CustomersInvStep == CustomersInv /\ CustomersNext => CustomersInv'
  <1> SUFFICES ASSUME CustomersInv, CustomersNext
               PROVE  CustomersInv'
    OBVIOUS
  <1> USE CustomersAssumption
  <1> DEFINE C == {Idle} \cup CustomerCalls
  <1>0. CustomersTypeOK
    BY DEF CustomersInv
  <1>1. PICK w \in Slots :
           \/ FindByUserId(w) \/ CreateProfile(w)
           \/ \E isDefault \in BOOLEAN :
                 \/ AddAddress(w, isDefault)
                 \/ \E a \in Addresses : UpdateAddress(w, a, isDefault)
           \/ AddAddressSave(w) \/ UpdateAddressClear(w) \/ UpdateAddressSet(w)
           \/ \E a \in Addresses : DeleteAddress(w, a)
           \/ SoftDelete(w)
           \/ Crash(w) /\ UNCHANGED customerVars
    BY DEF CustomersNext
  \* What holds when a request starts, and when only w is under way.
  <1>2. MayStart(w) =>
          /\ serial => \A a, b \in Defaults : a = b
          /\ calm => Defaults = Chosen
    <2>1. calm => serial
      BY DEF calm, serial
    <2>2. ~ MakesDefault(Idle)
      BY DEF MakesDefault, Idle
    <2>3. MayStart(w) /\ serial => \A v \in Slots : call[v] = Idle
      BY DEF MayStart, AtRest
    <2> QED
      BY <2>1, <2>2, <2>3 DEF CustomersInv
  <1>3. call[w] # Idle =>
          /\ call[w] \in CustomerCalls
          /\ serial => \A a, b \in Defaults : a = b
          /\ calm /\ ~ MakesDefault(call[w]) => Defaults = Chosen
    <2>1. call[w] # Idle /\ calm => \A v \in Slots \ {w} : call[v] = Idle
      BY DEF calm, serial, CustomersInv, OneRequest
    <2>2. ~ MakesDefault(Idle)
      BY DEF MakesDefault, Idle
    <2> QED
      BY <2>1, <2>2 DEF CustomersInv
  <1>4. ASSUME UNCHANGED <<address, chosen>>
        PROVE  /\ Present' = Present /\ Defaults' = Defaults /\ Chosen' = Chosen
               /\ \A a \in Addresses : address[a] # NotSavedYet => address'[a] # NotSavedYet
    BY <1>4 DEF Present, Defaults, Chosen
  <1>5. /\ Idle \in C /\ Idle.op = "idle" /\ ~ MakesDefault(Idle)
    BY DEF MakesDefault, Idle
  <1>6. CASE FindByUserId(w)
    <2> DEFINE c == [op |-> "createProfile"]
    <2>1. c \in C /\ c.op = "createProfile" /\ ~ MakesDefault(c)
      BY DEF CustomerCalls, MakesDefault
    <2>2. MayStart(w) /\ Continue(w, c) /\ UNCHANGED customerVars
      BY <1>6 DEF FindByUserId
    <2>3. CustomersTypeOK' /\ UNCHANGED <<address, chosen>>
      BY <2>2 DEF customerVars, CustomersInv, CustomersTypeOK
    <2> HIDE DEF c
    <2> QED
      BY <1>2, <1>4, <2>1, <2>2, <2>3, CustomersInvAfter
  <1>7. CASE CreateProfile(w)
    <2>1. call[w] # Idle /\ ~ MakesDefault(call[w]) /\ Continue(w, Idle)
      BY <1>7 DEF CreateProfile, Finish, Idle, MakesDefault
    <2>2. CustomersTypeOK' /\ UNCHANGED <<address, chosen>>
      BY <1>7 DEF CreateProfile, CustomersInv, CustomersTypeOK
    <2> QED
      BY <1>3, <1>4, <1>5, <2>1, <2>2, CustomersInvAfter
  <1>8. ASSUME NEW isDefault \in BOOLEAN, AddAddress(w, isDefault)
        PROVE  CustomersInv'
    <2> DEFINE c == [op |-> "saveAddress", isDefault |-> isDefault]
    <2>1. c \in C /\ c.op = "saveAddress" /\ (MakesDefault(c) <=> isDefault)
      BY DEF CustomerCalls, MakesDefault
    <2>2. /\ MayStart(w) /\ Continue(w, c)
          /\ address' = IF isDefault THEN Undefaulted ELSE address
          /\ UNCHANGED <<profile, chosen>>
      BY <1>8 DEF AddAddress
    <2> HIDE DEF c
    <2>3. CASE isDefault
      <3>1. address' = Undefaulted
        BY <2>2, <2>3
      <3>2. CustomersTypeOK'
        BY <1>0, <2>2, <3>1, AllUndefaulted DEF CustomersTypeOK
      <3>3. /\ Defaults' = {}
            /\ \A a \in Addresses : address[a] # NotSavedYet => address'[a] # NotSavedYet
        BY <1>0, <3>1, AllUndefaulted
      <3> QED
        BY <2>1, <2>2, <2>3, <3>2, <3>3, CustomersInvAfter
    <2>4. CASE ~ isDefault
      <3>1. CustomersTypeOK' /\ UNCHANGED <<address, chosen>>
        BY <2>2, <2>4 DEF CustomersInv, CustomersTypeOK
      <3> QED
        BY <1>2, <1>4, <2>1, <2>2, <2>4, <3>1, CustomersInvAfter
    <2> QED
      BY <2>3, <2>4
  <1>9. ASSUME NEW isDefault \in BOOLEAN, NEW a \in Addresses, UpdateAddress(w, a, isDefault)
        PROVE  CustomersInv'
    <2> DEFINE c == [op |-> "change", address |-> a, isDefault |-> isDefault]
    <2>1. c \in C /\ c.op = "change" /\ c.address = a /\ ~ MakesDefault(c)
      BY DEF CustomerCalls, MakesDefault
    <2>2. MayStart(w) /\ Continue(w, c) /\ UNCHANGED customerVars /\ a \in Present
      BY <1>9 DEF UpdateAddress
    <2>3. CustomersTypeOK' /\ UNCHANGED <<address, chosen>> /\ address[a] # NotSavedYet
      BY <2>2 DEF customerVars, CustomersInv, CustomersTypeOK, Present
    <2> HIDE DEF c
    <2> QED
      BY <1>2, <1>4, <2>1, <2>2, <2>3, CustomersInvAfter
  <1>10. CASE AddAddressSave(w)
    <2>1. call[w].op = "saveAddress" /\ call[w] # Idle /\ call[w] \in CustomerCalls
      BY <1>3, <1>10 DEF AddAddressSave, Idle
    <2>2. PICK isDefault \in BOOLEAN : call[w].isDefault = isDefault
      BY <2>1 DEF CustomerCalls
    <2> DEFINE row == [isDefault |-> isDefault, deleted |-> FALSE]
    <2>3. PICK a \in Addresses :
             /\ address[a] = NotSavedYet
             /\ address' = [address EXCEPT ![a] = row]
             /\ chosen' = IF isDefault THEN a ELSE chosen
      <3>1. PICK a \in Addresses :
               /\ \A b \in Addresses : address[b] = NotSavedYet <=> b >= a
               /\ address' = [address EXCEPT ![a] = row]
               /\ chosen' = IF isDefault THEN a ELSE chosen
        BY <1>10, <2>2 DEF AddAddressSave
      <3>2. a >= a
        BY DEF Addresses
      <3> QED
        BY <3>1, <3>2
    <2>4. row \in Address /\ row.isDefault = isDefault /\ row.deleted = FALSE
      BY DEF Address
    <2> HIDE DEF row
    <2>5. /\ address' \in [Addresses -> {NotSavedYet} \cup Address]
          /\ \A b \in Addresses : address[b] # NotSavedYet => address'[b] # NotSavedYet
          /\ Defaults' = IF isDefault THEN Defaults \cup {a} ELSE Defaults \ {a}
      BY <1>0, <2>3, <2>4, OneAddressChanged
    <2>6. CustomersTypeOK' /\ Continue(w, Idle)
      BY <1>0, <1>10, <2>3, <2>5 DEF AddAddressSave, Finish, CustomersTypeOK
    <2>7. MakesDefault(call[w]) <=> isDefault
      BY <2>1, <2>2 DEF MakesDefault
    <2>8. a \notin Defaults
      BY <2>3 DEF Defaults, Present
    <2>9. serial => \A b, d \in Defaults' : b = d
      <3>1. serial /\ isDefault => Defaults = {}
        BY <2>7 DEF CustomersInv
      <3> QED
        BY <1>3, <2>1, <2>5, <3>1
    <2>10. calm => Defaults' = Chosen'
      <3>1. CASE isDefault
        <4>1. calm => Defaults = {}
          BY <2>7, <3>1 DEF CustomersInv, calm, serial
        <4>2. Chosen' = {a}
          BY <2>3, <3>1 DEF Chosen
        <4> QED
          BY <2>5, <3>1, <4>1, <4>2
      <3>2. CASE ~ isDefault
        <4>1. Chosen' = Chosen
          BY <2>3, <3>2 DEF Chosen
        <4> QED
          BY <1>3, <2>1, <2>5, <2>7, <2>8, <3>2, <4>1
      <3> QED
        BY <3>1, <3>2
    <2> QED
      BY <1>5, <2>1, <2>5, <2>6, <2>9, <2>10, CustomersInvAfter
  <1>11. CASE UpdateAddressClear(w)
    <2>1. call[w].op = "change" /\ call[w] # Idle /\ call[w] \in CustomerCalls /\ ~ MakesDefault(call[w])
      BY <1>3, <1>11 DEF UpdateAddressClear, Idle, MakesDefault
    <2>2. PICK isDefault \in BOOLEAN, a \in Addresses :
             call[w] = [op |-> "change", address |-> a, isDefault |-> isDefault]
      BY <2>1 DEF CustomerCalls
    <2> DEFINE c == [op |-> "setAddress", address |-> a, isDefault |-> isDefault]
    <2>3. /\ Continue(w, c)
          /\ address' = IF isDefault THEN Undefaulted ELSE address
          /\ UNCHANGED <<profile, chosen>>
      BY <1>11, <2>2 DEF UpdateAddressClear
    <2>4. c \in C /\ c.op = "setAddress" /\ c.address = a /\ (MakesDefault(c) <=> isDefault)
      BY DEF CustomerCalls, MakesDefault
    <2> HIDE DEF c
    <2>5. address[a] # NotSavedYet /\ (calm => a \in Present)
      BY <2>2 DEF CustomersInv
    <2>6. CASE isDefault
      <3>1. address' = Undefaulted
        BY <2>3, <2>6
      <3>2. CustomersTypeOK'
        BY <1>0, <2>3, <3>1, AllUndefaulted DEF CustomersTypeOK
      <3>3. /\ Defaults' = {} /\ Present' = Present
            /\ \A b \in Addresses : address[b] # NotSavedYet => address'[b] # NotSavedYet
        BY <1>0, <3>1, AllUndefaulted
      <3> QED
        BY <2>1, <2>3, <2>4, <2>5, <2>6, <3>2, <3>3, CustomersInvAfter
    <2>7. CASE ~ isDefault
      <3>1. CustomersTypeOK' /\ UNCHANGED <<address, chosen>>
        BY <2>3, <2>7 DEF CustomersInv, CustomersTypeOK
      <3> QED
        BY <1>3, <1>4, <2>1, <2>3, <2>4, <2>5, <2>7, <3>1, CustomersInvAfter
    <2> QED
      BY <2>6, <2>7
  <1>12. CASE UpdateAddressSet(w)
    <2>1. call[w].op = "setAddress" /\ call[w] # Idle /\ call[w] \in CustomerCalls
      BY <1>3, <1>12 DEF UpdateAddressSet, Idle
    <2>2. PICK isDefault \in BOOLEAN, a \in Addresses :
             call[w] = [op |-> "setAddress", address |-> a, isDefault |-> isDefault]
      BY <2>1 DEF CustomerCalls
    <2>3. /\ address' = [address EXCEPT ![a].isDefault = isDefault]
          /\ chosen' = IF isDefault THEN a ELSE IF chosen = a THEN NoAddress ELSE chosen
          /\ Continue(w, Idle)
          /\ UNCHANGED profile
      BY <1>12, <2>2 DEF UpdateAddressSet, Finish
    <2>4. address[a] \in Address /\ (calm => a \in Present)
      BY <2>2 DEF CustomersInv, CustomersTypeOK
    <2> DEFINE row == [address[a] EXCEPT !.isDefault = isDefault]
    <2>5. row \in Address /\ row.isDefault = isDefault /\ row.deleted = address[a].deleted
      BY <2>4 DEF Address
    <2>6. address' = [address EXCEPT ![a] = row]
      BY <2>3
    <2> HIDE DEF row
    <2>7. /\ address' \in [Addresses -> {NotSavedYet} \cup Address]
          /\ \A b \in Addresses : address[b] # NotSavedYet => address'[b] # NotSavedYet
          /\ Defaults' = IF row.deleted \/ ~ row.isDefault THEN Defaults \ {a} ELSE Defaults \cup {a}
      BY <1>0, <2>5, <2>6, OneAddressChanged
    <2>8. CustomersTypeOK'
      BY <1>0, <2>3, <2>7 DEF CustomersTypeOK
    <2>9. MakesDefault(call[w]) <=> isDefault
      BY <2>2 DEF MakesDefault
    <2>10. serial => \A b, d \in Defaults' : b = d
      <3>1. serial /\ isDefault => Defaults = {}
        BY <2>9 DEF CustomersInv
      <3> QED
        BY <1>3, <2>1, <2>5, <2>7, <3>1
    <2>11. calm => Defaults' = Chosen'
      <3>1. calm => ~ row.deleted
        BY <2>4, <2>5 DEF Present
      <3>2. CASE isDefault
        <4>1. calm => Defaults = {}
          BY <2>9, <3>2 DEF CustomersInv, calm, serial
        <4>2. Chosen' = {a}
          BY <2>3, <3>2 DEF Chosen
        <4> QED
          BY <2>5, <2>7, <3>1, <3>2, <4>1, <4>2
      <3>3. CASE ~ isDefault
        <4>1. Chosen' = Chosen \ {a}
          BY <2>3, <3>3 DEF Chosen
        <4> QED
          BY <1>3, <2>1, <2>5, <2>7, <2>9, <3>3, <4>1
      <3> QED
        BY <3>2, <3>3
    <2> QED
      BY <1>5, <2>1, <2>3, <2>7, <2>8, <2>10, <2>11, CustomersInvAfter
  <1>13. ASSUME NEW a \in Addresses, DeleteAddress(w, a)
         PROVE  CustomersInv'
    <2> DEFINE c == [op |-> "delete", address |-> a]
    <2>1. c \in C /\ c.op = "delete" /\ c.address = a /\ ~ MakesDefault(c)
      BY DEF CustomerCalls, MakesDefault
    <2>2. MayStart(w) /\ Continue(w, c) /\ UNCHANGED customerVars /\ a \in Present
      BY <1>13 DEF DeleteAddress
    <2>3. CustomersTypeOK' /\ UNCHANGED <<address, chosen>> /\ address[a] # NotSavedYet
      BY <2>2 DEF customerVars, CustomersInv, CustomersTypeOK, Present
    <2> HIDE DEF c
    <2> QED
      BY <1>2, <1>4, <2>1, <2>2, <2>3, CustomersInvAfter
  <1>14. CASE SoftDelete(w)
    <2>1. call[w].op = "delete" /\ call[w] # Idle /\ call[w] \in CustomerCalls /\ ~ MakesDefault(call[w])
      BY <1>3, <1>14 DEF SoftDelete, Idle, MakesDefault
    <2>2. PICK a \in Addresses : call[w] = [op |-> "delete", address |-> a]
      BY <2>1 DEF CustomerCalls
    <2>3. /\ address' = [address EXCEPT ![a].deleted = TRUE]
          /\ chosen' = IF chosen = a THEN NoAddress ELSE chosen
          /\ Continue(w, Idle)
          /\ UNCHANGED profile
      BY <1>14, <2>2 DEF SoftDelete, Finish
    <2>4. address[a] \in Address
      BY <2>2 DEF CustomersInv, CustomersTypeOK
    <2> DEFINE row == [address[a] EXCEPT !.deleted = TRUE]
    <2>5. row \in Address /\ row.deleted
      BY <2>4 DEF Address
    <2>6. address' = [address EXCEPT ![a] = row]
      BY <2>3
    <2> HIDE DEF row
    <2>7. /\ address' \in [Addresses -> {NotSavedYet} \cup Address]
          /\ \A b \in Addresses : address[b] # NotSavedYet => address'[b] # NotSavedYet
          /\ Defaults' = Defaults \ {a}
      BY <1>0, <2>5, <2>6, OneAddressChanged
    <2>8. CustomersTypeOK'
      BY <1>0, <2>3, <2>7 DEF CustomersTypeOK
    <2>9. Chosen' = Chosen \ {a}
      BY <2>3 DEF Chosen
    <2> QED
      BY <1>3, <1>5, <2>1, <2>3, <2>7, <2>8, <2>9, CustomersInvAfter
  <1>15. CASE Crash(w) /\ UNCHANGED customerVars
    <2>1. ~ calm /\ call[w] # Idle /\ Continue(w, Idle)
      BY <1>15, CrashMoves
    <2>2. CustomersTypeOK' /\ UNCHANGED <<address, chosen>>
      BY <1>15 DEF customerVars, CustomersInv, CustomersTypeOK
    <2> QED
      BY <1>3, <1>4, <1>5, <2>1, <2>2, CustomersInvAfter
  <1> QED
    BY <1>1, <1>6, <1>7, <1>8, <1>9, <1>10, <1>11, <1>12, <1>13, <1>14, <1>15

LEMMA CustomersPromises == CustomersInv => SerialOneDefault /\ CalmDefaultIsChosen
  <1> SUFFICES ASSUME CustomersInv
               PROVE  SerialOneDefault /\ CalmDefaultIsChosen
    OBVIOUS
  <1>1. ASSUME serial
        PROVE  Cardinality(Defaults) <= 1
    <2>1. \A a, b \in Defaults : a = b
      BY <1>1 DEF CustomersInv
    <2>2. CASE Defaults = {}
      BY <2>2, FS_EmptySet
    <2>3. CASE \E a : Defaults = {a}
      BY <2>3, FS_Singleton
    <2> QED
      BY <2>1, <2>2, <2>3
  <1>2. calm /\ AtRest => Defaults = Chosen
    BY DEF CustomersInv, AtRest, MakesDefault, Idle
  <1> QED
    BY <1>1, <1>2 DEF SerialOneDefault, CalmDefaultIsChosen, Chosen

--------------------------------------------------------------------------------
(* Disputes.                                                                *)

\* While nobody races, a dispute that is about to be announced as resolved still is.
\* At most one review is stored, and its reviewer alone was thanked.
DisputesInv ==
    /\ DisputesTypeOK
    /\ call \in [Slots -> {Idle} \cup DisputeCalls]
    /\ OneRequest
    /\ reviews \in {0, 1} /\ thanked = reviews
    /\ \A w \in Slots : call[w].op = "resolved" => Opened
    /\ serial => \A w \in Slots : call[w].op = "resolved" => dispute.status = "RESOLVED"
    /\ SerialResolutionTold

LEMMA DisputesInvInit == RequestsInit /\ DisputesInit => DisputesInv
  BY DisputesAssumption
  DEF RequestsInit, DisputesInit, DisputesInv, DisputesTypeOK, OneRequest, SerialResolutionTold, Idle

\* A dispute that was opened keeps a status of the enum.
LEMMA DisputeRows ==
    ASSUME DisputesTypeOK, Opened
    PROVE  /\ dispute \in Dispute
           /\ [dispute EXCEPT !.status = "RESOLVED"] \in Dispute
           /\ [dispute EXCEPT !.status = "RESOLVED"].status = "RESOLVED"
           /\ dispute.status \in DisputeStatus
  <1>1. dispute \in Dispute
    BY DEF DisputesTypeOK, Opened
  <1> QED
    BY <1>1 DEF Dispute, DisputeStatus

LEMMA DisputesInvStep == DisputesInv /\ DisputesNext => DisputesInv'
  <1> SUFFICES ASSUME DisputesInv, DisputesNext
               PROVE  DisputesInv'
    OBVIOUS
  <1> USE DisputesAssumption
  <1> DEFINE C == {Idle} \cup DisputeCalls
  <1>1. \A row \in Dispute : row # NoDispute
    BY DEF Dispute, NoDispute, DisputeStatus
  <1>2. ASSUME NEW row \in Dispute, DisputeWrite(row)
        PROVE  DisputesInv'
    <2>1. /\ dispute' = row /\ row # NoDispute
          /\ call' = call /\ world' = world
          /\ UNCHANGED <<told, reviews, thanked>>
          /\ serial => \A w \in Slots : call[w] = Idle
      BY <1>1, <1>2 DEF DisputeWrite, NoRequest, AtRest
    <2>2. DisputesTypeOK'
      BY <2>1 DEF DisputesInv, DisputesTypeOK
    <2>3. serial' <=> serial
      BY <2>1 DEF serial
    <2> QED
      BY <2>1, <2>2, <2>3
      DEF DisputesInv, Opened, OneRequest, SerialResolutionTold, Idle
  <1>3. ASSUME NEW w \in Slots, NEW c \in C, Continue(w, c), MayStart(w) \/ call[w] # Idle,
               DisputesTypeOK', reviews' \in {0, 1}, thanked' = reviews',
               Opened => Opened', c.op = "resolved" => Opened',
               serial => /\ c.op = "resolved" => dispute'.status = "RESOLVED"
                         /\ told' \subseteq {"RESOLVED"}
        PROVE  DisputesInv'
    <2>1. call \in [Slots -> C] /\ OneRequest
      BY DEF DisputesInv
    <2>2. /\ call' \in [Slots -> C]
          /\ OneRequest'
          /\ call'[w] = c
          /\ world' = world
          /\ \A v \in Slots \ {w} : call'[v] = call[v]
          /\ serial => \A v \in Slots \ {w} : call[v] = Idle
      <3> HIDE DEF C
      <3> QED
        BY <1>3, <2>1, HandlerMoves
    <2>3. serial' <=> serial
      BY <2>2 DEF serial
    <2>4. \A v \in Slots : call'[v].op = "resolved" => Opened'
      BY <1>3, <2>2 DEF DisputesInv
    <2>5. serial' => \A v \in Slots : call'[v].op = "resolved" => dispute'.status = "RESOLVED"
      BY <1>3, <2>2, <2>3 DEF Idle
    <2> QED
      BY <1>3, <2>2, <2>3, <2>4, <2>5 DEF DisputesInv, SerialResolutionTold
  <1>4. Idle \in C /\ Idle.op = "idle"
    BY DEF Idle
  <1>5. /\ DisputesTypeOK
        /\ reviews \in {0, 1} /\ thanked = reviews
        /\ serial => told \subseteq {"RESOLVED"}
    BY DEF DisputesInv, SerialResolutionTold
  <1>6. CASE OpenDispute
    <2>1. [status |-> "OPEN", assignedAdmin |-> NoAdmin] \in Dispute
      BY DEF Dispute, DisputeStatus
    <2> QED
      BY <1>2, <1>6, <2>1 DEF OpenDispute
  <1>7. ASSUME NEW a \in Admins, AssignAdmin(a)
        PROVE  DisputesInv'
    <2>1. [status |-> "UNDER_REVIEW", assignedAdmin |-> a] \in Dispute
      BY DEF Dispute, DisputeStatus
    <2> QED
      BY <1>2, <1>7, <2>1 DEF AssignAdmin
  <1>8. ASSUME NEW w \in Slots, Resolve(w)
        PROVE  DisputesInv'
    <2> DEFINE c == [op |-> "resolved"]
    <2>1. c \in C
      BY DEF DisputeCalls
    <2>2. /\ MayStart(w) /\ Continue(w, c)
          /\ dispute' = [dispute EXCEPT !.status = "RESOLVED"]
          /\ UNCHANGED <<told, reviews, thanked>>
          /\ Opened
      BY <1>8 DEF Resolve
    <2>3. dispute' \in Dispute /\ dispute'.status = "RESOLVED"
      BY <1>5, <2>2, DisputeRows
    <2>4. Opened' /\ DisputesTypeOK'
      BY <1>1, <1>5, <2>2, <2>3 DEF DisputesTypeOK, Opened
    <2> HIDE DEF c
    <2> QED
      BY <1>3, <1>5, <2>1, <2>2, <2>3, <2>4
  <1>9. ASSUME NEW w \in Slots, ResolveTell(w)
        PROVE  DisputesInv'
    <2>1. /\ call[w].op = "resolved" /\ call[w] # Idle
          /\ told' = told \cup {dispute.status}
          /\ Continue(w, Idle)
          /\ UNCHANGED <<dispute, reviews, thanked>>
      BY <1>9 DEF ResolveTell, Finish, Idle
    <2>2. Opened /\ (serial => dispute.status = "RESOLVED")
      BY <2>1 DEF DisputesInv
    <2>3. DisputesTypeOK' /\ Opened'
      BY <1>5, <2>1, <2>2, DisputeRows DEF DisputesTypeOK, Opened
    <2> QED
      BY <1>3, <1>4, <1>5, <2>1, <2>2, <2>3
  <1>10. ASSUME NEW w \in Slots, Review(w)
         PROVE  DisputesInv'
    <2> DEFINE c == [op |-> "review"]
    <2>1. c \in C /\ c.op = "review"
      BY DEF DisputeCalls
    <2>2. MayStart(w) /\ Continue(w, c) /\ UNCHANGED disputeVars
      BY <1>10 DEF Review
    <2>3. DisputesTypeOK' /\ (Opened => Opened')
      BY <1>5, <2>2 DEF disputeVars, DisputesTypeOK, Opened
    <2> HIDE DEF c
    <2> QED
      BY <1>3, <1>5, <2>1, <2>2, <2>3 DEF disputeVars
  <1>11. ASSUME NEW w \in Slots, ReviewSave(w)
         PROVE  DisputesInv'
    <2>1. /\ call[w] # Idle
          /\ IF reviews = 0 THEN reviews' = 1 /\ thanked' = thanked + 1
                            ELSE UNCHANGED <<reviews, thanked>>
          /\ Continue(w, Idle)
          /\ UNCHANGED <<dispute, told>>
      BY <1>11 DEF ReviewSave, Finish, Idle
    <2>2. reviews' \in {0, 1} /\ thanked' = reviews' /\ reviews' \in 0 .. MaxRatings
      BY <1>5, <2>1 DEF DisputesTypeOK
    <2>3. DisputesTypeOK' /\ (Opened => Opened')
      BY <1>5, <2>1, <2>2 DEF DisputesTypeOK, Opened
    <2> QED
      BY <1>3, <1>4, <1>5, <2>1, <2>2, <2>3
  <1>12. ASSUME NEW w \in Slots, Crash(w), UNCHANGED disputeVars
         PROVE  DisputesInv'
    <2>1. Continue(w, Idle) /\ call[w] # Idle
      BY <1>12, CrashMoves
    <2>2. DisputesTypeOK' /\ (Opened => Opened')
      BY <1>5, <1>12 DEF disputeVars, DisputesTypeOK, Opened
    <2> QED
      BY <1>3, <1>4, <1>5, <1>12, <2>1, <2>2 DEF disputeVars
  <1> QED
    BY <1>6, <1>7, <1>8, <1>9, <1>10, <1>11, <1>12 DEF DisputesNext

LEMMA DisputesPromises == DisputesInv => SerialResolutionTold
  BY DEF DisputesInv

--------------------------------------------------------------------------------
(* Staff.                                                                   *)

AnyLinks == {x \in Staff \X Posts : link[x] # NoLink}
\* There are finitely many links, so that their number can date the next one, and a
\* request that changes a link has seen it.  In the calm world the active links
\* are the admin's, and a station that a request gives a user anew stays free.
StaffInv ==
    /\ StaffTypeOK
    /\ call \in [Slots -> {Idle} \cup StaffCalls]
    /\ OneRequest
    /\ IsFiniteSet(AnyLinks)
    /\ \A w \in Slots :
          call[w].op \in {"relink", "unlink"} => LinkTo(call[w].user, call[w].station) # NoLink
    /\ calm =>
          /\ \A u \in Staff : Assigned(u) = posted[u]
          /\ \A w \in Slots :
                call[w].op = "link" => LinkTo(call[w].user, call[w].station) = NoLink

LEMMA StaffInvInit == RequestsInit /\ StaffInit => StaffInv
  <1> SUFFICES ASSUME RequestsInit, StaffInit
               PROVE  StaffInv
    OBVIOUS
  <1>1. StaffTypeOK /\ AnyLinks = {}
    BY DEF StaffInit, StaffTypeOK, AnyLinks
  <1>2. \A u \in Staff : Assigned(u) = {} /\ posted[u] = {}
    BY DEF StaffInit, Assigned, LinkTo, NoLink
  <1>3. call \in [Slots -> {Idle} \cup StaffCalls] /\ \A w \in Slots : call[w] = Idle
    BY DEF RequestsInit
  <1>4. IsFiniteSet(AnyLinks)
    BY <1>1, FS_EmptySet
  <1> QED
    BY <1>1, <1>2, <1>3, <1>4 DEF StaffInv, OneRequest, Idle

\* The handler in w moves on; links that are there stay.
LEMMA StaffInvAfter ==
    ASSUME StaffInv, NEW w \in Slots, NEW c \in {Idle} \cup StaffCalls, Continue(w, c),
           MayStart(w) \/ call[w] # Idle,
           StaffTypeOK', IsFiniteSet(AnyLinks'),
           \A u \in Staff, s \in Posts : link[<<u, s>>] # NoLink => link'[<<u, s>>] # NoLink,
           c.op \in {"relink", "unlink"} => link'[<<c.user, c.station>>] # NoLink,
           calm =>
               /\ \A u \in Staff : Assigned(u)' = posted'[u]
               /\ c.op = "link" => link'[<<c.user, c.station>>] = NoLink
    PROVE  StaffInv'
  <1> DEFINE C == {Idle} \cup StaffCalls
  <1>1. /\ call' \in [Slots -> C]
        /\ OneRequest'
        /\ call'[w] = c
        /\ world' = world
        /\ \A v \in Slots \ {w} : call'[v] = call[v]
        /\ serial => \A v \in Slots \ {w} : call[v] = Idle
    <2>1. call \in [Slots -> C] /\ OneRequest /\ w \in Slots /\ c \in C
      BY DEF StaffInv
    <2>2. (MayStart(w) \/ call[w] # Idle) /\ Continue(w, c)
      OBVIOUS
    <2> HIDE DEF C
    <2> QED
      BY ONLY <2>1, <2>2, HandlerMoves
  <1>2. ASSUME NEW v \in Slots, call'[v].op \in {"relink", "unlink"}
        PROVE  link'[<<call'[v].user, call'[v].station>>] # NoLink
    <2>1. CASE v = w
      BY <1>1, <1>2, <2>1
    <2>2. CASE v # w
      <3>1. call'[v] = call[v] /\ call[v] \in StaffCalls
        BY <1>1, <1>2, <2>2 DEF StaffInv, Idle
      <3>2. call[v].user \in Staff /\ call[v].station \in Posts
        BY <3>1 DEF StaffCalls
      <3>3. link[<<call[v].user, call[v].station>>] # NoLink
        BY <1>2, <3>1 DEF StaffInv, LinkTo
      <3> QED
        BY <3>1, <3>2, <3>3
    <2> QED
      BY <2>1, <2>2
  <1>3. calm' => calm /\ \A v \in Slots \ {w} : call'[v] = Idle
    BY <1>1 DEF calm, serial
  <1>4. calm' =>
          /\ \A u \in Staff : Assigned(u)' = posted'[u]
          /\ \A v \in Slots :
                call'[v].op = "link" => link'[<<call'[v].user, call'[v].station>>] = NoLink
    BY <1>1, <1>3 DEF Idle
  <1> QED
    BY <1>1, <1>2, <1>4 DEF StaffInv, LinkTo

\* Saving one link.
LEMMA LinkSaved ==
    ASSUME StaffInv, NEW u \in Staff, NEW s \in Posts, NEW row \in GasStationStaff,
           link' = [link EXCEPT ![<<u, s>>] = row],
           posted' = [posted EXCEPT ![u] = IF row.isActive THEN @ \cup {s} ELSE @ \ {s}]
    PROVE  /\ StaffTypeOK'
           /\ IsFiniteSet(AnyLinks')
           /\ \A z \in Staff, t \in Posts : link[<<z, t>>] # NoLink => link'[<<z, t>>] # NoLink
           /\ calm => \A z \in Staff : Assigned(z)' = posted'[z]
  <1> USE StationStaffAssumption
  <1>1. row # NoLink
    BY DEF GasStationStaff, NoLink
  <1>2. StaffTypeOK'
    <2>1. link' \in [Staff \X Posts -> {NoLink} \cup GasStationStaff]
      BY DEF StaffInv, StaffTypeOK
    <2>2. posted' \in [Staff -> SUBSET Posts]
      BY DEF StaffInv, StaffTypeOK
    <2> QED
      BY <2>1, <2>2 DEF StaffTypeOK
  <1>3. \A z \in Staff, t \in Posts :
           link'[<<z, t>>] = IF z = u /\ t = s THEN row ELSE link[<<z, t>>]
    BY DEF StaffInv, StaffTypeOK
  <1>4. IsFiniteSet(AnyLinks')
    <2>1. AnyLinks' = AnyLinks \cup {<<u, s>>}
      <3>1. \A x \in Staff \X Posts : link'[x] = IF x = <<u, s>> THEN row ELSE link[x]
        BY DEF StaffInv, StaffTypeOK
      <3> QED
        BY <1>1, <3>1 DEF AnyLinks
    <2>2. IsFiniteSet(AnyLinks)
      BY DEF StaffInv
    <2> QED
      BY <2>1, <2>2, FS_AddElement
  <1>5. ASSUME calm, NEW z \in Staff
        PROVE  Assigned(z)' = posted'[z]
    <2>1. Assigned(z) = posted[z]
      BY <1>5 DEF StaffInv
    <2>2. CASE z = u
      <3>1. Assigned(u)' = IF row.isActive THEN Assigned(u) \cup {s} ELSE Assigned(u) \ {s}
        BY <1>3 DEF Assigned, LinkTo, GasStationStaff
      <3>2. posted'[u] = IF row.isActive THEN posted[u] \cup {s} ELSE posted[u] \ {s}
        BY DEF StaffInv, StaffTypeOK
      <3> QED
        BY <2>1, <2>2, <3>1, <3>2
    <2>3. CASE z # u
      <3>1. Assigned(z)' = Assigned(z)
        BY <1>3, <2>3 DEF Assigned, LinkTo
      <3>2. posted'[z] = posted[z]
        BY <2>3 DEF StaffInv, StaffTypeOK
      <3> QED
        BY <2>1, <3>1, <3>2
    <2> QED
      BY <2>2, <2>3
  <1> QED
    BY <1>1, <1>2, <1>3, <1>4, <1>5

LEMMA StaffInvStep == StaffInv /\ StaffNext => StaffInv'
  <1> SUFFICES ASSUME StaffInv, StaffNext
               PROVE  StaffInv'
    OBVIOUS
  <1> USE StationStaffAssumption
  <1> DEFINE C == {Idle} \cup StaffCalls
  <1>1. PICK w \in Slots :
           \/ \E u \in Staff, s \in Posts : AssignStaff(w, u, s) \/ RemoveStaff(w, u, s)
           \/ AssignSave(w) \/ Revive(w) \/ RemoveSave(w)
           \/ Crash(w) /\ UNCHANGED staffVars
    BY DEF StaffNext
  <1>2. ASSUME UNCHANGED staffVars
        PROVE  /\ StaffTypeOK' /\ IsFiniteSet(AnyLinks')
               /\ \A u \in Staff, s \in Posts : link[<<u, s>>] # NoLink => link'[<<u, s>>] # NoLink
               /\ calm => \A u \in Staff : Assigned(u)' = posted'[u]
    <2>1. link' = link /\ posted' = posted
      BY <1>2 DEF staffVars
    <2>2. AnyLinks' = AnyLinks
      BY <2>1 DEF AnyLinks
    <2>3. \A u \in Staff : Assigned(u)' = Assigned(u) /\ posted'[u] = posted[u]
      BY <2>1 DEF Assigned, LinkTo
    <2>4. StaffTypeOK'
      BY <2>1 DEF StaffInv, StaffTypeOK
    <2> QED
      BY <2>1, <2>2, <2>3, <2>4 DEF StaffInv
  <1>3. Idle \in C /\ Idle.op \notin {"link", "relink", "unlink"}
    BY DEF Idle
  <1>4. ASSUME NEW u \in Staff, NEW s \in Posts, AssignStaff(w, u, s)
        PROVE  StaffInv'
    <2> DEFINE c == [op |-> IF LinkTo(u, s) = NoLink THEN "link" ELSE "relink",
                     user |-> u, station |-> s]
    <2>1. MayStart(w) /\ Continue(w, c) /\ UNCHANGED staffVars
      BY <1>4 DEF AssignStaff
    <2>2. /\ c \in C /\ c.user = u /\ c.station = s
          /\ c.op \in {"link", "relink"}
          /\ c.op = "relink" => link[<<u, s>>] # NoLink
          /\ c.op = "link" => link[<<u, s>>] = NoLink
      BY DEF StaffCalls, LinkTo
    <2> HIDE DEF c
    <2>3. /\ c.op \in {"relink", "unlink"} => link'[<<c.user, c.station>>] # NoLink
          /\ c.op = "link" => link'[<<c.user, c.station>>] = NoLink
      BY <2>1, <2>2 DEF staffVars
    <2> QED
      BY <1>2, <2>1, <2>2, <2>3, StaffInvAfter
  <1>5. ASSUME NEW u \in Staff, NEW s \in Posts, RemoveStaff(w, u, s)
        PROVE  StaffInv'
    <2> DEFINE c == [op |-> "unlink", user |-> u, station |-> s]
    <2>1. /\ MayStart(w) /\ Continue(w, c) /\ UNCHANGED staffVars
          /\ link[<<u, s>>] # NoLink
      BY <1>5 DEF RemoveStaff, LinkTo
    <2>2. c \in C /\ c.user = u /\ c.station = s /\ c.op = "unlink"
      BY DEF StaffCalls
    <2> HIDE DEF c
    <2>3. /\ link'[<<c.user, c.station>>] # NoLink
          /\ c.op # "link"
      BY <2>1, <2>2 DEF staffVars
    <2> QED
      BY <1>2, <2>1, <2>2, <2>3, StaffInvAfter
  <1>6. CASE call[w] # Idle
    <2>1. PICK u \in Staff, s \in Posts : call[w].user = u /\ call[w].station = s
      BY <1>6 DEF StaffInv, StaffCalls
    <2>2. link[<<u, s>>] \in {NoLink} \cup GasStationStaff
      BY DEF StaffInv, StaffTypeOK
    <2>4. ASSUME NEW row \in GasStationStaff, SaveLink(w, row),
                 row.isActive <=> call[w].op # "unlink"
          PROVE  StaffInv'
      <3>1. /\ link' = [link EXCEPT ![<<u, s>>] = row]
            /\ posted' = [posted EXCEPT ![u] = IF row.isActive THEN @ \cup {s} ELSE @ \ {s}]
            /\ Continue(w, Idle)
        BY <2>1, <2>4 DEF SaveLink, Finish
      <3>2. /\ StaffTypeOK' /\ IsFiniteSet(AnyLinks')
            /\ \A z \in Staff, t \in Posts : link[<<z, t>>] # NoLink => link'[<<z, t>>] # NoLink
            /\ calm => \A z \in Staff : Assigned(z)' = posted'[z]
        BY <2>4, <3>1, LinkSaved
      <3> QED
        BY <1>3, <1>6, <3>1, <3>2, StaffInvAfter
    <2>5. CASE AssignSave(w)
      <3>1. CASE LinkTo(u, s) # NoLink
        <4>1. Continue(w, Idle) /\ UNCHANGED staffVars
          BY <2>1, <2>5, <3>1 DEF AssignSave, Finish
        <4> QED
          BY <1>2, <1>3, <1>6, <4>1, StaffInvAfter
      <3>2. CASE LinkTo(u, s) = NoLink
        <4> DEFINE row == [isActive |-> TRUE, since |-> NextSince]
        <4>1. NextSince \in Nat
          BY FS_CardinalityType DEF StaffInv, AnyLinks, NextSince
        <4>2. row \in GasStationStaff /\ row.isActive
          BY <4>1 DEF GasStationStaff
        <4>3. SaveLink(w, row)
          BY <2>1, <2>5, <3>2 DEF AssignSave
        <4>4. call[w].op # "unlink"
          BY <2>5 DEF AssignSave
        <4> HIDE DEF row
        <4> QED
          BY <2>4, <4>2, <4>3, <4>4
      <3> QED
        BY <3>1, <3>2
    <2>6. CASE Revive(w)
      <3> DEFINE row == [link[<<u, s>>] EXCEPT !.isActive = TRUE]
      <3>1. SaveLink(w, row) /\ call[w].op = "relink"
        BY <2>1, <2>6 DEF Revive, LinkTo
      <3>2. link[<<u, s>>] \in GasStationStaff
        BY <2>1, <2>2, <3>1 DEF StaffInv, LinkTo
      <3>3. row \in GasStationStaff /\ row.isActive
        BY <3>2 DEF GasStationStaff
      <3> HIDE DEF row
      <3> QED
        BY <2>4, <3>1, <3>3
    <2>7. CASE RemoveSave(w)
      <3> DEFINE row == [link[<<u, s>>] EXCEPT !.isActive = FALSE]
      <3>1. SaveLink(w, row) /\ call[w].op = "unlink"
        BY <2>1, <2>7 DEF RemoveSave, LinkTo
      <3>2. link[<<u, s>>] \in GasStationStaff
        BY <2>1, <2>2, <3>1 DEF StaffInv, LinkTo
      <3>3. row \in GasStationStaff /\ ~ row.isActive
        BY <3>2 DEF GasStationStaff
      <3> HIDE DEF row
      <3> QED
        BY <2>4, <3>1, <3>3
    <2>8. CASE Crash(w) /\ UNCHANGED staffVars
      BY <1>2, <1>3, <2>8, CrashMoves, StaffInvAfter
    <2> QED
      BY <1>1, <1>4, <1>5, <2>5, <2>6, <2>7, <2>8
  <1>7. CASE call[w] = Idle
    BY <1>1, <1>4, <1>5, <1>7 DEF AssignSave, Revive, RemoveSave, Crash, Idle
  <1> QED
    BY <1>6, <1>7

\* Among finitely many links there is a newest.
LEMMA NewestLink ==
    ASSUME StaffInv, NEW u \in Staff, Assigned(u) # {}
    PROVE  \E s \in Assigned(u) :
               \A t \in Assigned(u) : LinkTo(u, t).since <= LinkTo(u, s).since
  <1> DEFINE Newer(s) == {t \in Assigned(u) : LinkTo(u, t).since > LinkTo(u, s).since}
  <1>1. \A s \in Assigned(u) : LinkTo(u, s).since \in Nat
    <2> SUFFICES ASSUME NEW s \in Posts, LinkTo(u, s).isActive
                 PROVE  LinkTo(u, s).since \in Nat
      BY DEF Assigned
    <2>1. link[<<u, s>>] \in GasStationStaff
      BY DEF StaffInv, StaffTypeOK, LinkTo, NoLink
    <2> QED
      BY <2>1 DEF LinkTo, GasStationStaff
  <1>2. IsFiniteSet(Assigned(u))
    <2> DEFINE H == [x \in AnyLinks |-> x[2]]
               R == {H[x] : x \in AnyLinks}
    <2>1. IsFiniteSet(R)
      <3>1. IsFiniteSet(AnyLinks)
        BY DEF StaffInv
      <3>2. H \in Surjection(AnyLinks, R)
        BY DEF Surjection
      <3> QED
        BY <3>1, <3>2, FS_Surjection
    <2>2. Assigned(u) \subseteq R
      <3> SUFFICES ASSUME NEW s \in Assigned(u)
                   PROVE  \E x \in AnyLinks : H[x] = s
        OBVIOUS
      <3>1. s \in Posts /\ <<u, s>> \in AnyLinks
        BY DEF Assigned, AnyLinks, LinkTo, NoLink
      <3>2. H[<<u, s>>] = s
        BY <3>1
      <3> QED
        BY <3>1, <3>2
    <2> HIDE DEF R
    <2> QED
      BY <2>1, <2>2, FS_Subset
  <1> DEFINE A == Assigned(u)
             T == {Newer(s) : s \in A}
  <1>3. PICK v \in T : \A z \in T : ~ (<<z, v>> \in StrictSubsetOrdering(A))
    <2>1. IsWellFoundedOn(StrictSubsetOrdering(A), SUBSET A)
      BY <1>2, FS_StrictSubsetOrderingWellFounded, FS_FiniteSubsetsOfFinite
    <2>2. T \subseteq SUBSET A /\ T # {}
      OBVIOUS
    <2> HIDE DEF A, T
    <2> QED
      BY <2>1, <2>2, WFMin
  <1>4. PICK s \in A : v = Newer(s)
    OBVIOUS
  <1>5. Newer(s) = {}
    <2> SUFFICES ASSUME NEW t \in Newer(s)
                 PROVE  FALSE
      OBVIOUS
    <2>1. t \in A /\ LinkTo(u, t).since > LinkTo(u, s).since
      OBVIOUS
    <2>2. Newer(t) \subseteq Newer(s) /\ t \notin Newer(t)
      BY <1>1, <2>1
    <2>3. <<Newer(t), v>> \in StrictSubsetOrdering(A)
      BY <1>4, <2>2 DEF StrictSubsetOrdering
    <2> QED
      BY <1>3, <2>1, <2>3
  <1> QED
    BY <1>1, <1>4, <1>5

\* The console finds one of the stations a user is assigned to, if there is any.
LEMMA StaffPromises == StaffInv => CalmScopeFollowsAdmin
  <1> SUFFICES ASSUME StaffInv, calm, NEW u \in Staff
               PROVE  IF posted[u] = {} THEN Resolved(u) = NoPost ELSE Resolved(u) \in posted[u]
    BY DEF CalmScopeFollowsAdmin
  <1>1. Assigned(u) = posted[u]
    BY DEF StaffInv
  <1>2. CASE posted[u] = {}
    BY <1>1, <1>2 DEF Resolved
  <1>3. CASE posted[u] # {}
    <2> DEFINE newest(s) == \A t \in Assigned(u) : LinkTo(u, t).since <= LinkTo(u, s).since
    <2>1. \E s \in Assigned(u) : newest(s)
      BY <1>1, <1>3, NewestLink
    <2>2. Resolved(u) = CHOOSE s \in Assigned(u) : newest(s)
      BY <1>1, <1>3 DEF Resolved
    <2> HIDE DEF newest
    <2> QED
      BY <1>1, <1>3, <2>1, <2>2
  <1> QED
    BY <1>2, <1>3

--------------------------------------------------------------------------------
(* Sessions.                                                                *)

\* What the rotation rests on: a handler that issues a token for another has
\* ended that other one, and so has whoever issued one before.
RevokedBefore(c, state) ==
    c.op \in {"issue", "answer"} /\ c.from # NoToken => state[c.from] = "revoked"

\* While requests wait for each other, a token is revoked by the request that found
\* it good, and nobody has got a token for it by then.
OnceInSerial(c, state, from) ==
    /\ c.op = "revoke" => state[c.from] # "revoked"
    /\ c.op = "issue" /\ c.from # NoToken => \A t \in Tokens : from[t] # c.from

\* The cookie is a token nothing was exchanged for, except while the answer that
\* replaces it is on its way with such a token.
NewestInCalm(c, from, held) ==
    /\ c.op = "answer" => \A t \in Tokens : from[t] # c.token
    /\ held # NoToken => \A t \in Tokens : from[t] = held => c.op = "answer" /\ c.from = held

SessionsInv ==
    /\ SessionsTypeOK
    /\ call \in [Slots -> SessionCalls]
    /\ OneRequest
    /\ ParentsAreRevoked
    /\ \A w \in Slots : RevokedBefore(call[w], token)
    /\ serial => ExchangedOnce /\ \A w \in Slots : OnceInSerial(call[w], token, parent)
    /\ calm =>
          /\ \A w \in Slots : call[w] # Idle => NewestInCalm(call[w], parent, cookie)
          /\ AtRest => NewestInCalm(Idle, parent, cookie)

\* The fields of each kind of request.
LEMMA SessionFields ==
    ASSUME SessionsInv, NEW w \in Slots
    PROVE  /\ call[w].op = "revoke" => call[w].from \in Tokens
           /\ call[w].op \in {"issue", "answer"} => call[w].from \in Cookies
           /\ call[w].op = "answer" => call[w].token \in Tokens
  <1>1. call[w] \in SessionCalls
    BY DEF SessionsInv
  <1> QED
    BY <1>1 DEF SessionCalls, Idle

\* What the invariant says of the moment a request starts or goes on.
LEMMA SessionsNow ==
    ASSUME SessionsInv, NEW w \in Slots, MayStart(w) \/ call[w] # Idle
    PROVE  /\ RevokedBefore(call[w], token)
           /\ serial => ExchangedOnce /\ OnceInSerial(call[w], token, parent)
           /\ calm => serial /\ NewestInCalm(call[w], parent, cookie)
  <1>1. calm => serial
    BY DEF calm, serial
  <1>2. calm /\ MayStart(w) => AtRest /\ call[w] = Idle
    BY <1>1 DEF MayStart
  <1> QED
    BY <1>1, <1>2 DEF SessionsInv

\* A handler goes on to c, and no token that was revoked is so no longer.
LEMMA SessionsInvAfter ==
    ASSUME SessionsInv, NEW w \in Slots, NEW c \in SessionCalls, Continue(w, c),
           MayStart(w) \/ call[w] # Idle,
           SessionsTypeOK',
           \A t \in Tokens : token[t] = "revoked" => token'[t] = "revoked",
           ParentsAreRevoked',
           RevokedBefore(c, token'),
           serial => ExchangedOnce' /\ OnceInSerial(c, token', parent'),
           calm => NewestInCalm(c, parent', cookie')
    PROVE  SessionsInv'
  <1>1. /\ call' \in [Slots -> SessionCalls]
        /\ OneRequest'
        /\ call'[w] = c
        /\ world' = world
        /\ \A v \in Slots \ {w} : call'[v] = call[v]
        /\ serial => \A v \in Slots \ {w} : call[v] = Idle
    <2>1. call \in [Slots -> SessionCalls] /\ OneRequest /\ w \in Slots /\ c \in SessionCalls
      BY DEF SessionsInv
    <2>2. (MayStart(w) \/ call[w] # Idle) /\ Continue(w, c)
      OBVIOUS
    <2> QED
      BY ONLY <2>1, <2>2, HandlerMoves
  <1>2. ASSUME NEW v \in Slots
        PROVE  RevokedBefore(call'[v], token')
    <2>1. CASE v = w
      BY <1>1, <2>1
    <2>2. CASE v # w
      <3>1. call'[v] = call[v] /\ RevokedBefore(call[v], token)
        BY <1>1, <2>2 DEF SessionsInv
      <3> QED
        BY <3>1, SessionFields DEF RevokedBefore, Cookies
    <2> QED
      BY <2>1, <2>2
  <1>3. serial' => serial /\ \A v \in Slots : call'[v] = IF v = w THEN c ELSE Idle
    BY <1>1 DEF serial
  <1>4. calm' => calm /\ serial'
    BY <1>1 DEF calm, serial
  <1>5. OnceInSerial(Idle, token', parent')
    BY DEF OnceInSerial, Idle
  <1>6. serial' => ExchangedOnce' /\ \A v \in Slots : OnceInSerial(call'[v], token', parent')
    BY <1>3, <1>5
  <1>7. calm' =>
          /\ \A v \in Slots : call'[v] # Idle => NewestInCalm(call'[v], parent', cookie')
          /\ AtRest' => NewestInCalm(Idle, parent', cookie')
    <2>1. AtRest' => call'[w] = Idle
      BY DEF AtRest
    <2> QED
      BY <1>1, <1>3, <1>4, <2>1
  <1> QED
    BY <1>1, <1>2, <1>6, <1>7
    DEF SessionsInv, OnceInSerial, NewestInCalm, RevokedBefore

LEMMA SessionsInvInit == RequestsInit /\ SessionsInit => SessionsInv
  <1> SUFFICES ASSUME RequestsInit, SessionsInit
               PROVE  SessionsInv
    OBVIOUS
  <1> USE SessionsAssumption
  <1>1. SessionsTypeOK /\ ParentsAreRevoked /\ ExchangedOnce
    BY DEF SessionsInit, SessionsTypeOK, ParentsAreRevoked, ExchangedOnce, TokenState, Cookies
  <1>2. call \in [Slots -> SessionCalls] /\ \A w \in Slots : call[w] = Idle
    BY DEF RequestsInit, SessionCalls
  <1>3. RevokedBefore(Idle, token) /\ OnceInSerial(Idle, token, parent)
    BY DEF RevokedBefore, OnceInSerial, Idle
  <1>4. NewestInCalm(Idle, parent, cookie)
    BY DEF NewestInCalm, Idle, SessionsInit
  <1> QED
    BY <1>1, <1>2, <1>3, <1>4 DEF SessionsInv, OneRequest

LEMMA SessionsInvStutters ==
    SessionsInv /\ UNCHANGED <<world, call, sessionVars>> => SessionsInv'
  BY DEF sessionVars, SessionsInv, SessionsTypeOK, OneRequest, ParentsAreRevoked, RevokedBefore,
         OnceInSerial, NewestInCalm, ExchangedOnce, AtRest, serial, calm

\* Tokens end, and nothing else changes but who is signed in.
LEMMA TokensEnd ==
    ASSUME SessionsInv, SessionsTypeOK', call' = call, world' = world, parent' = parent,
           cookie' \in {cookie, NoToken},
           \A t \in Tokens : token[t] = "revoked" => token'[t] = "revoked",
           serial => \/ AtRest
                     \/ \A t \in Tokens : token'[t] = "revoked" => token[t] = "revoked"
    PROVE  SessionsInv'
  <1>1. ParentsAreRevoked'
    BY DEF SessionsInv, SessionsTypeOK, ParentsAreRevoked, Cookies
  <1>2. \A v \in Slots : RevokedBefore(call'[v], token')
    BY SessionFields DEF RevokedBefore, SessionsInv, Cookies
  <1>3. serial' <=> serial
    BY DEF serial
  <1>4. ExchangedOnce' <=> ExchangedOnce
    BY DEF ExchangedOnce
  <1>5. ASSUME serial, NEW v \in Slots
        PROVE  OnceInSerial(call'[v], token', parent')
    <2>1. CASE AtRest
      BY <2>1 DEF AtRest, OnceInSerial, Idle
    <2>2. CASE ~ AtRest
      <3>1. OnceInSerial(call[v], token, parent)
        BY <1>5 DEF SessionsInv
      <3> QED
        BY <1>5, <2>2, <3>1, SessionFields DEF OnceInSerial
    <2> QED
      BY <2>1, <2>2
  <1>6. ASSUME calm', NEW c, NewestInCalm(c, parent, cookie)
        PROVE  NewestInCalm(c, parent', cookie')
    BY <1>6 DEF NewestInCalm
  <1>7. calm' <=> calm
    BY DEF calm
  <1>8. calm' =>
          /\ \A v \in Slots : call'[v] # Idle => NewestInCalm(call'[v], parent', cookie')
          /\ AtRest' => NewestInCalm(Idle, parent', cookie')
    BY <1>6, <1>7 DEF SessionsInv, AtRest
  <1> QED
    BY <1>1, <1>2, <1>3, <1>4, <1>5, <1>8
    DEF SessionsInv, OneRequest, OnceInSerial, NewestInCalm, RevokedBefore

\* A handler that issues no token and leaves the cookie alone or clears it.
LEMMA SessionsMove ==
    ASSUME SessionsInv, NEW w \in Slots, NEW c \in SessionCalls, Continue(w, c),
           MayStart(w) \/ call[w] # Idle,
           SessionsTypeOK', parent' = parent, cookie' \in {cookie, NoToken},
           \A t \in Tokens : token[t] = "revoked" => token'[t] = "revoked",
           RevokedBefore(c, token'),
           serial => OnceInSerial(c, token', parent'),
           calm => call[w].op # "answer" /\ c.op # "answer"
    PROVE  SessionsInv'
  <1>1. ParentsAreRevoked'
    BY DEF SessionsInv, SessionsTypeOK, ParentsAreRevoked, Cookies
  <1>2. serial => ExchangedOnce'
    BY SessionsNow DEF ExchangedOnce
  <1>3. calm => NewestInCalm(c, parent', cookie')
    <2>1. calm => NewestInCalm(call[w], parent, cookie)
      BY SessionsNow
    <2> QED
      BY <2>1 DEF NewestInCalm
  <1> QED
    BY <1>1, <1>2, <1>3, SessionsInvAfter

LEMMA SessionsInvStep == SessionsInv /\ SessionsNext => SessionsInv'
  <1> SUFFICES ASSUME SessionsInv, SessionsNext
               PROVE  SessionsInv'
    OBVIOUS
  <1> USE SessionsAssumption
  <1>1. ASSUME NEW w \in Slots, LoginAccepted(w)
        PROVE  SessionsInv'
    <2> DEFINE c == [op |-> "issue", from |-> NoToken]
    <2>1. c \in SessionCalls /\ c.op = "issue" /\ c.from = NoToken
      BY DEF SessionCalls, Cookies
    <2>2. MayStart(w) /\ Continue(w, c) /\ UNCHANGED sessionVars
      BY <1>1 DEF LoginAccepted
    <2>3. SessionsTypeOK' /\ token' = token /\ parent' = parent /\ cookie' = cookie
      BY <2>2 DEF sessionVars, SessionsInv, SessionsTypeOK
    <2>4. calm => call[w].op # "answer"
      BY <2>2 DEF MayStart, Idle
    <2> HIDE DEF c
    <2>5. RevokedBefore(c, token') /\ OnceInSerial(c, token', parent')
      BY <2>1 DEF RevokedBefore, OnceInSerial
    <2> QED
      BY <2>1, <2>2, <2>3, <2>4, <2>5, SessionsMove
  <1>2. ASSUME NEW w \in Slots, Refresh(w)
        PROVE  SessionsInv'
    <2>1. cookie \in Tokens /\ token[cookie] = "live"
      BY <1>2 DEF Refresh, Exchangeable, SessionsInv, SessionsTypeOK, Cookies
    <2>2. PICK t \in Tokens : t = cookie
      BY <2>1
    <2> DEFINE c == [op |-> "revoke", from |-> t]
    <2>3. c \in SessionCalls /\ c.op = "revoke" /\ c.from = t
      BY DEF SessionCalls
    <2>4. MayStart(w) /\ Continue(w, c) /\ UNCHANGED sessionVars
      BY <1>2, <2>2 DEF Refresh
    <2>5. SessionsTypeOK' /\ token' = token /\ parent' = parent /\ cookie' = cookie
      BY <2>4 DEF sessionVars, SessionsInv, SessionsTypeOK
    <2>6. calm => call[w].op # "answer"
      BY <2>4 DEF MayStart, Idle
    <2> HIDE DEF c
    <2>7. RevokedBefore(c, token') /\ OnceInSerial(c, token', parent')
      BY <2>1, <2>2, <2>3, <2>5 DEF RevokedBefore, OnceInSerial
    <2> QED
      BY <2>3, <2>4, <2>5, <2>6, <2>7, SessionsMove
  <1>3. ASSUME NEW w \in Slots, RefreshRefused(w)
        PROVE  SessionsInv'
    <2>1. SessionsTypeOK'
      BY <1>3 DEF RefreshRefused, SessionsInv, SessionsTypeOK, TokenState
    <2>2. \A t \in Tokens : token[t] = "revoked" => token'[t] = "revoked"
      BY <1>3 DEF RefreshRefused
    <2>3. call' = call /\ world' = world /\ parent' = parent /\ cookie' = cookie
      BY <1>3 DEF RefreshRefused
    <2>4. serial => AtRest
      BY <1>3 DEF RefreshRefused, MayStart
    <2> QED
      BY <2>1, <2>2, <2>3, <2>4, TokensEnd
  <1>4. ASSUME NEW w \in Slots, RefreshRevoke(w)
        PROVE  SessionsInv'
    <2>1. /\ call[w].op = "revoke" /\ call[w] # Idle
          /\ token' = [token EXCEPT ![call[w].from] = "revoked"]
          /\ UNCHANGED <<parent, cookie, signedIn>>
      BY <1>4 DEF RefreshRevoke, Idle
    <2>2. PICK t \in Tokens : t = call[w].from
      BY <2>1, SessionFields
    <2> DEFINE c == [op |-> "issue", from |-> t]
    <2>3. c \in SessionCalls /\ c.op = "issue" /\ c.from = t /\ Continue(w, c)
      BY <1>4, <2>2 DEF RefreshRevoke, SessionCalls, Cookies
    <2> HIDE DEF c
    <2>4. /\ SessionsTypeOK'
          /\ \A u \in Tokens : token[u] = "revoked" => token'[u] = "revoked"
          /\ token'[t] = "revoked"
      BY <2>1, <2>2 DEF SessionsInv, SessionsTypeOK, TokenState
    <2>5. RevokedBefore(c, token')
      BY <2>3, <2>4 DEF RevokedBefore
    <2>6. serial => OnceInSerial(c, token', parent')
      <3>1. ASSUME serial, NEW u \in Tokens
            PROVE  parent[u] # t
        <4>1. token[t] # "revoked"
          BY <2>1, <2>2, <3>1, SessionsNow DEF OnceInSerial
        <4> QED
          BY <4>1 DEF SessionsInv, ParentsAreRevoked
      <3> QED
        BY <2>1, <2>3, <3>1 DEF OnceInSerial
    <2> QED
      BY <2>1, <2>3, <2>4, <2>5, <2>6, SessionsMove
  <1>5. ASSUME NEW w \in Slots, GenerateTokens(w)
        PROVE  SessionsInv'
    <2>1. call[w].op = "issue" /\ call[w] # Idle /\ UNCHANGED <<cookie, signedIn>>
      BY <1>5 DEF GenerateTokens, Idle
    <2>2. PICK p \in Cookies : p = call[w].from
      BY <2>1, SessionFields
    <2>3. PICK t \in Tokens :
             /\ \A u \in Tokens : token[u] = "absent" <=> u >= t
             /\ token' = [token EXCEPT ![t] = "live"]
             /\ parent' = [parent EXCEPT ![t] = p]
             /\ Continue(w, [op |-> "answer", from |-> p, token |-> t])
      BY <1>5, <2>2 DEF GenerateTokens
    <2> DEFINE c == [op |-> "answer", from |-> p, token |-> t]
    <2>4. /\ c \in SessionCalls /\ c.op = "answer" /\ c.from = p /\ c.token = t
          /\ Continue(w, c)
      BY <2>3 DEF SessionCalls
    <2> HIDE DEF c
    <2>5. token[t] = "absent"
      BY <2>3 DEF Tokens
    <2>6. \A u \in Tokens : token[u] = "revoked" => token'[u] = "revoked"
      BY <2>3, <2>5 DEF SessionsInv, SessionsTypeOK
    <2>7. p # NoToken => p \in Tokens /\ token[p] = "revoked" /\ token'[p] = "revoked"
      BY <2>1, <2>2, <2>6 DEF SessionsInv, RevokedBefore, Cookies
    <2>8. SessionsTypeOK'
      BY <2>1, <2>3 DEF SessionsInv, SessionsTypeOK, TokenState
    <2>9. \A u \in Tokens : parent'[u] = IF u = t THEN p ELSE parent[u]
      BY <2>3 DEF SessionsInv, SessionsTypeOK
    <2>10. ASSUME NEW u \in Tokens, parent[u] # NoToken
           PROVE  parent[u] \in Tokens /\ token[parent[u]] = "revoked"
      BY <2>10 DEF SessionsInv, SessionsTypeOK, ParentsAreRevoked, Cookies
    <2>11. ParentsAreRevoked'
      BY <2>6, <2>7, <2>9, <2>10 DEF ParentsAreRevoked
    <2>12. RevokedBefore(c, token')
      BY <2>4, <2>7 DEF RevokedBefore
    <2>13. serial => ExchangedOnce' /\ OnceInSerial(c, token', parent')
      <3>1. serial => ExchangedOnce /\ (p # NoToken => \A u \in Tokens : parent[u] # p)
        BY <2>1, <2>2, SessionsNow DEF OnceInSerial
      <3> QED
        BY <2>4, <2>9, <3>1 DEF ExchangedOnce, OnceInSerial
    <2>14. calm => NewestInCalm(c, parent', cookie')
      <3>1. \A u \in Tokens : parent'[u] # t
        BY <2>5, <2>7, <2>9, <2>10
      <3>2. ASSUME calm, cookie # NoToken, NEW u \in Tokens, parent'[u] = cookie
            PROVE  p = cookie
        <4>1. NewestInCalm(call[w], parent, cookie)
          BY <2>1, <3>2, SessionsNow
        <4> QED
          BY <2>1, <2>9, <3>2, <4>1 DEF NewestInCalm
      <3> QED
        BY <2>1, <2>4, <3>1, <3>2 DEF NewestInCalm
    <2> QED
      BY <2>1, <2>4, <2>6, <2>8, <2>11, <2>12, <2>13, <2>14, SessionsInvAfter
  <1>6. ASSUME NEW w \in Slots, Answer(w)
        PROVE  SessionsInv'
    <2>1. /\ call[w].op = "answer" /\ call[w] # Idle
          /\ cookie' = call[w].token /\ signedIn' = signedIn \cup {w}
          /\ Continue(w, Idle)
          /\ UNCHANGED <<token, parent>>
      BY <1>6 DEF Answer, Finish, Idle
    <2>2. call[w].token \in Tokens
      BY <2>1, SessionFields
    <2>3. SessionsTypeOK' /\ ParentsAreRevoked' /\ (ExchangedOnce' <=> ExchangedOnce)
      BY <2>1, <2>2
      DEF SessionsInv, SessionsTypeOK, ParentsAreRevoked, ExchangedOnce, Cookies
    <2>4. Idle \in SessionCalls /\ RevokedBefore(Idle, token') /\ OnceInSerial(Idle, token', parent')
      BY DEF SessionCalls, RevokedBefore, OnceInSerial, Idle
    <2>5. calm => NewestInCalm(Idle, parent', cookie')
      <3>1. calm => NewestInCalm(call[w], parent, cookie)
        BY <2>1, SessionsNow
      <3> QED
        BY <2>1, <3>1 DEF NewestInCalm, Idle
    <2>6. serial => ExchangedOnce'
      BY <2>1, <2>3, SessionsNow
    <2> QED
      BY <2>1, <2>3, <2>4, <2>5, <2>6, SessionsInvAfter
  <1>7. ASSUME NEW w \in Slots, Logout(w)
        PROVE  SessionsInv'
    <2> DEFINE c == [op |-> "cleared"]
    <2>1. c \in SessionCalls /\ c.op = "cleared"
      BY DEF SessionCalls
    <2>2. MayStart(w) /\ Continue(w, c) /\ UNCHANGED <<parent, cookie, signedIn>>
      BY <1>7 DEF Logout
    <2>3. SessionsTypeOK' /\ \A t \in Tokens : token[t] = "revoked" => token'[t] = "revoked"
      BY <1>7 DEF Logout, SessionsInv, SessionsTypeOK, TokenState
    <2>4. calm => call[w].op # "answer"
      BY <2>2 DEF MayStart, Idle
    <2> HIDE DEF c
    <2>5. RevokedBefore(c, token') /\ OnceInSerial(c, token', parent')
      BY <2>1 DEF RevokedBefore, OnceInSerial
    <2> QED
      BY <2>1, <2>2, <2>3, <2>4, <2>5, SessionsMove
  <1>8. ASSUME NEW w \in Slots, LogoutAnswer(w) \/ SessionCrash(w)
        PROVE  SessionsInv'
    <2>1. /\ call[w] # Idle /\ Continue(w, Idle)
          /\ token' = token /\ parent' = parent /\ cookie' \in {cookie, NoToken}
          /\ calm => call[w].op # "answer"
      BY <1>8, CrashMoves DEF LogoutAnswer, SessionCrash, Finish, Idle
    <2>2. SessionsTypeOK'
      BY <1>8, <2>1 DEF LogoutAnswer, SessionCrash, SessionsInv, SessionsTypeOK, Cookies
    <2>3. /\ Idle \in SessionCalls /\ Idle.op # "answer"
          /\ RevokedBefore(Idle, token') /\ OnceInSerial(Idle, token', parent')
      BY DEF SessionCalls, RevokedBefore, OnceInSerial, Idle
    <2> QED
      BY <2>1, <2>2, <2>3, SessionsMove
  <1>9. ASSUME NEW w \in Slots, SignOut(w)
        PROVE  SessionsInv'
    <2>1. SessionsTypeOK'
      BY <1>9 DEF SignOut, SessionsInv, SessionsTypeOK
    <2> QED
      BY <1>9, <2>1, TokensEnd DEF SignOut
  <1>10. CASE Expire
    <2>1. /\ call' = call /\ world' = world /\ parent' = parent
          /\ cookie' \in {cookie, NoToken}
      BY <1>10 DEF Expire
    <2>2. \A t \in Tokens : token[t] = "revoked" <=> token'[t] = "revoked"
      BY <1>10 DEF Expire, SessionsInv, SessionsTypeOK
    <2>3. SessionsTypeOK'
      BY <1>10, <2>1 DEF Expire, SessionsInv, SessionsTypeOK, TokenState, Cookies
    <2> QED
      BY <2>1, <2>2, <2>3, TokensEnd
  <1> QED
    BY <1>1, <1>2, <1>3, <1>4, <1>5, <1>6, <1>7, <1>8, <1>9, <1>10 DEF SessionsNext

LEMMA SessionsPromises ==
    SessionsInv => ParentsAreRevoked /\ SerialExchangedOnce /\ CalmCookieIsNewest
  BY DEF SessionsInv, SerialExchangedOnce, CalmCookieIsNewest, NewestInCalm, Idle

\* Type correctness of the sessions, their requests included.
THEOREM SessionsTypeCorrect ==
    SessionsSpec => [](SessionsTypeOK /\ call \in [Slots -> SessionCalls])
  <1>1. SessionsInv => SessionsTypeOK /\ call \in [Slots -> SessionCalls]
    BY DEF SessionsInv
  <1>2. SessionsInv /\ [SessionsNext]_<<world, call, sessionVars>> => SessionsInv'
    BY SessionsInvStep, SessionsInvStutters
  <1> QED
    BY <1>1, <1>2, SessionsInvInit, PTL DEF SessionsSpec

\* Token rotation: whichever tabs refresh at once and wherever pods crash, a token
\* that was exchanged for another one is revoked and stays so.
THEOREM ParentsAreRevokedHolds == SessionsSpec => []ParentsAreRevoked
  <1>1. SessionsInv => ParentsAreRevoked
    BY DEF SessionsInv
  <1>2. SessionsInv /\ [SessionsNext]_<<world, call, sessionVars>> => SessionsInv'
    BY SessionsInvStep, SessionsInvStutters
  <1> QED
    BY <1>1, <1>2, SessionsInvInit, PTL DEF SessionsSpec

--------------------------------------------------------------------------------
(* Accounts.                                                                *)

\* What a handler relies on: the account exists, what it counts on from leaves room
\* for one more, and the code it was given is one that was sent.
Grounded(c, state) ==
    /\ c.op \in {"password", "failed", "succeeded", "invalidate", "saveOtp", "mark",
                 "accept", "refuse"} => Registered
    /\ c.op = "failed" => c.attempts < MaxFailures
    /\ c.op = "refuse" => c.attempts < MAX_OTP_ATTEMPTS
    /\ c.op \in {"accept", "refuse"} => state[c.code] # NoOtp

\* While requests wait for each other, a code is saved when no other can be used.
FreshInSerial(c, unused) == c.op = "saveOtp" => unused = {}

\* While nobody races or fails, a login counts on from the failures there were, on an
\* account that is not locked, and the counter is behind by the failure that is
\* being booked.
CountInCalm(c, row, n) ==
    /\ c.op \in {"password", "failed"} => ~ row.locked
    /\ c.op = "password" => c.attempts = n
    /\ c.op = "failed" => c.attempts + 1 = n
    /\ c.op # "failed" /\ row # NoUser =>
          row.attempts = n /\ (row.locked => n >= MAX_LOGIN_ATTEMPTS)

AccountsInv ==
    /\ AccountsTypeOK
    /\ call \in [Slots -> AccountCalls]
    /\ OneRequest
    /\ ~ Registered => failures = 0 /\ \A d \in Codes : otp[d] = NoOtp
    /\ \A w \in Slots : Grounded(call[w], otp)
    /\ serial =>
          /\ \A c, d \in Unused : c = d
          /\ \A w \in Slots : FreshInSerial(call[w], Unused)
    /\ calm =>
          /\ \A w \in Slots : call[w] # Idle => CountInCalm(call[w], user, failures)
          /\ AtRest => CountInCalm(Idle, user, failures)

\* The fields of each kind of request.
LEMMA AccountFields ==
    ASSUME NEW c \in AccountCalls
    PROVE  /\ c.op = "password" => c.attempts \in 0 .. MaxFailures /\ c.status \in AccountStatus
           /\ c.op = "failed" => c.attempts \in 0 .. MaxFailures
           /\ c.op \in {"accept", "refuse"} => c.code \in Codes
           /\ c.op = "refuse" => c.attempts \in 0 .. MAX_OTP_ATTEMPTS
  BY DEF AccountCalls, Idle

\* What the invariant says of the moment a request starts or goes on.
LEMMA AccountsNow ==
    ASSUME AccountsInv, NEW w \in Slots, MayStart(w) \/ call[w] # Idle
    PROVE  /\ Grounded(call[w], otp)
           /\ serial => (\A c, d \in Unused : c = d) /\ FreshInSerial(call[w], Unused)
           /\ calm => CountInCalm(call[w], user, failures)
  <1>1. calm /\ MayStart(w) => AtRest /\ call[w] = Idle
    BY DEF MayStart, calm, serial
  <1> QED
    BY <1>1 DEF AccountsInv

\* The handler in w moves on; the account and the codes that were sent stay.
LEMMA AccountsInvAfter ==
    ASSUME AccountsInv, NEW w \in Slots, NEW c \in AccountCalls, Continue(w, c),
           MayStart(w) \/ call[w] # Idle,
           AccountsTypeOK',
           Registered => Registered',
           ~ Registered' => failures' = 0 /\ \A d \in Codes : otp'[d] = NoOtp,
           \A d \in Codes : otp[d] # NoOtp => otp'[d] # NoOtp,
           Grounded(c, otp)',
           serial => (\A d, e \in Unused' : d = e) /\ FreshInSerial(c, Unused'),
           calm => CountInCalm(c, user', failures')
    PROVE  AccountsInv'
  <1>1. /\ call' \in [Slots -> AccountCalls]
        /\ OneRequest'
        /\ call'[w] = c
        /\ world' = world
        /\ \A v \in Slots \ {w} : call'[v] = call[v]
        /\ serial => \A v \in Slots \ {w} : call[v] = Idle
    <2>1. call \in [Slots -> AccountCalls] /\ OneRequest /\ w \in Slots /\ c \in AccountCalls
      BY DEF AccountsInv
    <2>2. (MayStart(w) \/ call[w] # Idle) /\ Continue(w, c)
      OBVIOUS
    <2> QED
      BY ONLY <2>1, <2>2, HandlerMoves
  <1>2. \A v \in Slots : Grounded(call[v], otp)'
    <2> SUFFICES ASSUME NEW v \in Slots
                 PROVE  Grounded(call[v], otp)'
      OBVIOUS
    <2>1. CASE v = w
      BY <1>1, <2>1 DEF Grounded
    <2>2. CASE v # w
      <3>1. call'[v] = call[v] /\ Grounded(call[v], otp) /\ call[v] \in AccountCalls
        BY <1>1, <2>2 DEF AccountsInv
      <3>2. call[v].op \in {"accept", "refuse"} => call[v].code \in Codes
        BY <3>1, AccountFields
      <3> QED
        BY <3>1, <3>2 DEF Grounded
    <2> QED
      BY <2>1, <2>2
  <1>3. serial' => serial /\ \A v \in Slots : call'[v] = IF v = w THEN c ELSE Idle
    BY <1>1 DEF serial
  <1>4. calm' => calm /\ serial'
    BY <1>1 DEF calm, serial
  <1>5. serial' =>
          /\ \A d, e \in Unused' : d = e
          /\ \A v \in Slots : FreshInSerial(call'[v], Unused')
    BY <1>3 DEF FreshInSerial, Idle
  <1>6. calm' =>
          /\ \A v \in Slots : call'[v] # Idle => CountInCalm(call'[v], user', failures')
          /\ AtRest' => CountInCalm(Idle, user', failures')
    <2>1. AtRest' => call'[w] = Idle
      BY DEF AtRest
    <2> QED
      BY <1>1, <1>3, <1>4, <2>1
  <1> QED
    BY <1>1, <1>2, <1>5, <1>6
    DEF AccountsInv, FreshInSerial, CountInCalm

LEMMA AccountsInvInit == RequestsInit /\ AccountsInit => AccountsInv
  <1> SUFFICES ASSUME RequestsInit, AccountsInit
               PROVE  AccountsInv
    OBVIOUS
  <1> USE AccountsAssumption
  <1>1. AccountsTypeOK /\ failures = 0 /\ Unused = {} /\ \A d \in Codes : otp[d] = NoOtp
    BY DEF AccountsInit, AccountsTypeOK, Unused, NoOtp
  <1>2. call \in [Slots -> AccountCalls] /\ \A w \in Slots : call[w] = Idle
    BY DEF RequestsInit, AccountCalls
  <1>3. Grounded(Idle, otp) /\ FreshInSerial(Idle, Unused) /\ CountInCalm(Idle, user, failures)
    BY DEF Grounded, FreshInSerial, CountInCalm, Idle, AccountsInit
  <1> QED
    BY <1>1, <1>2, <1>3 DEF AccountsInv, OneRequest

\* The statement that changes one code.
LEMMA OneCodeChanged ==
    ASSUME AccountsTypeOK, NEW c \in Codes, NEW row \in OtpRow, otp' = [otp EXCEPT ![c] = row]
    PROVE  /\ otp' \in [Codes -> {NoOtp} \cup OtpRow]
           /\ \A d \in Codes : otp[d] # NoOtp => otp'[d] # NoOtp
           /\ otp[c] # NoOtp => \A d \in Codes : otp'[d] # NoOtp => otp[d] # NoOtp
           /\ row.isUsed => Unused' = Unused \ {c}
           /\ ~ row.isUsed => Unused' = Unused \cup {c}
  <1>1. \A z \in OtpRow : z # NoOtp
    <2>1. ASSUME NEW z \in OtpRow, z = NoOtp
          PROVE  FALSE
      <3>1. "expired" \in DOMAIN z
        BY <2>1 DEF OtpRow
      <3>2. DOMAIN NoOtp = {"isUsed"}
        BY DEF NoOtp
      <3> QED
        BY <2>1, <3>1, <3>2
    <2> QED
      BY <2>1
  <1>2. \A d \in Codes : otp'[d] = IF d = c THEN row ELSE otp[d]
    BY DEF AccountsTypeOK
  <1>3. otp' \in [Codes -> {NoOtp} \cup OtpRow]
    BY DEF AccountsTypeOK
  <1> QED
    BY <1>1, <1>2, <1>3 DEF Unused

\* The account after a statement that sets its status.
LEMMA StatusSet ==
    ASSUME AccountsTypeOK, Registered, NEW x \in AccountStatus, user' = [user EXCEPT !.status = x]
    PROVE  /\ user' \in UserRow /\ Registered'
           /\ user'.attempts = user.attempts /\ user'.locked = user.locked
  <1>1. user \in UserRow
    BY DEF AccountsTypeOK, Registered
  <1>2. user' \in UserRow /\ user'.attempts = user.attempts /\ user'.locked = user.locked
    BY <1>1 DEF UserRow
  <1>3. \A row \in UserRow : row # NoUser
    BY DEF UserRow, NoUser, AccountStatus
  <1> QED
    BY <1>2, <1>3 DEF Registered

\* A handler that changes neither the counters nor the codes.
LEMMA AccountsMove ==
    ASSUME AccountsInv, NEW w \in Slots, NEW c \in AccountCalls, Continue(w, c),
           MayStart(w) \/ call[w] # Idle,
           UNCHANGED <<failures, otp>>, AccountsTypeOK',
           \/ user' = user
           \/ Registered /\ Registered' /\ user'.attempts = user.attempts /\ user'.locked = user.locked,
           Grounded(c, otp),
           c.op \notin {"failed", "saveOtp"}, call[w].op # "failed",
           calm /\ c.op = "password" => ~ user.locked /\ c.attempts = failures
    PROVE  AccountsInv'
  <1>1. /\ Unused' = Unused
        /\ Registered' <=> Registered
        /\ Grounded(c, otp)'
    BY DEF Unused, Registered, Grounded
  <1>2. ~ Registered' => failures' = 0 /\ \A d \in Codes : otp'[d] = NoOtp
    BY <1>1 DEF AccountsInv
  <1>3. serial => (\A d, e \in Unused' : d = e) /\ FreshInSerial(c, Unused')
    BY <1>1, AccountsNow DEF FreshInSerial
  <1>4. calm => CountInCalm(c, user', failures')
    <2>1. calm => CountInCalm(call[w], user, failures)
      BY AccountsNow
    <2> QED
      BY <1>1, <2>1 DEF CountInCalm, Registered
  <1> QED
    BY <1>1, <1>2, <1>3, <1>4, AccountsInvAfter

\* Nobody's handler moves: a suspension, a lock or a code that runs out.
LEMMA AccountsQuiet ==
    ASSUME AccountsInv, call' = call, world' = world, failures' = failures,
           AccountsTypeOK', Unused' = Unused,
           \A d \in Codes : otp[d] # NoOtp <=> otp'[d] # NoOtp,
           \/ user' = user
           \/ Registered /\ Registered' /\ user'.attempts = user.attempts /\ (user'.locked => user.locked)
    PROVE  AccountsInv'
  <1>1. Registered' <=> Registered
    BY DEF Registered
  <1>2. \A v \in Slots : Grounded(call[v], otp)'
    <2> SUFFICES ASSUME NEW v \in Slots
                 PROVE  Grounded(call[v], otp)'
      OBVIOUS
    <2>1. Grounded(call[v], otp) /\ call[v] \in AccountCalls
      BY DEF AccountsInv
    <2>2. call[v].op \in {"accept", "refuse"} => call[v].code \in Codes
      BY <2>1, AccountFields
    <2> QED
      BY <1>1, <2>1, <2>2 DEF Grounded
  <1>3. ASSUME NEW c, CountInCalm(c, user, failures)
        PROVE  CountInCalm(c, user', failures')
    BY <1>3 DEF CountInCalm, Registered
  <1>4. (serial' <=> serial) /\ (calm' <=> calm) /\ (AtRest' <=> AtRest)
    BY DEF serial, calm, AtRest
  <1>5. serial => /\ \A d, e \in Unused' : d = e
                  /\ \A v \in Slots : FreshInSerial(call'[v], Unused')
    BY DEF AccountsInv
  <1>6. calm =>
          /\ \A v \in Slots : call'[v] # Idle => CountInCalm(call'[v], user', failures')
          /\ AtRest => CountInCalm(Idle, user', failures')
    BY <1>3 DEF AccountsInv
  <1> QED
    BY <1>1, <1>2, <1>4, <1>5, <1>6 DEF AccountsInv, OneRequest, FreshInSerial, CountInCalm

LEMMA AccountsInvStutters ==
    ASSUME AccountsInv, UNCHANGED <<world, call, accountVars>>
    PROVE  AccountsInv'
  BY AccountsQuiet DEF accountVars, AccountsInv, AccountsTypeOK, Unused

\* Registration, login and the counters.
LEMMA LoginKeeps ==
    ASSUME AccountsInv, NEW w \in Slots,
           \/ RegisterFind(w) \/ RegisterCreate(w)
           \/ Login(w) \/ WrongPassword(w) \/ HandleFailedLogin(w)
           \/ RightPassword(w) \/ ResetFailedLogins(w)
    PROVE  AccountsInv'
  <1> USE AccountsAssumption
  <1>0. AccountsTypeOK /\ call[w] \in AccountCalls
    BY DEF AccountsInv
  <1>1. \A row \in UserRow : row # NoUser
    BY DEF UserRow, NoUser, AccountStatus
  <1>2. Registered => user \in UserRow
    BY <1>0 DEF AccountsTypeOK, Registered
  <1>3. Idle \in AccountCalls /\ Idle.op = "idle" /\ Grounded(Idle, otp)
    BY DEF AccountCalls, Idle, Grounded
  <1>4. CASE RegisterFind(w)
    <2> DEFINE c == [op |-> "register"]
    <2>1. c \in AccountCalls /\ c.op = "register"
      BY DEF AccountCalls
    <2>2. MayStart(w) /\ Continue(w, c) /\ UNCHANGED accountVars /\ call[w].op = "idle"
      BY <1>3, <1>4 DEF RegisterFind, MayStart
    <2> HIDE DEF c
    <2>3. Grounded(c, otp) /\ AccountsTypeOK'
      BY <1>0, <2>1, <2>2 DEF Grounded, accountVars, AccountsTypeOK
    <2> QED
      BY <2>1, <2>2, <2>3, AccountsMove DEF accountVars
  <1>5. CASE RegisterCreate(w)
    <2>1. call[w].op = "register" /\ call[w] # Idle /\ UNCHANGED <<failures, otp>>
      BY <1>5 DEF RegisterCreate, Idle
    <2>2. CASE Registered
      <3>1. user' = user /\ Continue(w, Idle)
        BY <1>5, <2>2 DEF RegisterCreate
      <3>2. AccountsTypeOK'
        BY <1>0, <2>1, <3>1 DEF AccountsTypeOK
      <3> QED
        BY <1>3, <2>1, <3>1, <3>2, AccountsMove
    <2>3. CASE ~ Registered
      <3> DEFINE c == [op |-> "invalidate"]
      <3>1. c \in AccountCalls /\ c.op = "invalidate"
        BY DEF AccountCalls
      <3>2. Continue(w, c) /\ user' = [status |-> "PENDING", attempts |-> 0, locked |-> FALSE]
        BY <1>5, <2>3 DEF RegisterCreate
      <3> HIDE DEF c
      <3>3. user' \in UserRow /\ user'.attempts = 0 /\ user'.locked = FALSE
        BY <3>2 DEF UserRow, AccountStatus
      <3>4. Registered' /\ AccountsTypeOK' /\ Unused' = Unused
        BY <1>0, <1>1, <2>1, <3>3 DEF Registered, AccountsTypeOK, Unused
      <3>5. Grounded(c, otp)'
        BY <3>1, <3>4 DEF Grounded
      <3>6. serial => (\A d, e \in Unused' : d = e) /\ FreshInSerial(c, Unused')
        BY <2>1, <3>1, <3>4, AccountsNow DEF FreshInSerial
      <3>7. CountInCalm(c, user', failures')
        BY <2>1, <2>3, <3>1, <3>3 DEF CountInCalm, AccountsInv
      <3> QED
        BY <2>1, <2>3, <3>1, <3>2, <3>4, <3>5, <3>6, <3>7, AccountsInvAfter
    <2> QED
      BY <2>2, <2>3
  <1>6. CASE Login(w)
    <2>1. MayStart(w) /\ Registered /\ ~ user.locked /\ UNCHANGED accountVars /\ call[w].op = "idle"
      BY <1>3, <1>6 DEF Login, MayStart
    <2>2. PICK n \in 0 .. MaxFailures, x \in AccountStatus : user.attempts = n /\ user.status = x
      BY <1>2, <2>1 DEF UserRow
    <2> DEFINE c == [op |-> "password", attempts |-> n, status |-> x]
    <2>3. /\ c \in AccountCalls /\ c.op = "password" /\ c.attempts = n /\ Continue(w, c)
      BY <1>6, <2>2 DEF Login, AccountCalls
    <2> HIDE DEF c
    <2>4. Grounded(c, otp) /\ AccountsTypeOK'
      BY <1>0, <2>1, <2>3 DEF Grounded, accountVars, AccountsTypeOK
    <2>5. calm => n = failures
      BY <2>1, <2>2, AccountsNow DEF CountInCalm, Registered
    <2> QED
      BY <2>1, <2>3, <2>4, <2>5, AccountsMove DEF accountVars
  <1>7. CASE WrongPassword(w)
    <2>1. /\ call[w].op = "password" /\ call[w] # Idle
          /\ failures < MaxFailures /\ call[w].attempts < MaxFailures
          /\ failures' = failures + 1 /\ UNCHANGED <<user, otp>>
      BY <1>7 DEF WrongPassword, Idle
    <2>2. PICK n \in 0 .. MaxFailures : call[w].attempts = n
      BY <1>0, <2>1, AccountFields
    <2> DEFINE c == [op |-> "failed", attempts |-> n]
    <2>3. c \in AccountCalls /\ c.op = "failed" /\ c.attempts = n /\ Continue(w, c)
      BY <1>7, <2>2 DEF WrongPassword, AccountCalls
    <2> HIDE DEF c
    <2>4. Registered /\ Registered' /\ Unused' = Unused
      BY <2>1, AccountsNow DEF Grounded, Registered, Unused
    <2>5. AccountsTypeOK'
      BY <1>0, <2>1 DEF AccountsTypeOK
    <2>6. Grounded(c, otp)'
      BY <2>1, <2>2, <2>3, <2>4 DEF Grounded
    <2>7. serial => (\A d, e \in Unused' : d = e) /\ FreshInSerial(c, Unused')
      BY <2>1, <2>3, <2>4, AccountsNow DEF FreshInSerial
    <2>8. calm => CountInCalm(c, user', failures')
      <3>1. calm => CountInCalm(call[w], user, failures)
        BY <2>1, AccountsNow
      <3> QED
        BY <2>1, <2>2, <2>3, <3>1 DEF CountInCalm
    <2> QED
      BY <2>1, <2>3, <2>4, <2>5, <2>6, <2>7, <2>8, AccountsInvAfter
  <1>8. CASE HandleFailedLogin(w)
    <2>1. /\ call[w].op = "failed" /\ call[w] # Idle
          /\ user' = Failed(call[w].attempts + 1)
          /\ Continue(w, Idle) /\ UNCHANGED <<failures, otp>>
      BY <1>8 DEF HandleFailedLogin, Finish, Idle
    <2>2. PICK n \in 0 .. MaxFailures : call[w].attempts = n /\ n < MaxFailures
      BY <1>0, <2>1, AccountFields, AccountsNow DEF Grounded
    <2>3. Registered /\ user \in UserRow
      BY <1>2, <2>1, AccountsNow DEF Grounded
    <2>4. /\ user' \in UserRow /\ user'.attempts = n + 1
          /\ user'.locked <=> user.locked \/ n + 1 >= MAX_LOGIN_ATTEMPTS
      <3>1. user' = [user EXCEPT !.attempts = n + 1,
                                 !.locked = @ \/ n + 1 >= MAX_LOGIN_ATTEMPTS]
        BY <2>1, <2>2 DEF Failed
      <3>2. n + 1 \in 0 .. MaxFailures
        BY <2>2
      <3> DEFINE b == user.locked \/ n + 1 >= MAX_LOGIN_ATTEMPTS
      <3>3. b \in BOOLEAN /\ user' = [user EXCEPT !.attempts = n + 1, !.locked = b]
        BY <3>1
      <3> HIDE DEF b
      <3>4. user' \in UserRow /\ user'.attempts = n + 1 /\ user'.locked = b
        BY <2>3, <3>2, <3>3 DEF UserRow
      <3> QED
        BY <3>4 DEF b
    <2>5. Registered' /\ AccountsTypeOK' /\ Unused' = Unused
      BY <1>0, <1>1, <2>1, <2>4 DEF Registered, AccountsTypeOK, Unused
    <2>6. Grounded(Idle, otp)'
      BY DEF Grounded, Idle
    <2>7. serial => (\A d, e \in Unused' : d = e) /\ FreshInSerial(Idle, Unused')
      BY <2>1, <2>5, AccountsNow DEF FreshInSerial, Idle
    <2>8. calm => CountInCalm(Idle, user', failures')
      <3>1. calm => ~ user.locked /\ n + 1 = failures
        BY <2>1, <2>2, AccountsNow DEF CountInCalm
      <3> QED
        BY <1>3, <2>1, <2>4, <3>1 DEF CountInCalm
    <2> QED
      BY <1>3, <2>1, <2>5, <2>6, <2>7, <2>8, AccountsInvAfter
  <1>9. CASE RightPassword(w)
    <2>1. call[w].op = "password" /\ call[w] # Idle /\ UNCHANGED accountVars
      BY <1>9 DEF RightPassword, Idle
    <2>2. AccountsTypeOK' /\ Registered
      BY <1>0, <2>1, AccountsNow DEF accountVars, AccountsTypeOK, Grounded
    <2> DEFINE c == [op |-> "succeeded"]
    <2>3. c \in AccountCalls /\ c.op = "succeeded"
      BY DEF AccountCalls
    <2>4. Continue(w, Idle) \/ Continue(w, c)
      BY <1>9 DEF RightPassword
    <2> HIDE DEF c
    <2>5. Grounded(c, otp)
      BY <2>2, <2>3 DEF Grounded
    <2>6. CASE Continue(w, Idle)
      BY <1>3, <2>1, <2>2, <2>6, AccountsMove DEF accountVars
    <2>7. CASE Continue(w, c)
      BY <2>1, <2>2, <2>3, <2>5, <2>7, AccountsMove DEF accountVars
    <2> QED
      BY <2>4, <2>6, <2>7
  <1>10. CASE ResetFailedLogins(w)
    <2>1. /\ call[w].op = "succeeded" /\ call[w] # Idle
          /\ user' = [user EXCEPT !.attempts = 0, !.locked = FALSE]
          /\ failures' = 0 /\ otp' = otp /\ Continue(w, Idle)
      BY <1>10 DEF ResetFailedLogins, Finish, Idle
    <2>2. Registered /\ user \in UserRow
      BY <1>2, <2>1, AccountsNow DEF Grounded
    <2>3. user' \in UserRow /\ user'.attempts = 0 /\ user'.locked = FALSE
      <3>1. 0 \in 0 .. MaxFailures
        OBVIOUS
      <3>2. \A b \in BOOLEAN :
               LET row == [user EXCEPT !.attempts = 0, !.locked = b]
               IN  row \in UserRow /\ row.attempts = 0 /\ row.locked = b
        BY <2>2, <3>1 DEF UserRow
      <3> QED
        BY <2>1, <3>2
    <2>4. Registered' /\ AccountsTypeOK' /\ Unused' = Unused
      BY <1>0, <1>1, <2>1, <2>3 DEF Registered, AccountsTypeOK, Unused
    <2>5. Grounded(Idle, otp)'
      BY DEF Grounded, Idle
    <2>6. serial => (\A d, e \in Unused' : d = e) /\ FreshInSerial(Idle, Unused')
      BY <2>1, <2>4, AccountsNow DEF FreshInSerial, Idle
    <2>7. CountInCalm(Idle, user', failures')
      BY <1>3, <2>1, <2>3 DEF CountInCalm
    <2> QED
      BY <1>3, <2>1, <2>4, <2>5, <2>6, <2>7, AccountsInvAfter
  <1> QED
    BY <1>4, <1>5, <1>6, <1>7, <1>8, <1>9, <1>10

\* The one-time codes.
LEMMA CodesKeep ==
    ASSUME AccountsInv, NEW w \in Slots,
           \/ ResendOtp(w) \/ InvalidateOtps(w) \/ SaveOtp(w)
           \/ VerifyOtp(w) \/ OtpAccept(w) \/ OtpRefuse(w) \/ MarkPhoneVerified(w)
           \/ AccountCrash(w)
    PROVE  AccountsInv'
  <1> USE AccountsAssumption
  <1>0. AccountsTypeOK /\ call[w] \in AccountCalls
    BY DEF AccountsInv
  <1>1. Idle \in AccountCalls /\ Idle.op = "idle" /\ Grounded(Idle, otp)
    BY DEF AccountCalls, Idle, Grounded
  \* The account is left alone, and a code is changed by a handler that goes on to c.
  <1>2. ASSUME NEW c \in AccountCalls, Continue(w, c), call[w] # Idle, call[w].op # "failed",
               UNCHANGED <<user, failures>>, Registered,
               otp' \in [Codes -> {NoOtp} \cup OtpRow],
               \A d \in Codes : otp[d] # NoOtp => otp'[d] # NoOtp,
               c.op \notin {"password", "failed", "accept", "refuse"},
               serial => (\A d, e \in Unused' : d = e) /\ FreshInSerial(c, Unused')
        PROVE  AccountsInv'
    <2>1. AccountsTypeOK' /\ Registered'
      BY <1>0, <1>2 DEF AccountsTypeOK, Registered
    <2>2. Grounded(c, otp)'
      BY <1>2, <2>1 DEF Grounded
    <2>3. calm => CountInCalm(c, user', failures')
      <3>1. calm => CountInCalm(call[w], user, failures)
        BY <1>2, AccountsNow
      <3> QED
        BY <1>2, <3>1 DEF CountInCalm
    <2> QED
      BY <1>2, <2>1, <2>2, <2>3, AccountsInvAfter
  <1>3. CASE ResendOtp(w)
    <2> DEFINE c == [op |-> "invalidate"]
    <2>1. c \in AccountCalls /\ c.op = "invalidate"
      BY DEF AccountCalls
    <2>2. /\ MayStart(w) /\ Registered /\ Continue(w, c) /\ UNCHANGED accountVars
          /\ call[w].op = "idle"
      BY <1>1, <1>3 DEF ResendOtp, MayStart
    <2> HIDE DEF c
    <2>3. Grounded(c, otp) /\ AccountsTypeOK'
      BY <1>0, <2>1, <2>2 DEF Grounded, accountVars, AccountsTypeOK
    <2> QED
      BY <2>1, <2>2, <2>3, AccountsMove DEF accountVars
  <1>4. CASE InvalidateOtps(w)
    <2>1. /\ call[w].op = "invalidate" /\ call[w] # Idle
          /\ otp' = [c \in Codes |-> [otp[c] EXCEPT !.isUsed = TRUE]]
          /\ UNCHANGED <<user, failures>>
      BY <1>4 DEF InvalidateOtps, Idle
    <2> DEFINE c == [op |-> "saveOtp"]
    <2>2. c \in AccountCalls /\ c.op = "saveOtp" /\ Continue(w, c)
      BY <1>4 DEF AccountCalls, InvalidateOtps
    <2> HIDE DEF c
    <2>3. ASSUME NEW d \in Codes
          PROVE  /\ otp'[d] \in {NoOtp} \cup OtpRow
                 /\ otp[d] # NoOtp => otp'[d] # NoOtp
                 /\ otp'[d].isUsed
      <3>1. otp'[d] = [otp[d] EXCEPT !.isUsed = TRUE]
        BY <2>1
      <3>2. CASE otp[d] = NoOtp
        BY <3>1, <3>2 DEF NoOtp
      <3>3. CASE otp[d] # NoOtp
        <4>1. otp[d] \in OtpRow
          BY <1>0, <3>3 DEF AccountsTypeOK
        <4>2. otp'[d] \in OtpRow /\ otp'[d].isUsed
          BY <3>1, <4>1 DEF OtpRow
        <4>3. DOMAIN otp'[d] # DOMAIN NoOtp
          BY <4>2 DEF OtpRow, NoOtp
        <4> QED
          BY <4>2, <4>3
      <3> QED
        BY <3>2, <3>3
    <2>4. Unused' = {} /\ otp' \in [Codes -> {NoOtp} \cup OtpRow]
      <3>1. \A d \in Codes : otp'[d] \in {NoOtp} \cup OtpRow
        BY <2>3
      <3> QED
        BY <2>1, <2>3, <3>1 DEF Unused
    <2>5. Registered
      BY <2>1, AccountsNow DEF Grounded
    <2> QED
      BY <1>2, <2>1, <2>2, <2>3, <2>4, <2>5 DEF FreshInSerial
  <1>5. CASE SaveOtp(w)
    <2>1. call[w].op = "saveOtp" /\ call[w] # Idle /\ UNCHANGED <<user, failures>> /\ Continue(w, Idle)
      BY <1>5 DEF SaveOtp, Finish, Idle
    <2> DEFINE row == [isUsed |-> FALSE, expired |-> FALSE, attemptCount |-> 0]
    <2>2. PICK d \in Codes : otp' = [otp EXCEPT ![d] = row]
      BY <1>5 DEF SaveOtp
    <2>3. row \in OtpRow /\ ~ row.isUsed
      BY DEF OtpRow
    <2> HIDE DEF row
    <2>4. /\ otp' \in [Codes -> {NoOtp} \cup OtpRow]
          /\ \A e \in Codes : otp[e] # NoOtp => otp'[e] # NoOtp
          /\ Unused' = Unused \cup {d}
      BY <1>0, <2>2, <2>3, OneCodeChanged
    <2>5. Registered /\ (serial => Unused = {})
      BY <2>1, AccountsNow DEF Grounded, FreshInSerial
    <2> QED
      BY <1>1, <1>2, <2>1, <2>4, <2>5 DEF FreshInSerial
  <1>6. CASE VerifyOtp(w)
    <2>1. MayStart(w) /\ UNCHANGED accountVars /\ call[w].op = "idle"
      BY <1>1, <1>6 DEF VerifyOtp, MayStart
    <2>2. PICK d \in Active :
             \/ Continue(w, [op |-> "accept", code |-> d])
             \/ Continue(w, [op |-> "refuse", code |-> d, attempts |-> otp[d].attemptCount])
      BY <1>6 DEF VerifyOtp
    <2>3. d \in Codes /\ ~ otp[d].isUsed /\ otp[d].attemptCount < MAX_OTP_ATTEMPTS
      BY DEF Active, Unused
    <2>4. otp[d] # NoOtp /\ otp[d] \in OtpRow
      BY <1>0, <2>3 DEF AccountsTypeOK, NoOtp
    <2>5. PICK n \in 0 .. MAX_OTP_ATTEMPTS : otp[d].attemptCount = n /\ n < MAX_OTP_ATTEMPTS
      BY <2>3, <2>4 DEF OtpRow
    <2>6. Registered
      BY <2>3, <2>4 DEF AccountsInv
    <2>7. AccountsTypeOK'
      BY <1>0, <2>1 DEF accountVars, AccountsTypeOK
    <2>8. ASSUME NEW c \in AccountCalls, Continue(w, c), c.op \in {"accept", "refuse"},
                 c.code = d, c.op = "refuse" => c.attempts < MAX_OTP_ATTEMPTS
          PROVE  AccountsInv'
      <3>1. Grounded(c, otp)
        BY <2>4, <2>6, <2>8 DEF Grounded
      <3> QED
        BY <2>1, <2>7, <2>8, <3>1, AccountsMove DEF accountVars
    <2>9. CASE Continue(w, [op |-> "accept", code |-> d])
      <3>1. [op |-> "accept", code |-> d] \in AccountCalls
        BY <2>3 DEF AccountCalls
      <3> QED
        BY <2>8, <2>9, <3>1
    <2>10. CASE Continue(w, [op |-> "refuse", code |-> d, attempts |-> n])
      <3>1. [op |-> "refuse", code |-> d, attempts |-> n] \in AccountCalls
        BY <2>3 DEF AccountCalls
      <3> QED
        BY <2>5, <2>8, <2>10, <3>1
    <2> QED
      BY <2>2, <2>5, <2>9, <2>10
  <1>7. CASE OtpAccept(w)
    <2>1. call[w].op = "accept" /\ call[w] # Idle /\ UNCHANGED <<user, failures>>
      BY <1>7 DEF OtpAccept, Idle
    <2>2. PICK d \in Codes : call[w].code = d
      BY <1>0, <2>1, AccountFields
    <2>3. otp[d] \in OtpRow /\ Registered
      BY <1>0, <2>1, <2>2, AccountsNow DEF Grounded, AccountsTypeOK
    <2> DEFINE row == [otp[d] EXCEPT !.isUsed = TRUE]
               c == [op |-> "mark"]
    <2>4. otp' = [otp EXCEPT ![d] = row] /\ Continue(w, c)
      BY <1>7, <2>2 DEF OtpAccept
    <2>5. row \in OtpRow /\ row.isUsed
      BY <2>3 DEF OtpRow
    <2>6. c \in AccountCalls /\ c.op = "mark"
      BY DEF AccountCalls
    <2> HIDE DEF row, c
    <2>7. /\ otp' \in [Codes -> {NoOtp} \cup OtpRow]
          /\ \A e \in Codes : otp[e] # NoOtp => otp'[e] # NoOtp
          /\ Unused' = Unused \ {d}
      BY <1>0, <2>4, <2>5, OneCodeChanged
    <2>8. serial => (\A e, f \in Unused' : e = f) /\ FreshInSerial(c, Unused')
      BY <2>1, <2>6, <2>7, AccountsNow DEF FreshInSerial
    <2> QED
      BY <1>2, <2>1, <2>3, <2>4, <2>6, <2>7, <2>8
  <1>8. CASE OtpRefuse(w)
    <2>1. call[w].op = "refuse" /\ call[w] # Idle /\ UNCHANGED <<user, failures>> /\ Continue(w, Idle)
      BY <1>8 DEF OtpRefuse, Finish, Idle
    <2>2. PICK d \in Codes, n \in 0 .. MAX_OTP_ATTEMPTS :
             call[w].code = d /\ call[w].attempts = n /\ n < MAX_OTP_ATTEMPTS
      BY <1>0, <2>1, AccountFields, AccountsNow DEF Grounded
    <2>3. otp[d] \in OtpRow /\ Registered
      BY <1>0, <2>1, <2>2, AccountsNow DEF Grounded, AccountsTypeOK
    <2> DEFINE row == [otp[d] EXCEPT !.attemptCount = n + 1]
    <2>4. otp' = [otp EXCEPT ![d] = row]
      BY <1>8, <2>2 DEF OtpRefuse
    <2>5. row \in OtpRow /\ row.isUsed = otp[d].isUsed
      <3>1. n + 1 \in 0 .. MAX_OTP_ATTEMPTS
        BY <2>2
      <3> QED
        BY <2>3, <3>1 DEF OtpRow
    <2> HIDE DEF row
    <2>6. /\ otp' \in [Codes -> {NoOtp} \cup OtpRow]
          /\ \A e \in Codes : otp[e] # NoOtp => otp'[e] # NoOtp
          /\ Unused' = Unused
      <3>1. d \in Unused <=> ~ row.isUsed
        BY <2>5 DEF Unused
      <3>2. /\ otp' \in [Codes -> {NoOtp} \cup OtpRow]
            /\ \A e \in Codes : otp[e] # NoOtp => otp'[e] # NoOtp
            /\ row.isUsed => Unused' = Unused \ {d}
            /\ ~ row.isUsed => Unused' = Unused \cup {d}
        BY <1>0, <2>4, <2>5, OneCodeChanged
      <3>3. CASE row.isUsed
        BY <3>1, <3>2, <3>3
      <3>4. CASE ~ row.isUsed
        BY <3>1, <3>2, <3>4
      <3> QED
        BY <3>2, <3>3, <3>4
    <2>7. serial => (\A e, f \in Unused' : e = f) /\ FreshInSerial(Idle, Unused')
      BY <1>1, <2>1, <2>6, AccountsNow DEF FreshInSerial
    <2> QED
      BY <1>1, <1>2, <2>1, <2>3, <2>6, <2>7
  <1>9. CASE MarkPhoneVerified(w)
    <2>1. /\ call[w].op = "mark" /\ call[w] # Idle /\ UNCHANGED <<failures, otp>>
          /\ user' = [user EXCEPT !.status = "VERIFIED"] /\ Continue(w, Idle)
      BY <1>9 DEF MarkPhoneVerified, Finish, Idle
    <2>2. Registered
      BY <2>1, AccountsNow DEF Grounded
    <2>3. user' \in UserRow /\ Registered' /\ user'.attempts = user.attempts /\ user'.locked = user.locked
      <3>1. "VERIFIED" \in AccountStatus
        BY DEF AccountStatus
      <3> QED
        BY <1>0, <2>1, <2>2, <3>1, StatusSet
    <2>4. AccountsTypeOK'
      BY <1>0, <2>1, <2>3 DEF AccountsTypeOK
    <2> QED
      BY <1>1, <2>1, <2>2, <2>3, <2>4, AccountsMove
  <1>10. CASE AccountCrash(w)
    <2>1. ~ calm /\ call[w] # Idle /\ Continue(w, Idle) /\ UNCHANGED accountVars
      BY <1>10, CrashMoves DEF AccountCrash
    <2>2. AccountsTypeOK' /\ (Registered' <=> Registered) /\ Unused' = Unused
      BY <1>0, <2>1 DEF accountVars, AccountsTypeOK, Registered, Unused
    <2>3. Grounded(Idle, otp)'
      BY DEF Grounded, Idle
    <2>4. serial => (\A d, e \in Unused' : d = e) /\ FreshInSerial(Idle, Unused')
      BY <1>1, <2>1, <2>2, AccountsNow DEF FreshInSerial
    <2>5. ~ Registered' => failures' = 0 /\ \A d \in Codes : otp'[d] = NoOtp
      BY <2>1, <2>2 DEF accountVars, AccountsInv
    <2> QED
      BY <1>1, <2>1, <2>2, <2>3, <2>4, <2>5, AccountsInvAfter DEF accountVars
  <1> QED
    BY <1>3, <1>4, <1>5, <1>6, <1>7, <1>8, <1>9, <1>10

LEMMA AccountsInvStep == AccountsInv /\ AccountsNext => AccountsInv'
  <1> SUFFICES ASSUME AccountsInv, AccountsNext
               PROVE  AccountsInv'
    OBVIOUS
  <1>0. AccountsTypeOK
    BY DEF AccountsInv
  <1>1. CASE Suspend
    <2>1. Registered /\ user' = [user EXCEPT !.status = "SUSPENDED"]
          /\ UNCHANGED <<world, call, failures, otp>>
      BY <1>1 DEF Suspend
    <2>2. user' \in UserRow /\ Registered' /\ user'.attempts = user.attempts /\ user'.locked = user.locked
      <3>1. "SUSPENDED" \in AccountStatus
        BY DEF AccountStatus
      <3> QED
        BY <1>0, <2>1, <3>1, StatusSet
    <2>3. AccountsTypeOK' /\ Unused' = Unused
      BY <1>0, <2>1, <2>2 DEF AccountsTypeOK, Unused
    <2> QED
      BY <2>1, <2>2, <2>3, AccountsQuiet
  <1>2. CASE LockRunsOut
    <2>1. Registered /\ user' = [user EXCEPT !.locked = FALSE]
          /\ UNCHANGED <<world, call, failures, otp>>
      BY <1>2 DEF LockRunsOut
    <2>2. user \in UserRow
      BY <1>0, <2>1 DEF AccountsTypeOK, Registered
    <2>3. user' \in UserRow /\ user'.attempts = user.attempts /\ ~ user'.locked
      BY <2>1, <2>2 DEF UserRow
    <2>4. \A row \in UserRow : row # NoUser
      BY DEF UserRow, NoUser, AccountStatus
    <2>5. AccountsTypeOK' /\ Registered' /\ Unused' = Unused
      BY <1>0, <2>1, <2>3, <2>4 DEF AccountsTypeOK, Registered, Unused
    <2> QED
      BY <2>1, <2>3, <2>5, AccountsQuiet
  <1>3. CASE OtpRunsOut
    <2>1. PICK d \in Unused : otp' = [otp EXCEPT ![d].expired = TRUE]
      BY <1>3 DEF OtpRunsOut
    <2>2. UNCHANGED <<world, call, user, failures>>
      BY <1>3 DEF OtpRunsOut
    <2>3. d \in Codes /\ otp[d] \in OtpRow
      BY <1>0 DEF Unused, AccountsTypeOK, NoOtp
    <2> DEFINE row == [otp[d] EXCEPT !.expired = TRUE]
    <2>4. row \in OtpRow /\ row.isUsed = otp[d].isUsed /\ otp' = [otp EXCEPT ![d] = row]
      BY <2>1, <2>3 DEF OtpRow
    <2> HIDE DEF row
    <2>5. ~ row.isUsed
      BY <2>4 DEF Unused
    <2>6. /\ otp' \in [Codes -> {NoOtp} \cup OtpRow]
          /\ \A e \in Codes : otp[e] # NoOtp <=> otp'[e] # NoOtp
          /\ Unused' = Unused
      <3>1. otp[d] # NoOtp
        BY DEF Unused, NoOtp
      <3>2. /\ otp' \in [Codes -> {NoOtp} \cup OtpRow]
            /\ \A e \in Codes : otp[e] # NoOtp <=> otp'[e] # NoOtp
            /\ Unused' = Unused \cup {d}
        BY <1>0, <2>3, <2>4, <2>5, <3>1, OneCodeChanged
      <3> QED
        BY <3>2
    <2>7. AccountsTypeOK'
      BY <1>0, <2>2, <2>6 DEF AccountsTypeOK
    <2> QED
      BY <2>2, <2>6, <2>7, AccountsQuiet
  <1> QED
    BY <1>1, <1>2, <1>3, LoginKeeps, CodesKeep DEF AccountsNext

LEMMA AccountsPromises == AccountsInv => CalmCountIsTrue /\ SerialOneCode
  <1> SUFFICES ASSUME AccountsInv
               PROVE  CalmCountIsTrue /\ SerialOneCode
    OBVIOUS
  <1>1. CalmCountIsTrue
    BY DEF AccountsInv, CalmCountIsTrue, CountInCalm, Idle, Registered
  <1>2. ASSUME serial
        PROVE  Cardinality(Unused) <= 1
    <2>1. \A c, d \in Unused : c = d
      BY <1>2 DEF AccountsInv
    <2>2. CASE Unused = {}
      BY <2>2, FS_EmptySet
    <2>3. CASE \E c : Unused = {c}
      BY <2>3, FS_Singleton
    <2> QED
      BY <2>1, <2>2, <2>3
  <1> QED
    BY <1>1, <1>2 DEF SerialOneCode

--------------------------------------------------------------------------------
(* All of them.                                                             *)

\* Nobody changes the world.
LEMMA WorldStays ==
    /\ AccountsNext \/ SessionsNext \/ CommissionNext \/ StationsNext => world' = world
    /\ StaffNext \/ CustomersNext \/ CatalogueNext \/ DisputesNext => world' = world
    /\ IntakeNext \/ FilesNext => world' = world
  <1> USE DEF Continue, Finish, Crash, NoRequest
  <1>1. AccountsNext => world' = world
    BY DEF AccountsNext, Suspend, LockRunsOut, OtpRunsOut, RegisterFind, RegisterCreate, Login,
           WrongPassword, HandleFailedLogin, RightPassword, ResetFailedLogins, ResendOtp,
           InvalidateOtps, SaveOtp, VerifyOtp, OtpAccept, OtpRefuse, MarkPhoneVerified, AccountCrash
  <1>2. SessionsNext => world' = world
    BY DEF SessionsNext, Expire, LoginAccepted, Refresh, RefreshRefused, RefreshRevoke,
           GenerateTokens, Answer, Logout, LogoutAnswer, SignOut, SessionCrash
  <1>3. CommissionNext => world' = world
    BY DEF CommissionNext, SetCommission, CommissionSave
  <1>4. StationsNext => world' = world
    BY DEF StationsNext, SetSignal, CreateStation, CreateStationSave, ReportFalseAvailability, Strike
  <1>5. StaffNext => world' = world
    BY DEF StaffNext, AssignStaff, AssignSave, Revive, RemoveStaff, RemoveSave, SaveLink
  <1>6. CustomersNext => world' = world
    BY DEF CustomersNext, FindByUserId, CreateProfile, AddAddress, AddAddressSave, UpdateAddress,
           UpdateAddressClear, UpdateAddressSet, DeleteAddress, SoftDelete
  <1>7. CatalogueNext => world' = world
    BY DEF CatalogueNext, SetPricing, PricingUpdate, PricingInsert, PricingHistory
  <1>8. DisputesNext => world' = world
    BY DEF DisputesNext, OpenDispute, AssignAdmin, DisputeWrite, Resolve, ResolveTell, Review,
           ReviewSave
  <1>9. IntakeNext => world' = world
    BY DEF IntakeNext, CreateOrder, InsertOrder, CreateOrderAnswer
  <1>10. FilesNext => world' = world
    BY DEF FilesNext, Upload, PutObject, SaveFile
  <1> QED
    BY <1>1, <1>2, <1>3, <1>4, <1>5, <1>6, <1>7, <1>8, <1>9, <1>10

\* The parts that serve requests.
Serving == {"account", "session", "commission", "station", "staff", "customer", "catalogue",
            "dispute", "intake", "file"}

ServicesInv ==
    /\ focus \in Parts
    /\ world \in Worlds
    /\ focus \notin Serving => call = [w \in Slots |-> Idle]
    /\ IF focus = "account" THEN AccountsInv ELSE AccountsInit
    /\ IF focus = "session" THEN SessionsInv ELSE SessionsInit
    /\ IF focus = "commission" THEN CommissionInv ELSE CommissionInit
    /\ IF focus = "station" THEN StationsInv ELSE StationsInit
    /\ IF focus = "staff" THEN StaffInv ELSE StaffInit
    /\ IF focus = "customer" THEN CustomersInv ELSE CustomersInit
    /\ IF focus = "catalogue" THEN CatalogueInv ELSE CatalogueInit
    /\ IF focus = "dispute" THEN DisputesInv ELSE DisputesInit
    /\ IF focus = "intake" THEN IntakeInv ELSE IntakeInit
    /\ IF focus = "file" THEN FilesInv ELSE FilesInit
    /\ IInv

LEMMA ServicesInvInit == Init => ServicesInv
  <1> SUFFICES ASSUME Init
               PROVE  ServicesInv
    OBVIOUS
  <1>1. /\ focus \in Parts /\ RequestsInit
        /\ AccountsInit /\ SessionsInit /\ CommissionInit /\ StationsInit /\ StaffInit
        /\ CustomersInit /\ CatalogueInit /\ DisputesInit /\ IntakeInit /\ FilesInit
        /\ WalletInit
    BY DEF Init
  <1>2. world \in Worlds /\ call = [w \in Slots |-> Idle]
    BY <1>1 DEF RequestsInit
  <1> QED
    BY <1>1, <1>2, AccountsInvInit, SessionsInvInit, CommissionInvInit, StationsInvInit,
       StaffInvInit, CustomersInvInit, CatalogueInvInit, DisputesInvInit, IntakeInvInit,
       FilesInvInit, InitHolds
    DEF ServicesInv

\* A part that does not move keeps its initial state.
LEMMA AtInit ==
    /\ AccountsInit /\ UNCHANGED accountVars => AccountsInit'
    /\ SessionsInit /\ UNCHANGED sessionVars => SessionsInit'
    /\ CommissionInit /\ UNCHANGED commissionVars => CommissionInit'
    /\ StationsInit /\ UNCHANGED stationVars => StationsInit'
    /\ StaffInit /\ UNCHANGED staffVars => StaffInit'
    /\ CustomersInit /\ UNCHANGED customerVars => CustomersInit'
    /\ CatalogueInit /\ UNCHANGED catalogueVars => CatalogueInit'
    /\ DisputesInit /\ UNCHANGED disputeVars => DisputesInit'
    /\ IntakeInit /\ UNCHANGED intakeVars => IntakeInit'
    /\ FilesInit /\ UNCHANGED fileVars => FilesInit'
    /\ IInv /\ UNCHANGED walletVars => IInv'
  <1>1. AccountsInit /\ UNCHANGED accountVars => AccountsInit'
    BY DEF AccountsInit, accountVars
  <1>2. SessionsInit /\ UNCHANGED sessionVars => SessionsInit'
    BY DEF SessionsInit, sessionVars
  <1>3. CommissionInit /\ UNCHANGED commissionVars => CommissionInit'
    BY DEF CommissionInit, commissionVars
  <1>4. StationsInit /\ UNCHANGED stationVars => StationsInit'
    BY DEF StationsInit, stationVars
  <1>5. StaffInit /\ UNCHANGED staffVars => StaffInit'
    BY DEF StaffInit, staffVars
  <1>6. CustomersInit /\ UNCHANGED customerVars => CustomersInit'
    BY DEF CustomersInit, customerVars
  <1>7. CatalogueInit /\ UNCHANGED catalogueVars => CatalogueInit'
    BY DEF CatalogueInit, catalogueVars
  <1>8. DisputesInit /\ UNCHANGED disputeVars => DisputesInit'
    BY DEF DisputesInit, disputeVars
  <1>9. IntakeInit /\ UNCHANGED intakeVars => IntakeInit'
    BY DEF IntakeInit, intakeVars
  <1>10. FilesInit /\ UNCHANGED fileVars => FilesInit'
    BY DEF FilesInit, fileVars
  <1>11. IInv /\ UNCHANGED walletVars => IInv'
    BY StepKeeps
  <1> QED
    BY <1>1, <1>2, <1>3, <1>4, <1>5, <1>6, <1>7, <1>8, <1>9, <1>10, <1>11

\* The part in focus keeps its invariant.
LEMMA ServicesInvStep == ServicesInv /\ Next => ServicesInv'
  <1> SUFFICES ASSUME ServicesInv, Next
               PROVE  ServicesInv'
    OBVIOUS
  <1>1. CASE Only("account") /\ AccountsNext
    BY <1>1, AccountsInvStep, AtInit, WorldStays DEF Only, ServicesInv, Serving
  <1>2. CASE Only("session") /\ SessionsNext
    BY <1>2, SessionsInvStep, AtInit, WorldStays DEF Only, ServicesInv, Serving
  <1>3. CASE Only("commission") /\ CommissionNext
    BY <1>3, CommissionInvStep, AtInit, WorldStays DEF Only, ServicesInv, Serving
  <1>4. CASE Only("station") /\ StationsNext
    BY <1>4, StationsInvStep, AtInit, WorldStays DEF Only, ServicesInv, Serving
  <1>5. CASE Only("staff") /\ StaffNext
    BY <1>5, StaffInvStep, AtInit, WorldStays DEF Only, ServicesInv, Serving
  <1>6. CASE Only("customer") /\ CustomersNext
    BY <1>6, CustomersInvStep, AtInit, WorldStays DEF Only, ServicesInv, Serving
  <1>7. CASE Only("catalogue") /\ CatalogueNext
    BY <1>7, CatalogueInvStep, AtInit, WorldStays DEF Only, ServicesInv, Serving
  <1>8. CASE Only("dispute") /\ DisputesNext
    BY <1>8, DisputesInvStep, AtInit, WorldStays DEF Only, ServicesInv, Serving
  <1>9. CASE Only("intake") /\ IntakeNext
    BY <1>9, IntakeInvStep, AtInit, WorldStays DEF Only, ServicesInv, Serving
  <1>10. CASE Only("file") /\ FilesNext
    BY <1>10, FilesInvStep, AtInit, WorldStays DEF Only, ServicesInv, Serving
  <1>11. CASE Only("wallet") /\ WalletNext /\ NoRequest
    BY <1>11, StepKeeps, AtInit DEF Only, NoRequest, ServicesInv, Serving
  <1> QED
    BY <1>1, <1>2, <1>3, <1>4, <1>5, <1>6, <1>7, <1>8, <1>9, <1>10, <1>11 DEF Next

\* Nor does a step that changes nothing.
LEMMA ServicesInvStutters == ServicesInv /\ UNCHANGED vars => ServicesInv'
  <1> SUFFICES ASSUME ServicesInv, UNCHANGED vars
               PROVE  ServicesInv'
    OBVIOUS
  <1> USE DEF OneRequest, serial, calm, AtRest
  <1>1. /\ UNCHANGED <<focus, world, call>>
        /\ UNCHANGED accountVars /\ UNCHANGED sessionVars /\ UNCHANGED commissionVars
        /\ UNCHANGED stationVars /\ UNCHANGED staffVars /\ UNCHANGED customerVars
        /\ UNCHANGED catalogueVars /\ UNCHANGED disputeVars /\ UNCHANGED intakeVars
        /\ UNCHANGED fileVars /\ UNCHANGED walletVars
    BY DEF vars
  <1>2. AccountsInv => AccountsInv'
    BY <1>1, AccountsInvStutters
  <1>3. SessionsInv => SessionsInv'
    BY <1>1, SessionsInvStutters
  <1>4. CommissionInv => CommissionInv'
    BY <1>1 DEF commissionVars, CommissionInv, CommissionTypeOK, ActiveRules
  <1>5. StationsInv => StationsInv'
    BY <1>1 DEF stationVars, StationsInv, StationsTypeOK, Known
  <1>6. StaffInv => StaffInv'
    BY <1>1 DEF staffVars, StaffInv, StaffTypeOK, AnyLinks, LinkTo, Assigned
  <1>7. CustomersInv => CustomersInv'
    BY <1>1 DEF customerVars, CustomersInv, CustomersTypeOK, Present, Defaults, Chosen, MakesDefault
  <1>8. CatalogueInv => CatalogueInv'
    BY <1>1 DEF catalogueVars, CatalogueInv, CatalogueTypeOK
  <1>9. DisputesInv => DisputesInv'
    BY <1>1 DEF disputeVars, DisputesInv, DisputesTypeOK, Opened, SerialResolutionTold
  <1>10. IntakeInv => IntakeInv'
    BY <1>1 DEF intakeVars, IntakeInv, IntakeTypeOK, Taken, OrdersOf, AnsweredHasOrder, SerialNumberIsFree
  <1>11. FilesInv => FilesInv'
    BY <1>1 DEF fileVars, FilesInv, FilesTypeOK, RowHasObject
  <1> QED
    BY <1>1, <1>2, <1>3, <1>4, <1>5, <1>6, <1>7, <1>8, <1>9, <1>10, <1>11, AtInit DEF ServicesInv

LEMMA ServicesInvariant == Spec => []ServicesInv
  <1>1. ServicesInv /\ [Next]_vars => ServicesInv'
    BY ServicesInvStep, ServicesInvStutters
  <1> QED
    BY <1>1, ServicesInvInit, PTL DEF Spec

\* The initial state of a part is one of its invariant, but for the requests, which
\* are then those of another part.
LEMMA InitPromises ==
    /\ SessionsInit => ParentsAreRevoked /\ SerialExchangedOnce /\ CalmCookieIsNewest
    /\ AccountsInit => CalmCountIsTrue /\ SerialOneCode
    /\ CommissionInit => SerialOneRule /\ CalmRuleStands
    /\ StationsInit => SerialCodeIsFree /\ SerialStrikesCounted
    /\ StaffInit => CalmScopeFollowsAdmin
    /\ CustomersInit => SerialOneDefault /\ CalmDefaultIsChosen
    /\ CatalogueInit => CalmPriceIsRecorded
    /\ DisputesInit => SerialResolutionTold
    /\ IntakeInit => SerialNumberIsFree /\ AnsweredHasOrder
    /\ FilesInit => RowHasObject
  <1>1. SessionsInit => ParentsAreRevoked /\ SerialExchangedOnce /\ CalmCookieIsNewest
    BY DEF SessionsInit, ParentsAreRevoked, SerialExchangedOnce, ExchangedOnce, CalmCookieIsNewest
  <1>2. AccountsInit => CalmCountIsTrue /\ SerialOneCode
    <2>1. AccountsInit => Unused = {} /\ ~ Registered
      BY DEF AccountsInit, Unused, NoOtp, Registered
    <2> QED
      BY <2>1, FS_EmptySet DEF CalmCountIsTrue, SerialOneCode
  <1>3. CommissionInit => SerialOneRule /\ CalmRuleStands
    <2>1. CommissionInit => \A s : ActiveRules(s) = {}
      BY DEF CommissionInit, ActiveRules, NoRule
    <2> QED
      BY <2>1, FS_EmptySet DEF CommissionInit, SerialOneRule, CalmRuleStands
  <1>4. StationsInit => SerialCodeIsFree /\ SerialStrikesCounted
    <2>1. StationsInit => Known = {}
      BY DEF StationsInit, Known
    <2> QED
      BY <2>1 DEF SerialCodeIsFree, SerialStrikesCounted
  <1>5. StaffInit => CalmScopeFollowsAdmin
    BY DEF StaffInit, CalmScopeFollowsAdmin, Resolved, Assigned, LinkTo, NoLink
  <1>6. CustomersInit => SerialOneDefault /\ CalmDefaultIsChosen
    <2>1. CustomersInit => Defaults = {} /\ chosen = NoAddress
      BY DEF CustomersInit, Defaults, Present
    <2> QED
      BY <2>1, FS_EmptySet DEF SerialOneDefault, CalmDefaultIsChosen
  <1>7. CatalogueInit => CalmPriceIsRecorded
    BY DEF CatalogueInit, CalmPriceIsRecorded
  <1>8. DisputesInit => SerialResolutionTold
    BY DEF DisputesInit, SerialResolutionTold
  <1>9. IntakeInit => SerialNumberIsFree /\ AnsweredHasOrder
    <2>1. IntakeInit => Taken = {} /\ answered = {}
      BY DEF IntakeInit, Taken
    <2> QED
      BY <2>1 DEF SerialNumberIsFree, AnsweredHasOrder
  <1>10. FilesInit => RowHasObject
    BY DEF FilesInit, RowHasObject
  <1> QED
    BY <1>1, <1>2, <1>3, <1>4, <1>5, <1>6, <1>7, <1>8, <1>9, <1>10

\* What follows from the invariant of the part in focus, and from the initial state of
\* the others.
LEMMA ServicesPromises ==
    ServicesInv =>
        /\ ParentsAreRevoked /\ CalmCookieIsNewest /\ CalmCountIsTrue
        /\ SerialOnlyOne /\ CalmAnswersHold /\ SerialCountsAreTrue /\ ToldIsSo
  <1> SUFFICES ASSUME ServicesInv
               PROVE  /\ ParentsAreRevoked /\ CalmCookieIsNewest /\ CalmCountIsTrue
                      /\ SerialOnlyOne /\ CalmAnswersHold /\ SerialCountsAreTrue /\ ToldIsSo
    OBVIOUS
  <1>1. ParentsAreRevoked /\ SerialExchangedOnce /\ CalmCookieIsNewest
    BY SessionsPromises, InitPromises DEF ServicesInv
  <1>2. CalmCountIsTrue /\ SerialOneCode
    BY AccountsPromises, InitPromises DEF ServicesInv
  <1>3. SerialOneRule /\ CalmRuleStands
    BY CommissionPromises, InitPromises DEF ServicesInv
  <1>4. SerialCodeIsFree /\ SerialStrikesCounted
    BY StationsPromises, InitPromises DEF ServicesInv
  <1>5. CalmScopeFollowsAdmin
    BY StaffPromises, InitPromises DEF ServicesInv
  <1>6. SerialOneDefault /\ CalmDefaultIsChosen
    BY CustomersPromises, InitPromises DEF ServicesInv
  <1>7. CalmPriceIsRecorded
    BY CataloguePromises, InitPromises DEF ServicesInv
  <1>8. SerialResolutionTold
    BY DisputesPromises, InitPromises DEF ServicesInv
  <1>9. SerialNumberIsFree /\ AnsweredHasOrder
    BY IntakePromises, InitPromises DEF ServicesInv
  <1>10. RowHasObject
    BY InitPromises DEF ServicesInv, FilesInv
  <1> QED
    BY <1>1, <1>2, <1>3, <1>4, <1>5, <1>6, <1>7, <1>8, <1>9, <1>10
    DEF SerialOnlyOne, CalmAnswersHold, SerialCountsAreTrue, ToldIsSo

\* Types: the rows of each part, and the requests of the part in focus.
LEMMA ServicesTyped == ServicesInv => TypeOK
  <1> SUFFICES ASSUME ServicesInv
               PROVE  TypeOK
    OBVIOUS
  <1>1. AccountsTypeOK
    BY AccountsAssumption DEF ServicesInv, AccountsInv, AccountsInit, AccountsTypeOK
  <1>2. SessionsTypeOK
    BY SessionsAssumption DEF ServicesInv, SessionsInv, SessionsInit, SessionsTypeOK, TokenState, Cookies
  <1>3. CommissionTypeOK
    BY DEF ServicesInv, CommissionInv, CommissionInit, CommissionTypeOK
  <1>4. StationsTypeOK
    BY StationsAssumption DEF ServicesInv, StationsInv, StationsInit, StationsTypeOK
  <1>5. StaffTypeOK
    BY DEF ServicesInv, StaffInv, StaffInit, StaffTypeOK
  <1>6. CustomersTypeOK
    BY DEF ServicesInv, CustomersInv, CustomersInit, CustomersTypeOK
  <1>7. CatalogueTypeOK
    BY DEF ServicesInv, CatalogueInv, CatalogueInit, CatalogueTypeOK
  <1>8. DisputesTypeOK
    BY DisputesAssumption DEF ServicesInv, DisputesInv, DisputesInit, DisputesTypeOK
  <1>9. IntakeTypeOK
    BY DEF ServicesInv, IntakeInv, IntakeInit, IntakeTypeOK, Taken
  <1>10. FilesTypeOK
    BY DEF ServicesInv, FilesInv, FilesInit, FilesTypeOK
  <1>11. WalletTypeOK
    BY DEF ServicesInv, IInv
  <1>12. \/ call \in [Slots -> AccountCalls] \/ call \in [Slots -> SessionCalls]
         \/ call \in [Slots -> {Idle} \cup CommissionCalls] \/ call \in [Slots -> {Idle} \cup StationCalls]
         \/ call \in [Slots -> {Idle} \cup StaffCalls] \/ call \in [Slots -> {Idle} \cup CustomerCalls]
         \/ call \in [Slots -> {Idle} \cup CatalogueCalls] \/ call \in [Slots -> {Idle} \cup DisputeCalls]
         \/ call \in [Slots -> {Idle} \cup IntakeCalls] \/ call \in [Slots -> {Idle} \cup FileCalls]
    <2>1. CASE focus \notin Serving
      BY <2>1 DEF ServicesInv, AccountCalls
    <2>2. CASE focus \in Serving
      BY <2>2
      DEF Serving, ServicesInv, AccountsInv, SessionsInv, CommissionInv, StationsInv, StaffInv,
          CustomersInv, CatalogueInv, DisputesInv, IntakeInv, FilesInv
    <2> QED
      BY <2>1, <2>2
  <1>13. Idle \in AccountCalls
    BY DEF AccountCalls
  <1>14. call \in [Slots -> AccountCalls \cup SessionCalls \cup CommissionCalls \cup
                      StationCalls \cup StaffCalls \cup CustomerCalls \cup CatalogueCalls \cup
                      DisputeCalls \cup IntakeCalls \cup FileCalls]
    BY <1>12, <1>13
  <1> QED
    BY <1>1, <1>2, <1>3, <1>4, <1>5, <1>6, <1>7, <1>8, <1>9, <1>10, <1>11, <1>14
    DEF TypeOK, ServicesInv

\* Type correctness of every service and of the requests under way.
THEOREM ServicesTypeCorrect == Spec => []TypeOK
  <1> QED
    BY ServicesInvariant, ServicesTyped, PTL

\* While nobody races and no answer is lost, a refresh never leaves the browser with
\* a cookie that it has spent; the rotation holds beside the other services as well.
THEOREM CalmCookieIsNewestHolds == Spec => [](CalmCookieIsNewest /\ ParentsAreRevoked)
  <1>1. ServicesInv => CalmCookieIsNewest /\ ParentsAreRevoked
    BY ServicesPromises
  <1> QED
    BY <1>1, ServicesInvariant, PTL

\* While nobody races, the counter of an account is the number of wrong passwords in a
\* row, and the account is locked by the last of MAX_LOGIN_ATTEMPTS and no sooner.
THEOREM CalmCountIsTrueHolds == Spec => []CalmCountIsTrue
  <1>1. ServicesInv => CalmCountIsTrue
    BY ServicesPromises
  <1> QED
    BY <1>1, ServicesInvariant, PTL

\* Where there is to be one rule, default address, usable code or successor of a token,
\* requests that follow each other never leave two, wherever they are cut short.
THEOREM SerialOnlyOneHolds == Spec => []SerialOnlyOne
  <1>1. ServicesInv => SerialOnlyOne
    BY ServicesPromises
  <1> QED
    BY <1>1, ServicesInvariant, PTL

\* While nobody races or fails, what a console or an app was told it had set is what
\* the readers find: commissions, stations of staff, default addresses, prices.
THEOREM CalmAnswersHoldHolds == Spec => []CalmAnswersHold
  <1>1. ServicesInv => CalmAnswersHold
    BY ServicesPromises
  <1> QED
    BY <1>1, ServicesInvariant, PTL

\* Counted codes and numbers are free and strikes are the reports, while requests
\* follow each other.
THEOREM SerialCountsAreTrueHolds == Spec => []SerialCountsAreTrue
  <1>1. ServicesInv => SerialCountsAreTrue
    BY ServicesPromises
  <1> QED
    BY <1>1, ServicesInvariant, PTL

\* The order of an answer, the object of a file and the resolution an event announces
\* exist, whatever races and fails.
THEOREM ToldIsSoHolds == Spec => []ToldIsSo
  <1>1. ServicesInv => ToldIsSo
    BY ServicesPromises
  <1> QED
    BY <1>1, ServicesInvariant, PTL
================================================================================
